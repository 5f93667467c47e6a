-------------------------- MODULE RepairLoop_proofs --------------------------
(***************************************************************************)
(* Proofs about RepairLoop, for any number of requests, permits, attempts  *)
(* and invocations, and for any times of which the script's is the longer: *)
(* no provider of the pool is skipped, and the script returns what its own *)
(* server has shown, with nothing left running.                            *)
(***************************************************************************)
EXTENDS RepairLoop, FiniteSetTheorems, TLAPS

Elements(s) == {s[i] : i \in 1 .. Len(s)}

(* The providers still to ask and the ones that have failed a request are   *)
(* all of them, from the call to the answer.                                *)
PoolTypes ==
  /\ stage \in [Requests -> {"idle", "waiting", "asking", "done"}]
  /\ left \in [Requests -> Seq(Provider)]
  /\ spent \in [Requests -> SUBSET Provider]
  /\ answer \in [Requests -> Provider \cup {"none", "offline"}]

RequestInv(r) ==
  /\ stage[r] # "idle" => spent[r] \cup Elements(left[r]) = Provider
  /\ stage[r] # "done" => answer[r] = "none"
  /\ answer[r] = "offline" => left[r] = <<>>
  /\ answer[r] \in Provider => left[r] # <<>> /\ answer[r] = Head(left[r])

PoolInv == PoolTypes /\ \A r \in Requests : RequestInv(r)

(* Where the loop is, and what it knows there: nothing of an earlier        *)
(* invocation lives once it has killed, and a bot that holds is on this     *)
(* attempt's server.                                                        *)
LoopTypes ==
  /\ result \in {"none", "passed", "failed", "raised"}
  /\ server \in {"none", "starting", "up", "stopping", "exited"}
  /\ old \in BOOLEAN
  /\ bot \in {"none", "loading", "connecting", "holding", "exited"}
  /\ elapsed \in Nat /\ due \in Nat

AtHome ==
  /\ result = "none" /\ pc # "kill" => ~old
  /\ result = "none" /\ pc = "compile" => server \notin Running
  /\ result = "none" /\ pc = "wait" => joined = "this"
  /\ result = "passed" => joined = "this"
  /\ result = "raised" => joined # "none"
  /\ result \in {"passed", "failed"} => server \notin Running /\ ~old

InTheRun ==
  result = "none" /\ pc = "bot" =>
    /\ bot # "none"
    /\ bot = "loading" => elapsed <= LoadingTime
    /\ bot = "connecting" => elapsed <= due /\ due <= LoadingTime + SafetyTime
    /\ bot = "holding" => joined = "this"
    /\ bot = "exited" /\ code = 0 => joined = "this"

LoopInv == LoopTypes /\ AtHome /\ InTheRun

-------------------------------------------------------------------------------
(* The order of a request names every provider, whichever is preferred.     *)
LEMMA InOrderIsComplete ==
  ASSUME NEW preferred
  PROVE  /\ InOrder(preferred) \in Seq(Provider)
         /\ Elements(InOrder(preferred)) = Provider
<1>1. Providers \in Seq(Provider) /\ Len(Providers) = 3
  BY DEF Providers, Provider
<1>2. CASE preferred \notin Provider
  <2>1. InOrder(preferred) = Providers
    BY <1>2 DEF InOrder
  <2>. QED
    BY <2>1, <1>1 DEF Elements, Providers, Provider
<1>3. CASE preferred = "gemini"
  <2>1. (CHOOSE i \in 1 .. Len(Providers) : Providers[i] = preferred) = 1
    BY <1>3, <1>1 DEF Providers
  <2>2. InOrder(preferred) = <<preferred>> \o SubSeq(Providers, 1, 1 - 1) \o SubSeq(Providers, 1 + 1, Len(Providers))
    BY <2>1, <1>3 DEF InOrder, Provider
  <2>. QED
    BY <2>2, <1>1, <1>3 DEF Elements, Providers, Provider
<1>4. CASE preferred = "groq"
  <2>1. (CHOOSE i \in 1 .. Len(Providers) : Providers[i] = preferred) = 2
    BY <1>4, <1>1 DEF Providers
  <2>2. InOrder(preferred) = <<preferred>> \o SubSeq(Providers, 1, 2 - 1) \o SubSeq(Providers, 2 + 1, Len(Providers))
    BY <2>1, <1>4 DEF InOrder, Provider
  <2>. QED
    BY <2>2, <1>1, <1>4 DEF Elements, Providers, Provider
<1>5. CASE preferred = "openrouter"
  <2>1. (CHOOSE i \in 1 .. Len(Providers) : Providers[i] = preferred) = 3
    BY <1>5, <1>1 DEF Providers
  <2>2. InOrder(preferred) = <<preferred>> \o SubSeq(Providers, 1, 3 - 1) \o SubSeq(Providers, 3 + 1, Len(Providers))
    BY <2>1, <1>5 DEF InOrder, Provider
  <2>. QED
    BY <2>2, <1>1, <1>5 DEF Elements, Providers, Provider
<1>. QED
  BY <1>2, <1>3, <1>4, <1>5 DEF Provider

(* What is in a list is its head and what is in its tail.                   *)
LEMMA HeadAndTail ==
  ASSUME NEW s \in Seq(Provider), s # <<>>
  PROVE  /\ Head(s) \in Provider /\ Tail(s) \in Seq(Provider)
         /\ Elements(s) = {Head(s)} \cup Elements(Tail(s))
<1>1. Len(s) \in Nat /\ Len(s) > 0 /\ Head(s) = s[1] /\ Tail(s) \in Seq(Provider)
  OBVIOUS
<1>2. Len(Tail(s)) = Len(s) - 1 /\ \A i \in 1 .. Len(Tail(s)) : Tail(s)[i] = s[i + 1]
  OBVIOUS
<1>3. Head(s) \in Provider
  BY <1>1
<1>4. \A x : x \in Elements(s) => x \in {Head(s)} \cup Elements(Tail(s))
  <2>. SUFFICES ASSUME NEW i \in 1 .. Len(s)
                PROVE  s[i] \in {Head(s)} \cup Elements(Tail(s))
    BY DEF Elements
  <2>1. CASE i = 1
    BY <2>1, <1>1
  <2>2. CASE i # 1
    <3>1. i - 1 \in 1 .. Len(Tail(s)) /\ Tail(s)[i - 1] = s[i]
      BY <2>2, <1>1, <1>2
    <3>. QED
      BY <3>1 DEF Elements
  <2>. QED
    BY <2>1, <2>2
<1>5. \A x : x \in {Head(s)} \cup Elements(Tail(s)) => x \in Elements(s)
  <2>1. Head(s) \in Elements(s)
    BY <1>1 DEF Elements
  <2>2. ASSUME NEW i \in 1 .. Len(Tail(s))
        PROVE  Tail(s)[i] \in Elements(s)
    <3>1. i + 1 \in 1 .. Len(s) /\ Tail(s)[i] = s[i + 1]
      BY <1>1, <1>2
    <3>. QED
      BY <3>1 DEF Elements
  <2>. QED
    BY <2>1, <2>2 DEF Elements
<1>. QED
  BY <1>1, <1>3, <1>4, <1>5

-------------------------------------------------------------------------------
(* The pool: each of its operations touches one request.                    *)
LEMMA AskKeepsPool ==
  ASSUME PoolInv, NEW r \in Requests, NEW preferred, NEW where \in {"waiting", "asking"},
         Ask(r, preferred, where)
  PROVE  PoolInv'
<1>1. InOrder(preferred) \in Seq(Provider) /\ Elements(InOrder(preferred)) = Provider
  BY InOrderIsComplete
<1>2. PoolTypes'
  BY <1>1 DEF Ask, PoolInv, PoolTypes
<1>3. answer[r] = "none" /\ spent[r] \subseteq Provider
  BY DEF PoolInv, PoolTypes, RequestInv, Ask
<1>4. left'[r] = InOrder(preferred) /\ stage'[r] = where /\ answer' = answer /\ spent' = spent
  BY DEF Ask, PoolInv, PoolTypes
<1>5. RequestInv(r)'
  BY <1>1, <1>3, <1>4 DEF RequestInv, Provider
<1>6. ASSUME NEW q \in Requests, q # r
      PROVE  RequestInv(q)'
  <2>1. left'[q] = left[q] /\ stage'[q] = stage[q] /\ answer' = answer /\ spent' = spent
    BY <1>6 DEF Ask, PoolInv, PoolTypes
  <2>2. RequestInv(q)
    BY DEF PoolInv
  <2>. QED
    BY <2>1, <2>2 DEF RequestInv
<1>. QED
  BY <1>2, <1>5, <1>6 DEF PoolInv

LEMMA AcquireKeepsPool ==
  ASSUME PoolInv, NEW r \in Requests, Acquire(r)
  PROVE  PoolInv'
<1>1. PoolTypes'
  BY DEF Acquire, PoolInv, PoolTypes
<1>2. ASSUME NEW q \in Requests
      PROVE  RequestInv(q)'
  <2>1. /\ left' = left /\ answer' = answer /\ spent' = spent
        /\ stage'[q] = stage[q] \/ (stage[q] = "waiting" /\ stage'[q] = "asking")
    <3>1. stage' = [stage EXCEPT ![r] = "asking"] /\ stage[r] = "waiting"
      BY DEF Acquire
    <3>2. stage'[q] = IF q = r THEN "asking" ELSE stage[q]
      BY <3>1 DEF PoolInv, PoolTypes
    <3>. QED
      BY <3>1, <3>2 DEF Acquire
  <2>2. RequestInv(q)
    BY DEF PoolInv
  <2>. QED
    BY <2>1, <2>2 DEF RequestInv
<1>. QED
  BY <1>1, <1>2 DEF PoolInv

LEMMA LeaveKeepsPool ==
  ASSUME PoolInv, NEW r \in Requests, NEW who \in Provider \cup {"offline"},
         stage[r] = "asking",
         who = "offline" => left[r] = <<>>,
         who \in Provider => left[r] # <<>> /\ who = Head(left[r]),
         Leave(r, who)
  PROVE  PoolInv'
<1>1. PoolTypes'
  BY DEF Leave, PoolInv, PoolTypes
<1>2. /\ stage'[r] = "done" /\ answer'[r] = who /\ left' = left /\ spent' = spent
      /\ \A q \in Requests \ {r} : stage'[q] = stage[q] /\ answer'[q] = answer[q]
  BY DEF Leave, PoolInv, PoolTypes
<1>3. RequestInv(r)'
  BY <1>2 DEF RequestInv, PoolInv, Provider
<1>4. ASSUME NEW q \in Requests, q # r
      PROVE  RequestInv(q)'
  <2>1. RequestInv(q) /\ stage'[q] = stage[q] /\ answer'[q] = answer[q]
    BY <1>2, <1>4 DEF PoolInv
  <2>. QED
    BY <1>2, <2>1 DEF RequestInv
<1>. QED
  BY <1>1, <1>3, <1>4 DEF PoolInv

LEMMA GiveUpKeepsPool ==
  ASSUME PoolInv, NEW r \in Requests, stage[r] = "asking", left[r] # <<>>, GiveUp(r)
  PROVE  PoolInv'
<1>1. left[r] \in Seq(Provider) /\ spent[r] \subseteq Provider
  BY DEF PoolInv, PoolTypes
<1>2. /\ Head(left[r]) \in Provider /\ Tail(left[r]) \in Seq(Provider)
      /\ Elements(left[r]) = {Head(left[r])} \cup Elements(Tail(left[r]))
  BY <1>1, HeadAndTail
<1>3. /\ left'[r] = Tail(left[r]) /\ spent'[r] = spent[r] \cup {Head(left[r])}
      /\ stage' = stage /\ answer' = answer
      /\ \A q \in Requests \ {r} : left'[q] = left[q] /\ spent'[q] = spent[q]
  BY DEF GiveUp, PoolInv, PoolTypes
<1>4. PoolTypes'
  BY <1>2 DEF GiveUp, PoolInv, PoolTypes
<1>5. answer[r] = "none" /\ spent[r] \cup Elements(left[r]) = Provider
  BY DEF PoolInv, RequestInv
<1>6. spent'[r] \cup Elements(left'[r]) = Provider
  BY <1>2, <1>3, <1>5
<1>7. RequestInv(r)'
  BY <1>3, <1>5, <1>6 DEF RequestInv, Provider
<1>8. ASSUME NEW q \in Requests, q # r
      PROVE  RequestInv(q)'
  <2>1. RequestInv(q) /\ left'[q] = left[q] /\ spent'[q] = spent[q]
    BY <1>3, <1>8 DEF PoolInv
  <2>. QED
    BY <1>3, <2>1 DEF RequestInv
<1>. QED
  BY <1>4, <1>7, <1>8 DEF PoolInv

LEMMA UnchangedKeepsPool ==
  ASSUME PoolInv, UNCHANGED <<stage, left, spent, answer>>
  PROVE  PoolInv'
BY DEF PoolInv, PoolTypes, RequestInv

(* A call of generate_completion, whatever the provider does.               *)
LEMMA AsksKeepPool ==
  ASSUME PoolInv, NEW r \in Requests, Asks(r)
  PROVE  PoolInv'
<1>1. CASE NoKey(r)
  BY <1>1, GiveUpKeepsPool DEF NoKey, Asking
<1>2. CASE SdkAnswers(r)
  <2>1. "gemini" \in Provider /\ "gemini" # "offline"
    BY DEF Provider
  <2>. QED
    BY <1>2, <2>1, LeaveKeepsPool DEF SdkAnswers, Asking
<1>3. CASE SdkReturnsNothing(r)
  BY <1>3, GiveUpKeepsPool DEF SdkReturnsNothing, Asking
<1>4. CASE SdkFails(r)
  BY <1>4, UnchangedKeepsPool DEF SdkFails
<1>5. CASE PostAnswers(r)
  <2>1. PICK p \in Provider : Posting(r, p) /\ Leave(r, p)
    BY <1>5 DEF PostAnswers
  <2>2. p # "offline"
    BY DEF Provider
  <2>. QED
    BY <2>1, <2>2, LeaveKeepsPool DEF Posting, Asking
<1>6. CASE PostReturnsNothing(r)
  BY <1>6, GiveUpKeepsPool DEF PostReturnsNothing, Posting, Asking
<1>7. CASE PostFails(r)
  <2>1. stage[r] = "asking" /\ left[r] # <<>>
    BY <1>7 DEF PostFails, Posting, Asking
  <2>2. CASE tries[r] + 1 < Attempts
    BY <1>7, <2>2, UnchangedKeepsPool DEF PostFails
  <2>3. CASE ~(tries[r] + 1 < Attempts)
    BY <1>7, <2>1, <2>3, GiveUpKeepsPool DEF PostFails
  <2>. QED
    BY <2>2, <2>3
<1>8. CASE Fallback(r)
  <2>1. "offline" \notin Provider
    BY DEF Provider
  <2>. QED
    BY <1>8, <2>1, LeaveKeepsPool DEF Fallback
<1>. QED
  BY <1>1, <1>2, <1>3, <1>4, <1>5, <1>6, <1>7, <1>8 DEF Asks

(* The repair loop takes its answer, and its request is as new.             *)
LEMMA RepairedKeepsPool ==
  ASSUME PoolInv, Repaired
  PROVE  PoolInv'
<1>1. Single \in Requests
  BY DEF Requests
<1>2. <<>> \in Seq(Provider)
  OBVIOUS
<1>3. PoolTypes'
  BY <1>2 DEF Repaired, PoolInv, PoolTypes
<1>4. ASSUME NEW q \in Requests
      PROVE  RequestInv(q)'
  <2>1. CASE q = Single
    BY <1>1, <2>1 DEF Repaired, PoolInv, PoolTypes, RequestInv, Provider
  <2>2. CASE q # Single
    <3>1. /\ stage'[q] = stage[q] /\ left'[q] = left[q]
          /\ spent'[q] = spent[q] /\ answer'[q] = answer[q]
      BY <2>2 DEF Repaired, PoolInv, PoolTypes
    <3>2. RequestInv(q)
      BY DEF PoolInv
    <3>. QED
      BY <3>1, <3>2 DEF RequestInv
  <2>. QED
    BY <2>1, <2>2
<1>. QED
  BY <1>3, <1>4 DEF PoolInv

-------------------------------------------------------------------------------
(* The loop, action by action.                                              *)
LEMMA ContinueGoesOn ==
  ASSUME Continue
  PROVE  pc' \in {"kill", "exhausted"} /\ result' = result /\ invocation' = invocation
BY DEF Continue, Goto

LEMMA ScriptKeepsLoop ==
  ASSUME LoopInv, Script
  PROVE  LoopInv'
<1>. USE DEF LoopInv, LoopTypes, AtHome, InTheRun, At, Goto, Return, Running, tested
<1>1. CASE Kill
  BY <1>1 DEF Kill, kill_previous_instances
<1>2. CASE CompileFails
  BY <1>2, ContinueGoesOn DEF CompileFails
<1>3. CASE BinaryMissing
  BY <1>3 DEF BinaryMissing
<1>4. CASE Popen
  BY <1>4 DEF Popen
<1>5. CASE PollFindsItDead
  BY <1>5, ContinueGoesOn DEF PollFindsItDead
<1>6. CASE RunBot
  BY <1>6, TimesAssumption DEF RunBot
<1>7. CASE TimeoutExpired
  <2>1. bot # "loading" /\ bot # "connecting"
    BY <1>7, TimesAssumption DEF TimeoutExpired
  <2>2. joined # "none"
    BY <1>7, <2>1 DEF TimeoutExpired
  <2>. QED
    BY <1>7, <2>2 DEF TimeoutExpired
<1>8. CASE BotPassed
  BY <1>8 DEF BotPassed, Signalled
<1>9. CASE Wait
  BY <1>9 DEF Wait, kill_previous_instances
<1>10. CASE BotFailed
  BY <1>10 DEF BotFailed, Signalled
<1>11. CASE Communicate
  BY <1>11 DEF Communicate
<1>12. CASE Repaired
  BY <1>12, ContinueGoesOn DEF Repaired
<1>13. CASE Exhausted
  BY <1>13 DEF Exhausted, kill_previous_instances
<1>. QED
  BY <1>1, <1>2, <1>3, <1>4, <1>5, <1>6, <1>7, <1>8, <1>9, <1>10, <1>11, <1>12, <1>13
  DEF Script

(* The bot, the servers and the clock, while the script waits.              *)
LEMMA ProcessesKeepLoop ==
  ASSUME LoopInv, Processes
  PROVE  LoopInv'
<1>. USE DEF LoopInv, LoopTypes, AtHome, InTheRun, At, Running, tested, loop,
             BotAlone, ServerAlone, Exit
<1>. USE TimesAssumption
<1>1. CASE BotConnects
  BY <1>1 DEF BotConnects
<1>2. CASE BotSpawns
  BY <1>2 DEF BotSpawns
<1>3. CASE BotFails
  BY <1>3 DEF BotFails
<1>4. CASE SafetyEnds
  BY <1>4 DEF SafetyEnds
<1>5. CASE HoldEnds
  BY <1>5 DEF HoldEnds
<1>6. CASE Tick
  BY <1>6 DEF Tick
<1>7. CASE ServerListens
  BY <1>7 DEF ServerListens
<1>8. CASE ServerDies
  BY <1>8 DEF ServerDies
<1>9. CASE ServerLogs
  BY <1>9 DEF ServerLogs
<1>10. CASE ServerStops
  BY <1>10 DEF ServerStops
<1>11. CASE OldDies
  BY <1>11 DEF OldDies
<1>. QED
  BY <1>1, <1>2, <1>3, <1>4, <1>5, <1>6, <1>7, <1>8, <1>9, <1>10, <1>11 DEF Processes

LEMMA InvokeKeepsLoop ==
  ASSUME LoopInv, Invoke
  PROVE  LoopInv'
BY DEF Invoke, LoopInv, LoopTypes, AtHome, InTheRun, Running

LEMMA LoopStands ==
  ASSUME LoopInv, UNCHANGED <<loop, server, old, tested>>
  PROVE  LoopInv'
BY DEF LoopInv, LoopTypes, AtHome, InTheRun, loop, tested, Running

-------------------------------------------------------------------------------
(* Every state of the scripts, whatever the providers, the servers and the  *)
(* bot do, has both.                                                        *)
THEOREM ScriptsInvariant == RepairSpec => [](PoolInv /\ LoopInv)
<1>1. RepairInit => PoolInv /\ LoopInv
  <2>. SUFFICES ASSUME RepairInit PROVE PoolInv /\ LoopInv
    OBVIOUS
  <2>1. PoolTypes
    BY DEF RepairInit, PoolInit, PoolTypes
  <2>2. ASSUME NEW r \in Requests PROVE RequestInv(r)
    BY DEF RepairInit, PoolInit, RequestInv, Provider
  <2>3. LoopInv
    BY DEF RepairInit, LoopInv, LoopTypes, AtHome, InTheRun, Running
  <2>. QED
    BY <2>1, <2>2, <2>3 DEF PoolInv
<1>2. PoolInv /\ LoopInv /\ [RepairNext]_rvars => PoolInv' /\ LoopInv'
  <2>. SUFFICES ASSUME PoolInv, LoopInv, [RepairNext]_rvars PROVE PoolInv' /\ LoopInv'
    OBVIOUS
  <2>1. CASE Script
    <3>1. CASE Communicate
      <4>1. PoolInv'
        BY <3>1, AskKeepsPool DEF Communicate, generate_completion, Requests
      <4>. QED
        BY <2>1, <4>1, ScriptKeepsLoop
    <3>2. CASE Repaired
      BY <2>1, <3>2, RepairedKeepsPool, ScriptKeepsLoop
    <3>3. CASE ~Communicate /\ ~Repaired
      <4>1. UNCHANGED <<stage, left, spent, answer>>
        BY <2>1, <3>3
        DEF Script, Kill, CompileFails, BinaryMissing, Popen, PollFindsItDead, RunBot,
            TimeoutExpired, BotPassed, Wait, BotFailed, Exhausted, pool
      <4>. QED
        BY <2>1, <4>1, UnchangedKeepsPool, ScriptKeepsLoop
    <3>. QED
      BY <3>1, <3>2, <3>3
  <2>2. CASE Invoke
    <3>1. UNCHANGED <<stage, left, spent, answer>>
      BY <2>2 DEF Invoke, pool
    <3>. QED
      BY <2>2, <3>1, UnchangedKeepsPool, InvokeKeepsLoop
  <2>3. CASE Processes
    <3>1. UNCHANGED <<stage, left, spent, answer>>
      BY <2>3
      DEF Processes, BotConnects, BotSpawns, BotFails, SafetyEnds, HoldEnds, Tick, BotAlone,
          ServerListens, ServerDies, ServerLogs, ServerStops, ServerAlone, OldDies, pool
    <3>. QED
      BY <2>3, <3>1, UnchangedKeepsPool, ProcessesKeepLoop
  <2>4. ASSUME NEW r \in Requests, Swarm(r)
        PROVE  PoolInv' /\ LoopInv'
    <3>1. PoolInv'
      BY <2>4, AskKeepsPool, AcquireKeepsPool DEF Swarm, run_parallel_pipeline
    <3>. QED
      BY <2>4, <3>1, LoopStands DEF Swarm
  <2>5. ASSUME NEW r \in Requests, Answering(r)
        PROVE  PoolInv' /\ LoopInv'
    BY <2>5, AsksKeepPool, LoopStands DEF Answering
  <2>6. CASE UNCHANGED rvars
    BY <2>6, UnchangedKeepsPool, LoopStands DEF rvars, pool
  <2>. QED
    BY <2>1, <2>2, <2>3, <2>4, <2>5, <2>6 DEF RepairNext
<1>. QED
  BY <1>1, <1>2, PTL DEF RepairSpec

(* A request is answered offline only when every provider of the pool has   *)
(* failed it, and by a provider only in its turn.                           *)
THEOREM NobodySkippedHolds == RepairSpec => []NobodySkipped
<1>1. PoolInv => NobodySkipped
  <2>. SUFFICES ASSUME PoolInv, NEW r \in Requests, stage[r] \in {"asking", "done"}
                PROVE  /\ spent[r] \cup {left[r][i] : i \in 1 .. Len(left[r])} = Provider
                       /\ answer[r] = "offline" => spent[r] = Provider
                       /\ answer[r] \in Provider => answer[r] = Head(left[r])
    BY DEF NobodySkipped
  <2>1. RequestInv(r)
    BY DEF PoolInv
  <2>2. spent[r] \cup {left[r][i] : i \in 1 .. Len(left[r])} = Provider
    BY <2>1 DEF RequestInv, Elements
  <2>3. left[r] = <<>> => {left[r][i] : i \in 1 .. Len(left[r])} = {}
    OBVIOUS
  <2>. QED
    BY <2>1, <2>2, <2>3 DEF RequestInv
<1>. QED
  BY <1>1, ScriptsInvariant, PTL

(* A test that has passed was passed by the server its attempt has built.   *)
THEOREM PassedByThisBuildHolds == RepairSpec => []PassedByThisBuild
<1>1. LoopInv => PassedByThisBuild
  BY DEF LoopInv, AtHome, PassedByThisBuild
<1>. QED
  BY <1>1, ScriptsInvariant, PTL

(* A run that returns leaves no server behind.                              *)
THEOREM CleanReturnHolds == RepairSpec => []CleanReturn
<1>1. LoopInv => CleanReturn
  BY DEF LoopInv, AtHome, CleanReturn
<1>. QED
  BY <1>1, ScriptsInvariant, PTL

(* A run that returns has tested the server it has built, and left none.    *)
THEOREM ItsOwnServerHolds == RepairSpec => []ItsOwnServer
BY PassedByThisBuildHolds, CleanReturnHolds, PTL DEF ItsOwnServer

(* A bot that has not spawned is ended by its own timer, before the script  *)
(* loses patience, as long as the script's time is the longer.              *)
THEOREM OnlyALateSpawnTimesOutHolds == RepairSpec => []OnlyALateSpawnTimesOut
<1>1. LoopInv => OnlyALateSpawnTimesOut
  BY DEF LoopInv, AtHome, OnlyALateSpawnTimesOut
<1>. QED
  BY <1>1, ScriptsInvariant, PTL

-------------------------------------------------------------------------------
(* The semaphore: a request that begins to be asked takes a permit, and its *)
(* answer gives it back.  The other steps leave both sides alone.           *)
PermitInv ==
  /\ stage \in [Requests -> {"idle", "waiting", "asking", "done"}]
  /\ permits \in Nat
  /\ stage[Single] # "waiting"
  /\ PermitsAccounted

LEMMA ThrottledIsFinite == IsFiniteSet(Throttled) /\ Cardinality(Throttled) \in Nat
<1>1. IsFiniteSet({Plan} \cup Workers)
  BY RequestsAssumption, FS_Singleton, FS_Union
<1>2. Throttled \subseteq {Plan} \cup Workers
  BY DEF Throttled, Requests
<1>. QED
  BY <1>1, <1>2, FS_Subset, FS_CardinalityType

LEMMA PermitTaken ==
  ASSUME PermitInv, NEW r \in Requests, Acquire(r)
  PROVE  PermitInv'
<1>1. /\ stage[r] = "waiting" /\ r # Single /\ permits > 0 /\ permits' = permits - 1
      /\ stage' = [stage EXCEPT ![r] = "asking"]
  BY DEF Acquire, PermitInv
<1>2. Throttled' = Throttled \cup {r} /\ r \notin Throttled
  BY <1>1 DEF Throttled, PermitInv
<1>3. Cardinality(Throttled') = Cardinality(Throttled) + 1
  BY <1>2, ThrottledIsFinite, FS_AddElement
<1>4. permits' + Cardinality(Throttled') = permits + Cardinality(Throttled)
  BY <1>1, <1>3, ThrottledIsFinite DEF PermitInv
<1>5. permits' \in Nat /\ stage'[Single] # "waiting"
      /\ stage' \in [Requests -> {"idle", "waiting", "asking", "done"}]
  BY <1>1 DEF PermitInv
<1>. QED
  BY <1>4, <1>5 DEF PermitInv, PermitsAccounted

LEMMA PermitGiven ==
  ASSUME PermitInv, NEW r \in Requests, stage[r] = "asking", NEW who, Leave(r, who)
  PROVE  PermitInv'
<1>1. /\ stage' = [stage EXCEPT ![r] = "done"]
      /\ permits' = IF r = Single THEN permits ELSE permits + 1
  BY DEF Leave
<1>2. /\ permits' \in Nat /\ stage'[Single] # "waiting"
      /\ stage' \in [Requests -> {"idle", "waiting", "asking", "done"}]
  BY <1>1 DEF PermitInv
<1>3. permits' + Cardinality(Throttled') = permits + Cardinality(Throttled)
  <2>1. CASE r = Single
    <3>1. Throttled' = Throttled
      BY <1>1, <2>1 DEF Throttled, PermitInv
    <3>. QED
      BY <1>1, <2>1, <3>1
  <2>2. CASE r # Single
    <3>1. Throttled' = Throttled \ {r} /\ r \in Throttled
      BY <1>1, <2>2 DEF Throttled, PermitInv
    <3>2. Cardinality(Throttled') = Cardinality(Throttled) - 1
      BY <3>1, ThrottledIsFinite, FS_RemoveElement
    <3>. QED
      BY <1>1, <2>2, <3>2, ThrottledIsFinite DEF PermitInv
  <2>. QED
    BY <2>1, <2>2
<1>. QED
  BY <1>2, <1>3 DEF PermitInv, PermitsAccounted

(* A step by which no throttled request begins or ends to be asked.         *)
LEMMA PermitsStand ==
  ASSUME PermitInv, permits' = permits,
         stage' \in [Requests -> {"idle", "waiting", "asking", "done"}],
         stage'[Single] # "waiting",
         \A q \in Requests \ {Single} : stage'[q] = "asking" <=> stage[q] = "asking"
  PROVE  PermitInv'
<1>1. Throttled' = Throttled
  BY DEF Throttled
<1>. QED
  BY <1>1 DEF PermitInv, PermitsAccounted

LEMMA PermitStep ==
  ASSUME PermitInv, [RepairNext]_rvars
  PROVE  PermitInv'
<1>1. CASE UNCHANGED <<stage, permits>>
  BY <1>1, PermitsStand DEF PermitInv
<1>2. CASE Script
  <2>1. CASE Communicate
    <3>1. Single \in Requests /\ permits' = permits /\ stage' = [stage EXCEPT ![Single] = "asking"]
      BY <2>1 DEF Communicate, generate_completion, Ask, Requests
    <3>. QED
      BY <3>1, PermitsStand DEF PermitInv
  <2>2. CASE Repaired
    <3>1. Single \in Requests /\ permits' = permits /\ stage' = [stage EXCEPT ![Single] = "idle"]
      BY <2>2 DEF Repaired, Requests
    <3>. QED
      BY <3>1, PermitsStand DEF PermitInv
  <2>3. CASE ~Communicate /\ ~Repaired
    BY <1>1, <1>2, <2>3
    DEF Script, Kill, CompileFails, BinaryMissing, Popen, PollFindsItDead, RunBot,
        TimeoutExpired, BotPassed, Wait, BotFailed, Exhausted, pool
  <2>. QED
    BY <2>1, <2>2, <2>3
<1>3. CASE Invoke
  BY <1>1, <1>3 DEF Invoke, pool
<1>4. CASE Processes
  BY <1>1, <1>4
  DEF Processes, BotConnects, BotSpawns, BotFails, SafetyEnds, HoldEnds, Tick, BotAlone,
      ServerListens, ServerDies, ServerLogs, ServerStops, ServerAlone, OldDies, pool
<1>5. ASSUME NEW r \in Requests, Swarm(r) PROVE PermitInv'
  <2>1. CASE Acquire(r)
    BY <2>1, PermitTaken
  <2>2. ASSUME NEW preferred, run_parallel_pipeline(r, preferred) PROVE PermitInv'
    <3>1. /\ r # Single /\ permits' = permits
          /\ stage[r] = "idle" /\ stage' = [stage EXCEPT ![r] = "waiting"]
      BY <2>2, RequestsAssumption DEF run_parallel_pipeline, Ask
    <3>. QED
      BY <3>1, PermitsStand DEF PermitInv
  <2>. QED
    BY <1>5, <2>1, <2>2 DEF Swarm
<1>6. ASSUME NEW r \in Requests, Answering(r) PROVE PermitInv'
  <2>1. ASSUME NEW who, stage[r] = "asking", Leave(r, who) PROVE PermitInv'
    BY <2>1, PermitGiven
  <2>2. CASE NoKey(r) \/ SdkReturnsNothing(r) \/ SdkFails(r) \/ PostReturnsNothing(r) \/ PostFails(r)
    <3>1. UNCHANGED <<stage, permits>>
      BY <2>2 DEF NoKey, SdkReturnsNothing, SdkFails, PostReturnsNothing, PostFails, GiveUp
    <3>. QED
      BY <1>1, <3>1
  <2>3. CASE SdkAnswers(r) \/ PostAnswers(r) \/ Fallback(r)
    BY <2>1, <2>3 DEF SdkAnswers, PostAnswers, Fallback, Posting, Asking
  <2>. QED
    BY <1>6, <2>2, <2>3 DEF Answering, Asks
<1>7. CASE UNCHANGED rvars
  BY <1>1, <1>7 DEF rvars, pool
<1>. QED
  BY <1>2, <1>3, <1>4, <1>5, <1>6, <1>7 DEF RepairNext

(* RATE_LIMIT_SEMAPHORE neither loses nor gains a permit, for any number of *)
(* permits and of requests, whoever fails them.                             *)
THEOREM PermitsAccountedHolds == RepairSpec => []PermitsAccounted
<1>1. RepairInit => PermitInv
  <2>. SUFFICES ASSUME RepairInit PROVE PermitInv
    OBVIOUS
  <2>1. Throttled = {} /\ Single \in Requests
    BY DEF RepairInit, PoolInit, Throttled, Requests
  <2>2. Cardinality(Throttled) = 0
    BY <2>1, FS_EmptySet
  <2>. QED
    BY <2>1, <2>2, PoolAssumption DEF RepairInit, PoolInit, PermitInv, PermitsAccounted
<1>2. PermitInv => PermitsAccounted
  BY DEF PermitInv
<1>. QED
  BY <1>1, <1>2, PermitStep, PTL DEF RepairSpec
===============================================================================
