---------------------------- MODULE FailoverPool ----------------------------
(***************************************************************************)
(* The free-model pool of the agents (agents/config.py) and the parallel   *)
(* runner on top of it (agents/parallel_runner.py): one request plans the  *)
(* subtasks, then a worker for each asks on its own, all of them throttled *)
(* by RATE_LIMIT_SEMAPHORE.  A request asks the providers in turn, each up *)
(* to three times, and is answered offline when none of them did.          *)
(*                                                                         *)
(* The providers are external: any call may be answered, answered with an  *)
(* empty text, or fail (429, another status, no connection, a body that    *)
(* does not parse), and the code does the same in each of the last cases:  *)
(* it asks again at once.                                                  *)
(***************************************************************************)
EXTENDS Integers, Sequences, FiniteSets

CONSTANTS
  Plan,      \* the request that decomposes the task
  Workers,   \* the requests of the subtasks
  Single,    \* the request of a caller that does not throttle
  Permits,   \* RATE_LIMIT_SEMAPHORE
  Attempts   \* calls of one provider for one request

ASSUME PoolAssumption == Permits \in Nat \ {0} /\ Attempts \in Nat \ {0}
ASSUME RequestsAssumption == Single \notin {Plan} \cup Workers /\ IsFiniteSet(Workers)

Providers == <<"gemini", "groq", "openrouter">>
Provider  == {"gemini", "groq", "openrouter"}
Requests  == {Plan, Single} \cup Workers

VARIABLES
  keys,      \* the providers that have a key in the environment
  permits,   \* what is left of the semaphore
  stage,     \* of each request: idle, waiting, asking, done
  left,      \* of each request: the providers still to ask, in order
  tries,     \* of each request: REST calls of the first of them so far
  sdk,       \* of each request: the SDK of gemini has been tried
  spent,     \* of each request: the providers that did not answer it
  answer     \* of each request: who answered

pool == <<keys, permits, stage, left, tries, sdk, spent, answer>>

-------------------------------------------------------------------------------
(* Fault: the preferred provider is taken out of the list and not put back. *)
InOrder_Removed(preferred) == SelectSeq(Providers, LAMBDA p : p # preferred)

(* The preferred provider is taken out of the list and put in front. *)
InOrder(preferred) ==
  LET at == CHOOSE i \in 1 .. Len(Providers) : Providers[i] = preferred IN
  IF preferred \in Provider
    THEN <<preferred>> \o SubSeq(Providers, 1, at - 1)
                       \o SubSeq(Providers, at + 1, Len(Providers))
    ELSE Providers

(* The request is made: by a coroutine, which waits for a permit, or at once. *)
Ask(r, preferred, where) ==
  /\ stage[r] = "idle"
  /\ stage' = [stage EXCEPT ![r] = where]
  /\ left' = [left EXCEPT ![r] = InOrder(preferred)]
  /\ UNCHANGED <<keys, permits, tries, sdk, spent, answer>>

generate_completion(r, preferred) == Ask(r, preferred, "asking")

(* async_create_parallel_tasks, then gather: no worker before the plan,      *)
(* which prefers nobody.                                                    *)
run_parallel_pipeline(r, preferred) ==
  /\ \/ r = Plan /\ preferred = "none"
     \/ r \in Workers /\ stage[Plan] = "done"
  /\ Ask(r, preferred, "waiting")

Acquire(r) ==
  /\ stage[r] = "waiting" /\ permits > 0
  /\ permits' = permits - 1
  /\ stage' = [stage EXCEPT ![r] = "asking"]
  /\ UNCHANGED <<keys, left, tries, sdk, spent, answer>>


(* Fault: the permit is given back by the request itself, in it or not. *)
Leave_Always(r, who) ==
  /\ stage' = [stage EXCEPT ![r] = "done"]
  /\ answer' = [answer EXCEPT ![r] = who]
  /\ permits' = permits + 1
  /\ tries' = [tries EXCEPT ![r] = 0] /\ sdk' = [sdk EXCEPT ![r] = FALSE]
  /\ UNCHANGED <<keys, left, spent>>

(* The request has its answer, and leaves the semaphore if it is in it.     *)
Leave(r, who) ==
  /\ stage' = [stage EXCEPT ![r] = "done"]
  /\ answer' = [answer EXCEPT ![r] = who]
  /\ permits' = IF r = Single THEN permits ELSE permits + 1
  /\ tries' = [tries EXCEPT ![r] = 0] /\ sdk' = [sdk EXCEPT ![r] = FALSE]
  /\ UNCHANGED <<keys, left, spent>>

(* The first provider is given up, and the next is asked from the start.    *)
GiveUp(r) ==
  /\ left' = [left EXCEPT ![r] = Tail(@)]
  /\ tries' = [tries EXCEPT ![r] = 0]
  /\ spent' = [spent EXCEPT ![r] = @ \cup {Head(left[r])}]
  /\ UNCHANGED <<keys, permits, stage, sdk, answer>>

Asking(r, p) == stage[r] = "asking" /\ left[r] # <<>> /\ Head(left[r]) = p

NoKey(r) ==
  \E p \in Provider \ keys : Asking(r, p) /\ GiveUp(r)

(* The SDK of gemini goes first: what it returns is returned, and only an   *)
(* exception, or its absence, leads to the REST calls.                      *)
SdkAnswers(r) == Asking(r, "gemini") /\ "gemini" \in keys /\ ~sdk[r] /\ Leave(r, "gemini")
SdkReturnsNothing(r) == Asking(r, "gemini") /\ "gemini" \in keys /\ ~sdk[r] /\ GiveUp(r)
SdkFails(r) ==
  /\ Asking(r, "gemini") /\ "gemini" \in keys /\ ~sdk[r]
  /\ sdk' = [sdk EXCEPT ![r] = TRUE]
  /\ UNCHANGED <<keys, permits, stage, left, tries, spent, answer>>

Posting(r, p) == Asking(r, p) /\ p \in keys /\ (p = "gemini" => sdk[r])

PostAnswers(r) == \E p \in Provider : Posting(r, p) /\ Leave(r, p)
PostReturnsNothing(r) == \E p \in Provider : Posting(r, p) /\ GiveUp(r)

PostFails(r) ==
  /\ \E p \in Provider : Posting(r, p)
  /\ IF tries[r] + 1 < Attempts
       THEN /\ tries' = [tries EXCEPT ![r] = @ + 1]
            /\ UNCHANGED <<keys, permits, stage, left, sdk, spent, answer>>
       ELSE GiveUp(r)

Fallback(r) == stage[r] = "asking" /\ left[r] = <<>> /\ Leave(r, "offline")

(* A call of generate_completion goes on, to its end. *)
Asks(r) ==
  \/ NoKey(r)
  \/ SdkAnswers(r) \/ SdkReturnsNothing(r) \/ SdkFails(r)
  \/ PostAnswers(r) \/ PostReturnsNothing(r) \/ PostFails(r)
  \/ Fallback(r)

PoolInit ==
  /\ keys \in SUBSET Provider
  /\ permits = Permits
  /\ stage = [r \in Requests |-> "idle"]
  /\ left = [r \in Requests |-> <<>>]
  /\ tries = [r \in Requests |-> 0]
  /\ sdk = [r \in Requests |-> FALSE]
  /\ spent = [r \in Requests |-> {}]
  /\ answer = [r \in Requests |-> "none"]

-------------------------------------------------------------------------------
(* A request is answered offline only when every provider of the pool has   *)
(* been asked and has failed it, whichever was preferred, and never by a    *)
(* provider while one before it in its order has not had its turn.          *)
NobodySkipped ==
  \A r \in Requests :
    stage[r] \in {"asking", "done"} =>
      /\ spent[r] \cup {left[r][i] : i \in 1 .. Len(left[r])} = Provider
      /\ answer[r] = "offline" => spent[r] = Provider
      /\ answer[r] \in Provider => answer[r] = Head(left[r])

(* The requests that are in the semaphore. *)
Throttled == {r \in Requests \ {Single} : stage[r] = "asking"}

(* No permit is lost or made: each is free or held by one request that is   *)
(* being asked, whatever became of the requests before it, and the caller   *)
(* that does not throttle neither takes nor gives one.                      *)
PermitsAccounted == permits + Cardinality(Throttled) = Permits

===============================================================================
