------------------------------ MODULE RepairLoop ------------------------------
(***************************************************************************)
(* scripts/auto_test_and_fix.py and the bot it runs, scripts/test_bot.js:  *)
(* build the server, start it, let the bot join and hold the connection,   *)
(* and when the bot fails ask the pool for a repair, which is printed and  *)
(* not applied, and try again.                                             *)
(*                                                                         *)
(* Three deadlines race: the safety timer of the bot, which ends a bot     *)
(* that has not spawned, the time it holds the connection once it has, and *)
(* the time the script gives the bot, counted from its start.  Time is     *)
(* counted in units of five seconds.  The output of the server goes to a   *)
(* pipe that nobody reads before the bot is done: a server that finds the  *)
(* pipe full stops in the middle of a log line.                            *)
(*                                                                         *)
(* The script may be started again after it has ended.  A server that has  *)
(* outlived it has lost the reader of its pipe and dies with its next line *)
(* of log, but may not write one for a long time.                          *)
(***************************************************************************)
EXTENDS FailoverPool

CONSTANTS
  MaxAttempts,     \* max_attempts
  SafetyTime,      \* the safety timer of the bot
  HoldTime,        \* how long the bot holds the connection
  BotTime,         \* the timeout of the run of the bot
  LoadingTime,     \* bound: what Node needs to load the modules of the bot
  PipeRoom,        \* log lines that fill the pipe
  MaxInvocations   \* bound: times the script is started

(* The script waits longer for the bot than the bot does for its spawn.     *)
ASSUME TimesAssumption ==
  /\ SafetyTime \in Nat /\ HoldTime \in Nat /\ BotTime \in Nat /\ LoadingTime \in Nat
  /\ LoadingTime + SafetyTime < BotTime

VARIABLES
  program,     \* which script runs: the parallel runner or the repair loop
  pc,          \* where run_integration_test is
  attempt,
  invocation,
  result,      \* none, passed (True), failed (False), raised (TimeoutExpired)
  server,      \* none, starting, up, stopping (it has the signal), exited
  old,         \* a server of an earlier invocation is still running
  pipe,        \* log lines in the pipe
  bot,         \* none, loading, connecting, holding, exited
  elapsed,     \* time since the bot was started
  due,         \* when the safety timer, then the hold, will end
  code,        \* the exit code of the bot
  joined       \* the server the bot has spawned on: none, this or old

loop  == <<pc, attempt, invocation, result>>
tested == <<bot, elapsed, due, code, joined>>
rvars == <<pool, program, loop, server, old, pipe, tested>>

At(label)   == program = "repair" /\ result = "none" /\ pc = label
Goto(label) == pc' = label /\ UNCHANGED <<attempt, invocation, result>>
Return(how) == result' = how /\ UNCHANGED <<pc, attempt, invocation>>
Running     == {"starting", "up", "stopping"}

(* continue: the next attempt, or the end of the loop. *)
Continue ==
  IF attempt < MaxAttempts
    THEN /\ attempt' = attempt + 1 /\ pc' = "kill"
         /\ UNCHANGED <<invocation, result>>
    ELSE Goto("exhausted")

-------------------------------------------------------------------------------
(* Fault: the name does not match, or pkill is not there. *)
kill_previous_instances_Misses == UNCHANGED <<server, old>>

kill_previous_instances ==
  /\ server' = IF server \in Running THEN "exited" ELSE server
  /\ old' = FALSE

Kill ==
  /\ At("kill")
  /\ kill_previous_instances
  /\ Goto("compile")
  /\ UNCHANGED <<pool, program, pipe, tested>>

CompileFails ==
  /\ At("compile")
  /\ Continue
  /\ UNCHANGED <<pool, program, server, old, pipe, tested>>

BinaryMissing ==
  /\ At("compile")
  /\ Return("failed")
  /\ UNCHANGED <<pool, program, server, old, pipe, tested>>

Popen ==
  /\ At("compile")
  /\ server' = "starting" /\ pipe' = 0
  /\ Goto("poll")
  /\ UNCHANGED <<pool, program, old, tested>>

(* After two seconds: has the server terminated prematurely? *)
PollFindsItDead ==
  /\ At("poll") /\ server = "exited"
  /\ Continue
  /\ UNCHANGED <<pool, program, server, old, pipe, tested>>

RunBot ==
  /\ At("poll") /\ server # "exited"
  /\ bot' = "loading" /\ elapsed' = 0 /\ due' = 0 /\ joined' = "none"
  /\ Goto("bot")
  /\ UNCHANGED <<pool, program, server, old, pipe, code>>

(* subprocess.run kills the bot; nothing catches TimeoutExpired.            *)
TimeoutExpired ==
  /\ At("bot") /\ bot # "exited" /\ elapsed = BotTime
  /\ bot' = "exited" /\ elapsed' = 0 /\ due' = 0
  /\ Return("raised")
  /\ UNCHANGED <<pool, program, server, old, pipe, code, joined>>

Signalled == IF server \in {"starting", "up"} THEN "stopping" ELSE server

BotPassed ==
  /\ At("bot") /\ bot = "exited" /\ code = 0
  /\ server' = Signalled
  /\ Goto("wait")
  /\ UNCHANGED <<pool, program, old, pipe, tested>>


(* wait(timeout=3): the server has exited, or is killed; then all of them.  *)
Wait ==
  /\ At("wait")
  /\ kill_previous_instances
  /\ Return("passed")
  /\ UNCHANGED <<pool, program, pipe, tested>>

(* The signal, and communicate, which empties the pipe while it waits.      *)
BotFailed ==
  /\ At("bot") /\ bot = "exited" /\ code = 1
  /\ server' = Signalled /\ pipe' = 0
  /\ Goto("communicate")
  /\ UNCHANGED <<pool, program, old, tested>>

(* It has exited within three seconds, or it is killed; then the repair is  *)
(* asked for.  The request is a new one at each attempt.                    *)
Communicate ==
  /\ At("communicate")
  /\ server' = "exited"
  /\ generate_completion(Single, "none")
  /\ Goto("repair")
  /\ UNCHANGED <<program, old, pipe, tested>>

(* The answer is printed, and nothing else is done with it.                 *)
Repaired ==
  /\ At("repair") /\ stage[Single] = "done"
  /\ stage' = [stage EXCEPT ![Single] = "idle"]
  /\ left' = [left EXCEPT ![Single] = <<>>]
  /\ spent' = [spent EXCEPT ![Single] = {}]
  /\ answer' = [answer EXCEPT ![Single] = "none"]
  /\ Continue
  /\ UNCHANGED <<keys, permits, tries, sdk, program, server, old, pipe, tested>>

Exhausted ==
  /\ At("exhausted")
  /\ kill_previous_instances
  /\ Return("failed")
  /\ UNCHANGED <<pool, program, pipe, tested>>

Script ==
  \/ Kill \/ CompileFails \/ BinaryMissing \/ Popen
  \/ PollFindsItDead \/ RunBot \/ TimeoutExpired
  \/ BotPassed \/ Wait \/ BotFailed \/ Communicate \/ Repaired \/ Exhausted

(* Somebody starts the script again. *)
Invoke ==
  /\ program = "repair" /\ result # "none" /\ invocation < MaxInvocations
  /\ invocation' = invocation + 1
  /\ pc' = "kill" /\ attempt' = 1 /\ result' = "none"
  /\ old' = (old \/ server \in Running)
  /\ server' = "none" /\ pipe' = 0
  /\ bot' = "none" /\ joined' = "none"
  /\ UNCHANGED <<pool, program, elapsed, due, code>>

-------------------------------------------------------------------------------
(* The bot: a process of its own, while the script waits in RunBot.         *)
Exit(status) ==
  /\ bot' = "exited" /\ code' = status
  /\ elapsed' = 0 /\ due' = 0
  /\ UNCHANGED joined

BotAlone == At("bot") /\ UNCHANGED <<pool, program, loop, server, old, pipe>>

(* Fault: the safety timer is as long as the time the script gives the bot. *)
BotConnects_Later ==
  /\ BotAlone /\ bot = "loading"
  /\ bot' = "connecting" /\ due' = elapsed + BotTime
  /\ UNCHANGED <<elapsed, code, joined>>

BotConnects ==
  /\ BotAlone /\ bot = "loading"
  /\ bot' = "connecting" /\ due' = elapsed + SafetyTime
  /\ UNCHANGED <<elapsed, code, joined>>

(* The join needs a server that is up and can log; an old server holds the  *)
(* port before a new one.                                                   *)
BotSpawns ==
  /\ BotAlone /\ bot = "connecting"
  /\ \/ old /\ joined' = "old"
     \/ ~old /\ server = "up" /\ pipe < PipeRoom /\ joined' = "this"
  /\ bot' = "holding" /\ due' = elapsed + HoldTime
  /\ UNCHANGED <<elapsed, code>>

(* kicked, error, or the end of the connection before the bot has spawned;  *)
(* an end after that is ignored.                                            *)
BotFails    == BotAlone /\ bot \in {"connecting", "holding"} /\ Exit(1)
SafetyEnds  == BotAlone /\ bot = "connecting" /\ elapsed = due /\ Exit(1)
HoldEnds    == BotAlone /\ bot = "holding" /\ elapsed = due /\ Exit(0)

(* No deadline passes unnoticed. *)
Tick ==
  /\ BotAlone /\ bot # "exited" /\ elapsed < BotTime
  /\ IF bot = "loading" THEN elapsed < LoadingTime ELSE elapsed < due
  /\ elapsed' = elapsed + 1
  /\ UNCHANGED <<bot, due, code, joined>>

(* The server: it listens on a port that is free.                           *)
ServerAlone == program = "repair" /\ UNCHANGED <<pool, program, loop, old, tested>>

ServerListens == ServerAlone /\ server = "starting" /\ ~old /\ server' = "up" /\ UNCHANGED pipe
ServerDies    == ServerAlone /\ server \in Running /\ server' = "exited" /\ UNCHANGED pipe
ServerLogs    == /\ ServerAlone /\ server \in {"up", "stopping"} /\ pipe < PipeRoom
                 /\ pipe' = pipe + 1 /\ UNCHANGED server
ServerStops   == /\ ServerAlone /\ server = "stopping" /\ pipe < PipeRoom
                 /\ server' = "exited" /\ UNCHANGED pipe
OldDies ==
  /\ program = "repair" /\ old /\ old' = FALSE
  /\ UNCHANGED <<pool, program, loop, server, pipe, tested>>

Processes ==
  \/ BotConnects \/ BotSpawns \/ BotFails \/ SafetyEnds \/ HoldEnds \/ Tick
  \/ ServerListens \/ ServerDies \/ ServerLogs \/ ServerStops \/ OldDies

(* The parallel runner, in a process of its own. *)
Swarm(r) ==
  /\ program = "swarm"
  /\ \/ \E preferred \in {"none", "groq"} : run_parallel_pipeline(r, preferred)
     \/ Acquire(r)
  /\ UNCHANGED <<program, loop, server, old, pipe, tested>>

Answering(r) ==
  /\ Asks(r)
  /\ UNCHANGED <<program, loop, server, old, pipe, tested>>

-------------------------------------------------------------------------------
RepairInit ==
  /\ PoolInit
  /\ program \in {"swarm", "repair"}
  /\ pc = "kill" /\ attempt = 1 /\ invocation = 1 /\ result = "none"
  /\ server = "none" /\ old \in BOOLEAN /\ pipe = 0
  /\ bot = "none" /\ elapsed = 0 /\ due = 0 /\ code = 0 /\ joined = "none"

RepairNext ==
  \/ Script
  \/ Invoke
  \/ Processes
  \/ \E r \in Requests : Swarm(r) \/ Answering(r)

(* The scripts run on, time passes, a timer that is due fires, a server     *)
(* that has been told to stop and can log does, and a call of a provider    *)
(* ends (it has a timeout).  Nothing is assumed of what the calls return,   *)
(* nor that the bot ever spawns.                                            *)
RepairFairness ==
  /\ WF_rvars(Script)
  /\ WF_rvars(BotConnects) /\ WF_rvars(SafetyEnds) /\ WF_rvars(HoldEnds) /\ WF_rvars(Tick)
  /\ WF_rvars(ServerStops)
  /\ \A r \in Requests : WF_rvars(Swarm(r)) /\ WF_rvars(Answering(r))

RepairSpec == RepairInit /\ [][RepairNext]_rvars /\ RepairFairness

-------------------------------------------------------------------------------
(* A test that has passed was passed by the server this attempt has built,  *)
(* not by one that an earlier invocation left on the port.                  *)
PassedByThisBuild == result = "passed" => joined = "this"

(* A run that returns leaves no server behind, however far the server was   *)
(* from stopping; only one that ends with TimeoutExpired may.               *)
CleanReturn == result \in {"passed", "failed"} => server \notin Running /\ ~old

(* So a run that returns says what it says of the server it has built, and  *)
(* leaves the machine as it should have found it.                           *)
ItsOwnServer == PassedByThisBuild /\ CleanReturn

(* The script loses patience only with a bot that has spawned: one that has *)
(* not is ended by its own safety timer in time, however long it took to    *)
(* load, and the failure is repaired like any other.                        *)
OnlyALateSpawnTimesOut == result = "raised" => joined # "none"

===============================================================================
