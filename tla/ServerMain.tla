------------------------------ MODULE ServerMain ------------------------------
(***************************************************************************)
(* main() around the ServerEngine (src/main.cpp): it starts the engine,    *)
(* sleeps until a signal has set g_shutdown_requested, and stops it.       *)
(*                                                                         *)
(* The signal handler runs on the main thread, which the kernel prefers    *)
(* for a signal sent to the process, on top of whatever that was doing,    *)
(* and logs before it stores the flag.  The log goes through a sink with a *)
(* mutex (stdout_color_sink_mt) that the worker threads use too; a thread  *)
(* that asks for the mutex it holds itself waits for ever.  A signal is    *)
(* blocked while its own handler runs, the other one is not.               *)
(***************************************************************************)
EXTENDS ServerEngine

CONSTANTS
  Signals,      \* of SIGINT and SIGTERM, those the operator sends
  MaxSignals    \* bound: how often the operator sends one

(* Who holds the mutex of the sink when no thread or handler has it by name. *)
Free == "free"
Main == "main"

ASSUME SignalsAssumption   == IsFiniteSet(Signals)
ASSUME HoldersAssumption   ==
  /\ Signals \cap (Workers \cup {Free, Main}) = {}
  /\ Workers \cap {Free, Main} = {}
ASSUME MaxSignalsAssumption == MaxSignals \in Nat

VARIABLES
  g_shutdown_requested,
  loop,      \* main() is "before", "in" or "after" its wait loop
  sink,      \* who holds the mutex of the log's sink
  frames,    \* signal handlers on the main thread's stack, the last on top
  sent       \* signals sent so far

signal == <<g_shutdown_requested, loop, sink, frames, sent>>
mvars  == <<vars, signal>>

(* The main thread runs its own code: no signal handler is on top of it.    *)
MainRuns == frames = <<>>
Top      == frames[Len(frames)]
WithoutTop == SubSeq(frames, 1, Len(frames) - 1)

-------------------------------------------------------------------------------
(* The handler: it logs, then stores the flag, then returns.  It may begin  *)
(* whatever main() is doing, from std::signal on.                           *)
Signal(s) ==
  /\ main # "done" /\ sent < MaxSignals
  /\ \A i \in 1 .. Len(frames) : frames[i].signal # s
  /\ frames' = Append(frames, [signal |-> s, at |-> "log"])
  /\ sent' = sent + 1
  /\ UNCHANGED <<vars, g_shutdown_requested, loop, sink>>

HandlerLogs ==
  /\ frames # <<>> /\ Top.at = "log"
  /\ sink = Free
  /\ sink' = Top.signal
  /\ frames' = Append(WithoutTop, [Top EXCEPT !.at = "logging"])
  /\ UNCHANGED <<vars, g_shutdown_requested, loop, sent>>

HandlerLogged ==
  /\ frames # <<>> /\ Top.at = "logging"
  /\ sink' = Free
  /\ frames' = Append(WithoutTop, [Top EXCEPT !.at = "store"])
  /\ UNCHANGED <<vars, g_shutdown_requested, loop, sent>>

HandlerStores ==
  /\ frames # <<>> /\ Top.at = "store"
  /\ g_shutdown_requested' = TRUE
  /\ frames' = WithoutTop
  /\ UNCHANGED <<vars, loop, sink, sent>>

-------------------------------------------------------------------------------
(* main(): it logs outside its wait loop, and calls start() and stop().     *)
MainLogs ==
  /\ MainRuns /\ loop # "in" /\ main # "done"
  /\ sink = Free
  /\ sink' = Main
  /\ UNCHANGED <<vars, g_shutdown_requested, loop, frames, sent>>

MainLogged ==
  /\ MainRuns /\ sink = Main
  /\ sink' = Free
  /\ UNCHANGED <<vars, g_shutdown_requested, loop, frames, sent>>

MainWaits ==
  /\ MainRuns /\ sink # Main
  /\ main = "serving" /\ loop = "before"
  /\ loop' = "in"
  /\ UNCHANGED <<vars, g_shutdown_requested, sink, frames, sent>>

MainWakes ==
  /\ MainRuns
  /\ loop = "in" /\ g_shutdown_requested
  /\ loop' = "after"
  /\ UNCHANGED <<vars, g_shutdown_requested, sink, frames, sent>>

MainCalls ==
  /\ MainRuns /\ sink # Main
  /\ Owner
  /\ main = "serving" => loop = "after"
  /\ UNCHANGED signal

-------------------------------------------------------------------------------
(* Worker threads log in the handlers they run. *)
WorkerLogs(w) ==
  /\ handler[w] # NoHandler
  /\ sink = Free
  /\ sink' = w
  /\ UNCHANGED <<vars, g_shutdown_requested, loop, frames, sent>>

WorkerLogged(w) ==
  /\ sink = w
  /\ sink' = Free
  /\ UNCHANGED <<vars, g_shutdown_requested, loop, frames, sent>>

WorkerRuns(w) ==
  /\ sink # w
  /\ Worker(w)
  /\ UNCHANGED signal

MainInit ==
  /\ Init
  /\ g_shutdown_requested = FALSE
  /\ loop = "before"
  /\ sink = Free
  /\ frames = <<>>
  /\ sent = 0

Handler  == HandlerLogs \/ HandlerLogged \/ HandlerStores
MainStep == MainWaits \/ MainWakes \/ MainCalls

MainNext ==
  \/ \E s \in Signals : Signal(s)
  \/ Handler
  \/ MainLogs \/ MainLogged \/ MainStep
  \/ \E w \in Workers : WorkerLogs(w) \/ WorkerLogged(w) \/ WorkerRuns(w)
  \/ Network /\ UNCHANGED signal

(* Threads are scheduled, what holds the mutex gives it back, and whoever   *)
(* asks for it again and again is not overtaken for ever; accept fails only *)
(* for a cause that passes.                                                 *)
MainFairness ==
  /\ SF_mvars(HandlerLogs) /\ WF_mvars(HandlerLogged) /\ WF_mvars(HandlerStores)
  /\ WF_mvars(MainLogged) /\ SF_mvars(MainStep)
  /\ \A w \in Workers : WF_mvars(WorkerLogged(w)) /\ SF_mvars(WorkerRuns(w))
  /\ SF_mvars(AcceptCompletes /\ UNCHANGED signal)

MainSpec == MainInit /\ [][MainNext]_mvars /\ MainFairness

-------------------------------------------------------------------------------
(* The handler on top waits for a mutex that the thread it runs on holds    *)
(* already: main() itself, or the handler that this one has interrupted.    *)
OnItself ==
  /\ frames # <<>> /\ Top.at = "log"
  /\ sink = Main \/ \E i \in 1 .. Len(frames) : frames[i].signal = sink

(* A signal stops the program: whatever the workers are doing and logging,  *)
(* the handler gets to store its flag and main() returns from stop().       *)
SignalStops == frames # <<>> ~> main = "done"

(* So it does whenever the signals come, in start(), in stop() or upon each *)
(* other, unless one of them catches the main thread with the mutex in its  *)
(* hands: contention with the workers, which log and throw and are made and *)
(* joined meanwhile, never keeps the program from stopping, nor does the    *)
(* flag that is stored before main() looks at it.                           *)
StopsUnlessOnItself == frames # <<>> ~> (main = "done" \/ OnItself)
===============================================================================
