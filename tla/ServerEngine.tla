---------------------------- MODULE ServerEngine -----------------------------
(***************************************************************************)
(* ServerEngine (src/network/server.cpp): one acceptor, an io_context and  *)
(* the worker threads that run it, from start() to the end of stop().      *)
(*                                                                         *)
(* A handler that throws leaves run() and ends in the worker's catch: the  *)
(* worker runs the io_context again, but what the handler had still to do  *)
(* is not done.  ServerConnection::start throws when the client has reset  *)
(* the connection, since its socket then has no remote endpoint.  A        *)
(* connection is here a chain of read handlers and no more.                *)
(*                                                                         *)
(* asio is external to the repository: the io_context runs handlers in the *)
(* order they are queued, and stops for good when no work is left.         *)
(***************************************************************************)
EXTENDS Naturals, Sequences, FiniteSets

CONSTANTS
  Workers,      \* worker_threads_
  Clients,      \* clients, each of which connects once at most
  PeersReset    \* may a client reset before its connection is started?

ASSUME PeersResetAssumption == PeersReset \in BOOLEAN

VARIABLES
  running_,
  main,       \* where the owner is in start() and stop()
  stopped,    \* the io_context is stopped
  queue,      \* handlers ready to run, in order
  acceptor,   \* an async_accept is outstanding
  worker,     \* where each thread is in its loop
  handler,    \* the handler each thread runs
  requested,  \* threads that have been requested to stop
  conn        \* the state of each client's connection

vars == <<running_, main, stopped, queue, acceptor, worker, handler, requested, conn>>

owner == <<running_, main, requested>>

-------------------------------------------------------------------------------
NoClient == "none"
ASSUME EngineAssumption ==
  IsFiniteSet(Workers) /\ Workers # {} /\ NoClient \notin Clients

NoHandler == [kind |-> "none", client |-> NoClient]
Handlers  == [kind : {"accept", "read"}, client : Clients \cup {NoClient}] \cup {NoHandler}

(* An accept that failed has no client.                                     *)
AcceptOf(c) == [kind |-> "accept", client |-> c]
ReadOf(c)   == [kind |-> "read", client |-> c]

(* Outstanding operations, queued handlers and running ones are work; the   *)
(* io_context stops when the last of it is done.                            *)
Work == acceptor \/ queue # <<>> \/ (\E c \in Clients : conn[c] = "open")
          \/ (\E w \in Workers : handler[w] # NoHandler)
StopsWithoutWork == stopped' = (stopped \/ ~Work')

-------------------------------------------------------------------------------
(* The owner. start() arms the first accept before it makes the threads,    *)
(* and these run handlers as soon as they are made.                         *)
Start ==
  /\ main = "new" /\ ~running_
  /\ main' = "starting"
  /\ running_' = TRUE
  /\ acceptor' = TRUE
  /\ UNCHANGED <<stopped, queue, worker, handler, requested, conn>>

(* Fault: the thread arms an accept of its own. *)
StartThread_Accepts(w) ==
  /\ main = "starting" /\ worker[w] = "unborn"
  /\ worker' = [worker EXCEPT ![w] = "loop"]
  /\ main' = IF \E v \in Workers : worker'[v] = "unborn" THEN main ELSE "serving"
  /\ acceptor' = TRUE
  /\ UNCHANGED <<running_, stopped, queue, handler, requested, conn>>

StartThread(w) ==
  /\ main = "starting" /\ worker[w] = "unborn"
  /\ worker' = [worker EXCEPT ![w] = "loop"]
  /\ main' = IF \E v \in Workers : worker'[v] = "unborn" THEN main ELSE "serving"
  /\ UNCHANGED <<running_, stopped, queue, acceptor, handler, requested, conn>>

Stop ==
  /\ main = "serving" /\ running_
  /\ main' = "stopping"
  /\ running_' = FALSE
  /\ UNCHANGED <<stopped, queue, acceptor, worker, handler, requested, conn>>

(* Fault: stop() goes on to join without a stop request. *)
StopContext_NoRequest ==
  /\ main = "stopping"
  /\ main' = "joining"
  /\ stopped' = TRUE
  /\ UNCHANGED <<running_, queue, acceptor, worker, handler, requested, conn>>

StopContext ==
  /\ main = "stopping"
  /\ main' = "requesting"
  /\ stopped' = TRUE
  /\ UNCHANGED <<running_, queue, acceptor, worker, handler, requested, conn>>

RequestStop(w) ==
  /\ main = "requesting" /\ w \notin requested
  /\ requested' = requested \cup {w}
  /\ main' = IF requested' = Workers THEN "joining" ELSE main
  /\ UNCHANGED <<running_, stopped, queue, acceptor, worker, handler, conn>>

(* worker_threads_.clear() joins every thread. *)
Join ==
  /\ main = "joining"
  /\ \A w \in Workers : worker[w] = "exited"
  /\ main' = "done"
  /\ UNCHANGED <<running_, stopped, queue, acceptor, worker, handler, requested, conn>>

-------------------------------------------------------------------------------
(* A worker thread. *)
WorkerLoop(w) ==
  /\ worker[w] = "loop"
  /\ worker' = [worker EXCEPT ![w] = IF w \in requested THEN "exited" ELSE "run"]
  /\ UNCHANGED <<owner, stopped, queue, acceptor, handler, conn>>

RunReturns(w) ==
  /\ worker[w] = "run" /\ handler[w] = NoHandler
  /\ stopped
  /\ worker' = [worker EXCEPT ![w] = "loop"]
  /\ UNCHANGED <<owner, stopped, queue, acceptor, handler, conn>>

RunHandler(w) ==
  /\ worker[w] = "run" /\ handler[w] = NoHandler
  /\ ~stopped /\ queue # <<>>
  /\ handler' = [handler EXCEPT ![w] = Head(queue)]
  /\ queue' = Tail(queue)
  /\ UNCHANGED <<owner, stopped, acceptor, worker, conn>>

(* What the accept handler reads in running_, which the owner writes        *)
(* without synchronisation: the value it has, or still the one it had.      *)
RunningSeen == {running_, TRUE}

(* Fault: the next accept is armed only after one that succeeded.           *)
AcceptHandler_NotAfterFailure(w) ==
  LET c == handler[w].client IN
  /\ handler[w].kind = "accept"
  /\ \/ /\ c \in {d \in Clients : conn[d] = "accepted"}
        /\ acceptor' \in RunningSeen
        /\ conn' = [conn EXCEPT ![c] = "open"]
        /\ UNCHANGED worker
     \/ /\ c \notin {d \in Clients : conn[d] = "accepted"}
        /\ UNCHANGED <<acceptor, conn, worker>>
  /\ handler' = [handler EXCEPT ![w] = NoHandler]
  /\ UNCHANGED <<owner, queue>>
  /\ StopsWithoutWork

(* The lambda of do_accept, with the connection's start(). *)
AcceptHandler(w) ==
  LET c == handler[w].client IN
  /\ handler[w].kind = "accept"
  /\ \/ /\ c \in {d \in Clients : conn[d] = "accepted"} \cup {NoClient}
        /\ acceptor' \in RunningSeen
        /\ conn' = [d \in Clients |-> IF d = c THEN "open" ELSE conn[d]]
        /\ UNCHANGED worker
     \/ /\ c \in {d \in Clients : conn[d] = "reset"}
        /\ conn' = [conn EXCEPT ![c] = "dropped"]
        /\ worker' = [worker EXCEPT ![w] = "loop"]
        /\ UNCHANGED acceptor
  /\ handler' = [handler EXCEPT ![w] = NoHandler]
  /\ UNCHANGED <<owner, queue>>
  /\ StopsWithoutWork

(* Fault: the next read is started before the packet is processed. *)
ReadHandler_ReadsAhead(w) ==
  LET c == handler[w].client IN
  /\ handler[w].kind = "read"
  /\ conn[c] = "reading" /\ conn' = [conn EXCEPT ![c] = "open"]
  /\ UNCHANGED <<owner, queue, acceptor, stopped, worker, handler>>

(* A read handler starts the next read, ends the connection, or throws.     *)
ReadHandler(w) ==
  LET c == handler[w].client IN
  /\ handler[w].kind = "read"
  /\ \/ conn' = [conn EXCEPT ![c] = "open"] /\ UNCHANGED worker
     \/ conn' = [conn EXCEPT ![c] = "gone"] /\ UNCHANGED worker
     \/ conn' = [conn EXCEPT ![c] = "gone"] /\ worker' = [worker EXCEPT ![w] = "loop"]
  /\ handler' = [handler EXCEPT ![w] = NoHandler]
  /\ UNCHANGED <<owner, queue, acceptor>>
  /\ StopsWithoutWork

-------------------------------------------------------------------------------
(* Clients and the kernel. *)
Connect(c) ==
  /\ conn[c] = "away"
  /\ conn' = [conn EXCEPT ![c] = "backlog"]
  /\ UNCHANGED <<owner, stopped, queue, acceptor, worker, handler>>

(* The client resets a connection that has been accepted and not started.   *)
Reset(c) ==
  /\ PeersReset
  /\ conn[c] = "accepted"
  /\ conn' = [conn EXCEPT ![c] = "reset"]
  /\ UNCHANGED <<owner, stopped, queue, acceptor, worker, handler>>

(* Until the context stops, the accept completes with a client or fails.    *)
AcceptCompletes ==
  /\ acceptor /\ ~stopped
  /\ acceptor' = FALSE
  /\ \E c \in Clients :
       /\ conn[c] = "backlog"
       /\ conn' = [conn EXCEPT ![c] = "accepted"]
       /\ queue' = Append(queue, AcceptOf(c))
  /\ UNCHANGED <<owner, stopped, worker, handler>>

AcceptFails ==
  /\ acceptor /\ ~stopped
  /\ \E c \in Clients : conn[c] = "backlog"
  /\ acceptor' = FALSE
  /\ queue' = Append(queue, AcceptOf(NoClient))
  /\ UNCHANGED <<owner, stopped, worker, handler, conn>>

(* The client sends or leaves: its read completes. *)
ReadCompletes(c) ==
  /\ conn[c] = "open" /\ ~stopped
  /\ conn' = [conn EXCEPT ![c] = "reading"]
  /\ queue' = Append(queue, ReadOf(c))
  /\ UNCHANGED <<owner, stopped, acceptor, worker, handler>>

-------------------------------------------------------------------------------
Init ==
  /\ running_ = FALSE /\ main = "new"
  /\ stopped = FALSE /\ queue = <<>> /\ acceptor = FALSE
  /\ worker = [w \in Workers |-> "unborn"]
  /\ handler = [w \in Workers |-> NoHandler]
  /\ requested = {}
  /\ conn = [c \in Clients |-> "away"]

Owner ==
  \/ Start \/ (\E w \in Workers : StartThread(w))
  \/ Stop \/ StopContext \/ (\E w \in Workers : RequestStop(w)) \/ Join

Worker(w) ==
  \/ WorkerLoop(w) \/ RunReturns(w) \/ RunHandler(w)
  \/ AcceptHandler(w) \/ ReadHandler(w)

Network ==
  \/ \E c \in Clients : Connect(c) \/ Reset(c) \/ ReadCompletes(c)
  \/ AcceptCompletes \/ AcceptFails

Next == Owner \/ (\E w \in Workers : Worker(w)) \/ Network

(* Threads are scheduled and every handler returns; a call of start() or    *)
(* stop() goes on to its end; accept does not fail for ever (the failures have a cause  *)
(* that passes).  Nobody has to call stop(), and no client has to connect.  *)
Fairness ==
  /\ \A w \in Workers : WF_vars(Worker(w)) /\ WF_vars(StartThread(w)) /\ WF_vars(RequestStop(w))
  /\ WF_vars(StopContext) /\ WF_vars(Join)
  /\ SF_vars(AcceptCompletes)

Spec == Init /\ [][Next]_vars /\ Fairness

-------------------------------------------------------------------------------
(* Every variable has its type: above all, a worker that meets an exception *)
(* goes back to its loop, and no thread ends but by its stop token.         *)
TypeOK ==
  /\ running_ \in BOOLEAN /\ stopped \in BOOLEAN /\ acceptor \in BOOLEAN
  /\ main \in {"new", "starting", "serving", "stopping", "requesting", "joining", "done"}
  /\ queue \in Seq(Handlers)
  /\ worker \in [Workers -> {"unborn", "loop", "run", "exited"}]
  /\ handler \in [Workers -> Handlers]
  /\ requested \subseteq Workers
  /\ conn \in [Clients -> {"away", "backlog", "accepted", "reset", "dropped",
                        "open", "reading", "gone"}]

(* The handlers of kind k for client c, queued or being run. *)
Live(k, c) ==
  Cardinality({i \in 1 .. Len(queue) : queue[i].kind = k /\ queue[i].client = c})
    + Cardinality({w \in Workers : handler[w].kind = k /\ handler[w].client = c})

(* The read handlers of a connection never run on two threads at once, nor  *)
(* is one queued while another runs, although nothing but the order of      *)
(* their calls sees to it: there is no strand.                              *)
ReadsAreSerial ==
  \A c \in Clients : Live("read", c) = IF conn[c] = "reading" THEN 1 ELSE 0

(* The connections whose start() has thrown out of the accept handler. *)
Dropped == {c \in Clients : conn[c] = "dropped"}

(* From start() to stop() there is one accept, outstanding, queued or being *)
(* handled: do_accept always arms the next one and never two, whatever the  *)
(* threads there already are do while the others are made, and only an      *)
(* exception of the connection's start() ends the chain.                    *)
OneAccept ==
  running_ =>
    LET failed  == Live("accept", NoClient)
        pending == {c \in Clients : Live("accept", c) > 0}
        armed   == IF acceptor THEN 1 ELSE 0 IN
      failed + Cardinality(pending) + armed = IF Dropped = {} THEN 1 ELSE 0

(* Once start() has returned, whoever connects is accepted, until stop().  *)
EveryoneAccepted ==
  \A c \in Clients : conn[c] = "backlog" ~> (conn[c] # "backlog" \/ main # "serving")

(* The same, until start() has thrown once: failed accepts, throwing reads   *)
(* and clients that leave do not keep the next one out.                     *)
AcceptedUnlessDropped ==
  \A c \in Clients :
    conn[c] = "backlog" ~> (conn[c] # "backlog" \/ main # "serving" \/ Dropped # {})
===============================================================================
