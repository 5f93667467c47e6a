-------------------------- MODULE ServerMain_proofs --------------------------
(***************************************************************************)
(* Proofs about ServerMain and the engine in it, for any number of worker  *)
(* threads and clients: the chain of accepts never forks and is only       *)
(* broken by an exception of start(), and the reads of a connection are    *)
(* serial without a strand.                                                *)
(***************************************************************************)
EXTENDS ServerMain, FiniteSetTheorems, TLAPS

(* Handlers of a kind and a client, in a queue and in the hands of threads. *)
One(x, k, c) == IF x.kind = k /\ x.client = c THEN 1 ELSE 0

QueuedOf(q, k, c) == {i \in 1 .. Len(q) : q[i].kind = k /\ q[i].client = c}
RunOf(h, k, c)    == {w \in Workers : h[w].kind = k /\ h[w].client = c}
LiveIn(q, h, k, c) == Cardinality(QueuedOf(q, k, c)) + Cardinality(RunOf(h, k, c))

Pending == {c \in Clients : conn[c] \in {"accepted", "reset"}}

(* Before start() nothing goes on; a thread with a handler is in run().     *)
StagesInv ==
  /\ main = "new" => /\ ~running_ /\ queue = <<>> /\ ~acceptor
                     /\ \A w \in Workers : handler[w] = NoHandler
                     /\ \A c \in Clients : conn[c] \in {"away", "backlog"}
  /\ \A w \in Workers : handler[w] # NoHandler => worker[w] = "run"

(* The handlers there are of each client are told by its connection.        *)
LiveInv ==
  \A c \in Clients :
    /\ LiveIn(queue, handler, "read", c) = IF conn[c] = "reading" THEN 1 ELSE 0
    /\ LiveIn(queue, handler, "accept", c) = IF c \in Pending THEN 1 ELSE 0

Armed == IF acceptor THEN 1 ELSE 0

AcceptInv ==
  /\ IsFiniteSet(Pending)
  /\ running_ =>
       LiveIn(queue, handler, "accept", NoClient) + Cardinality(Pending) + Armed =
         IF Dropped = {} THEN 1 ELSE 0

EngineInv == TypeOK /\ StagesInv /\ LiveInv /\ AcceptInv

-------------------------------------------------------------------------------
(* Counting handlers.                                                       *)
LEMMA QueuedIsFinite ==
  ASSUME NEW q \in Seq(Handlers), NEW k, NEW c
  PROVE  IsFiniteSet(QueuedOf(q, k, c)) /\ Cardinality(QueuedOf(q, k, c)) \in Nat
<1>1. IsFiniteSet(1 .. Len(q))
  <2>1. Len(q) \in Int
    OBVIOUS
  <2>. QED
    BY <2>1, FS_Interval
<1>2. QueuedOf(q, k, c) \in SUBSET (1 .. Len(q))
  BY DEF QueuedOf
<1>. QED
  BY <1>1, <1>2, FS_Subset, FS_CardinalityType

LEMMA RunIsFinite ==
  ASSUME NEW h, NEW k, NEW c
  PROVE  IsFiniteSet(RunOf(h, k, c)) /\ Cardinality(RunOf(h, k, c)) \in Nat
<1>1. RunOf(h, k, c) \in SUBSET Workers
  BY DEF RunOf
<1>. QED
  BY <1>1, EngineAssumption, FS_Subset, FS_CardinalityType

LEMMA QueuedAppend ==
  ASSUME NEW q \in Seq(Handlers), NEW x \in Handlers, NEW k, NEW c
  PROVE  Cardinality(QueuedOf(Append(q, x), k, c)) =
           Cardinality(QueuedOf(q, k, c)) + One(x, k, c)
<1>1. PICK n \in Nat : n = Len(q)
  OBVIOUS
<1>2. /\ Len(Append(q, x)) = n + 1 /\ Append(q, x)[n + 1] = x
      /\ \A i \in 1 .. n : Append(q, x)[i] = q[i]
  BY <1>1
<1>3. n + 1 \notin QueuedOf(q, k, c)
  BY <1>1 DEF QueuedOf
<1>4. CASE x.kind = k /\ x.client = c
  <2>1. QueuedOf(Append(q, x), k, c) = QueuedOf(q, k, c) \cup {n + 1}
    BY <1>1, <1>2, <1>4 DEF QueuedOf
  <2>. QED
    <3>1. Cardinality(QueuedOf(q, k, c) \cup {n + 1}) = Cardinality(QueuedOf(q, k, c)) + 1
      BY <1>3, QueuedIsFinite, FS_AddElement
    <3>. QED
      BY <2>1, <3>1, <1>4 DEF One
<1>5. CASE ~ (x.kind = k /\ x.client = c)
  <2>1. QueuedOf(Append(q, x), k, c) = QueuedOf(q, k, c)
    BY <1>1, <1>2, <1>5 DEF QueuedOf
  <2>. QED
    BY <2>1, <1>5, QueuedIsFinite DEF One
<1>. QED
  BY <1>4, <1>5

LEMMA QueuedTail ==
  ASSUME NEW q \in Seq(Handlers), q # <<>>, NEW k, NEW c
  PROVE  Cardinality(QueuedOf(q, k, c)) =
           Cardinality(QueuedOf(Tail(q), k, c)) + One(Head(q), k, c)
<1>1. PICK n \in Nat : n = Len(q) /\ n > 0
  OBVIOUS
<1>2. /\ Len(Tail(q)) = n - 1 /\ Tail(q) \in Seq(Handlers) /\ Head(q) = q[1]
      /\ \A i \in 1 .. n - 1 : Tail(q)[i] = q[i + 1]
  BY <1>1
<1>. DEFINE S == QueuedOf(q, k, c) \ {1}
            T == QueuedOf(Tail(q), k, c)
            f == [i \in T |-> i + 1]
<1>3. f \in Bijection(T, S)
  <2>1. \A i \in T : i \in 1 .. n - 1 /\ i + 1 \in S
    BY <1>1, <1>2 DEF QueuedOf
  <2>2. \A i, j \in T : i + 1 = j + 1 => i = j
    BY <2>1
  <2>3. \A j \in S : j - 1 \in T /\ (j - 1) + 1 = j
    BY <1>1, <1>2 DEF QueuedOf
  <2>. QED
    BY <2>1, <2>2, <2>3 DEF Bijection, Injection, Surjection, IsInjective
<1>4. IsFiniteSet(T)
  BY <1>2, QueuedIsFinite
<1>5. Cardinality(S) = Cardinality(T)
  BY <1>3, <1>4, FS_Bijection DEF ExistsBijection
<1>6. Cardinality(S) = IF 1 \in QueuedOf(q, k, c) THEN Cardinality(QueuedOf(q, k, c)) - 1
                       ELSE Cardinality(QueuedOf(q, k, c))
  BY QueuedIsFinite, FS_RemoveElement
<1>7. 1 \in QueuedOf(q, k, c) <=> Head(q).kind = k /\ Head(q).client = c
  BY <1>1, <1>2 DEF QueuedOf
<1>. QED
  BY <1>5, <1>6, <1>7, QueuedIsFinite DEF One

LEMMA RunChanged ==
  ASSUME NEW h, NEW g, NEW w \in Workers, \A v \in Workers : v # w => g[v] = h[v],
         NEW k, NEW c
  PROVE  Cardinality(RunOf(g, k, c)) + One(h[w], k, c) =
           Cardinality(RunOf(h, k, c)) + One(g[w], k, c)
<1>. DEFINE R == RunOf(h, k, c) \ {w}
<1>1. R = RunOf(g, k, c) \ {w}
  BY DEF RunOf
<1>2. /\ w \in RunOf(h, k, c) <=> h[w].kind = k /\ h[w].client = c
      /\ w \in RunOf(g, k, c) <=> g[w].kind = k /\ g[w].client = c
  BY DEF RunOf
<1>3. /\ Cardinality(R) = IF w \in RunOf(h, k, c) THEN Cardinality(RunOf(h, k, c)) - 1
                          ELSE Cardinality(RunOf(h, k, c))
      /\ Cardinality(R) = IF w \in RunOf(g, k, c) THEN Cardinality(RunOf(g, k, c)) - 1
                          ELSE Cardinality(RunOf(g, k, c))
  BY <1>1, RunIsFinite, FS_RemoveElement
<1>4. Cardinality(RunOf(h, k, c)) \in Nat /\ Cardinality(RunOf(g, k, c)) \in Nat
  BY RunIsFinite
<1>. QED
  BY <1>2, <1>3, <1>4 DEF One

(* A handler that is queued is one more,                                    *)
LEMMA LiveAppend ==
  ASSUME TypeOK, NEW x \in Handlers, NEW k, NEW c
  PROVE  LiveIn(Append(queue, x), handler, k, c) = LiveIn(queue, handler, k, c) + One(x, k, c)
<1>1. /\ queue \in Seq(Handlers)
      /\ Cardinality(QueuedOf(queue, k, c)) \in Nat /\ Cardinality(RunOf(handler, k, c)) \in Nat
      /\ One(x, k, c) \in Nat
  BY QueuedIsFinite, RunIsFinite DEF TypeOK, One
<1>. QED
  BY <1>1, QueuedAppend DEF LiveIn

(* one that is taken from the queue remains one,                            *)
LEMMA LiveRun ==
  ASSUME TypeOK, queue # <<>>, NEW w \in Workers, handler[w] = NoHandler,
         NEW k \in {"accept", "read"}, NEW c
  PROVE  LiveIn(Tail(queue), [handler EXCEPT ![w] = Head(queue)], k, c) =
           LiveIn(queue, handler, k, c)
<1>1. /\ queue \in Seq(Handlers) /\ Head(queue) \in Handlers /\ Tail(queue) \in Seq(Handlers)
      /\ handler \in [Workers -> Handlers]
  BY DEF TypeOK
<1>2. PICK g : g = [handler EXCEPT ![w] = Head(queue)]
  OBVIOUS
<1>3. One(handler[w], k, c) = 0 /\ One(Head(queue), k, c) \in Nat
  BY DEF One, NoHandler
<1>4. /\ Cardinality(QueuedOf(queue, k, c)) \in Nat /\ Cardinality(RunOf(handler, k, c)) \in Nat
      /\ Cardinality(QueuedOf(Tail(queue), k, c)) \in Nat /\ Cardinality(RunOf(g, k, c)) \in Nat
  BY <1>1, QueuedIsFinite, RunIsFinite
<1>5. Cardinality(RunOf(g, k, c)) + One(handler[w], k, c) =
        Cardinality(RunOf(handler, k, c)) + One(Head(queue), k, c)
  <2>1. g[w] = Head(queue) /\ \A v \in Workers : v # w => g[v] = handler[v]
    BY <1>1, <1>2
  <2>2. Cardinality(RunOf(g, k, c)) + One(handler[w], k, c) =
          Cardinality(RunOf(handler, k, c)) + One(g[w], k, c)
    BY <2>1, RunChanged
  <2>. QED
    BY <2>1, <2>2
<1>6. Cardinality(QueuedOf(queue, k, c)) =
        Cardinality(QueuedOf(Tail(queue), k, c)) + One(Head(queue), k, c)
  BY <1>1, QueuedTail
<1>7. LiveIn(Tail(queue), g, k, c) = LiveIn(queue, handler, k, c)
  BY <1>3, <1>4, <1>5, <1>6 DEF LiveIn
<1>. QED
  BY <1>2, <1>7

(* and one that returns, or throws, is one less.                            *)
LEMMA LiveDone ==
  ASSUME TypeOK, NEW w \in Workers, NEW k \in {"accept", "read"}, NEW c
  PROVE  /\ LiveIn(queue, handler, k, c) =
              LiveIn(queue, [handler EXCEPT ![w] = NoHandler], k, c) + One(handler[w], k, c)
         /\ LiveIn(queue, [handler EXCEPT ![w] = NoHandler], k, c) \in Nat
<1>1. /\ queue \in Seq(Handlers) /\ handler \in [Workers -> Handlers] /\ NoHandler \in Handlers
  BY DEF TypeOK, Handlers
<1>2. PICK g : g = [handler EXCEPT ![w] = NoHandler]
  OBVIOUS
<1>3. One(NoHandler, k, c) = 0 /\ One(handler[w], k, c) \in Nat
  BY DEF One, NoHandler
<1>4. /\ Cardinality(QueuedOf(queue, k, c)) \in Nat /\ Cardinality(RunOf(handler, k, c)) \in Nat
      /\ Cardinality(RunOf(g, k, c)) \in Nat
  BY <1>1, QueuedIsFinite, RunIsFinite
<1>5. Cardinality(RunOf(g, k, c)) + One(handler[w], k, c) =
        Cardinality(RunOf(handler, k, c)) + One(NoHandler, k, c)
  <2>1. g[w] = NoHandler
    BY <1>1, <1>2
  <2>2. \A v \in Workers : v # w => g[v] = handler[v]
    BY <1>1, <1>2
  <2>3. Cardinality(RunOf(g, k, c)) + One(handler[w], k, c) =
          Cardinality(RunOf(handler, k, c)) + One(g[w], k, c)
    BY <2>2, RunChanged
  <2>. QED
    BY <2>1, <2>3
<1>. QED
  BY <1>2, <1>3, <1>4, <1>5 DEF LiveIn

-------------------------------------------------------------------------------
(* The types.                                                               *)
LEMMA EngineTypes ==
  ASSUME TypeOK, Next
  PROVE  TypeOK'
<1>1. ASSUME Owner PROVE TypeOK'
  BY <1>1 DEF Owner, TypeOK, Start, StartThread, Stop, StopContext, RequestStop, Join
<1>2. ASSUME NEW w \in Workers, WorkerLoop(w) \/ RunReturns(w) PROVE TypeOK'
  BY <1>2 DEF TypeOK, WorkerLoop, RunReturns, owner
<1>3. ASSUME NEW w \in Workers, RunHandler(w) PROVE TypeOK'
  <2>1. Head(queue) \in Handlers /\ Tail(queue) \in Seq(Handlers)
    BY <1>3 DEF TypeOK, RunHandler
  <2>. QED
    BY <1>3, <2>1 DEF TypeOK, RunHandler, owner
<1>4. ASSUME NEW w \in Workers, AcceptHandler(w) PROVE TypeOK'
  <2>1. NoHandler \in Handlers /\ RunningSeen \subseteq BOOLEAN
    BY DEF Handlers, RunningSeen, TypeOK
  <2>2. acceptor' \in BOOLEAN /\ stopped' \in BOOLEAN
    BY <1>4, <2>1 DEF TypeOK, AcceptHandler, StopsWithoutWork, Work
  <2>3. handler' \in [Workers -> Handlers]
    BY <1>4, <2>1 DEF TypeOK, AcceptHandler
  <2>4. worker' \in [Workers -> {"unborn", "loop", "run", "exited"}]
    BY <1>4 DEF TypeOK, AcceptHandler
  <2>5. conn' \in [Clients -> {"away", "backlog", "accepted", "reset", "dropped",
                        "open", "reading", "gone"}]
    BY <1>4 DEF TypeOK, AcceptHandler
  <2>. QED
    BY <1>4, <2>2, <2>3, <2>4, <2>5 DEF TypeOK, AcceptHandler, owner
<1>5. ASSUME NEW w \in Workers, ReadHandler(w) PROVE TypeOK'
  <2>1. NoHandler \in Handlers
    BY DEF Handlers
  <2>2. stopped' \in BOOLEAN
    BY <1>5 DEF TypeOK, ReadHandler, StopsWithoutWork, Work
  <2>3. handler' \in [Workers -> Handlers]
    BY <1>5, <2>1 DEF TypeOK, ReadHandler
  <2>4. worker' \in [Workers -> {"unborn", "loop", "run", "exited"}]
    BY <1>5 DEF TypeOK, ReadHandler
  <2>5. conn' \in [Clients -> {"away", "backlog", "accepted", "reset", "dropped",
                        "open", "reading", "gone"}]
    BY <1>5 DEF TypeOK, ReadHandler
  <2>. QED
    BY <1>5, <2>2, <2>3, <2>4, <2>5 DEF TypeOK, ReadHandler, owner
<1>6. ASSUME Network PROVE TypeOK'
  <2>1. \A c \in Clients \cup {NoClient} : AcceptOf(c) \in Handlers /\ ReadOf(c) \in Handlers
    BY DEF Handlers, AcceptOf, ReadOf
  <2>2. ASSUME NEW c \in Clients, Connect(c) \/ Reset(c) PROVE TypeOK'
    BY <2>2 DEF TypeOK, Connect, Reset, owner
  <2>3. ASSUME NEW c \in Clients, ReadCompletes(c) PROVE TypeOK'
    BY <2>1, <2>3 DEF TypeOK, ReadCompletes, owner
  <2>4. ASSUME AcceptCompletes PROVE TypeOK'
    <3>1. PICK c \in Clients : /\ conn' = [conn EXCEPT ![c] = "accepted"]
                               /\ queue' = Append(queue, AcceptOf(c))
      BY <2>4 DEF AcceptCompletes
    <3>2. queue' \in Seq(Handlers)
      BY <2>1, <3>1 DEF TypeOK
    <3>. QED
      BY <2>4, <3>1, <3>2 DEF TypeOK, AcceptCompletes, owner
  <2>5. ASSUME AcceptFails PROVE TypeOK'
    <3>1. queue' = Append(queue, AcceptOf(NoClient)) /\ AcceptOf(NoClient) \in Handlers
      BY <2>1, <2>5 DEF AcceptFails
    <3>2. queue' \in Seq(Handlers)
      BY <3>1 DEF TypeOK
    <3>. QED
      BY <2>5, <3>2 DEF TypeOK, AcceptFails, owner
  <2>. QED
    BY <1>6, <2>2, <2>3, <2>4, <2>5 DEF Network
<1>. QED
  BY <1>1, <1>2, <1>3, <1>4, <1>5, <1>6 DEF Next, Worker

(* The stages of the owner.                                                 *)
LEMMA StagesStep ==
  ASSUME TypeOK, StagesInv, Next
  PROVE  StagesInv'
<1>1. ASSUME Owner PROVE StagesInv'
  BY <1>1 DEF Owner, TypeOK, StagesInv, Start, StartThread, Stop, StopContext, RequestStop, Join
<1>2. ASSUME NEW w \in Workers, WorkerLoop(w) \/ RunReturns(w) PROVE StagesInv'
  BY <1>2 DEF TypeOK, StagesInv, WorkerLoop, RunReturns, owner
<1>3. ASSUME NEW w \in Workers, RunHandler(w) PROVE StagesInv'
  BY <1>3 DEF TypeOK, StagesInv, RunHandler, owner
<1>4. ASSUME NEW w \in Workers, AcceptHandler(w) \/ ReadHandler(w) PROVE StagesInv'
  <2>1. handler[w] # NoHandler
    BY <1>4 DEF AcceptHandler, ReadHandler, NoHandler
  <2>2. main # "new" /\ main' = main /\ running_' = running_
    BY <1>4, <2>1 DEF StagesInv, AcceptHandler, ReadHandler, owner
  <2>3. \A v \in Workers : handler'[v] # NoHandler =>
           handler'[v] = handler[v] /\ worker'[v] = worker[v]
    BY <1>4 DEF TypeOK, AcceptHandler, ReadHandler
  <2>. QED
    BY <2>2, <2>3 DEF StagesInv
<1>5. ASSUME Network PROVE StagesInv'
  BY <1>5 DEF Network, TypeOK, StagesInv, Connect, Reset, ReadCompletes, AcceptCompletes,
              AcceptFails, owner
<1>. QED
  BY <1>1, <1>2, <1>3, <1>4, <1>5 DEF Next, Worker

-------------------------------------------------------------------------------
(* The handlers, step by step.  What leaves queue, handlers, connections    *)
(* and the acceptor alone leaves the counts alone.                          *)
LEMMA QuietStep ==
  ASSUME LiveInv, AcceptInv, UNCHANGED <<queue, handler, conn, acceptor>>,
         running_' => running_
  PROVE  LiveInv' /\ AcceptInv'
<1>1. Pending' = Pending /\ Dropped' = Dropped /\ Armed' = Armed
  BY DEF Pending, Dropped, Armed
<1>2. \A k, c : LiveIn(queue', handler', k, c) = LiveIn(queue, handler, k, c)
  OBVIOUS
<1>. QED
  BY <1>1, <1>2 DEF LiveInv, AcceptInv

LEMMA StartStep ==
  ASSUME TypeOK, StagesInv, LiveInv, AcceptInv, Start
  PROVE  LiveInv' /\ AcceptInv'
<1>1. /\ queue = <<>> /\ queue' = queue /\ handler' = handler /\ conn' = conn
      /\ acceptor' = TRUE
      /\ \A w \in Workers : handler[w] = NoHandler
      /\ \A c \in Clients : conn[c] \in {"away", "backlog"}
  BY DEF Start, StagesInv
<1>2. Pending' = {} /\ Dropped' = {} /\ Pending = {} /\ Armed' = 1
  BY <1>1 DEF Pending, Dropped, Armed
<1>3. LiveIn(queue, handler, "accept", NoClient) = 0
  <2>1. QueuedOf(queue, "accept", NoClient) = {} /\ RunOf(handler, "accept", NoClient) = {}
    BY <1>1 DEF QueuedOf, RunOf, NoHandler
  <2>. QED
    BY <2>1, FS_EmptySet DEF LiveIn
<1>4. LiveInv'
  BY <1>1, <1>2 DEF LiveInv
<1>5. LiveIn(queue', handler', "accept", NoClient) = 0
  BY <1>1, <1>3
<1>6. Cardinality(Pending') = 0 /\ IsFiniteSet(Pending')
  BY <1>2, FS_EmptySet
<1>. QED
  BY <1>2, <1>4, <1>5, <1>6 DEF AcceptInv

LEMMA RunHandlerStep ==
  ASSUME TypeOK, LiveInv, AcceptInv, NEW w \in Workers, RunHandler(w)
  PROVE  LiveInv' /\ AcceptInv'
<1>1. Pending' = Pending /\ Dropped' = Dropped /\ Armed' = Armed /\ running_' = running_ /\ conn' = conn
  BY DEF Pending, Dropped, Armed, RunHandler, owner
<1>2. /\ queue # <<>> /\ handler[w] = NoHandler
      /\ queue' = Tail(queue) /\ handler' = [handler EXCEPT ![w] = Head(queue)]
  BY DEF RunHandler
<1>3. \A c : /\ LiveIn(queue', handler', "read", c) = LiveIn(queue, handler, "read", c)
             /\ LiveIn(queue', handler', "accept", c) = LiveIn(queue, handler, "accept", c)
  BY <1>2, LiveRun
<1>. QED
  BY <1>1, <1>3 DEF LiveInv, AcceptInv

(* What the end of a handler does to the counts. *)
LEMMA HandlerEnds ==
  ASSUME TypeOK, NEW w \in Workers, queue' = queue,
         handler' = [handler EXCEPT ![w] = NoHandler],
         NEW k \in {"accept", "read"}, NEW c
  PROVE  /\ LiveIn(queue', handler', k, c) \in Nat
         /\ LiveIn(queue, handler, k, c) = LiveIn(queue', handler', k, c) + One(handler[w], k, c)
  BY LiveDone

LEMMA AcceptHandlerStep ==
  ASSUME TypeOK, StagesInv, LiveInv, AcceptInv, NEW w \in Workers, AcceptHandler(w)
  PROVE  LiveInv' /\ AcceptInv'
<1>. DEFINE c == handler[w].client
<1>1. /\ handler[w].kind = "accept" /\ queue' = queue /\ running_' = running_
      /\ handler' = [handler EXCEPT ![w] = NoHandler]
  BY DEF AcceptHandler, owner
<1>2. \A d : /\ LiveIn(queue', handler', "accept", d) \in Nat
             /\ LiveIn(queue', handler', "read", d) \in Nat
             /\ LiveIn(queue, handler, "accept", d) =
                  LiveIn(queue', handler', "accept", d) + (IF d = c THEN 1 ELSE 0)
             /\ LiveIn(queue, handler, "read", d) = LiveIn(queue', handler', "read", d)
  <2>1. \A d : /\ LiveIn(queue', handler', "accept", d) \in Nat
               /\ LiveIn(queue, handler, "accept", d) =
                    LiveIn(queue', handler', "accept", d) + One(handler[w], "accept", d)
               /\ LiveIn(queue', handler', "read", d) \in Nat
               /\ LiveIn(queue, handler, "read", d) =
                    LiveIn(queue', handler', "read", d) + One(handler[w], "read", d)
    BY <1>1, HandlerEnds
  <2>2. \A d : /\ One(handler[w], "accept", d) = IF d = c THEN 1 ELSE 0
               /\ One(handler[w], "read", d) = 0
    BY <1>1 DEF One
  <2>. QED
    BY <2>1, <2>2
<1>3. CASE c = NoClient
  <2>1. conn' = conn /\ acceptor' \in RunningSeen
    <3>1. NoClient \notin Clients
      BY EngineAssumption
    <3>. QED
      BY <1>3, <3>1 DEF AcceptHandler, TypeOK
  <2>2. Pending' = Pending /\ Dropped' = Dropped
    BY <2>1 DEF Pending, Dropped
  <2>3. LiveInv'
    BY <1>2, <1>3, <2>1, <2>2, EngineAssumption DEF LiveInv
  <2>4. ASSUME running_'
        PROVE  LiveIn(queue', handler', "accept", NoClient) + Cardinality(Pending') + Armed' =
                 IF Dropped' = {} THEN 1 ELSE 0
    <3>1. Armed' = 1 /\ Armed \in {0, 1}
      BY <1>1, <2>1, <2>4 DEF Armed, RunningSeen, StagesInv
    <3>2. PICK a \in Nat : a = LiveIn(queue', handler', "accept", NoClient)
      BY <1>2
    <3>3. LiveIn(queue, handler, "accept", NoClient) = a + 1
      BY <1>2, <1>3, <3>2
    <3>4. PICK p \in Nat : p = Cardinality(Pending)
      BY FS_CardinalityType DEF AcceptInv
    <3>5. (a + 1) + p + Armed = IF Dropped = {} THEN 1 ELSE 0
      BY <1>1, <2>4, <3>3, <3>4 DEF AcceptInv
    <3>. QED
      BY <2>2, <3>1, <3>2, <3>4, <3>5
  <2>. QED
    BY <2>2, <2>3, <2>4 DEF AcceptInv
<1>4. CASE c \in Clients
  <2>1. /\ conn[c] \in {"accepted", "reset"}
        /\ conn[c] = "accepted" => conn'[c] = "open" /\ acceptor' \in RunningSeen
        /\ conn[c] = "reset" => conn'[c] = "dropped" /\ acceptor' = acceptor
        /\ \A d \in Clients : d # c => conn'[d] = conn[d]
    BY <1>4, EngineAssumption DEF AcceptHandler, TypeOK
  <2>2. c \in Pending /\ Pending' = Pending \ {c} /\ c \notin Pending'
    BY <1>4, <2>1 DEF Pending
  <2>3. LiveInv'
    <3>1. SUFFICES ASSUME NEW d \in Clients
                   PROVE  /\ LiveIn(queue', handler', "read", d) =
                               IF conn'[d] = "reading" THEN 1 ELSE 0
                          /\ LiveIn(queue', handler', "accept", d) =
                               IF d \in Pending' THEN 1 ELSE 0
      BY DEF LiveInv
    <3>2. /\ LiveIn(queue, handler, "read", d) = IF conn[d] = "reading" THEN 1 ELSE 0
          /\ LiveIn(queue, handler, "accept", d) = IF d \in Pending THEN 1 ELSE 0
      BY DEF LiveInv
    <3>3. conn'[d] = "reading" <=> conn[d] = "reading"
      BY <2>1
    <3>. QED
      BY <1>2, <2>2, <3>2, <3>3
  <2>4. IsFiniteSet(Pending') /\ Cardinality(Pending') = Cardinality(Pending) - 1
        /\ Cardinality(Pending) \in Nat
    BY <2>2, FS_RemoveElement, FS_CardinalityType DEF AcceptInv
  <2>5. ASSUME running_'
        PROVE  LiveIn(queue', handler', "accept", NoClient) + Cardinality(Pending') + Armed' =
                 IF Dropped' = {} THEN 1 ELSE 0
    <3>1. PICK a \in Nat : /\ a = LiveIn(queue', handler', "accept", NoClient)
                           /\ a = LiveIn(queue, handler, "accept", NoClient)
      <4>1. NoClient # c
        BY <1>4, EngineAssumption
      <4>. QED
        BY <1>2, <4>1
    <3>2. PICK p \in Nat : p = Cardinality(Pending) /\ p >= 1
      <4>1. Cardinality(Pending') \in Nat
        BY <2>4, FS_CardinalityType
      <4>. QED
        BY <2>4, <4>1
    <3>3. a + p + Armed = (IF Dropped = {} THEN 1 ELSE 0) /\ Armed \in {0, 1}
      BY <1>1, <2>5, <3>1, <3>2 DEF AcceptInv, Armed
    <3>4. Dropped = {} /\ a = 0 /\ p = 1 /\ Armed = 0
      BY <3>2, <3>3
    <3>5. CASE conn[c] = "accepted"
      <4>1. Armed' = 1
        BY <1>1, <2>1, <2>5, <3>5 DEF Armed, RunningSeen, StagesInv
      <4>2. Dropped' = {}
        BY <2>1, <3>4, <3>5 DEF Dropped
      <4>. QED
        BY <2>4, <3>1, <3>2, <3>4, <4>1, <4>2
    <3>6. CASE conn[c] = "reset"
      <4>1. Armed' = 0
        BY <2>1, <3>4, <3>6 DEF Armed
      <4>2. Dropped' # {}
        BY <1>4, <2>1, <3>6 DEF Dropped
      <4>. QED
        BY <2>4, <3>1, <3>2, <3>4, <4>1, <4>2
    <3>. QED
      BY <2>1, <3>5, <3>6
  <2>. QED
    BY <2>3, <2>4, <2>5 DEF AcceptInv
<1>5. c \in Clients \cup {NoClient}
  BY DEF TypeOK, Handlers, NoHandler
<1>. QED
  BY <1>3, <1>4, <1>5

LEMMA ReadHandlerStep ==
  ASSUME TypeOK, LiveInv, AcceptInv, NEW w \in Workers, ReadHandler(w)
  PROVE  LiveInv' /\ AcceptInv'
<1>. DEFINE c == handler[w].client
<1>1. /\ handler[w].kind = "read" /\ queue' = queue /\ running_' = running_ /\ acceptor' = acceptor
      /\ handler' = [handler EXCEPT ![w] = NoHandler]
  BY DEF ReadHandler, owner
<1>2. \A d : /\ LiveIn(queue', handler', "read", d) \in Nat
             /\ LiveIn(queue, handler, "read", d) =
                  LiveIn(queue', handler', "read", d) + (IF d = c THEN 1 ELSE 0)
             /\ LiveIn(queue', handler', "accept", d) \in Nat
             /\ LiveIn(queue, handler, "accept", d) = LiveIn(queue', handler', "accept", d)
  <2>1. \A d : /\ LiveIn(queue', handler', "accept", d) \in Nat
               /\ LiveIn(queue, handler, "accept", d) =
                    LiveIn(queue', handler', "accept", d) + One(handler[w], "accept", d)
               /\ LiveIn(queue', handler', "read", d) \in Nat
               /\ LiveIn(queue, handler, "read", d) =
                    LiveIn(queue', handler', "read", d) + One(handler[w], "read", d)
    BY <1>1, HandlerEnds
  <2>2. \A d : /\ One(handler[w], "read", d) = IF d = c THEN 1 ELSE 0
               /\ One(handler[w], "accept", d) = 0
    BY <1>1 DEF One
  <2>. QED
    BY <2>1, <2>2
<1>3. \A d \in Clients : /\ d # c => conn'[d] = conn[d]
                         /\ d = c => conn[d] = "reading" /\ conn'[d] \in {"open", "gone"}
  <2>1. \A d \in Clients : d # c => conn'[d] = conn[d]
    BY DEF ReadHandler, TypeOK
  <2>2. \A d \in Clients : d = c => conn'[d] \in {"open", "gone"}
    BY DEF ReadHandler, TypeOK
  <2>3. \A d \in Clients : d = c => conn[d] = "reading"
    BY <1>2 DEF LiveInv
  <2>. QED
    BY <2>1, <2>2, <2>3
<1>4. Pending' = Pending /\ Dropped' = Dropped /\ Armed' = Armed
  BY <1>1, <1>3 DEF Pending, Dropped, Armed
<1>5. LiveInv'
  <2>1. SUFFICES ASSUME NEW d \in Clients
                 PROVE  /\ LiveIn(queue', handler', "read", d) =
                             IF conn'[d] = "reading" THEN 1 ELSE 0
                        /\ LiveIn(queue', handler', "accept", d) =
                             IF d \in Pending' THEN 1 ELSE 0
    BY DEF LiveInv
  <2>2. /\ LiveIn(queue, handler, "read", d) = IF conn[d] = "reading" THEN 1 ELSE 0
        /\ LiveIn(queue, handler, "accept", d) = IF d \in Pending THEN 1 ELSE 0
    BY DEF LiveInv
  <2>. QED
    BY <1>2, <1>3, <1>4, <2>2
<1>. QED
  BY <1>1, <1>2, <1>4, <1>5 DEF AcceptInv

(* The network queues a handler for an operation that was outstanding. *)
LEMMA HandlerQueued ==
  ASSUME TypeOK, NEW x \in Handlers, queue' = Append(queue, x), handler' = handler,
         NEW k \in {"accept", "read"}, NEW c
  PROVE  /\ LiveIn(queue, handler, k, c) \in Nat
         /\ LiveIn(queue', handler', k, c) = LiveIn(queue, handler, k, c) + One(x, k, c)
<1>1. Cardinality(QueuedOf(queue, k, c)) \in Nat /\ Cardinality(RunOf(handler, k, c)) \in Nat
  BY QueuedIsFinite, RunIsFinite DEF TypeOK
<1>2. LiveIn(queue, handler, k, c) \in Nat
  BY <1>1 DEF LiveIn
<1>. QED
  BY <1>2, LiveAppend

LEMMA ConnectStep ==
  ASSUME TypeOK, LiveInv, AcceptInv, NEW c \in Clients, Connect(c) \/ Reset(c)
  PROVE  LiveInv' /\ AcceptInv'
<1>1. /\ queue' = queue /\ handler' = handler /\ running_' = running_ /\ acceptor' = acceptor
      /\ \A d \in Clients : d # c => conn'[d] = conn[d]
      /\ \/ conn[c] = "away" /\ conn'[c] = "backlog"
         \/ conn[c] = "accepted" /\ conn'[c] = "reset"
  BY DEF Connect, Reset, owner, TypeOK
<1>2. Pending' = Pending /\ Dropped' = Dropped /\ Armed' = Armed
  BY <1>1 DEF Pending, Dropped, Armed
<1>3. \A k, d : LiveIn(queue', handler', k, d) = LiveIn(queue, handler, k, d)
  BY <1>1
<1>4. \A d \in Clients : conn'[d] = "reading" <=> conn[d] = "reading"
  BY <1>1
<1>. QED
  BY <1>1, <1>2, <1>3, <1>4 DEF LiveInv, AcceptInv

LEMMA ReadCompletesStep ==
  ASSUME TypeOK, LiveInv, AcceptInv, NEW c \in Clients, ReadCompletes(c)
  PROVE  LiveInv' /\ AcceptInv'
<1>1. /\ queue' = Append(queue, ReadOf(c)) /\ handler' = handler
      /\ running_' = running_ /\ acceptor' = acceptor /\ ReadOf(c) \in Handlers
      /\ \A d \in Clients : d # c => conn'[d] = conn[d]
      /\ conn[c] = "open" /\ conn'[c] = "reading"
  BY DEF ReadCompletes, owner, TypeOK, Handlers, ReadOf
<1>2. Pending' = Pending /\ Dropped' = Dropped /\ Armed' = Armed
  BY <1>1 DEF Pending, Dropped, Armed
<1>3. \A d : /\ LiveIn(queue', handler', "read", d) =
                  LiveIn(queue, handler, "read", d) + (IF d = c THEN 1 ELSE 0)
             /\ LiveIn(queue', handler', "accept", d) = LiveIn(queue, handler, "accept", d)
  <2>1. \A d : /\ LiveIn(queue, handler, "read", d) \in Nat
               /\ LiveIn(queue, handler, "accept", d) \in Nat
               /\ LiveIn(queue', handler', "read", d) =
                    LiveIn(queue, handler, "read", d) + One(ReadOf(c), "read", d)
               /\ LiveIn(queue', handler', "accept", d) =
                    LiveIn(queue, handler, "accept", d) + One(ReadOf(c), "accept", d)
    BY <1>1, HandlerQueued
  <2>2. \A d : /\ One(ReadOf(c), "read", d) = IF d = c THEN 1 ELSE 0
               /\ One(ReadOf(c), "accept", d) = 0
    BY DEF One, ReadOf
  <2>. QED
    BY <2>1, <2>2
<1>4. LiveInv'
  <2>1. SUFFICES ASSUME NEW d \in Clients
                 PROVE  /\ LiveIn(queue', handler', "read", d) =
                             IF conn'[d] = "reading" THEN 1 ELSE 0
                        /\ LiveIn(queue', handler', "accept", d) =
                             IF d \in Pending' THEN 1 ELSE 0
    BY DEF LiveInv
  <2>2. /\ LiveIn(queue, handler, "read", d) = IF conn[d] = "reading" THEN 1 ELSE 0
        /\ LiveIn(queue, handler, "accept", d) = IF d \in Pending THEN 1 ELSE 0
    BY DEF LiveInv
  <2>. QED
    BY <1>1, <1>2, <1>3, <2>2
<1>. QED
  BY <1>1, <1>2, <1>3, <1>4 DEF AcceptInv

LEMMA AcceptCompletesStep ==
  ASSUME TypeOK, LiveInv, AcceptInv, AcceptCompletes
  PROVE  LiveInv' /\ AcceptInv'
<1>1. PICK c \in Clients : /\ conn[c] = "backlog" /\ conn' = [conn EXCEPT ![c] = "accepted"]
                           /\ queue' = Append(queue, AcceptOf(c))
  BY DEF AcceptCompletes
<1>2. /\ handler' = handler /\ running_' = running_ /\ AcceptOf(c) \in Handlers
      /\ \A d \in Clients : d # c => conn'[d] = conn[d]
      /\ conn'[c] = "accepted" /\ Armed = 1 /\ Armed' = 0
  BY <1>1 DEF AcceptCompletes, owner, TypeOK, Handlers, AcceptOf, Armed
<1>3. Pending' = Pending \cup {c} /\ c \notin Pending /\ Dropped' = Dropped
  BY <1>1, <1>2 DEF Pending, Dropped
<1>4. \A d : /\ LiveIn(queue', handler', "accept", d) =
                  LiveIn(queue, handler, "accept", d) + (IF d = c THEN 1 ELSE 0)
             /\ LiveIn(queue, handler, "accept", d) \in Nat
             /\ LiveIn(queue', handler', "read", d) = LiveIn(queue, handler, "read", d)
  <2>1. \A d : /\ LiveIn(queue, handler, "read", d) \in Nat
               /\ LiveIn(queue, handler, "accept", d) \in Nat
               /\ LiveIn(queue', handler', "read", d) =
                    LiveIn(queue, handler, "read", d) + One(AcceptOf(c), "read", d)
               /\ LiveIn(queue', handler', "accept", d) =
                    LiveIn(queue, handler, "accept", d) + One(AcceptOf(c), "accept", d)
    BY <1>1, <1>2, HandlerQueued
  <2>2. \A d : /\ One(AcceptOf(c), "accept", d) = IF d = c THEN 1 ELSE 0
               /\ One(AcceptOf(c), "read", d) = 0
    BY DEF One, AcceptOf
  <2>. QED
    BY <2>1, <2>2
<1>5. LiveInv'
  <2>1. SUFFICES ASSUME NEW d \in Clients
                 PROVE  /\ LiveIn(queue', handler', "read", d) =
                             IF conn'[d] = "reading" THEN 1 ELSE 0
                        /\ LiveIn(queue', handler', "accept", d) =
                             IF d \in Pending' THEN 1 ELSE 0
    BY DEF LiveInv
  <2>2. /\ LiveIn(queue, handler, "read", d) = IF conn[d] = "reading" THEN 1 ELSE 0
        /\ LiveIn(queue, handler, "accept", d) = IF d \in Pending THEN 1 ELSE 0
    BY DEF LiveInv
  <2>3. conn'[d] = "reading" <=> conn[d] = "reading"
    BY <1>1, <1>2
  <2>. QED
    BY <1>3, <1>4, <2>2, <2>3
<1>6. /\ IsFiniteSet(Pending') /\ Cardinality(Pending') = Cardinality(Pending) + 1
      /\ Cardinality(Pending) \in Nat
  BY <1>3, FS_AddElement, FS_CardinalityType DEF AcceptInv
<1>7. LiveIn(queue', handler', "accept", NoClient) = LiveIn(queue, handler, "accept", NoClient)
  <2>1. NoClient # c
    BY EngineAssumption
  <2>. QED
    BY <1>4, <2>1
<1>8. ASSUME running_'
      PROVE  LiveIn(queue', handler', "accept", NoClient) + Cardinality(Pending') + Armed' =
               IF Dropped' = {} THEN 1 ELSE 0
  <2>1. PICK a \in Nat : a = LiveIn(queue, handler, "accept", NoClient)
    BY <1>4
  <2>2. PICK p \in Nat : p = Cardinality(Pending)
    BY <1>6
  <2>3. a + p + 1 = IF Dropped = {} THEN 1 ELSE 0
    BY <1>2, <1>8, <2>1, <2>2 DEF AcceptInv
  <2>. QED
    BY <1>2, <1>3, <1>6, <1>7, <2>1, <2>2, <2>3
<1>. QED
  BY <1>5, <1>6, <1>8 DEF AcceptInv

LEMMA AcceptFailsStep ==
  ASSUME TypeOK, LiveInv, AcceptInv, AcceptFails
  PROVE  LiveInv' /\ AcceptInv'
<1>1. /\ queue' = Append(queue, AcceptOf(NoClient)) /\ handler' = handler /\ running_' = running_
      /\ AcceptOf(NoClient) \in Handlers /\ conn' = conn /\ Armed = 1 /\ Armed' = 0
  BY DEF AcceptFails, owner, TypeOK, Handlers, AcceptOf, Armed
<1>2. Pending' = Pending /\ Dropped' = Dropped
  BY <1>1 DEF Pending, Dropped
<1>3. \A d : /\ LiveIn(queue', handler', "accept", d) =
                  LiveIn(queue, handler, "accept", d) + (IF d = NoClient THEN 1 ELSE 0)
             /\ LiveIn(queue, handler, "accept", d) \in Nat
             /\ LiveIn(queue', handler', "read", d) = LiveIn(queue, handler, "read", d)
  <2>1. \A d : /\ LiveIn(queue, handler, "read", d) \in Nat
               /\ LiveIn(queue, handler, "accept", d) \in Nat
               /\ LiveIn(queue', handler', "read", d) =
                    LiveIn(queue, handler, "read", d) + One(AcceptOf(NoClient), "read", d)
               /\ LiveIn(queue', handler', "accept", d) =
                    LiveIn(queue, handler, "accept", d) + One(AcceptOf(NoClient), "accept", d)
    BY <1>1, HandlerQueued
  <2>2. \A d : /\ One(AcceptOf(NoClient), "accept", d) = IF d = NoClient THEN 1 ELSE 0
               /\ One(AcceptOf(NoClient), "read", d) = 0
    BY DEF One, AcceptOf
  <2>. QED
    BY <2>1, <2>2
<1>4. LiveInv'
  <2>1. \A d \in Clients : d # NoClient
    BY EngineAssumption
  <2>. QED
    BY <1>1, <1>2, <1>3, <2>1 DEF LiveInv
<1>5. ASSUME running_'
      PROVE  LiveIn(queue', handler', "accept", NoClient) + Cardinality(Pending') + Armed' =
               IF Dropped' = {} THEN 1 ELSE 0
  <2>1. PICK a \in Nat : a = LiveIn(queue, handler, "accept", NoClient)
    BY <1>3
  <2>2. PICK p \in Nat : p = Cardinality(Pending)
    BY FS_CardinalityType DEF AcceptInv
  <2>3. a + p + 1 = IF Dropped = {} THEN 1 ELSE 0
    BY <1>1, <1>5, <2>1, <2>2 DEF AcceptInv
  <2>4. LiveIn(queue', handler', "accept", NoClient) = a + 1
    BY <1>3, <2>1
  <2>. QED
    BY <1>1, <1>2, <2>2, <2>3, <2>4
<1>. QED
  BY <1>2, <1>4, <1>5 DEF AcceptInv

-------------------------------------------------------------------------------
(* Every step of the engine.                                                *)
LEMMA EngineStep ==
  ASSUME EngineInv, Next
  PROVE  EngineInv'
<1>. USE DEF EngineInv
<1>1. TypeOK' /\ StagesInv'
  BY EngineTypes, StagesStep
<1>2. ASSUME Start PROVE LiveInv' /\ AcceptInv'
  BY <1>2, StartStep
<1>3. ASSUME \/ \E w \in Workers : StartThread(w)
             \/ Stop \/ StopContext \/ (\E w \in Workers : RequestStop(w)) \/ Join
      PROVE  LiveInv' /\ AcceptInv'
  <2>1. UNCHANGED <<queue, handler, conn, acceptor>> /\ (running_' => running_)
    BY <1>3 DEF StartThread, Stop, StopContext, RequestStop, Join
  <2>. QED
    BY <2>1, QuietStep
<1>4. ASSUME NEW w \in Workers, WorkerLoop(w) \/ RunReturns(w)
      PROVE  LiveInv' /\ AcceptInv'
  <2>1. UNCHANGED <<queue, handler, conn, acceptor>> /\ (running_' => running_)
    BY <1>4 DEF WorkerLoop, RunReturns, owner
  <2>. QED
    BY <2>1, QuietStep
<1>5. ASSUME NEW w \in Workers, RunHandler(w) PROVE LiveInv' /\ AcceptInv'
  BY <1>5, RunHandlerStep
<1>6. ASSUME NEW w \in Workers, AcceptHandler(w) PROVE LiveInv' /\ AcceptInv'
  BY <1>6, AcceptHandlerStep
<1>7. ASSUME NEW w \in Workers, ReadHandler(w) PROVE LiveInv' /\ AcceptInv'
  BY <1>7, ReadHandlerStep
<1>8. ASSUME Network PROVE LiveInv' /\ AcceptInv'
  <2>1. ASSUME NEW c \in Clients, Connect(c) \/ Reset(c) PROVE LiveInv' /\ AcceptInv'
    BY <2>1, ConnectStep
  <2>2. ASSUME NEW c \in Clients, ReadCompletes(c) PROVE LiveInv' /\ AcceptInv'
    BY <2>2, ReadCompletesStep
  <2>. QED
    BY <1>8, <2>1, <2>2, AcceptCompletesStep, AcceptFailsStep DEF Network
<1>. QED
  BY <1>1, <1>2, <1>3, <1>4, <1>5, <1>6, <1>7, <1>8 DEF Next, Owner, Worker

LEMMA EngineInit ==
  ASSUME Init
  PROVE  EngineInv
<1>1. /\ queue = <<>> /\ ~acceptor /\ main = "new" /\ ~running_
      /\ \A w \in Workers : handler[w] = NoHandler
      /\ \A c \in Clients : conn[c] = "away"
  BY DEF Init
<1>2. \A k \in {"accept", "read"}, c \in Clients : LiveIn(queue, handler, k, c) = 0
  <2>1. SUFFICES ASSUME NEW k \in {"accept", "read"}, NEW c \in Clients
                 PROVE  LiveIn(queue, handler, k, c) = 0
    OBVIOUS
  <2>2. QueuedOf(queue, k, c) = {} /\ RunOf(handler, k, c) = {}
    BY <1>1 DEF QueuedOf, RunOf, NoHandler
  <2>. QED
    BY <2>2, FS_EmptySet DEF LiveIn
<1>3. Pending = {} /\ IsFiniteSet(Pending)
  BY <1>1, FS_EmptySet DEF Pending
<1>4. TypeOK
  <2>1. NoHandler \in Handlers
    BY DEF Handlers
  <2>2. handler \in [Workers -> Handlers]
    BY <2>1 DEF Init
  <2>3. queue \in Seq(Handlers)
    BY DEF Init
  <2>. QED
    BY <2>2, <2>3 DEF Init, TypeOK
<1>5. StagesInv
  BY <1>1 DEF StagesInv, Init
<1>6. LiveInv
  BY <1>1, <1>2, <1>3 DEF LiveInv
<1>. QED
  BY <1>1, <1>3, <1>4, <1>5, <1>6 DEF EngineInv, AcceptInv

LEMMA EngineStutters ==
  ASSUME EngineInv, UNCHANGED vars
  PROVE  EngineInv'
<1>1. /\ running_' = running_ /\ main' = main /\ stopped' = stopped /\ queue' = queue
      /\ acceptor' = acceptor /\ worker' = worker /\ handler' = handler
      /\ requested' = requested /\ conn' = conn
  BY DEF vars
<1>2. LiveInv' /\ AcceptInv'
  BY <1>1, QuietStep DEF EngineInv
<1>. QED
  BY <1>1, <1>2 DEF EngineInv, TypeOK, StagesInv

(* A step of the program is one of its engine or leaves the engine alone:   *)
(* signals, logging and the wait loop only hold its steps back.             *)
LEMMA ProgramStepsEngine ==
  ASSUME [MainNext]_mvars
  PROVE  [Next]_vars
<1>1. CASE MainNext
  <2>1. ASSUME NEW s \in Signals, Signal(s) PROVE UNCHANGED vars
    BY <2>1 DEF Signal
  <2>2. ASSUME Handler PROVE UNCHANGED vars
    BY <2>2 DEF Handler, HandlerLogs, HandlerLogged, HandlerStores
  <2>3. ASSUME MainLogs \/ MainLogged PROVE UNCHANGED vars
    BY <2>3 DEF MainLogs, MainLogged
  <2>4. ASSUME MainStep PROVE [Next]_vars
    BY <2>4 DEF MainStep, MainWaits, MainWakes, MainCalls, Next
  <2>5. ASSUME NEW w \in Workers, WorkerLogs(w) \/ WorkerLogged(w) \/ WorkerRuns(w)
        PROVE  [Next]_vars
    BY <2>5 DEF WorkerLogs, WorkerLogged, WorkerRuns, Next
  <2>. QED
    BY <1>1, <2>1, <2>2, <2>3, <2>4, <2>5 DEF MainNext, Next
<1>2. CASE UNCHANGED mvars
  BY <1>2 DEF mvars
<1>. QED
  BY <1>1, <1>2

(* The inductive invariant of the engine holds in the whole program.        *)
THEOREM EngineInvariant == MainSpec => []EngineInv
<1>1. MainInit => EngineInv
  BY EngineInit DEF MainInit
<1>2. EngineInv /\ [MainNext]_mvars => EngineInv'
  BY ProgramStepsEngine, EngineStep, EngineStutters
<1>. QED
  BY <1>1, <1>2, PTL DEF MainSpec

-------------------------------------------------------------------------------
LEMMA LiveIsLiveIn ==
  ASSUME NEW k, NEW c
  PROVE  Live(k, c) = LiveIn(queue, handler, k, c)
  BY DEF Live, LiveIn, QueuedOf, RunOf

(* The reads of a connection are serial although no strand makes them so:   *)
(* for any number of threads and clients a connection that has a read       *)
(* handler has one, queued or being run (ServerConnection::start, do_read). *)
THEOREM ReadsAreSerialHolds == MainSpec => []ReadsAreSerial
<1>1. EngineInv => ReadsAreSerial
  BY LiveIsLiveIn DEF EngineInv, LiveInv, ReadsAreSerial
<1>. QED
  BY <1>1, EngineInvariant, PTL

(* do_accept never arms two accepts, and the chain ends only by an          *)
(* exception of start(), whatever fails or is reset and in whatever order.  *)
THEOREM OneAcceptHolds == MainSpec => []OneAccept
<1>1. ASSUME EngineInv PROVE OneAccept
  <2>1. {c \in Clients : Live("accept", c) > 0} = Pending
    <3>1. \A c \in Clients : Live("accept", c) = IF c \in Pending THEN 1 ELSE 0
      BY <1>1, LiveIsLiveIn DEF EngineInv, LiveInv
    <3>2. Pending \subseteq Clients
      BY DEF Pending
    <3>. QED
      BY <3>1, <3>2
  <2>2. Live("accept", NoClient) = LiveIn(queue, handler, "accept", NoClient)
    BY LiveIsLiveIn
  <2>. QED
    BY <1>1, <2>1, <2>2 DEF EngineInv, AcceptInv, OneAccept, Armed
<1>. QED
  BY <1>1, EngineInvariant, PTL
===============================================================================
