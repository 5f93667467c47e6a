-------------------------------- MODULE World ---------------------------------
(***************************************************************************)
(* The chunk a player joins in, from its generation to its packet          *)
(* (connection.hpp:318-325): ChunkGenerator sets the layers of a flat      *)
(* chunk, one block after the other, and ChunkStreamer serializes it.  In  *)
(* the program the handler that does both owns the chunk; the mutex is for *)
(* threads that share one, and here they do, from the moment it is         *)
(* generated.  The entities of the world are numbered beside it, by        *)
(* nobody who looks at the chunk: they come first here.                    *)
(***************************************************************************)
EXTENDS ChunkStreamer, EntityManager

CONSTANTS
  Layers,        \* the states of the flat chunk from y = 0 up
  Edits,         \* the calls of set_block other threads may make
  MaxEntities,   \* bound: entities spawned
  MaxCalls       \* bound: calls of other threads

Generator == "generator"
Others    == Threads \ {Generator}

ASSUME WorldAssumption ==
  /\ Generator \in Threads
  /\ Layers \in Seq(States) /\ Layers # <<>>
  /\ Edits \subseteq [at : Coordinate, state : States]
  /\ MaxEntities \in Nat /\ MaxCalls \in Nat

VARIABLES
  generated,     \* blocks the generator has set
  calls          \* calls other threads have made

wvars == <<svars, entities, generated, calls>>

-------------------------------------------------------------------------------
(* Fault: the layers are counted from the bottom of the world. *)
LayerAt_FromMinY(n) ==
  [x |-> n \div (Width * Len(Layers)),
   y |-> MinY + (n % Len(Layers)),
   z |-> (n \div Len(Layers)) % Width]

(* The n-th block generate_chunk sets: over x, then z, then the layers.     *)
LayerAt(n) ==
  [x |-> n \div (Width * Len(Layers)),
   y |-> n % Len(Layers),
   z |-> (n \div Len(Layers)) % Width]

Blocks == Width * Width * Len(Layers)

Generate ==
  /\ generated < Blocks /\ Len(entities_) = MaxEntities
  /\ SetLocks(Generator, LayerAt(generated), Layers[(generated % Len(Layers)) + 1])
  /\ generated' = generated + 1
  /\ UNCHANGED <<serializer, held, entities, calls>>

Generated == generated = Blocks /\ call[Generator] = NoCall

OtherSets(t) ==
  /\ Generated /\ calls < MaxCalls
  /\ \E e \in Edits : SetLocks(t, e.at, e.state)
  /\ calls' = calls + 1
  /\ Witnessed
  /\ UNCHANGED <<serializer, entities, generated>>

SetGoesOn(t) ==
  /\ InSetBlock(t)
  /\ Witnessed
  /\ UNCHANGED <<serializer, entities, generated, calls>>

Stream ==
  /\ Generated
  /\ Serialize
  /\ UNCHANGED <<entities, generated, calls>>

Spawn ==
  /\ Len(entities_) < MaxEntities
  /\ EntityNext
  /\ UNCHANGED <<svars, generated, calls>>

WorldInit == StreamInit /\ EntityInit /\ generated = 0 /\ calls = 0

WorldNext ==
  \/ Spawn
  \/ Generate
  \/ \E t \in Threads : SetGoesOn(t)
  \/ \E t \in Others : OtherSets(t)
  \/ Stream

(* The handler runs to its end; other threads leave the mutex.              *)
WorldFairness ==
  /\ WF_wvars(Generate) /\ WF_wvars(Stream)
  /\ \A t \in Threads : WF_wvars(SetGoesOn(t))

WorldSpec == WorldInit /\ [][WorldNext]_wvars /\ WorldFairness

-------------------------------------------------------------------------------
(* The player is sent to (0, 5, 0) (connection.hpp:329): in the chunk the   *)
(* client decodes there is ground under it and air at its feet, unless      *)
(* another thread builds there.                                             *)
AtSpawn(y) == [x |-> 0, y |-> y, z |-> 0]
Feet       == AtSpawn(Len(Layers))
Ground     == AtSpawn(Len(Layers) - 1)

Streamed(c) == Decoded(sent[SectionOf(c) + 1], IndexOf(c))

Undisturbed == \A e \in Edits : e.at.y \notin {Feet.y, Ground.y}

SpawnIsStandable ==
  Len(sent) = Sections /\ Undisturbed => Streamed(Feet) = Air /\ Streamed(Ground) # Air

(* The states a section may come to hold: air, those of its layers, and     *)
(* what other threads put there.                                            *)
StatesOf(n) ==
  {Air} \cup {Layers[y + 1] : y \in {k \in 0 .. Len(Layers) - 1 : SectionOf(AtSpawn(k)) = n}}
        \cup {e.state : e \in {d \in Edits : SectionOf(d.at) = n}}

(* The top layer is no air, the player stands in the world, and an index    *)
(* tells the states of the two sections apart: four states, of 256.         *)
ASSUME SpawnAssumption ==
  /\ InBounds(Feet) /\ InBounds(Ground)
  /\ Layers[Len(Layers)] # Air
  /\ \A c \in {Feet, Ground} :
       /\ IsFiniteSet(StatesOf(SectionOf(c)))
       /\ Cardinality(StatesOf(SectionOf(c))) =< IndexMod

(* The chunk is sent, whatever other threads do to it meanwhile: nothing    *)
(* the serializer does waits for them.                                      *)
ChunkIsSent == generated > 0 ~> (Len(sent) = Sections)
===============================================================================
