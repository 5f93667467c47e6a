----------------------------- MODULE ChunkColumn ------------------------------
(***************************************************************************)
(* ChunkColumn and ChunkSection (src/world/chunk.cpp): the blocks of one   *)
(* column in sections stacked from MinY up, and for each section the count *)
(* of those that are not air.                                              *)
(*                                                                         *)
(* set_block takes the mutex of the column for itself.  Its two stores are *)
(* plain: what reads without the mutex, as ChunkStreamer does, may meet    *)
(* them one at a time and in either order.  get_block shares the mutex     *)
(* with other readers and changes nothing: it is a function of the state,  *)
(* and the abstract store is the column as get_block shows it.             *)
(***************************************************************************)
EXTENDS Integers, FiniteSets

CONSTANTS
  Width,          \* SECTION_WIDTH, 16
  Height,         \* SECTION_HEIGHT, 16
  Sections,       \* CHUNK_SECTIONS, 24
  MinY,           \* the lowest y, -64
  States,         \* the state ids blocks are set to, 0 among them
  Threads         \* the threads that call set_block

ASSUME SizeAssumption ==
  Width \in Nat \ {0} /\ Height \in Nat \ {0} /\ Sections \in Nat \ {0} /\ MinY \in Int

Air == 0

ASSUME StatesAssumption == States \subseteq Nat /\ Air \in States

Nobody == "nobody"
ASSUME ThreadsAssumption == Nobody \notin Threads

VARIABLES
  blocks_,          \* blocks_[s][i]: the state of block i of section s
  non_air_count_,   \* of each section
  chunk_mutex_,     \* who holds the mutex alone
  call              \* the call of set_block each thread is in

column == <<blocks_, non_air_count_, chunk_mutex_, call>>

-------------------------------------------------------------------------------
(* Coordinates are any integers; x and z are taken within the chunk.        *)
SectionIds  == 0 .. Sections - 1
Cells       == Width * Width * Height
CellIds     == 0 .. Cells - 1
Coordinate  == [x : Int, y : Int, z : Int]
InBounds(c) == MinY =< c.y /\ c.y < MinY + Sections * Height

SectionOf(c) == (c.y - MinY) \div Height

(* Fault: the rows of a section are not told apart by y. *)
IndexOf_Overlaps(c) ==
  ((c.y - MinY) % Height) * Width + (c.z % Width) * Width + (c.x % Width)

(* The index in a section: y, then z, then x. *)
IndexOf(c) ==
  ((c.y - MinY) % Height) * Width * Width + (c.z % Width) * Width + (c.x % Width)

Refused == -1
get_block(c) ==
  IF InBounds(c) THEN blocks_[SectionOf(c)][IndexOf(c)] ELSE Refused

-------------------------------------------------------------------------------
(***************************************************************************)
(* set_block.  A call remembers whether the block was air, which is read   *)
(* before either store, and which stores are still to be done.             *)
(***************************************************************************)
NoCall == [section |-> 0, cell |-> 0, was |-> Air, state |-> Air, todo |-> {}]

(* Fault: the mutex is not taken. *)
SetLocks_Unlocked(t, c, s) ==
  /\ call[t] = NoCall /\ InBounds(c)
  /\ call' = [call EXCEPT ![t] =
       [section |-> SectionOf(c), cell |-> IndexOf(c), was |-> get_block(c),
        state |-> s, todo |-> {"count", "block"}]]
  /\ chunk_mutex_' = t
  /\ UNCHANGED <<blocks_, non_air_count_>>

(* A call within the bounds: the mutex is taken and the old state read.     *)
(* (Out of them it is taken, an error returned, and nothing changes.)       *)
SetLocks(t, c, s) ==
  /\ chunk_mutex_ = Nobody /\ InBounds(c)
  /\ chunk_mutex_' = t
  /\ call' = [call EXCEPT ![t] =
       [section |-> SectionOf(c), cell |-> IndexOf(c), was |-> get_block(c),
        state |-> s, todo |-> {"count", "block"}]]
  /\ UNCHANGED <<blocks_, non_air_count_>>

(* The count of a section when one of its blocks turns from was to state.   *)
Counted(n, was, state) ==
  IF was = Air /\ state # Air THEN n + 1
  ELSE IF was # Air /\ state = Air /\ n > 0 THEN n - 1
  ELSE n

StoreCount(t) ==
  /\ "count" \in call[t].todo
  /\ non_air_count_' = [non_air_count_ EXCEPT ![call[t].section] =
                          Counted(@, call[t].was, call[t].state)]
  /\ call' = [call EXCEPT ![t].todo = @ \ {"count"}]
  /\ UNCHANGED <<blocks_, chunk_mutex_>>

StoreBlock(t) ==
  /\ "block" \in call[t].todo
  /\ blocks_' = [blocks_ EXCEPT ![call[t].section][call[t].cell] = call[t].state]
  /\ call' = [call EXCEPT ![t].todo = @ \ {"block"}]
  /\ UNCHANGED <<non_air_count_, chunk_mutex_>>

(* Fault: the mutex is not given back. *)
SetReturns_KeepsMutex(t) ==
  /\ chunk_mutex_ = t /\ call[t].todo = {} /\ call[t] # NoCall
  /\ call' = [call EXCEPT ![t] = NoCall]
  /\ UNCHANGED <<blocks_, non_air_count_, chunk_mutex_>>

SetReturns(t) ==
  /\ chunk_mutex_ = t /\ call[t].todo = {}
  /\ chunk_mutex_' = Nobody
  /\ call' = [call EXCEPT ![t] = NoCall]
  /\ UNCHANGED <<blocks_, non_air_count_>>

-------------------------------------------------------------------------------
ColumnInit ==
  /\ blocks_ = [s \in SectionIds |-> [i \in CellIds |-> Air]]
  /\ non_air_count_ = [s \in SectionIds |-> 0]
  /\ chunk_mutex_ = Nobody
  /\ call = [t \in Threads |-> NoCall]

InSetBlock(t) == StoreCount(t) \/ StoreBlock(t) \/ SetReturns(t)

ColumnNext ==
  \E t \in Threads :
    \/ \E c \in Coordinate, s \in States : SetLocks(t, c, s)
    \/ InSetBlock(t)

ColumnSpec == ColumnInit /\ [][ColumnNext]_column

-------------------------------------------------------------------------------
(* Every variable of the column has its type.                               *)
ColumnTypeOK ==
  /\ blocks_ \in [SectionIds -> [CellIds -> States]]
  /\ non_air_count_ \in [SectionIds -> Nat]
  /\ chunk_mutex_ \in Threads \cup {Nobody}
  /\ call \in [Threads -> [section : SectionIds, cell : CellIds, was : States,
                           state : States, todo : SUBSET {"count", "block"}]]

(* When nobody is in set_block, the count of each section is the number of  *)
(* its blocks that are not air: the streamer leaves out the blocks of a     *)
(* section whose count is 0.                                                *)
NonAir(s) == {i \in CellIds : blocks_[s][i] # Air}

CountIsRight ==
  chunk_mutex_ = Nobody => \A s \in SectionIds : non_air_count_[s] = Cardinality(NonAir(s))

(* The column as get_block shows it is a store of places: set_block changes *)
(* the place it is given, as seen from any coordinates, and no other.       *)
Places == [x : 0 .. Width - 1, y : MinY .. MinY + Sections * Height - 1, z : 0 .. Width - 1]

Store == INSTANCE BlockStore WITH world <- [p \in Places |-> get_block(p)]

ImplementsStore == Store!Spec
===============================================================================
