-------------------------- MODULE ChunkColumn_proofs --------------------------
(***************************************************************************)
(* Proofs about ChunkColumn, for sections of any size, any number of them, *)
(* any states and any number of threads: the count of a section is right   *)
(* whenever nobody is in set_block, and the column is a store of places.   *)
(***************************************************************************)
EXTENDS ChunkColumn, FiniteSetTheorems, TLAPS

Weight(state) == IF state = Air THEN 0 ELSE 1

(* Who holds the mutex is in a call, of some place; the others are in none. *)
(* What it has stored so far tells the block of its place, and the count of *)
(* its section but for that block.                                          *)
HolderInv(t) ==
  /\ blocks_[call[t].section][call[t].cell] =
       IF "block" \in call[t].todo THEN call[t].was ELSE call[t].state
  /\ non_air_count_[call[t].section] =
       Cardinality(NonAir(call[t].section) \ {call[t].cell}) +
         Weight(IF "count" \in call[t].todo THEN call[t].was ELSE call[t].state)
  /\ \E p \in Places : call[t].section = SectionOf(p) /\ call[t].cell = IndexOf(p)

ColumnInv ==
  /\ ColumnTypeOK
  /\ \A t \in Threads : IF t = chunk_mutex_ THEN HolderInv(t) ELSE call[t] = NoCall
  /\ \A s \in SectionIds :
       (\A t \in Threads : t = chunk_mutex_ => s # call[t].section) =>
         non_air_count_[s] = Cardinality(NonAir(s))

-------------------------------------------------------------------------------
(* Arithmetic: what a mixed radix does.                                     *)
LEMMA DivMod ==
  ASSUME NEW W \in Nat \ {0}, NEW a \in Int
  PROVE  /\ a % W \in 0 .. W - 1 /\ a \div W \in Int
         /\ W * (a \div W) + (a % W) = a
<1>1. W * (a \div W) + (a % W) = a
  OBVIOUS
<1>. QED
  BY <1>1

LEMMA ModMod ==
  ASSUME NEW W \in Nat \ {0}, NEW a \in Int
  PROVE  (a % W) % W = a % W
OBVIOUS

LEMMA ModSmall ==
  ASSUME NEW W \in Nat \ {0}, NEW a \in 0 .. W - 1
  PROVE  a % W = a
OBVIOUS

LEMMA Radix ==
  ASSUME NEW W \in Nat \ {0}, NEW q \in Int, NEW p \in Int,
         NEW r \in 0 .. W - 1, NEW s \in 0 .. W - 1,
         q * W + r = p * W + s
  PROVE  q = p /\ r = s
OBVIOUS

LEMMA Below ==
  ASSUME NEW W \in Nat \ {0}, NEW H \in Nat \ {0}, NEW q \in 0 .. H - 1, NEW r \in 0 .. W - 1
  PROVE  q * W + r \in 0 .. (H * W) - 1
OBVIOUS

LEMMA DivBelow ==
  ASSUME NEW W \in Nat \ {0}, NEW H \in Nat \ {0}, NEW a \in 0 .. (H * W) - 1
  PROVE  a \div W \in 0 .. H - 1
OBVIOUS

-------------------------------------------------------------------------------
(* The index of a coordinate, digit by digit.                               *)
Row(c) == ((c.y - MinY) % Height) * Width + (c.z % Width)

LEMMA IndexByDigits ==
  ASSUME NEW c \in Coordinate
  PROVE  /\ (c.y - MinY) % Height \in 0 .. Height - 1
         /\ c.z % Width \in 0 .. Width - 1 /\ c.x % Width \in 0 .. Width - 1
         /\ Row(c) \in 0 .. (Height * Width) - 1
         /\ IndexOf(c) = Row(c) * Width + (c.x % Width)
         /\ IndexOf(c) \in CellIds
<1>. DEFINE a == (c.y - MinY) % Height
            b == c.z % Width
            d == c.x % Width
<1>1. c.x \in Int /\ c.y \in Int /\ c.z \in Int /\ MinY \in Int
  BY SizeAssumption DEF Coordinate
<1>2. a \in 0 .. Height - 1 /\ b \in 0 .. Width - 1 /\ d \in 0 .. Width - 1
  <2>1. c.y - MinY \in Int
    BY <1>1
  <2>. QED
    BY <1>1, <2>1, SizeAssumption, DivMod
<1>3. Row(c) = a * Width + b /\ IndexOf(c) = a * Width * Width + b * Width + d
  BY DEF Row, IndexOf
<1>. HIDE DEF a, b, d
<1>4. a * Width + b \in 0 .. (Height * Width) - 1
  BY <1>2, SizeAssumption, Below
<1>5. a * Width * Width + b * Width + d = (a * Width + b) * Width + d
  BY <1>2, SizeAssumption
<1>6. Height * Width \in Nat \ {0}
  BY SizeAssumption
<1>7. (a * Width + b) * Width + d \in 0 .. ((Height * Width) * Width) - 1
  BY <1>2, <1>4, <1>6, SizeAssumption, Below
<1>8. Cells = (Height * Width) * Width
  BY SizeAssumption DEF Cells
<1>. QED
  BY <1>2, <1>3, <1>4, <1>5, <1>7, <1>8 DEF CellIds, a, b, d

LEMMA SectionInRange ==
  ASSUME NEW c \in Coordinate, InBounds(c)
  PROVE  SectionOf(c) \in SectionIds
<1>1. c.y \in Int /\ MinY \in Int /\ c.y - MinY \in Int
  BY SizeAssumption DEF Coordinate
<1>2. c.y - MinY \in 0 .. (Sections * Height) - 1
  BY <1>1, SizeAssumption DEF InBounds
<1>. QED
  BY <1>2, SizeAssumption, DivBelow DEF SectionOf, SectionIds

LEMMA PlacesAreInBounds ==
  ASSUME NEW p \in Places
  PROVE  p \in Coordinate /\ InBounds(p)
BY SizeAssumption DEF Places, Coordinate, InBounds

(* Every coordinate within the bounds is of a place,                        *)
LEMMA PlaceOfCoordinate ==
  ASSUME NEW c \in Coordinate, InBounds(c)
  PROVE  \E p \in Places : p.y = c.y /\ SectionOf(p) = SectionOf(c) /\ IndexOf(p) = IndexOf(c)
<1>. DEFINE p == [x |-> c.x % Width, y |-> c.y, z |-> c.z % Width]
<1>1. c.x \in Int /\ c.y \in Int /\ c.z \in Int
  BY DEF Coordinate
<1>2. c.x % Width \in 0 .. Width - 1 /\ c.z % Width \in 0 .. Width - 1
  BY <1>1, SizeAssumption, DivMod
<1>3. p \in Places
  BY <1>1, <1>2, SizeAssumption DEF Places, InBounds
<1>4. (c.x % Width) % Width = c.x % Width /\ (c.z % Width) % Width = c.z % Width
  BY <1>1, SizeAssumption, ModMod
<1>5. SectionOf(p) = SectionOf(c) /\ IndexOf(p) = IndexOf(c)
  BY <1>4 DEF SectionOf, IndexOf
<1>. QED
  BY <1>3, <1>5

(* and two places do not share a block.                                     *)
LEMMA PlacesAreApart ==
  ASSUME NEW p \in Places, NEW q \in Places,
         SectionOf(p) = SectionOf(q), IndexOf(p) = IndexOf(q)
  PROVE  p = q
<1>1. p \in Coordinate /\ q \in Coordinate
  BY PlacesAreInBounds
<1>2. /\ Row(p) \in 0 .. (Height * Width) - 1 /\ Row(q) \in 0 .. (Height * Width) - 1
      /\ Row(p) * Width + (p.x % Width) = Row(q) * Width + (q.x % Width)
      /\ p.x % Width \in 0 .. Width - 1 /\ q.x % Width \in 0 .. Width - 1
      /\ p.z % Width \in 0 .. Width - 1 /\ q.z % Width \in 0 .. Width - 1
      /\ (p.y - MinY) % Height \in 0 .. Height - 1 /\ (q.y - MinY) % Height \in 0 .. Height - 1
  BY <1>1, IndexByDigits
<1>3. Row(p) = Row(q) /\ p.x % Width = q.x % Width
  <2>. DEFINE a == Row(p)
              b == Row(q)
              r == p.x % Width
              s == q.x % Width
  <2>1. /\ a \in Int /\ b \in Int /\ r \in 0 .. Width - 1 /\ s \in 0 .. Width - 1
        /\ a * Width + r = b * Width + s
    BY <1>2
  <2>. HIDE DEF a, b, r, s
  <2>2. a = b /\ r = s
    BY <2>1, SizeAssumption, Radix
  <2>. QED
    BY <2>2 DEF a, b, r, s
<1>4. (p.y - MinY) % Height = (q.y - MinY) % Height /\ p.z % Width = q.z % Width
  <2>. DEFINE a == (p.y - MinY) % Height
              b == (q.y - MinY) % Height
              r == p.z % Width
              s == q.z % Width
  <2>1. /\ a \in Int /\ b \in Int /\ r \in 0 .. Width - 1 /\ s \in 0 .. Width - 1
        /\ a * Width + r = b * Width + s
    BY <1>2, <1>3 DEF Row
  <2>. HIDE DEF a, b, r, s
  <2>2. a = b /\ r = s
    BY <2>1, SizeAssumption, Radix
  <2>. QED
    BY <2>2 DEF a, b, r, s
<1>5. p.x = q.x /\ p.z = q.z
  <2>1. p.x \in 0 .. Width - 1 /\ q.x \in 0 .. Width - 1 /\ p.z \in 0 .. Width - 1 /\ q.z \in 0 .. Width - 1
    BY DEF Places
  <2>. QED
    BY <2>1, <1>3, <1>4, SizeAssumption, ModSmall
<1>6. p.y = q.y
  <2>1. p.y - MinY \in Int /\ q.y - MinY \in Int /\ p.y \in Int /\ q.y \in Int
    BY <1>1, SizeAssumption DEF Coordinate
  <2>2. /\ Height * ((p.y - MinY) \div Height) + ((p.y - MinY) % Height) = p.y - MinY
        /\ Height * ((q.y - MinY) \div Height) + ((q.y - MinY) % Height) = q.y - MinY
    BY <2>1, SizeAssumption, DivMod
  <2>3. (p.y - MinY) \div Height = (q.y - MinY) \div Height
    BY DEF SectionOf
  <2>4. p.y - MinY = q.y - MinY
    BY <2>2, <2>3, <1>4
  <2>. QED
    BY <2>1, <2>4, SizeAssumption
<1>. QED
  BY <1>5, <1>6 DEF Places

-------------------------------------------------------------------------------
(* The blocks that are not air are finitely many, and one of them is worth  *)
(* its weight.                                                              *)
LEMMA NonAirIsFinite ==
  ASSUME NEW s
  PROVE  IsFiniteSet(NonAir(s)) /\ Cardinality(NonAir(s)) \in Nat
<1>1. Cells \in Int
  BY SizeAssumption DEF Cells
<1>2. IsFiniteSet(CellIds)
  BY <1>1, FS_Interval DEF CellIds
<1>3. NonAir(s) \in SUBSET CellIds
  BY DEF NonAir
<1>. QED
  BY <1>2, <1>3, FS_Subset, FS_CardinalityType

LEMMA NonAirWeight ==
  ASSUME ColumnTypeOK, NEW s \in SectionIds, NEW i \in CellIds
  PROVE  /\ Cardinality(NonAir(s) \ {i}) \in Nat
         /\ Cardinality(NonAir(s)) =
              Cardinality(NonAir(s) \ {i}) + Weight(blocks_[s][i])
<1>1. IsFiniteSet(NonAir(s)) /\ Cardinality(NonAir(s)) \in Nat
  BY NonAirIsFinite
<1>2. /\ IsFiniteSet(NonAir(s) \ {i})
      /\ Cardinality(NonAir(s) \ {i}) =
           IF i \in NonAir(s) THEN Cardinality(NonAir(s)) - 1 ELSE Cardinality(NonAir(s))
  BY <1>1, FS_RemoveElement
<1>3. Cardinality(NonAir(s) \ {i}) \in Nat
  BY <1>2, FS_CardinalityType
<1>4. i \in NonAir(s) <=> blocks_[s][i] # Air
  BY DEF NonAir
<1>. QED
  BY <1>1, <1>2, <1>3, <1>4 DEF Weight

(* The count of a section is kept right: it is not 0 when a block of it is  *)
(* not air.                                                                 *)
LEMMA CountedIsRight ==
  ASSUME NEW base \in Nat, NEW was, NEW state
  PROVE  Counted(base + Weight(was), was, state) = base + Weight(state)
BY DEF Counted, Weight

-------------------------------------------------------------------------------
LEMMA SetLocksKeepsColumn ==
  ASSUME ColumnInv, NEW t \in Threads, NEW c \in Coordinate, NEW s \in States,
         SetLocks(t, c, s)
  PROVE  ColumnInv'
<1>. DEFINE k == SectionOf(c)
            i == IndexOf(c)
<1>1. InBounds(c) /\ k \in SectionIds /\ i \in CellIds
  BY SectionInRange, IndexByDigits DEF SetLocks
<1>2. get_block(c) = blocks_[k][i] /\ get_block(c) \in States
  BY <1>1 DEF get_block, ColumnInv, ColumnTypeOK
<1>3. PICK p \in Places : k = SectionOf(p) /\ i = IndexOf(p)
  BY <1>1, PlaceOfCoordinate
<1>. HIDE DEF k, i
<1>4. /\ chunk_mutex_ = Nobody /\ chunk_mutex_' = t
      /\ blocks_' = blocks_ /\ non_air_count_' = non_air_count_
      /\ call' = [call EXCEPT ![t] = [section |-> k, cell |-> i, was |-> get_block(c),
                                      state |-> s, todo |-> {"count", "block"}]]
  BY DEF SetLocks, k, i
<1>5. /\ call'[t].section = k /\ call'[t].cell = i /\ call'[t].was = get_block(c)
      /\ call'[t].state = s /\ call'[t].todo = {"count", "block"}
      /\ \A u \in Threads \ {t} : call'[u] = call[u]
  BY <1>4 DEF ColumnInv, ColumnTypeOK
<1>6. ColumnTypeOK'
  <2>1. [section |-> k, cell |-> i, was |-> get_block(c), state |-> s, todo |-> {"count", "block"}]
          \in [section : SectionIds, cell : CellIds, was : States, state : States,
               todo : SUBSET {"count", "block"}]
    BY <1>1, <1>2
  <2>. QED
    BY <1>4, <2>1 DEF ColumnInv, ColumnTypeOK
<1>7. \A u \in Threads : u # chunk_mutex_
  BY <1>4, ThreadsAssumption
<1>8. \A r \in SectionIds : non_air_count_[r] = Cardinality(NonAir(r)) /\ NonAir(r)' = NonAir(r)
  BY <1>4, <1>7 DEF ColumnInv, NonAir
<1>9. /\ Cardinality(NonAir(k) \ {i}) \in Nat
      /\ Cardinality(NonAir(k)) = Cardinality(NonAir(k) \ {i}) + Weight(blocks_[k][i])
  BY <1>1, NonAirWeight DEF ColumnInv
<1>10. HolderInv(t)'
  <2>1. blocks_'[call'[t].section][call'[t].cell] = call'[t].was
    BY <1>2, <1>4, <1>5
  <2>2. NonAir(call[t].section)' = NonAir(k)
    BY <1>4, <1>5 DEF NonAir
  <2>3. non_air_count_'[call'[t].section] =
          Cardinality(NonAir(k) \ {i}) + Weight(call'[t].was)
    BY <1>1, <1>2, <1>4, <1>5, <1>8, <1>9
  <2>4. \E q \in Places : call'[t].section = SectionOf(q) /\ call'[t].cell = IndexOf(q)
    BY <1>3, <1>5
  <2>. QED
    BY <2>1, <2>2, <2>3, <2>4, <1>5 DEF HolderInv
<1>11. \A u \in Threads \ {t} : call'[u] = NoCall
  BY <1>5, <1>7 DEF ColumnInv
<1>12. \A r \in SectionIds : non_air_count_'[r] = Cardinality(NonAir(r)')
  BY <1>4, <1>8
<1>. QED
  BY <1>4, <1>6, <1>10, <1>11, <1>12 DEF ColumnInv

(* Only who holds the mutex has stores to do.                               *)
LEMMA StoresAreOfTheHolder ==
  ASSUME ColumnInv, NEW t \in Threads, call[t].todo # {}
  PROVE  t = chunk_mutex_ /\ HolderInv(t)
BY DEF ColumnInv, NoCall

LEMMA StoreCountKeepsColumn ==
  ASSUME ColumnInv, NEW t \in Threads, StoreCount(t)
  PROVE  ColumnInv'
<1>1. t = chunk_mutex_ /\ HolderInv(t) /\ ColumnTypeOK
  BY StoresAreOfTheHolder DEF StoreCount, ColumnInv
<1>. DEFINE k == call[t].section
            i == call[t].cell
<1>2. k \in SectionIds /\ i \in CellIds /\ call[t].was \in States /\ call[t].state \in States
  BY <1>1 DEF ColumnTypeOK
<1>3. /\ "count" \in call[t].todo
      /\ non_air_count_' = [non_air_count_ EXCEPT ![k] = Counted(@, call[t].was, call[t].state)]
      /\ call' = [call EXCEPT ![t].todo = @ \ {"count"}]
      /\ blocks_' = blocks_ /\ chunk_mutex_' = chunk_mutex_
  BY DEF StoreCount
<1>4. /\ call'[t].section = k /\ call'[t].cell = i /\ call'[t].was = call[t].was
      /\ call'[t].state = call[t].state /\ call'[t].todo = call[t].todo \ {"count"}
      /\ \A u \in Threads \ {t} : call'[u] = call[u]
  BY <1>1, <1>3 DEF ColumnTypeOK
<1>5. /\ Cardinality(NonAir(k) \ {i}) \in Nat
      /\ non_air_count_[k] = Cardinality(NonAir(k) \ {i}) + Weight(call[t].was)
  BY <1>1, <1>2, <1>3, NonAirWeight DEF HolderInv
<1>6. non_air_count_'[k] = Cardinality(NonAir(k) \ {i}) + Weight(call[t].state)
  <2>1. non_air_count_'[k] = Counted(non_air_count_[k], call[t].was, call[t].state)
    BY <1>1, <1>2, <1>3 DEF ColumnTypeOK
  <2>. QED
    BY <2>1, <1>5, CountedIsRight
<1>. HIDE DEF k, i
<1>7. \A r \in SectionIds : r # k => non_air_count_'[r] = non_air_count_[r]
  BY <1>1, <1>3 DEF ColumnTypeOK
<1>8. \A r : NonAir(r)' = NonAir(r)
  BY <1>3 DEF NonAir
<1>9. ColumnTypeOK'
  <2>1. Counted(non_air_count_[k], call[t].was, call[t].state) \in Nat
    BY <1>1, <1>2 DEF ColumnTypeOK, Counted
  <2>2. non_air_count_' \in [SectionIds -> Nat]
    BY <1>1, <1>3, <2>1 DEF ColumnTypeOK
  <2>3. call' \in [Threads -> [section : SectionIds, cell : CellIds, was : States,
                               state : States, todo : SUBSET {"count", "block"}]]
    BY <1>1, <1>3 DEF ColumnTypeOK
  <2>. QED
    BY <1>1, <1>3, <2>2, <2>3 DEF ColumnTypeOK
<1>10. HolderInv(t)'
  <2>1. NonAir(call[t].section)' = NonAir(k)
    BY <1>4, <1>3 DEF NonAir
  <2>2. blocks_'[k][i] = IF "block" \in call'[t].todo THEN call'[t].was ELSE call'[t].state
    BY <1>1, <1>3, <1>4 DEF HolderInv, k, i
  <2>3. "count" \notin call'[t].todo
    BY <1>4
  <2>4. non_air_count_'[k] = Cardinality(NonAir(k) \ {i}) + Weight(call'[t].state)
    BY <1>4, <1>6
  <2>5. \E q \in Places : k = SectionOf(q) /\ i = IndexOf(q)
    BY <1>1 DEF HolderInv, k, i
  <2>. QED
    BY <1>4, <2>1, <2>2, <2>3, <2>4, <2>5 DEF HolderInv
<1>11. \A u \in Threads \ {t} : call'[u] = NoCall
  BY <1>1, <1>4 DEF ColumnInv
<1>12. ASSUME NEW r \in SectionIds, r # k
       PROVE  non_air_count_'[r] = Cardinality(NonAir(r)')
  BY <1>1, <1>7, <1>8, <1>12 DEF ColumnInv, k
<1>. QED
  BY <1>1, <1>3, <1>4, <1>9, <1>10, <1>11, <1>12 DEF ColumnInv

LEMMA StoreBlockKeepsColumn ==
  ASSUME ColumnInv, NEW t \in Threads, StoreBlock(t)
  PROVE  ColumnInv'
<1>1. t = chunk_mutex_ /\ HolderInv(t) /\ ColumnTypeOK
  BY StoresAreOfTheHolder DEF StoreBlock, ColumnInv
<1>2. PICK k \in SectionIds, i \in CellIds :
        /\ k = call[t].section /\ i = call[t].cell
        /\ call[t].was \in States /\ call[t].state \in States
  BY <1>1 DEF ColumnTypeOK
<1>3. /\ "block" \in call[t].todo
      /\ blocks_' = [blocks_ EXCEPT ![k][i] = call[t].state]
      /\ call' = [call EXCEPT ![t].todo = @ \ {"block"}]
      /\ non_air_count_' = non_air_count_ /\ chunk_mutex_' = chunk_mutex_
  BY <1>2 DEF StoreBlock
<1>4. /\ call'[t].section = k /\ call'[t].cell = i /\ call'[t].was = call[t].was
      /\ call'[t].state = call[t].state /\ call'[t].todo = call[t].todo \ {"block"}
      /\ \A u \in Threads \ {t} : call'[u] = call[u]
  BY <1>1, <1>2, <1>3 DEF ColumnTypeOK
<1>5. /\ blocks_'[k][i] = call[t].state
      /\ \A j \in CellIds : j # i => blocks_'[k][j] = blocks_[k][j]
      /\ \A r \in SectionIds : r # k => blocks_'[r] = blocks_[r]
  BY <1>1, <1>2, <1>3 DEF ColumnTypeOK
<1>6. ColumnTypeOK'
  <2>1. blocks_' \in [SectionIds -> [CellIds -> States]]
    BY <1>1, <1>2, <1>3 DEF ColumnTypeOK
  <2>2. call' \in [Threads -> [section : SectionIds, cell : CellIds, was : States,
                               state : States, todo : SUBSET {"count", "block"}]]
    BY <1>1, <1>3 DEF ColumnTypeOK
  <2>. QED
    BY <1>1, <1>3, <2>1, <2>2 DEF ColumnTypeOK
<1>7. NonAir(k)' \ {i} = NonAir(k) \ {i}
  BY <1>5 DEF NonAir
<1>8. HolderInv(t)'
  <2>1. NonAir(call[t].section)' = NonAir(k)'
    BY <1>4 DEF NonAir
  <2>2. "block" \notin call'[t].todo /\ blocks_'[k][i] = call'[t].state
    BY <1>4, <1>5
  <2>3. non_air_count_[k] = Cardinality(NonAir(k) \ {i}) +
          Weight(IF "count" \in call[t].todo THEN call[t].was ELSE call[t].state)
    BY <1>1, <1>2 DEF HolderInv
  <2>4. non_air_count_'[k] = Cardinality(NonAir(k)' \ {i}) +
          Weight(IF "count" \in call'[t].todo THEN call'[t].was ELSE call'[t].state)
    <3>1. "count" \in call'[t].todo <=> "count" \in call[t].todo
      BY <1>4
    <3>. QED
      BY <3>1, <2>3, <1>3, <1>4, <1>7
  <2>5. \E q \in Places : k = SectionOf(q) /\ i = IndexOf(q)
    BY <1>1, <1>2 DEF HolderInv
  <2>. QED
    BY <1>4, <2>1, <2>2, <2>4, <2>5 DEF HolderInv
<1>9. \A u \in Threads \ {t} : call'[u] = NoCall
  BY <1>1, <1>4 DEF ColumnInv
<1>10. ASSUME NEW r \in SectionIds, r # k
       PROVE  non_air_count_'[r] = Cardinality(NonAir(r)')
  <2>1. NonAir(r)' = NonAir(r)
    BY <1>5, <1>10 DEF NonAir
  <2>. QED
    BY <2>1, <1>1, <1>3, <1>10, <1>2 DEF ColumnInv
<1>. QED
  BY <1>1, <1>3, <1>4, <1>6, <1>8, <1>9, <1>10 DEF ColumnInv

LEMMA SetReturnsKeepsColumn ==
  ASSUME ColumnInv, NEW t \in Threads, SetReturns(t)
  PROVE  ColumnInv'
<1>1. t = chunk_mutex_ /\ HolderInv(t) /\ ColumnTypeOK /\ call[t].todo = {}
  BY DEF SetReturns, ColumnInv
<1>2. /\ chunk_mutex_' = Nobody /\ call' = [call EXCEPT ![t] = NoCall]
      /\ blocks_' = blocks_ /\ non_air_count_' = non_air_count_
  BY DEF SetReturns
<1>. DEFINE k == call[t].section
            i == call[t].cell
<1>3. k \in SectionIds /\ i \in CellIds
  BY <1>1 DEF ColumnTypeOK
<1>4. NoCall \in [section : SectionIds, cell : CellIds, was : States,
                  state : States, todo : SUBSET {"count", "block"}]
  <2>1. 0 \in SectionIds
    BY SizeAssumption DEF SectionIds
  <2>2. 0 \in CellIds
    <3>1. PICK c \in CellIds : TRUE
      BY <1>3
    <3>. QED
      BY <3>1, SizeAssumption DEF CellIds, Cells
  <2>. QED
    BY <2>1, <2>2, StatesAssumption DEF NoCall
<1>5. ColumnTypeOK'
  BY <1>1, <1>2, <1>4 DEF ColumnTypeOK
<1>6. \A u \in Threads : call'[u] = NoCall /\ u # chunk_mutex_'
  BY <1>1, <1>2, ThreadsAssumption DEF ColumnInv, ColumnTypeOK
<1>7. non_air_count_[k] = Cardinality(NonAir(k))
  BY <1>1, <1>3, NonAirWeight DEF HolderInv
<1>8. ASSUME NEW r \in SectionIds
      PROVE  non_air_count_'[r] = Cardinality(NonAir(r)')
  <2>1. NonAir(r)' = NonAir(r)
    BY <1>2 DEF NonAir
  <2>2. non_air_count_[r] = Cardinality(NonAir(r))
    BY <1>1, <1>7 DEF ColumnInv
  <2>. QED
    BY <1>2, <2>1, <2>2
<1>. QED
  BY <1>5, <1>6, <1>8 DEF ColumnInv

-------------------------------------------------------------------------------
LEMMA InitIsColumn == ColumnInit => ColumnInv
<1>. SUFFICES ASSUME ColumnInit PROVE ColumnInv
  OBVIOUS
<1>1. /\ blocks_ = [s \in SectionIds |-> [i \in CellIds |-> Air]]
      /\ non_air_count_ = [s \in SectionIds |-> 0]
      /\ chunk_mutex_ = Nobody /\ call = [t \in Threads |-> NoCall]
  BY DEF ColumnInit
<1>2. Air \in States /\ 0 \in SectionIds
  BY StatesAssumption, SizeAssumption DEF SectionIds
<1>3. 0 \in CellIds
  <2>1. (Width * Width) * Height \in Nat \ {0}
    <3>1. Width * Width \in Nat \ {0}
      BY SizeAssumption
    <3>. QED
      BY <3>1, SizeAssumption
  <2>. QED
    BY <2>1 DEF CellIds, Cells
<1>4. ColumnTypeOK
  <2>1. NoCall \in [section : SectionIds, cell : CellIds, was : States,
                    state : States, todo : SUBSET {"count", "block"}]
    BY <1>2, <1>3 DEF NoCall
  <2>. QED
    BY <1>1, <1>2, <2>1 DEF ColumnTypeOK
<1>5. \A s \in SectionIds : non_air_count_[s] = Cardinality(NonAir(s))
  <2>1. \A s \in SectionIds : NonAir(s) = {}
    BY <1>1 DEF NonAir
  <2>. QED
    BY <1>1, <2>1, FS_EmptySet
<1>. QED
  BY <1>1, <1>4, <1>5, ThreadsAssumption DEF ColumnInv

LEMMA StutterKeepsColumn ==
  ASSUME ColumnInv, UNCHANGED column
  PROVE  ColumnInv'
BY DEF ColumnInv, ColumnTypeOK, HolderInv, NonAir, column

LEMMA StepKeepsColumn ==
  ASSUME ColumnInv, [ColumnNext]_column
  PROVE  ColumnInv'
<1>1. ASSUME NEW t \in Threads, NEW c \in Coordinate, NEW s \in States, SetLocks(t, c, s)
      PROVE  ColumnInv'
  BY <1>1, SetLocksKeepsColumn
<1>2. ASSUME NEW t \in Threads, InSetBlock(t)
      PROVE  ColumnInv'
  BY <1>2, StoreCountKeepsColumn, StoreBlockKeepsColumn, SetReturnsKeepsColumn DEF InSetBlock
<1>. QED
  BY <1>1, <1>2, StutterKeepsColumn DEF ColumnNext

(* Every variable of the column has its type; who is in set_block holds the *)
(* mutex, and the counts are right but for what it has still to store.      *)
THEOREM ColumnInvariant == ColumnSpec => []ColumnInv
<1>1. ColumnInv /\ [ColumnNext]_column => ColumnInv'
  BY StepKeepsColumn
<1>. QED
  BY <1>1, InitIsColumn, PTL DEF ColumnSpec

LEMMA CountsAreRight == ColumnInv => CountIsRight
BY ThreadsAssumption DEF ColumnInv, CountIsRight

-------------------------------------------------------------------------------
(* The column is a store of places.                                         *)
LEMMA InitIsStore == ColumnInit => Store!Init
<1>. SUFFICES ASSUME ColumnInit, NEW p \in Places PROVE get_block(p) = Air
  BY DEF Store!Init
<1>1. p \in Coordinate /\ InBounds(p)
  BY PlacesAreInBounds
<1>2. SectionOf(p) \in SectionIds /\ IndexOf(p) \in CellIds
  BY <1>1, SectionInRange, IndexByDigits
<1>. QED
  BY <1>1, <1>2 DEF ColumnInit, get_block

LEMMA SameBlocksSameStore ==
  ASSUME UNCHANGED blocks_
  PROVE  UNCHANGED [p \in Places |-> get_block(p)]
BY DEF get_block

(* The store of a block is a step of the store, to the place of the call.   *)
LEMMA StoreBlockIsSet ==
  ASSUME ColumnInv, NEW t \in Threads, StoreBlock(t)
  PROVE  Store!Next
<1>1. HolderInv(t) /\ ColumnTypeOK
  BY StoresAreOfTheHolder DEF StoreBlock, ColumnInv
<1>2. PICK p \in Places : call[t].section = SectionOf(p) /\ call[t].cell = IndexOf(p)
  BY <1>1 DEF HolderInv
<1>3. PICK s \in States : s = call[t].state
  BY <1>1 DEF ColumnTypeOK
<1>4. blocks_' = [blocks_ EXCEPT ![SectionOf(p)][IndexOf(p)] = s]
  BY <1>2, <1>3 DEF StoreBlock
<1>5. ASSUME NEW q \in Places
      PROVE  get_block(q)' = IF q = p THEN s ELSE get_block(q)
  <2>1. /\ SectionOf(p) \in SectionIds /\ IndexOf(p) \in CellIds
        /\ SectionOf(q) \in SectionIds /\ IndexOf(q) \in CellIds /\ InBounds(q)
    BY PlacesAreInBounds, SectionInRange, IndexByDigits
  <2>2. get_block(q)' = blocks_'[SectionOf(q)][IndexOf(q)] /\ get_block(q) = blocks_[SectionOf(q)][IndexOf(q)]
    BY <2>1 DEF get_block
  <2>3. CASE q = p
    BY <2>1, <2>2, <2>3, <1>1, <1>4 DEF ColumnTypeOK
  <2>4. CASE q # p
    <3>1. SectionOf(q) # SectionOf(p) \/ IndexOf(q) # IndexOf(p)
      BY <2>4, PlacesAreApart
    <3>2. blocks_'[SectionOf(q)][IndexOf(q)] = blocks_[SectionOf(q)][IndexOf(q)]
      BY <2>1, <3>1, <1>1, <1>4 DEF ColumnTypeOK
    <3>. QED
      BY <2>2, <2>4, <3>2
  <2>. QED
    BY <2>3, <2>4
<1>6. [q \in Places |-> get_block(q)]' = [[q \in Places |-> get_block(q)] EXCEPT ![p] = s]
  BY <1>5
<1>. QED
  BY <1>6 DEF Store!Next, Store!Set

LEMMA StepIsStore ==
  ASSUME ColumnInv, [ColumnNext]_column
  PROVE  [Store!Next]_([p \in Places |-> get_block(p)])
<1>1. ASSUME NEW t \in Threads, StoreBlock(t)
      PROVE  Store!Next
  BY <1>1, StoreBlockIsSet
<1>2. ASSUME NEW t \in Threads, NEW c \in Coordinate, NEW s \in States, SetLocks(t, c, s)
      PROVE  UNCHANGED blocks_
  BY <1>2 DEF SetLocks
<1>3. ASSUME NEW t \in Threads, StoreCount(t) \/ SetReturns(t)
      PROVE  UNCHANGED blocks_
  BY <1>3 DEF StoreCount, SetReturns
<1>4. UNCHANGED column => UNCHANGED blocks_
  BY DEF column
<1>. QED
  BY <1>1, <1>2, <1>3, <1>4, SameBlocksSameStore DEF ColumnNext, InSetBlock

(* set_block changes the place it is given and no other, at one moment,     *)
(* whatever the coordinates and the threads.                                *)
THEOREM ColumnImplementsStore == ColumnSpec => ImplementsStore
<1>1. ColumnInv /\ [ColumnNext]_column => [Store!Next]_([p \in Places |-> get_block(p)])
  BY StepIsStore
<1>. QED
  BY <1>1, InitIsStore, ColumnInvariant, PTL DEF ColumnSpec, ImplementsStore, Store!Spec
===============================================================================
