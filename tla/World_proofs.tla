----------------------------- MODULE World_proofs -----------------------------
(***************************************************************************)
(* Proofs about World: what ChunkStreamer sends of a column that other     *)
(* threads change meanwhile, for sections of any size, words and indices   *)
(* of any width, and any threads; that World is such a streamer, and such  *)
(* a column; that the player spawns on ground, in air; and that an entity  *)
(* is found by its id.                                                     *)
(***************************************************************************)
EXTENDS World, ChunkColumn_proofs

(* Where serialize_section is in its section, and what it has made of it.   *)
PlaceInv ==
  /\ pc = "idle" => sent = <<>>
  /\ pc \in {"branch", "read", "write", "pack"} => section < Sections
  /\ pc = "read" => Len(indices) < Cells
  /\ pc \in {"write", "pack"} => Len(indices) = Cells
  /\ pc \in {"read", "write", "pack"} => Len(palette) > 0
  /\ pc \in {"read", "write"} => longs = <<>> /\ word = <<>> /\ packed = 0

(* What a block is, was or will be by a call under way is remembered.       *)
HeldInv ==
  pc # "idle" => \A s \in SectionIds, i \in CellIds : Present(s, i) \subseteq held[s][i]

(* Each index read so far leads to a state its block had.                   *)
IndicesInv ==
  pc \in {"read", "write", "pack"} /\ Len(palette) =< IndexMod =>
    \A n \in 1 .. Len(indices) :
      /\ indices[n] < Len(palette)
      /\ palette[indices[n] + 1] \in held[section][n - 1]

(* The indices packed so far are in the words, e to a word, in order.       *)
PackedInv(e, b) ==
  /\ packed < Cells
  /\ packed = Len(longs) * e + Len(word)
  /\ Len(word) < e
  /\ \A k \in 1 .. Len(longs) :
       /\ Len(longs[k]) = e
       /\ \A j \in 1 .. e : longs[k][j] = indices[(k - 1) * e + j] % 2 ^ b
  /\ \A j \in 1 .. Len(word) : word[j] = indices[Len(longs) * e + j] % 2 ^ b

StreamInv ==
  /\ StreamTypeOK
  /\ PlaceInv
  /\ HeldInv
  /\ IndicesInv
  /\ pc = "pack" => PackedInv(WordBits \div Bits, Bits)
  /\ StreamedWasThere
  /\ WordsAsAnnounced

-------------------------------------------------------------------------------
(* An element of a sequence is one of its kind.                             *)
LEMMA ElementOf ==
  ASSUME NEW S, NEW q \in Seq(S), NEW n \in 1 .. Len(q)
  PROVE  q[n] \in S
OBVIOUS

(* An index is a number. *)
LEMMA IndexIsNat ==
  ASSUME indices \in Seq(0 .. IndexMod - 1), NEW n \in 1 .. Len(indices)
  PROVE  indices[n] \in Nat
<1>1. IndexMod \in Int
  BY BitsAssumption
<1>2. indices[n] \in 0 .. IndexMod - 1
  BY ElementOf
<1>. QED
  BY <1>1, <1>2

(* There is a fewest number of bits, and it is enough for the palette, or   *)
(* is the most there are.                                                   *)
LEMMA BitsAreEnough ==
  ASSUME Len(palette) \in Nat
  PROVE  /\ Bits \in MinBits .. MaxBits
         /\ Len(palette) =< IndexMod => Len(palette) =< 2 ^ Bits
<1>. DEFINE R == OpToRel(<, Nat)
            T == {b \in MinBits .. MaxBits : b = MaxBits \/ Len(palette) =< 2 ^ b}
<1>1. T \subseteq Nat /\ T # {}
  <2>1. MaxBits \in MinBits .. MaxBits /\ MinBits \in Nat
    BY BitsAssumption
  <2>2. MaxBits \in T
    BY <2>1
  <2>. QED
    BY <2>1, <2>2
<1>2. PICK b \in T : \A c \in T : ~ (<<c, b>> \in R)
  BY <1>1, NatLessThanWellFounded, WFMin
<1>3. \A c \in T : ~ (c < b)
  BY <1>1, <1>2 DEF OpToRel
<1>4. ASSUME NEW c \in MinBits .. b - 1
      PROVE  Len(palette) > 2 ^ c
  <2>1. c \in MinBits .. MaxBits /\ c < b
    BY <1>1, BitsAssumption
  <2>2. 2 ^ c \in Nat
    BY <2>1, BitsAssumption
  <2>3. c \notin T
    BY <2>1, <1>3
  <2>. QED
    BY <2>1, <2>2, <2>3
<1>5. \E d \in MinBits .. MaxBits :
        /\ d = MaxBits \/ Len(palette) =< 2 ^ d
        /\ \A c \in MinBits .. d - 1 : Len(palette) > 2 ^ c
  BY <1>2, <1>4
<1>6. /\ Bits \in MinBits .. MaxBits
      /\ Bits = MaxBits \/ Len(palette) =< 2 ^ Bits
  BY <1>5 DEF Bits
<1>. QED
  BY <1>6, BitsAssumption

LEMMA WordsTakeEntries ==
  ASSUME NEW b \in MinBits .. MaxBits
  PROVE  /\ b \in Nat \ {0} /\ 2 ^ b \in Nat \ {0}
         /\ WordBits \div b \in Nat \ {0}
         /\ \A n \in Nat : n * b =< WordBits <=> n =< WordBits \div b
<1>1. b \in Nat \ {0} /\ 2 ^ b \in Nat \ {0} /\ b =< WordBits /\ WordBits \in Nat
  BY BitsAssumption
<1>. DEFINE e == WordBits \div b
            r == WordBits % b
<1>2. e \in Int /\ r \in 0 .. b - 1 /\ b * e + r = WordBits
  BY <1>1, DivMod
<1>. HIDE DEF e, r
<1>3. e >= 1
  BY <1>1, <1>2
<1>4. ASSUME NEW n \in Nat, n * b =< WordBits
      PROVE  n =< e
  <2>1. CASE n >= e + 1
    <3>1. n * b >= (e + 1) * b
      BY <2>1, <1>1, <1>2
    <3>2. (e + 1) * b = b * e + b
      BY <1>1, <1>2
    <3>. QED
      BY <3>1, <3>2, <1>1, <1>2, <1>4
  <2>. QED
    BY <2>1, <1>2
<1>5. ASSUME NEW n \in Nat, n =< e
      PROVE  n * b =< WordBits
  <2>1. n * b =< e * b
    BY <1>1, <1>2, <1>5
  <2>2. e * b = b * e
    BY <1>1, <1>2
  <2>. QED
    BY <2>1, <2>2, <1>1, <1>2
<1>. QED
  BY <1>1, <1>2, <1>3, <1>4, <1>5 DEF e

LEMMA CellsArePositive == Cells \in Nat \ {0}
<1>1. Width * Width \in Nat \ {0}
  BY SizeAssumption
<1>. QED
  BY <1>1, SizeAssumption DEF Cells

-------------------------------------------------------------------------------
(* A step of another thread leaves the serializer where it is, and adds to  *)
(* what is remembered.                                                      *)
LEMMA WitnessedStep ==
  ASSUME StreamInv, ColumnTypeOK', Witnessed, UNCHANGED serializer
  PROVE  StreamInv'
<1>1. /\ pc' = pc /\ count' = count /\ palette' = palette /\ indices' = indices
      /\ longs' = longs /\ word' = word /\ packed' = packed /\ sent' = sent
  BY DEF serializer
<1>2. pc # "idle" => \A s \in SectionIds, i \in CellIds :
        held'[s][i] = held[s][i] \cup Present(s, i)'
  BY DEF Witnessed, Presence
<1>3. \A s \in SectionIds, i \in CellIds : held[s][i] \subseteq held'[s][i]
  BY <1>2 DEF Witnessed
<1>4. Bits' = Bits
  BY <1>1 DEF Bits
<1>5. PlaceInv'
  BY <1>1 DEF StreamInv, PlaceInv, section
<1>6. HeldInv'
  BY <1>1, <1>2 DEF HeldInv
<1>7. IndicesInv'
  <2>. SUFFICES ASSUME pc \in {"read", "write", "pack"}, Len(palette) =< IndexMod,
                       NEW n \in 1 .. Len(indices)
                PROVE  indices[n] < Len(palette) /\ palette[indices[n] + 1] \in held'[section][n - 1]
    BY <1>1 DEF IndicesInv, section
  <2>1. indices[n] < Len(palette) /\ palette[indices[n] + 1] \in held[section][n - 1]
    BY DEF StreamInv, IndicesInv
  <2>2. section \in SectionIds /\ n - 1 \in CellIds
    <3>1. Len(sent) \in Nat /\ Len(indices) \in Nat
      BY DEF StreamInv, StreamTypeOK
    <3>2. Len(sent) < Sections /\ Len(indices) =< Cells
      BY <3>1, CellsArePositive DEF StreamInv, PlaceInv, section
    <3>. QED
      BY <3>1, <3>2, SizeAssumption, CellsArePositive DEF SectionIds, CellIds, section
  <2>. QED
    BY <2>1, <2>2, <1>3
<1>8. pc' = "pack" => PackedInv(WordBits \div Bits, Bits)'
  BY <1>1, <1>4 DEF StreamInv, PackedInv
<1>9. StreamedWasThere'
  <2>. SUFFICES ASSUME NEW n \in 1 .. Len(sent), Len(sent[n].palette) =< IndexMod,
                       NEW i \in CellIds
                PROVE  Decoded(sent[n], i) \in held'[n - 1][i]
    BY <1>1 DEF StreamedWasThere, Decoded
  <2>1. Decoded(sent[n], i) \in held[n - 1][i]
    BY DEF StreamInv, StreamedWasThere
  <2>2. n - 1 \in SectionIds
    BY SizeAssumption DEF StreamInv, StreamTypeOK, SectionIds
  <2>. QED
    BY <2>1, <2>2, <1>3
<1>10. WordsAsAnnounced'
  BY <1>1 DEF StreamInv, WordsAsAnnounced
<1>11. StreamTypeOK'
  <2>1. held' \in [SectionIds -> [CellIds -> SUBSET States]]
    <3>1. CASE pc = "idle"
      BY <3>1 DEF Witnessed, StreamInv, StreamTypeOK
    <3>2. CASE pc # "idle"
      <4>1. \A s \in SectionIds, i \in CellIds : Present(s, i)' \subseteq States
        BY DEF Present, ColumnTypeOK
      <4>2. held' = [s \in SectionIds |-> [i \in CellIds |-> held[s][i] \cup Presence'[s][i]]]
        BY <3>2 DEF Witnessed
      <4>3. \A s \in SectionIds, i \in CellIds : Presence'[s][i] = Present(s, i)'
        BY DEF Presence
      <4>4. \A s \in SectionIds, i \in CellIds : held[s][i] \subseteq States
        BY DEF StreamInv, StreamTypeOK
      <4>. QED
        BY <4>1, <4>2, <4>3, <4>4
    <3>. QED
      BY <3>1, <3>2
  <2>. QED
    BY <1>1, <2>1 DEF StreamInv, StreamTypeOK
<1>. QED
  BY <1>5, <1>6, <1>7, <1>8, <1>9, <1>10, <1>11 DEF StreamInv

-------------------------------------------------------------------------------
(* The steps of the serializer.  It leaves the column and, after Begin, what *)
(* is remembered as they are, so a block of the section is remembered.      *)
LEMMA BlockIsHeld ==
  ASSUME HeldInv, pc # "idle", NEW s \in SectionIds, NEW i \in CellIds
  PROVE  blocks_[s][i] \in held[s][i]
BY DEF HeldInv, Present

LEMMA BeginStep ==
  ASSUME StreamInv, Begin
  PROVE  StreamInv'
<1>1. /\ pc = "idle" /\ pc' = "count" /\ held' = Presence /\ UNCHANGED column
      /\ UNCHANGED <<count, palette, indices, longs, word, packed, sent>>
  BY DEF Begin
<1>2. sent = <<>>
  BY <1>1 DEF StreamInv, PlaceInv
<1>3. /\ blocks_' = blocks_ /\ non_air_count_' = non_air_count_
      /\ chunk_mutex_' = chunk_mutex_ /\ call' = call
  BY <1>1 DEF column
<1>4. \A s \in SectionIds, i \in CellIds : Present(s, i)' = Present(s, i)
  BY <1>3 DEF Present
<1>5. HeldInv'
  BY <1>1, <1>4 DEF HeldInv, Presence
<1>6. held' \in [SectionIds -> [CellIds -> SUBSET States]]
  <2>1. \A s \in SectionIds, i \in CellIds : Present(s, i) \subseteq States
    BY DEF Present, StreamInv, StreamTypeOK, ColumnTypeOK
  <2>. QED
    BY <2>1, <1>1 DEF Presence
<1>7. StreamTypeOK'
  BY <1>1, <1>3, <1>6 DEF StreamInv, StreamTypeOK, ColumnTypeOK
<1>8. PlaceInv' /\ IndicesInv'
  BY <1>1 DEF PlaceInv, IndicesInv
<1>9. StreamedWasThere' /\ WordsAsAnnounced'
  BY <1>1, <1>2 DEF StreamedWasThere, WordsAsAnnounced
<1>. QED
  BY <1>1, <1>5, <1>7, <1>8, <1>9 DEF StreamInv

(* What a step that sends nothing, and leaves the column alone, preserves.  *)
LEMMA NothingSent ==
  ASSUME StreamInv, pc # "idle", pc' # "idle", UNCHANGED <<column, held, sent>>
  PROVE  ColumnTypeOK' /\ HeldInv' /\ StreamedWasThere' /\ WordsAsAnnounced'
<1>1. /\ blocks_' = blocks_ /\ non_air_count_' = non_air_count_
      /\ chunk_mutex_' = chunk_mutex_ /\ call' = call
      /\ held' = held /\ sent' = sent
  BY DEF column
<1>2. ColumnTypeOK'
  BY <1>1 DEF StreamInv, StreamTypeOK, ColumnTypeOK
<1>3. \A s \in SectionIds, i \in CellIds : Present(s, i)' = Present(s, i)
  BY <1>1 DEF Present
<1>4. HeldInv'
  BY <1>1, <1>3 DEF StreamInv, HeldInv
<1>. QED
  BY <1>1, <1>2, <1>4 DEF StreamInv, StreamedWasThere, WordsAsAnnounced, Decoded

(* What one that sends a section has to show of it.                         *)
LEMMA SectionSent ==
  ASSUME StreamInv, pc # "idle", section < Sections, UNCHANGED <<column, held>>,
         NEW data, Written(data),
         data \in [count : Nat, bits : Nat, palette : Seq(States), announced : Nat,
                   longs : Seq(Seq(Nat))],
         Len(data.palette) =< IndexMod =>
           \A i \in CellIds : Decoded(data, i) \in held[section][i],
         Len(data.longs) = data.announced,
         \A k \in 1 .. data.announced : Len(data.longs[k]) * data.bits =< WordBits
  PROVE  /\ ColumnTypeOK' /\ HeldInv' /\ StreamedWasThere' /\ WordsAsAnnounced'
         /\ sent' \in Seq([count : Nat, bits : Nat, palette : Seq(States), announced : Nat,
                           longs : Seq(Seq(Nat))])
         /\ Len(sent') =< Sections /\ pc' = "count" /\ IndicesInv' /\ PlaceInv'
<1>1. /\ blocks_' = blocks_ /\ non_air_count_' = non_air_count_
      /\ chunk_mutex_' = chunk_mutex_ /\ call' = call
      /\ held' = held /\ sent' = Append(sent, data) /\ pc' = "count"
  BY DEF column, Written
<1>2. /\ sent \in Seq([count : Nat, bits : Nat, palette : Seq(States), announced : Nat,
                       longs : Seq(Seq(Nat))])
      /\ Len(sent) \in Nat
  BY DEF StreamInv, StreamTypeOK
<1>3. /\ sent' \in Seq([count : Nat, bits : Nat, palette : Seq(States), announced : Nat,
                        longs : Seq(Seq(Nat))])
      /\ Len(sent') = Len(sent) + 1
      /\ \A n \in 1 .. Len(sent) : sent'[n] = sent[n]
      /\ sent'[Len(sent) + 1] = data
  BY <1>1, <1>2
<1>4. ColumnTypeOK'
  BY <1>1 DEF StreamInv, StreamTypeOK, ColumnTypeOK
<1>5. HeldInv'
  <2>1. \A s \in SectionIds, i \in CellIds : Present(s, i)' = Present(s, i)
    BY <1>1 DEF Present
  <2>. QED
    BY <1>1, <2>1 DEF StreamInv, HeldInv
<1>6. StreamedWasThere'
  <2>. SUFFICES ASSUME NEW n \in 1 .. Len(sent'), Len(sent'[n].palette) =< IndexMod,
                       NEW i \in CellIds
                PROVE  Decoded(sent'[n], i) \in held[n - 1][i]
    BY <1>1 DEF StreamedWasThere, Decoded
  <2>1. CASE n \in 1 .. Len(sent)
    BY <2>1, <1>3 DEF StreamInv, StreamedWasThere
  <2>2. CASE n = Len(sent) + 1
    <3>1. n - 1 = section
      BY <2>2, <1>2 DEF section
    <3>. QED
      BY <3>1, <2>2, <1>3
  <2>. QED
    BY <2>1, <2>2, <1>2, <1>3
<1>7. WordsAsAnnounced'
  <2>. SUFFICES ASSUME NEW n \in 1 .. Len(sent')
                PROVE  /\ Len(sent'[n].longs) = sent'[n].announced
                       /\ \A k \in 1 .. sent'[n].announced :
                            Len(sent'[n].longs[k]) * sent'[n].bits =< WordBits
    BY DEF WordsAsAnnounced
  <2>1. CASE n \in 1 .. Len(sent)
    BY <2>1, <1>3 DEF StreamInv, WordsAsAnnounced
  <2>2. CASE n = Len(sent) + 1
    BY <2>2, <1>3
  <2>. QED
    BY <2>1, <2>2, <1>2, <1>3
<1>8. Len(sent') =< Sections
  BY <1>2, <1>3, SizeAssumption DEF section
<1>9. IndicesInv' /\ PlaceInv'
  BY <1>1 DEF IndicesInv, PlaceInv
<1>. QED
  BY <1>1, <1>3, <1>4, <1>5, <1>6, <1>7, <1>8, <1>9

LEMMA WriteCountStep ==
  ASSUME StreamInv, WriteCount
  PROVE  StreamInv'
<1>1. /\ pc = "count" /\ pc' = "branch" /\ section < Sections
      /\ count' = non_air_count_[section]
      /\ UNCHANGED <<column, palette, indices, longs, word, packed, sent, held>>
  BY DEF WriteCount
<1>2. section \in SectionIds
  BY <1>1, SizeAssumption DEF section, SectionIds, StreamInv, StreamTypeOK
<1>3. count' \in Nat
  BY <1>1, <1>2 DEF StreamInv, StreamTypeOK, ColumnTypeOK
<1>4. ColumnTypeOK' /\ HeldInv' /\ StreamedWasThere' /\ WordsAsAnnounced'
  BY <1>1, NothingSent
<1>5. StreamTypeOK'
  BY <1>1, <1>3, <1>4 DEF StreamInv, StreamTypeOK
<1>6. PlaceInv' /\ IndicesInv'
  BY <1>1 DEF PlaceInv, IndicesInv, section
<1>. QED
  BY <1>1, <1>4, <1>5, <1>6 DEF StreamInv

(* A section whose count is 0 is one of air, or of a block that is, was or  *)
(* will be.                                                                 *)
LEMMA NoCountIsAir ==
  ASSUME ColumnInv, NEW s \in SectionIds, non_air_count_[s] = 0, NEW i \in CellIds
  PROVE  Air \in Present(s, i)
<1>1. ColumnTypeOK
  BY DEF ColumnInv
<1>2. CASE \A t \in Threads : t = chunk_mutex_ => s # call[t].section
  <2>1. Cardinality(NonAir(s)) = 0
    BY <1>2 DEF ColumnInv
  <2>2. NonAir(s) = {}
    BY <2>1, NonAirIsFinite, FS_EmptySet
  <2>. QED
    BY <2>2 DEF NonAir, Present
<1>3. CASE \E t \in Threads : t = chunk_mutex_ /\ s = call[t].section
  <2>1. PICK t \in Threads : t = chunk_mutex_ /\ s = call[t].section
    BY <1>3
  <2>2. HolderInv(t)
    BY <2>1 DEF ColumnInv
  <2>. DEFINE now == IF "count" \in call[t].todo THEN call[t].was ELSE call[t].state
  <2>3. /\ 0 = Cardinality(NonAir(s) \ {call[t].cell}) + Weight(now)
        /\ Cardinality(NonAir(s) \ {call[t].cell}) \in Nat
        /\ IsFiniteSet(NonAir(s) \ {call[t].cell})
    <3>1. call[t].cell \in CellIds
      BY <1>1 DEF ColumnTypeOK
    <3>. QED
      BY <3>1, <1>1, <2>1, <2>2, NonAirWeight, NonAirIsFinite, FS_RemoveElement DEF HolderInv
  <2>4. Weight(now) = 0 /\ Cardinality(NonAir(s) \ {call[t].cell}) = 0
    <3>1. Weight(now) \in {0, 1}
      BY DEF Weight
    <3>. QED
      BY <3>1, <2>3
  <2>5. now = Air /\ NonAir(s) \ {call[t].cell} = {}
    BY <2>3, <2>4, FS_EmptySet DEF Weight
  <2>6. CASE i = call[t].cell
    <3>1. {call[t].was, call[t].state} \subseteq Present(s, i)
      BY <2>1, <2>6 DEF Present
    <3>. QED
      BY <3>1, <2>5
  <2>7. CASE i # call[t].cell
    BY <2>5, <2>7 DEF NonAir, Present
  <2>. QED
    BY <2>6, <2>7
<1>. QED
  BY <1>2, <1>3

LEMMA BranchStep ==
  ASSUME StreamInv, ColumnInv, Branch
  PROVE  StreamInv'
<1>1. /\ pc = "branch" /\ palette' = <<Air>> /\ indices' = <<>>
      /\ longs' = <<>> /\ word' = <<>> /\ packed' = 0
      /\ UNCHANGED <<column, count, held>>
  BY DEF Branch
<1>2. section < Sections /\ section \in SectionIds
  BY <1>1, SizeAssumption DEF section, SectionIds, StreamInv, StreamTypeOK, PlaceInv
<1>3. /\ palette' \in Seq(States) /\ indices' \in Seq(0 .. IndexMod - 1)
      /\ longs' \in Seq(Seq(Nat)) /\ word' \in Seq(Nat) /\ packed' \in 0 .. Cells
      /\ count' \in Nat /\ held' \in [SectionIds -> [CellIds -> SUBSET States]]
  BY <1>1, StatesAssumption, CellsArePositive DEF StreamInv, StreamTypeOK
<1>4. CASE non_air_count_[section] = 0
  <2>. DEFINE data == SectionData(0, <<Air>>, 0, <<>>)
  <2>1. Written(data)
    BY <1>4 DEF Branch
  <2>2. data.bits = 0 /\ data.palette = <<Air>> /\ data.longs = <<>> /\ data.announced = 0
    BY DEF SectionData
  <2>3. data \in [count : Nat, bits : Nat, palette : Seq(States), announced : Nat,
                  longs : Seq(Seq(Nat))]
    BY StatesAssumption DEF SectionData, StreamInv, StreamTypeOK
  <2>. HIDE DEF data
  <2>4. \A i \in CellIds : Decoded(data, i) \in held[section][i]
    BY <1>1, <1>2, <1>4, <2>2, NoCountIsAir DEF Decoded, StreamInv, HeldInv
  <2>5. /\ ColumnTypeOK' /\ HeldInv' /\ StreamedWasThere' /\ WordsAsAnnounced'
        /\ sent' \in Seq([count : Nat, bits : Nat, palette : Seq(States), announced : Nat,
                          longs : Seq(Seq(Nat))])
        /\ Len(sent') =< Sections /\ pc' = "count" /\ IndicesInv' /\ PlaceInv'
    <3>1. Len(data.longs) = data.announced
      BY <2>2
    <3>2. \A k \in 1 .. data.announced : Len(data.longs[k]) * data.bits =< WordBits
      BY <2>2
    <3>. QED
      BY <1>1, <1>2, <2>1, <2>3, <2>4, <3>1, <3>2, SectionSent
  <2>6. StreamTypeOK'
    BY <1>3, <2>5 DEF StreamTypeOK
  <2>. QED
    BY <2>5, <2>6 DEF StreamInv
<1>5. CASE non_air_count_[section] # 0
  <2>1. pc' = "read" /\ sent' = sent
    BY <1>5 DEF Branch
  <2>2. ColumnTypeOK' /\ HeldInv' /\ StreamedWasThere' /\ WordsAsAnnounced'
    BY <1>1, <2>1, NothingSent
  <2>3. StreamTypeOK'
    BY <1>3, <2>1, <2>2 DEF StreamInv, StreamTypeOK
  <2>4. Len(indices') = 0 /\ Len(palette') = 1
    BY <1>1
  <2>5. PlaceInv'
    BY <1>1, <1>2, <2>1, <2>4, CellsArePositive DEF PlaceInv, section
  <2>6. IndicesInv'
    BY <2>4 DEF IndicesInv
  <2>. QED
    BY <2>1, <2>2, <2>3, <2>5, <2>6 DEF StreamInv
<1>. QED
  BY <1>4, <1>5

-------------------------------------------------------------------------------
(* One block more is read: its index leads to its state, as long as the     *)
(* palette has no more states than an index has values.                     *)
LEMMA ReadBlockStep ==
  ASSUME StreamInv, ReadBlock
  PROVE  StreamInv'
<1>1. /\ pc = "read" /\ UNCHANGED <<column, count, longs, word, packed, sent, held>>
      /\ pc' = IF Len(indices') = Cells THEN "write" ELSE "read"
  BY DEF ReadBlock
<1>2. /\ Len(sent) \in Nat /\ Len(indices) \in Nat /\ Len(palette) \in Nat
      /\ palette \in Seq(States) /\ indices \in Seq(0 .. IndexMod - 1)
  BY DEF StreamInv, StreamTypeOK
<1>3. /\ Len(sent) < Sections /\ Len(indices) < Cells /\ Len(palette) > 0
      /\ longs = <<>> /\ word = <<>> /\ packed = 0
  BY <1>1 DEF StreamInv, PlaceInv, section
<1>4. section \in SectionIds /\ Len(indices) \in CellIds
  BY <1>2, <1>3, SizeAssumption, CellsArePositive DEF section, SectionIds, CellIds
<1>5. PICK s \in States : s = blocks_[section][Len(indices)]
  BY <1>4 DEF StreamInv, StreamTypeOK, ColumnTypeOK
<1>6. s \in held[section][Len(indices)]
  BY <1>1, <1>4, <1>5, BlockIsHeld DEF StreamInv
<1>7. IndexMod \in Nat \ {0}
  BY BitsAssumption
<1>8. PICK i \in 0 .. IndexMod - 1 :
        /\ indices' = Append(indices, i)
        /\ palette' \in Seq(States) /\ Len(palette') \in Nat /\ Len(palette') >= Len(palette)
        /\ \A n \in 1 .. Len(palette) : palette'[n] = palette[n]
        /\ Len(palette') =< IndexMod => i < Len(palette') /\ palette'[i + 1] = s
  <2>1. CASE Found(s) = {}
    <3>1. palette' = Append(palette, s) /\ indices' = Append(indices, Len(palette) % IndexMod)
      BY <2>1, <1>5 DEF ReadBlock
    <3>2. /\ palette' \in Seq(States) /\ Len(palette') = Len(palette) + 1
          /\ palette'[Len(palette) + 1] = s
          /\ \A n \in 1 .. Len(palette) : palette'[n] = palette[n]
      BY <3>1, <1>2
    <3>3. Len(palette) % IndexMod \in 0 .. IndexMod - 1
      BY <1>2, <1>7, DivMod
    <3>4. Len(palette') =< IndexMod => Len(palette) % IndexMod = Len(palette)
      <4>1. Len(palette') =< IndexMod => Len(palette) \in 0 .. IndexMod - 1
        BY <1>2, <1>7, <3>2
      <4>. QED
        BY <4>1, <1>7, ModSmall
    <3>5. Len(palette') =< IndexMod =>
            /\ Len(palette) % IndexMod < Len(palette')
            /\ palette'[(Len(palette) % IndexMod) + 1] = s
      BY <1>2, <3>2, <3>4
    <3>. QED
      BY <1>2, <3>1, <3>2, <3>3, <3>5
  <2>2. CASE Found(s) # {}
    <3>1. PICK n \in Found(s) : indices' = Append(indices, (n - 1) % IndexMod)
      BY <2>2, <1>5 DEF ReadBlock
    <3>2. palette' = palette
      BY <2>2, <1>5 DEF ReadBlock
    <3>3. n \in 1 .. Len(palette) /\ palette[n] = s
      BY DEF Found
    <3>4. (n - 1) % IndexMod \in 0 .. IndexMod - 1
      <4>1. n - 1 \in Int
        BY <1>2, <3>3
      <4>. QED
        BY <4>1, <1>7, DivMod
    <3>5. Len(palette) =< IndexMod => (n - 1) % IndexMod = n - 1
      <4>1. Len(palette) =< IndexMod => n - 1 \in 0 .. IndexMod - 1
        BY <1>2, <1>7, <3>3
      <4>. QED
        BY <4>1, <1>7, ModSmall
    <3>6. Len(palette') =< IndexMod =>
            (n - 1) % IndexMod < Len(palette') /\ palette'[((n - 1) % IndexMod) + 1] = s
      BY <1>2, <3>2, <3>3, <3>5
    <3>. QED
      BY <1>2, <3>1, <3>2, <3>4, <3>6
  <2>. QED
    BY <2>1, <2>2
<1>9. /\ indices' \in Seq(0 .. IndexMod - 1) /\ Len(indices') = Len(indices) + 1
      /\ \A n \in 1 .. Len(indices) : indices'[n] = indices[n]
      /\ indices'[Len(indices) + 1] = i
  BY <1>2, <1>8
<1>10. ColumnTypeOK' /\ HeldInv' /\ StreamedWasThere' /\ WordsAsAnnounced'
  BY <1>1, NothingSent
<1>11. StreamTypeOK'
  BY <1>1, <1>8, <1>9, <1>10 DEF StreamInv, StreamTypeOK
<1>12. PlaceInv'
  <2>1. Len(indices') =< Cells
    BY <1>2, <1>3, <1>9, CellsArePositive
  <2>2. pc' = "read" => Len(indices') < Cells
    BY <1>1, <2>1, <1>2, <1>9, CellsArePositive
  <2>3. Len(palette') > 0
    BY <1>2, <1>3, <1>8
  <2>4. Len(sent') < Sections
    BY <1>1, <1>3
  <2>. QED
    BY <1>1, <1>3, <2>2, <2>3, <2>4 DEF PlaceInv, section
<1>13. IndicesInv'
  <2>. SUFFICES ASSUME Len(palette') =< IndexMod, NEW n \in 1 .. Len(indices')
                PROVE  /\ indices'[n] < Len(palette')
                       /\ palette'[indices'[n] + 1] \in held[section][n - 1]
    BY <1>1 DEF IndicesInv, section
  <2>1. CASE n \in 1 .. Len(indices)
    <3>1. Len(palette) =< IndexMod
      BY <1>2, <1>7, <1>8
    <3>2. indices[n] < Len(palette) /\ palette[indices[n] + 1] \in held[section][n - 1]
      BY <1>1, <2>1, <3>1 DEF StreamInv, IndicesInv
    <3>3. indices[n] \in Nat /\ indices'[n] = indices[n]
      <4>1. indices[n] \in Nat
        BY <1>2, <2>1, IndexIsNat
      <4>2. indices'[n] = indices[n]
        BY <1>9, <2>1
      <4>. QED
        BY <4>1, <4>2
    <3>4. indices[n] + 1 \in 1 .. Len(palette)
      BY <1>2, <3>2, <3>3
    <3>5. palette'[indices[n] + 1] = palette[indices[n] + 1]
      BY <1>8, <3>4
    <3>6. indices[n] < Len(palette')
      BY <1>2, <1>8, <3>2, <3>3
    <3>. QED
      BY <3>2, <3>3, <3>5, <3>6
  <2>2. CASE n = Len(indices) + 1
    <3>1. n - 1 = Len(indices)
      BY <2>2, <1>2
    <3>. QED
      BY <2>2, <3>1, <1>6, <1>8, <1>9
  <2>. QED
    BY <2>1, <2>2, <1>2, <1>9
<1>14. pc' # "pack"
  BY <1>1
<1>. QED
  BY <1>10, <1>11, <1>12, <1>13, <1>14 DEF StreamInv

LEMMA WriteSingleStep ==
  ASSUME StreamInv, WriteSingle
  PROVE  StreamInv'
<1>. DEFINE data == SectionData(0, palette, 0, <<>>)
<1>1. /\ pc = "write" /\ Len(palette) = 1 /\ Written(data)
      /\ UNCHANGED <<column, count, palette, indices, longs, word, packed, held>>
  BY DEF WriteSingle
<1>2. section < Sections /\ Len(indices) = Cells
  BY <1>1 DEF StreamInv, PlaceInv
<1>3. data.bits = 0 /\ data.palette = palette /\ data.longs = <<>> /\ data.announced = 0
  BY DEF SectionData
<1>4. data \in [count : Nat, bits : Nat, palette : Seq(States), announced : Nat,
                longs : Seq(Seq(Nat))]
  BY DEF SectionData, StreamInv, StreamTypeOK
<1>. HIDE DEF data
<1>5. \A i \in CellIds : Decoded(data, i) \in held[section][i]
  <2>. SUFFICES ASSUME NEW i \in CellIds PROVE palette[1] \in held[section][i]
    BY <1>3 DEF Decoded
  <2>1. i \in Nat /\ i + 1 \in 1 .. Len(indices) /\ (i + 1) - 1 = i
    BY <1>2, CellsArePositive DEF CellIds
  <2>2. Len(palette) =< IndexMod
    BY <1>1, BitsAssumption
  <2>3. indices[i + 1] < 1 /\ palette[indices[i + 1] + 1] \in held[section][i]
    BY <1>1, <2>1, <2>2 DEF StreamInv, IndicesInv
  <2>4. indices[i + 1] \in 0 .. IndexMod - 1
    <3>1. indices \in Seq(0 .. IndexMod - 1)
      BY DEF StreamInv, StreamTypeOK
    <3>2. IndexMod \in Nat \ {0}
      BY BitsAssumption
    <3>. QED
      BY <2>1, <3>1, <3>2
  <2>5. indices[i + 1] = 0
    BY <2>3, <2>4, BitsAssumption
  <2>. QED
    BY <2>3, <2>5
<1>6. /\ ColumnTypeOK' /\ HeldInv' /\ StreamedWasThere' /\ WordsAsAnnounced'
      /\ sent' \in Seq([count : Nat, bits : Nat, palette : Seq(States), announced : Nat,
                        longs : Seq(Seq(Nat))])
      /\ Len(sent') =< Sections /\ pc' = "count" /\ IndicesInv' /\ PlaceInv'
  <2>1. Len(data.longs) = data.announced
    BY <1>3
  <2>2. \A k \in 1 .. data.announced : Len(data.longs[k]) * data.bits =< WordBits
    BY <1>3
  <2>. QED
    BY <1>1, <1>2, <1>4, <1>5, <2>1, <2>2, SectionSent
<1>7. StreamTypeOK'
  BY <1>1, <1>6 DEF StreamInv, StreamTypeOK
<1>. QED
  BY <1>6, <1>7 DEF StreamInv

LEMMA StartPackingStep ==
  ASSUME StreamInv, StartPacking
  PROVE  StreamInv'
<1>1. /\ pc = "write" /\ pc' = "pack"
      /\ UNCHANGED <<column, count, palette, indices, longs, word, packed, sent, held>>
  BY DEF StartPacking
<1>2. ColumnTypeOK' /\ HeldInv' /\ StreamedWasThere' /\ WordsAsAnnounced'
  BY <1>1, NothingSent
<1>3. StreamTypeOK'
  BY <1>1, <1>2 DEF StreamInv, StreamTypeOK
<1>4. PlaceInv' /\ IndicesInv'
  BY <1>1 DEF StreamInv, PlaceInv, IndicesInv, section
<1>5. PackedInv(WordBits \div Bits, Bits)'
  <2>1. longs' = <<>> /\ word' = <<>> /\ packed' = 0
    BY <1>1 DEF StreamInv, PlaceInv
  <2>2. Bits' = Bits
    BY <1>1 DEF Bits
  <2>3. Len(palette) \in Nat
    BY DEF StreamInv, StreamTypeOK
  <2>4. PICK e \in Nat \ {0} : e = WordBits \div Bits
    BY <2>3, BitsAreEnough, WordsTakeEntries
  <2>5. Len(longs') = 0 /\ Len(word') = 0
    BY <2>1
  <2>6. packed' < Cells /\ packed' = Len(longs') * e + Len(word') /\ Len(word') < e
    BY <2>1, <2>4, <2>5, CellsArePositive
  <2>. QED
    BY <2>2, <2>4, <2>5, <2>6 DEF PackedInv
<1>. QED
  BY <1>1, <1>2, <1>3, <1>4, <1>5 DEF StreamInv

-------------------------------------------------------------------------------
(* Packing.  A word is full when it has as many entries as it takes.        *)
LEMMA FullWord ==
  ASSUME NEW w \in Seq(Nat), Len(palette) \in Nat, Len(w) =< WordBits \div Bits
  PROVE  WordIsFull(w) <=> Len(w) = WordBits \div Bits
<1>1. PICK b \in MinBits .. MaxBits : b = Bits
  BY BitsAreEnough
<1>2. PICK e \in Nat \ {0} : e = WordBits \div b
  BY WordsTakeEntries
<1>3. b \in Nat \ {0} /\ WordBits \in Nat /\ \A n \in Nat : n * b =< WordBits <=> n =< e
  BY <1>2, WordsTakeEntries, BitsAssumption
<1>4. PICK m \in Nat : m = Len(w)
  OBVIOUS
<1>5. m * b + b = (m + 1) * b /\ m + 1 \in Nat
  BY <1>3
<1>6. (m + 1) * b \in Nat
  BY <1>3
<1>7. m * b + b > WordBits <=> ~ (m + 1 =< e)
  <2>1. (m + 1) * b =< WordBits <=> m + 1 =< e
    BY <1>3, <1>5
  <2>2. (m + 1) * b > WordBits <=> ~ ((m + 1) * b =< WordBits)
    BY <1>3, <1>6
  <2>. QED
    BY <2>1, <2>2, <1>5
<1>8. WordIsFull(w) <=> m * b + b > WordBits
  BY <1>1, <1>4 DEF WordIsFull
<1>. QED
  BY <1>1, <1>2, <1>4, <1>7, <1>8

LEMMA DivRadix ==
  ASSUME NEW W \in Nat \ {0}, NEW q \in Nat, NEW r \in 0 .. W - 1
  PROVE  (q * W + r) \div W = q
OBVIOUS

(* Where entry i is, when the words before the last have e entries.         *)
LEMMA EntryPlace ==
  ASSUME NEW e \in Nat \ {0}, NEW l \in Nat, NEW m \in 0 .. e - 1,
         NEW i \in 0 .. l * e + m
  PROVE  /\ i \div e \in 0 .. l /\ i % e \in 0 .. e - 1
         /\ i = (i \div e) * e + (i % e)
         /\ i \div e = l => i % e =< m
<1>. DEFINE q == i \div e
            r == i % e
<1>1. i \in Int /\ l * e \in Nat
  <2>1. l * e \in Nat
    OBVIOUS
  <2>. QED
    BY <2>1
<1>2. q \in Int /\ r \in 0 .. e - 1 /\ e * q + r = i
  BY <1>1, DivMod
<1>. HIDE DEF q, r
<1>3. e * q = q * e
  BY <1>2
<1>4. q >= 0
  <2>1. CASE q =< -1
    <3>1. q * e =< (-1) * e
      BY <2>1, <1>2
    <3>. QED
      BY <3>1, <1>2, <1>3
  <2>. QED
    BY <2>1, <1>2
<1>5. q =< l
  <2>1. CASE q >= l + 1
    <3>1. q * e >= (l + 1) * e
      BY <2>1, <1>2
    <3>2. (l + 1) * e = l * e + e
      OBVIOUS
    <3>. QED
      BY <3>1, <3>2, <1>1, <1>2, <1>3
  <2>. QED
    BY <2>1, <1>2
<1>6. q = l => r =< m
  BY <1>1, <1>2, <1>3
<1>. QED
  BY <1>2, <1>3, <1>4, <1>5, <1>6 DEF q, r

(* What is packed with one index more.                                      *)
MorePacked(e, b, filled) ==
  /\ filled \in Seq(Nat) /\ Len(filled) = Len(word) + 1
  /\ \A j \in 1 .. Len(filled) : filled[j] = indices[Len(longs) * e + j] % 2 ^ b
  /\ packed + 1 = Len(longs) * e + Len(filled) /\ Len(filled) =< e
  /\ Append(longs, filled) \in Seq(Seq(Nat)) /\ Append(longs, filled) # longs
  /\ Len(Append(longs, filled)) = Len(longs) + 1
  /\ \A k \in 1 .. Len(longs) : Append(longs, filled)[k] = longs[k]
  /\ Append(longs, filled)[Len(longs) + 1] = filled

LEMMA OneMorePacked ==
  ASSUME StreamInv, pc = "pack",
         NEW b, b = Bits, NEW e, e = WordBits \div b,
         NEW filled, filled = Append(word, indices[packed + 1] % 2 ^ b)
  PROVE  MorePacked(e, b, filled)
<1>1. /\ Len(palette) \in Nat /\ indices \in Seq(0 .. IndexMod - 1)
      /\ longs \in Seq(Seq(Nat)) /\ word \in Seq(Nat) /\ packed \in 0 .. Cells
  BY DEF StreamInv, StreamTypeOK
<1>2. b \in MinBits .. MaxBits /\ e \in Nat \ {0} /\ 2 ^ b \in Nat \ {0} /\ IndexMod \in Nat \ {0}
  <2>1. b \in MinBits .. MaxBits
    BY <1>1, BitsAreEnough
  <2>. QED
    BY <2>1, WordsTakeEntries, BitsAssumption
<1>3. PackedInv(e, b) /\ Len(indices) = Cells
  BY DEF StreamInv, PlaceInv
<1>4. PICK l \in Nat, m \in Nat : l = Len(longs) /\ m = Len(word)
  BY <1>1
<1>5. packed < Cells /\ packed = l * e + m /\ m < e /\ l * e \in Nat
  BY <1>2, <1>3, <1>4, SMTT(40) DEF PackedInv
<1>6. indices[packed + 1] \in Nat
  <2>1. packed + 1 \in 1 .. Len(indices)
    <3>. PICK p \in Nat, n \in Nat : p = packed /\ n = Len(indices) /\ n = Cells /\ p < n
      BY <1>1, <1>3, <1>5, CellsArePositive
    <3>. QED
      OBVIOUS
  <2>. QED
    BY <1>1, <2>1, IndexIsNat
<1>7. PICK x \in Nat : x = indices[packed + 1] % 2 ^ b
  <2>1. PICK c \in Nat \ {0} : c = 2 ^ b
    BY <1>2
  <2>2. PICK a \in Int : a = indices[packed + 1]
    BY <1>6
  <2>3. a % c \in 0 .. c - 1
    BY <2>1, <2>2, DivMod
  <2>. QED
    BY <2>1, <2>2, <2>3
<1>8. /\ filled \in Seq(Nat) /\ Len(filled) = m + 1 /\ filled[m + 1] = x
      /\ \A j \in 1 .. m : filled[j] = word[j]
  BY <1>1, <1>4, <1>7
<1>9. packed + 1 = l * e + (m + 1) /\ m + 1 =< e
  BY <1>2, <1>5, SMTT(40)
<1>10. \A j \in 1 .. m + 1 : filled[j] = indices[l * e + j] % 2 ^ b
  <2>. SUFFICES ASSUME NEW j \in 1 .. m + 1
                PROVE  filled[j] = indices[l * e + j] % 2 ^ b
    OBVIOUS
  <2>1. CASE j = m + 1
    BY <2>1, <1>7, <1>8, <1>9
  <2>2. CASE j \in 1 .. m
    BY <2>2, <1>3, <1>4, <1>8 DEF PackedInv
  <2>3. j = m + 1 \/ j \in 1 .. m
    BY <1>4
  <2>. QED
    BY <2>1, <2>2, <2>3
<1>11. /\ Append(longs, filled) \in Seq(Seq(Nat))
       /\ Len(Append(longs, filled)) = l + 1
       /\ \A k \in 1 .. l : Append(longs, filled)[k] = longs[k]
       /\ Append(longs, filled)[l + 1] = filled
  BY <1>1, <1>4, <1>8
<1>12. Append(longs, filled) # longs
  BY <1>4, <1>11
<1>. QED
  BY <1>4, <1>8, <1>9, <1>10, <1>11, <1>12 DEF MorePacked

(* One index is packed and the section goes on.                             *)
LEMMA PackOnStep ==
  ASSUME StreamInv, PackIndex, packed + 1 # Cells
  PROVE  StreamInv'
<1>1. Len(palette) \in Nat /\ packed \in 0 .. Cells
  BY DEF StreamInv, StreamTypeOK
<1>2. PICK b \in MinBits .. MaxBits : b = Bits
  BY <1>1, BitsAreEnough
<1>3. PICK e \in Nat \ {0} : e = WordBits \div b
  BY WordsTakeEntries
<1>4. PICK filled : filled = Append(word, indices[packed + 1] % 2 ^ b)
  OBVIOUS
<1>5. /\ pc = "pack" /\ packed' = packed + 1 /\ UNCHANGED <<pc, sent>>
      /\ UNCHANGED <<column, count, palette, indices, held>>
      /\ longs' = IF WordIsFull(filled) THEN Append(longs, filled) ELSE longs
      /\ word' = IF longs' = longs THEN filled ELSE <<>>
  BY <1>2, <1>4 DEF PackIndex
<1>6. /\ filled \in Seq(Nat) /\ Len(filled) = Len(word) + 1
      /\ \A j \in 1 .. Len(filled) : filled[j] = indices[Len(longs) * e + j] % 2 ^ b
      /\ packed + 1 = Len(longs) * e + Len(filled) /\ Len(filled) =< e
      /\ Append(longs, filled) \in Seq(Seq(Nat)) /\ Append(longs, filled) # longs
      /\ Len(Append(longs, filled)) = Len(longs) + 1
      /\ \A k \in 1 .. Len(longs) : Append(longs, filled)[k] = longs[k]
      /\ Append(longs, filled)[Len(longs) + 1] = filled
  <2>1. pc = "pack"
    BY <1>5
  <2>2. MorePacked(e, b, filled)
    BY <2>1, <1>2, <1>3, <1>4, OneMorePacked
  <2>. QED
    BY <2>2 DEF MorePacked
<1>7. WordIsFull(filled) <=> Len(filled) = e
  BY <1>1, <1>2, <1>3, <1>6, FullWord
<1>8. PackedInv(e, b)
  BY <1>2, <1>3, <1>5 DEF StreamInv
<1>9. PICK l \in Nat, m \in Nat : l = Len(longs) /\ m = Len(filled)
  BY <1>6 DEF StreamInv, StreamTypeOK
<1>10. packed' < Cells /\ packed' \in 0 .. Cells
  BY <1>1, <1>5, <1>8, CellsArePositive DEF PackedInv
<1>11. longs' \in Seq(Seq(Nat)) /\ word' \in Seq(Nat)
  BY <1>5, <1>6 DEF StreamInv, StreamTypeOK
<1>12. /\ packed' = Len(longs') * e + Len(word') /\ Len(word') < e
       /\ \A k \in 1 .. Len(longs') :
            /\ Len(longs'[k]) = e
            /\ \A j \in 1 .. e : longs'[k][j] = indices[(k - 1) * e + j] % 2 ^ b
       /\ \A j \in 1 .. Len(word') : word'[j] = indices[Len(longs') * e + j] % 2 ^ b
  <2>1. CASE WordIsFull(filled)
    <3>1. longs' = Append(longs, filled) /\ word' = <<>> /\ m = e
      BY <2>1, <1>5, <1>6, <1>7, <1>9
    <3>2. Len(longs') = l + 1 /\ Len(word') = 0 /\ longs'[l + 1] = filled
          /\ \A k \in 1 .. l : longs'[k] = longs[k]
      BY <3>1, <1>6, <1>9
    <3>3. packed' = (l + 1) * e + 0
      <4>1. packed' = l * e + e
        BY <3>1, <1>5, <1>6, <1>9
      <4>2. (l + 1) * e = l * e + e
        OBVIOUS
      <4>. QED
        BY <4>1, <4>2
    <3>4. ASSUME NEW k \in 1 .. l + 1
          PROVE  /\ Len(longs'[k]) = e
                 /\ \A j \in 1 .. e : longs'[k][j] = indices[(k - 1) * e + j] % 2 ^ b
      <4>1. CASE k \in 1 .. l
        BY <4>1, <3>2, <1>8, <1>9 DEF PackedInv
      <4>2. CASE k = l + 1
        <5>1. k - 1 = l /\ longs'[k] = filled
          BY <4>2, <3>2
        <5>. QED
          BY <5>1, <3>1, <1>6, <1>9
      <4>. QED
        BY <4>1, <4>2, <1>9
    <3>. QED
      BY <3>2, <3>3, <3>4, SMTT(40)
  <2>2. CASE ~ WordIsFull(filled)
    <3>1. longs' = longs /\ word' = filled
      BY <2>2, <1>5
    <3>2. m < e
      BY <2>2, <1>6, <1>7, <1>9
    <3>3. packed' = Len(longs') * e + Len(word')
      BY <3>1, <1>5, <1>6
    <3>4. \A k \in 1 .. Len(longs') :
            /\ Len(longs'[k]) = e
            /\ \A j \in 1 .. e : longs'[k][j] = indices[(k - 1) * e + j] % 2 ^ b
      BY <3>1, <1>8 DEF PackedInv
    <3>5. \A j \in 1 .. Len(word') : word'[j] = indices[Len(longs') * e + j] % 2 ^ b
      BY <3>1, <1>6
    <3>. QED
      BY <3>1, <3>2, <3>3, <3>4, <3>5, <1>9
  <2>. QED
    BY <2>1, <2>2
<1>13. PackedInv(WordBits \div Bits, Bits)'
  <2>1. Bits' = b
    BY <1>2, <1>5 DEF Bits
  <2>. QED
    BY <2>1, <1>3, <1>5, <1>10, <1>12, SMTT(40) DEF PackedInv
<1>14. pc' = "pack"
  BY <1>5
<1>15. ColumnTypeOK' /\ HeldInv' /\ StreamedWasThere' /\ WordsAsAnnounced'
  BY <1>5, <1>14, NothingSent
<1>16. StreamTypeOK'
  BY <1>5, <1>10, <1>11, <1>15 DEF StreamInv, StreamTypeOK
<1>17. PlaceInv' /\ IndicesInv'
  BY <1>5, <1>14 DEF StreamInv, PlaceInv, IndicesInv, section
<1>. QED
  BY <1>13, <1>15, <1>16, <1>17 DEF StreamInv

(* The last index is packed: what was sent decodes to the states that were  *)
(* read, and its words are as many as were announced.                       *)
LEMMA PackLastStep ==
  ASSUME StreamInv, PackIndex, packed + 1 = Cells
  PROVE  StreamInv'
<1>1. Len(palette) \in Nat /\ packed \in 0 .. Cells /\ indices \in Seq(0 .. IndexMod - 1)
  BY DEF StreamInv, StreamTypeOK
<1>2. PICK b \in MinBits .. MaxBits : b = Bits
  BY <1>1, BitsAreEnough
<1>3. PICK e \in Nat \ {0} : e = WordBits \div b
  BY WordsTakeEntries
<1>4. PICK filled : filled = Append(word, indices[packed + 1] % 2 ^ b)
  OBVIOUS
<1>5. PICK words : words = Append(longs, filled)
  OBVIOUS
<1>6. PICK data : data = SectionData(b, palette, NumLongs(b), words)
  OBVIOUS
<1>7. /\ pc = "pack" /\ packed' = packed + 1 /\ Written(data)
      /\ UNCHANGED <<column, count, palette, indices, held>>
      /\ longs' = words
      /\ word' = IF words = longs THEN filled ELSE <<>>
  BY <1>2, <1>4, <1>5, <1>6 DEF PackIndex
<1>8. /\ filled \in Seq(Nat) /\ Len(filled) = Len(word) + 1
      /\ \A j \in 1 .. Len(filled) : filled[j] = indices[Len(longs) * e + j] % 2 ^ b
      /\ packed + 1 = Len(longs) * e + Len(filled) /\ Len(filled) =< e
      /\ words \in Seq(Seq(Nat)) /\ words # longs
      /\ Len(words) = Len(longs) + 1
      /\ \A k \in 1 .. Len(longs) : words[k] = longs[k]
      /\ words[Len(longs) + 1] = filled
  <2>1. pc = "pack"
    BY <1>7
  <2>2. MorePacked(e, b, filled)
    BY <2>1, <1>2, <1>3, <1>4, OneMorePacked
  <2>. QED
    BY <2>2, <1>5 DEF MorePacked
<1>9. PackedInv(e, b) /\ section < Sections /\ Len(indices) = Cells
  BY <1>2, <1>3, <1>7 DEF StreamInv, PlaceInv
<1>10. PICK l \in Nat, m \in 0 .. e - 1 : l = Len(longs) /\ m = Len(word)
  BY <1>9 DEF StreamInv, StreamTypeOK, PackedInv
<1>11. /\ Cells = l * e + (m + 1) /\ Len(filled) = m + 1 /\ Len(words) = l + 1
       /\ l * e \in Nat
  BY <1>8, <1>10
<1>12. /\ words[l + 1] = filled
       /\ \A k \in 1 .. l :
            /\ words[k] = longs[k] /\ Len(words[k]) = e
            /\ \A j \in 1 .. e : words[k][j] = indices[(k - 1) * e + j] % 2 ^ b
  <2>1. \A k \in 1 .. Len(longs) :
          /\ Len(longs[k]) = e
          /\ \A j \in 1 .. e : longs[k][j] = indices[(k - 1) * e + j] % 2 ^ b
    BY <1>9 DEF PackedInv
  <2>2. words[l + 1] = filled
    BY <1>8, <1>10
  <2>3. ASSUME NEW k \in 1 .. l
        PROVE  /\ words[k] = longs[k] /\ Len(words[k]) = e
               /\ \A j \in 1 .. e : words[k][j] = indices[(k - 1) * e + j] % 2 ^ b
    <3>1. words[k] = longs[k]
      BY <1>8, <1>10
    <3>2. /\ Len(longs[k]) = e
          /\ \A j \in 1 .. e : longs[k][j] = indices[(k - 1) * e + j] % 2 ^ b
      BY <2>1, <1>10
    <3>. QED
      BY <3>1, <3>2
  <2>. QED
    BY <2>2, <2>3
<1>13. NumLongs(b) = l + 1
  <2>1. NumLongs(b) = (Cells + e - 1) \div e
    BY <1>3 DEF NumLongs
  <2>2. (l + 1) * e = l * e + e
    OBVIOUS
  <2>3. Cells + e - 1 = (l + 1) * e + m
    BY <1>11, <2>2
  <2>4. ((l + 1) * e + m) \div e = l + 1
    BY DivRadix
  <2>. QED
    BY <2>1, <2>3, <2>4
<1>14. \A k \in 1 .. l + 1 : Len(words[k]) \in Nat /\ Len(words[k]) =< e
  <2>. SUFFICES ASSUME NEW k \in 1 .. l + 1 PROVE Len(words[k]) \in Nat /\ Len(words[k]) =< e
    OBVIOUS
  <2>1. CASE k \in 1 .. l
    BY <2>1, <1>12
  <2>2. CASE k = l + 1
    BY <2>2, <1>8, <1>10, <1>11, <1>12
  <2>. QED
    BY <2>1, <2>2, <1>10
<1>15. \A k \in 1 .. l + 1 : Len(words[k]) * b =< WordBits
  BY <1>3, <1>14, WordsTakeEntries
<1>16. /\ data.bits = b /\ data.palette = palette /\ data.longs = words
       /\ data.announced = l + 1
  BY <1>6, <1>13 DEF SectionData
<1>17. data \in [count : Nat, bits : Nat, palette : Seq(States), announced : Nat,
                 longs : Seq(Seq(Nat))]
  <2>1. b \in Nat /\ NumLongs(b) \in Nat
    BY <1>13, WordsTakeEntries
  <2>2. count \in Nat /\ palette \in Seq(States)
    BY DEF StreamInv, StreamTypeOK
  <2>. QED
    BY <1>6, <1>8, <2>1, <2>2 DEF SectionData
<1>18. ASSUME NEW i \in CellIds
       PROVE  words[(i \div e) + 1][(i % e) + 1] = indices[i + 1] % 2 ^ b
  <2>1. i \in 0 .. l * e + m
    BY <1>11 DEF CellIds
  <2>2. PICK q \in 0 .. l, r \in 0 .. e - 1 :
          q = i \div e /\ r = i % e /\ i = q * e + r /\ (q = l => r =< m)
    BY <2>1, EntryPlace
  <2>3. CASE q = l
    <3>1. words[q + 1] = filled /\ r + 1 \in 1 .. Len(filled)
      <4>1. r + 1 \in 1 .. m + 1
        BY <2>2, <2>3, <1>10
      <4>. QED
        BY <4>1, <2>3, <1>11, <1>12
    <3>2. filled[r + 1] = indices[l * e + (r + 1)] % 2 ^ b
      BY <3>1, <1>8, <1>10
    <3>3. l * e + (r + 1) = i + 1
      BY <2>2, <2>3, <1>11, SMTT(40)
    <3>. QED
      BY <2>2, <3>1, <3>2, <3>3
  <2>4. CASE q # l
    <3>1. q + 1 \in 1 .. l /\ r + 1 \in 1 .. e
      BY <2>2, <2>4
    <3>2. words[q + 1][r + 1] = indices[((q + 1) - 1) * e + (r + 1)] % 2 ^ b
      BY <3>1, <1>12
    <3>3. ((q + 1) - 1) * e + (r + 1) = i + 1
      <4>1. (q + 1) - 1 = q /\ q * e \in Int
        BY <2>2
      <4>. QED
        BY <4>1, <2>2
    <3>. QED
      BY <2>2, <3>2, <3>3
  <2>. QED
    BY <2>3, <2>4
<1>19. ASSUME Len(palette) =< IndexMod, NEW i \in CellIds
       PROVE  Decoded(data, i) \in held[section][i]
  <2>1. i \in Nat /\ i + 1 \in 1 .. Len(indices) /\ (i + 1) - 1 = i
    BY <1>9, CellsArePositive DEF CellIds
  <2>2. /\ indices[i + 1] < Len(palette)
        /\ palette[indices[i + 1] + 1] \in held[section][i]
    BY <1>7, <1>19, <2>1 DEF StreamInv, IndicesInv
  <2>3. PICK x \in Nat : x = indices[i + 1]
    <3>1. IndexMod \in Nat \ {0}
      BY BitsAssumption
    <3>. QED
      BY <1>1, <2>1, <3>1
  <2>4. PICK c \in Nat \ {0} : c = 2 ^ b /\ Len(palette) =< c
    BY <1>1, <1>2, <1>19, BitsAreEnough, WordsTakeEntries
  <2>5. x \in 0 .. c - 1
    BY <1>1, <2>2, <2>3, <2>4
  <2>6. x % c = x
    BY <2>5, ModSmall
  <2>7. words[(i \div e) + 1][(i % e) + 1] = x
    BY <1>18, <2>3, <2>4, <2>6
  <2>8. b # 0
    BY WordsTakeEntries
  <2>9. Decoded(data, i) = palette[x + 1]
    BY <1>3, <1>16, <2>7, <2>8 DEF Decoded
  <2>. QED
    BY <2>2, <2>3, <2>9
<1>20. /\ ColumnTypeOK' /\ HeldInv' /\ StreamedWasThere' /\ WordsAsAnnounced'
       /\ sent' \in Seq([count : Nat, bits : Nat, palette : Seq(States), announced : Nat,
                         longs : Seq(Seq(Nat))])
       /\ Len(sent') =< Sections /\ pc' = "count" /\ IndicesInv' /\ PlaceInv'
  <2>1. Len(data.palette) =< IndexMod =>
          \A i \in CellIds : Decoded(data, i) \in held[section][i]
    BY <1>16, <1>19
  <2>2. Len(data.longs) = data.announced
    BY <1>11, <1>16
  <2>3. \A k \in 1 .. data.announced : Len(data.longs[k]) * data.bits =< WordBits
    BY <1>15, <1>16
  <2>4. pc # "idle" /\ UNCHANGED <<column, held>>
    BY <1>7
  <2>. QED
    BY <1>7, <1>9, <1>17, <2>1, <2>2, <2>3, <2>4, SectionSent
<1>21. StreamTypeOK'
  <2>1. packed' \in 0 .. Cells
    BY <1>7, CellsArePositive
  <2>2. longs' \in Seq(Seq(Nat)) /\ word' \in Seq(Nat)
    BY <1>7, <1>8
  <2>. QED
    BY <1>7, <1>20, <2>1, <2>2 DEF StreamInv, StreamTypeOK
<1>. QED
  BY <1>20, <1>21 DEF StreamInv

-------------------------------------------------------------------------------
(* The streamer and the column: every step of the serializer leaves the     *)
(* column as it is, and every other one is a step of the column.            *)
LEMMA SerializeLeavesColumn ==
  ASSUME Serialize
  PROVE  UNCHANGED column
BY DEF Serialize, Begin, WriteCount, Branch, ReadBlock, WriteSingle, StartPacking, PackIndex

LEMMA StreamStepIsColumn ==
  ASSUME [StreamNext]_svars
  PROVE  [ColumnNext]_column
<1>1. CASE Serialize
  BY <1>1, SerializeLeavesColumn
<1>2. ASSUME NEW t \in Threads, Writer(t)
      PROVE  ColumnNext
  BY <1>2 DEF Writer, ColumnNext
<1>3. CASE UNCHANGED svars
  BY <1>3 DEF svars
<1>. QED
  BY <1>1, <1>2, <1>3 DEF StreamNext

LEMMA InitIsStream == StreamInit => StreamInv
<1>. SUFFICES ASSUME StreamInit PROVE StreamInv
  OBVIOUS
<1>1. /\ ColumnInit /\ pc = "idle" /\ count = 0 /\ palette = <<>> /\ indices = <<>>
      /\ longs = <<>> /\ word = <<>> /\ packed = 0 /\ sent = <<>>
      /\ held = [s \in SectionIds |-> [i \in CellIds |-> {}]]
  BY DEF StreamInit
<1>2. ColumnTypeOK
  BY <1>1, InitIsColumn DEF ColumnInv
<1>3. StreamTypeOK
  BY <1>1, <1>2, SizeAssumption, CellsArePositive DEF StreamTypeOK
<1>4. PlaceInv /\ HeldInv /\ IndicesInv /\ StreamedWasThere /\ WordsAsAnnounced
  BY <1>1 DEF PlaceInv, HeldInv, IndicesInv, StreamedWasThere, WordsAsAnnounced
<1>. QED
  BY <1>1, <1>3, <1>4 DEF StreamInv

LEMMA StreamStands ==
  ASSUME StreamInv, ColumnTypeOK', UNCHANGED svars
  PROVE  StreamInv'
<1>1. /\ blocks_' = blocks_ /\ chunk_mutex_' = chunk_mutex_ /\ call' = call
      /\ non_air_count_' = non_air_count_ /\ held' = held
      /\ pc' = pc /\ count' = count /\ palette' = palette /\ indices' = indices
      /\ longs' = longs /\ word' = word /\ packed' = packed /\ sent' = sent
  BY DEF svars, column, serializer
<1>2. HeldInv'
  BY <1>1 DEF StreamInv, HeldInv, Present
<1>3. Bits' = Bits
  BY <1>1 DEF Bits
<1>4. StreamTypeOK'
  BY <1>1 DEF StreamInv, StreamTypeOK
<1>5. PlaceInv' /\ IndicesInv'
  BY <1>1 DEF StreamInv, PlaceInv, IndicesInv, section
<1>6. pc' = "pack" => PackedInv(WordBits \div Bits, Bits)'
  BY <1>1, <1>3 DEF StreamInv, PackedInv
<1>7. StreamedWasThere' /\ WordsAsAnnounced'
  BY <1>1 DEF StreamInv, StreamedWasThere, WordsAsAnnounced, Decoded
<1>. QED
  BY <1>2, <1>4, <1>5, <1>6, <1>7 DEF StreamInv

LEMMA StreamStep ==
  ASSUME ColumnInv, StreamInv, [StreamNext]_svars
  PROVE  ColumnInv' /\ StreamInv'
<1>1. ColumnInv'
  BY StreamStepIsColumn, StepKeepsColumn
<1>2. ColumnTypeOK'
  BY <1>1 DEF ColumnInv
<1>3. CASE Serialize
  BY <1>1, <1>3, BeginStep, WriteCountStep, BranchStep, ReadBlockStep, WriteSingleStep,
     StartPackingStep, PackOnStep, PackLastStep DEF Serialize
<1>4. ASSUME NEW t \in Threads, Writer(t)
      PROVE  StreamInv'
  BY <1>2, <1>4, WitnessedStep DEF Writer
<1>5. CASE UNCHANGED svars
  BY <1>1, <1>2, <1>5, StreamStands
<1>. QED
  BY <1>1, <1>3, <1>4, <1>5 DEF StreamNext

(* The serializer and the threads that write, in any order of their steps.  *)
THEOREM StreamInvariant == StreamSpec => [](ColumnInv /\ StreamInv)
<1>1. StreamInit => ColumnInv /\ StreamInv
  BY InitIsColumn, InitIsStream DEF StreamInit
<1>2. ColumnInv /\ StreamInv /\ [StreamNext]_svars => ColumnInv' /\ StreamInv'
  BY StreamStep
<1>. QED
  BY <1>1, <1>2, PTL DEF StreamSpec

THEOREM StreamIsAColumn == StreamSpec => ColumnSpec
<1>1. StreamInit => ColumnInit
  BY DEF StreamInit
<1>2. [StreamNext]_svars => [ColumnNext]_column
  BY StreamStepIsColumn
<1>. QED
  BY <1>1, <1>2, PTL DEF StreamSpec, ColumnSpec

-------------------------------------------------------------------------------
(* The world: nobody serializes before the chunk is generated, so that a    *)
(* step of the generator has nothing to be remembered.                      *)
GeneratedInv ==
  /\ generated \in Nat
  /\ pc # "idle" => generated = Blocks

LEMMA LayersAreSet ==
  ASSUME GeneratedInv
  PROVE  /\ LayerAt(generated) \in Coordinate
         /\ Layers[(generated % Len(Layers)) + 1] \in States
<1>1. Layers \in Seq(States) /\ Len(Layers) \in Nat \ {0}
  BY WorldAssumption
<1>2. PICK l \in Nat \ {0} : l = Len(Layers)
  BY <1>1
<1>3. Width * l \in Nat \ {0}
  BY SizeAssumption
<1>4. PICK n \in Nat : n = generated
  BY DEF GeneratedInv
<1>5. n \div (Width * l) \in Int /\ n \div l \in Int /\ n % l \in 0 .. l - 1
  <2>1. n \in Int
    OBVIOUS
  <2>2. PICK m \in Nat \ {0} : m = Width * l
    BY <1>3
  <2>3. n \div m \in Int
    BY <2>1, DivMod
  <2>4. n \div l \in Int /\ n % l \in 0 .. l - 1
    BY <2>1, DivMod
  <2>. QED
    BY <2>2, <2>3, <2>4
<1>6. (n \div l) % Width \in Int
  BY <1>5, SizeAssumption, DivMod
<1>7. LayerAt(generated) \in Coordinate
  BY <1>2, <1>4, <1>5, <1>6 DEF LayerAt, Coordinate
<1>8. Layers[(n % l) + 1] \in States
  BY <1>1, <1>2, <1>5
<1>. QED
  BY <1>2, <1>4, <1>7, <1>8

LEMMA WorldStepIsStream ==
  ASSUME GeneratedInv, [WorldNext]_wvars
  PROVE  [StreamNext]_svars /\ GeneratedInv'
<1>1. CASE Spawn
  BY <1>1 DEF Spawn, svars, serializer, GeneratedInv
<1>2. CASE Generate
  <2>1. generated # Blocks
    <3>1. Len(Layers) \in Nat
      BY WorldAssumption
    <3>2. Width * Width \in Nat
      BY SizeAssumption
    <3>3. Blocks \in Nat
      BY <3>1, <3>2 DEF Blocks
    <3>. QED
      BY <1>2, <3>3 DEF Generate, GeneratedInv
  <2>2. pc = "idle"
    BY <2>1 DEF GeneratedInv
  <2>3. SetLocks(Generator, LayerAt(generated), Layers[(generated % Len(Layers)) + 1])
    BY <1>2 DEF Generate
  <2>4. Writer(Generator)
    BY <1>2, <2>2, <2>3, LayersAreSet DEF Writer, Generate, Witnessed
  <2>5. GeneratedInv'
    BY <1>2, <2>2 DEF Generate, GeneratedInv, serializer
  <2>. QED
    BY <2>4, <2>5, WorldAssumption DEF StreamNext
<1>3. ASSUME NEW t \in Threads, SetGoesOn(t)
      PROVE  StreamNext /\ GeneratedInv'
  BY <1>3 DEF SetGoesOn, StreamNext, Writer, GeneratedInv, serializer, Blocks
<1>4. ASSUME NEW t \in Others, OtherSets(t)
      PROVE  StreamNext /\ GeneratedInv'
  <2>1. PICK e \in Edits : SetLocks(t, e.at, e.state)
    BY <1>4 DEF OtherSets
  <2>2. e.at \in Coordinate /\ e.state \in States /\ t \in Threads
    BY WorldAssumption DEF Others
  <2>3. Writer(t)
    BY <1>4, <2>1, <2>2 DEF OtherSets, Writer
  <2>. QED
    BY <1>4, <2>2, <2>3 DEF OtherSets, StreamNext, GeneratedInv, serializer, Blocks
<1>5. CASE Stream
  BY <1>5 DEF Stream, StreamNext, GeneratedInv, Generated, Blocks
<1>6. CASE UNCHANGED wvars
  BY <1>6 DEF wvars, svars, serializer, GeneratedInv, Blocks
<1>. QED
  BY <1>1, <1>2, <1>3, <1>4, <1>5, <1>6 DEF WorldNext

(* The generator and the threads beside it are threads of the streamer, and *)
(* of the column.                                                           *)
THEOREM WorldIsAStream == WorldSpec => StreamSpec
<1>1. WorldInit => StreamInit /\ GeneratedInv
  BY DEF WorldInit, StreamInit, GeneratedInv
<1>2. GeneratedInv /\ [WorldNext]_wvars => [StreamNext]_svars /\ GeneratedInv'
  BY WorldStepIsStream
<1>. QED
  BY <1>1, <1>2, PTL DEF WorldSpec, StreamSpec

(* The count of a section is right whenever nobody is in set_block.         *)
THEOREM CountIsRightHolds == WorldSpec => []CountIsRight
BY WorldIsAStream, StreamInvariant, CountsAreRight, PTL

(* The column of the world is a store of places: set_block changes the one  *)
(* it is given, at one moment, whatever the coordinates.                    *)
THEOREM WorldImplementsStore == WorldSpec => ImplementsStore
BY WorldIsAStream, StreamIsAColumn, ColumnImplementsStore, PTL

(* The variables of the column and of the serializer have their types.      *)
THEOREM StreamTypeCorrect == WorldSpec => []StreamTypeOK
<1>1. StreamInv => StreamTypeOK
  BY DEF StreamInv
<1>. QED
  BY <1>1, WorldIsAStream, StreamInvariant, PTL

(* The client decodes every block to a state that block had, or was being   *)
(* given, while its chunk was serialized.                                   *)
THEOREM StreamedWasThereHolds == WorldSpec => []StreamedWasThere
<1>1. StreamInv => StreamedWasThere
  BY DEF StreamInv
<1>. QED
  BY <1>1, WorldIsAStream, StreamInvariant, PTL

(* The words of a section are as many as announced, and not overfull.       *)
THEOREM WordsAsAnnouncedHolds == WorldSpec => []WordsAsAnnounced
<1>1. StreamInv => WordsAsAnnounced
  BY DEF StreamInv
<1>. QED
  BY <1>1, WorldIsAStream, StreamInvariant, PTL

-------------------------------------------------------------------------------
(***************************************************************************)
(* The spawn point.  A palette lists states its section may hold, each      *)
(* once, so that an index tells them apart; the cell of the feet is never   *)
(* set; and that of the ground only by the generator, which has set it      *)
(* before the first section is begun.                                       *)
(***************************************************************************)
PaletteOf(n, q) ==
  /\ \A i, j \in 1 .. Len(q) : q[i] = q[j] => i = j
  /\ \A i \in 1 .. Len(q) : q[i] \in StatesOf(n)

KindsInv ==
  /\ \A s \in SectionIds, i \in CellIds : blocks_[s][i] \in StatesOf(s)
  /\ \A t \in Threads : t = chunk_mutex_ => call[t].state \in StatesOf(call[t].section)

PalettesInv ==
  /\ pc \in {"read", "write", "pack"} => PaletteOf(section, palette)
  /\ \A n \in 1 .. Len(sent) : PaletteOf(n - 1, sent[n].palette)

Top == Layers[Len(Layers)]
BlockAt(c)   == blocks_[SectionOf(c)][IndexOf(c)]
HeldAt(c)    == held[SectionOf(c)][IndexOf(c)]
CallAt(t, c) == t = chunk_mutex_ /\ call[t].section = SectionOf(c) /\ call[t].cell = IndexOf(c)

(* What the two cells show to who begins to serialize. *)
SpotsShow ==
  /\ Present(SectionOf(Feet), IndexOf(Feet)) \subseteq {Air}
  /\ Present(SectionOf(Ground), IndexOf(Ground)) \subseteq {Top}

CallsInv ==
  \A t \in Threads :
    /\ ~ CallAt(t, Feet)
    /\ CallAt(t, Ground) => t = Generator /\ call[t].state = Top

GroundInv ==
  /\ BlockAt(Feet) = Air
  /\ generated >= Len(Layers) =>
       BlockAt(Ground) = Top \/ (CallAt(Generator, Ground) /\ "block" \in call[Generator].todo)

SpotsHeld ==
  pc # "idle" => Generated /\ HeldAt(Feet) \subseteq {Air} /\ HeldAt(Ground) \subseteq {Top}

SpawnInv ==
  /\ KindsInv
  /\ PalettesInv
  /\ Undisturbed => CallsInv /\ GroundInv /\ SpotsHeld

(* Each of the two cells is one of a section. *)
LEMMA SpotsAreCells ==
  ASSUME NEW c \in {Feet, Ground}
  PROVE  c \in Coordinate /\ InBounds(c) /\ SectionOf(c) \in SectionIds /\ IndexOf(c) \in CellIds
<1>1. Len(Layers) \in Nat \ {0}
  BY WorldAssumption
<1>2. c \in Coordinate /\ InBounds(c)
  BY <1>1, SpawnAssumption DEF Feet, Ground, AtSpawn, Coordinate
<1>. QED
  BY <1>2, SectionInRange, IndexByDigits

(* Coordinates of one cell are of one height. *)
LEMMA CellsHaveHeight ==
  ASSUME NEW c \in Coordinate, NEW d \in Coordinate, InBounds(c), InBounds(d),
         SectionOf(c) = SectionOf(d), IndexOf(c) = IndexOf(d)
  PROVE  c.y = d.y
<1>1. PICK p \in Places : p.y = c.y /\ SectionOf(p) = SectionOf(c) /\ IndexOf(p) = IndexOf(c)
  BY PlaceOfCoordinate
<1>2. PICK q \in Places : q.y = d.y /\ SectionOf(q) = SectionOf(d) /\ IndexOf(q) = IndexOf(d)
  BY PlaceOfCoordinate
<1>3. p = q
  BY <1>1, <1>2, PlacesAreApart
<1>. QED
  BY <1>1, <1>2, <1>3

(* The n-th block of the generator is of the layer at its height. *)
LEMMA LayerHasHeight ==
  ASSUME GeneratedInv
  PROVE  \E y \in 0 .. Len(Layers) - 1 :
           /\ LayerAt(generated).y = y /\ y = generated % Len(Layers)
           /\ Layers[(generated % Len(Layers)) + 1] = Layers[y + 1]
           /\ SectionOf(LayerAt(generated)) = SectionOf(AtSpawn(y))
<1>1. PICK l \in Nat \ {0} : l = Len(Layers)
  BY WorldAssumption
<1>2. PICK n \in Nat : n = generated
  BY DEF GeneratedInv
<1>3. n % l \in 0 .. l - 1
  BY DivMod
<1>. QED
  BY <1>1, <1>2, <1>3 DEF LayerAt, SectionOf, AtSpawn

(* A sequence without repetition is no longer than the set it is taken from *)
LEMMA NoLongerThan ==
  ASSUME NEW n, NEW T, NEW q \in Seq(T), PaletteOf(n, q), IsFiniteSet(StatesOf(n))
  PROVE  Len(q) =< Cardinality(StatesOf(n))
<1>1. Len(q) \in Nat
  OBVIOUS
<1>2. q \in Injection(1 .. Len(q), StatesOf(n))
  BY DEF PaletteOf, Injection, IsInjective
<1>3. Cardinality(1 .. Len(q)) =< Cardinality(StatesOf(n))
  BY <1>2, FS_Injection
<1>4. Cardinality(1 .. Len(q)) = Len(q)
  <2>. PICK m \in Nat : m = Len(q)
    BY <1>1
  <2>1. m \in Int /\ 1 \in Int
    OBVIOUS
  <2>2. Cardinality(1 .. m) = IF 1 > m THEN 0 ELSE m - 1 + 1
    BY <2>1, FS_Interval
  <2>3. Cardinality(1 .. m) = m
    BY <2>2
  <2>. QED
    BY <2>3
<1>. QED
  BY <1>3, <1>4

-------------------------------------------------------------------------------
(* set_block of a coordinate: which states and which cells the call is of.  *)
LEMMA LocksKind ==
  ASSUME SpawnInv, ColumnInv, NEW t \in Threads, NEW c \in Coordinate, NEW s \in StatesOf(SectionOf(c)),
         SetLocks(t, c, s)
  PROVE  KindsInv'
<1>1. /\ chunk_mutex_' = t /\ blocks_' = blocks_
      /\ call'[t].section = SectionOf(c) /\ call'[t].state = s
  BY DEF SetLocks, ColumnInv, ColumnTypeOK
<1>. QED
  BY <1>1 DEF SpawnInv, KindsInv

LEMMA GenerateSpawn ==
  ASSUME SpawnInv, ColumnInv, StreamInv, GeneratedInv, Generate
  PROVE  SpawnInv'
<1>1. PICK y \in 0 .. Len(Layers) - 1 :
        /\ LayerAt(generated).y = y /\ y = generated % Len(Layers)
        /\ Layers[(generated % Len(Layers)) + 1] = Layers[y + 1]
        /\ SectionOf(LayerAt(generated)) = SectionOf(AtSpawn(y))
  BY LayerHasHeight
<1>2. PICK c \in Coordinate : c = LayerAt(generated)
  BY LayersAreSet
<1>3. /\ SetLocks(Generator, c, Layers[y + 1]) /\ InBounds(c) /\ generated' = generated + 1
      /\ generated < Blocks
      /\ UNCHANGED serializer /\ UNCHANGED held
  BY <1>1, <1>2 DEF Generate, SetLocks
<1>4. Generator \in Threads /\ Len(Layers) \in Nat \ {0} /\ generated \in Nat
  BY WorldAssumption DEF GeneratedInv
<1>5. Layers[y + 1] \in StatesOf(SectionOf(c))
  BY <1>1, <1>2 DEF StatesOf
<1>6. KindsInv'
  BY <1>3, <1>4, <1>5, LocksKind
<1>7. PalettesInv'
  BY <1>3 DEF serializer, SpawnInv, PalettesInv, section
<1>8. pc' = "idle"
  <2>1. Blocks \in Int
    BY <1>4, SizeAssumption DEF Blocks
  <2>2. pc = "idle"
    BY <2>1, <1>3, <1>4 DEF GeneratedInv
  <2>. QED
    BY <1>3, <2>2 DEF serializer
<1>9. /\ chunk_mutex_ = Nobody /\ chunk_mutex_' = Generator /\ blocks_' = blocks_
      /\ call'[Generator].section = SectionOf(c) /\ call'[Generator].cell = IndexOf(c)
      /\ call'[Generator].state = Layers[y + 1] /\ "block" \in call'[Generator].todo
  BY <1>3, <1>4 DEF SetLocks, ColumnInv, ColumnTypeOK
<1>10. ASSUME Undisturbed
       PROVE  CallsInv' /\ GroundInv'
  <2>1. \A t \in Threads : CallAt(t, Feet)' \/ CallAt(t, Ground)' => t = Generator
    BY <1>9 DEF CallAt
  <2>2. ~ CallAt(Generator, Feet)'
    <3>1. SUFFICES ASSUME SectionOf(c) = SectionOf(Feet), IndexOf(c) = IndexOf(Feet)
                   PROVE  FALSE
      BY <1>9 DEF CallAt
    <3>2. c.y = Feet.y
      BY <1>3, <3>1, SpotsAreCells, CellsHaveHeight
    <3>. QED
      BY <3>2, <1>1, <1>2, <1>4 DEF Feet, AtSpawn
  <2>3. CallAt(Generator, Ground)' => call'[Generator].state = Top
    <3>1. SUFFICES ASSUME SectionOf(c) = SectionOf(Ground), IndexOf(c) = IndexOf(Ground)
                   PROVE  Layers[y + 1] = Top
      BY <1>9 DEF CallAt
    <3>2. c.y = Ground.y
      BY <1>3, <3>1, SpotsAreCells, CellsHaveHeight
    <3>3. y = Len(Layers) - 1
      BY <3>2, <1>1, <1>2 DEF Ground, AtSpawn
    <3>. QED
      BY <3>3, <1>4 DEF Top
  <2>4. CallsInv'
    BY <2>1, <2>2, <2>3 DEF CallsInv
  <2>5. BlockAt(Feet)' = Air
    BY <1>9, <1>10 DEF SpawnInv, GroundInv, BlockAt
  <2>6. ASSUME generated' >= Len(Layers)
        PROVE  BlockAt(Ground)' = Top \/ (CallAt(Generator, Ground)' /\ "block" \in call'[Generator].todo)
    <3>1. CASE generated >= Len(Layers)
      <4>1. ~ CallAt(Generator, Ground)
        BY <1>9, <1>4, ThreadsAssumption DEF CallAt
      <4>2. BlockAt(Ground) = Top
        BY <3>1, <4>1, <1>10 DEF SpawnInv, GroundInv
      <4>. QED
        BY <4>2, <1>9 DEF BlockAt
    <3>2. CASE generated = Len(Layers) - 1
      <4>1. c = Ground
        <5>1. PICK l \in Nat \ {0} : l = Len(Layers)
          BY <1>4
        <5>2. (l - 1) % l = l - 1 /\ (l - 1) \div l = 0
          BY ModSmall, SMT
        <5>3. 0 % Width = 0
          BY SizeAssumption
        <5>4. (l - 1) \div (Width * l) = 0
          <6>1. Width * l \in Nat \ {0} /\ l - 1 < Width * l
            BY SizeAssumption, SMT
          <6>. QED
            BY <6>1
        <5>. QED
          BY <1>2, <3>2, <5>1, <5>2, <5>3, <5>4 DEF LayerAt, Ground, AtSpawn
      <4>. QED
        BY <4>1, <1>9 DEF CallAt
    <3>. QED
      BY <3>1, <3>2, <2>6, <1>3, <1>4
  <2>. QED
    BY <2>4, <2>5, <2>6 DEF GroundInv
<1>. QED
  BY <1>6, <1>7, <1>8, <1>10 DEF SpawnInv, SpotsHeld

(* When the generator is done the two cells show what they hold and nobody  *)
(* is about to set them.                                                    *)
LEMMA SpotsArePresent ==
  ColumnInv /\ GeneratedInv /\ CallsInv /\ GroundInv /\ Generated => SpotsShow
<1>. SUFFICES ASSUME ColumnInv, GeneratedInv, CallsInv, GroundInv, Generated
              PROVE  SpotsShow
  OBVIOUS
<1>1. Generator \in Threads /\ Len(Layers) \in Nat \ {0} /\ Top # Air
  BY WorldAssumption, SpawnAssumption DEF Top
<1>2. generated >= Len(Layers)
  <2>1. Width * Width >= 1 /\ Width * Width \in Nat
    BY SizeAssumption
  <2>2. PICK l \in Nat \ {0} : l = Len(Layers)
    BY <1>1
  <2>3. PICK w \in Nat : w = Width * Width /\ w >= 1
    BY <2>1
  <2>4. w * l >= l
    BY <2>2, <2>3
  <2>. QED
    BY <2>2, <2>3, <2>4 DEF Generated, Blocks
<1>3. \A t \in Threads : ~ CallAt(t, Feet) /\ ~ CallAt(t, Ground)
  <2>1. ASSUME NEW t \in Threads, CallAt(t, Ground)
        PROVE  FALSE
    <3>1. t = Generator /\ call[t].state = Top
      BY <2>1 DEF CallsInv
    <3>2. call[t].state = Air
      BY <3>1 DEF Generated, NoCall
    <3>. QED
      BY <1>1, <3>1, <3>2
  <2>. QED
    BY <2>1 DEF CallsInv
<1>4. BlockAt(Feet) = Air /\ BlockAt(Ground) = Top
  BY <1>1, <1>2, <1>3 DEF GroundInv
<1>. QED
  BY <1>3, <1>4 DEF SpotsShow, Present, BlockAt, CallAt

LEMMA SpotsStayPresent ==
  (ColumnInv /\ GeneratedInv /\ CallsInv /\ GroundInv /\ Generated => SpotsShow)'
BY SpotsArePresent, PTL

(* What a step that is remembered leaves held at the two cells.             *)
LEMMA SpotsStayHeld ==
  ASSUME SpotsHeld, Generated', ColumnInv', GeneratedInv', CallsInv', GroundInv',
         pc' = pc, Witnessed
  PROVE  SpotsHeld'
<1>. SUFFICES ASSUME pc # "idle"
              PROVE  HeldAt(Feet)' \subseteq {Air} /\ HeldAt(Ground)' \subseteq {Top}
  BY DEF SpotsHeld
<1>1. /\ Present(SectionOf(Feet), IndexOf(Feet))' \subseteq {Air}
      /\ Present(SectionOf(Ground), IndexOf(Ground))' \subseteq {Top}
  BY SpotsStayPresent DEF SpotsShow
<1>2. \A s \in SectionIds, i \in CellIds : held'[s][i] = held[s][i] \cup Present(s, i)'
  BY DEF Witnessed, Presence
<1>3. HeldAt(Feet) \subseteq {Air} /\ HeldAt(Ground) \subseteq {Top}
  BY DEF SpotsHeld
<1>4. /\ HeldAt(Feet)' = HeldAt(Feet) \cup Present(SectionOf(Feet), IndexOf(Feet))'
      /\ HeldAt(Ground)' = HeldAt(Ground) \cup Present(SectionOf(Ground), IndexOf(Ground))'
  BY <1>2, SpotsAreCells DEF HeldAt
<1>. QED
  BY <1>1, <1>3, <1>4

LEMMA OtherSetsSpawn ==
  ASSUME SpawnInv, ColumnInv, ColumnInv', GeneratedInv', NEW t \in Others, OtherSets(t)
  PROVE  SpawnInv'
<1>1. PICK e \in Edits : SetLocks(t, e.at, e.state)
  BY DEF OtherSets
<1>2. e.at \in Coordinate /\ t \in Threads /\ t # Generator
  BY WorldAssumption DEF Others
<1>3. e.state \in StatesOf(SectionOf(e.at))
  BY DEF StatesOf
<1>4. KindsInv'
  BY <1>1, <1>2, <1>3, LocksKind
<1>5. /\ pc' = pc /\ palette' = palette /\ sent' = sent /\ generated' = generated
      /\ Generated /\ Witnessed
  BY DEF OtherSets, serializer
<1>6. PalettesInv'
  BY <1>5 DEF SpawnInv, PalettesInv, section
<1>7. /\ InBounds(e.at) /\ chunk_mutex_' = t /\ blocks_' = blocks_
      /\ call'[t].section = SectionOf(e.at) /\ call'[t].cell = IndexOf(e.at)
      /\ call'[Generator] = call[Generator]
  BY <1>1, <1>2 DEF SetLocks, ColumnInv, ColumnTypeOK
<1>8. ASSUME Undisturbed
      PROVE  CallsInv' /\ GroundInv' /\ SpotsHeld'
  <2>1. ASSUME NEW c \in {Feet, Ground}, NEW u \in Threads, CallAt(u, c)'
        PROVE  FALSE
    <3>1. u = t /\ SectionOf(e.at) = SectionOf(c) /\ IndexOf(e.at) = IndexOf(c)
      BY <2>1, <1>7 DEF CallAt
    <3>2. e.at.y = c.y
      BY <3>1, <1>2, <1>7, SpotsAreCells, CellsHaveHeight
    <3>. QED
      BY <3>2, <1>8 DEF Undisturbed
  <2>2. CallsInv'
    BY <2>1 DEF CallsInv
  <2>3. GroundInv'
    <3>1. Generator \in Threads
      BY WorldAssumption
    <3>2. ~ CallAt(Generator, Ground)
      <4>1. chunk_mutex_ = Nobody
        BY <1>1 DEF SetLocks
      <4>. QED
        BY <3>1, <4>1, ThreadsAssumption DEF CallAt
    <3>. QED
      BY <1>5, <1>7, <1>8, <3>2 DEF SpawnInv, GroundInv, BlockAt
  <2>4. Generated'
    BY <1>5, <1>7 DEF Generated, Blocks
  <2>. QED
    BY <1>5, <1>8, <2>2, <2>3, <2>4, SpotsStayHeld DEF SpawnInv
<1>. QED
  BY <1>4, <1>6, <1>8 DEF SpawnInv

LEMMA SetGoesOnSpawn ==
  ASSUME SpawnInv, ColumnInv, ColumnInv', GeneratedInv', NEW t \in Threads, SetGoesOn(t)
  PROVE  SpawnInv'
<1>1. /\ pc' = pc /\ palette' = palette /\ sent' = sent /\ generated' = generated
      /\ InSetBlock(t) /\ Witnessed
  BY DEF SetGoesOn, serializer
<1>2. PalettesInv'
  BY <1>1 DEF SpawnInv, PalettesInv, section
<1>3. ColumnTypeOK /\ ColumnTypeOK' /\ Nobody \notin Threads /\ Generator \in Threads
  BY ThreadsAssumption, WorldAssumption DEF ColumnInv
<1>4. ASSUME NEW u \in Threads, u = chunk_mutex_'
      PROVE  /\ u = chunk_mutex_ /\ call'[u].section = call[u].section
             /\ call'[u].cell = call[u].cell /\ call'[u].state = call[u].state
             /\ u # t => call'[u] = call[u]
  BY <1>1, <1>3, <1>4 DEF InSetBlock, StoreCount, StoreBlock, SetReturns, ColumnTypeOK
<1>5. \/ /\ blocks_' = blocks_
         /\ \A u \in Threads : u = chunk_mutex_' => ("block" \in call[u].todo <=> "block" \in call'[u].todo)
         /\ chunk_mutex_' # chunk_mutex_ => chunk_mutex_ = t /\ call[t].todo = {}
      \/ /\ StoreBlock(t) /\ t = chunk_mutex_ /\ chunk_mutex_' = chunk_mutex_
  <2>1. CASE StoreCount(t)
    BY <2>1, <1>3 DEF StoreCount, ColumnTypeOK
  <2>2. CASE StoreBlock(t)
    BY <2>2, StoresAreOfTheHolder DEF StoreBlock
  <2>3. CASE SetReturns(t)
    BY <2>3, <1>3 DEF SetReturns
  <2>. QED
    BY <1>1, <2>1, <2>2, <2>3 DEF InSetBlock
<1>6. ASSUME StoreBlock(t), NEW s \in SectionIds, NEW i \in CellIds
      PROVE  blocks_'[s][i] = IF s = call[t].section /\ i = call[t].cell THEN call[t].state ELSE blocks_[s][i]
  BY <1>3, <1>6 DEF StoreBlock, ColumnTypeOK
<1>7. KindsInv'
  <2>1. ASSUME NEW s \in SectionIds, NEW i \in CellIds
        PROVE  blocks_'[s][i] \in StatesOf(s)
    BY <1>5, <1>6 DEF SpawnInv, KindsInv
  <2>2. ASSUME NEW u \in Threads, u = chunk_mutex_'
        PROVE  call'[u].state \in StatesOf(call'[u].section)
    BY <1>4, <2>2 DEF SpawnInv, KindsInv
  <2>. QED
    BY <2>1, <2>2 DEF KindsInv
<1>8. ASSUME Undisturbed
      PROVE  CallsInv' /\ GroundInv' /\ SpotsHeld'
  <2>0. CallsInv /\ GroundInv /\ SpotsHeld
    BY <1>8 DEF SpawnInv
  <2>1. CallsInv'
    BY <1>4, <2>0 DEF CallsInv, CallAt
  <2>2. BlockAt(Feet)' = Air
    <3>1. CASE StoreBlock(t) /\ t = chunk_mutex_
      <4>1. ~ CallAt(t, Feet)
        BY <2>0 DEF CallsInv
      <4>. QED
        BY <3>1, <4>1, <1>6, <2>0, SpotsAreCells DEF CallAt, BlockAt, GroundInv
    <3>. QED
      BY <3>1, <1>5, <2>0 DEF BlockAt, GroundInv
  <2>3. ASSUME generated' >= Len(Layers)
        PROVE  BlockAt(Ground)' = Top \/ (CallAt(Generator, Ground)' /\ "block" \in call'[Generator].todo)
    <3>1. BlockAt(Ground) = Top \/ (CallAt(Generator, Ground) /\ "block" \in call[Generator].todo)
      BY <1>1, <2>0, <2>3 DEF GroundInv
    <3>2. CASE StoreBlock(t) /\ t = chunk_mutex_
      <4>1. CASE CallAt(t, Ground)
        <5>1. call[t].state = Top
          BY <4>1, <2>0 DEF CallsInv
        <5>. QED
          BY <3>2, <4>1, <5>1, <1>6, SpotsAreCells DEF CallAt, BlockAt
      <4>2. CASE ~ CallAt(t, Ground)
        <5>1. BlockAt(Ground) = Top
          BY <3>1, <3>2, <4>2 DEF CallAt
        <5>. QED
          BY <3>2, <4>2, <5>1, <1>6, SpotsAreCells DEF CallAt, BlockAt
      <4>. QED
        BY <4>1, <4>2
    <3>3. CASE /\ blocks_' = blocks_
               /\ \A u \in Threads : u = chunk_mutex_' => ("block" \in call[u].todo <=> "block" \in call'[u].todo)
               /\ chunk_mutex_' # chunk_mutex_ => chunk_mutex_ = t /\ call[t].todo = {}
      BY <3>1, <3>3, <1>3, <1>4 DEF CallAt, BlockAt
    <3>. QED
      BY <3>2, <3>3, <1>5
  <2>4. GroundInv'
    BY <2>2, <2>3 DEF GroundInv
  <2>5. SpotsHeld'
    <3>1. CASE pc = "idle"
      <4>1. pc' = "idle"
        BY <1>1, <3>1
      <4>. QED
        BY <4>1 DEF SpotsHeld
    <3>2. CASE pc # "idle"
      <4>1. Generated
        BY <2>0, <3>2 DEF SpotsHeld
      <4>2. call'[Generator] = NoCall
        <5>1. call[Generator] = NoCall
          BY <4>1 DEF Generated
        <5>2. call[Generator].todo = {}
          BY <5>1 DEF NoCall
        <5>3. CASE StoreCount(t) \/ StoreBlock(t)
          <6>1. t # Generator
            BY <5>2, <5>3 DEF StoreCount, StoreBlock
          <6>. QED
            BY <5>1, <5>3, <6>1, <1>3 DEF StoreCount, StoreBlock, ColumnTypeOK
        <5>4. CASE SetReturns(t)
          BY <5>1, <5>4, <1>3 DEF SetReturns, ColumnTypeOK
        <5>. QED
          BY <1>1, <5>3, <5>4 DEF InSetBlock
      <4>3. Generated'
        BY <4>1, <4>2, <1>1 DEF Generated, Blocks
      <4>. QED
        BY <4>3, <1>1, <2>0, <2>1, <2>4, SpotsStayHeld
    <3>. QED
      BY <3>1, <3>2
  <2>. QED
    BY <2>1, <2>4, <2>5
<1>. QED
  BY <1>2, <1>7, <1>8 DEF SpawnInv

-------------------------------------------------------------------------------
(* The serializer: what it reads of its section goes into the palette once. *)
LEMMA AirAlone ==
  ASSUME NEW n
  PROVE  PaletteOf(n, <<Air>>)
BY DEF PaletteOf, StatesOf

LEMMA PaletteSent ==
  ASSUME StreamInv, PalettesInv, NEW data, sent' = Append(sent, data),
         PaletteOf(section, data.palette), pc' = "count"
  PROVE  PalettesInv'
<1>1. Len(sent) \in Nat
  BY DEF StreamInv, StreamTypeOK
<1>2. ASSUME NEW n \in 1 .. Len(sent')
      PROVE  PaletteOf(n - 1, sent'[n].palette)
  <2>1. CASE n \in 1 .. Len(sent)
    <3>1. sent'[n] = sent[n]
      BY <2>1, <1>1 DEF StreamInv, StreamTypeOK
    <3>. QED
      BY <2>1, <3>1 DEF PalettesInv
  <2>2. CASE n = Len(sent) + 1
    <3>1. sent'[n] = data /\ n - 1 = section
      BY <2>2, <1>1 DEF section, StreamInv, StreamTypeOK
    <3>. QED
      BY <3>1
  <2>3. n \in 1 .. Len(sent) \/ n = Len(sent) + 1
    BY <1>1 DEF StreamInv, StreamTypeOK
  <2>. QED
    BY <2>1, <2>2, <2>3
<1>. QED
  BY <1>2 DEF PalettesInv

LEMMA PaletteStep ==
  ASSUME SpawnInv, StreamInv, Serialize
  PROVE  PalettesInv'
<1>0. PalettesInv /\ KindsInv
  BY DEF SpawnInv
<1>1. CASE Begin
  BY <1>0, <1>1 DEF Begin, PalettesInv
<1>2. CASE WriteCount
  BY <1>0, <1>2 DEF WriteCount, PalettesInv
<1>3. CASE Branch
  <2>1. CASE Written(SectionData(0, <<Air>>, 0, <<>>))
    BY <1>0, <2>1, AirAlone, PaletteSent DEF Written, SectionData
  <2>2. CASE pc' = "read" /\ UNCHANGED sent
    BY <1>0, <1>3, <2>2, AirAlone DEF Branch, PalettesInv, section
  <2>. QED
    BY <1>3, <2>1, <2>2 DEF Branch
<1>4. CASE ReadBlock
  <2>1. pc = "read" /\ sent' = sent /\ PaletteOf(section, palette)
    BY <1>0, <1>4 DEF ReadBlock, PalettesInv
  <2>2. CASE palette' = palette
    BY <1>0, <2>1, <2>2 DEF PalettesInv, section
  <2>3. CASE /\ Found(blocks_[section][Len(indices)]) = {}
             /\ palette' = Append(palette, blocks_[section][Len(indices)])
    <3>1. section \in SectionIds /\ Len(indices) \in CellIds
      <4>1. Len(sent) \in Nat /\ Len(indices) \in Nat
        BY DEF StreamInv, StreamTypeOK
      <4>2. Len(sent) < Sections /\ Len(indices) < Cells
        BY <2>1 DEF StreamInv, PlaceInv, section
      <4>. QED
        BY <4>1, <4>2, SizeAssumption, CellsArePositive DEF SectionIds, CellIds, section
    <3>2. PICK s : s = blocks_[section][Len(indices)]
      OBVIOUS
    <3>3. s \in StatesOf(section)
      BY <1>0, <3>1, <3>2 DEF KindsInv
    <3>4. Len(palette) \in Nat /\ palette' = Append(palette, s) /\ \A i \in 1 .. Len(palette) : palette[i] # s
      BY <2>3, <3>2 DEF Found, StreamInv, StreamTypeOK
    <3>5. /\ Len(palette') = Len(palette) + 1 /\ palette'[Len(palette) + 1] = s
          /\ \A i \in 1 .. Len(palette) : palette'[i] = palette[i]
      BY <3>4 DEF StreamInv, StreamTypeOK
    <3>6. PaletteOf(section, palette')
      BY <2>1, <3>3, <3>4, <3>5 DEF PaletteOf
    <3>. QED
      BY <1>0, <2>1, <3>6 DEF PalettesInv, section
  <2>. QED
    BY <1>4, <2>2, <2>3 DEF ReadBlock
<1>5. CASE WriteSingle
  BY <1>0, <1>5, PaletteSent DEF WriteSingle, Written, SectionData, PalettesInv
<1>6. CASE StartPacking
  BY <1>0, <1>6 DEF StartPacking, PalettesInv, section
<1>7. CASE PackIndex
  <2>1. pc = "pack" /\ palette' = palette /\ PaletteOf(section, palette)
    BY <1>0, <1>7 DEF PackIndex, PalettesInv
  <2>2. CASE UNCHANGED <<pc, sent>>
    BY <1>0, <2>1, <2>2 DEF PalettesInv, section
  <2>3. ASSUME NEW words, Written(SectionData(Bits, palette, NumLongs(Bits), words))
        PROVE  PalettesInv'
    BY <1>0, <2>1, <2>3, PaletteSent DEF Written, SectionData
  <2>. QED
    BY <1>7, <2>2, <2>3 DEF PackIndex
<1>. QED
  BY <1>1, <1>2, <1>3, <1>4, <1>5, <1>6, <1>7 DEF Serialize

LEMMA StreamSpawn ==
  ASSUME SpawnInv, ColumnInv, StreamInv, GeneratedInv, Stream
  PROVE  SpawnInv'
<1>1. Serialize /\ Generated /\ generated' = generated /\ UNCHANGED column
  BY SerializeLeavesColumn DEF Stream
<1>2. /\ blocks_' = blocks_ /\ chunk_mutex_' = chunk_mutex_ /\ call' = call
  BY <1>1 DEF column
<1>3. PalettesInv'
  BY <1>1, PaletteStep
<1>4. KindsInv'
  BY <1>2 DEF SpawnInv, KindsInv
<1>5. ASSUME Undisturbed
      PROVE  CallsInv' /\ GroundInv' /\ SpotsHeld'
  <2>0. CallsInv /\ GroundInv /\ SpotsHeld
    BY <1>5 DEF SpawnInv
  <2>1. CallsInv' /\ GroundInv'
    BY <1>1, <1>2, <2>0 DEF CallsInv, GroundInv, CallAt, BlockAt
  <2>2. Generated'
    BY <1>1, <1>2 DEF Generated, Blocks
  <2>3. CASE Begin
    <3>1. HeldAt(Feet)' \subseteq {Air} /\ HeldAt(Ground)' \subseteq {Top}
      BY <1>1, <2>0, <2>3, SpotsArePresent, SpotsAreCells DEF SpotsShow, Begin, Presence, HeldAt
    <3>. QED
      BY <2>1, <2>2, <3>1 DEF SpotsHeld
  <2>4. CASE ~ Begin
    <3>1. held' = held /\ pc # "idle"
      BY <1>1, <2>4
      DEF Serialize, WriteCount, Branch, ReadBlock, WriteSingle, StartPacking, PackIndex
    <3>. QED
      BY <2>0, <2>1, <2>2, <3>1 DEF SpotsHeld, HeldAt
  <2>. QED
    BY <2>3, <2>4
<1>. QED
  BY <1>3, <1>4, <1>5 DEF SpawnInv

LEMMA InitIsSpawn ==
  ASSUME WorldInit
  PROVE  SpawnInv
<1>1. /\ blocks_ = [s \in SectionIds |-> [i \in CellIds |-> Air]]
      /\ chunk_mutex_ = Nobody /\ pc = "idle" /\ sent = <<>> /\ generated = 0
  BY DEF WorldInit, StreamInit, ColumnInit
<1>2. KindsInv
  BY <1>1, ThreadsAssumption DEF KindsInv, StatesOf
<1>3. PalettesInv
  BY <1>1 DEF PalettesInv
<1>4. CallsInv
  BY <1>1, ThreadsAssumption DEF CallsInv, CallAt
<1>5. GroundInv
  <2>1. Len(Layers) \in Nat \ {0}
    BY WorldAssumption
  <2>2. BlockAt(Feet) = Air
    BY <1>1, SpotsAreCells DEF BlockAt
  <2>. QED
    BY <1>1, <2>1, <2>2 DEF GroundInv
<1>. QED
  BY <1>1, <1>2, <1>3, <1>4, <1>5 DEF SpawnInv, SpotsHeld

LEMMA SpawnStands ==
  ASSUME SpawnInv, UNCHANGED <<svars, generated>>
  PROVE  SpawnInv'
<1>1. /\ blocks_' = blocks_ /\ chunk_mutex_' = chunk_mutex_ /\ call' = call
      /\ pc' = pc /\ palette' = palette /\ sent' = sent /\ held' = held /\ generated' = generated
  BY DEF svars, column, serializer
<1>2. KindsInv' /\ PalettesInv'
  BY <1>1 DEF SpawnInv, KindsInv, PalettesInv, section
<1>. QED
  BY <1>1, <1>2
  DEF SpawnInv, CallsInv, GroundInv, SpotsHeld, CallAt, BlockAt, HeldAt, Generated, Blocks

LEMMA SpawnStep ==
  ASSUME SpawnInv, ColumnInv, StreamInv, GeneratedInv, [WorldNext]_wvars
  PROVE  SpawnInv'
<1>1. ColumnInv' /\ GeneratedInv'
  BY WorldStepIsStream, StreamStepIsColumn, StepKeepsColumn
<1>2. CASE Spawn
  BY <1>2, SpawnStands DEF Spawn
<1>3. CASE Generate
  BY <1>3, GenerateSpawn
<1>4. ASSUME NEW t \in Threads, SetGoesOn(t)
      PROVE  SpawnInv'
  BY <1>1, <1>4, SetGoesOnSpawn
<1>5. ASSUME NEW t \in Others, OtherSets(t)
      PROVE  SpawnInv'
  BY <1>1, <1>5, OtherSetsSpawn
<1>6. CASE Stream
  BY <1>6, StreamSpawn
<1>7. CASE UNCHANGED wvars
  BY <1>7, SpawnStands DEF wvars
<1>. QED
  BY <1>2, <1>3, <1>4, <1>5, <1>6, <1>7 DEF WorldNext

(* What the client decodes at the two cells when the chunk is sent.         *)
LEMMA SpotsAreSent ==
  ASSUME SpawnInv, StreamInv, Len(sent) = Sections, Undisturbed, NEW c \in {Feet, Ground}
  PROVE  Streamed(c) \in HeldAt(c) /\ pc # "idle"
<1>1. PICK n \in 1 .. Len(sent) : n = SectionOf(c) + 1
  BY SpotsAreCells, SizeAssumption DEF SectionIds
<1>2. PaletteOf(SectionOf(c), sent[n].palette)
  <2>1. n - 1 = SectionOf(c)
    BY <1>1, SpotsAreCells, SizeAssumption DEF SectionIds
  <2>. QED
    BY <2>1 DEF SpawnInv, PalettesInv
<1>3. sent[n].palette \in Seq(States)
  <2>1. sent \in Seq([count : Nat, bits : Nat, palette : Seq(States), announced : Nat,
                      longs : Seq(Seq(Nat))])
    BY DEF StreamInv, StreamTypeOK
  <2>2. sent[n] \in [count : Nat, bits : Nat, palette : Seq(States), announced : Nat,
                     longs : Seq(Seq(Nat))]
    BY <2>1, ElementOf
  <2>. QED
    BY <2>2
<1>4. Len(sent[n].palette) =< Cardinality(StatesOf(SectionOf(c)))
  BY <1>2, <1>3, SpawnAssumption, NoLongerThan
<1>5. Len(sent[n].palette) =< IndexMod
  <2>1. Cardinality(StatesOf(SectionOf(c))) \in Nat /\ IndexMod \in Int /\ Len(sent[n].palette) \in Nat
    BY <1>3, SpawnAssumption, BitsAssumption, FS_CardinalityType
  <2>. QED
    BY <1>4, <2>1, SpawnAssumption
<1>6. Decoded(sent[n], IndexOf(c)) \in held[n - 1][IndexOf(c)]
  BY <1>5, SpotsAreCells DEF StreamInv, StreamedWasThere
<1>7. n - 1 = SectionOf(c)
  BY <1>1, SpotsAreCells, SizeAssumption DEF SectionIds
<1>8. pc # "idle"
  BY SizeAssumption DEF StreamInv, PlaceInv
<1>. QED
  BY <1>1, <1>6, <1>7, <1>8 DEF Streamed, HeldAt

(* Whatever other threads build elsewhere, and between whatever two reads   *)
(* of the streamer, the player is sent to ground with air above it.         *)
THEOREM SpawnIsStandableHolds == WorldSpec => []SpawnIsStandable
<1>1. WorldInit => SpawnInv /\ GeneratedInv
  BY InitIsSpawn DEF WorldInit, GeneratedInv, StreamInit
<1>2. SpawnInv /\ GeneratedInv /\ ColumnInv /\ StreamInv /\ [WorldNext]_wvars
        => SpawnInv' /\ GeneratedInv'
  BY SpawnStep, WorldStepIsStream
<1>3. SpawnInv /\ StreamInv => SpawnIsStandable
  <2>. SUFFICES ASSUME SpawnInv, StreamInv, Len(sent) = Sections, Undisturbed
                PROVE  Streamed(Feet) = Air /\ Streamed(Ground) # Air
    BY DEF SpawnIsStandable
  <2>1. /\ Streamed(Feet) \in HeldAt(Feet) /\ Streamed(Ground) \in HeldAt(Ground) /\ pc # "idle"
    BY SpotsAreSent
  <2>2. HeldAt(Feet) \subseteq {Air} /\ HeldAt(Ground) \subseteq {Top}
    BY <2>1 DEF SpawnInv, SpotsHeld
  <2>. QED
    BY <2>1, <2>2, SpawnAssumption DEF Top
<1>4. WorldSpec => [](ColumnInv /\ StreamInv)
  BY WorldIsAStream, StreamInvariant, PTL
<1>. QED
  BY <1>1, <1>2, <1>3, <1>4, PTL DEF WorldSpec

-------------------------------------------------------------------------------
(* Entities, until their counter has come round: each is numbered by its    *)
(* place, and the next number is nobody's.                                  *)
NumberedInv ==
  /\ entities_ \in Seq([id : Nat, type_id : Types])
  /\ next_id_ \in Nat
  /\ Len(entities_) < IdMod =>
       /\ \A n \in 1 .. Len(entities_) : entities_[n].id = n
       /\ next_id_ = IF Len(entities_) + 1 = IdMod THEN 0 ELSE Len(entities_) + 1

LEMMA SpawnIsNumbered ==
  ASSUME NumberedInv, NEW type \in Types, spawn_entity(type)
  PROVE  NumberedInv'
<1>1. IdMod \in Nat \ {0}
  BY IdModAssumption
<1>2. PICK l \in Nat : l = Len(entities_)
  BY DEF NumberedInv
<1>3. /\ Len(entities_') = l + 1 /\ entities_'[l + 1].id = next_id_
      /\ \A n \in 1 .. l : entities_'[n] = entities_[n]
      /\ entities_' \in Seq([id : Nat, type_id : Types])
  BY <1>2 DEF spawn_entity, NumberedInv
<1>4. next_id_' = (next_id_ + 1) % IdMod /\ next_id_' \in Nat
  <2>1. PICK a \in Int : a = next_id_ + 1
    BY DEF NumberedInv
  <2>2. a % IdMod \in 0 .. IdMod - 1
    BY <2>1, <1>1, DivMod
  <2>. QED
    BY <2>1, <2>2, <1>1 DEF spawn_entity
<1>5. ASSUME l + 1 < IdMod
      PROVE  /\ \A n \in 1 .. l + 1 : entities_'[n].id = n
             /\ next_id_' = IF l + 2 = IdMod THEN 0 ELSE l + 2
  <2>1. next_id_ = l + 1 /\ \A n \in 1 .. l : entities_[n].id = n
    BY <1>1, <1>2, <1>5 DEF NumberedInv
  <2>2. \A n \in 1 .. l + 1 : entities_'[n].id = n
    BY <1>3, <2>1
  <2>3. next_id_' = (l + 2) % IdMod
    BY <1>4, <2>1
  <2>4. CASE l + 2 = IdMod
    BY <1>1, <2>2, <2>3, <2>4
  <2>5. CASE l + 2 # IdMod
    <3>1. l + 2 \in 0 .. IdMod - 1
      BY <1>1, <1>5, <2>5
    <3>. QED
      BY <1>1, <2>2, <2>3, <2>5, <3>1, ModSmall
  <2>. QED
    BY <2>4, <2>5
<1>. QED
  BY <1>3, <1>4, <1>5 DEF NumberedInv

(* Every entity is found under the id its spawn returned, and the next one  *)
(* will be too.                                                             *)
THEOREM FoundByItsIdHolds == WorldSpec => []FoundByItsId
<1>1. WorldInit => NumberedInv
  <2>1. IdMod \in Nat \ {0}
    BY IdModAssumption
  <2>2. IdMod = 1 => 1 % IdMod = 0
    BY <2>1
  <2>3. IdMod # 1 => 1 % IdMod = 1
    BY <2>1, ModSmall
  <2>. QED
    BY <2>1, <2>2, <2>3 DEF WorldInit, EntityInit, NumberedInv
<1>2. NumberedInv /\ [WorldNext]_wvars => NumberedInv'
  <2>1. [WorldNext]_wvars => [EntityNext]_entities
    BY DEF WorldNext, wvars, Spawn, Generate, SetGoesOn, OtherSets, Stream
  <2>2. NumberedInv /\ UNCHANGED entities => NumberedInv'
    BY DEF NumberedInv, entities
  <2>. QED
    BY <2>1, <2>2, SpawnIsNumbered DEF EntityNext
<1>3. NumberedInv => FoundByItsId
  <2>. SUFFICES ASSUME NumberedInv, Len(entities_) < IdMod
                PROVE  /\ \A n \in 1 .. Len(entities_) : get_entity(entities_[n].id) = n
                       /\ get_entity(next_id_) = NotFound
    BY DEF FoundByItsId
  <2>1. PICK l \in Nat : l = Len(entities_)
    BY DEF NumberedInv
  <2>2. /\ \A n \in 1 .. l : entities_[n].id = n
        /\ next_id_ = IF l + 1 = IdMod THEN 0 ELSE l + 1
    BY <2>1 DEF NumberedInv
  <2>3. ASSUME NEW n \in 1 .. l
        PROVE  get_entity(entities_[n].id) = n
    <3>1. {k \in 1 .. Len(entities_) : entities_[k].id = entities_[n].id} = {n}
      BY <2>1, <2>2
    <3>. QED
      BY <3>1 DEF get_entity
  <2>4. {k \in 1 .. Len(entities_) : entities_[k].id = next_id_} = {}
    BY <2>1, <2>2
  <2>. QED
    BY <2>1, <2>3, <2>4 DEF get_entity
<1>. QED
  BY <1>1, <1>2, <1>3, PTL DEF WorldSpec
===============================================================================
