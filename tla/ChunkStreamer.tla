---------------------------- MODULE ChunkStreamer -----------------------------
(***************************************************************************)
(* ChunkStreamer::serialize_chunk_data                                     *)
(* (include/core/world/chunk_streamer.hpp): one section after the other,   *)
(* the count of its blocks, then the states it holds (the palette) and for *)
(* each block the index of its state in it, packed into words of 64 bits.  *)
(*                                                                         *)
(* It reads counts and blocks without the mutex of the column, so threads  *)
(* in set_block may act between any two of its reads, and between the two  *)
(* stores of a call.                                                       *)
(*                                                                         *)
(* A word is the sequence of the entries in it.  Its entry n lies at bit   *)
(* n * bits: no entry is over another, for an entry is cut to its bits.    *)
(***************************************************************************)
EXTENDS ChunkColumn, Sequences

CONSTANTS
  WordBits,      \* bits of a word, 64
  MinBits,       \* the fewest bits of an entry, 4
  MaxBits,       \* the most of them, 8
  IndexMod       \* values of the type an index is kept in, uint8_t

ASSUME BitsAssumption ==
  /\ MinBits \in Nat \ {0} /\ MaxBits \in Nat /\ WordBits \in Nat
  /\ MinBits =< MaxBits /\ MaxBits =< WordBits
  /\ \A b \in MinBits .. MaxBits : 2 ^ b \in Nat \ {0}
  /\ IndexMod = 2 ^ MaxBits

VARIABLES
  pc,          \* where serialize_section is
  count,       \* the count written for the section being serialized
  palette,
  indices,     \* block_palette_indices, of the blocks read so far
  longs,       \* the words written for the section
  word,        \* current_long
  packed,      \* how many indices are packed
  sent,        \* the sections written
  held         \* the states each block had, or was given, since the start

serializer == <<pc, count, palette, indices, longs, word, packed, sent>>
svars      == <<column, serializer, held>>

section == Len(sent)    \* the section being serialized

(* What one section looks like in the packet. *)
SectionData(bits, states, announced, words) ==
  [count |-> count, bits |-> bits, palette |-> states,
   announced |-> announced, longs |-> words]

-------------------------------------------------------------------------------
(* The states a block has, or had or will have by a call that is under way. *)
Present(s, i) ==
  {blocks_[s][i]} \cup
    UNION {{call[t].was, call[t].state} :
             t \in {u \in Threads : u = chunk_mutex_ /\ call[u].section = s /\ call[u].cell = i}}

Presence == [s \in SectionIds |-> [i \in CellIds |-> Present(s, i)]]

Begin ==
  /\ pc = "idle"
  /\ pc' = "count"
  /\ held' = Presence
  /\ UNCHANGED <<column, count, palette, indices, longs, word, packed, sent>>

(* The count of the section is written. *)
WriteCount ==
  /\ pc = "count" /\ section < Sections
  /\ count' = non_air_count_[section]
  /\ pc' = "branch"
  /\ UNCHANGED <<column, palette, indices, longs, word, packed, sent, held>>

(* The section is written to its end, and the next one is begun. *)
Written(data) ==
  /\ sent' = Append(sent, data)
  /\ pc' = "count"

(* The count is read again: 0 stands for a section of air. *)
Branch ==
  /\ pc = "branch"
  /\ palette' = <<Air>> /\ indices' = <<>>
  /\ longs' = <<>> /\ word' = <<>> /\ packed' = 0
  /\ IF non_air_count_[section] = 0
       THEN Written(SectionData(0, <<Air>>, 0, <<>>))
       ELSE pc' = "read" /\ UNCHANGED sent
  /\ UNCHANGED <<column, count, held>>

-------------------------------------------------------------------------------
(* Positions of a state in the palette, which is searched from its front.   *)
Found(s) == {n \in 1 .. Len(palette) : palette[n] = s}

(* One block is read and its state looked up, or added.                     *)
ReadBlock ==
  LET s == blocks_[section][Len(indices)] IN
  /\ pc = "read"
  /\ IF Found(s) = {}
       THEN /\ palette' = Append(palette, s)
            /\ indices' = Append(indices, Len(palette) % IndexMod)
       ELSE /\ \E n \in Found(s) :
                 /\ \A m \in Found(s) : n =< m
                 /\ indices' = Append(indices, (n - 1) % IndexMod)
            /\ UNCHANGED palette
  /\ pc' = IF Len(indices') = Cells THEN "write" ELSE "read"
  /\ UNCHANGED <<column, count, longs, word, packed, sent, held>>

(* Fault: a palette of one state too many for the bits is let pass.         *)
Bits_OffByOne ==
  CHOOSE b \in MinBits .. MaxBits :
    /\ b = MaxBits \/ Len(palette) =< 2 ^ b + 1
    /\ \A c \in MinBits .. b - 1 : Len(palette) > 2 ^ c + 1

(* The fewest bits that tell the states of the palette apart, up to MaxBits *)
Bits ==
  CHOOSE b \in MinBits .. MaxBits :
    /\ b = MaxBits \/ Len(palette) =< 2 ^ b
    /\ \A c \in MinBits .. b - 1 : Len(palette) > 2 ^ c

(* The number of words announced for the section. *)
NumLongs(bits) ==
  LET entries_per_long == WordBits \div bits IN
    (Cells + entries_per_long - 1) \div entries_per_long

(* A palette of one state is written as it is, without a word.              *)
WriteSingle ==
  /\ pc = "write" /\ Len(palette) = 1
  /\ Written(SectionData(0, palette, 0, <<>>))
  /\ UNCHANGED <<column, count, palette, indices, longs, word, packed, held>>

StartPacking ==
  /\ pc = "write" /\ Len(palette) > 1
  /\ pc' = "pack"
  /\ UNCHANGED <<column, count, palette, indices, longs, word, packed, sent, held>>

(* Fault: the word is written when the next entry no longer begins in it.   *)
WordIsFull_Straddles(w) == Len(w) * Bits >= WordBits

(* No further entry fits into the word. *)
WordIsFull(w) == Len(w) * Bits + Bits > WordBits

(* One index is cut to its bits and put into the word, which is written     *)
(* when it is full or the index was the last.                               *)
PackIndex ==
  LET filled == Append(word, indices[packed + 1] % 2 ^ Bits)
      last   == packed + 1 = Cells
      words  == IF WordIsFull(filled) \/ last THEN Append(longs, filled) ELSE longs
  IN
  /\ pc = "pack"
  /\ packed' = packed + 1
  /\ longs' = words
  /\ word' = IF words = longs THEN filled ELSE <<>>
  /\ IF last THEN Written(SectionData(Bits, palette, NumLongs(Bits), words))
             ELSE UNCHANGED <<pc, sent>>
  /\ UNCHANGED <<column, count, palette, indices, held>>

-------------------------------------------------------------------------------
StreamInit ==
  /\ ColumnInit
  /\ pc = "idle" /\ count = 0 /\ palette = <<>> /\ indices = <<>>
  /\ longs = <<>> /\ word = <<>> /\ packed = 0 /\ sent = <<>>
  /\ held = [s \in SectionIds |-> [i \in CellIds |-> {}]]

Serialize == Begin \/ WriteCount \/ Branch \/ ReadBlock \/ WriteSingle \/ StartPacking \/ PackIndex

(* Every step of a writer is remembered by the states it leaves present.    *)
Witnessed ==
  held' = IF pc = "idle" THEN held
          ELSE [s \in SectionIds |-> [i \in CellIds |-> held[s][i] \cup Presence'[s][i]]]

Writer(t) ==
  /\ \/ \E c \in Coordinate, s \in States : SetLocks(t, c, s)
     \/ InSetBlock(t)
  /\ Witnessed
  /\ UNCHANGED serializer

StreamNext == Serialize \/ \E t \in Threads : Writer(t)

StreamSpec == StreamInit /\ [][StreamNext]_svars

-------------------------------------------------------------------------------
(* Every variable has its type, and the serializer its place in a section.  *)
StreamTypeOK ==
  /\ ColumnTypeOK
  /\ pc \in {"idle", "count", "branch", "read", "write", "pack"}
  /\ count \in Nat /\ packed \in 0 .. Cells
  /\ palette \in Seq(States) /\ indices \in Seq(0 .. IndexMod - 1)
  /\ longs \in Seq(Seq(Nat)) /\ word \in Seq(Nat)
  /\ sent \in Seq([count : Nat, bits : Nat, palette : Seq(States), announced : Nat,
                   longs : Seq(Seq(Nat))])
  /\ Len(sent) =< Sections
  /\ held \in [SectionIds -> [CellIds -> SUBSET States]]

(* What a client makes of block i of a section it was sent (26.2.md).       *)
Decoded(data, i) ==
  IF data.bits = 0 THEN data.palette[1]
  ELSE LET e == WordBits \div data.bits IN
         data.palette[data.longs[(i \div e) + 1][(i % e) + 1] + 1]

(* Whatever threads do to the column meanwhile, the client decodes every    *)
(* block to a state that block had or was being given while the chunk was   *)
(* serialized; so to its state, if nobody changed it.  The index of a state *)
(* is a byte: it takes a section of no more states than a byte has values.  *)
StreamedWasThere ==
  \A n \in 1 .. Len(sent) :
    Len(sent[n].palette) =< IndexMod =>
      \A i \in CellIds : Decoded(sent[n], i) \in held[n - 1][i]

(* The words of a section are as many as announced and none holds more      *)
(* entries than fit: the client finds what comes after them.                *)
WordsAsAnnounced ==
  \A n \in 1 .. Len(sent) :
    /\ Len(sent[n].longs) = sent[n].announced
    /\ \A k \in 1 .. sent[n].announced : Len(sent[n].longs[k]) * sent[n].bits =< WordBits
===============================================================================
