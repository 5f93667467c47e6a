---------------------------- MODULE EntityManager -----------------------------
(***************************************************************************)
(* EntityManager (include/core/world/entity.hpp): entities are numbered by *)
(* a 32-bit counter that starts at 1, and are never removed.               *)
(***************************************************************************)
EXTENDS Integers, Sequences

CONSTANTS
  Types,     \* what an entity may be
  IdMod      \* values of EntityID, 2^32

ASSUME IdModAssumption == IdMod \in Nat \ {0}

VARIABLES next_id_, entities_

entities == <<next_id_, entities_>>

(* Fault: the number of an entity is its place in the list. *)
spawn_entity_NotCounted(type) ==
  /\ entities_' = Append(entities_, [id |-> next_id_, type_id |-> type])
  /\ next_id_' = IF Len(entities_) = 0 THEN next_id_ + 1 ELSE Len(entities_)

spawn_entity(type) ==
  /\ entities_' = Append(entities_, [id |-> next_id_, type_id |-> type])
  /\ next_id_' = (next_id_ + 1) % IdMod

(* get_entity: the first of the list with that id, by its place in it.      *)
NotFound == 0
get_entity(id) ==
  LET found == {n \in 1 .. Len(entities_) : entities_[n].id = id} IN
    IF found = {} THEN NotFound ELSE CHOOSE n \in found : \A m \in found : n =< m

EntityInit == next_id_ = 1 % IdMod /\ entities_ = <<>>
EntityNext == \E type \in Types : spawn_entity(type)
EntitySpec == EntityInit /\ [][EntityNext]_entities

(* As long as the counter has not come round, every entity is found under   *)
(* the id its spawn returned, and the next one will be too.                 *)
FoundByItsId ==
  Len(entities_) < IdMod =>
    /\ \A n \in 1 .. Len(entities_) : get_entity(entities_[n].id) = n
    /\ get_entity(next_id_) = NotFound
===============================================================================
