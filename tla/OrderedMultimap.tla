-------------------------- MODULE OrderedMultimap --------------------------
(***************************************************************************)
(* What stx::btree_multimap promises (btree_multimap.h), as STXBTree uses    *)
(* it: a sorted list of keys, each as often as it was put in and not taken   *)
(* out.                                                                      *)
(***************************************************************************)
EXTENDS Integers, Sequences, SequencesExt

CONSTANTS Keys, Loads

VARIABLE contents

Init == contents = <<>>

Below(key) == Len(SelectSeq(contents, LAMBDA k : k < key))

bulk_load == contents = <<>> /\ contents' \in Loads

insert(key) == contents' = InsertAt(contents, Below(key) + 1, key)

erase_one(key) ==
  /\ Contains(contents, key)
  /\ contents' = RemoveAt(contents, Below(key) + 1)

erase(key) == contents' = SelectSeq(contents, LAMBDA k : k # key)

clear == contents' = <<>>

Next ==
  \/ bulk_load
  \/ \E key \in Keys : insert(key) \/ erase_one(key) \/ erase(key)
  \/ clear

Spec == Init /\ [][Next]_contents
=============================================================================
