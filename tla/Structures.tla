----------------------------- MODULE Structures -----------------------------
(***************************************************************************)
(* The structures of four competitors: a run of the benchmark keeps one of    *)
(* them, the others stay as they begin.  Where a user of a structure can do   *)
(* more than its competitor does (only insertions, say), all of it is here.   *)
(* Two of the structures are in Tables.  Init, Next, vars and Keys are those   *)
(* of RobinMap, whose properties are checked as they are stated there.        *)
(***************************************************************************)
EXTENDS Tables, RobinMap

CONSTANTS TreeKeys, leafslotmax, innerslotmax, MaxItems, Loads

VARIABLES root, links, itemcount

tree == <<root, links, itemcount>>

structures == <<tables, tree, vars>>

BTree == INSTANCE BPlusTree WITH Keys <- TreeKeys

ASSUME StructuresAssumption ==
  /\ Kinds \subseteq {"CuckooMap", "RBS", "BTree", "RobinHash"}
  /\ BTree!BPlusTreeConstants /\ RobinConstants

StructuresInit == TablesInit /\ BTree!Init /\ Init

StructuresNext ==
  \/ TablesNext /\ UNCHANGED <<tree, vars>>
  \/ kind = "BTree" /\ BTree!Next /\ UNCHANGED <<tables, vars>>
  \/ kind = "RobinHash" /\ Next /\ UNCHANGED <<tables, tree>>

StructuresSpec == StructuresInit /\ [][StructuresNext]_structures /\ Cuckoo!Fairness
-----------------------------------------------------------------------------
(* BTree: it remains a B+ tree whose walks meet every item once, whose        *)
(* lookups and erases end at the right item, and it is the sorted list        *)
(* OrderedMultimap promises.                                                *)
WellFormed == BTree!WellFormed
WalksInOrder == BTree!WalksInOrder
LookupsExact == BTree!LookupsExact
Implements == BTree!Implements
=============================================================================
