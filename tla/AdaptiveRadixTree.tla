-------------------------- MODULE AdaptiveRadixTree --------------------------
(***************************************************************************)
(* The tree behind the ART competitor (src/competitors/art_primary_lb.h):     *)
(* inner nodes that branch on one byte of the key, skip the bytes all keys    *)
(* below share (the prefix), and grow from Node4 to Node256 as they fill.      *)
(*                                                                          *)
(* A leaf stores a number `val` only; its key is read from the data Build was  *)
(* given (loadKey), which is the `key` kept with it here.  Node4 and Node16   *)
(* are arrays of a byte and a child each, in the order of the bytes; Node48     *)
(* and Node256 find the child of a byte by the byte.  That Node48 does so by   *)
(* way of childIndex is left out.  No prefix is as long as maxPrefixLength: 9,  *)
(* where keys have 8 bytes.                                                 *)
(***************************************************************************)
LOCAL INSTANCE Integers
LOCAL INSTANCE Sequences
LOCAL INSTANCE SequencesExt
LOCAL INSTANCE FiniteSets
LOCAL INSTANCE FiniteSetsExt

CONSTANTS KeyBytes,     \* 8: the length of a key
          ByteRange,    \* 256: the values of a byte
          Node4Size, Node16Size, Node48Size   \* 4, 16 and 48

ARTConstants ==
  /\ KeyBytes \in Nat \ {0} /\ ByteRange \in Nat \ {0}
  /\ Node4Size \in Nat \ {0, 1}
  /\ Node16Size \in Nat /\ Node16Size > Node4Size
  /\ Node48Size \in Nat /\ Node48Size > Node16Size

(* swapBytes: the bytes of a key, the highest first.                        *)
Bytes(key) ==
  [d \in 1 .. KeyBytes |-> (key \div ByteRange ^ (KeyBytes - d)) % ByteRange]

NoNode == [type |-> "none"]
Leaf(entry) == [type |-> "leaf", entry |-> entry]
Node4(prefix) == [type |-> "Node4", prefix |-> prefix, slots |-> <<>>]

IsArray(node) == node.type \in {"Node4", "Node16"}

LoadKey(leaf) == Bytes(leaf.entry.key)

(* The place of the first of an array's bytes that is not less, from 1.       *)
PlaceOf(slots, byte) ==
  Min({p \in 1 .. Len(slots) + 1 : p <= Len(slots) => slots[p].byte >= byte})

(* findChild                                                                *)
FindChild(node, byte) ==
  IF IsArray(node)
  THEN LET there == {p \in DOMAIN node.slots : node.slots[p].byte = byte}
       IN  IF there = {} THEN NoNode ELSE node.slots[Min(there)].child
  ELSE IF byte \in DOMAIN node.child THEN node.child[byte] ELSE NoNode

(* What insert makes of a child takes its place, by nodeRef.                  *)
Replaced(node, byte, child) ==
  IF IsArray(node)
  THEN [node EXCEPT !.slots[PlaceOf(node.slots, byte)].child = child]
  ELSE [node EXCEPT !.child[byte] = child]

(* How many bytes from `depth` on agree with the prefix.                     *)
PrefixMismatch(node, key, depth) ==
  Min({n \in 0 .. Len(node.prefix) :
         n < Len(node.prefix) => node.prefix[n + 1] # key[depth + n + 1]})
-----------------------------------------------------------------------------
(* A new child of a node, which grows if it is full.                         *)

InsertNode256(node, byte, child) ==
  [node EXCEPT !.child = [b \in DOMAIN @ \cup {byte} |->
                            IF b = byte THEN child ELSE @[b]]]

InsertNode48(node, byte, child) ==
  IF Cardinality(DOMAIN node.child) < Node48Size
  THEN InsertNode256(node, byte, child)
  ELSE InsertNode256([node EXCEPT !.type = "Node256"], byte, child)

ByByte(slots) ==
  [b \in {slots[p].byte : p \in DOMAIN slots} |->
     slots[PlaceOf(slots, b)].child]

InArray(node, byte, child) ==
  [node EXCEPT !.slots = InsertAt(@, PlaceOf(@, byte),
                                  [byte |-> byte, child |-> child])]

InsertNode16(node, byte, child) ==
  IF Len(node.slots) < Node16Size
  THEN InArray(node, byte, child)
  ELSE InsertNode48([type |-> "Node48", prefix |-> node.prefix,
                     child |-> ByByte(node.slots)], byte, child)

InsertNode4(node, byte, child) ==
  IF Len(node.slots) < Node4Size
  THEN InArray(node, byte, child)
  ELSE InsertNode16([node EXCEPT !.type = "Node16"], byte, child)

InsertChild(node, byte, child) ==
  CASE node.type = "Node4" -> InsertNode4(node, byte, child)
    [] node.type = "Node16" -> InsertNode16(node, byte, child)
    [] node.type = "Node48" -> InsertNode48(node, byte, child)
    [] node.type = "Node256" -> InsertNode256(node, byte, child)
-----------------------------------------------------------------------------
(* insert: no two entries have the same key.                                 *)

Fork(prefix, byte1, node1, byte2, node2) ==
  InsertNode4(InsertNode4(Node4(prefix), byte1, node1), byte2, node2)

(* A leaf gives way to a Node4 with it and the new one.                       *)
SplitLeaf(leaf, key, depth, new) ==
  LET old == LoadKey(leaf)
      differs == Min({d \in depth + 1 .. KeyBytes : old[d] # key[d]})
  IN  Fork(SubSeq(key, depth + 1, differs - 1), old[differs], leaf,
           key[differs], new)

(* A node keeps what is behind the byte its prefix is broken up at.           *)
SplitPrefix(node, key, depth, new) ==
  LET n == PrefixMismatch(node, key, depth)
      rest == [node EXCEPT !.prefix = SubSeq(@, n + 2, Len(@))]
  IN  Fork(SubSeq(node.prefix, 1, n), node.prefix[n + 1], rest,
           key[depth + n + 1], new)

RECURSIVE Insert(_, _, _, _)
Insert(node, key, depth, new) ==
  CASE node.type = "none" -> new
    [] node.type = "leaf" -> SplitLeaf(node, key, depth, new)
    [] node.type \notin {"none", "leaf"} ->
         LET below == depth + Len(node.prefix) + 1
             child == FindChild(node, key[below])
         IN  IF PrefixMismatch(node, key, depth) # Len(node.prefix)
             THEN SplitPrefix(node, key, depth, new)
             ELSE IF child = NoNode THEN InsertChild(node, key[below], new)
             ELSE Replaced(node, key[below], Insert(child, key, below, new))

(* The tree of entries inserted one after the other.                         *)
Tree(entries) ==
  FoldLeft(LAMBDA tree, e : Insert(tree, Bytes(e.key), 0, Leaf(e)),
           NoNode, entries)
-----------------------------------------------------------------------------
(* bound: down to where the key would be, the way there kept as a stack of     *)
(* nodes and of the places in them to go on from.  From 0 such a place is an     *)
(* index of the arrays, and else a byte.                                    *)

Frame(node, pos) == [node |-> node, pos |-> pos]

LeftBehind(node, pos) ==
  IF IsArray(node) THEN pos + 1 .. Len(node.slots) - 1
  ELSE {b \in DOMAIN node.child : b > pos}

(* The places from `pos` on that hold a child.                               *)
Left(node, pos) ==
  IF IsArray(node) THEN pos .. Len(node.slots) - 1
  ELSE {b \in DOMAIN node.child : b >= pos}

ChildAt(node, pos) ==
  IF IsArray(node) THEN node.slots[pos + 1].child ELSE node.child[pos]

(* iteratorNext: the next leaf, NoNode if there is none.                     *)
RECURSIVE IteratorNext(_)
IteratorNext(stack) ==
  IF stack = <<>> THEN NoNode
  ELSE LET top == Last(stack)
           left == Left(top.node, top.pos)
           child == ChildAt(top.node, Min(left))
           here == Append(Front(stack), Frame(top.node, Min(left) + 1))
       IN  IF left = {} THEN IteratorNext(Front(stack))
           ELSE IF child.type = "leaf" THEN child
           ELSE IteratorNext(Append(here, Frame(child, 0)))

(* The leaf reached is the one sought unless its key is less.                 *)
IsLess(leaf, key, depth) ==
  LET old == LoadKey(leaf) IN
  \E d \in depth + 1 .. KeyBytes :
    /\ old[d] < key[d]
    /\ \A c \in depth + 1 .. d - 1 : old[c] = key[c]

RECURSIVE Bound(_, _, _, _)
Bound(node, key, depth, stack) ==
  IF node.type = "none" THEN NoNode
  ELSE IF node.type = "leaf"
  THEN IF IsLess(node, key, depth) THEN IteratorNext(stack) ELSE node
  ELSE LET n == PrefixMismatch(node, key, depth)
           below == depth + Len(node.prefix) + 1
           byte == key[below]
           pos == IF IsArray(node) THEN PlaceOf(node.slots, byte) - 1 ELSE byte
           child == FindChild(node, byte)
       IN  IF n # Len(node.prefix)
           THEN IF node.prefix[n + 1] < key[depth + n + 1]
                THEN IteratorNext(stack)
                ELSE IteratorNext(Append(stack, Frame(node, 0)))
           ELSE IF child = NoNode
                THEN IteratorNext(Append(stack, Frame(node, pos)))
                ELSE Bound(child, key, below, Append(stack, Frame(node, pos + 1)))

(* The first leaf not less than the key, if there is one.                     *)
LowerBound(tree, key) == Bound(tree, Bytes(key), 0, <<>>)
=============================================================================
