----------------------------- MODULE BPlusTree -----------------------------
(***************************************************************************)
(* stx::btree of src/competitors/stx-btree-0.9/include/stx/btree.h, as the   *)
(* multimap STXBTree makes of it: duplicate keys are allowed.  A data slot   *)
(* is moved by every copy that moves its key: only keys are kept here.       *)
(*                                                                          *)
(* Slots are counted from 1.  A leaf is named by its place among the leaves, *)
(* so that a split gives all leaves behind it another name; the pointers     *)
(* between leaves are kept apart, as the code writes them.                   *)
(***************************************************************************)
EXTENDS Integers, Sequences, SequencesExt

CONSTANTS
  Keys,
  leafslotmax, innerslotmax,   \* slots of a node
  MaxItems,                    \* bound on the items of a tree
  Loads                        \* the sorted sequences a tree is loaded from

BPlusTreeConstants ==
  /\ Keys \subseteq Nat
  /\ leafslotmax \in Nat /\ leafslotmax >= 4
  /\ innerslotmax \in Nat /\ innerslotmax >= 2
  /\ MaxItems \in Nat
  /\ \A keys \in Loads : \A i \in DOMAIN keys : i = 1 \/ keys[i - 1] <= keys[i]

minleafslots == leafslotmax \div 2
mininnerslots == innerslotmax \div 2

VARIABLES
  root,        \* <<>> for NULL, or a sequence of one node
  links,       \* nextleaf and prevleaf of each leaf, headleaf and tailleaf
  itemcount

vars == <<root, links, itemcount>>

NULL == 0
Stale == -1   \* a pointer into another tree

Leaf(keys) == [keys |-> keys, kids |-> <<>>]
Inner(keys, kids) == [keys |-> keys, kids |-> kids]
isleafnode(n) == n.kids = <<>>

RECURSIVE LeavesOf(_)
LeavesOf(n) ==
  IF isleafnode(n) THEN <<n.keys>>
  ELSE FlattenSeq([s \in DOMAIN n.kids |-> LeavesOf(n.kids[s])])

Leaves == IF root = <<>> THEN <<>> ELSE LeavesOf(root[1])
Items == FlattenSeq(Leaves)

LeavesBefore(n, slot) ==
  FoldLeft(LAMBDA sum, kid : sum + Len(LeavesOf(kid)), 0,
           SubSeq(n.kids, 1, slot - 1))

NoLinks == [next |-> <<>>, prev |-> <<>>, head |-> NULL, tail |-> NULL]

Init == root = <<>> /\ links = NoLinks /\ itemcount = 0
-----------------------------------------------------------------------------
(* Searching.                                                               *)

FindUpper(keys, key) ==
  LET slot == SelectInSeq(keys, LAMBDA k : k > key)
  IN  IF slot = 0 THEN Len(keys) + 1 ELSE slot

FindLower(keys, key) ==
  LET slot == SelectInSeq(keys, LAMBDA k : k >= key)
  IN  IF slot = 0 THEN Len(keys) + 1 ELSE slot

begin == <<links.head, 1>>
end == <<links.tail, IF links.tail = NULL THEN 1 ELSE Len(Leaves[links.tail]) + 1>>

RECURSIVE LowerIn(_, _, _)
LowerIn(n, leaf, key) ==
  LET slot == FindLower(n.keys, key)
  IN  IF isleafnode(n) THEN <<leaf, slot>>
      ELSE LowerIn(n.kids[slot], leaf + LeavesBefore(n, slot), key)

lower_bound(key) == IF root = <<>> THEN end ELSE LowerIn(root[1], 1, key)

RECURSIVE UpperIn(_, _, _)
UpperIn(n, leaf, key) ==
  LET slot == FindUpper(n.keys, key)
  IN  IF isleafnode(n) THEN <<leaf, slot>>
      ELSE UpperIn(n.kids[slot], leaf + LeavesBefore(n, slot), key)

upper_bound(key) == IF root = <<>> THEN end ELSE UpperIn(root[1], 1, key)

Holds(it, key) ==
  it[1] # NULL /\ it[2] <= Len(Leaves[it[1]]) /\ Leaves[it[1]][it[2]] = key

exists(key) == Holds(lower_bound(key), key)
find(key) == IF exists(key) THEN lower_bound(key) ELSE end

(* ++ and -- of an iterator, which is a leaf and a slot of it.               *)
Forward(it) ==
  IF it[2] + 1 <= Len(Leaves[it[1]]) THEN <<it[1], it[2] + 1>>
  ELSE IF links.next[it[1]] # NULL THEN <<links.next[it[1]], 1>>
  ELSE <<it[1], Len(Leaves[it[1]]) + 1>>

Backward(it) ==
  IF it[2] > 1 THEN <<it[1], it[2] - 1>>
  ELSE IF links.prev[it[1]] # NULL
       THEN <<links.prev[it[1]], Len(Leaves[links.prev[it[1]]])>>
  ELSE <<it[1], 1>>

(* ++ of a reverse iterator, which stands one slot behind its item.          *)
ReverseForward(it) ==
  IF it[2] > 2 THEN <<it[1], it[2] - 1>>
  ELSE IF links.prev[it[1]] # NULL
       THEN <<links.prev[it[1]], Len(Leaves[links.prev[it[1]]]) + 1>>
  ELSE <<it[1], 1>>

(* count goes from leaf to leaf as long as it meets the key.                 *)
RECURSIVE CountFrom(_, _)
CountFrom(it, key) ==
  IF ~ Holds(it, key) THEN 0
  ELSE 1 + CountFrom(IF it[2] < Len(Leaves[it[1]]) THEN <<it[1], it[2] + 1>>
                     ELSE <<links.next[it[1]], 1>>, key)

count(key) == IF root = <<>> THEN 0 ELSE CountFrom(lower_bound(key), key)
-----------------------------------------------------------------------------
(* Inserting.  What became of a node: itself, the node split off it (<<>> if *)
(* none), the key between the two, and the leaf that split (0 if none).      *)

InsertLeaf(n, leaf, slot, key) ==
  LET mid == Len(n.keys) \div 2
      lower == SubSeq(n.keys, 1, mid)
      upper == SubSeq(n.keys, mid + 1, Len(n.keys))
  IN  IF Len(n.keys) < leafslotmax
      THEN [node |-> Leaf(InsertAt(n.keys, slot, key)), split |-> <<>>,
            key |-> key, born |-> 0]
      ELSE [node |-> Leaf(IF slot > mid THEN lower ELSE InsertAt(lower, slot, key)),
            split |-> <<Leaf(IF slot > mid THEN InsertAt(upper, slot - mid, key)
                             ELSE upper)>>,
            key |-> Last(lower), born |-> leaf]

split_leaf_node(ln, leaf) ==
  LET Moved(p) == IF p > leaf THEN p + 1 ELSE p
      MovedAll(ps) == [l \in DOMAIN ps |-> Moved(ps[l])]
      after == Moved(ln.next[leaf])
      prev == InsertAt(MovedAll(ln.prev), leaf + 1, leaf)
  IN  [next |-> InsertAt([MovedAll(ln.next) EXCEPT ![leaf] = leaf + 1], leaf + 1, after),
       prev |-> IF after = NULL THEN prev ELSE [prev EXCEPT ![after] = leaf + 1],
       head |-> Moved(ln.head),
       tail |-> IF after = NULL THEN leaf + 1 ELSE Moved(ln.tail)]

(* The smaller half is the one that will take the new child.                 *)
split_inner_node(n, slot) ==
  LET size == Len(n.keys)
      half == size \div 2
      mid == IF slot - 1 <= half /\ half > size - (half + 1) THEN half - 1 ELSE half
  IN  [left |-> Inner(SubSeq(n.keys, 1, mid), SubSeq(n.kids, 1, mid + 1)),
       right |-> Inner(SubSeq(n.keys, mid + 2, size), SubSeq(n.kids, mid + 2, size + 1)),
       key |-> n.keys[mid + 1]]

PutChildBefore(n, slot, key, kid) ==
  Inner(InsertAt(n.keys, slot, key), InsertAt(n.kids, slot, kid))

PutChild(n, slot, key, kid) ==
  Inner(InsertAt(n.keys, slot, key), InsertAt(n.kids, slot + 1, kid))

(* A new child that belongs between the halves makes its key the split key.  *)
PutChildSplit(n, slot, r) ==
  LET h == split_inner_node(n, slot)
      size == Len(h.left.keys)
      kid == r.split[1]
      Res(left, right, key) ==
        [node |-> left, split |-> <<right>>, key |-> key, born |-> r.born]
  IN  IF slot = size + 2 /\ size < Len(h.right.keys)
      THEN Res(PutChild(h.left, size + 1, h.key, h.right.kids[1]),
               Inner(h.right.keys, [h.right.kids EXCEPT ![1] = kid]), r.key)
      ELSE IF slot >= size + 2
      THEN Res(h.left, PutChild(h.right, slot - (size + 1), r.key, kid), h.key)
      ELSE Res(PutChild(h.left, slot, r.key, kid), h.right, h.key)

RECURSIVE insert_descend(_, _, _)
insert_descend(n, leaf, key) ==
  LET slot == FindLower(n.keys, key)
      r == insert_descend(n.kids[slot], leaf + LeavesBefore(n, slot), key)
      m == Inner(n.keys, [n.kids EXCEPT ![slot] = r.node])
  IN  IF isleafnode(n) THEN InsertLeaf(n, leaf, slot, key)
      ELSE IF r.split = <<>> THEN [r EXCEPT !.node = m]
      ELSE IF Len(n.keys) = innerslotmax THEN PutChildSplit(m, slot, r)
      ELSE [r EXCEPT !.node = PutChild(m, slot, r.key, r.split[1]), !.split = <<>>]

OneLeaf == [next |-> <<NULL>>, prev |-> <<NULL>>, head |-> 1, tail |-> 1]

insert_start(key) ==
  /\ Len(Items) < MaxItems
  /\ LET ln == IF root = <<>> THEN OneLeaf ELSE links
         r == insert_descend(IF root = <<>> THEN Leaf(<<>>) ELSE root[1], 1, key)
     IN  /\ root' = <<IF r.split = <<>> THEN r.node
                      ELSE Inner(<<r.key>>, <<r.node, r.split[1]>>)>>
         /\ links' = IF r.born = 0 THEN ln ELSE split_leaf_node(ln, r.born)
  /\ itemcount' = itemcount + 1
-----------------------------------------------------------------------------
(* Bulk loading: each level shares what is left evenly among the nodes left. *)

Ceil(a, b) == (a + b - 1) \div b

RECURSIVE Shares(_, _)
Shares(seq, parts) ==
  LET size == Len(seq) \div parts
  IN  IF parts = 0 THEN <<>>
      ELSE <<SubSeq(seq, 1, size)>>
           \o Shares(SubSeq(seq, size + 1, Len(seq)), parts - 1)

(* A node with the largest key under it, which its parent may need.          *)
BulkLeaves(keys) ==
  LET shares == Shares(keys, Ceil(Len(keys), leafslotmax))
  IN  [i \in DOMAIN shares |-> [node |-> Leaf(shares[i]), max |-> Last(shares[i])]]

BulkParents(level) ==
  LET shares == Shares(level, Ceil(Len(level), innerslotmax + 1))
      Keyed(share) == [s \in 1..(Len(share) - 1) |-> share[s].max]
  IN  [i \in DOMAIN shares |->
         [node |-> Inner(Keyed(shares[i]), [s \in DOMAIN shares[i] |-> shares[i][s].node]),
          max |-> Last(shares[i]).max]]

RECURSIVE BulkRoot(_)
BulkRoot(level) ==
  IF Len(level) = 1 THEN level[1].node ELSE BulkRoot(BulkParents(level))

AppendedOneWay(ln) ==
  LET new == Len(ln.next) + 1
  IN  [next |-> Append(IF ln.tail = NULL THEN ln.next
                       ELSE [ln.next EXCEPT ![ln.tail] = new], NULL),
       prev |-> Append(ln.prev, NULL),
       head |-> IF ln.head = NULL THEN new ELSE ln.head,
       tail |-> new]

(* Leaves are linked one by one behind the last.                             *)
Appended(ln) ==
  LET new == Len(ln.next) + 1
  IN  [next |-> Append(IF ln.tail = NULL THEN ln.next
                       ELSE [ln.next EXCEPT ![ln.tail] = new], NULL),
       prev |-> Append(ln.prev, ln.tail),
       head |-> IF ln.head = NULL THEN new ELSE ln.head,
       tail |-> new]

RECURSIVE LinkedAll(_, _)
LinkedAll(ln, leaves) == IF leaves = 0 THEN ln ELSE LinkedAll(Appended(ln), leaves - 1)

bulk_load(keys) ==
  /\ root = <<>>
  /\ itemcount' = Len(keys)
  /\ root' = IF keys = <<>> THEN <<>> ELSE <<BulkRoot(BulkLeaves(keys))>>
  /\ links' = LinkedAll(links, Len(BulkLeaves(keys)))
-----------------------------------------------------------------------------
(* Erasing.  What an erase did to a node: whether it found the item, the node *)
(* after it, the last key it had to pass up (<<>> if none), how its parent is *)
(* to mend an underflow, and the leaf that a merge emptied (0 if none).       *)

isfew(n) == Len(n.keys) <= IF isleafnode(n) THEN minleafslots ELSE mininnerslots
isunderflow(n) == Len(n.keys) < IF isleafnode(n) THEN minleafslots ELSE mininnerslots

NotFound(n) == [found |-> FALSE, node |-> n, last |-> <<>>, plan |-> "none", gone |-> 0]

(* left and right are the siblings handed down, <<>> for NULL; near tells    *)
(* which of them has the same parent.                                        *)
Plan(n, left, right, near) ==
  LET few(s) == s = <<>> \/ isfew(s[1])
  IN  CASE ~ isunderflow(n) -> "none"
        [] isunderflow(n) /\ left = <<>> /\ right = <<>> ->
             IF n.keys = <<>> THEN "root" ELSE "none"
        [] OTHER ->
             IF few(left) /\ few(right)
             THEN IF "left" \in near THEN "mergeLeft" ELSE "mergeRight"
             ELSE IF left # <<>> /\ few(left)
             THEN IF "right" \in near THEN "fromRight" ELSE "mergeLeft"
             ELSE IF right # <<>> /\ few(right)
             THEN IF "left" \in near THEN "fromLeft" ELSE "mergeRight"
             ELSE IF near = {"left", "right"}
             THEN IF Len(left[1].keys) <= Len(right[1].keys) THEN "fromRight" ELSE "fromLeft"
             ELSE IF "left" \in near THEN "fromLeft" ELSE "fromRight"

EraseSlot(n, leaf, slot, left, right, near) ==
  LET m == Leaf(RemoveAt(n.keys, slot))
      plan == Plan(m, left, right, near)
  IN  [found |-> TRUE, node |-> m, plan |-> plan,
       last |-> IF slot = Len(n.keys) /\ slot > 1 THEN <<Last(m.keys)>> ELSE <<>>,
       gone |-> CASE plan \in {"root", "mergeLeft"} -> leaf
                  [] plan = "mergeRight" -> leaf + 1
                  [] OTHER -> 0]

MergedSwapped(a, b, key) ==
  IF isleafnode(a) THEN Leaf(b.keys \o a.keys)
  ELSE Inner(b.keys \o <<key>> \o a.keys, b.kids \o a.kids)

Merged(a, b, key) ==
  IF isleafnode(a) THEN Leaf(a.keys \o b.keys)
  ELSE Inner(a.keys \o <<key>> \o b.keys, a.kids \o b.kids)

(* The right one of the two is removed; above leaves the key is renewed.     *)
FixMerge(n, i) ==
  LET m == Merged(n.kids[i], n.kids[i + 1], n.keys[i])
      keys == RemoveAt(n.keys, i)
  IN  Inner(IF isleafnode(m) /\ i <= Len(keys) THEN [keys EXCEPT ![i] = Last(m.keys)]
            ELSE keys,
            RemoveAt([n.kids EXCEPT ![i] = m], i + 1))

shift_left_leaf(n, i) ==
  LET a == n.kids[i].keys
      b == n.kids[i + 1].keys
      num == (Len(b) - Len(a)) \div 2
  IN  Inner([n.keys EXCEPT ![i] = b[num]],
            [n.kids EXCEPT ![i] = Leaf(a \o SubSeq(b, 1, num)),
                           ![i + 1] = Leaf(SubSeq(b, num + 1, Len(b)))])

shift_left_inner(n, i) ==
  LET a == n.kids[i]
      b == n.kids[i + 1]
      size == Len(b.keys)
      num == (size - Len(a.keys)) \div 2
  IN  Inner([n.keys EXCEPT ![i] = b.keys[num]],
            [n.kids EXCEPT
               ![i] = Inner(a.keys \o <<n.keys[i]>> \o SubSeq(b.keys, 1, num - 1),
                            a.kids \o SubSeq(b.kids, 1, num)),
               ![i + 1] = Inner(SubSeq(b.keys, num + 1, size),
                                SubSeq(b.kids, num + 1, size + 1))])

shift_right_leaf(n, i) ==
  LET a == n.kids[i].keys
      b == n.kids[i + 1].keys
      keep == Len(a) - (Len(a) - Len(b)) \div 2
  IN  Inner([n.keys EXCEPT ![i] = a[keep]],
            [n.kids EXCEPT ![i] = Leaf(SubSeq(a, 1, keep)),
                           ![i + 1] = Leaf(SubSeq(a, keep + 1, Len(a)) \o b)])

shift_right_inner(n, i) ==
  LET a == n.kids[i]
      b == n.kids[i + 1]
      size == Len(a.keys)
      keep == size - (size - Len(b.keys)) \div 2
  IN  Inner([n.keys EXCEPT ![i] = a.keys[keep + 1]],
            [n.kids EXCEPT
               ![i] = Inner(SubSeq(a.keys, 1, keep), SubSeq(a.kids, 1, keep + 1)),
               ![i + 1] = Inner(SubSeq(a.keys, keep + 2, size) \o <<n.keys[i]>> \o b.keys,
                                SubSeq(a.kids, keep + 2, size + 1) \o b.kids)])

Mended(n, slot, plan) ==
  LET above == isleafnode(n.kids[slot])
  IN  CASE plan = "none" -> n
        [] plan = "mergeLeft" -> FixMerge(n, slot - 1)
        [] plan = "mergeRight" -> FixMerge(n, slot)
        [] plan = "fromRight" ->
             IF above THEN shift_left_leaf(n, slot) ELSE shift_left_inner(n, slot)
        [] plan = "fromLeft" ->
             IF above THEN shift_right_leaf(n, slot - 1) ELSE shift_right_inner(n, slot - 1)

(* The neighbours of a child, those beyond the node taken from its own       *)
(* neighbours: on the left side not the last child but the one before.       *)
LeftOf(n, slot, left) ==
  IF slot > 1 THEN <<n.kids[slot - 1]>>
  ELSE IF left = <<>> THEN <<>> ELSE <<left[1].kids[Len(left[1].keys)]>>

RightOf(n, slot, right) ==
  IF slot <= Len(n.keys) THEN <<n.kids[slot + 1]>>
  ELSE IF right = <<>> THEN <<>> ELSE <<right[1].kids[1]>>

Near(n, slot) ==
  {side \in {"left", "right"} : IF side = "left" THEN slot > 1 ELSE slot <= Len(n.keys)}

(* The node after its child in slot became r.                                *)
Fixed(n, slot, r, left, right, near) ==
  LET here == r.last # <<>> /\ slot <= Len(n.keys)
      m == Mended(Inner(IF here THEN [n.keys EXCEPT ![slot] = r.last[1]] ELSE n.keys,
                        [n.kids EXCEPT ![slot] = r.node]), slot, r.plan)
  IN  [found |-> TRUE, node |-> m, last |-> IF here THEN <<>> ELSE r.last,
       plan |-> Plan(m, left, right, near), gone |-> r.gone]

RECURSIVE erase_one_descend(_, _, _, _, _, _)
erase_one_descend(n, leaf, key, left, right, near) ==
  LET slot == FindLower(n.keys, key)
      r == erase_one_descend(n.kids[slot], leaf + LeavesBefore(n, slot), key,
                             LeftOf(n, slot, left), RightOf(n, slot, right), Near(n, slot))
  IN  IF isleafnode(n)
      THEN IF slot > Len(n.keys) \/ n.keys[slot] # key THEN NotFound(n)
           ELSE EraseSlot(n, leaf, slot, left, right, near)
      ELSE IF r.found THEN Fixed(n, slot, r, left, right, near) ELSE NotFound(n)

(* The search for the leaf of an iterator goes on to the next child until it *)
(* finds the leaf, or has been behind a slot of a key less than the iterator's. *)
RECURSIVE erase_iter_descend(_, _, _, _, _, _, _)
erase_iter_descend(n, leaf, it, key, left, right, near) ==
  LET Try(slot) ==
        erase_iter_descend(n.kids[slot], leaf + LeavesBefore(n, slot), it, key,
                           LeftOf(n, slot, left), RightOf(n, slot, right), Near(n, slot))
      Tried(slot) == \A s \in FindLower(n.keys, key)..(slot - 1) : ~ (n.keys[s] < key)
      slots == {slot \in FindLower(n.keys, key)..Len(n.kids) :
                  Tried(slot) /\ Try(slot).found}
      first == CHOOSE slot \in slots : \A other \in slots : slot <= other
  IN  IF isleafnode(n)
      THEN IF leaf # it[1] \/ it[2] > Len(n.keys) THEN NotFound(n)
           ELSE EraseSlot(n, leaf, it[2], left, right, near)
      ELSE IF slots = {} THEN NotFound(n)
      ELSE Fixed(n, first, Try(first), left, right, near)

(* merge_leaves: the leaf behind takes the place of the emptied one.         *)
merge_leaves(ln, gone) ==
  LET left == gone - 1
      Moved(p) == IF p > gone THEN p - 1 ELSE p
      MovedAll(ps) == [l \in DOMAIN ps |-> Moved(ps[l])]
      after == ln.next[gone]
      prev == IF after = NULL THEN ln.prev ELSE [ln.prev EXCEPT ![after] = left]
  IN  [next |-> RemoveAt(MovedAll([ln.next EXCEPT ![left] = after]), gone),
       prev |-> RemoveAt(MovedAll(prev), gone),
       head |-> Moved(ln.head),
       tail |-> IF after = NULL THEN left ELSE Moved(ln.tail)]

(* The tree and its links after the descent r: the root may be the emptied   *)
(* leaf or a node with a single child.                                       *)
Rooted(rt, ln, r) ==
  CASE ~ r.found -> [root |-> rt, links |-> ln]
    [] r.found /\ r.plan = "root" /\ isleafnode(r.node) -> [root |-> <<>>, links |-> NoLinks]
    [] OTHER -> [root |-> <<IF r.plan = "root" THEN r.node.kids[1] ELSE r.node>>,
                 links |-> IF r.gone = 0 THEN ln ELSE merge_leaves(ln, r.gone)]

erase_one(key) ==
  LET r == erase_one_descend(root[1], 1, key, <<>>, <<>>, {})
      t == Rooted(root, links, r)
  IN  /\ root # <<>>
      /\ root' = t.root
      /\ links' = t.links
      /\ itemcount' = IF r.found THEN itemcount - 1 ELSE itemcount

RECURSIVE EraseAll(_, _, _)
EraseAll(rt, ln, key) ==
  LET r == erase_one_descend(rt[1], 1, key, <<>>, <<>>, {})
      t == Rooted(rt, ln, r)
      more == EraseAll(t.root, t.links, key)
  IN  IF rt = <<>> \/ ~ r.found THEN [root |-> rt, links |-> ln, count |-> 0]
      ELSE [more EXCEPT !.count = @ + 1]

erase(key) ==
  LET t == EraseAll(root, links, key)
  IN  /\ root' = t.root
      /\ links' = t.links
      /\ itemcount' = itemcount - t.count

EraseAt(it) == erase_iter_descend(root[1], 1, it, Leaves[it[1]][it[2]], <<>>, <<>>, {})

erase_iter(it) ==
  LET r == EraseAt(it)
      t == Rooted(root, links, r)
  IN  /\ root' = t.root
      /\ links' = t.links
      /\ itemcount' = IF r.found THEN itemcount - 1 ELSE itemcount
-----------------------------------------------------------------------------
(* The whole tree.                                                           *)

clear ==
  /\ root # <<>>
  /\ root' = <<>> /\ links' = NoLinks /\ itemcount' = 0

(* The tree is copied, by assignment or by construction, and the copy used   *)
(* from then on.                                                             *)
copy_recursive ==
  /\ root # <<>>
  /\ links' = LinkedAll(NoLinks, Len(Leaves))
  /\ UNCHANGED <<root, itemcount>>

(* The tree is dumped and restored: a leaf comes back with the pointers it   *)
(* had, which only reading the leaves around it replaces.                    *)
Read(ln) ==
  LET new == Len(ln.next) + 1
      Written(p) == IF p = NULL THEN NULL ELSE Stale
  IN  [next |-> Append(IF ln.tail = NULL THEN ln.next ELSE [ln.next EXCEPT ![ln.tail] = new],
                       Written(links.next[new])),
       prev |-> Append(ln.prev, IF ln.head = NULL THEN Written(links.prev[new]) ELSE ln.tail),
       head |-> IF ln.head = NULL THEN new ELSE ln.head,
       tail |-> new]

RECURSIVE ReadAll(_, _)
ReadAll(ln, leaves) == IF leaves = 0 THEN ln ELSE ReadAll(Read(ln), leaves - 1)

restore_node ==
  /\ root # <<>>
  /\ links' = ReadAll(NoLinks, Len(Leaves))
  /\ UNCHANGED <<root, itemcount>>

(* Where an iterator that is not at the end can stand.                       *)
Iterators == {<<l, s>> \in (1..Len(Leaves)) \X (1..leafslotmax) : s <= Len(Leaves[l])}

Next ==
  \/ \E keys \in Loads : bulk_load(keys)
  \/ \E key \in Keys : insert_start(key) \/ erase_one(key) \/ erase(key)
  \/ \E it \in Iterators : erase_iter(it)
  \/ clear
  \/ copy_recursive
  \/ restore_node

Spec == Init /\ [][Next]_vars
-----------------------------------------------------------------------------
(* verify() asserts after every operation what keeps the tree a B+ tree: all *)
(* nodes but the root at least half full, keys in order, each key of an inner *)
(* node the largest key under its child, no key under the next child smaller, *)
(* all leaves at one depth, and as many items as counted.                    *)
RECURSIVE WellFormedNode(_, _)
WellFormedNode(n, top) ==
  LET Under(slot) == FlattenSeq(LeavesOf(n.kids[slot]))
  IN  /\ n.keys # <<>> /\ (top \/ ~ isunderflow(n))
      /\ Len(n.keys) <= IF isleafnode(n) THEN leafslotmax ELSE innerslotmax
      /\ \A s \in 1..(Len(n.keys) - 1) : n.keys[s] <= n.keys[s + 1]
      /\ isleafnode(n) \/
           /\ Len(n.kids) = Len(n.keys) + 1
           /\ \A s \in DOMAIN n.kids : WellFormedNode(n.kids[s], FALSE)
           /\ \A s \in DOMAIN n.keys :
                n.keys[s] = Last(Under(s)) /\ n.keys[s] <= Head(Under(s + 1))

RECURSIVE Depths(_)
Depths(n) ==
  IF isleafnode(n) THEN {0}
  ELSE UNION {{d + 1 : d \in Depths(n.kids[s])} : s \in DOMAIN n.kids}

WellFormed ==
  /\ itemcount = Len(Items)
  /\ root # <<>> => /\ WellFormedNode(root[1], TRUE)
                    /\ \A d, e \in Depths(root[1]) : d = e

(* An iterator from begin() with ++, one from end() with --, and a reverse   *)
(* iterator from rbegin() with ++ meet every item once, in order, whatever   *)
(* splits, merges, copies and restored images did to the pointers between    *)
(* the leaves, and stop at the other end.                                    *)
Places == FlattenSeq([l \in DOMAIN Leaves |-> [s \in DOMAIN Leaves[l] |-> <<l, s>>]])

Walk(start, Step(_)) ==
  FoldLeft(LAMBDA walk, i : IF Last(walk)[1] \in DOMAIN Leaves
                            THEN Append(walk, Step(Last(walk))) ELSE walk,
           <<start>>, Places)

WalksInOrder ==
  root # <<>> =>
    /\ Walk(begin, Forward) = Append(Places, end)
    /\ Walk(end, Backward) = Reverse(Append(Places, end))
    /\ Walk(end, ReverseForward) =
         Append([i \in DOMAIN Places |-> LET it == Reverse(Places)[i] IN <<it[1], it[2] + 1>>],
                begin)

(* lower_bound and upper_bound end the items below a key and those not above *)
(* it, also where equal keys lie in several leaves, and count meets exactly  *)
(* the items between them.                                                   *)
BoundsExact ==
  \A key \in Keys :
    LET Before(it) == IF root = <<>> THEN 0
                      ELSE LET p == SelectInSeq(Places, LAMBDA other : other = it)
                           IN  IF p = 0 /\ it = end THEN Len(Items) ELSE p - 1
    IN  /\ Before(lower_bound(key)) = Len(SelectSeq(Items, LAMBDA k : k < key))
        /\ Before(upper_bound(key)) = Len(SelectSeq(Items, LAMBDA k : k <= key))
        /\ count(key) = Len(SelectSeq(Items, LAMBDA k : k = key))
        /\ exists(key) <=> Contains(Items, key)

(* Erasing through an iterator finds the item it stands on, however many     *)
(* equal keys lie before it, and erase_one finds its key wherever it is.     *)
ErasesExact ==
  /\ \A p \in DOMAIN Places :
       LET r == EraseAt(Places[p])
       IN  r.found /\ FlattenSeq(LeavesOf(r.node)) = RemoveAt(Items, p)
  /\ \A key \in Keys :
       Contains(Items, key) =>
         erase_one_descend(root[1], 1, key, <<>>, <<>>, {}).found

(* Every way down the tree ends where it should: those of the lookups at the *)
(* bounds of the key, those of the two erases at the item asked for.         *)
LookupsExact == BoundsExact /\ ErasesExact

(* To its user the tree is the sorted list of its keys, the operations those *)
(* of OrderedMultimap.                                                       *)
Multimap == INSTANCE OrderedMultimap WITH contents <- Items
Implements == Multimap!Spec
=============================================================================
