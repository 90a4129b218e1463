------------------------------- MODULE BTree -------------------------------
(***************************************************************************)
(* BTree (C_Plus_Plus/data_structure/bTree.hpp): keys may repeat and are   *)
(* never removed.  A node is its keys and its children, in order; a leaf   *)
(* has no children, and the null pointer is None.                          *)
(***************************************************************************)
EXTENDS Integers, Sequences, FiniteSets, SequencesExt

CONSTANTS
  Keys,       \* integers, compared with <
  Orders,     \* the values of the template parameter Order
  MaxKeys     \* bound: keys inserted

VARIABLES
  order,      \* Order
  root,
  count,
  held        \* history: key -> how often it has been inserted

vars == <<order, root, count, held>>

None == <<>>
Leaf(keys) == [keys |-> keys, kids |-> <<>>]
isLeaf(n) == n.kids = <<>>
isOverfull(n) == Len(n.keys) = order

\* The first index whose key is not smaller than v, or one past the last.
Place(n, v) == 1 + Cardinality({i \in 1..Len(n.keys) : n.keys[i] < v})

\* The keys a..b of n, with the children around them.
Part(n, a, b) ==
  [keys |-> SubSeq(n.keys, a, b),
   kids |-> IF isLeaf(n) THEN <<>> ELSE SubSeq(n.kids, a, b + 1)]

\* The keys above the median go to the right half with their children.
split(n) ==
  LET mid == Len(n.keys) \div 2 IN
  [left |-> Part(n, 1, mid), med |-> n.keys[mid + 1], right |-> Part(n, mid + 2, Len(n.keys))]

\* Faulty variant: the new half is put to the left of the median.
AdoptLeft(n, i, c) ==
  IF ~isOverfull(c) THEN [n EXCEPT !.kids[i] = c]
  ELSE LET s == split(c) IN
       [keys |-> InsertAt(n.keys, i, s.med),
        kids |-> InsertAt([n.kids EXCEPT ![i] = s.left], i, s.right)]

\* The children of a node whose i-th child has become c: an overfull c is
\* split, its median moving up to the i-th place of n.
Adopt(n, i, c) ==
  IF ~isOverfull(c) THEN [n EXCEPT !.kids[i] = c]
  ELSE LET s == split(c) IN
       [keys |-> InsertAt(n.keys, i, s.med),
        kids |-> InsertAt([n.kids EXCEPT ![i] = s.left], i + 1, s.right)]

RECURSIVE NodeInsert(_, _)
\* Node::Insert; the result may be overfull.
NodeInsert(n, v) ==
  IF isLeaf(n) THEN Leaf(InsertAt(n.keys, 1 + Cardinality({i \in 1..Len(n.keys) : n.keys[i] <= v}), v))
  ELSE LET i == Place(n, v) IN Adopt(n, i, NodeInsert(n.kids[i], v))

RECURSIVE ContainsIn(_, _)
ContainsIn(n, v) ==
  /\ n # None
  /\ LET i == Place(n, v) IN
     \/ i <= Len(n.keys) /\ n.keys[i] = v
     \/ ~isLeaf(n) /\ ContainsIn(n.kids[i], v)

RECURSIVE heightFrom(_)
heightFrom(n) == IF isLeaf(n) THEN 1 ELSE 1 + heightFrom(n.kids[1])
-----------------------------------------------------------------------------
Init ==
  /\ order \in Orders
  /\ root = None
  /\ count = 0
  /\ held = [k \in Keys |-> 0]

Insert(v) ==
  /\ count < MaxKeys
  /\ root' = IF root = None THEN Leaf(<<v>>)
             ELSE LET n == NodeInsert(root, v)  s == split(n) IN
                  IF isOverfull(n) THEN [keys |-> <<s.med>>, kids |-> <<s.left, s.right>>] ELSE n
  /\ count' = count + 1
  /\ held' = [held EXCEPT ![v] = @ + 1]
  /\ UNCHANGED order

(* Another tree is built or assigned from this one, and takes its nodes.     *)
MoveFrom ==
  /\ root' = None
  /\ count' = 0
  /\ held' = [k \in Keys |-> 0]
  /\ UNCHANGED order

Next == (\E v \in Keys : Insert(v)) \/ MoveFrom

Spec == Init /\ [][Next]_vars
-----------------------------------------------------------------------------
RECURSIVE InOrder(_)
InOrder(n) ==
  IF n = None THEN <<>>
  ELSE IF isLeaf(n) THEN n.keys
  ELSE FlattenSeq([i \in 1..(2 * Len(n.kids) - 1) |->
         IF i % 2 = 1 THEN InOrder(n.kids[(i + 1) \div 2]) ELSE <<n.keys[i \div 2]>>])

RECURSIVE Settled(_, _, _)
\* The node and those below it keep the bounds of a B-tree, leaves all at depth h.
Settled(n, least, h) ==
  /\ Len(n.keys) \in least..(order - 1)
  /\ IF isLeaf(n) THEN h = 1
     ELSE /\ Len(n.kids) = Len(n.keys) + 1
          /\ \A i \in 1..Len(n.kids) : Settled(n.kids[i], (order - 1) \div 2, h - 1)

(* After any sequence of inserts, repeated keys and splits on every level    *)
(* included, the tree holds exactly what was inserted, in order, Contains    *)
(* finds exactly that, size() counts it, no overfull node survives, every    *)
(* node but the root is half full and all leaves are as deep as getHeight    *)
(* says.                                                                     *)
BalancedAndSorted ==
  /\ LET all == InOrder(root) IN
       /\ Len(all) = count
       /\ \A i \in 2..Len(all) : all[i - 1] <= all[i]
       /\ \A v \in Keys : Len(SelectSeq(all, LAMBDA k : k = v)) = held[v]
  /\ \A v \in Keys : ContainsIn(root, v) <=> held[v] > 0
  /\ root # None => Settled(root, 1, heightFrom(root))
=============================================================================
