------------------------------ MODULE AvlTree ------------------------------
(***************************************************************************)
(* avlTree (C_Plus_Plus/data_structure/tree.hpp): a balanced search tree   *)
(* with parent pointers, which the iterator climbs.  The tree's nodes are  *)
(* named by their values; Nil is the null pointer.  The fields of a node   *)
(* are "left", "right", "parent" and "height".                             *)
(***************************************************************************)
EXTENDS Integers, Sequences, FiniteSets, SequencesExt

CONSTANTS
  Values,     \* integers, compared with <
  Nil,
  MaxCopied   \* bound: values of a tree that is copied

VARIABLES
  root,
  node,       \* value -> its node, for the values in the tree
  size,       \* _count
  elems       \* history: the values inserted and not erased since

vars == <<root, node, size, elems>>

\* A tree in the hands of an operation: its root and its nodes.
Tree == [root |-> root, node |-> node]

heightOf(t, n) == IF n = Nil THEN 0 ELSE t.node[n].height
balanceOf(t, n) == heightOf(t, t.node[n].left) - heightOf(t, t.node[n].right)

\* The field f of node n becomes x; nothing if n is null.
Assign(t, n, f, x) == IF n = Nil THEN t ELSE [t EXCEPT !.node[n][f] = x]

updateHeight(t, n) ==
  LET l == heightOf(t, t.node[n].left)
      r == heightOf(t, t.node[n].right)
  IN  Assign(t, n, "height", 1 + IF l > r THEN l ELSE r)

\* What slotOf(n) refers to - the root or a field of n's parent - becomes x.
AssignSlot(t, n, x) ==
  LET p == t.node[n].parent IN
  IF p = Nil THEN [t EXCEPT !.root = x]
  ELSE Assign(t, p, IF t.node[p].left = n THEN "left" ELSE "right", x)

RECURSIVE Descend(_, _, _)
\* The node of v, or the last node on the way to where it would be.
Descend(t, n, v) ==
  LET child == IF v < n THEN t.node[n].left ELSE t.node[n].right IN
  IF n = Nil \/ n = v \/ child = Nil THEN n ELSE Descend(t, child, v)

RECURSIVE Outermost(_, _, _)
Outermost(t, n, side) ==
  IF n = Nil \/ t.node[n][side] = Nil THEN n ELSE Outermost(t, t.node[n][side], side)

\* rotateLeft for side "right", rotateRight for side "left": the child of that
\* side rises above x.  Returns the tree; the new top is x's parent.
Rotate(t, x, side) ==
  LET back  == IF side = "left" THEN "right" ELSE "left"
      pivot == t.node[x][side]
      inner == t.node[pivot][back]
      t1 == AssignSlot(t, x, pivot)
      t2 == Assign(Assign(t1, x, side, inner), inner, "parent", x)
      t3 == Assign(Assign(t2, pivot, "parent", t.node[x].parent), x, "parent", pivot)
      t4 == Assign(updateHeight(t3, x), pivot, back, x)
  IN  updateHeight(t4, pivot)

\* Faulty variant: the child that leans the other way is not rotated first.
rebalanceOnce(t0, n) ==
  LET t == updateHeight(t0, n)
      r == Rotate(t, n, IF balanceOf(t, n) > 1 THEN "left" ELSE "right")
  IN  IF balanceOf(t, n) \in -1..1 THEN [tree |-> t, top |-> n]
      ELSE [tree |-> r, top |-> r.node[n].parent]

\* Returns the tree and the node that is now where n was.
rebalance(t0, n) ==
  LET t == updateHeight(t0, n)
      left == balanceOf(t, n) > 1
      side == IF left THEN "left" ELSE "right"
      back == IF left THEN "right" ELSE "left"
      child == t.node[n][side]
      leansBack == IF left THEN balanceOf(t, child) < 0 ELSE balanceOf(t, child) > 0
      r == Rotate(IF leansBack THEN Rotate(t, child, back) ELSE t, n, side)
  IN  IF balanceOf(t, n) \in -1..1 THEN [tree |-> t, top |-> n]
      ELSE [tree |-> r, top |-> r.node[n].parent]

RECURSIVE rebalanceUp(_, _)
rebalanceUp(t, n) ==
  IF n = Nil THEN t
  ELSE LET r == rebalance(t, n) IN rebalanceUp(r.tree, r.tree.node[r.top].parent)

Become(t) == root' = t.root /\ node' = t.node
-----------------------------------------------------------------------------
Init == root = Nil /\ node = <<>> /\ size = 0 /\ elems = {}

(* insert of a value that is not there: a leaf, then rebalanceUp.            *)
insert(v) ==
  LET p == Descend(Tree, root, v)
      leaf == [left |-> Nil, right |-> Nil, parent |-> p, height |-> 1]
      grown == [root |-> IF p = Nil THEN v ELSE root,
                node |-> [n \in DOMAIN node \cup {v} |-> IF n = v THEN leaf ELSE node[n]]]
  IN
  /\ p # v
  /\ Become(rebalanceUp(Assign(grown, p, IF v < p THEN "left" ELSE "right", v), p))
  /\ size' = size + 1
  /\ elems' = elems \cup {v}

\* erase of a node with at most one child: the child takes its place.
\* Returns the tree and where rebalanceUp starts.
Spliced(t, n) ==
  LET child == IF t.node[n].left # Nil THEN t.node[n].left ELSE t.node[n].right
      p == t.node[n].parent
  IN  [tree |-> Assign(AssignSlot(t, n, child), child, "parent", p), from |-> p]

\* erase of a node with two: the next value's node is taken out of its place,
\* its right child put there, and it replaces n, height included.
Replaced(t, n) ==
  LET next == Outermost(t, t.node[n].right, "left")
      from == IF t.node[next].parent = n THEN next ELSE t.node[next].parent
      t1 == Spliced(t, next).tree
      t2 == [t1 EXCEPT !.node[next] = t1.node[n]]
      t3 == Assign(Assign(t2, t2.node[next].left, "parent", next), t2.node[next].right, "parent", next)
  IN  [tree |-> AssignSlot(t3, n, next), from |-> from]

erase(v) ==
  LET cut == IF node[v].left = Nil \/ node[v].right = Nil
             THEN Spliced(Tree, v) ELSE Replaced(Tree, v)
      rest == [root |-> cut.tree.root,
               node |-> [n \in DOMAIN node \ {v} |-> cut.tree.node[n]]]
  IN
  /\ Descend(Tree, root, v) = v
  /\ Become(rebalanceUp(rest, cut.from))
  /\ size' = size - 1
  /\ elems' = elems \ {v}

(* Every value goes: clear, or another tree is moved from this one.          *)
clear == root' = Nil /\ node' = <<>> /\ size' = 0 /\ elems' = {}

RECURSIVE copyNode(_, _)
\* A copy of the nodes below n, its parent given.
copyNode(n, parent) ==
  IF n = Nil THEN <<>>
  ELSE (n :> [node[n] EXCEPT !.parent = parent])
         @@ copyNode(node[n].left, n) @@ copyNode(node[n].right, n)

(* The tree is replaced by a copy of itself. *)
copy ==
  /\ size <= MaxCopied
  /\ node' = copyNode(root, Nil)
  /\ UNCHANGED <<root, size, elems>>

Next ==
  \/ \E v \in Values : insert(v) \/ erase(v)
  \/ clear
  \/ copy

Spec == Init /\ [][Next]_vars
-----------------------------------------------------------------------------
RECURSIVE Climb(_, _)
\* The first ancestor that n is not a right descendant of.
Climb(t, n) ==
  LET p == t.node[n].parent IN
  IF p = Nil \/ t.node[p].right # n THEN p ELSE Climb(t, p)

\* ++ of an iterator at n.
Successor(t, n) ==
  IF t.node[n].right # Nil THEN Outermost(t, t.node[n].right, "left") ELSE Climb(t, n)

RECURSIVE Walk(_, _, _)
\* The values from n on by ++, as listAllDFS collects them; the walk is cut
\* off at the number of values there are.
Walk(t, n, steps) ==
  IF n = Nil \/ steps < 0 THEN <<>> ELSE <<n>> \o Walk(t, Successor(t, n), steps - 1)

listAllDFS == Walk(Tree, Outermost(Tree, root, "left"), Cardinality(elems))

(* After any sequence of inserts and erases, rotations and replacements by   *)
(* the next value included, the iterator visits the values of the tree once  *)
(* each and in order, find reaches each of them, size() counts them, and     *)
(* every node's recorded height is right and its children's differ by at     *)
(* most one: links down, links up and heights agree.                         *)
SortedAndBalanced ==
  LET t == Tree  all == listAllDFS IN
  /\ ToSet(all) = elems
  /\ Len(all) = size
  /\ \A i \in 2..Len(all) : all[i - 1] < all[i]
  /\ size = Cardinality(elems)
  /\ \A v \in elems : Descend(t, root, v) = v
  /\ \A n \in DOMAIN node :
       /\ balanceOf(t, n) \in -1..1
       /\ node[n].height = updateHeight(t, n).node[n].height
=============================================================================
