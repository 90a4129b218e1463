------------------------------- MODULE TsTrie ------------------------------
(***************************************************************************)
(* ts::Trie (C_Plus_Plus/data_structure/threadsafe/tsTrie.hpp): a counting *)
(* prefix tree.  Every member holds the one mutex from its first statement *)
(* to its last, so a member is one step.  The node at the end of a path is *)
(* named by the path; the root, the empty path, is always there.           *)
(***************************************************************************)
EXTENDS Integers, Sequences, FiniteSets, SequencesExt

CONSTANTS
  Words,      \* the words handed to the members, the empty one among them
  MaxCount    \* bound: occurrences of a word

VARIABLES
  node,         \* path -> [isEndpoint, count], for the nodes there are
  v_nodeCount,
  wordCount,
  held          \* history: word -> occurrences added and not removed

trieVars == <<node, v_nodeCount, wordCount, held>>

fresh == [isEndpoint |-> FALSE, count |-> 0]
onlyRoot == [p \in {<<>>} |-> fresh]

Children(nodes, p) == {q \in DOMAIN nodes : Len(q) = Len(p) + 1 /\ IsPrefix(p, q)}
Begin(w, depth) == SubSeq(w, 1, depth)

\* The nodes on the way to a word's own.
Path(w) == {Begin(w, d) : d \in 1..Len(w)}

findNode(w) == w # <<>> /\ w \in DOMAIN node

\* removeHelper at the word's own node: the node afterwards.
Dropped(n, removeAll) ==
  LET left == IF removeAll THEN 0 ELSE n.count - 1 IN [isEndpoint |-> left > 0, count |-> left]

\* Faulty variant: a word on the way is not looked at.
DeadLeaf(nodes, p, w) == Children(nodes, p) \subseteq Path(w)

\* A node that is dead once its child on the way to w is erased.
Dead(nodes, p, w) == ~nodes[p].isEndpoint /\ Children(nodes, p) \subseteq Path(w)

\* The returning half of removeHelper, from the word's node up to the root: a
\* child is erased if it is dead, and all below it on the way were.
Erased(nodes, w) ==
  {p \in Path(w) : \A q \in Path(w) : IsPrefix(p, q) => Dead(nodes, q, w)}
-----------------------------------------------------------------------------
TrieInit ==
  /\ node = onlyRoot
  /\ v_nodeCount = 0
  /\ wordCount = 0
  /\ held = [w \in Words |-> 0]

(* The empty word is ignored: the root stands for no word.                   *)
add(w) ==
  LET new == Path(w) \ DOMAIN node
      grown == [p \in DOMAIN node \cup new |-> IF p \in new THEN fresh ELSE node[p]]
  IN
  /\ held[w] < MaxCount
  /\ w # <<>>
  /\ node' = [grown EXCEPT ![w] = [isEndpoint |-> TRUE, count |-> @.count + 1]]
  /\ v_nodeCount' = v_nodeCount + Cardinality(new)
  /\ wordCount' = wordCount + 1
  /\ held' = [held EXCEPT ![w] = @ + 1]

remove(w, removeAll) ==
  LET dropped == [node EXCEPT ![w] = Dropped(@, removeAll)]
      erased == Erased(dropped, w)
      removed == IF removeAll THEN node[w].count ELSE 1
  IN
  /\ findNode(w)
  /\ node[w].isEndpoint /\ node[w].count # 0
  /\ node' = [p \in DOMAIN node \ erased |-> dropped[p]]
  /\ v_nodeCount' = v_nodeCount - Cardinality(erased)
  /\ wordCount' = wordCount - removed
  /\ held' = [held EXCEPT ![w] = IF removeAll THEN 0 ELSE @ - 1]

clear ==
  /\ node' = onlyRoot
  /\ v_nodeCount' = 0
  /\ wordCount' = 0
  /\ held' = [w \in Words |-> 0]

TrieNext ==
  \/ \E w \in Words : add(w) \/ \E removeAll \in BOOLEAN : remove(w, removeAll)
  \/ clear

TrieSpec == TrieInit /\ [][TrieNext]_trieVars
-----------------------------------------------------------------------------
find(w) == findNode(w) /\ node[w].isEndpoint
countOf(w) == IF find(w) THEN node[w].count ELSE 0
getWords == {p \in DOMAIN node : p # <<>> /\ node[p].isEndpoint}

\* Every word as often as it is held.
Occurrences == UNION {{w} \X (1..held[w]) : w \in Words}

(* After any sequence of adds, removes of one or of all occurrences, and     *)
(* clears, of words that begin like each other: every word is found exactly  *)
(* as often as it is held, no word is lost with the one it begins with, no   *)
(* node stays that no word runs through, and the two running counts agree    *)
(* with the tree.                                                            *)
HoldsItsWords ==
  /\ \A w \in Words : countOf(w) = held[w]
  /\ getWords = {w \in Words : held[w] > 0}
  /\ DOMAIN node = {<<>>} \cup UNION {Path(w) : w \in getWords}
  /\ v_nodeCount = Cardinality(DOMAIN node) - 1
  /\ wordCount = Cardinality(Occurrences)
=============================================================================
