---------------------------- MODULE MCContainers ----------------------------
(***************************************************************************)
(* The containers and the other parts that live in memory, for TLC: one    *)
(* run, in which the component in focus is chosen at the start.  The       *)
(* variables of ts::Hashmap and ts::Stack are those of TwoLocks, those of  *)
(* ts::Trie, BitBuffer and autoCorrectFilter their own; those of the rest  *)
(* are x1, x2, ..., as many as it has, and Off while unused.               *)
(***************************************************************************)
EXTENDS TsHashmap, TsStack, TsTrie, AutoCorrect, BitBuffer, TLC

CONSTANTS th1, th2, A, B, k1, k2, Nil, Off

VARIABLES focus, x1, x2, x3, x4, x5

otherVars == <<x1, x2, x3, x4, x5>>

-----------------------------------------------------------------------------
(* ts::Hashmap: two threads, two maps; merge, swap and == over every pair.   *)
TheMapCalls ==
  {<<"clear", A, A, <<>>>>, <<"insert", A, A, <<k1, 1>>>>,
   <<"insertAll", A, A, <<<<k1, 2>>, <<k2, 1>>>>>>, <<"insertOrAssign", B, B, <<k1, 2>>>>,
   <<"update", A, A, <<k1>>>>, <<"extract", A, A, <<k1>>>>, <<"eraseIf", B, B, <<>>>>,
   <<"at", A, A, <<k1>>>>, <<"snapshot", B, B, <<>>>>}
    \cup {<<name, a, b, <<>>>> : name \in {"merge", "swap", "equal"}, a, b \in {A, B}}

(* ts::Stack, and the comparisons of ts::Queue: two threads, two stacks.     *)
TheStackCalls ==
  {<<"clear", A, A, <<>>>>, <<"pop", A, A, <<>>>>, <<"push", A, A, 1>>, <<"front", A, A, <<>>>>,
   <<"pushAll", B, B, <<1, 2>>>>}
    \cup {<<name, a, b, <<>>>> : name \in {"compare", "equals"}, a, b \in {A, B}}

(* avlTree: twelve values, of which an erase can rebalance two nodes. *)
Avl == INSTANCE AvlTree WITH
  Values <- 1..12, MaxCopied <- 5, root <- x1, node <- x2, size <- x3, elems <- x4

(* BTree: three levels of every order's nodes.                               *)
BTrees == INSTANCE BTree WITH
  Keys <- 1..4, Orders <- {3, 4, 5}, MaxKeys <- 9,
  order <- x1, root <- x2, count <- x3, held <- x4

(* ts::Trie: words that begin like each other, and the empty one.            *)
SomeWords == {<<>>, <<1>>, <<1, 1>>, <<1, 1, 2>>, <<1, 1, 1>>, <<2>>}

(* huffmanTree: every frequency of four characters, ties included, a single  *)
(* character, and five.                                                      *)
Frequencies ==
  [{0, 2, 5, 7} -> 0..2] \cup [{1, 3, 4} -> 1..3] \cup [{6} -> {4}]
    \cup {[c \in 0..4 |-> <<1, 1, 2, 3, 5>>[c + 1]], [c \in 0..4 |-> <<2, 2, 3, 3, 3>>[c + 1]]}

HuffmanTree == INSTANCE Huffman WITH
  CharBits <- 3, Inputs <- Frequencies,
  input <- x1, pq <- x2, root <- x3, codeTable <- x4, phase <- x5

(* autoCorrectFilter: four letters of the grid, one in both cases, a digit.  *)
Grid ==
  [e |-> [e |-> 0, h |-> 3, r |-> 1, t |-> 2], h |-> [e |-> 3, h |-> 0, r |-> 3, t |-> 2],
   r |-> [e |-> 1, h |-> 3, r |-> 0, t |-> 1], t |-> [e |-> 2, h |-> 2, r |-> 1, t |-> 0]]

Characters == {"e", "h", "r", "t", "T", "1"}
Folded == [c \in Characters |-> IF c = "T" THEN "t" ELSE c]

ADictionary ==
  {<<"t", "h", "e">>, <<"T", "h", "e">>, <<"h", "e", "r">>, <<"t", "h", "e", "r", "e">>, <<"h", "e", "r", "e">>,
   <<"t", "1">>}

Typed ==
  {<<"t", "h", "e">>, <<"T", "h", "e">>, <<"t", "h", "e", "r">>, <<"t", "e", "h">>, <<"h", "r", "e">>,
   <<"t", "e", "h", "r", "e">>, <<"t", "1">>, <<"t", "1", "e">>, <<"t">>, <<"r", "e", "e", "t">>}
-----------------------------------------------------------------------------
AllOff == x1 = Off /\ x2 = Off /\ x3 = Off /\ x4 = Off /\ x5 = Off
Idle == InitLocks /\ data = [m \in Objects |-> {}]

ContainersInit ==
  /\ TrieInit
  /\ CorrectInit
  /\ BitsInit
  /\ \/ focus = "hashmap" /\ Init /\ AllOff
     \/ focus = "stack" /\ StackInit /\ AllOff
     \/ focus = "trie" /\ Idle /\ AllOff
     \/ focus = "avl" /\ Avl!Init /\ Idle /\ x5 = Off
     \/ focus = "btree" /\ BTrees!Init /\ Idle /\ x5 = Off
     \/ focus = "huffman" /\ HuffmanTree!Init /\ Idle
     \/ focus = "bits" /\ Idle /\ AllOff
     \/ focus = "correct" /\ Idle /\ AllOff
  /\ focus # "correct" => sensitivity = CHOOSE n \in Sensitivities : TRUE

\* The component in focus takes a step, and leaves the other variables alone.
HashmapStep == focus = "hashmap" /\ Next /\ UNCHANGED <<focus, trieVars, correctVars, bitVars, otherVars>>
StackStep == focus = "stack" /\ StackNext /\ UNCHANGED <<focus, trieVars, correctVars, bitVars, otherVars>>
AvlStep == focus = "avl" /\ Avl!Next /\ UNCHANGED <<focus, trieVars, correctVars, bitVars, vars, x5>>
BTreeStep == focus = "btree" /\ BTrees!Next /\ UNCHANGED <<focus, trieVars, correctVars, bitVars, vars, x5>>
TrieStep == focus = "trie" /\ TrieNext /\ UNCHANGED <<focus, vars, correctVars, bitVars, otherVars>>
HuffmanStep == focus = "huffman" /\ HuffmanTree!Next /\ UNCHANGED <<focus, trieVars, correctVars, bitVars, vars>>
BitsStep == focus = "bits" /\ BitsNext /\ UNCHANGED <<focus, trieVars, correctVars, vars, otherVars>>
CorrectStep == focus = "correct" /\ CorrectNext /\ UNCHANGED <<focus, trieVars, bitVars, vars, otherVars>>

ContainersNext ==
  \/ HashmapStep \/ StackStep \/ AvlStep \/ BTreeStep
  \/ TrieStep \/ HuffmanStep \/ BitsStep \/ CorrectStep

ContainersSpec == ContainersInit /\ [][ContainersNext]_<<focus, vars, trieVars, correctVars, bitVars, otherVars>>
-----------------------------------------------------------------------------
(* avlTree stays sorted and balanced, its links and heights in agreement.    *)
SortedAndBalanced == focus = "avl" => Avl!SortedAndBalanced

(* BTree keeps the bounds of a B-tree and holds exactly what was inserted.   *)
BalancedAndSorted == focus = "btree" => BTrees!BalancedAndSorted

(* huffmanTree: what its codes send, it and the tree rebuilt decode.         *)
DecodesBack == focus = "huffman" => HuffmanTree!DecodesBack

(* huffmanTree: no other prefix code sends the characters in fewer bits.     *)
NoShorterCode == focus = "huffman" => HuffmanTree!NoShorterCode
=============================================================================
