------------------------------ MODULE Huffman ------------------------------
(***************************************************************************)
(* huffmanTree (C_Plus_Plus/encode/encode.hpp): a tree is built from       *)
(* characters and frequencies, sent as bits and rebuilt from them.         *)
(*                                                                         *)
(* A leaf is <<character, frequency>>, an inner node <<frequency, left,    *)
(* right>>, the null pointer <<>>.                                         *)
(***************************************************************************)
EXTENDS Integers, Sequences, FiniteSets, SequencesExt, FiniteSetsExt

CONSTANTS
  CharBits,   \* the bits of a character; the code has 8
  Inputs      \* the functions from characters to frequencies to build from

VARIABLES
  input,
  pq,         \* the nodes in the priority queue
  root,
  codeTable,  \* character -> its code
  phase       \* "build", "built", "rebuilt" or "truncated"

vars == <<input, pq, root, codeTable, phase>>

Null == <<>>
isLeaf(n) == Len(n) = 2
freq(n) == IF isLeaf(n) THEN n[2] ELSE n[1]

\* The nodes that top() may be: a priority queue leaves ties open.
Lowest(nodes) == {n \in nodes : \A o \in nodes : freq(n) <= freq(o)}

RECURSIVE Codes(_, _)
\* buildCodes: the pairs of character and code below a node.
Codes(n, code) ==
  IF n = Null THEN {}
  ELSE IF isLeaf(n) THEN {<<n[1], IF code = <<>> THEN <<0>> ELSE code>>}
  ELSE Codes(n[2], Append(code, 0)) \cup Codes(n[3], Append(code, 1))

buildCodes(n) ==
  LET pairs == Codes(n, <<>>) IN
  [c \in {p[1] : p \in pairs} |-> (CHOOSE p \in pairs : p[1] = c)[2]]

\* The bits of a character, the highest first, and back.
Bits(c) == [i \in 1..CharBits |-> (c \div 2^(CharBits - i)) % 2]
Char(bits) == FoldLeft(LAMBDA c, b : 2 * c + b, 0, bits)

RECURSIVE serializeNode(_)
\* A leaf is 1 and its character, an inner node 0 and its subtrees.
serializeNode(n) ==
  IF n = Null THEN <<>>
  ELSE IF isLeaf(n) THEN <<1>> \o Bits(n[1])
  ELSE <<0>> \o serializeNode(n[2]) \o serializeNode(n[3])

Truncated == [node |-> Null, rest |-> <<>>, ok |-> FALSE]

RECURSIVE deserializeNode(_)
\* The node at the front of bits, and the bits after it.
deserializeNode(bits) ==
  IF bits = <<>> \/ (bits[1] = 1 /\ Len(bits) < 1 + CharBits) THEN Truncated
  ELSE IF bits[1] = 1
  THEN [node |-> <<Char(SubSeq(bits, 2, 1 + CharBits)), 0>>,
        rest |-> SubSeq(bits, 2 + CharBits, Len(bits)), ok |-> TRUE]
  ELSE LET Both(l, r) == IF r.ok THEN [r EXCEPT !.node = <<0, l, @>>] ELSE Truncated
           Left(l) == IF l.ok THEN Both(l.node, deserializeNode(l.rest)) ELSE Truncated
       IN  Left(deserializeNode(Tail(bits)))

\* One bit of decode: a step down from the node, and from a leaf back to the root.
Walked(walk, b) ==
  LET next == walk.node[2 + b] IN
  IF walk.node = Null THEN walk
  ELSE IF next # Null /\ isLeaf(next) THEN [node |-> root, text |-> Append(walk.text, next[1])]
  ELSE [walk EXCEPT !.node = next]

\* decode; a bit without a node, which throws in the code, ends the text.
decode(bits) == FoldLeft(Walked, [node |-> root, text |-> <<>>], bits).text
-----------------------------------------------------------------------------
Init ==
  /\ input \in Inputs
  /\ pq = {<<c, input[c]>> : c \in DOMAIN input}
  /\ root = Null
  /\ codeTable = <<>>
  /\ phase = "build"

\* Faulty variant: the second node is taken without asking for its frequency.
MergeAny ==
  /\ phase = "build" /\ Cardinality(pq) > 1
  /\ \E lo \in Lowest(pq) : \E hi \in pq \ {lo} :
       pq' = (pq \ {lo, hi}) \cup {<<freq(lo) + freq(hi), lo, hi>>}
  /\ UNCHANGED <<input, root, codeTable, phase>>

(* The two nodes of lowest frequency become one.                             *)
Merge ==
  /\ phase = "build" /\ Cardinality(pq) > 1
  /\ \E lo \in Lowest(pq) : \E hi \in Lowest(pq \ {lo}) :
       pq' = (pq \ {lo, hi}) \cup {<<freq(lo) + freq(hi), lo, hi>>}
  /\ UNCHANGED <<input, root, codeTable, phase>>

(* The last node is the root; a single character gets one above it.          *)
Finish ==
  /\ phase = "build" /\ Cardinality(pq) = 1
  /\ \E n \in pq : root' = IF isLeaf(n) THEN <<freq(n), n, Null>> ELSE n
  /\ codeTable' = buildCodes(root')
  /\ phase' = "built"
  /\ UNCHANGED <<input, pq>>

\* Faulty variant: the subtrees are sent right before left.
serializeRightFirst(n) ==
  IF isLeaf(n) THEN serializeNode(n)
  ELSE <<0>> \o serializeNode(n[3]) \o serializeNode(n[2])

serialize(n) == serializeNode(n)

(* The other constructor, given what serialize returned.                     *)
Rebuild ==
  LET r == deserializeNode(serialize(root)) IN
  /\ phase = "built"
  /\ IF r.ok
     THEN /\ root' = r.node
          /\ codeTable' = buildCodes(r.node)
          /\ phase' = "rebuilt"
     ELSE phase' = "truncated" /\ UNCHANGED <<root, codeTable>>
  /\ UNCHANGED <<input, pq>>

Ready == phase \in {"built", "rebuilt"}

Next == Merge \/ Finish \/ Rebuild \/ (phase # "build" /\ UNCHANGED vars)

Spec == Init /\ [][Next]_vars
-----------------------------------------------------------------------------
\* The texts to send, and their bits in the codes the tree was built with.
Texts == {<<a, b>> : a, b \in DOMAIN input}
Encoded(text, codes) == FlattenSeq([i \in 1..Len(text) |-> codes[text[i]]])

(* A text in the codes of the tree is decoded to itself, by the tree and by  *)
(* the one rebuilt from its bits, which has the same codes; every tree of    *)
(* two or more characters can be rebuilt.                                    *)
DecodesBack ==
  /\ Ready =>
       /\ DOMAIN codeTable = DOMAIN input
       /\ \A text \in Texts : decode(Encoded(text, codeTable)) = text
  /\ phase = "rebuilt" => codeTable = buildCodes(CHOOSE n \in pq : TRUE)
  /\ phase = "truncated" => Cardinality(DOMAIN input) = 1

Weight(lengths) == MapThenSumSet(LAMBDA c : input[c] * lengths[c], DOMAIN input)

(* No other prefix code - no other lengths that satisfy Kraft's inequality - *)
(* sends the characters, as often as their frequencies say, in fewer bits,   *)
(* whatever the priority queue does with ties.                               *)
NoShorterCode ==
  LET n == Cardinality(DOMAIN input) IN
  Ready => \A lengths \in [DOMAIN input -> 1..n] :
    MapThenSumSet(LAMBDA c : 2^(n - lengths[c]), DOMAIN input) <= 2^n
    => Weight([c \in DOMAIN input |-> Len(codeTable[c])]) <= Weight(lengths)
=============================================================================
