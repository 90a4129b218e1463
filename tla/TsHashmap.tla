----------------------------- MODULE TsHashmap -----------------------------
(***************************************************************************)
(* ts::Hashmap (C_Plus_Plus/data_structure/threadsafe/tsHashmap.hpp): an   *)
(* unordered_map behind a shared_mutex.  Threads call any member on any    *)
(* two maps, in any order.  A map is the set of its <<key, value>> pairs.  *)
(***************************************************************************)
EXTENDS TwoLocks, SequencesExt

CONSTANTS
  Keys,
  Values,      \* a range of integers, so that update() has something to do
  MapCalls     \* bound: the members called

Pairs == Keys \X Values

\* Merge, swap and == have a second map; the others have the first as both.
ASSUME MapCallsAssumption ==
  \A c \in MapCalls :
    /\ c[1] \in {"clear", "insert", "insertAll", "insertOrAssign", "update", "extract", "eraseIf",
                 "merge", "swap", "at", "snapshot", "equal"}
    /\ c[1] \notin {"merge", "swap", "equal"} => c[3] = c[2]
    /\ c[1] = "insertAll" => c[4] \in Seq(Pairs)

keysOf(map) == {p[1] : p \in map}
pairOf(map, k) == {p \in map : p[1] = k}

Init ==
  /\ InitLocks
  /\ data \in [Objects -> {{}, {<<CHOOSE k \in Keys : TRUE, CHOOSE v \in Values : TRUE>>}}]

\* emplace does nothing to a key that is there.
Emplaced(map, p) == IF pairOf(map, p[1]) = {} THEN map \cup {p} ELSE map

\* The function update() is called with, and the predicate of eraseIf.
Changed(v) == CHOOSE w \in Values : w # v
Condemned(p) == p[2] = CHOOSE v \in Values : TRUE

\* Faulty variant: merge takes its locks with readBoth.
MergeShares(c) == c[1] \in {"at", "snapshot", "equal", "merge"}

\* The members that lock shared: those that only read.
Shared(c) == c[1] \in {"at", "snapshot", "equal"}

\* The elements the body of a call visits, in some order.
Visits(c) ==
  CASE c[1] = "insertAll" -> c[4]
    [] c[1] = "eraseIf" -> SetToSeq(data[c[2]])
    [] c[1] = "merge" -> SetToSeq(data[c[3]])
    [] c[1] = "snapshot" -> SetToSeq(data[c[2]])
    [] c[1] = "equal" -> SetToSeq(data[c[2]] \cup data[c[3]])
    [] c[1] = "swap" -> <<"one", "other">>
    [] OTHER -> <<c[4]>>

\* What one visit, to x, does to this (a), to other (b) and to the result (r):
\* the pairs added, removed, copied, or not the same in both.
Effect(c, a, b, r, x) ==
  CASE c[1] = "clear" -> <<{}, {}, r>>
    [] c[1] \in {"insert", "insertAll"} ->
         LET d == Emplaced(a, x) IN <<d, d, r \cup (d \ a)>>
    [] c[1] = "insertOrAssign" ->
         LET d == (a \ pairOf(a, x[1])) \cup {x} IN <<d, d, r>>
    [] c[1] = "update" ->
         LET d == (a \ pairOf(a, x[1])) \cup {<<p[1], Changed(p[2])>> : p \in pairOf(a, x[1])} IN <<d, d, r>>
    [] c[1] = "extract" -> <<a \ pairOf(a, x[1]), a \ pairOf(a, x[1]), pairOf(a, x[1])>>
    [] c[1] = "eraseIf" ->
         LET d == IF Condemned(x) THEN a \ {x} ELSE a IN <<d, d, r \cup (a \ d)>>
    [] c[1] = "merge" ->
         IF pairOf(a, x[1]) = {} THEN <<a \cup {x}, b \ {x}, r>> ELSE <<a, b, r>>
    [] c[1] = "swap" -> IF x = "one" THEN <<b, b, {a}>> ELSE <<a, UNION r, {}>>
    [] c[1] = "at" -> <<a, a, pairOf(a, x[1])>>
    [] c[1] = "snapshot" -> <<a, a, r \cup {x}>>
    [] c[1] = "equal" -> <<a, b, IF x \in a /\ x \in b THEN r ELSE r \cup {x}>>

\* The pairs of a vector whose key a map does not have, the first of each key.
FirstOf(items, map) ==
  {items[i] : i \in {j \in DOMAIN items :
     items[j][1] \notin keysOf(map) /\ \A h \in 1..(j - 1) : items[h][1] # items[j][1]}}

\* The same call as one step: what every visit together amounts to.
Outcome(c) ==
  LET a == data[c[2]]  b == data[c[3]] IN
  CASE c[1] = "merge" ->
         LET moved == {p \in b : p[1] \notin keysOf(a)} IN <<a \cup moved, b \ moved, {}>>
    [] c[1] = "swap" -> <<b, a, {}>>
    [] c[1] = "equal" -> <<a, b, (a \ b) \cup (b \ a)>>
    [] c[1] = "snapshot" -> <<a, a, a>>
    [] c[1] = "eraseIf" -> LET kept == {p \in a : ~Condemned(p)} IN <<kept, kept, a \ kept>>
    [] c[1] = "insertAll" ->
         LET new == FirstOf(c[4], a) IN <<a \cup new, a \cup new, new>>
    [] OTHER -> Effect(c, a, b, {}, c[4])

Run(t) ==
  LET c == call[t] IN
  \/ LockFirst(t, ~Shared(c), Visits(c), Outcome(c))
  \/ TrySecond(t, ~Shared(c), Visits(c), Outcome(c))
  \/ /\ todo[t] # <<>>
     /\ Step(t, Effect(c, data[c[2]], data[c[3]], got[t], Head(todo[t])))
  \/ Finish(t)
  \/ Return(t)

(* Any member of the bound; merge and swap of a map with itself return at    *)
(* once, == of a map with itself locks it once.                              *)
CallMap(t) ==
  \E c \in MapCalls :
    /\ c[1] \in {"merge", "swap"} => c[2] # c[3]
    /\ Call(t, c)

Next == \E t \in Threads : CallMap(t) \/ Run(t)

Spec == Init /\ [][Next]_vars
=============================================================================
