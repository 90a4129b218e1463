------------------------------ MODULE TsStack ------------------------------
(***************************************************************************)
(* ts::Stack (C_Plus_Plus/data_structure/threadsafe/tsStack.hpp): a vector *)
(* behind a shared_mutex, and the comparisons, which ts::Queue has too.    *)
(* The contents of a stack are a sequence, its top last.                   *)
(***************************************************************************)
EXTENDS TwoLocks, SequencesExt

CONSTANTS
  StackCalls,   \* bound: the members called
  MaxDepth      \* bound: items of a stack

\* The comparisons have a second stack; the others have the first as both.
ASSUME StackCallsAssumption ==
  \A c \in StackCalls :
    /\ c[1] \in {"clear", "pop", "push", "pushAll", "front", "compare", "equals"}
    /\ c[1] \notin {"compare", "equals"} => c[3] = c[2]
    /\ c[1] = "push" => c[4] \in Int
    /\ c[1] = "pushAll" => c[4] \in Seq(Int)

StackInit ==
  /\ InitLocks
  /\ data = [m \in Objects |-> <<>>]

\* The members that lock shared.
SharedStack(c) == c[1] \in {"front", "compare", "equals"}

\* The steps of the body: the items of push(vector), which has the lock and so
\* appends each itself; the places two stacks are compared at, their sizes last.
Steps(c) ==
  CASE c[1] = "pushAll" -> c[4]
    [] c[1] \in {"compare", "equals"} ->
         [i \in 1..(1 + LET n == Len(data[c[2]])  m == Len(data[c[3]])
                        IN  IF n < m THEN n ELSE m) |-> i]
    [] OTHER -> <<c[4]>>

Sign(n) == IF n < 0 THEN -1 ELSE IF n > 0 THEN 1 ELSE 0

\* <=> at place i, after the places before compared as r.
CompareAt(a, b, r, i) ==
  IF r # {} THEN r
  ELSE IF i > Len(a) \/ i > Len(b) THEN {Sign(Len(a) - Len(b))}
  ELSE IF a[i] = b[i] THEN {} ELSE {Sign(a[i] - b[i])}

StackEffect(c, a, b, r, x) ==
  CASE c[1] = "clear" -> <<<<>>, <<>>, r>>
    [] c[1] = "pop" -> LET d == IF a = <<>> THEN a ELSE Front(a) IN <<d, d, r>>
    [] c[1] \in {"push", "pushAll"} -> <<Append(a, x), Append(a, x), r>>
    [] c[1] = "front" -> <<a, a, IF a = <<>> THEN {} ELSE {Last(a)}>>
    [] c[1] = "compare" -> <<a, b, CompareAt(a, b, r, x)>>
    [] c[1] = "equals" ->
         <<a, b, IF Len(a) # Len(b) THEN {1} ELSE {n * n : n \in CompareAt(a, b, r, x)}>>

\* The order of two stacks: that of their items, the first of which counts most.
Smaller(a, b) ==
  \/ IsStrictPrefix(a, b)
  \/ \E i \in DOMAIN a \cap DOMAIN b : a[i] < b[i] /\ \A j \in 1..(i - 1) : a[j] = b[j]

Order(a, b) == IF Smaller(a, b) THEN -1 ELSE IF Smaller(b, a) THEN 1 ELSE 0

\* The same call as one step.
StackOutcome(c) ==
  LET a == data[c[2]]  b == data[c[3]] IN
  CASE c[1] = "pushAll" -> <<a \o c[4], a \o c[4], {}>>
    [] c[1] = "compare" -> <<a, b, {Order(a, b)}>>
    [] c[1] = "equals" -> <<a, b, {IF a = b THEN 0 ELSE 1}>>
    [] OTHER -> StackEffect(c, a, b, {}, c[4])

RunStack(t) ==
  LET c == call[t] IN
  \/ LockFirst(t, ~SharedStack(c), Steps(c), StackOutcome(c))
  \/ TrySecond(t, ~SharedStack(c), Steps(c), StackOutcome(c))
  \/ /\ todo[t] # <<>>
     /\ Step(t, StackEffect(c, data[c[2]], data[c[3]], got[t], Head(todo[t])))
  \/ Finish(t)
  \/ Return(t)

(* Any member of the bound; nothing is pushed to a stack that is full.       *)
CallStack(t) ==
  \E c \in StackCalls :
    /\ c[1] = "push" => Len(data[c[2]]) < MaxDepth
    /\ c[1] = "pushAll" => Len(data[c[2]]) + Len(c[4]) <= MaxDepth
    /\ Call(t, c)

StackNext == \E t \in Threads : CallStack(t) \/ RunStack(t)

StackSpec == StackInit /\ [][StackNext]_vars
=============================================================================
