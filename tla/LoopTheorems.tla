---------------------------- MODULE LoopTheorems ----------------------------
(***************************************************************************)
(* Induction and loops: what the proofs about the sequential algorithms    *)
(* rest on.  A loop is a function that is defined by recursion over the    *)
(* number of its turns; the library's induction theorems take operators,   *)
(* so these are stated for sets and functions instead.                     *)
(***************************************************************************)
EXTENDS Binary, WellFoundedInduction, TLAPS

(* A set that has 0 and with every number the next has every number. *)
LEMMA Induction ==
  ASSUME NEW S, 0 \in S, \A k \in Nat : k \in S => k + 1 \in S
  PROVE  \A k \in Nat : k \in S
<1> SUFFICES ASSUME NEW n \in Nat, n \notin S PROVE FALSE
  OBVIOUS
<1> DEFINE D == {d \in Nat : d \notin S}
<1>1. PICK d \in D : \A e \in D : ~ (<<e, d>> \in OpToRel(<, Nat))
  <2>1. D \subseteq Nat /\ D # {}
    OBVIOUS
  <2> HIDE DEF D
  <2> QED  BY <2>1, NatLessThanWellFounded, WFMin
<1>2. d \in Nat /\ d \notin S /\ d # 0
  OBVIOUS
<1>3. d - 1 \in Nat /\ (d - 1) + 1 = d
  BY <1>2
<1>4. d - 1 \notin S
  BY <1>2, <1>3
<1>5. <<d - 1, d>> \in OpToRel(<, Nat)
  BY <1>2, <1>3 DEF OpToRel
<1> QED  BY <1>1, <1>3, <1>4, <1>5

(* The same up to a bound. *)
LEMMA InductionTo ==
  ASSUME NEW n \in Nat, NEW S, 0 \in S, \A k \in 0..(n - 1) : k \in S => k + 1 \in S
  PROVE  \A k \in 0..n : k \in S
<1> DEFINE A == {k \in Nat : k <= n => k \in S}
<1>1. 0 \in A
  OBVIOUS
<1>2. \A k \in Nat : k \in A => k + 1 \in A
  <2> SUFFICES ASSUME NEW k \in Nat, k \in A, k + 1 <= n PROVE k + 1 \in S
    OBVIOUS
  <2>1. k \in 0..(n - 1) /\ k \in S
    OBVIOUS
  <2> QED  BY <2>1
<1>3. \A k \in Nat : k \in A
  <2> HIDE DEF A
  <2> QED  BY <1>1, <1>2, Induction
<1> QED  BY <1>3

(* What holds before a loop and is kept by every turn holds throughout. *)
LEMMA LoopInvariant ==
  ASSUME NEW n \in Nat, NEW f, NEW T, f[0] \in T, \A k \in 1..n : f[k - 1] \in T => f[k] \in T
  PROVE  \A k \in 0..n : f[k] \in T
<1> DEFINE S == {k \in Nat : f[k] \in T}
<1>1. 0 \in S
  OBVIOUS
<1>2. \A k \in 0..(n - 1) : k \in S => k + 1 \in S
  <2> SUFFICES ASSUME NEW k \in 0..(n - 1), f[k] \in T PROVE f[k + 1] \in T
    OBVIOUS
  <2>1. k + 1 \in 1..n /\ (k + 1) - 1 = k
    OBVIOUS
  <2> QED  BY <2>1
<1>3. \A k \in 0..n : k \in S
  <2> HIDE DEF S
  <2> QED  BY <1>1, <1>2, InductionTo
<1> QED  BY <1>3

(* What a loop of n turns goes through: a, then each turn's step. *)
Runs(f, a, step, n) == \A k \in 0..n : f[k] = IF k = 0 THEN a ELSE step[k][f[k - 1]]

(* A loop whose steps stay in T has such a run. *)
LEMMA LoopRuns ==
  ASSUME NEW T, NEW a \in T, NEW n \in Nat, NEW step \in [1..n -> [T -> T]]
  PROVE  \E f \in [0..n -> T] : Runs(f, a, step, n)
<1> DEFINE Some(m) == \E f \in [0..n -> T] : Runs(f, a, step, m)
           S == {m \in 0..n : Some(m)}
<1>1. 0 \in S
  <2>1. [k \in 0..n |-> a] \in [0..n -> T] /\ Runs([k \in 0..n |-> a], a, step, 0)
    BY DEF Runs
  <2> QED  BY <2>1
<1>2. ASSUME NEW m \in 0..(n - 1), m \in S PROVE m + 1 \in S
  <2>1. PICK f \in [0..n -> T] : Runs(f, a, step, m)
    BY <1>2
  <2>2. m \in 0..n /\ m + 1 \in 1..n /\ m + 1 \in 0..n
    OBVIOUS
  <2> DEFINE x == step[m + 1][f[m]]
             g == [f EXCEPT ![m + 1] = x]
  <2>3. x \in T
    BY <2>2
  <2>4. g \in [0..n -> T]
    BY <2>3
  <2>5. ASSUME NEW k \in 0..(m + 1) PROVE g[k] = IF k = 0 THEN a ELSE step[k][g[k - 1]]
    <3>1. CASE k = m + 1
      BY <3>1, <2>2
    <3>2. CASE k # m + 1
      <4>1. k \in 0..m /\ k \in 0..n /\ k # m + 1
        BY <3>2
      <4>2. k # 0 => k - 1 \in 0..n /\ k - 1 # m + 1
        BY <4>1
      <4>3. g[k] = f[k] /\ (k # 0 => g[k - 1] = f[k - 1])
        BY <4>1, <4>2
      <4> HIDE DEF g
      <4> QED  BY <4>1, <4>3, <2>1 DEF Runs
    <3> QED  BY <3>1, <3>2
  <2>6. Runs(g, a, step, m + 1)
    BY <2>5 DEF Runs
  <2>7. Some(m + 1)
    <3> HIDE DEF g
    <3> QED  BY <2>4, <2>6
  <2> HIDE DEF Some, g, x
  <2> QED  BY <2>2, <2>7
<1>3. n \in S
  <2> HIDE DEF S
  <2>1. \A k \in 0..(n - 1) : k \in S => k + 1 \in S
    BY <1>2
  <2>2. \A k \in 0..n : k \in S
    BY <1>1, <2>1, InductionTo
  <2> QED  BY <2>2
<1> QED  BY <1>3
-----------------------------------------------------------------------------
(* Shifts *)

LEMMA ShiftRuns ==
  ASSUME NEW v \in Int, NEW n \in Nat
  PROVE  \E f \in [0..n -> Int] : /\ f[0] = v /\ f[n] = shiftRight(v, n)
                                  /\ \A k \in 1..n : f[k] = f[k - 1] \div 2
<1> DEFINE F(f) == f = [k \in 0..n |-> IF k = 0 THEN v ELSE f[k - 1] \div 2]
           step == [k \in 1..n |-> [x \in Int |-> x \div 2]]
<1>1. \E f : F(f)
  <2>1. step \in [1..n -> [Int -> Int]]
    OBVIOUS
  <2>2. PICK f \in [0..n -> Int] : Runs(f, v, step, n)
    <3> HIDE DEF step
    <3> QED  BY <2>1, LoopRuns
  <2>3. ASSUME NEW k \in 0..n PROVE f[k] = IF k = 0 THEN v ELSE f[k - 1] \div 2
    <3>1. k # 0 => k \in 1..n /\ f[k - 1] \in Int
      OBVIOUS
    <3> QED  BY <2>2, <3>1 DEF Runs
  <2>4. F(f)
    BY <2>3
  <2> QED  BY <2>4
<1> DEFINE rest == CHOOSE f : F(f)
<1>2. F(rest)
  <2> HIDE DEF F
  <2> QED  BY <1>1
<1>3. shiftRight(v, n) = rest[n]
  BY DEF shiftRight
<1> HIDE DEF rest
<1>4. rest[0] = v /\ \A k \in 1..n : rest[k] = rest[k - 1] \div 2
  BY <1>2
<1>5. \A k \in 0..n : rest[k] \in Int
  <2>1. \A k \in 1..n : rest[k - 1] \in Int => rest[k] \in Int
    BY <1>4
  <2> QED  BY <1>4, <2>1, LoopInvariant
<1>6. rest \in [0..n -> Int]
  BY <1>2, <1>5
<1> QED  BY <1>3, <1>4, <1>6

(* A shift by one more place halves. *)
LEMMA ShiftFacts ==
  ASSUME NEW v \in Int
  PROVE  /\ shiftRight(v, 0) = v
         /\ \A n \in Nat : shiftRight(v, n) \in Int
         /\ \A n \in Nat : shiftRight(v, n + 1) = shiftRight(v, n) \div 2
<1>1. shiftRight(v, 0) = v
  BY ShiftRuns
<1>2. ASSUME NEW n \in Nat PROVE shiftRight(v, n) \in Int
  BY ShiftRuns
<1>3. ASSUME NEW n \in Nat PROVE shiftRight(v, n + 1) = shiftRight(v, n) \div 2
  <2>1. PICK f \in [0..n -> Int] : /\ f[0] = v /\ f[n] = shiftRight(v, n)
                                   /\ \A k \in 1..n : f[k] = f[k - 1] \div 2
    BY ShiftRuns
  <2>2. PICK g \in [0..(n + 1) -> Int] : /\ g[0] = v /\ g[n + 1] = shiftRight(v, n + 1)
                                         /\ \A k \in 1..(n + 1) : g[k] = g[k - 1] \div 2
    BY n + 1 \in Nat, ShiftRuns
  <2> DEFINE S == {k \in 0..n : f[k] = g[k]}
  <2>3. \A k \in 0..(n - 1) : k \in S => k + 1 \in S
    <3> SUFFICES ASSUME NEW k \in 0..(n - 1), k \in S PROVE k + 1 \in S
      OBVIOUS
    <3>1. k + 1 \in 1..n /\ k + 1 \in 0..n /\ k + 1 \in 1..(n + 1) /\ (k + 1) - 1 = k
      OBVIOUS
    <3>2. f[k + 1] = f[k] \div 2
      BY <2>1, <3>1
    <3>3. g[k + 1] = g[k] \div 2
      BY <2>2, <3>1
    <3> QED  BY <3>1, <3>2, <3>3
  <2>4. 0 \in S
    BY <2>1, <2>2
  <2>5. \A k \in 0..n : k \in S
    <3> HIDE DEF S
    <3> QED  BY <2>3, <2>4, InductionTo
  <2>6. f[n] = g[n]
    BY <2>5
  <2>7. n + 1 \in 1..(n + 1) /\ (n + 1) - 1 = n
    OBVIOUS
  <2> QED  BY <2>1, <2>2, <2>6, <2>7
<1> QED  BY <1>1, <1>2, <1>3

LEMMA MaskRuns ==
  ASSUME NEW n \in Nat
  PROVE  \E f \in [0..n -> Nat] : /\ f[0] = 1 /\ f[n] = mask(n)
                                  /\ \A k \in 1..n : f[k] = 2 * f[k - 1]
<1> DEFINE F(f) == f = [k \in 0..n |-> IF k = 0 THEN 1 ELSE 2 * f[k - 1]]
           step == [k \in 1..n |-> [x \in Nat |-> 2 * x]]
<1>1. \E f : F(f)
  <2>1. step \in [1..n -> [Nat -> Nat]]
    OBVIOUS
  <2>2. PICK f \in [0..n -> Nat] : Runs(f, 1, step, n)
    <3> HIDE DEF step
    <3> QED  BY <2>1, LoopRuns
  <2>3. ASSUME NEW k \in 0..n PROVE f[k] = IF k = 0 THEN 1 ELSE 2 * f[k - 1]
    <3>1. k # 0 => k \in 1..n /\ f[k - 1] \in Nat
      OBVIOUS
    <3> QED  BY <2>2, <3>1 DEF Runs
  <2>4. F(f)
    BY <2>3
  <2> QED  BY <2>4
<1> DEFINE power == CHOOSE f : F(f)
<1>2. F(power)
  <2> HIDE DEF F
  <2> QED  BY <1>1
<1>3. mask(n) = power[n]
  BY DEF mask
<1> HIDE DEF power
<1>4. power[0] = 1 /\ \A k \in 1..n : power[k] = 2 * power[k - 1]
  BY <1>2
<1>5. \A k \in 0..n : power[k] \in Nat
  <2>1. \A k \in 1..n : power[k - 1] \in Nat => power[k] \in Nat
    BY <1>4
  <2>2. power[0] \in Nat
    BY <1>4
  <2> QED  BY <2>1, <2>2, LoopInvariant
<1>6. power \in [0..n -> Nat]
  BY <1>2, <1>5
<1> QED  BY <1>3, <1>4, <1>6

(* A mask one place higher is twice as large. *)
LEMMA MaskFacts ==
  /\ mask(0) = 1
  /\ \A n \in Nat : mask(n) \in Nat /\ mask(n) > 0
  /\ \A n \in Nat : mask(n + 1) = 2 * mask(n)
<1>1. mask(0) = 1
  BY MaskRuns
<1>2. ASSUME NEW n \in Nat PROVE mask(n) \in Nat
  <2>1. PICK f \in [0..n -> Nat] : f[n] = mask(n)
    BY MaskRuns
  <2> QED  BY <2>1, n \in 0..n
<1>3. ASSUME NEW n \in Nat PROVE mask(n + 1) = 2 * mask(n)
  <2>1. PICK f \in [0..n -> Nat] : /\ f[0] = 1 /\ f[n] = mask(n)
                                   /\ \A k \in 1..n : f[k] = 2 * f[k - 1]
    BY MaskRuns
  <2>2. PICK g \in [0..(n + 1) -> Nat] : /\ g[0] = 1 /\ g[n + 1] = mask(n + 1)
                                         /\ \A k \in 1..(n + 1) : g[k] = 2 * g[k - 1]
    BY n + 1 \in Nat, MaskRuns
  <2> DEFINE S == {k \in 0..n : f[k] = g[k]}
  <2>3. \A k \in 0..(n - 1) : k \in S => k + 1 \in S
    <3> SUFFICES ASSUME NEW k \in 0..(n - 1), k \in S PROVE k + 1 \in S
      OBVIOUS
    <3>1. k + 1 \in 1..n /\ k + 1 \in 0..n /\ k + 1 \in 1..(n + 1) /\ (k + 1) - 1 = k
      OBVIOUS
    <3>2. f[k + 1] = 2 * f[k]
      BY <2>1, <3>1
    <3>3. g[k + 1] = 2 * g[k]
      BY <2>2, <3>1
    <3> QED  BY <3>1, <3>2, <3>3
  <2>4. 0 \in S
    BY <2>1, <2>2
  <2>5. \A k \in 0..n : k \in S
    <3> HIDE DEF S
    <3> QED  BY <2>3, <2>4, InductionTo
  <2>6. f[n] = g[n]
    BY <2>5
  <2>7. n + 1 \in 1..(n + 1) /\ (n + 1) - 1 = n
    OBVIOUS
  <2> QED  BY <2>1, <2>2, <2>6, <2>7
<1> DEFINE P == {n \in Nat : mask(n) > 0}
<1>4. \A n \in Nat : n \in P => n + 1 \in P
  BY <1>2, <1>3
<1>5. 0 \in P
  BY <1>1
<1>6. \A n \in Nat : n \in P
  <2> HIDE DEF P
  <2> QED  BY <1>4, <1>5, Induction
<1> QED  BY <1>1, <1>2, <1>3, <1>6

LEMMA BitFacts ==
  ASSUME NEW v \in Int, NEW i \in Nat
  PROVE  BitOf(v, i) \in {0, 1}
         /\ shiftRight(v, i) = 2 * shiftRight(v, i + 1) + BitOf(v, i)
<1>1. shiftRight(v, i) \in Int /\ shiftRight(v, i + 1) = shiftRight(v, i) \div 2
  BY ShiftFacts
<1> DEFINE x == shiftRight(v, i)
<1>2. x \in Int
  BY <1>1
<1>3. x % 2 \in {0, 1} /\ x = 2 * (x \div 2) + (x % 2)
  <2> HIDE DEF x
  <2>1. x % 2 \in 0..1
    BY <1>2
  <2>2. x = 2 * (x \div 2) + (x % 2)
    BY <1>2
  <2> QED  BY <2>1, <2>2
<1> QED  BY <1>1, <1>3 DEF BitOf
=============================================================================
