--------------------------- MODULE TsQueueProofs ---------------------------
(***************************************************************************)
(* Proofs about TsQueue, for any number of threads, capacity and batches:  *)
(* the circular buffer is an exact queue that implements WorkQueue, and,   *)
(* when moving an element does not throw, no wakeup of waitPop is lost and *)
(* a waitPop that blocked returns nullopt only when closed and drained.    *)
(***************************************************************************)
EXTENDS TsQueue, FiniteSetTheorems, TLAPS

PcLabels == {"idle", "notify_one", "notify_all", "wait", "woken"}

\* The part of the type invariant the wakeups depend on.
WakeTypes ==
  /\ count \in Nat
  /\ pc \in [Threads -> PcLabels]

WakeInv == WakeTypes /\ NoLostWakeup

\* Threads that will look at the queue: woken ones, and one per notify_one.
Wakers == Cardinality(Woken) + Cardinality(Signals)

(* The threads at a label are finitely many, so they can be counted.         *)
LEMMA CountsAreNat ==
  /\ IsFiniteSet(Woken) /\ Cardinality(Woken) \in Nat
  /\ IsFiniteSet(Signals) /\ Cardinality(Signals) \in Nat
<1>1. IsFiniteSet(Woken) /\ IsFiniteSet(Signals)
  BY TsQueueAssumption, FS_Subset DEF Woken, Signals
<1> QED
  BY <1>1, FS_CardinalityType

(* A new queue satisfies the invariant: it is empty and nobody waits.        *)
LEMMA InitWake == Init => WakeInv
<1> SUFFICES ASSUME Init PROVE WakeInv
  OBVIOUS
<1>1. WakeTypes
  BY DEF Init, WakeTypes, PcLabels
<1>2. Waiting = {}
  BY DEF Init, Waiting
<1> QED
  BY <1>1, <1>2 DEF WakeInv, NoLostWakeup

(* A step that adds no item, opens no queue, blocks nobody and takes no      *)
(* woken or notifying thread away keeps every wakeup.                        *)
LEMMA QuietStep ==
  ASSUME WakeInv, WakeTypes', count' <= count, pc' = pc, closed' = closed
  PROVE  WakeInv'
BY CountsAreNat
   DEF WakeInv, WakeTypes, NoLostWakeup, Waiting, Woken, Signals, Alarms

(* A step that leaves somebody on the way to a notify_all owes nothing.      *)
LEMMA AlarmedStep ==
  ASSUME WakeTypes', NEW t \in Threads, pc'[t] = "notify_all"
  PROVE  WakeInv'
BY DEF WakeInv, NoLostWakeup, Alarms

(* push(T) and tryPush: one item, one notify_one on its way.                 *)
LEMMA PushWake ==
  ASSUME WakeInv, NEW t \in Threads, pc[t] = "idle", count' = count + 1,
         pc' = [pc EXCEPT ![t] = "notify_one"], closed' = closed
  PROVE  WakeInv'
<1> USE DEF WakeInv, WakeTypes, PcLabels
<1>1. WakeTypes'
  OBVIOUS
<1>2. Waiting' = Waiting /\ Alarms' = Alarms /\ Woken' = Woken
  BY DEF Waiting, Alarms, Woken
<1>3. Signals' = Signals \cup {t} /\ t \notin Signals
  BY DEF Signals
<1>4. Cardinality(Signals') = Cardinality(Signals) + 1
  BY <1>3, CountsAreNat, FS_AddElement
<1> QED
  BY <1>1, <1>2, <1>4, CountsAreNat DEF NoLostWakeup

(* notify_one: a blocked thread becomes a woken one in the notifier's stead, *)
(* or nobody is blocked.                                                     *)
LEMMA NotifyOneWake ==
  ASSUME WakeInv, NEW t \in Threads, NotifyOne(t)
  PROVE  WakeInv'
<1> USE DEF WakeInv, WakeTypes, PcLabels
<1>0. count' = count /\ closed' = closed /\ pc[t] = "notify_one"
  BY DEF NotifyOne, ring
<1>1. ASSUME NEW w \in Threads, pc[w] = "wait",
             pc' = [pc EXCEPT ![t] = "idle", ![w] = "woken"]
      PROVE  WakeInv'
  <2>1. WakeTypes'
    BY <1>0, <1>1
  <2>2. Alarms' = Alarms /\ w \in Waiting
    BY <1>0, <1>1 DEF Alarms, Waiting
  <2>3. Woken' = Woken \cup {w} /\ w \notin Woken
    BY <1>0, <1>1 DEF Woken
  <2>4. Signals' = Signals \ {t} /\ t \in Signals
    BY <1>0, <1>1 DEF Signals
  <2>5. Cardinality(Woken') = Cardinality(Woken) + 1
    BY <2>3, CountsAreNat, FS_AddElement
  <2>6. Cardinality(Signals') = Cardinality(Signals) - 1
    BY <2>4, CountsAreNat, FS_RemoveElement
  <2> QED
    BY <1>0, <2>1, <2>2, <2>5, <2>6, CountsAreNat DEF NoLostWakeup
<1>2. CASE (\A w \in Threads : pc[w] # "wait") /\ Goto(t, "idle")
  <2>1. WakeTypes'
    BY <1>0, <1>2 DEF Goto
  <2>2. Waiting' = {}
    BY <1>2 DEF Waiting, Goto
  <2> QED
    BY <2>1, <2>2 DEF NoLostWakeup
<1> QED
  BY <1>1, <1>2 DEF NotifyOne

(* notify_all: nobody is blocked any more.                                   *)
LEMMA NotifyAllWake ==
  ASSUME WakeInv, NEW t \in Threads, NotifyAll(t)
  PROVE  WakeInv'
<1> USE DEF WakeInv, WakeTypes, PcLabels
<1>1. WakeTypes'
  BY DEF NotifyAll, ring
<1>2. Waiting' = {}
  BY DEF NotifyAll, Waiting
<1> QED
  BY <1>1, <1>2 DEF NoLostWakeup

(* A spurious wakeup only adds a thread that will look at the queue.         *)
LEMMA SpuriousWake ==
  ASSUME WakeInv, NEW t \in Threads, SpuriousWakeup(t)
  PROVE  WakeInv'
<1> USE DEF WakeInv, WakeTypes, PcLabels
<1>1. /\ pc[t] = "wait" /\ pc' = [pc EXCEPT ![t] = "woken"]
      /\ count' = count /\ closed' = closed
  BY DEF SpuriousWakeup, Goto, ring
<1>2. WakeTypes'
  BY <1>1
<1>3. Alarms' = Alarms /\ Signals' = Signals /\ t \in Waiting
  BY <1>1 DEF Alarms, Signals, Waiting
<1>4. Woken' = Woken \cup {t} /\ t \notin Woken
  BY <1>1 DEF Woken
<1>5. Cardinality(Woken') = Cardinality(Woken) + 1
  BY <1>4, CountsAreNat, FS_AddElement
<1> QED
  BY <1>1, <1>2, <1>3, <1>5, CountsAreNat DEF NoLostWakeup

(* waitPop: a woken thread that takes an item accounts for it, one that      *)
(* blocks again does so because there is none; a thread that never waited    *)
(* takes an item away from the woken ones, which is one item less to take.   *)
LEMMA WaitPopWake ==
  ASSUME WakeInv, NEW t \in Threads, WaitPop(t)
  PROVE  WakeInv'
<1> USE DEF WakeInv, WakeTypes, PcLabels
<1>0. pc[t] \in {"idle", "woken"} /\ closed' = closed
  BY DEF WaitPop
<1>1. CASE (count > 0 \/ closed) /\ TakeFront(t) /\ Goto(t, "idle")
  <2>1. count' = IF count = 0 THEN 0 ELSE count - 1
    BY <1>1 DEF TakeFront, DropFront, ring
  <2>2. WakeTypes'
    BY <1>1, <2>1 DEF Goto
  <2>3. Waiting' = Waiting /\ Alarms' = Alarms /\ Signals' = Signals
    BY <1>0, <1>1 DEF Goto, Waiting, Alarms, Signals
  <2>4. Woken' = Woken \ {t}
    BY <1>0, <1>1 DEF Goto, Woken
  <2>5. Cardinality(Woken') = IF t \in Woken THEN Cardinality(Woken) - 1 ELSE Cardinality(Woken)
    BY <2>4, CountsAreNat, FS_RemoveElement
  <2> QED
    BY <1>0, <1>1, <2>1, <2>2, <2>3, <2>5, CountsAreNat DEF NoLostWakeup
<1>2. CASE ~(count > 0 \/ closed) /\ Goto(t, "wait") /\ UNCHANGED <<ring, ret>>
  <2>1. count' = 0 /\ ~closed'
    BY <1>0, <1>2 DEF ring
  <2>2. WakeTypes'
    BY <1>2, <2>1 DEF Goto
  <2>3. Cardinality(Woken') \in Nat /\ Cardinality(Signals') \in Nat
    <3>1. IsFiniteSet(Woken') /\ IsFiniteSet(Signals')
      BY TsQueueAssumption, FS_Subset DEF Woken, Signals
    <3> QED
      BY <3>1, FS_CardinalityType
  <2> QED
    BY <2>1, <2>2, <2>3 DEF NoLostWakeup
<1> QED
  BY <1>1, <1>2 DEF WaitPop

(* Without throwing moves, no step loses a wakeup.                           *)
LEMMA NextWake ==
  ASSUME ~MayThrow, WakeInv, [Next]_vars
  PROVE  WakeInv'
<1> USE DEF WakeInv
<1>1. CASE UNCHANGED vars
  BY <1>1, QuietStep DEF vars, ring, WakeTypes
<1>2. ASSUME NEW t \in Threads, NEW v \in Items,
             Push(t, v) \/ (\E limit \in Limits : TryPush(t, v, limit))
      PROVE  WakeInv'
  <2>1. Len(<<v>>) = 1
    OBVIOUS
  <2>2. pc[t] = "idle" /\ count' = count + 1 /\ closed' = closed
        /\ pc' = [pc EXCEPT ![t] = "notify_one"]
    BY <1>2, <2>1 DEF Push, TryPush, PutBack, Goto
  <2> QED
    BY <2>2, PushWake
<1>3. ASSUME NEW t \in Threads, NEW s \in Batches, PushMany(t, s)
      PROVE  WakeInv'
  <2>1. Len(s) \in Nat
    BY TsQueueAssumption
  <2>2. count' = count + Len(s) /\ pc' = [pc EXCEPT ![t] = "notify_all"]
    BY <1>3 DEF PushMany, PutBack, Goto
  <2>3. WakeTypes' /\ pc'[t] = "notify_all"
    BY <2>1, <2>2 DEF WakeTypes, PcLabels
  <2> QED
    BY <2>3, AlarmedStep
<1>4. ASSUME NEW t \in Threads, Close(t) PROVE WakeInv'
  <2>1. WakeTypes' /\ pc'[t] = "notify_all"
    BY <1>4 DEF Close, Goto, WakeTypes, PcLabels, ring
  <2> QED
    BY <2>1, AlarmedStep
<1>5. ASSUME NEW t \in Threads, TryPop(t) \/ Pop(t) PROVE WakeInv'
  <2>1. count' \in Nat /\ count' <= count /\ pc' = pc /\ closed' = closed
    BY <1>5 DEF TryPop, Pop, TakeFront, DropFront, ring, WakeTypes
  <2> QED
    BY <2>1, QuietStep DEF WakeTypes
<1>6. ASSUME NEW t \in Threads,
             Clear(t) \/ ResetCapacity(t) \/ (\E n \in Sizes : Reserve(t, n))
      PROVE  WakeInv'
  <2>1. count' \in Nat /\ count' <= count /\ pc' = pc /\ closed' = closed
    BY <1>6 DEF Clear, ResetCapacity, Reserve, WakeTypes
  <2> QED
    BY <2>1, QuietStep DEF WakeTypes
<1>7. ASSUME NEW t \in Threads,
             PushThrows(t) \/ TakeThrows(t) \/ (\E s \in Batches : PushManyThrows(t, s))
      PROVE  FALSE
  BY <1>7 DEF PushThrows, TakeThrows, PushManyThrows
<1> QED
  BY <1>1, <1>2, <1>3, <1>4, <1>5, <1>6, <1>7, NotifyOneWake, NotifyAllWake,
     SpuriousWake, WaitPopWake DEF Next

(* If moving an element never throws, every item in the queue has a woken    *)
(* thread or a notify on its way while any thread is blocked in waitPop, and *)
(* a closed queue has a notify_all on its way: notifying after the unlock    *)
(* loses nothing, whatever overtakes it.                                     *)
THEOREM WakeupsAreNotLost ==
  ASSUME ~MayThrow
  PROVE  Spec => []NoLostWakeup
<1>1. Init => WakeInv
  BY InitWake
<1>2. WakeInv /\ [Next]_vars => WakeInv'
  BY NextWake
<1>3. WakeInv => NoLostWakeup
  BY DEF WakeInv
<1> QED
  BY <1>1, <1>2, <1>3, PTL DEF Spec

-----------------------------------------------------------------------------
(* The circular buffer *)

\* The buffer's part of the type invariant, with the ring itself.
RingInv == TypeOK /\ RingExact

(* What % does for the numbers the buffer computes with.                     *)
LEMMA ModNone == \A n \in Nat \ {0} : \A x \in 0..(n - 1) : x % n = x
OBVIOUS

LEMMA ModBelow == \A n \in Nat \ {0} : \A x \in (-n)..(-1) : x % n = x + n
OBVIOUS

LEMMA ModAbove == \A n \in Nat \ {0} : \A x \in n..(2 * n - 1) : x % n = x - n
OBVIOUS

LEMMA ModFarBelow == \A n \in Nat \ {0} : \A x \in (-2 * n)..(-n - 1) : x % n = x + 2 * n
<1> SUFFICES ASSUME NEW n \in Nat \ {0}, NEW x \in (-2 * n)..(-n - 1)
             PROVE  x % n = x + 2 * n
  OBVIOUS
<1>1. x + 2 * n \in 0..(n - 1)
  OBVIOUS
<1> QED
  BY <1>1

\* How far behind the front the slot j is, in a ring of n slots.
Behind(n, f, j) == IF j >= f THEN j - f ELSE j - f + n

(* Counting slots from the front, around the end.                            *)
LEMMA SlotBehind ==
  ASSUME NEW n \in Nat \ {0}, NEW f \in 0..(n - 1), NEW k \in 0..(n - 1)
  PROVE  /\ (f + k) % n = IF f + k < n THEN f + k ELSE f + k - n
         /\ (f + k) % n \in 0..(n - 1)
         /\ Behind(n, f, (f + k) % n) = k
<1>1. (f + k) % n = IF f + k < n THEN f + k ELSE f + k - n
  <2>1. CASE f + k < n
    <3>1. f + k \in 0..(n - 1)
      BY <2>1
    <3> QED
      BY <2>1, <3>1, ModNone
  <2>2. CASE f + k >= n
    <3>1. f + k \in n..(2 * n - 1)
      BY <2>2
    <3> QED
      BY <2>2, <3>1, ModAbove
  <2> QED
    BY <2>1, <2>2
<1> QED
  BY <1>1 DEF Behind

LEMMA BehindFront ==
  ASSUME NEW n \in Nat \ {0}, NEW f \in 0..(n - 1), NEW j \in 0..(n - 1)
  PROVE  (j - f) % n = Behind(n, f, j) /\ Behind(n, f, j) \in 0..(n - 1)
<1>1. CASE j >= f
  <2>1. j - f \in 0..(n - 1)
    BY <1>1
  <2> QED
    BY <1>1, <2>1, ModNone DEF Behind
<1>2. CASE j < f
  <2>1. j - f \in (-n)..(-1)
    BY <1>2
  <2> QED
    BY <1>2, <2>1, ModBelow DEF Behind
<1> QED
  BY <1>1, <1>2

LEMMA BehindBack ==
  ASSUME NEW n \in Nat \ {0}, NEW f \in 0..(n - 1), NEW j \in 0..(n - 1), NEW c \in 0..n
  PROVE  (j - f - c) % n = IF Behind(n, f, j) >= c THEN Behind(n, f, j) - c
                           ELSE Behind(n, f, j) - c + n
<1> DEFINE m == Behind(n, f, j)
<1>1. m \in 0..(n - 1) /\ (j - f = m \/ j - f = m - n)
  BY BehindFront DEF Behind
<1> HIDE DEF m
<1>2. CASE m >= c /\ j - f = m
  <2>1. j - f - c = m - c /\ m - c \in 0..(n - 1)
    BY <1>1, <1>2
  <2> QED
    BY <1>2, <2>1, ModNone DEF m
<1>3. CASE m >= c /\ j - f = m - n
  <2>1. j - f - c = m - c - n /\ m - c - n \in (-n)..(-1)
    BY <1>1, <1>3
  <2>2. (m - c - n) % n = m - c - n + n
    BY <2>1, ModBelow
  <2> QED
    BY <1>1, <1>3, <2>1, <2>2 DEF m
<1>4. CASE m < c /\ j - f = m
  <2>1. j - f - c = m - c /\ m - c \in (-n)..(-1)
    BY <1>1, <1>4
  <2> QED
    BY <1>4, <2>1, ModBelow DEF m
<1>5. CASE m < c /\ j - f = m - n
  <2>1. j - f - c = m - c - n /\ m - c - n \in (-2 * n)..(-n - 1)
    BY <1>1, <1>5
  <2>2. (m - c - n) % n = m - c - n + 2 * n
    BY <2>1, ModFarBelow
  <2>3. m - c - n + 2 * n = m - c + n
    BY <1>1
  <2> QED
    BY <1>1, <1>5, <2>1, <2>2, <2>3 DEF m
<1> QED
  BY <1>1, <1>2, <1>3, <1>4, <1>5

\* RingExact of a buffer d with front f and c items, without the arithmetic.
Ring(d, f, c) ==
  /\ d \in Seq(Items \cup {NoItem})
  /\ f \in Nat
  /\ c \in 0..Len(d)
  /\ Len(d) = 0 => f = 0
  /\ Len(d) # 0 => f \in 0..(Len(d) - 1)
  /\ \A i \in 1..Len(d) : d[i] # NoItem <=> Behind(Len(d), f, i - 1) < c

LEMMA RingMeans ==
  ASSUME NEW d \in Seq(Items \cup {NoItem}), NEW f \in Nat, NEW c \in Nat
  PROVE  Ring(d, f, c) <=>
           /\ c <= Len(d)
           /\ f < Max2(Len(d), 1)
           /\ \A i \in 1..Len(d) : d[i] # NoItem <=> (i - 1 - f) % Len(d) < c
<1> DEFINE n == Len(d)
<1>1. n \in Nat
  OBVIOUS
<1>2. CASE n = 0
  BY <1>1, <1>2 DEF Ring, Max2
<1>3. CASE n # 0
  <2>1. f < Max2(n, 1) <=> f \in 0..(n - 1)
    BY <1>1, <1>3 DEF Max2
  <2>2. ASSUME f \in 0..(n - 1), NEW i \in 1..n
        PROVE  (i - 1 - f) % n = Behind(n, f, i - 1)
    <3>1. i - 1 \in 0..(n - 1) /\ n \in Nat \ {0}
      BY <1>1, <1>3
    <3> HIDE DEF n
    <3> QED
      BY <2>2, <3>1, BehindFront
  <2> QED
    BY <1>1, <1>3, <2>1, <2>2 DEF Ring
<1> QED
  BY <1>2, <1>3

(* The i-th item sits in an occupied slot, so it is an item.                 *)
LEMMA ItemAt ==
  ASSUME NEW d, NEW f, NEW c, Ring(d, f, c), NEW i \in 1..c
  PROVE  d[Index(Len(d), f, i - 1) + 1] \in Items
<1> DEFINE n == Len(d)
           j == Index(n, f, i - 1)
<1>1. n \in Nat \ {0} /\ c \in 0..n /\ f \in 0..(n - 1) /\ i - 1 \in 0..(n - 1)
  BY DEF Ring
<1>2. j \in 0..(n - 1) /\ Behind(n, f, j) = i - 1
  <2> HIDE DEF n
  <2> QED
    BY <1>1, SlotBehind DEF Index
<1>3. j + 1 \in 1..n /\ j + 1 - 1 = j
  BY <1>1, <1>2
<1>4. d[j + 1] # NoItem
  <2>1. Behind(n, f, j + 1 - 1) < c
    BY <1>1, <1>2, <1>3
  <2>2. \A k \in 1..n : d[k] # NoItem <=> Behind(n, f, k - 1) < c
    BY DEF Ring
  <2> HIDE DEF j, n
  <2> QED
    BY <1>1, <1>2, <1>3, <2>1, <2>2
<1>5. d[j + 1] \in Items \cup {NoItem}
  <2>1. d \in Seq(Items \cup {NoItem})
    BY DEF Ring
  <2> HIDE DEF j
  <2> QED
    BY <1>3, <2>1
<1> QED
  BY <1>4, <1>5

(* The code's tests, for the present buffer and the next one.                *)
LEMMA RingNow == RingInv <=> TypeOK /\ Ring(data, front, count)
BY RingMeans DEF RingInv, RingExact, TypeOK

LEMMA RingNext == RingInv' <=> TypeOK' /\ Ring(data', front', count')
BY RingMeans DEF RingInv, RingExact, TypeOK

(* Contents is the sequence of the items.                                    *)
LEMMA ContentsAreItems ==
  ASSUME RingInv
  PROVE  Contents \in Seq(Items) /\ Len(Contents) = count /\ count \in Nat
<1>1. Ring(data, front, count) /\ count \in Nat
  BY RingNow DEF TypeOK
<1>2. Contents \in [1..count -> Items]
  BY <1>1, ItemAt DEF Contents
<1> QED
  BY <1>1, <1>2

\* The buffer d with the items of s stored behind its c items.
Stored(d, f, c, s) ==
  [i \in 1..Len(d) |->
     LET k == (i - 1 - f - c) % Len(d) IN IF k < Len(s) THEN s[k + 1] ELSE d[i]]

(* Storing fills the free slots next to the back and no other.               *)
LEMMA StoredExact ==
  ASSUME NEW d, NEW f, NEW c, NEW s \in Seq(Items), Ring(d, f, c), c + Len(s) <= Len(d)
  PROVE  /\ Len(Stored(d, f, c, s)) = Len(d)
         /\ Ring(Stored(d, f, c, s), f, c + Len(s))
         /\ \A i \in 1..c : Stored(d, f, c, s)[Index(Len(d), f, i - 1) + 1]
                              = d[Index(Len(d), f, i - 1) + 1]
         /\ \A i \in 1..Len(s) : Stored(d, f, c, s)[Index(Len(d), f, c + i - 1) + 1] = s[i]
<1> DEFINE n == Len(d)
           l == Len(s)
           e == Stored(d, f, c, s)
<1>1. /\ n \in Nat /\ l \in Nat /\ c \in Nat /\ c + l <= n /\ f \in Nat
      /\ n = 0 => f = 0
      /\ n # 0 => f \in 0..(n - 1)
  BY DEF Ring
<1>2. \A i \in 1..n : d[i] \in Items \cup {NoItem}
                      /\ (d[i] # NoItem <=> Behind(n, f, i - 1) < c)
  BY DEF Ring
<1>3. \A i \in 1..l : s[i] \in Items
  OBVIOUS
<1>4. ASSUME NEW j \in 0..(n - 1)
      PROVE  /\ Behind(n, f, j) \in 0..(n - 1)
             /\ Behind(n, f, j) \in c..(c + l - 1) => e[j + 1] = s[Behind(n, f, j) - c + 1]
             /\ Behind(n, f, j) \notin c..(c + l - 1) => e[j + 1] = d[j + 1]
  <2> DEFINE b == Behind(n, f, j)
             k == (j - f - c) % n
  <2>1. n \in Nat \ {0} /\ f \in 0..(n - 1) /\ c \in 0..n
    BY <1>1
  <2>2. b \in 0..(n - 1) /\ k = IF b >= c THEN b - c ELSE b - c + n
    <3> HIDE DEF n
    <3> QED
      BY <2>1, BehindFront, BehindBack
  <2>3. e[j + 1] = IF k < l THEN s[k + 1] ELSE d[j + 1]
    <3>1. j + 1 \in 1..n /\ j + 1 - 1 = j
      BY <2>1
    <3> QED
      BY <3>1 DEF Stored
  <2> HIDE DEF b, k, n, l, e
  <2>4. b \in c..(c + l - 1) => k < l /\ k = b - c
    BY <1>1, <2>1, <2>2
  <2>5. b \notin c..(c + l - 1) => ~(k < l)
    BY <1>1, <2>1, <2>2
  <2>6. b \in 0..(n - 1)
               /\ (b \in c..(c + l - 1) => e[j + 1] = s[b - c + 1])
               /\ (b \notin c..(c + l - 1) => e[j + 1] = d[j + 1])
    BY <2>2, <2>3, <2>4, <2>5
  <2> QED
    BY <2>6 DEF b
<1>5. Len(e) = n /\ e \in Seq(Items \cup {NoItem})
  <2>1. ASSUME NEW i \in 1..n PROVE e[i] \in Items \cup {NoItem}
    <3> DEFINE j == i - 1
    <3>1. j \in 0..(n - 1) /\ j + 1 = i
      BY <1>1
    <3>2. CASE Behind(n, f, j) \in c..(c + l - 1)
      <4>1. Behind(n, f, j) - c + 1 \in 1..l
        BY <1>1, <3>2
      <4> HIDE DEF j, n, l, e
      <4> QED
        BY <1>3, <1>4, <3>1, <3>2, <4>1
    <3>3. CASE Behind(n, f, j) \notin c..(c + l - 1)
      <4> HIDE DEF j, n, l, e
      <4> QED
        BY <1>2, <1>4, <3>1, <3>3
    <3> QED
      BY <3>2, <3>3
  <2>2. e = [i \in 1..n |-> e[i]]
    BY DEF Stored
  <2> HIDE DEF e, n
  <2> QED
    BY <1>1, <2>1, <2>2
<1>6. ASSUME NEW i \in 1..n PROVE e[i] # NoItem <=> Behind(n, f, i - 1) < c + l
  <2> DEFINE j == i - 1
             b == Behind(n, f, j)
  <2>1. j \in 0..(n - 1) /\ j + 1 = i
    BY <1>1
  <2>2. b \in 0..(n - 1)
    BY <1>4, <2>1
  <2>3. CASE b \in c..(c + l - 1)
    <3>1. b - c + 1 \in 1..l
      BY <1>1, <2>3
    <3>2. e[i] \in Items
      <4> HIDE DEF j, n, l, e
      <4> QED
        BY <1>3, <1>4, <2>1, <2>3, <3>1
    <3>3. b < c + l
      BY <1>1, <2>3
    <3> HIDE DEF b, j, n, l, e
    <3> QED
      BY <3>2, <3>3, TsQueueAssumption DEF b, j
  <2>4. CASE b \notin c..(c + l - 1)
    <3>1. e[i] = d[i]
      <4> HIDE DEF j, n, l, e
      <4> QED
        BY <1>4, <2>1, <2>4
    <3>2. b < c <=> b < c + l
      <4> HIDE DEF b, n, l
      <4> QED
        BY <1>1, <2>2, <2>4
    <3>3. d[i] # NoItem <=> b < c
      BY <1>2
    <3> HIDE DEF b, j, n, l, e
    <3> QED
      BY <3>1, <3>2, <3>3 DEF b, j
  <2> QED
    BY <2>3, <2>4
<1>7. Ring(e, f, c + l)
  <2> HIDE DEF n, l, e
  <2> QED
    BY <1>1, <1>5, <1>6 DEF Ring
<1>8. ASSUME NEW i \in 1..c PROVE e[Index(n, f, i - 1) + 1] = d[Index(n, f, i - 1) + 1]
  <2>1. n \in Nat \ {0} /\ f \in 0..(n - 1) /\ i - 1 \in 0..(n - 1)
    BY <1>1
  <2>2. i - 1 \notin c..(c + l - 1)
    BY <1>1
  <2> DEFINE x == Index(n, f, i - 1)
  <2>3. x \in 0..(n - 1) /\ Behind(n, f, x) = i - 1
    <3> HIDE DEF n, l, e
    <3> QED
      BY <2>1, SlotBehind DEF Index
  <2> HIDE DEF n, l, e, x
  <2>4. e[x + 1] = d[x + 1]
    BY <1>4, <2>2, <2>3
  <2> QED
    BY <2>4 DEF x
<1>9. ASSUME NEW i \in 1..l PROVE e[Index(n, f, c + i - 1) + 1] = s[i]
  <2>1. n \in Nat \ {0} /\ f \in 0..(n - 1) /\ c + i - 1 \in 0..(n - 1)
    BY <1>1
  <2>2. c + i - 1 \in c..(c + l - 1) /\ c + i - 1 - c + 1 = i
    BY <1>1
  <2> DEFINE x == Index(n, f, c + i - 1)
  <2>3. x \in 0..(n - 1) /\ Behind(n, f, x) = c + i - 1
    <3> DEFINE k == c + i - 1
    <3>1. n \in Nat \ {0} /\ f \in 0..(n - 1) /\ k \in 0..(n - 1)
      BY <2>1
    <3> HIDE DEF n, k
    <3>2. Index(n, f, k) \in 0..(n - 1) /\ Behind(n, f, Index(n, f, k)) = k
      BY <3>1, SlotBehind DEF Index
    <3> QED
      BY <3>2 DEF k
  <2>4. Behind(n, f, x) \in c..(c + l - 1) /\ Behind(n, f, x) - c + 1 = i
    <3> HIDE DEF x, n, l
    <3> QED
      BY <1>1, <2>2, <2>3
  <2> HIDE DEF x, n, l, e
  <2>5. e[x + 1] = s[i]
    BY <1>4, <2>3, <2>4
  <2> QED
    BY <2>5 DEF x
<1> QED
  BY <1>5, <1>7, <1>8, <1>9

(* A relocated buffer has the items in its first slots, in order.            *)
LEMMA RelocatedExact ==
  ASSUME RingInv, NEW space \in Nat, count <= space
  PROVE  /\ Len(Relocated(space)) = space
         /\ Ring(Relocated(space), 0, count)
         /\ \A i \in 1..count : Relocated(space)[i] = Contents[i]
<1> DEFINE e == Relocated(space)
<1>1. /\ count \in Nat
      /\ \A i \in 1..count : Contents[i] \in Items
  BY ContentsAreItems
<1>2. \A i \in 1..space : e[i] = IF i <= count THEN Contents[i] ELSE NoItem
  BY DEF Relocated
<1>3. e \in Seq(Items \cup {NoItem}) /\ Len(e) = space
  <2>1. \A i \in 1..space : e[i] \in Items \cup {NoItem}
    <3> HIDE DEF e
    <3> QED
      BY <1>1, <1>2
  <2>2. e = [i \in 1..space |-> e[i]]
    BY DEF Relocated
  <2> HIDE DEF e
  <2> QED
    BY <2>1, <2>2
<1> HIDE DEF e
<1>4. ASSUME NEW i \in 1..space PROVE e[i] # NoItem <=> Behind(space, 0, i - 1) < count
  <2>1. Behind(space, 0, i - 1) = i - 1
    BY DEF Behind
  <2>2. e[i] # NoItem <=> i <= count
    BY <1>1, <1>2, TsQueueAssumption
  <2> QED
    BY <1>1, <2>1, <2>2
<1>5. Ring(e, 0, count)
  <2>1. count \in 0..Len(e) /\ (Len(e) # 0 => 0 \in 0..(Len(e) - 1))
    BY <1>1, <1>3
  <2> QED
    BY <1>3, <1>4, <2>1 DEF Ring
<1>6. \A i \in 1..count : e[i] = Contents[i]
  BY <1>1, <1>2
<1> QED
  BY <1>3, <1>5, <1>6 DEF e

(* push: the items of s end up behind the others, in order, whether or not   *)
(* the buffer had to grow.                                                   *)
LEMMA PutBackExact ==
  ASSUME RingInv, NEW s \in Seq(Items), NEW room \in Nat, Len(s) <= room, PutBack(s, room)
  PROVE  Ring(data', front', count') /\ count' = count + Len(s) /\ Contents' = Contents \o s
<1> DEFINE n == RoomFor(room)
           l == Len(s)
           grow == n # Len(data)
           d == IF grow THEN Relocated(n) ELSE data
           f == IF grow THEN 0 ELSE front
<1>1. l \in Nat /\ l <= room /\ count \in Nat /\ Len(data) \in Nat /\ count <= Len(data)
      /\ Ring(data, front, count)
  BY RingNow DEF TypeOK, Ring
<1>2. n \in Nat /\ count + room <= n
  BY <1>1 DEF RoomFor, Max2
<1>3. Len(d) = n /\ Ring(d, f, count)
  <2>1. count <= n
    BY <1>1, <1>2
  <2> HIDE DEF n
  <2> QED
    BY <1>1, <1>2, <2>1, RelocatedExact
<1>4. \A i \in 1..count : d[Index(n, f, i - 1) + 1] = Contents[i]
  <2>1. CASE grow
    <3>1. ASSUME NEW i \in 1..count PROVE Index(n, f, i - 1) + 1 = i
      <4> DEFINE k == i - 1
      <4>1. n \in Nat \ {0} /\ 0 \in 0..(n - 1) /\ k \in 0..(n - 1) /\ 0 + k < n /\ k + 1 = i
        BY <1>1, <1>2
      <4>2. f = 0
        BY <2>1
      <4> HIDE DEF n, f, k
      <4>3. (0 + k) % n = 0 + k
        BY <4>1, SlotBehind
      <4>4. Index(n, f, k) + 1 = i
        BY <4>1, <4>2, <4>3 DEF Index
      <4> QED
        BY <4>4 DEF k
    <3>2. count <= n
      BY <1>1, <1>2
    <3> HIDE DEF n
    <3> QED
      BY <1>1, <1>2, <2>1, <3>1, <3>2, RelocatedExact
  <2>2. CASE ~grow
    BY <2>2 DEF Contents
  <2> QED
    BY <2>1, <2>2
<1>5. data' = Stored(d, f, count, s) /\ front' = f /\ count' = count + l
  <2>1. data' = [i \in 1..n |-> LET k == (i - 1 - f - count) % n
                                IN  IF k < Len(s) THEN s[k + 1] ELSE d[i]]
    BY DEF PutBack
  <2>2. front' = f /\ count' = count + l
    BY DEF PutBack
  <2> HIDE DEF n, d, f
  <2> QED
    BY <1>3, <2>1, <2>2 DEF Stored
<1> HIDE DEF n, d, f
<1>6. count + l <= Len(d)
  BY <1>1, <1>2, <1>3
<1>7. /\ Len(data') = n
      /\ Ring(data', front', count')
      /\ \A i \in 1..count : data'[Index(n, f, i - 1) + 1] = d[Index(n, f, i - 1) + 1]
      /\ \A i \in 1..l : data'[Index(n, f, count + i - 1) + 1] = s[i]
  BY <1>3, <1>5, <1>6, StoredExact
<1>8. Contents' = [i \in 1..(count + l) |-> data'[Index(n, f, i - 1) + 1]]
  BY <1>5, <1>7 DEF Contents
<1>9. Contents \in Seq(Items) /\ Len(Contents) = count
  BY ContentsAreItems
<1>10. ASSUME NEW i \in 1..(count + l)
       PROVE  data'[Index(n, f, i - 1) + 1] = (Contents \o s)[i]
  <2>1. CASE i <= count
    BY <1>1, <1>4, <1>7, <1>9, <2>1
  <2>2. CASE i > count
    <3>1. i - count \in 1..l /\ count + (i - count) - 1 = i - 1
      BY <1>1, <2>2
    <3>2. data'[Index(n, f, i - 1) + 1] = s[i - count]
      <4> DEFINE k == i - count
      <4>1. k \in 1..l /\ count + k - 1 = i - 1
        BY <3>1
      <4>2. data'[Index(n, f, count + k - 1) + 1] = s[k]
        <5> HIDE DEF k
        <5> QED
          BY <1>7, <4>1
      <4> QED
        BY <4>1, <4>2
    <3>3. (Contents \o s)[i] = s[i - count]
      BY <1>1, <1>9, <2>2
    <3> QED
      BY <3>2, <3>3
  <2>3. i <= count \/ i > count
    BY <1>1
  <2> QED
    BY <2>1, <2>2, <2>3
<1>11. Contents \o s = [i \in 1..(count + l) |-> (Contents \o s)[i]]
  <2> DEFINE q == Contents \o s
  <2>1. q \in Seq(Items) /\ Len(q) = count + l
    BY <1>1, <1>9
  <2> HIDE DEF q
  <2>2. q = [i \in 1..(count + l) |-> q[i]]
    BY <2>1
  <2> QED
    BY <2>2 DEF q
<1>12. Contents' = Contents \o s
  BY <1>8, <1>10, <1>11
<1> QED
  BY <1>5, <1>7, <1>12

(* Taking the front: the oldest item goes and the others keep their order.   *)
LEMMA DropFrontExact ==
  ASSUME RingInv, count > 0, DropFront
  PROVE  /\ Ring(data', front', count') /\ count' = count - 1
         /\ Contents # <<>> /\ data[front + 1] = Head(Contents) /\ data[front + 1] \in Items
         /\ Contents' = Tail(Contents)
<1> DEFINE n == Len(data)
<1>1. /\ n \in Nat \ {0} /\ count \in 1..n /\ front \in 0..(n - 1)
      /\ Ring(data, front, count) /\ data \in Seq(Items \cup {NoItem})
  BY RingNow DEF TypeOK, Ring
<1>2. /\ data' = [data EXCEPT ![front + 1] = NoItem]
      /\ front' = Index(n, front, 1) /\ count' = count - 1
  BY DEF DropFront
<1>3. front' = IF front + 1 < n THEN front + 1 ELSE 0
  <2>1. CASE n = 1
    <3>1. front + 1 \in n..(2 * n - 1)
      BY <1>1, <2>1
    <3> HIDE DEF n
    <3>2. (front + 1) % n = front + 1 - n
      BY SMTT(20), <1>1, <3>1, ModAbove
    <3> QED
      BY <1>1, <1>2, <2>1, <3>2 DEF Index
  <2>2. CASE n # 1
    <3>1. 1 \in 0..(n - 1)
      BY <1>1, <2>2
    <3> HIDE DEF n
    <3>2. (front + 1) % n = IF front + 1 < n THEN front + 1 ELSE front + 1 - n
      BY <1>1, <3>1, SlotBehind
    <3> QED
      BY <1>1, <1>2, <3>2 DEF Index
  <2> QED
    BY <2>1, <2>2
<1>4. front' \in 0..(n - 1)
  BY <1>1, <1>3
<1>5. Len(data') = n /\ data' \in Seq(Items \cup {NoItem})
      /\ \A i \in 1..n : data'[i] = IF i = front + 1 THEN NoItem ELSE data[i]
  BY <1>1, <1>2
<1>6. ASSUME NEW j \in 0..(n - 1)
      PROVE  /\ Behind(n, front, j) = 0 <=> j = front
             /\ j = front => Behind(n, front', j) = n - 1
             /\ j # front => Behind(n, front', j) = Behind(n, front, j) - 1
  BY <1>1, <1>3 DEF Behind
<1>7. ASSUME NEW i \in 1..n PROVE data'[i] # NoItem <=> Behind(n, front', i - 1) < count - 1
  <2> DEFINE j == i - 1
  <2>1. j \in 0..(n - 1) /\ i = j + 1
    BY <1>1
  <2>2. data[i] # NoItem <=> Behind(n, front, j) < count
    BY <1>1 DEF Ring
  <2>3. Behind(n, front, j) \in 0..(n - 1)
    <3> HIDE DEF n, j
    <3> QED
      BY <1>1, <2>1, BehindFront
  <2> HIDE DEF n, j
  <2>4. CASE j = front
    <3>1. data'[i] = NoItem
      BY <1>1, <1>5, <2>1, <2>4
    <3>2. Behind(n, front', j) = n - 1
      BY <1>6, <2>1, <2>4
    <3> QED
      BY <1>1, <3>1, <3>2 DEF j
  <2>5. CASE j # front
    <3>1. data'[i] = data[i]
      BY <1>1, <1>5, <2>1, <2>5
    <3>2. Behind(n, front', j) = Behind(n, front, j) - 1
      BY <1>6, <2>1, <2>5
    <3>3. Behind(n, front', j) < count - 1 <=> Behind(n, front, j) < count
      BY <1>1, <2>3, <3>2
    <3> QED
      BY <2>2, <3>1, <3>3 DEF j
  <2> QED
    BY <2>4, <2>5
<1>8. Ring(data', front', count')
  <2>1. count' \in 0..n /\ front' \in Nat
    BY <1>1, <1>2, <1>4
  <2> HIDE DEF n
  <2> QED
    BY <1>1, <1>2, <1>4, <1>5, <1>7, <2>1 DEF Ring
<1>9. Contents \in Seq(Items) /\ Len(Contents) = count /\ count \in Nat
  BY ContentsAreItems
<1>10. Index(n, front, 0) = front
  <2>1. front + 0 = front /\ 0 \in 0..(n - 1)
    BY <1>1
  <2> HIDE DEF n
  <2> QED
    BY <1>1, <2>1, ModNone DEF Index
<1>11. Contents[1] = data[front + 1]
  <2>1. 1 \in 1..count /\ 1 - 1 = 0
    BY <1>1
  <2>2. Contents[1] = data[Index(n, front, 1 - 1) + 1]
    BY <2>1 DEF Contents
  <2> QED
    BY <1>10, <2>1, <2>2
<1>12. Contents # <<>> /\ Head(Contents) = Contents[1] /\ Contents[1] \in Items
  BY <1>1, <1>9
<1>13. ASSUME NEW i \in 1..(count - 1)
       PROVE  data'[Index(n, front', i - 1) + 1] = Contents[i + 1]
  <2> DEFINE x == Index(n, front, i)
  <2>1. i \in 0..(n - 1) /\ i - 1 \in 0..(n - 1) /\ i + 1 \in 1..count /\ i + 1 - 1 = i /\ i > 0
    BY <1>1
  <2>2. Contents[i + 1] = data[x + 1]
    BY <2>1 DEF Contents
  <2>3. x = (IF front + i < n THEN front + i ELSE front + i - n) /\ x \in 0..(n - 1)
    <3> HIDE DEF n
    <3> QED
      BY <1>1, <2>1, SlotBehind DEF Index
  <2>4. Index(n, front', i - 1) = IF front' + (i - 1) < n THEN front' + (i - 1)
                                  ELSE front' + (i - 1) - n
    <3> DEFINE k == i - 1
    <3>1. n \in Nat \ {0} /\ front' \in 0..(n - 1) /\ k \in 0..(n - 1)
      BY <1>1, <1>4, <2>1
    <3> HIDE DEF n, k
    <3>2. Index(n, front', k) = IF front' + k < n THEN front' + k ELSE front' + k - n
      BY <3>1, SlotBehind DEF Index
    <3> QED
      BY <3>2 DEF k
  <2> HIDE DEF n, x
  <2>5. Index(n, front', i - 1) = x /\ x # front
    BY <1>1, <1>3, <2>1, <2>3, <2>4
  <2>6. data'[x + 1] = data[x + 1]
    BY <1>1, <1>5, <2>3, <2>5
  <2> QED
    BY <2>2, <2>5, <2>6
<1>14. Contents' = [i \in 1..(count - 1) |-> data'[Index(n, front', i - 1) + 1]]
  BY <1>2, <1>5 DEF Contents
<1>15. Tail(Contents) = [i \in 1..(count - 1) |-> Contents[i + 1]]
  <2> DEFINE q == Contents
             u == Tail(q)
  <2>1. q \in Seq(Items) /\ q # <<>> /\ Len(q) = count /\ count \in Nat
    BY <1>9, <1>12
  <2> HIDE DEF q
  <2>2. u \in Seq(Items) /\ Len(u) = count - 1 /\ \A i \in 1..(count - 1) : u[i] = q[i + 1]
    BY <2>1
  <2> HIDE DEF u
  <2>3. u = [i \in 1..(count - 1) |-> u[i]]
    BY <2>2
  <2> QED
    BY <2>2, <2>3 DEF q, u
<1>16. Contents' = Tail(Contents)
  BY <1>13, <1>14, <1>15
<1> QED
  BY <1>2, <1>8, <1>11, <1>12, <1>16

(* clear and resetCapacity leave free slots only.                            *)
LEMMA EmptyRing ==
  ASSUME NEW d \in Seq({NoItem})
  PROVE  Ring(d, 0, 0) /\ d \in Seq(Items \cup {NoItem})
<1>1. /\ d \in Seq(Items \cup {NoItem}) /\ Len(d) \in Nat
      /\ \A i \in 1..Len(d) : d[i] = NoItem
  OBVIOUS
<1>2. \A i \in 1..Len(d) : ~(Behind(Len(d), 0, i - 1) < 0)
  BY <1>1 DEF Behind
<1> QED
  BY <1>1, <1>2 DEF Ring

-----------------------------------------------------------------------------
(* The steps, and what they are of WorkQueue *)

ThreadTypes ==
  /\ closed \in BOOLEAN
  /\ pc \in [Threads -> PcLabels]
  /\ ret \in [Threads -> Items \cup {NoItem}]

\* A step of the queue is a step of the abstract queue, or none.
AbstractStep == [Abstract!Next]_<<Contents, closed, ret>>

LEMMA ThreadTypesNow == RingInv => ThreadTypes
BY DEF RingInv, TypeOK, ThreadTypes, PcLabels

(* The invariant after a step, from the ring and the threads.                *)
LEMMA RingAfter == Ring(data', front', count') /\ ThreadTypes' => RingInv'
<1> SUFFICES ASSUME Ring(data', front', count'), ThreadTypes' PROVE RingInv'
  OBVIOUS
<1>1. data' \in Seq(Items \cup {NoItem}) /\ front' \in Nat /\ count' \in Nat
  BY DEF Ring
<1>2. TypeOK'
  BY <1>1 DEF TypeOK, ThreadTypes, PcLabels
<1> QED
  BY <1>2, RingNext

(* A step that leaves the buffer alone, and what its users were given.       *)
LEMMA SameRing ==
  ASSUME RingInv, UNCHANGED ring, ThreadTypes'
  PROVE  RingInv' /\ Contents' = Contents
<1>1. data' = data /\ front' = front /\ count' = count
  BY DEF ring
<1>2. Ring(data', front', count')
  BY <1>1, RingNow
<1> QED
  BY <1>1, <1>2, RingAfter DEF Contents, Index

(* Items added behind the others are the abstract Put.                       *)
LEMMA PutStep ==
  ASSUME RingInv, NEW s \in Seq(Items), Contents' = Contents \o s, UNCHANGED <<closed, ret>>
  PROVE  AbstractStep
<1> DEFINE q == Contents
<1>1. q \in Seq(Items) /\ Len(q) \in Nat /\ Len(s) \in Nat
  BY ContentsAreItems
<1> HIDE DEF q
<1>2. q \o s \in Seq(Items) /\ Len(q \o s) >= Len(q)
  BY <1>1
<1>3. SubSeq(q \o s, 1, Len(q)) = q
  <2>1. \A i \in 1..Len(q) : (q \o s)[i] = q[i]
    BY <1>1
  <2>2. SubSeq(q \o s, 1, Len(q)) = [i \in 1..Len(q) |-> q[i]]
    <3> DEFINE qs == q \o s
    <3>1. qs \in Seq(Items) /\ Len(qs) >= Len(q) /\ \A i \in 1..Len(q) : qs[i] = q[i]
      BY <1>2, <2>1
    <3> HIDE DEF qs
    <3>2. SubSeq(qs, 1, Len(q)) = [i \in 1..Len(q) |-> qs[i]]
      BY <1>1, <3>1
    <3> QED
      BY <3>1, <3>2 DEF qs
  <2> QED
    BY <1>1, <2>2
<1>4. Abstract!Put
  BY <1>2, <1>3 DEF Abstract!Put, q
<1> QED
  BY <1>4 DEF AbstractStep, Abstract!Next

(* The pushes, throwing ones included.                                       *)
LEMMA PushStep ==
  ASSUME RingInv, NEW s \in Seq(Items), NEW room \in Nat, Len(s) <= room, PutBack(s, room),
         UNCHANGED <<closed, ret>>, pc' \in [Threads -> PcLabels]
  PROVE  RingInv' /\ AbstractStep
<1>1. Ring(data', front', count') /\ Contents' = Contents \o s
  BY PutBackExact
<1>2. ThreadTypes'
  BY ThreadTypesNow DEF ThreadTypes
<1> QED
  BY <1>1, <1>2, RingAfter, PutStep

(* takeFront delivers the oldest item to its caller, or nullopt if there is  *)
(* none.                                                                     *)
LEMMA TakeStep ==
  ASSUME RingInv, NEW t \in Threads, TakeFront(t), closed' = closed,
         pc' \in [Threads -> PcLabels]
  PROVE  RingInv' /\ AbstractStep
<1>1. ThreadTypes /\ count \in Nat
  BY ThreadTypesNow DEF RingInv, TypeOK
<1>2. CASE count = 0 /\ ret' = [ret EXCEPT ![t] = NoItem] /\ UNCHANGED ring
  <2>1. ThreadTypes'
    BY <1>1, <1>2 DEF ThreadTypes
  <2>2. Contents = <<>>
    BY <1>2, ContentsAreItems
  <2>3. Abstract!Refuse(t)
    BY <1>2, <2>1, <2>2, SameRing DEF Abstract!Refuse
  <2> QED
    BY <1>2, <2>1, <2>3, SameRing DEF AbstractStep, Abstract!Next
<1>3. CASE count > 0 /\ ret' = [ret EXCEPT ![t] = data[front + 1]] /\ DropFront
  <2>1. /\ Ring(data', front', count') /\ data[front + 1] \in Items
        /\ Contents # <<>> /\ data[front + 1] = Head(Contents) /\ Contents' = Tail(Contents)
    BY <1>3, DropFrontExact
  <2>2. ThreadTypes'
    BY <1>1, <1>3, <2>1 DEF ThreadTypes
  <2>3. Abstract!Deliver(t)
    BY <1>3, <2>1 DEF Abstract!Deliver
  <2> QED
    BY <2>1, <2>2, <2>3, RingAfter DEF AbstractStep, Abstract!Next
<1> QED
  BY <1>2, <1>3 DEF TakeFront

(* clear and resetCapacity empty the queue.                                  *)
LEMMA EmptyStep ==
  ASSUME RingInv, data' \in Seq({NoItem}), front' = 0, count' = 0,
         UNCHANGED <<closed, pc, ret>>
  PROVE  RingInv' /\ AbstractStep
<1>1. Ring(data', front', count')
  BY EmptyRing
<1>2. ThreadTypes'
  BY ThreadTypesNow DEF ThreadTypes
<1>3. Contents' = <<>>
  BY DEF Contents
<1>4. Abstract!Empty
  BY <1>3 DEF Abstract!Empty
<1> QED
  BY <1>1, <1>2, <1>4, RingAfter DEF AbstractStep, Abstract!Next

(* reserve moves the items without changing them.                            *)
LEMMA ReserveStep ==
  ASSUME RingInv, NEW t \in Threads, NEW space \in Nat, Reserve(t, space)
  PROVE  RingInv' /\ AbstractStep
<1>1. /\ count \in 0..Len(data) /\ Len(data) \in Nat /\ space > Len(data)
      /\ data' = Relocated(space) /\ front' = 0 /\ count' = count
      /\ UNCHANGED <<closed, pc, ret>>
  BY RingNow DEF Reserve, Ring
<1>2. /\ Len(data') = space /\ Ring(data', front', count')
      /\ \A i \in 1..count : data'[i] = Contents[i]
  BY <1>1, RelocatedExact
<1>3. ThreadTypes'
  BY <1>1, ThreadTypesNow DEF ThreadTypes
<1>4. ASSUME NEW i \in 1..count PROVE Index(space, 0, i - 1) + 1 = i
  <2> DEFINE k == i - 1
  <2>1. space \in Nat \ {0} /\ k \in 0..(space - 1) /\ 0 + k = k /\ k + 1 = i
    BY <1>1
  <2>2. Index(space, 0, k) = (0 + k) % space
    BY DEF Index
  <2> HIDE DEF k
  <2>3. k % space = k
    BY <2>1, ModNone
  <2>4. Index(space, 0, k) + 1 = i
    BY <2>1, <2>2, <2>3
  <2> QED
    BY <2>4 DEF k
<1>5. Contents' = [i \in 1..count |-> data'[Index(space, 0, i - 1) + 1]]
  BY <1>1, <1>2 DEF Contents
<1>6. Contents' = [i \in 1..count |-> Contents[i]]
  BY <1>2, <1>4, <1>5
<1>7. Contents' = Contents
  BY <1>6, ContentsAreItems
<1> QED
  BY <1>1, <1>2, <1>3, <1>7, RingAfter DEF AbstractStep

(* The condition variable's steps move threads only.                         *)
LEMMA QuietRing ==
  ASSUME RingInv, UNCHANGED <<ring, closed, ret>>, pc' \in [Threads -> PcLabels]
  PROVE  RingInv' /\ AbstractStep
<1>1. ThreadTypes'
  BY ThreadTypesNow DEF ThreadTypes
<1> QED
  BY <1>1, SameRing DEF AbstractStep

(* A new queue is empty, whatever its capacity.                              *)
LEMMA InitRing == Init => RingInv /\ Abstract!Init
<1> SUFFICES ASSUME Init PROVE RingInv /\ Abstract!Init
  OBVIOUS
<1>1. data \in Seq({NoItem}) /\ front = 0 /\ count = 0
  BY TsQueueAssumption DEF Init
<1>2. Ring(data, front, count) /\ data \in Seq(Items \cup {NoItem})
  BY <1>1, EmptyRing
<1>3. ThreadTypes
  BY DEF ThreadTypes, Init, PcLabels
<1>4. TypeOK
  BY <1>1, <1>2, <1>3 DEF TypeOK, ThreadTypes, PcLabels
<1>5. Contents = <<>>
  BY <1>1 DEF Contents
<1> QED
  BY <1>2, <1>4, <1>5, RingNow DEF Init, Abstract!Init

(* Every step keeps the ring exact, and is a step of the abstract queue or   *)
(* none.                                                                     *)
LEMMA NextRing ==
  ASSUME RingInv, [Next]_vars
  PROVE  RingInv' /\ AbstractStep
<1>0. /\ pc \in [Threads -> PcLabels] /\ ret \in [Threads -> Items \cup {NoItem}]
      /\ closed \in BOOLEAN /\ count \in Nat
  BY ThreadTypesNow DEF ThreadTypes, RingInv, TypeOK
<1>1. CASE UNCHANGED vars
  <2>1. UNCHANGED <<ring, closed, ret>> /\ pc' = pc
    BY <1>1 DEF vars
  <2> QED
    BY <1>0, <2>1, QuietRing
<1>2. ASSUME NEW t \in Threads, NEW label \in PcLabels, Goto(t, label)
      PROVE  pc' \in [Threads -> PcLabels]
  BY <1>0, <1>2 DEF Goto
<1>3. ASSUME NEW t \in Threads, NEW v \in Items, PutBack(<<v>>, 1), Goto(t, "notify_one"),
             UNCHANGED <<closed, ret>>
      PROVE  RingInv' /\ AbstractStep
  <2>1. <<v>> \in Seq(Items) /\ Len(<<v>>) <= 1 /\ 1 \in Nat
    OBVIOUS
  <2>2. pc' \in [Threads -> PcLabels]
    BY <1>2, <1>3 DEF PcLabels
  <2> QED
    BY <1>3, <2>1, <2>2, PushStep
<1>4. ASSUME NEW t \in Threads, NEW v \in Items, Push(t, v)
      PROVE  RingInv' /\ AbstractStep
  BY <1>3, <1>4 DEF Push
<1>5. ASSUME NEW t \in Threads, NEW v \in Items, NEW limit \in Limits, TryPush(t, v, limit)
      PROVE  RingInv' /\ AbstractStep
  BY <1>3, <1>5 DEF TryPush
<1>6. ASSUME NEW t \in Threads, PushThrows(t)
      PROVE  RingInv' /\ AbstractStep
  <2>1. <<>> \in Seq(Items) /\ Len(<<>>) <= 1 /\ 1 \in Nat
    OBVIOUS
  <2>2. PutBack(<<>>, 1) /\ UNCHANGED <<closed, ret>> /\ pc' \in [Threads -> PcLabels]
    BY <1>0, <1>6 DEF PushThrows
  <2> QED
    BY <2>1, <2>2, PushStep
<1>7. ASSUME NEW t \in Threads, NEW s \in Batches, PushMany(t, s)
      PROVE  RingInv' /\ AbstractStep
  <2>1. s \in Seq(Items) /\ Len(s) \in Nat /\ Len(s) <= Len(s)
    BY TsQueueAssumption
  <2>2. PutBack(s, Len(s)) /\ UNCHANGED <<closed, ret>> /\ pc' \in [Threads -> PcLabels]
    BY <1>2, <1>7 DEF PushMany, PcLabels
  <2> QED
    BY <2>1, <2>2, PushStep
<1>8. ASSUME NEW t \in Threads, NEW s \in Batches, PushManyThrows(t, s)
      PROVE  RingInv' /\ AbstractStep
  <2>1. s \in Seq(Items) /\ Len(s) \in Nat
    BY TsQueueAssumption
  <2>2. PICK k \in 0..(Len(s) - 1) : PutBack(SubSeq(s, 1, k), Len(s))
    BY <1>8 DEF PushManyThrows
  <2>3. UNCHANGED <<closed, ret>> /\ pc' \in [Threads -> PcLabels]
    BY <1>0, <1>8 DEF PushManyThrows
  <2>4. SubSeq(s, 1, k) \in Seq(Items) /\ Len(SubSeq(s, 1, k)) <= Len(s)
    BY <2>1, <2>2
  <2> QED
    BY <2>1, <2>2, <2>3, <2>4, PushStep
<1>9. ASSUME NEW t \in Threads, NotifyOne(t) \/ NotifyAll(t) \/ SpuriousWakeup(t) \/ TakeThrows(t)
      PROVE  RingInv' /\ AbstractStep
  <2>1. UNCHANGED <<ring, closed, ret>>
    BY <1>9 DEF NotifyOne, NotifyAll, SpuriousWakeup, TakeThrows
  <2>2. pc' \in [Threads -> PcLabels]
    BY <1>0, <1>9 DEF NotifyOne, NotifyAll, SpuriousWakeup, TakeThrows, Goto, PcLabels
  <2> QED
    BY <2>1, <2>2, QuietRing
<1>10. ASSUME NEW t \in Threads, WaitPop(t)
       PROVE  RingInv' /\ AbstractStep
  <2>1. pc' \in [Threads -> PcLabels] /\ closed' = closed
    BY <1>2, <1>10 DEF WaitPop, PcLabels
  <2>2. CASE TakeFront(t)
    BY <2>1, <2>2, TakeStep
  <2>3. CASE UNCHANGED <<ring, ret>>
    BY <2>1, <2>3, QuietRing
  <2> QED
    BY <1>10, <2>2, <2>3 DEF WaitPop
<1>11. ASSUME NEW t \in Threads, TryPop(t)
       PROVE  RingInv' /\ AbstractStep
  BY <1>0, <1>11, TakeStep DEF TryPop
<1>12. ASSUME NEW t \in Threads, Pop(t)
       PROVE  RingInv' /\ AbstractStep
  <2>1. /\ Ring(data', front', count') /\ Contents # <<>> /\ Contents' = Tail(Contents)
        /\ UNCHANGED <<closed, pc, ret>>
    BY <1>12, DropFrontExact DEF Pop
  <2>2. ThreadTypes'
    BY <1>0, <2>1 DEF ThreadTypes
  <2>3. Abstract!Discard
    BY <2>1 DEF Abstract!Discard
  <2> QED
    BY <2>1, <2>2, <2>3, RingAfter DEF AbstractStep, Abstract!Next
<1>13. ASSUME NEW t \in Threads, Close(t)
       PROVE  RingInv' /\ AbstractStep
  <2>1. closed' = TRUE /\ UNCHANGED ring /\ ret' = ret /\ pc' \in [Threads -> PcLabels]
    BY <1>2, <1>13 DEF Close, PcLabels
  <2>2. ThreadTypes'
    BY <1>0, <2>1 DEF ThreadTypes
  <2>3. RingInv' /\ Contents' = Contents
    BY <2>1, <2>2, SameRing
  <2>4. Abstract!Close
    BY <2>1, <2>3 DEF Abstract!Close
  <2> QED
    BY <2>3, <2>4 DEF AbstractStep, Abstract!Next
<1>14. ASSUME NEW t \in Threads, Clear(t)
       PROVE  RingInv' /\ AbstractStep
  <2>1. data \in Seq(Items \cup {NoItem}) /\ Len(data) \in Nat /\ Ring(data, front, count)
        /\ front \in Nat
    BY RingNow DEF TypeOK
  <2>2. ASSUME NEW i \in 1..Len(data)
        PROVE  (IF (i - 1 - front) % Len(data) < count THEN NoItem ELSE data[i]) = NoItem
    <3>1. data[i] # NoItem <=> (i - 1 - front) % Len(data) < count
      BY DEF RingInv, RingExact
    <3> QED
      BY <3>1
  <2>3. data' = [i \in 1..Len(data) |-> NoItem]
    BY <1>14, <2>2 DEF Clear
  <2>4. data' \in Seq({NoItem})
    BY <2>1, <2>3
  <2>5. front' = 0 /\ count' = 0 /\ UNCHANGED <<closed, pc, ret>>
    BY <1>14 DEF Clear
  <2> QED
    BY <2>4, <2>5, EmptyStep
<1>15. ASSUME NEW t \in Threads, ResetCapacity(t)
       PROVE  RingInv' /\ AbstractStep
  <2>1. data' \in Seq({NoItem}) /\ front' = 0 /\ count' = 0 /\ UNCHANGED <<closed, pc, ret>>
    BY <1>15 DEF ResetCapacity
  <2> QED
    BY <2>1, EmptyStep
<1>16. ASSUME NEW t \in Threads, NEW n \in Sizes, Reserve(t, n)
       PROVE  RingInv' /\ AbstractStep
  BY <1>16, TsQueueAssumption, ReserveStep
<1> QED
  BY <1>1, <1>4, <1>5, <1>6, <1>7, <1>8, <1>9, <1>10, <1>11, <1>12, <1>13, <1>14, <1>15, <1>16
  DEF Next

(* Every variable of the queue keeps its type.                               *)
THEOREM QueueTypes == Spec => []TypeOK
<1>1. RingInv => TypeOK
  BY DEF RingInv
<1> QED
  BY <1>1, InitRing, NextRing, PTL DEF Spec

(* Growth, wrap-around, pops and clear keep exactly the count slots from     *)
(* front on occupied: no item is left behind and none is lost.               *)
THEOREM RingIsExact == Spec => []RingExact
<1>1. RingInv => RingExact
  BY DEF RingInv
<1> QED
  BY <1>1, InitRing, NextRing, PTL DEF Spec

(* For any capacity, number of threads and batches, with moves that throw or *)
(* not, tsQueue.hpp is a first-in-first-out queue that delivers each item to *)
(* one thread at most.                                                       *)
THEOREM QueueRefinesWorkQueue == Spec => ImplementsQueue
<1>1. Init => RingInv /\ Abstract!Init
  BY InitRing
<1>2. RingInv /\ [Next]_vars => RingInv' /\ [Abstract!Next]_<<Contents, closed, ret>>
  BY NextRing DEF AbstractStep
<1> QED
  BY <1>1, <1>2, PTL DEF Spec, ImplementsQueue, Abstract!Spec

(* Only waitPop takes a thread from "woken" to "idle" when no move throws.   *)
LEMMA OnlyWaitPopReturns ==
  ASSUME ~MayThrow, RingInv, Next, NEW w \in Threads, pc[w] = "woken", pc'[w] = "idle"
  PROVE  WaitPop(w)
<1>0. pc \in [Threads -> PcLabels]
  BY ThreadTypesNow DEF ThreadTypes
<1>1. PICK t \in Threads :
        \/ \E v \in Items : Push(t, v)
        \/ \E v \in Items, limit \in Limits : TryPush(t, v, limit)
        \/ PushThrows(t)
        \/ \E s \in Batches : PushMany(t, s) \/ PushManyThrows(t, s)
        \/ NotifyOne(t) \/ NotifyAll(t) \/ SpuriousWakeup(t) \/ WaitPop(t) \/ TakeThrows(t)
        \/ TryPop(t) \/ Pop(t) \/ Close(t) \/ Clear(t) \/ ResetCapacity(t)
        \/ \E n \in Sizes : Reserve(t, n)
  BY DEF Next
<1>2. pc' # pc
  OBVIOUS
<1>3. CASE \E v \in Items : Push(t, v)
  BY <1>0, <1>3 DEF Push, Goto
<1>4. CASE \E v \in Items, limit \in Limits : TryPush(t, v, limit)
  BY <1>0, <1>4 DEF TryPush, Goto
<1>5. CASE \E s \in Batches : PushMany(t, s)
  BY <1>0, <1>5 DEF PushMany, Goto
<1>6. CASE NotifyOne(t)
  BY <1>0, <1>6 DEF NotifyOne, Goto
<1>7. CASE NotifyAll(t)
  BY <1>0, <1>7 DEF NotifyAll
<1>8. CASE SpuriousWakeup(t)
  BY <1>0, <1>8 DEF SpuriousWakeup, Goto
<1>9. CASE WaitPop(t)
  <2>1. pc' = [pc EXCEPT ![t] = "idle"] \/ pc' = [pc EXCEPT ![t] = "wait"]
    BY <1>9 DEF WaitPop, Goto
  <2>2. t = w
    BY <1>0, <2>1
  <2> QED
    BY <1>9, <2>2
<1>10. CASE Close(t)
  BY <1>0, <1>10 DEF Close, Goto
<1>11. CASE \/ PushThrows(t) \/ TakeThrows(t) \/ \E s \in Batches : PushManyThrows(t, s)
  BY <1>11 DEF PushThrows, TakeThrows, PushManyThrows
<1>12. CASE \/ TryPop(t) \/ Pop(t) \/ Clear(t) \/ ResetCapacity(t)
            \/ \E n \in Sizes : Reserve(t, n)
  BY <1>2, <1>12 DEF TryPop, Pop, Clear, ResetCapacity, Reserve
<1> QED
  BY <1>1, <1>3, <1>4, <1>5, <1>6, <1>7, <1>8, <1>9, <1>10, <1>11, <1>12

(* With moves that do not throw, a waitPop that blocked returns nullopt only *)
(* if the queue was closed and empty in the critical section it returns from.*)
THEOREM NulloptMeansDrained ==
  ASSUME ~MayThrow
  PROVE  Spec => NulloptOnlyWhenDrained
<1> DEFINE Drained ==
      \A t \in Threads :
        pc[t] = "woken" /\ pc'[t] = "idle" /\ ret'[t] = NoItem => closed /\ count = 0
<1>1. RingInv /\ [Next]_vars => [Drained]_vars
  <2> SUFFICES ASSUME RingInv, Next, NEW t \in Threads,
                      pc[t] = "woken", pc'[t] = "idle", ret'[t] = NoItem
               PROVE  closed /\ count = 0
    OBVIOUS
  <2>1. WaitPop(t) /\ pc \in [Threads -> PcLabels] /\ ret \in [Threads -> Items \cup {NoItem}]
        /\ count \in Nat
    BY OnlyWaitPopReturns, ThreadTypesNow DEF ThreadTypes, RingInv, TypeOK
  <2>2. (count > 0 \/ closed) /\ TakeFront(t)
    BY <2>1 DEF WaitPop, Goto
  <2>3. CASE count > 0
    <3>1. ret'[t] = data[front + 1] /\ DropFront
      BY <2>1, <2>2, <2>3 DEF TakeFront
    <3>2. data[front + 1] \in Items
      BY <2>3, <3>1, DropFrontExact
    <3> QED
      BY <3>1, <3>2, TsQueueAssumption
  <2> QED
    BY <2>1, <2>2, <2>3
<1>2. Init => RingInv
  BY InitRing
<1>3. RingInv /\ [Next]_vars => RingInv'
  BY NextRing
<1>4. Spec => [][Drained]_vars
  BY <1>1, <1>2, <1>3, PTL DEF Spec
<1> QED
  BY <1>4 DEF NulloptOnlyWhenDrained
=============================================================================
