------------------------------ MODULE TsQueue ------------------------------
(***************************************************************************)
(* bstd::ds::ts::Queue<T> (data_structure/threadsafe/tsQueue.hpp): a       *)
(* circular buffer of optionals behind one shared_mutex, with a condition  *)
(* variable for waitPop.  A critical section is one step; a notify happens *)
(* in a step of its own, after the lock is released.  Moving an element    *)
(* may throw (MayThrow; the elements can be copied then, so a relocation   *)
(* that throws changes nothing).                                           *)
(***************************************************************************)
EXTENDS Integers, Sequences, FiniteSets

CONSTANTS
  Threads,
  Items,
  NoItem,       \* std::nullopt
  Batches,      \* vectors given to push(std::vector<T>)
  Sizes,        \* sizes given to the constructor and to reserve
  Limits,       \* maxSize arguments of tryPush
  MayThrow,     \* can moving an item throw?
  MaxCount      \* bound: items the queue ever holds

ASSUME TsQueueAssumption ==
  /\ IsFiniteSet(Threads)
  /\ NoItem \notin Items
  /\ Batches \subseteq Seq(Items)
  /\ Sizes \subseteq Nat
  /\ Limits \subseteq Nat
  /\ MayThrow \in BOOLEAN
  /\ MaxCount \in Nat

VARIABLES
  data,    \* slots of _data; slot i of the code is data[i + 1]
  front,   \* _front
  count,   \* _count
  closed,  \* _closed
  pc,      \* thread -> "idle", "notify_one", "notify_all", "wait" or "woken"
  ret      \* thread -> what its last tryPop or waitPop returned

ring == <<data, front, count>>
vars == <<ring, closed, pc, ret>>

-----------------------------------------------------------------------------
(* The circular buffer *)

Max2(a, b) == IF a >= b THEN a ELSE b

\* index(offset), with the size as a parameter.
Index(n, f, offset) == (f + offset) % n

\* The items, front first.
Contents == [i \in 1..count |-> data[Index(Len(data), front, i - 1) + 1]]

\* Faulty variant: the slots are copied in place, although front becomes 0.
RelocatedInPlace(space) ==
  [i \in 1..space |-> IF i <= Len(data) THEN data[i] ELSE NoItem]

\* relocate: the items move to the start of a buffer with `space` slots.
Relocated(space) == [i \in 1..space |-> IF i <= count THEN Contents[i] ELSE NoItem]

\* makeRoom: the size of the buffer once `extra` more items fit.
RoomFor(extra) ==
  IF count + extra > Len(data)
  THEN Max2(count + extra, IF Len(data) = 0 THEN 2 ELSE Len(data) * 2)
  ELSE Len(data)

\* push: makeRoom(room), then the items of s stored behind the back in turn.
PutBack(s, room) ==
  LET n    == RoomFor(room)
      grow == n # Len(data)
      d    == IF grow THEN Relocated(n) ELSE data
      f    == IF grow THEN 0 ELSE front
  IN  /\ data' = [i \in 1..n |->
                    LET k == (i - 1 - f - count) % n
                    IN  IF k < Len(s) THEN s[k + 1] ELSE d[i]]
      /\ front' = f
      /\ count' = count + Len(s)

DropFront ==
  /\ data' = [data EXCEPT ![front + 1] = NoItem]
  /\ front' = Index(Len(data), front, 1)
  /\ count' = count - 1

\* takeFront, returning to thread t.
TakeFront(t) ==
  \/ /\ count = 0
     /\ ret' = [ret EXCEPT ![t] = NoItem]
     /\ UNCHANGED ring
  \/ /\ count > 0
     /\ ret' = [ret EXCEPT ![t] = data[front + 1]]
     /\ DropFront

Goto(t, label) == pc' = [pc EXCEPT ![t] = label]

-----------------------------------------------------------------------------
Init ==
  /\ \E n \in Sizes \cup {0} : data = [i \in 1..n |-> NoItem]
  /\ front = 0
  /\ count = 0
  /\ closed = FALSE
  /\ pc = [t \in Threads |-> "idle"]
  /\ ret = [t \in Threads |-> NoItem]

(* push(T): stored under the lock; the notify comes after it is released. *)
Push(t, v) ==
  /\ pc[t] = "idle"
  /\ count < MaxCount
  /\ PutBack(<<v>>, 1)
  /\ Goto(t, "notify_one")
  /\ UNCHANGED <<closed, ret>>

(* push(T) or tryPush whose move of the item throws: nothing is stored, but *)
(* the buffer may have grown; no notify.                                    *)
PushThrows(t) ==
  /\ MayThrow
  /\ pc[t] = "idle"
  /\ count < MaxCount
  /\ PutBack(<<>>, 1)
  /\ UNCHANGED <<closed, pc, ret>>

(* tryPush: the size check and the push are one critical section. *)
TryPush(t, v, limit) ==
  /\ pc[t] = "idle"
  /\ count < MaxCount
  /\ count < limit
  /\ PutBack(<<v>>, 1)
  /\ Goto(t, "notify_one")
  /\ UNCHANGED <<closed, ret>>

(* push(std::vector<T>): all items in one critical section, then notify_all. *)
PushMany(t, s) ==
  /\ pc[t] = "idle"
  /\ count + Len(s) <= MaxCount
  /\ PutBack(s, Len(s))
  /\ Goto(t, "notify_all")
  /\ UNCHANGED <<closed, ret>>

(* push(std::vector<T>) whose k-th move throws: the earlier items stay in    *)
(* the queue and the notify_all is never reached.                            *)
PushManyThrows(t, s) ==
  /\ MayThrow
  /\ pc[t] = "idle"
  /\ count + Len(s) <= MaxCount
  /\ \E k \in 0..(Len(s) - 1) : PutBack(SubSeq(s, 1, k), Len(s))
  /\ UNCHANGED <<closed, pc, ret>>

\* Faulty variant: the notification is skipped.
NotifyOneSkipped(t) ==
  /\ pc[t] = "notify_one"
  /\ Goto(t, "idle")
  /\ UNCHANGED <<ring, closed, ret>>

\* _ready.notify_one(): some blocked thread, if there is one, is woken.
NotifyOne(t) ==
  /\ pc[t] = "notify_one"
  /\ \/ \E w \in Threads :
          /\ pc[w] = "wait"
          /\ pc' = [pc EXCEPT ![t] = "idle", ![w] = "woken"]
     \/ /\ \A w \in Threads : pc[w] # "wait"
        /\ Goto(t, "idle")
  /\ UNCHANGED <<ring, closed, ret>>

\* Faulty variant: one blocked thread is woken instead of all.
NotifyAllWakesOne(t) ==
  /\ pc[t] = "notify_all"
  /\ \/ \E w \in Threads :
          /\ pc[w] = "wait"
          /\ pc' = [pc EXCEPT ![t] = "idle", ![w] = "woken"]
     \/ /\ \A w \in Threads : pc[w] # "wait"
        /\ Goto(t, "idle")
  /\ UNCHANGED <<ring, closed, ret>>

\* _ready.notify_all().
NotifyAll(t) ==
  /\ pc[t] = "notify_all"
  /\ pc' = [w \in Threads |-> IF w = t THEN "idle"
                              ELSE IF pc[w] = "wait" THEN "woken" ELSE pc[w]]
  /\ UNCHANGED <<ring, closed, ret>>

(* A condition variable may wake a thread for no reason. *)
SpuriousWakeup(t) ==
  /\ pc[t] = "wait"
  /\ Goto(t, "woken")
  /\ UNCHANGED <<ring, closed, ret>>

\* Faulty variant: the predicate is tested before blocking only.
WaitPopOnce(t) ==
  /\ \/ /\ pc[t] = "woken" \/ (pc[t] = "idle" /\ (count > 0 \/ closed))
        /\ TakeFront(t)
        /\ Goto(t, "idle")
     \/ /\ pc[t] = "idle" /\ ~(count > 0 \/ closed)
        /\ Goto(t, "wait")
        /\ UNCHANGED <<ring, ret>>
  /\ UNCHANGED closed

(* waitPop, at its call or after a wakeup: with the lock held, the predicate *)
(* decides between taking the front and blocking (again).                    *)
WaitPop(t) ==
  /\ pc[t] \in {"idle", "woken"}
  /\ \/ /\ count > 0 \/ closed
        /\ TakeFront(t)
        /\ Goto(t, "idle")
     \/ /\ ~(count > 0 \/ closed)
        /\ Goto(t, "wait")
        /\ UNCHANGED <<ring, ret>>
  /\ UNCHANGED closed

(* waitPop (or tryPop) whose move of the front item throws: the item stays. *)
TakeThrows(t) ==
  /\ MayThrow
  /\ pc[t] \in {"idle", "woken"}
  /\ count > 0
  /\ Goto(t, "idle")
  /\ UNCHANGED <<ring, closed, ret>>

TryPop(t) ==
  /\ pc[t] = "idle"
  /\ TakeFront(t)
  /\ UNCHANGED <<closed, pc>>

\* Faulty variant: the capacity is tested instead of the number of items.
PopByCapacity(t) ==
  /\ pc[t] = "idle"
  /\ Len(data) > 0
  /\ DropFront
  /\ UNCHANGED <<closed, pc, ret>>

Pop(t) ==
  /\ pc[t] = "idle"
  /\ count > 0
  /\ DropFront
  /\ UNCHANGED <<closed, pc, ret>>

Close(t) ==
  /\ pc[t] = "idle"
  /\ closed' = TRUE
  /\ Goto(t, "notify_all")
  /\ UNCHANGED <<ring, ret>>

\* Faulty variant: the slots from the first one on are reset.
ClearFromStart(t) ==
  /\ pc[t] = "idle"
  /\ data' = [i \in 1..Len(data) |-> IF i <= count THEN NoItem ELSE data[i]]
  /\ front' = 0
  /\ count' = 0
  /\ UNCHANGED <<closed, pc, ret>>

(* clear: the occupied slots are reset, the capacity stays. *)
Clear(t) ==
  /\ pc[t] = "idle"
  /\ data' = [i \in 1..Len(data) |->
                IF (i - 1 - front) % Len(data) < count THEN NoItem ELSE data[i]]
  /\ front' = 0
  /\ count' = 0
  /\ UNCHANGED <<closed, pc, ret>>

ResetCapacity(t) ==
  /\ pc[t] = "idle"
  /\ data' = <<NoItem, NoItem>>
  /\ front' = 0
  /\ count' = 0
  /\ UNCHANGED <<closed, pc, ret>>

Reserve(t, space) ==
  /\ pc[t] = "idle"
  /\ space > Len(data)
  /\ data' = Relocated(space)
  /\ front' = 0
  /\ UNCHANGED <<count, closed, pc, ret>>

Next ==
  \E t \in Threads :
    \/ \E v \in Items : Push(t, v)
    \/ \E v \in Items, limit \in Limits : TryPush(t, v, limit)
    \/ PushThrows(t)
    \/ \E s \in Batches : PushMany(t, s) \/ PushManyThrows(t, s)
    \/ NotifyOne(t)
    \/ NotifyAll(t)
    \/ SpuriousWakeup(t)
    \/ WaitPop(t)
    \/ TakeThrows(t)
    \/ TryPop(t)
    \/ Pop(t)
    \/ Close(t)
    \/ Clear(t)
    \/ ResetCapacity(t)
    \/ \E n \in Sizes : Reserve(t, n)

Spec == Init /\ [][Next]_vars

(* A thread past its critical section reaches its notify, and a woken thread *)
(* gets the lock back: nothing holds the lock across a blocking call.        *)
Fairness ==
  \A t \in Threads :
    /\ WF_vars(NotifyOne(t))
    /\ WF_vars(NotifyAll(t))
    /\ WF_vars(pc[t] = "woken" /\ WaitPop(t))

FairSpec == Spec /\ Fairness

-----------------------------------------------------------------------------
(* Properties *)

(* Every variable holds a value of its type. *)
TypeOK ==
  /\ data \in Seq(Items \cup {NoItem})
  /\ front \in Nat
  /\ count \in Nat
  /\ closed \in BOOLEAN
  /\ pc \in [Threads -> {"idle", "notify_one", "notify_all", "wait", "woken"}]
  /\ ret \in [Threads -> Items \cup {NoItem}]

(* The occupied slots are exactly the count slots from the front on, wrapped *)
(* around: relocation, pops and clear leave no item behind in a free slot    *)
(* and no hole among the items.                                              *)
RingExact ==
  /\ count <= Len(data)
  /\ front < Max2(Len(data), 1)
  /\ \A i \in 1..Len(data) :
       data[i] # NoItem <=> (i - 1 - front) % Len(data) < count

Waiting == {t \in Threads : pc[t] = "wait"}
Woken   == {t \in Threads : pc[t] = "woken"}
Signals == {t \in Threads : pc[t] = "notify_one"}
Alarms  == {t \in Threads : pc[t] = "notify_all"}

(* No wakeup is lost: while a thread is blocked in waitPop, every item in    *)
(* the queue has a woken thread or a notify on its way to it, and a closed   *)
(* queue has a notify_all on its way - although the notifies happen after    *)
(* the lock is released, and pops may overtake them.                         *)
NoLostWakeup ==
  Waiting # {} =>
    \/ Alarms # {}
    \/ ~closed /\ count <= Cardinality(Woken) + Cardinality(Signals)

(* waitPop returns nullopt only once the queue is closed and drained.        *)
NulloptOnlyWhenDrained ==
  [][\A t \in Threads :
       pc[t] = "woken" /\ pc'[t] = "idle" /\ ret'[t] = NoItem
         => closed /\ count = 0]_vars

Abstract == INSTANCE WorkQueue WITH items <- Contents, out <- ret

(* The buffer, through growth, wrap-around and clearing, is a first-in-      *)
(* first-out queue that delivers an item to one thread at most.              *)
ImplementsQueue == Abstract!Spec

(* close() releases every thread blocked in waitPop.                         *)
CloseReleases ==
  \A t \in Threads :
    closed /\ pc[t] \in {"wait", "woken"} ~> pc[t] = "idle"

\* Some thread takes the front item.
Takes == count' < count

(* Blocked consumers and queued items do not sit side by side for ever:      *)
(* unless the queue runs empty or nobody waits, again and again, items keep  *)
(* being taken.                                                              *)
ConsumersProgress ==
  []<>(count = 0 \/ Waiting = {}) \/ []<><<Takes>>_vars
=============================================================================
