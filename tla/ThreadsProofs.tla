---------------------------- MODULE ThreadsProofs ----------------------------
(***************************************************************************)
(* Proofs about the parts that threads share, for any number of threads    *)
(* and any contents and calls.                                             *)
(*                                                                         *)
(* PeriodicTask: nothing ticks after stop() has returned, one caller       *)
(* joins, and neither a stop nor a new interval is lost between the        *)
(* worker's tests and waits.                                               *)
(*                                                                         *)
(* ts::Hashmap, ts::Stack and the comparisons of ts::Queue: first the      *)
(* locks, one lemma for each step of TwoLocks: a thread that waits holds   *)
(* nothing, and who holds an object exclusively holds it alone.  Then, for *)
(* each container, that the body of every member is on its way to what its *)
(* call would have done in one step, whatever the other threads do         *)
(* meanwhile.                                                              *)
(*                                                                         *)
(* ts::Trie holds its words as often as they were added and no node that   *)
(* no word runs through.                                                   *)
(***************************************************************************)
EXTENDS PeriodicTask, TsHashmap, TsStack, TsTrie,
        FiniteSetTheorems, SequenceTheorems, WellFoundedInduction, TLAPS

(* PeriodicTask *)

\* The parts of the invariant about the thread object and its join.
JoinInv ==
  /\ TypeOK
  /\ \A c \in Callers : place[c] \in {"clearing", "stopped"} => worker = "done"
  /\ ~joinable => worker = "done"
  /\ \A c, d \in joinMtx : c = d
  /\ \A c \in Callers : place[c] \in {"joining", "clearing"} => joinable

(* A new task satisfies the invariant.                                       *)
LEMMA InitJoin == InitTask => JoinInv /\ IntervalNotLost /\ StopNotLost
<1> SUFFICES ASSUME InitTask PROVE JoinInv /\ IntervalNotLost /\ StopNotLost
  OBVIOUS
<1> USE PeriodicAssumption DEF InitTask
<1>1. joinMtx = {c \in Callers : place[c] \in {"joining", "clearing"}}
  OBVIOUS
<1>2. TypeOK
  <2>1. place \in [Callers -> CallerLabels]
    BY DEF CallerLabels
  <2>2. stop \in BOOLEAN /\ changed \in BOOLEAN /\ joinable \in BOOLEAN
    OBVIOUS
  <2>3. interval \in Intervals /\ armed \in Intervals
    OBVIOUS
  <2>4. changes \in 0..MaxChanges
    BY DEF PeriodicAssumption
  <2>5. worker \in {"check", "work", "relock", "waiting", "woken", "timedout", "done"}
    OBVIOUS
  <2> HIDE DEF InitTask
  <2> QED
    BY <1>1, <2>1, <2>2, <2>3, <2>4, <2>5 DEF TypeOK
<1> QED
  BY <1>2 DEF JoinInv, IntervalNotLost, StopNotLost

(* The worker's steps leave the callers and the join alone, and a worker     *)
(* that has ended stays ended.                                               *)
LEMMA WorkerJoin ==
  ASSUME JoinInv,
         WorkerStep \/ Timeout \/ SpuriousWakeup \/ WorkStops
           \/ (\E i \in Intervals : WorkSetsInterval(i))
  PROVE  JoinInv'
<1> USE PeriodicAssumption DEF JoinInv, TypeOK
<1>1. CASE Check \/ WorkEnds \/ Relock
  BY <1>1 DEF Check, WorkEnds, Relock, Arm
<1>2. CASE Awake
  BY <1>2 DEF Awake, Arm
<1>3. CASE Timeout \/ SpuriousWakeup \/ WorkStops
  BY <1>3 DEF Timeout, SpuriousWakeup, WorkStops
<1>4. ASSUME NEW i \in Intervals, WorkSetsInterval(i) PROVE JoinInv'
  BY <1>4 DEF WorkSetsInterval
<1> QED
  BY <1>1, <1>2, <1>3, <1>4 DEF WorkerStep

(* So do the callers' steps outside the join.                                *)
LEMMA CallerJoin ==
  ASSUME JoinInv, NEW c \in Callers,
         (\E i \in Intervals : SetInterval(c, i)) \/ SetNotify(c) \/ Stop(c) \/ StopStep(c)
  PROVE  JoinInv'
<1> USE PeriodicAssumption DEF JoinInv, TypeOK, CallerLabels, Goto
<1>1. ASSUME NEW i \in Intervals, SetInterval(c, i) PROVE JoinInv'
  BY <1>1 DEF SetInterval
<1>2. CASE SetNotify(c) \/ StopNotify(c)
  BY <1>2 DEF SetNotify, StopNotify, NotifyWorker
<1>3. CASE Stop(c)
  BY <1>3 DEF Stop
<1>4. CASE TestThread(c)
  BY <1>4 DEF TestThread, Racing
<1>5. CASE LockJoin(c)
  <2>1. CASE joinable
    BY <1>5, <2>1 DEF LockJoin
  <2>2. CASE ~joinable
    BY <1>5, <2>2 DEF LockJoin
  <2> QED
    BY <2>1, <2>2
<1>6. CASE Join(c)
  BY <1>6 DEF Join
<1>7. CASE ClearThread(c)
  <2>1. c \in joinMtx /\ \A d \in Callers : place[d] \in {"joining", "clearing"} => d = c
    BY <1>7 DEF ClearThread
  <2>2. place' \in [Callers -> CallerLabels] /\ place'[c] = "stopped"
        /\ \A d \in Callers \ {c} : place'[d] = place[d]
    BY <1>7 DEF ClearThread
  <2>3. joinMtx' = {d \in Callers : place'[d] \in {"joining", "clearing"}}
    BY <1>7, <2>1, <2>2 DEF ClearThread
  <2>4. TypeOK'
    BY <1>7, <2>2, <2>3 DEF ClearThread
  <2>5. worker' = "done" /\ joinMtx' = {}
    BY <1>7 DEF ClearThread
  <2> HIDE DEF TypeOK
  <2>6. \A d \in Callers : place'[d] \notin {"joining", "clearing"}
    BY <2>3, <2>5
  <2> QED
    BY <2>4, <2>5, <2>6
<1> QED
  BY <1>1, <1>2, <1>3, <1>4, <1>5, <1>6, <1>7 DEF StopStep

(* A step keeps the thread object and the join consistent.                   *)
LEMMA NextJoin == JoinInv /\ [TaskNext]_taskVars => JoinInv'
<1> SUFFICES ASSUME JoinInv, [TaskNext]_taskVars PROVE JoinInv'
  OBVIOUS
<1>1. CASE UNCHANGED taskVars
  BY <1>1 DEF taskVars, JoinInv, TypeOK
<1>2. ASSUME NEW c \in Callers,
             (\E i \in Intervals : SetInterval(c, i)) \/ SetNotify(c) \/ Stop(c) \/ StopStep(c)
      PROVE  JoinInv'
  BY <1>2, CallerJoin
<1>3. CASE TaskNext
  BY <1>2, <1>3, WorkerJoin DEF TaskNext
<1> QED
  BY <1>1, <1>3

(* Callers that are all the same caller are one at most.                     *)
LEMMA JoinsAtMostOnce == JoinInv => JoinedOnce
<1> SUFFICES ASSUME JoinInv PROVE JoinedOnce
  OBVIOUS
<1>1. joinMtx = {c \in Callers : place[c] \in {"joining", "clearing"}}
  BY DEF JoinInv, TypeOK
<1>2. Cardinality(joinMtx) <= 1
  <2>1. CASE joinMtx = {}
    BY <2>1, FS_EmptySet
  <2>2. CASE joinMtx # {}
    <3>1. PICK c \in joinMtx : joinMtx = {c}
      BY <2>2 DEF JoinInv
    <3> QED
      BY <3>1, FS_Singleton
  <2> QED
    BY <2>1, <2>2
<1> QED
  BY <1>1, <1>2 DEF JoinedOnce, JoinInv

(* A worker that waits with an old interval has a change to find, and while  *)
(* it is blocked somebody is on the way to notify it.                        *)
LEMMA NextInterval == TypeOK /\ IntervalNotLost /\ [TaskNext]_taskVars => IntervalNotLost'
<1> SUFFICES ASSUME TypeOK, IntervalNotLost, [TaskNext]_taskVars PROVE IntervalNotLost'
  OBVIOUS
<1> USE DEF TypeOK, IntervalNotLost, Pending, Goto
<1>1. CASE UNCHANGED taskVars
  BY <1>1 DEF taskVars
<1>2. CASE WorkerStep
  BY <1>2 DEF WorkerStep, Check, WorkEnds, Relock, Awake, Arm
<1>3. CASE Timeout \/ SpuriousWakeup \/ WorkStops
  BY <1>3 DEF Timeout, SpuriousWakeup, WorkStops
<1>4. ASSUME NEW i \in Intervals, WorkSetsInterval(i) PROVE IntervalNotLost'
  BY <1>4 DEF WorkSetsInterval
<1>5. ASSUME NEW c \in Callers, NEW i \in Intervals, SetInterval(c, i)
      PROVE  IntervalNotLost'
  BY <1>5 DEF SetInterval
<1>6. ASSUME NEW c \in Callers, SetNotify(c) \/ StopNotify(c) PROVE IntervalNotLost'
  BY <1>6 DEF SetNotify, StopNotify, NotifyWorker
<1>7. ASSUME NEW c \in Callers, Stop(c) \/ TestThread(c) \/ LockJoin(c) \/ Join(c) \/ ClearThread(c)
      PROVE  IntervalNotLost'
  BY <1>7 DEF Stop, TestThread, LockJoin, Join, ClearThread
<1> QED
  BY <1>1, <1>2, <1>3, <1>4, <1>5, <1>6, <1>7 DEF TaskNext, StopStep

(* A worker blocked after a stop has a notification on the way: it tests     *)
(* _stop under the mutex before it waits, so the stop came after the test.   *)
LEMMA NextStop == TypeOK /\ StopNotLost /\ [TaskNext]_taskVars => StopNotLost'
<1> SUFFICES ASSUME TypeOK, StopNotLost, [TaskNext]_taskVars PROVE StopNotLost'
  OBVIOUS
<1> USE DEF TypeOK, StopNotLost, Pending, Goto
<1>1. CASE UNCHANGED taskVars
  BY <1>1 DEF taskVars
<1>2. CASE WorkerStep
  BY <1>2 DEF WorkerStep, Check, WorkEnds, Relock, Awake, Arm
<1>3. CASE Timeout \/ SpuriousWakeup \/ WorkStops
  BY <1>3 DEF Timeout, SpuriousWakeup, WorkStops
<1>4. ASSUME NEW i \in Intervals, WorkSetsInterval(i) PROVE StopNotLost'
  BY <1>4 DEF WorkSetsInterval
<1>5. ASSUME NEW c \in Callers, NEW i \in Intervals, SetInterval(c, i)
      PROVE  StopNotLost'
  BY <1>5 DEF SetInterval
<1>6. ASSUME NEW c \in Callers, SetNotify(c) \/ StopNotify(c) PROVE StopNotLost'
  BY <1>6 DEF SetNotify, StopNotify, NotifyWorker
<1>7. ASSUME NEW c \in Callers, Stop(c) \/ TestThread(c) \/ LockJoin(c) \/ Join(c) \/ ClearThread(c)
      PROVE  StopNotLost'
  BY <1>7 DEF Stop, TestThread, LockJoin, Join, ClearThread
<1> QED
  BY <1>1, <1>2, <1>3, <1>4, <1>5, <1>6, <1>7 DEF TaskNext, StopStep

(* The inductive invariant holds of every task, however many threads call    *)
(* stop() and setInterval().                                                 *)
THEOREM TaskInvariant == TaskSpec => []IInv
<1> DEFINE Inv == JoinInv /\ IntervalNotLost /\ StopNotLost
<1>1. InitTask => Inv
  BY InitJoin
<1>2. Inv /\ [TaskNext]_taskVars => Inv'
  BY NextJoin, NextInterval, NextStop DEF JoinInv
<1>3. Inv => IInv
  BY JoinsAtMostOnce DEF JoinInv, IInv
<1> HIDE DEF Inv
<1> QED
  BY <1>1, <1>2, <1>3, PTL DEF TaskSpec

(* Once stop() has returned to another thread, `work` is over for good.      *)
THEOREM NothingTicksAfterStop == TaskSpec => []NoTickAfterStop
<1>1. IInv => NoTickAfterStop
  BY DEF IInv, NoTickAfterStop
<1> QED
  BY <1>1, TaskInvariant, PTL

(* One of any number of threads that call stop() joins the worker.           *)
THEOREM OneCallerJoins == TaskSpec => []JoinedOnce
<1>1. IInv => JoinedOnce
  BY DEF IInv
<1> QED
  BY <1>1, TaskInvariant, PTL

(* No change of the interval is overlooked by a wait.                        *)
THEOREM IntervalsAreNotLost == TaskSpec => []IntervalNotLost
<1>1. IInv => IntervalNotLost
  BY DEF IInv
<1> QED
  BY <1>1, TaskInvariant, PTL

(* No request to stop is overlooked by a wait.                               *)
THEOREM StopsAreNotLost == TaskSpec => []StopNotLost
<1>1. IInv => StopNotLost
  BY DEF IInv
<1> QED
  BY <1>1, TaskInvariant, PTL

-----------------------------------------------------------------------------
(* ts::Hashmap, ts::Stack and the comparisons of ts::Queue *)

Holds(t, m) == t = writer[m] \/ t \in readers[m]

Types(Calls) ==
  /\ writer \in [Objects -> Threads \cup {NoThread}]
  /\ readers \in [Objects -> SUBSET Threads]
  /\ pc \in [Threads -> {"idle", "lock", "try", "body", "unlock"}]
  /\ call \in [Threads -> Calls \cup {NoCall}]
  /\ want \in [Threads -> Objects \cup {NoThread}]

\* A thread at work wants one of its call's objects; one that tries has two.
Wants(Calls) ==
  \A t \in Threads :
    /\ pc[t] # "idle" => call[t] \in Calls /\ want[t] \in Needs(call[t])
    /\ pc[t] = "try" => call[t][2] # call[t][3]

\* A thread holds objects of its call only, and none before it has locked.
Held ==
  \A t \in Threads, m \in Objects :
    Holds(t, m) => pc[t] \in {"try", "body", "unlock"} /\ m \in Needs(call[t])

LocksInv(Calls) == Types(Calls) /\ Wants(Calls) /\ Held

\* The calls are of objects, and NoThread is no thread.
CallsOf(Calls) ==
  /\ NoThread \notin Threads
  /\ \A c \in Calls : Needs(c) \subseteq Objects

(* The invariant is enough: who waits for an object waits for a thread that  *)
(* holds it and hence does not wait.                                         *)
LEMMA HoldersDoNotWait ==
  ASSUME NEW Calls, CallsOf(Calls), LocksInv(Calls)
  PROVE  WaitsEnd
<1> SUFFICES ASSUME NEW t \in Threads, NEW u \in Threads, pc[t] = "lock",
                    u = writer[want[t]] \/ u \in readers[want[t]]
             PROVE  pc[u] # "lock"
  BY DEF WaitsEnd
<1>1. want[t] \in Objects
  BY DEF LocksInv, Wants, CallsOf
<1> QED  BY <1>1 DEF LocksInv, Held, Holds

(* Nothing is locked at the start. *)
LEMMA LocksStart ==
  ASSUME NEW Calls, CallsOf(Calls), InitLocks
  PROVE  LocksInv(Calls)
BY DEF InitLocks, CallsOf, LocksInv, Types, Wants, Held, Holds

(* A call begins with nothing held. *)
LEMMA LocksCall ==
  ASSUME NEW Calls, CallsOf(Calls), LocksInv(Calls),
         NEW t \in Threads, NEW c \in Calls, Call(t, c)
  PROVE  LocksInv(Calls)'
<1>1. Types(Calls)'
  BY DEF LocksInv, Types, Call, CallsOf, Needs, lockVars, bodyVars
<1>2. Wants(Calls)'
  BY DEF LocksInv, Types, Wants, Call, Needs
<1>3. Held'
  BY DEF LocksInv, Types, Held, Holds, Call, lockVars
<1> QED  BY <1>1, <1>2, <1>3 DEF LocksInv

(* A call of two objects has two different ones. *)
LEMMA TwoObjects ==
  ASSUME NEW STATE c, Cardinality(Needs(c)) = 2
  PROVE  c[2] # c[3]
<1> SUFFICES ASSUME c[2] = c[3] PROVE FALSE
  OBVIOUS
<1>1. Needs(c) = {c[2]}
  BY DEF Needs
<1> QED  BY <1>1, FS_Singleton

(* The first lock is of an object the call needs. *)
LEMMA LocksFirst ==
  ASSUME NEW Calls, CallsOf(Calls), LocksInv(Calls), NEW t \in Threads,
         NEW STATE exclusive, NEW STATE steps, NEW STATE outcome,
         LockFirst(t, exclusive, steps, outcome)
  PROVE  LocksInv(Calls)'
<1>1. /\ pc[t] = "lock" /\ want[t] \in Objects
      /\ want[t] \in Needs(call[t]) /\ call[t] \in Calls
  BY DEF LocksInv, Wants, CallsOf, LockFirst
<1>2. /\ pc' \in {[pc EXCEPT ![t] = "try"], [pc EXCEPT ![t] = "body"]}
      /\ pc'[t] = "try" => call[t][2] # call[t][3]
      /\ call' = call /\ want' = want
  <2>1. CASE Cardinality(Needs(call[t])) = 2
    BY <2>1, TwoObjects DEF LocksInv, Types, LockFirst
  <2>2. CASE Cardinality(Needs(call[t])) # 2
    BY <2>2 DEF LocksInv, Types, LockFirst
  <2> QED  BY <2>1, <2>2
<1>3. Types(Calls)'
  BY <1>1, <1>2 DEF LocksInv, Types, LockFirst, Lock
<1>4. Wants(Calls)'
  BY <1>1, <1>2 DEF LocksInv, Types, Wants
<1>5. ASSUME NEW u \in Threads, NEW m \in Objects, Holds(u, m)'
      PROVE  Holds(u, m) \/ (u = t /\ m = want[t])
  BY <1>1, <1>5 DEF LocksInv, Types, Holds, LockFirst, Lock
<1>6. Held'
  BY <1>1, <1>2, <1>5 DEF LocksInv, Types, Held
<1> QED  BY <1>3, <1>4, <1>6 DEF LocksInv

(* Unlocking what a call needs leaves its thread with nothing, and takes     *)
(* nothing from the others.                                                  *)
LEMMA Unlocked ==
  ASSUME NEW Calls, CallsOf(Calls), LocksInv(Calls), NEW t \in Threads,
         Unlock(t, Needs(call[t]))
  PROVE  /\ writer' \in [Objects -> Threads \cup {NoThread}]
         /\ readers' \in [Objects -> SUBSET Threads]
         /\ \A u \in Threads, m \in Objects : Holds(u, m)' => u # t /\ Holds(u, m)
<1>1. /\ writer' \in [Objects -> Threads \cup {NoThread}]
      /\ readers' \in [Objects -> SUBSET Threads]
  BY DEF LocksInv, Types, Unlock
<1>2. ASSUME NEW u \in Threads, NEW m \in Objects, Holds(u, m)'
      PROVE  Holds(u, m)
  BY <1>2 DEF LocksInv, Types, CallsOf, Unlock, Holds
<1>3. ASSUME NEW m \in Objects, Holds(t, m)'
      PROVE  FALSE
  <2>1. m \in Needs(call[t])
    BY <1>2, <1>3 DEF LocksInv, Held
  <2> QED  BY <1>3, <2>1 DEF LocksInv, Types, CallsOf, Unlock, Holds
<1> QED  BY <1>1, <1>2, <1>3

(* The second lock is taken, or the first given back. *)
LEMMA LocksSecond ==
  ASSUME NEW Calls, CallsOf(Calls), LocksInv(Calls), NEW t \in Threads,
         NEW STATE exclusive, NEW STATE steps, NEW STATE outcome,
         TrySecond(t, exclusive, steps, outcome)
  PROVE  LocksInv(Calls)'
<1>1. pc[t] = "try" /\ call[t] \in Calls /\ call' = call
  BY DEF LocksInv, Wants, TrySecond
<1>2. Other(t) \in Needs(call[t]) /\ Other(t) \in Objects
  <2>1. \E o \in Needs(call[t]) : o # want[t]
    BY <1>1 DEF LocksInv, Wants, Needs
  <2> QED  BY <1>1, <2>1 DEF CallsOf, Other
<1>3. CASE Free(Other(t), exclusive)
  <2>1. /\ Lock(t, Other(t), exclusive)
        /\ pc' = [pc EXCEPT ![t] = "body"] /\ want' = want
    BY <1>3 DEF TrySecond
  <2>2. Types(Calls)'
    BY <1>1, <1>2, <2>1 DEF LocksInv, Types, Lock
  <2>3. Wants(Calls)'
    BY <1>1, <2>1 DEF LocksInv, Types, Wants
  <2>4. ASSUME NEW u \in Threads, NEW m \in Objects, Holds(u, m)'
        PROVE  Holds(u, m) \/ (u = t /\ m = Other(t))
    BY <1>2, <2>1, <2>4 DEF LocksInv, Types, Holds, Lock
  <2>5. Held'
    BY <1>1, <1>2, <2>1, <2>4 DEF LocksInv, Types, Held
  <2> QED  BY <2>2, <2>3, <2>5 DEF LocksInv
<1>4. CASE ~Free(Other(t), exclusive)
  <2>1. /\ Unlock(t, Needs(call[t]))
        /\ pc' = [pc EXCEPT ![t] = "lock"] /\ want' = [want EXCEPT ![t] = Other(t)]
    BY <1>4 DEF TrySecond
  <2>2. /\ writer' \in [Objects -> Threads \cup {NoThread}]
        /\ readers' \in [Objects -> SUBSET Threads]
        /\ \A u \in Threads, m \in Objects : Holds(u, m)' => u # t /\ Holds(u, m)
    BY <2>1, Unlocked
  <2>3. Types(Calls)'
    BY <1>1, <1>2, <2>1, <2>2 DEF LocksInv, Types
  <2>4. Wants(Calls)'
    BY <1>1, <1>2, <2>1 DEF LocksInv, Types, Wants
  <2>5. Held'
    BY <1>1, <2>1, <2>2 DEF LocksInv, Types, Held
  <2> QED  BY <2>3, <2>4, <2>5 DEF LocksInv
<1> QED  BY <1>3, <1>4

(* The body works with the locks it has. *)
LEMMA LocksBody ==
  ASSUME NEW Calls, LocksInv(Calls), NEW t \in Threads, NEW STATE effect,
         Step(t, effect) \/ Finish(t)
  PROVE  LocksInv(Calls)'
<1>1. CASE Step(t, effect)
  BY <1>1 DEF Step, lockVars, LocksInv, Types, Wants, Held, Holds
<1>2. CASE Finish(t)
  BY <1>2 DEF Finish, lockVars, LocksInv, Types, Wants, Held, Holds
<1> QED  BY <1>1, <1>2

(* A call returns with nothing held. *)
LEMMA LocksReturn ==
  ASSUME NEW Calls, CallsOf(Calls), LocksInv(Calls), NEW t \in Threads, Return(t)
  PROVE  LocksInv(Calls)'
<1>1. /\ Unlock(t, Needs(call[t]))
      /\ pc' = [pc EXCEPT ![t] = "idle"]
      /\ call' = [call EXCEPT ![t] = NoCall]
      /\ want' = [want EXCEPT ![t] = NoThread]
  BY DEF Return
<1>2. /\ writer' \in [Objects -> Threads \cup {NoThread}]
      /\ readers' \in [Objects -> SUBSET Threads]
      /\ \A u \in Threads, m \in Objects : Holds(u, m)' => u # t /\ Holds(u, m)
  BY <1>1, Unlocked
<1>3. Types(Calls)'
  BY <1>1, <1>2 DEF LocksInv, Types
<1>4. Wants(Calls)'
  BY <1>1 DEF LocksInv, Types, Wants
<1>5. Held'
  BY <1>1, <1>2 DEF LocksInv, Types, Held
<1> QED  BY <1>3, <1>4, <1>5 DEF LocksInv

(* Nothing changes. *)
LEMMA LocksStutter ==
  ASSUME NEW Calls, LocksInv(Calls), UNCHANGED vars
  PROVE  LocksInv(Calls)'
BY DEF vars, lockVars, LocksInv, Types, Wants, Held, Holds

-----------------------------------------------------------------------------
(* Who holds an object exclusively holds it alone                            *)

\* t holds m the way its call asks for, exclusively if it is one of Excl.
Has(t, m, Excl) == IF call[t] \in Excl THEN t = writer[m] ELSE t \in readers[m]

Alone == \A m \in Objects : writer[m] # NoThread => readers[m] = {}

\* A thread that has locked an object still holds it, in its body all it needs.
Keeps(Excl) ==
  \A t \in Threads :
    /\ pc[t] = "try" => Has(t, want[t], Excl)
    /\ pc[t] \in {"body", "unlock"} => \A m \in Needs(call[t]) : Has(t, m, Excl)

ModeInv(Calls, Excl) == LocksInv(Calls) /\ Alone /\ Keeps(Excl)

\* Two bodies that have an object in common both only read.
BodiesApart(Excl) ==
  \A t, u \in Threads :
    /\ t # u
    /\ pc[t] \in {"body", "unlock"} /\ pc[u] \in {"body", "unlock"}
    /\ Needs(call[t]) \cap Needs(call[u]) # {}
    => call[t] \notin Excl /\ call[u] \notin Excl

(* The invariant is enough. *)
LEMMA HoldersApart ==
  ASSUME NEW Calls, NEW Excl, CallsOf(Calls), ModeInv(Calls, Excl)
  PROVE  BodiesApart(Excl)
<1> SUFFICES ASSUME NEW t \in Threads, NEW u \in Threads, t # u,
                    pc[t] \in {"body", "unlock"}, pc[u] \in {"body", "unlock"},
                    NEW m \in Needs(call[t]) \cap Needs(call[u])
             PROVE  call[t] \notin Excl /\ call[u] \notin Excl
  BY DEF BodiesApart
<1>1. m \in Objects
  BY DEF ModeInv, LocksInv, Wants, CallsOf
<1>2. Has(t, m, Excl) /\ Has(u, m, Excl)
  BY DEF ModeInv, Keeps
<1>3. writer[m] # NoThread => readers[m] = {}
  BY <1>1 DEF ModeInv, Alone
<1> QED  BY <1>2, <1>3 DEF Has, CallsOf

LEMMA ModeStart ==
  ASSUME NEW Calls, NEW Excl, CallsOf(Calls), InitLocks
  PROVE  ModeInv(Calls, Excl)
BY LocksStart DEF InitLocks, ModeInv, Alone, Keeps

(* A step of the lock of m by t: it was free the way t asks for, and what    *)
(* the others hold stays.                                                    *)
LEMMA LockTaken ==
  ASSUME NEW Calls, NEW Excl, CallsOf(Calls), ModeInv(Calls, Excl),
         NEW t \in Threads, NEW m \in Objects, NEW STATE exclusive,
         exclusive <=> call[t] \in Excl, call' = call,
         Free(m, exclusive), Lock(t, m, exclusive)
  PROVE  /\ Has(t, m, Excl)' /\ Alone'
         /\ \A u \in Threads, o \in Objects : Has(u, o, Excl) => Has(u, o, Excl)'
<1>1. /\ writer \in [Objects -> Threads \cup {NoThread}]
      /\ readers \in [Objects -> SUBSET Threads]
  BY DEF ModeInv, LocksInv, Types
<1>2. CASE exclusive
  <2>1. /\ writer[m] = NoThread /\ readers[m] = {}
        /\ writer' = [writer EXCEPT ![m] = t] /\ readers' = readers
    BY <1>2 DEF Free, Lock
  <2> QED  BY <1>1, <1>2, <2>1 DEF ModeInv, Alone, Has, CallsOf
<1>3. CASE ~exclusive
  <2>1. /\ writer[m] = NoThread /\ writer' = writer
        /\ readers' = [readers EXCEPT ![m] = @ \cup {t}]
    BY <1>3 DEF Free, Lock
  <2> QED  BY <1>1, <1>3, <2>1 DEF ModeInv, Alone, Has, CallsOf
<1> QED  BY <1>2, <1>3

(* A call of one object has one. *)
LEMMA OneObject ==
  ASSUME NEW STATE c, Cardinality(Needs(c)) # 2
  PROVE  Needs(c) = {c[2]}
<1> SUFFICES ASSUME c[2] # c[3] PROVE FALSE
  BY DEF Needs
<1>1. Needs(c) = {c[2]} \cup {c[3]}
  BY DEF Needs
<1>2. IsFiniteSet({c[2]}) /\ Cardinality({c[2]}) = 1
  BY FS_Singleton
<1>3. Cardinality({c[2]} \cup {c[3]}) = 1 + 1
  BY <1>2, FS_AddElement
<1> QED  BY <1>1, <1>3

LEMMA ModeFirst ==
  ASSUME NEW Calls, NEW Excl, CallsOf(Calls), ModeInv(Calls, Excl), NEW t \in Threads,
         NEW STATE exclusive, NEW STATE steps, NEW STATE outcome,
         call[t] \in Calls => (exclusive <=> call[t] \in Excl),
         LockFirst(t, exclusive, steps, outcome)
  PROVE  ModeInv(Calls, Excl)'
<1>1. /\ LocksInv(Calls) /\ call[t] \in Calls /\ want[t] \in Objects
      /\ want[t] \in Needs(call[t]) /\ call' = call /\ want' = want
      /\ exclusive <=> call[t] \in Excl
      /\ pc \in [Threads -> {"idle", "lock", "try", "body", "unlock"}]
  BY DEF ModeInv, LocksInv, Types, Wants, CallsOf, LockFirst
<1> PICK m \in Objects : m = want[t]
  BY <1>1
<1>2. /\ Has(t, m, Excl)' /\ Alone'
      /\ \A u \in Threads, o \in Objects : Has(u, o, Excl) => Has(u, o, Excl)'
  BY <1>1, LockTaken DEF LockFirst
<1>3. \/ pc' = [pc EXCEPT ![t] = "try"]
      \/ pc' = [pc EXCEPT ![t] = "body"] /\ Needs(call[t]) = {want[t]}
  BY <1>1, OneObject DEF LockFirst
<1>4. \A u \in Threads : pc[u] # "idle" => want[u] \in Objects /\ Needs(call[u]) \subseteq Objects
  BY <1>1 DEF LocksInv, Wants, CallsOf
<1>5. Keeps(Excl)'
  BY <1>1, <1>2, <1>3, <1>4 DEF ModeInv, Keeps
<1> QED  BY <1>1, <1>2, <1>5, LocksFirst DEF ModeInv

(* Giving back a thread's locks leaves the others theirs. *)
LEMMA OthersKeep ==
  ASSUME NEW Calls, NEW Excl, CallsOf(Calls), ModeInv(Calls, Excl), NEW t \in Threads,
         Unlock(t, Needs(call[t])), \A u \in Threads \ {t} : call'[u] = call[u]
  PROVE  /\ Alone'
         /\ \A u \in Threads \ {t}, o \in Objects : Has(u, o, Excl) => Has(u, o, Excl)'
<1>1. /\ \A o \in Objects : writer'[o] \in {writer[o], NoThread} /\ readers'[o] \subseteq readers[o]
      /\ \A o \in Objects, u \in Threads \ {t} :
           /\ writer[o] = u => writer'[o] = u
           /\ u \in readers[o] => u \in readers'[o]
  BY DEF Unlock
<1>2. Alone'
  BY <1>1 DEF ModeInv, Alone
<1> QED  BY <1>1, <1>2 DEF Has

LEMMA ModeSecond ==
  ASSUME NEW Calls, NEW Excl, CallsOf(Calls), ModeInv(Calls, Excl), NEW t \in Threads,
         NEW STATE exclusive, NEW STATE steps, NEW STATE outcome,
         call[t] \in Calls => (exclusive <=> call[t] \in Excl),
         TrySecond(t, exclusive, steps, outcome)
  PROVE  ModeInv(Calls, Excl)'
<1>1. /\ LocksInv(Calls) /\ pc[t] = "try" /\ call[t] \in Calls /\ call' = call
      /\ want[t] \in Needs(call[t]) /\ call[t][2] # call[t][3]
      /\ exclusive <=> call[t] \in Excl
      /\ pc \in [Threads -> {"idle", "lock", "try", "body", "unlock"}]
      /\ want \in [Threads -> Objects \cup {NoThread}]
  BY DEF ModeInv, LocksInv, Types, Wants, TrySecond
<1>2. Needs(call[t]) = {want[t], Other(t)} /\ Other(t) \in Objects /\ want[t] \in Objects
  <2>1. \E o \in Needs(call[t]) : o # want[t]
    BY <1>1 DEF Needs
  <2>2. Other(t) \in Needs(call[t]) /\ Other(t) # want[t]
    BY <2>1 DEF Other
  <2> QED  BY <1>1, <2>2 DEF Needs, CallsOf
<1>3. \A u \in Threads : pc[u] # "idle" => want[u] \in Objects /\ Needs(call[u]) \subseteq Objects
  BY <1>1 DEF LocksInv, Wants, CallsOf
<1>4. CASE Free(Other(t), exclusive)
  <2>1. /\ Lock(t, Other(t), exclusive)
        /\ pc' = [pc EXCEPT ![t] = "body"] /\ want' = want
    BY <1>4 DEF TrySecond
  <2> PICK m \in Objects : m = Other(t)
    BY <1>2
  <2>2. /\ Has(t, m, Excl)' /\ Alone'
        /\ \A u \in Threads, o \in Objects : Has(u, o, Excl) => Has(u, o, Excl)'
    BY <1>1, <1>2, <1>4, <2>1, LockTaken
  <2>3. Keeps(Excl)'
    BY <1>1, <1>2, <1>3, <2>1, <2>2 DEF ModeInv, Keeps
  <2> QED  BY <1>1, <2>2, <2>3, LocksSecond DEF ModeInv
<1>5. CASE ~Free(Other(t), exclusive)
  <2>1. /\ Unlock(t, Needs(call[t]))
        /\ pc' = [pc EXCEPT ![t] = "lock"] /\ want' = [want EXCEPT ![t] = Other(t)]
    BY <1>5 DEF TrySecond
  <2>2. /\ Alone'
        /\ \A u \in Threads \ {t}, o \in Objects : Has(u, o, Excl) => Has(u, o, Excl)'
    BY <1>1, <2>1, OthersKeep
  <2>3. Keeps(Excl)'
    BY <1>1, <1>3, <2>1, <2>2 DEF ModeInv, Keeps
  <2> QED  BY <1>1, <2>2, <2>3, LocksSecond DEF ModeInv
<1> QED  BY <1>4, <1>5

LEMMA ModeReturn ==
  ASSUME NEW Calls, NEW Excl, CallsOf(Calls), ModeInv(Calls, Excl), NEW t \in Threads, Return(t)
  PROVE  ModeInv(Calls, Excl)'
<1>1. /\ LocksInv(Calls) /\ Unlock(t, Needs(call[t]))
      /\ pc' = [pc EXCEPT ![t] = "idle"]
      /\ call' = [call EXCEPT ![t] = NoCall]
      /\ want' = [want EXCEPT ![t] = NoThread]
  BY DEF ModeInv, Return
<1>2. /\ pc \in [Threads -> {"idle", "lock", "try", "body", "unlock"}]
      /\ call \in [Threads -> Calls \cup {NoCall}]
      /\ want \in [Threads -> Objects \cup {NoThread}]
  BY <1>1 DEF LocksInv, Types
<1>3. \A u \in Threads : pc[u] # "idle" => want[u] \in Objects /\ Needs(call[u]) \subseteq Objects
  BY <1>1 DEF LocksInv, Wants, CallsOf
<1>4. /\ Alone'
      /\ \A u \in Threads \ {t}, o \in Objects : Has(u, o, Excl) => Has(u, o, Excl)'
  BY <1>1, <1>2, OthersKeep
<1>5. Keeps(Excl)'
  BY <1>1, <1>2, <1>3, <1>4 DEF ModeInv, Keeps
<1> QED  BY <1>1, <1>4, <1>5, LocksReturn DEF ModeInv

(* Steps that take or give back no lock. *)
LEMMA ModeCall ==
  ASSUME NEW Calls, NEW Excl, CallsOf(Calls), ModeInv(Calls, Excl),
         NEW t \in Threads, NEW c \in Calls, Call(t, c)
  PROVE  ModeInv(Calls, Excl)'
<1>1. LocksInv(Calls) /\ LocksInv(Calls)' /\ Types(Calls)
  BY LocksCall DEF ModeInv, LocksInv
<1>2. Alone'
  BY DEF ModeInv, Alone, Call, lockVars
<1>3. Keeps(Excl)'
  BY <1>1 DEF ModeInv, Types, Keeps, Has, Call, lockVars
<1> QED  BY <1>1, <1>2, <1>3 DEF ModeInv

LEMMA ModeBody ==
  ASSUME NEW Calls, NEW Excl, ModeInv(Calls, Excl), NEW t \in Threads, NEW STATE effect,
         Step(t, effect) \/ Finish(t)
  PROVE  ModeInv(Calls, Excl)'
<1>1. LocksInv(Calls) /\ LocksInv(Calls)' /\ Types(Calls)
  BY LocksBody DEF ModeInv, LocksInv
<1>2. CASE Step(t, effect)
  BY <1>1, <1>2 DEF Step, lockVars, ModeInv, Alone, Keeps, Has
<1>3. CASE Finish(t)
  BY <1>1, <1>3 DEF Finish, lockVars, ModeInv, Types, Alone, Keeps, Has
<1> QED  BY <1>2, <1>3

LEMMA ModeStutter ==
  ASSUME NEW Calls, NEW Excl, ModeInv(Calls, Excl), UNCHANGED vars
  PROVE  ModeInv(Calls, Excl)'
<1>1. LocksInv(Calls)'
  BY LocksStutter DEF ModeInv
<1> QED  BY <1>1 DEF vars, lockVars, ModeInv, Alone, Keeps, Has

-----------------------------------------------------------------------------
(* A call works undisturbed: what one thread's body does to the data does    *)
(* not reach the objects of another's.                                       *)
LEMMA OthersUndisturbed ==
  ASSUME NEW Calls, NEW Excl, CallsOf(Calls), ModeInv(Calls, Excl),
         NEW t \in Threads, NEW STATE effect, Step(t, effect),
         call[t] \notin Excl =>
           effect[1] = data[call[t][2]] /\ effect[2] = data[call[t][3]],
         NEW u \in Threads \ {t}, pc[u] \in {"body", "unlock"}
  PROVE  /\ call'[u] = call[u]
         /\ data'[call[u][2]] = data[call[u][2]] /\ data'[call[u][3]] = data[call[u][3]]
<1>1. BodiesApart(Excl)
  BY HoldersApart
<1>2. /\ pc[t] = "body" /\ call' = call
      /\ \A m \in Objects : data'[m] = CASE m = call[t][2] -> effect[1]
                                         [] m = call[t][3] -> effect[2]
                                         [] OTHER -> data[m]
  BY DEF Step
<1>3. Needs(call[u]) \subseteq Objects
  BY DEF ModeInv, LocksInv, Wants, CallsOf
<1>4. CASE call[t] \in Excl
  BY <1>1, <1>2, <1>3, <1>4 DEF BodiesApart, Needs
<1>5. CASE call[t] \notin Excl
  BY <1>2, <1>3, <1>5 DEF Needs
<1> QED  BY <1>4, <1>5

(* What a step does to the objects of its own call.                          *)
LEMMA OwnData ==
  ASSUME NEW Calls, CallsOf(Calls), LocksInv(Calls),
         NEW t \in Threads, NEW STATE effect, Step(t, effect),
         call[t][2] = call[t][3] => effect[1] = effect[2]
  PROVE  /\ pc[t] = "body" /\ call[t] \in Calls /\ call' = call
         /\ data'[call[t][2]] = effect[1] /\ data'[call[t][3]] = effect[2]
         /\ \A m \in Objects : data'[m] \in {effect[1], effect[2], data[m]}
<1>1. call[t] \in Calls /\ Needs(call[t]) \subseteq Objects
  BY DEF LocksInv, Wants, CallsOf, Step
<1> QED  BY <1>1 DEF Step, Needs

-----------------------------------------------------------------------------
(* Sequences that are walked from their head.                                *)
IsSeq(s) == s \in Seq(ToSet(s))

LEMMA SeqIsSeq ==
  ASSUME NEW S, NEW s \in Seq(S)
  PROVE  IsSeq(s) /\ ToSet(s) \subseteq S
BY SeqOfRange, RangeOfSeq DEF IsSeq, ToSet, Range

LEMMA Walk ==
  ASSUME NEW s, IsSeq(s), s # <<>>
  PROVE  /\ IsSeq(Tail(s)) /\ ToSet(s) = {Head(s)} \cup ToSet(Tail(s))
         /\ Len(s) \in Nat /\ Len(s) > 0 /\ DOMAIN s = 1..Len(s) /\ Head(s) = s[1]
         /\ Len(Tail(s)) = Len(s) - 1 /\ DOMAIN Tail(s) = 1..(Len(s) - 1)
         /\ \A i \in 1..(Len(s) - 1) : Tail(s)[i] = s[i + 1]
<1> DEFINE S == ToSet(s)
<1>1. s \in Seq(S)
  BY DEF IsSeq
<1> HIDE DEF S
<1>2. /\ Tail(s) \in Seq(S) /\ Len(Tail(s)) = Len(s) - 1
      /\ Head(s) = s[1]
      /\ \A i \in 1..Len(Tail(s)) : Tail(s)[i] = s[i + 1]
  BY <1>1, HeadTailProperties
<1>3. Len(s) \in Nat /\ Len(s) > 0 /\ DOMAIN s = 1..Len(s) /\ DOMAIN Tail(s) = 1..(Len(s) - 1)
  BY <1>1, <1>2, EmptySeq, LenProperties
<1>4. IsSeq(Tail(s))
  BY <1>2, SeqIsSeq
<1>5. ToSet(s) = {Head(s)} \cup ToSet(Tail(s))
  <2>1. ASSUME NEW x \in ToSet(s) PROVE x \in {Head(s)} \cup ToSet(Tail(s))
    <3>1. PICK i \in 1..Len(s) : x = s[i]
      BY <1>3, <2>1 DEF ToSet
    <3>2. CASE i = 1
      BY <1>2, <3>1, <3>2
    <3>3. CASE i # 1
      <4>1. i - 1 \in 1..(Len(s) - 1) /\ (i - 1) + 1 = i
        BY <1>3, <3>3
      <4>2. i - 1 \in DOMAIN Tail(s) /\ Tail(s)[i - 1] = x
        BY <1>2, <1>3, <3>1, <4>1
      <4> QED  BY <4>2 DEF ToSet
    <3> QED  BY <3>2, <3>3
  <2>2. Head(s) \in ToSet(s)
    BY <1>2, <1>3 DEF ToSet
  <2>3. ASSUME NEW x \in ToSet(Tail(s)) PROVE x \in ToSet(s)
    <3>1. PICK i \in 1..(Len(s) - 1) : x = s[i + 1]
      BY <1>2, <1>3, <2>3 DEF ToSet
    <3> QED  BY <1>3, <3>1 DEF ToSet
  <2> QED  BY <2>1, <2>2, <2>3
<1> QED  BY <1>2, <1>3, <1>4, <1>5

LEMMA OneStep ==
  ASSUME NEW x
  PROVE  /\ IsSeq(<<x>>) /\ ToSet(<<x>>) = {x} /\ <<x>> # <<>>
         /\ Head(<<x>>) = x /\ Tail(<<x>>) = <<>>
BY DEF IsSeq, ToSet

LEMMA NoStep == IsSeq(<<>>) /\ ToSet(<<>>) = {}
BY DEF IsSeq, ToSet

(* The elements of a finite set in some order are those elements.            *)
LEMMA SetInOrder ==
  ASSUME NEW S, IsFiniteSet(S)
  PROVE  IsSeq(SetToSeq(S)) /\ ToSet(SetToSeq(S)) = S
<1> DEFINE n == Cardinality(S)
           s == SetToSeq(S)
<1>1. n \in Nat /\ ExistsBijection(1..n, S)
  BY FS_CardinalityType
<1>2. \E f \in [1..n -> S] : IsInjective(f)
  BY <1>1 DEF ExistsBijection, Bijection, Injection, IsInjective
<1>3. s \in [1..n -> S] /\ IsInjective(s)
  BY <1>2 DEF SetToSeq
<1> HIDE DEF s
<1>4. s \in Injection(1..n, S)
  BY <1>3 DEF Injection, IsInjective
<1>5. IsFiniteSet(1..n) /\ Cardinality(1..n) = n
  BY <1>1, FS_Interval
<1>6. s \in Surjection(1..n, S)
  BY <1>4, <1>5, FS_Injection
<1>7. ToSet(s) = S
  BY <1>3, <1>6 DEF Surjection, ToSet
<1>8. s \in Seq(S)
  BY <1>1, <1>3
<1> QED  BY <1>7, <1>8, SeqIsSeq DEF s

-----------------------------------------------------------------------------
(* ts::Hashmap                                                               *)

\* A map has a key once.
IsMap(a) == IsFiniteSet(a) /\ \A p, q \in a : p[1] = q[1] => p = q

\* The calls that get a lock: merge and swap of a map with itself do not.
MapCalled == {c \in MapCalls : c[1] \in {"merge", "swap"} => c[2] # c[3]}

\* What the visits left (s) make of this, other and the result so far.
MapRest(c, a, b, r, s) ==
  CASE c[1] = "merge" ->
         LET moved == {p \in b : p[1] \notin keysOf(a)} IN <<a \cup moved, b \ moved, {}>>
    [] c[1] = "swap" -> IF s = <<>> THEN <<a, b, r>>
                        ELSE IF Tail(s) = <<>> THEN <<a, UNION r, {}>> ELSE <<b, a, {}>>
    [] c[1] = "equal" -> <<a, b, r \cup {x \in ToSet(s) : ~(x \in a /\ x \in b)}>>
    [] c[1] = "snapshot" -> <<a, a, r \cup ToSet(s)>>
    [] c[1] = "eraseIf" ->
         LET kept == {p \in a : ~Condemned(p)} IN <<kept, kept, r \cup (a \ kept)>>
    [] c[1] = "insertAll" ->
         LET new == FirstOf(s, a) IN <<a \cup new, a \cup new, r \cup new>>
    [] OTHER -> IF s = <<>> THEN <<a, b, r>> ELSE Effect(c, a, b, r, c[4])

\* ... while every element that still matters is among them.
MapWalk(c, a, b, r, s) ==
  /\ IsSeq(s)
  /\ c[1] = "eraseIf" => {p \in a : Condemned(p)} \subseteq ToSet(s)
  /\ c[1] = "merge" =>
       {p \in b : p[1] \notin keysOf(a)} \subseteq ToSet(s) /\ ToSet(s) \subseteq a \cup b /\ r = {}
  /\ c[1] = "snapshot" => r \cup ToSet(s) = a
  /\ c[1] = "swap" => \/ s \in {<<"one", "other">>, <<>>}
                      \/ s = <<"other">> /\ IsMap(UNION r)
  /\ c[1] \notin {"eraseIf", "merge", "equal", "snapshot", "swap", "insertAll"} =>
       s = <<c[4]>> \/ s = <<>>

MapLeads(c, a, b, r, s, e) == MapWalk(c, a, b, r, s) /\ e = MapRest(c, a, b, r, s)

(* A body that begins has its outcome before it.                             *)
LEMMA MapBegins ==
  ASSUME NEW STATE c, c \in MapCalled,
         IsMap(data[c[2]]), IsMap(data[c[3]])
  PROVE  MapLeads(c, data[c[2]], data[c[3]], {}, Visits(c), Outcome(c))
<1>1. c \in MapCalls /\ (c[1] \in {"merge", "swap"} => c[2] # c[3])
  BY DEF MapCalled
<1>2. /\ IsSeq(SetToSeq(data[c[2]])) /\ ToSet(SetToSeq(data[c[2]])) = data[c[2]]
      /\ IsSeq(SetToSeq(data[c[3]])) /\ ToSet(SetToSeq(data[c[3]])) = data[c[3]]
  BY SetInOrder DEF IsMap
<1>3. CASE c[1] = "insertAll"
  <2>1. c[4] \in Seq(Pairs)
    BY <1>1, <1>3, MapCallsAssumption
  <2>2. IsSeq(c[4])
    BY <2>1, SeqIsSeq
  <2> QED  BY <1>3, <2>2 DEF MapLeads, MapWalk, MapRest, Visits, Outcome
<1>4. CASE c[1] = "eraseIf"
  BY <1>2, <1>4 DEF MapLeads, MapWalk, MapRest, Visits, Outcome
<1>5. CASE c[1] = "merge"
  BY <1>2, <1>5 DEF MapLeads, MapWalk, MapRest, Visits, Outcome
<1>6. CASE c[1] = "snapshot"
  BY <1>2, <1>6 DEF MapLeads, MapWalk, MapRest, Visits, Outcome
<1>7. CASE c[1] = "equal"
  <2>1. IsFiniteSet(data[c[2]] \cup data[c[3]])
    BY FS_Union DEF IsMap
  <2>2. LET s == SetToSeq(data[c[2]] \cup data[c[3]])
        IN  IsSeq(s) /\ ToSet(s) = data[c[2]] \cup data[c[3]]
    BY <2>1, SetInOrder
  <2> QED  BY <1>7, <2>2 DEF MapLeads, MapWalk, MapRest, Visits, Outcome
<1>8. CASE c[1] = "swap"
  <2>1. /\ IsSeq(<<"one", "other">>) /\ <<"one", "other">> # <<>>
        /\ Tail(<<"one", "other">>) # <<>>
    BY DEF IsSeq, ToSet
  <2> QED  BY <1>8, <2>1 DEF MapLeads, MapWalk, MapRest, Visits, Outcome
<1>9. CASE c[1] \notin {"insertAll", "eraseIf", "merge", "snapshot", "equal", "swap"}
  BY <1>9, OneStep DEF MapLeads, MapWalk, MapRest, Visits, Outcome
<1> QED  BY <1>3, <1>4, <1>5, <1>6, <1>7, <1>8, <1>9

(* A body with no visits left has its outcome.                               *)
LEMMA MapEnds ==
  ASSUME NEW c \in MapCalled, NEW a, NEW b, NEW r, NEW e,
         c[2] = c[3] => a = b, MapLeads(c, a, b, r, <<>>, e)
  PROVE  <<a, b, r>> = e
<1>1. c \in MapCalls /\ (c[1] \notin {"merge", "swap", "equal"} => a = b)
  BY MapCallsAssumption DEF MapCalled
<1>2. ToSet(<<>>) = {}
  BY NoStep
<1>3. CASE c[1] = "insertAll"
  BY <1>1, <1>3 DEF MapLeads, MapRest, FirstOf
<1>4. CASE c[1] = "eraseIf"
  <2>1. {p \in a : Condemned(p)} = {}
    BY <1>2, <1>4 DEF MapLeads, MapWalk
  <2>2. {p \in a : ~Condemned(p)} = a
    BY <2>1
  <2> QED  BY <1>1, <1>4, <2>2 DEF MapLeads, MapRest
<1>5. CASE c[1] = "merge"
  <2>1. {p \in b : p[1] \notin keysOf(a)} = {}
    BY <1>2, <1>5 DEF MapLeads, MapWalk
  <2> QED  BY <1>5, <2>1 DEF MapLeads, MapRest, MapWalk
<1>6. CASE c[1] = "snapshot"
  BY <1>1, <1>2, <1>6 DEF MapLeads, MapRest
<1>7. CASE c[1] = "equal"
  BY <1>2, <1>7 DEF MapLeads, MapRest
<1>8. CASE c[1] \notin {"insertAll", "eraseIf", "merge", "snapshot", "equal"}
  BY <1>8 DEF MapLeads, MapRest
<1> QED  BY <1>3, <1>4, <1>5, <1>6, <1>7, <1>8

(* Maps stay maps. *)
LEMMA AddedMap ==
  ASSUME NEW a, IsMap(a), NEW x, pairOf(a, x[1]) = {}
  PROVE  IsMap(a \cup {x})
<1>1. IsFiniteSet(a \cup {x})
  BY FS_AddElement DEF IsMap
<1> QED  BY <1>1 DEF IsMap, pairOf

LEMMA SmallerMap ==
  ASSUME NEW a, IsMap(a), NEW d \in SUBSET a
  PROVE  IsMap(d)
BY FS_Subset DEF IsMap

LEMMA EmptyMap == IsMap({})
BY FS_EmptySet DEF IsMap

(* emplace takes the first of each new key of a vector.                      *)
LEMMA FirstEmplaced ==
  ASSUME NEW a, NEW s, IsSeq(s), s # <<>>
  PROVE  FirstOf(s, a) = IF pairOf(a, Head(s)[1]) = {}
                         THEN {Head(s)} \cup FirstOf(Tail(s), a \cup {Head(s)})
                         ELSE FirstOf(Tail(s), a)
<1> DEFINE x == Head(s)
           n == Len(s)
           z == Tail(s)
           New(i, m) == s[i][1] \notin keysOf(m) /\ \A h \in 1..(i - 1) : s[h][1] # s[i][1]
           NewTail(i, m) == z[i][1] \notin keysOf(m) /\ \A h \in 1..(i - 1) : z[h][1] # z[i][1]
<1>1. /\ n \in Nat /\ n > 0 /\ DOMAIN s = 1..n /\ x = s[1]
      /\ DOMAIN z = 1..(n - 1) /\ \A i \in 1..(n - 1) : z[i] = s[i + 1]
  BY Walk
<1>2. /\ FirstOf(s, a) = {s[i] : i \in {j \in 1..n : New(j, a)}}
      /\ \A m : FirstOf(z, m) = {z[i] : i \in {j \in 1..(n - 1) : NewTail(j, m)}}
  BY <1>1 DEF FirstOf
<1> HIDE DEF z, n, x
<1>3. pairOf(a, x[1]) = {} <=> x[1] \notin keysOf(a)
  BY DEF pairOf, keysOf
<1>4. \A k : k \in keysOf(a \cup {x}) <=> k \in keysOf(a) \/ k = x[1]
  BY DEF keysOf
<1>5. ASSUME NEW i \in 1..(n - 1)
      PROVE  /\ New(i + 1, a) <=> NewTail(i, a) /\ z[i][1] # x[1]
             /\ NewTail(i, a \cup {x}) <=> NewTail(i, a) /\ z[i][1] # x[1]
  <2>1. i + 1 \in 1..n /\ (i + 1) - 1 = i /\ z[i] = s[i + 1]
    BY <1>1
  <2>2. ASSUME \A h \in 1..i : s[h][1] # s[i + 1][1]
        PROVE  x[1] # z[i][1] /\ \A h \in 1..(i - 1) : z[h][1] # z[i][1]
    <3>1. ASSUME NEW h \in 1..(i - 1) PROVE z[h][1] # z[i][1]
      <4>1. h \in 1..(n - 1) /\ h + 1 \in 1..i /\ z[h] = s[h + 1]
        BY <1>1
      <4> QED  BY <2>1, <2>2, <4>1
    <3>2. 1 \in 1..i
      BY <1>1
    <3> QED  BY <1>1, <2>1, <2>2, <3>1, <3>2
  <2>3. ASSUME x[1] # z[i][1], \A h \in 1..(i - 1) : z[h][1] # z[i][1], NEW h \in 1..i
        PROVE  s[h][1] # s[i + 1][1]
    <3>1. CASE h = 1
      BY <1>1, <2>1, <2>3, <3>1
    <3>2. CASE h # 1
      <4>1. h - 1 \in 1..(i - 1) /\ h - 1 \in 1..(n - 1) /\ (h - 1) + 1 = h
        BY <1>1, <3>2
      <4>2. z[h - 1] = s[h]
        BY <1>1, <4>1
      <4> QED  BY <2>1, <2>3, <4>1, <4>2
    <3> QED  BY <3>1, <3>2
  <2>4. New(i + 1, a) <=> NewTail(i, a) /\ z[i][1] # x[1]
    BY <2>1, <2>2, <2>3
  <2> QED  BY <1>4, <2>4
<1>6. New(1, a) <=> x[1] \notin keysOf(a)
  BY <1>1
<1> HIDE DEF New, NewTail
<1>7. CASE pairOf(a, x[1]) = {}
  <2>1. ASSUME NEW p \in FirstOf(s, a)
        PROVE  p \in {x} \cup FirstOf(z, a \cup {x})
    <3>1. PICK i \in 1..n : New(i, a) /\ p = s[i]
      BY <1>2, <2>1
    <3>2. CASE i = 1
      BY <1>1, <3>1, <3>2
    <3>3. CASE i # 1
      <4>1. PICK j \in 1..(n - 1) : j + 1 = i
        <5>1. i - 1 \in 1..(n - 1) /\ (i - 1) + 1 = i
          BY <1>1, <3>3
        <5> QED  BY <5>1
      <4>2. NewTail(j, a \cup {x}) /\ p = z[j]
        BY <1>1, <1>5, <3>1, <4>1
      <4> QED  BY <1>2, <4>2
    <3> QED  BY <3>2, <3>3
  <2>2. x \in FirstOf(s, a)
    <3>1. 1 \in 1..n /\ New(1, a) /\ x = s[1]
      BY <1>1, <1>3, <1>6, <1>7
    <3> QED  BY <1>2, <3>1
  <2>3. ASSUME NEW p \in FirstOf(z, a \cup {x})
        PROVE  p \in FirstOf(s, a)
    <3>1. PICK i \in 1..(n - 1) : NewTail(i, a \cup {x}) /\ p = z[i]
      BY <1>2, <2>3
    <3>2. i + 1 \in 1..n /\ p = s[i + 1]
      BY <1>1, <3>1
    <3>3. New(i + 1, a)
      BY <1>5, <3>1
    <3> QED  BY <1>2, <3>2, <3>3
  <2> QED  BY <1>7, <2>1, <2>2, <2>3 DEF x, z
<1>8. CASE pairOf(a, x[1]) # {}
  <2>1. ASSUME NEW p \in FirstOf(s, a)
        PROVE  p \in FirstOf(z, a)
    <3>1. PICK i \in 1..n : New(i, a) /\ p = s[i]
      BY <1>2, <2>1
    <3>2. i # 1
      BY <1>3, <1>6, <1>8, <3>1
    <3>3. PICK j \in 1..(n - 1) : j + 1 = i
      <4>1. i - 1 \in 1..(n - 1) /\ (i - 1) + 1 = i
        BY <1>1, <3>2
      <4> QED  BY <4>1
    <3>4. NewTail(j, a) /\ p = z[j]
      BY <1>1, <1>5, <3>1, <3>3
    <3> QED  BY <1>2, <3>4
  <2>2. ASSUME NEW p \in FirstOf(z, a)
        PROVE  p \in FirstOf(s, a)
    <3>1. PICK i \in 1..(n - 1) : NewTail(i, a) /\ p = z[i]
      BY <1>2, <2>2
    <3>2. z[i][1] # x[1]
      BY <1>3, <1>8, <3>1 DEF NewTail
    <3>3. i + 1 \in 1..n /\ p = s[i + 1]
      BY <1>1, <3>1
    <3>4. New(i + 1, a)
      BY <1>5, <3>1, <3>2
    <3> QED  BY <1>2, <3>3, <3>4
  <2> QED  BY <1>8, <2>1, <2>2 DEF x, z
<1> QED  BY <1>7, <1>8 DEF x

(* A visit leaves maps, the same map in both places if the call has one,     *)
(* the data as it was if the call only reads, and the outcome ahead.         *)
LEMMA MapVisits ==
  ASSUME NEW c \in MapCalled, NEW a, NEW b, NEW r, NEW s, NEW e,
         IsMap(a), IsMap(b), c[2] = c[3] => a = b,
         MapLeads(c, a, b, r, s, e), s # <<>>
  PROVE  LET f == Effect(c, a, b, r, Head(s)) IN
         /\ IsMap(f[1]) /\ IsMap(f[2])
         /\ c[2] = c[3] => f[1] = f[2]
         /\ Shared(c) => f[1] = a /\ f[2] = b
         /\ MapLeads(c, f[1], f[2], f[3], Tail(s), e)
<1> DEFINE x == Head(s)
           z == Tail(s)
<1>1. /\ c[1] \in {"clear", "insert", "insertAll", "insertOrAssign", "update", "extract", "eraseIf",
                   "merge", "swap", "at", "snapshot", "equal"}
      /\ c[1] \notin {"merge", "swap", "equal"} => c[3] = c[2] /\ a = b
      /\ c[1] \in {"merge", "swap"} => c[2] # c[3]
  BY MapCallsAssumption DEF MapCalled
<1>2. IsSeq(s) /\ IsSeq(z) /\ ToSet(s) = {x} \cup ToSet(z)
  BY Walk DEF MapLeads, MapWalk
<1> DEFINE Good(f) ==
      /\ IsMap(f[1]) /\ IsMap(f[2])
      /\ c[2] = c[3] => f[1] = f[2]
      /\ Shared(c) => f[1] = a /\ f[2] = b
      /\ MapLeads(c, f[1], f[2], f[3], z, e)
<1>10. ASSUME NEW d, NEW o, NEW q, Effect(c, a, b, r, x) = <<d, o, q>>,
             IsMap(d), IsMap(o), c[2] = c[3] => d = o, Shared(c) => d = a /\ o = b,
             MapLeads(c, d, o, q, z, e)
       PROVE  Good(Effect(c, a, b, r, x))
  BY <1>10
<1>11. SUFFICES Good(Effect(c, a, b, r, x))
  OBVIOUS
<1> HIDE DEF Good
<1>3. CASE c[1] = "insertAll"
  <2> DEFINE d == Emplaced(a, x)
  <2>1. Effect(c, a, b, r, x) = <<d, d, r \cup (d \ a)>>
    BY <1>3 DEF Effect
  <2>2. IsMap(d)
    BY AddedMap DEF Emplaced
  <2>3. /\ d \cup FirstOf(z, d) = a \cup FirstOf(s, a)
        /\ (r \cup (d \ a)) \cup FirstOf(z, d) = r \cup FirstOf(s, a)
    BY <1>2, FirstEmplaced DEF Emplaced, pairOf
  <2> HIDE DEF d
  <2>4. e = <<a \cup FirstOf(s, a), a \cup FirstOf(s, a), r \cup FirstOf(s, a)>>
    BY <1>3 DEF MapLeads, MapRest
  <2>5. MapLeads(c, d, d, r \cup (d \ a), z, e)
    BY <1>2, <1>3, <2>3, <2>4 DEF MapLeads, MapWalk, MapRest
  <2> QED  BY <1>3, <1>10, <2>1, <2>2, <2>5 DEF Shared
<1>4. CASE c[1] = "eraseIf"
  <2> DEFINE d == IF Condemned(x) THEN a \ {x} ELSE a
  <2>1. Effect(c, a, b, r, x) = <<d, d, r \cup (a \ d)>>
    BY <1>4 DEF Effect
  <2>2. IsMap(d)
    BY SmallerMap
  <2>3. e = <<{p \in a : ~Condemned(p)}, {p \in a : ~Condemned(p)},
              r \cup (a \ {p \in a : ~Condemned(p)})>>
    BY <1>4 DEF MapLeads, MapRest
  <2>4. {p \in a : Condemned(p)} \subseteq {x} \cup ToSet(z)
    BY <1>2, <1>4 DEF MapLeads, MapWalk
  <2>5. /\ {p \in d : ~Condemned(p)} = {p \in a : ~Condemned(p)}
        /\ (r \cup (a \ d)) \cup (d \ {p \in d : ~Condemned(p)}) =
             r \cup (a \ {p \in a : ~Condemned(p)})
        /\ {p \in d : Condemned(p)} \subseteq ToSet(z)
    BY <2>4
  <2> HIDE DEF d
  <2>6. MapLeads(c, d, d, r \cup (a \ d), z, e)
    BY <1>2, <1>4, <2>3, <2>5 DEF MapLeads, MapWalk, MapRest
  <2> QED  BY <1>4, <1>10, <2>1, <2>2, <2>6 DEF Shared
<1>5. CASE c[1] = "merge"
  <2> DEFINE Moved(m, o) == {p \in o : p[1] \notin keysOf(m)}
  <2>1. /\ Moved(a, b) \subseteq {x} \cup ToSet(z) /\ {x} \cup ToSet(z) \subseteq a \cup b /\ r = {}
        /\ e = <<a \cup Moved(a, b), b \ Moved(a, b), {}>>
    BY <1>2, <1>5 DEF MapLeads, MapWalk, MapRest
  <2>2. CASE pairOf(a, x[1]) = {}
    <3>1. Effect(c, a, b, r, x) = <<a \cup {x}, b \ {x}, r>>
      BY <1>5, <2>2 DEF Effect
    <3>2. IsMap(a \cup {x}) /\ IsMap(b \ {x})
      BY <2>2, AddedMap, SmallerMap
    <3>3. x \in b /\ x[1] \notin keysOf(a)
      BY <2>1, <2>2 DEF pairOf, keysOf
    <3>4. \A k : k \in keysOf(a \cup {x}) <=> k \in keysOf(a) \/ k = x[1]
      BY DEF keysOf
    <3>5. Moved(a \cup {x}, b \ {x}) = Moved(a, b) \ {x} /\ x \in Moved(a, b)
      BY <3>3, <3>4 DEF IsMap
    <3> HIDE DEF Moved
    <3>6. /\ (a \cup {x}) \cup Moved(a \cup {x}, b \ {x}) = a \cup Moved(a, b)
          /\ (b \ {x}) \ Moved(a \cup {x}, b \ {x}) = b \ Moved(a, b)
          /\ Moved(a \cup {x}, b \ {x}) \subseteq ToSet(z)
          /\ ToSet(z) \subseteq (a \cup {x}) \cup (b \ {x})
      BY <2>1, <3>5
    <3>7. MapLeads(c, a \cup {x}, b \ {x}, r, z, e)
      BY <1>2, <1>5, <2>1, <3>6 DEF MapLeads, MapWalk, MapRest, Moved
    <3> QED  BY <1>1, <1>5, <1>10, <3>1, <3>2, <3>7 DEF Shared
  <2>3. CASE pairOf(a, x[1]) # {}
    <3>1. Effect(c, a, b, r, x) = <<a, b, r>>
      BY <1>5, <2>3 DEF Effect
    <3>2. x \notin Moved(a, b)
      BY <2>3 DEF pairOf, keysOf
    <3>3. MapLeads(c, a, b, r, z, e)
      BY <1>2, <1>5, <2>1, <3>2 DEF MapLeads, MapWalk, MapRest
    <3> QED  BY <1>1, <1>5, <1>10, <3>1, <3>3 DEF Shared
  <2> QED  BY <2>2, <2>3
<1>6. CASE c[1] = "snapshot"
  <2>1. Effect(c, a, b, r, x) = <<a, a, r \cup {x}>>
    BY <1>6 DEF Effect
  <2>2. r \cup ToSet(s) = a /\ e = <<a, a, r \cup ToSet(s)>>
    BY <1>6 DEF MapLeads, MapWalk, MapRest
  <2>3. MapLeads(c, a, a, r \cup {x}, z, e)
    BY <1>2, <1>6, <2>2 DEF MapLeads, MapWalk, MapRest
  <2> QED  BY <1>1, <1>6, <1>10, <2>1, <2>3
<1>7. CASE c[1] = "equal"
  <2> DEFINE q == IF x \in a /\ x \in b THEN r ELSE r \cup {x}
  <2>1. Effect(c, a, b, r, x) = <<a, b, q>>
    BY <1>7 DEF Effect
  <2>2. e = <<a, b, r \cup {y \in ToSet(s) : ~(y \in a /\ y \in b)}>>
    BY <1>7 DEF MapLeads, MapRest
  <2>3. q \cup {y \in ToSet(z) : ~(y \in a /\ y \in b)} = r \cup {y \in ToSet(s) : ~(y \in a /\ y \in b)}
    BY <1>2
  <2> HIDE DEF q
  <2>4. MapLeads(c, a, b, q, z, e)
    BY <1>2, <1>7, <2>2, <2>3 DEF MapLeads, MapWalk, MapRest
  <2> QED  BY <1>1, <1>7, <1>10, <2>1, <2>4
<1>8. CASE c[1] = "swap"
  <2>1. CASE s = <<"one", "other">>
    <3>1. x = "one" /\ z = <<"other">> /\ Tail(z) = <<>> /\ z # <<>> /\ s # <<>>
      BY <2>1
    <3>2. Effect(c, a, b, r, x) = <<b, b, {a}>> /\ UNION {a} = a
      BY <1>8, <3>1 DEF Effect
    <3>3. e = <<b, a, {}>>
      BY <1>8, <3>1 DEF MapLeads, MapRest
    <3>4. MapLeads(c, b, b, {a}, z, e)
      BY <1>2, <1>8, <3>1, <3>2, <3>3 DEF MapLeads, MapWalk, MapRest
    <3> QED  BY <1>1, <1>8, <1>10, <3>2, <3>4 DEF Shared
  <2>2. CASE s = <<"other">>
    <3>1. x = "other" /\ z = <<>> /\ x # "one"
      BY <2>2
    <3>2. Effect(c, a, b, r, x) = <<a, UNION r, {}>>
      BY <1>8, <3>1 DEF Effect
    <3>3. e = <<a, UNION r, {}>>
      BY <1>8, <3>1 DEF MapLeads, MapRest
    <3>4. MapLeads(c, a, UNION r, {}, z, e)
      BY <1>2, <1>8, <3>1, <3>3 DEF MapLeads, MapWalk, MapRest
    <3>5. IsMap(UNION r)
      BY <1>8, <2>2 DEF MapLeads, MapWalk
    <3> QED  BY <1>1, <1>8, <1>10, <3>2, <3>4, <3>5 DEF Shared
  <2> QED  BY <1>8, <2>1, <2>2 DEF MapLeads, MapWalk
<1>9. CASE c[1] \notin {"insertAll", "eraseIf", "merge", "snapshot", "equal", "swap"}
  <2> DEFINE f == Effect(c, a, b, r, x)
  <2>1. s = <<c[4]>> /\ x = c[4] /\ z = <<>> /\ e = f
    BY <1>9, OneStep DEF MapLeads, MapWalk, MapRest
  <2>2. f = <<f[1], f[1], f[3]>> /\ (Shared(c) => f[1] = a)
    BY <1>1, <1>9 DEF Effect, Shared
  <2>3. IsMap(f[1])
    <3>1. CASE c[1] = "clear"
      BY <3>1, EmptyMap DEF Effect
    <3>2. CASE c[1] = "insert"
      BY <3>2, AddedMap DEF Effect, Emplaced
    <3>3. IsMap(a \ pairOf(a, x[1])) /\ pairOf(a \ pairOf(a, x[1]), x[1]) = {}
      BY SmallerMap DEF pairOf
    <3>4. CASE c[1] = "insertOrAssign"
      BY <3>3, <3>4, AddedMap DEF Effect
    <3>5. CASE c[1] = "update"
      <4>1. CASE pairOf(a, x[1]) = {}
        BY <3>3, <3>5, <4>1 DEF Effect
      <4>2. ASSUME NEW p \in pairOf(a, x[1])
            PROVE  IsMap(f[1])
        <5>1. pairOf(a, x[1]) = {p} /\ p[1] = x[1]
          BY <4>2 DEF pairOf, IsMap
        <5> DEFINE y == <<p[1], Changed(p[2])>>
        <5>2. f[1] = (a \ pairOf(a, x[1])) \cup {y} /\ y[1] = x[1]
          BY <3>5, <5>1 DEF Effect
        <5> HIDE DEF f, y
        <5>3. IsMap((a \ pairOf(a, x[1])) \cup {y})
          BY <3>3, <5>2, AddedMap
        <5> QED  BY <5>2, <5>3
      <4> QED  BY <4>1, <4>2
    <3>6. CASE c[1] = "extract"
      BY <3>3, <3>6 DEF Effect
    <3>7. CASE c[1] = "at"
      BY <3>7 DEF Effect
    <3> QED  BY <1>1, <1>9, <3>1, <3>2, <3>4, <3>5, <3>6, <3>7
  <2> HIDE DEF f
  <2>4. MapLeads(c, f[1], f[1], f[3], z, e)
    BY <1>2, <1>9, <2>1, <2>2 DEF MapLeads, MapWalk, MapRest
  <2> QED  BY <1>1, <1>9, <1>10, <2>2, <2>3, <2>4 DEF f
<1> QED  BY <1>1, <1>3, <1>4, <1>5, <1>6, <1>7, <1>8, <1>9

\* The calls that lock exclusively.
MapWriters == {c \in MapCalled : ~Shared(c)}

\* Each body is on its way to its outcome, and each that has ended is there.
MapOnCourse ==
  /\ DOMAIN todo = Threads /\ DOMAIN got = Threads /\ DOMAIN expect = Threads
  /\ \A m \in Objects : IsMap(data[m])
  /\ \A t \in Threads :
       /\ pc[t] = "body" => MapLeads(call[t], data[call[t][2]], data[call[t][3]],
                                     got[t], todo[t], expect[t])
       /\ pc[t] = "unlock" => <<data[call[t][2]], data[call[t][3]], got[t]>> = expect[t]

MapInv == ModeInv(MapCalled, MapWriters) /\ MapOnCourse

LEMMA CalledMaps ==
  ASSUME CallsOf(MapCalls)
  PROVE  CallsOf(MapCalled) /\ \A c \in MapCalled : ~Shared(c) <=> c \in MapWriters
BY DEF CallsOf, MapCalled, MapWriters

LEMMA MapInvStarts ==
  ASSUME CallsOf(MapCalls), Init
  PROVE  MapInv
<1>1. ModeInv(MapCalled, MapWriters)
  BY CalledMaps, ModeStart DEF Init
<1>2. \A x : IsMap({x})
  BY FS_Singleton DEF IsMap
<1>3. \A m \in Objects : IsMap(data[m])
  BY <1>2, EmptyMap DEF Init
<1>4. MapOnCourse
  BY <1>3 DEF Init, InitLocks, MapOnCourse
<1> QED  BY <1>1, <1>4 DEF MapInv

(* A member that has its locks begins with its outcome before it.            *)
LEMMA MapEnters ==
  ASSUME CallsOf(MapCalls), MapInv, NEW t \in Threads,
         pc[t] \in {"lock", "try"}, data' = data, call' = call,
         \/ pc' = [pc EXCEPT ![t] = "body"] /\ Enter(t, Visits(call[t]), Outcome(call[t]))
         \/ (\E p \in {"lock", "try"} : pc' = [pc EXCEPT ![t] = p]) /\ UNCHANGED bodyVars
  PROVE  MapOnCourse'
<1>1. /\ call[t] \in MapCalled /\ call[t][2] \in Objects /\ call[t][3] \in Objects
      /\ pc \in [Threads -> {"idle", "lock", "try", "body", "unlock"}]
  BY CalledMaps DEF MapInv, ModeInv, LocksInv, Types, Wants, CallsOf, Needs
<1>2. CASE pc' = [pc EXCEPT ![t] = "body"] /\ Enter(t, Visits(call[t]), Outcome(call[t]))
  <2>1. MapLeads(call[t], data[call[t][2]], data[call[t][3]], {}, Visits(call[t]), Outcome(call[t]))
    BY <1>1, MapBegins DEF MapInv, MapOnCourse
  <2>2. MapLeads(call[t], data[call[t][2]], data[call[t][3]], got[t], todo[t], expect[t])'
    BY <1>2, <2>1 DEF MapInv, MapOnCourse, Enter
  <2> QED  BY <1>1, <1>2, <2>2 DEF MapInv, MapOnCourse, Enter
<1>3. CASE (\E p \in {"lock", "try"} : pc' = [pc EXCEPT ![t] = p]) /\ UNCHANGED bodyVars
  BY <1>1, <1>3 DEF MapInv, MapOnCourse, bodyVars
<1> QED  BY <1>2, <1>3

(* A visit keeps its call on course, and the others on theirs.               *)
LEMMA MapStepped ==
  ASSUME CallsOf(MapCalls), MapInv, NEW t \in Threads, todo[t] # <<>>,
         Step(t, Effect(call[t], data[call[t][2]], data[call[t][3]], got[t], Head(todo[t])))
  PROVE  MapOnCourse'
<1> DEFINE f == Effect(call[t], data[call[t][2]], data[call[t][3]], got[t], Head(todo[t]))
<1>1. /\ call[t] \in MapCalled /\ call[t][2] \in Objects /\ call[t][3] \in Objects
      /\ pc[t] = "body"
  BY CalledMaps DEF MapInv, ModeInv, LocksInv, Wants, CallsOf, Needs, Step
<1>2. /\ IsMap(f[1]) /\ IsMap(f[2])
      /\ call[t][2] = call[t][3] => f[1] = f[2]
      /\ Shared(call[t]) => f[1] = data[call[t][2]] /\ f[2] = data[call[t][3]]
      /\ MapLeads(call[t], f[1], f[2], f[3], Tail(todo[t]), expect[t])
  <2>1. MapLeads(call[t], data[call[t][2]], data[call[t][3]], got[t], todo[t], expect[t])
    BY <1>1 DEF MapInv, MapOnCourse
  <2>2. IsMap(data[call[t][2]]) /\ IsMap(data[call[t][3]])
    BY <1>1 DEF MapInv, MapOnCourse
  <2>3. call[t][2] = call[t][3] => data[call[t][2]] = data[call[t][3]]
    OBVIOUS
  <2> QED  BY <1>1, <2>1, <2>2, <2>3, MapVisits
<1>3. Step(t, f)
  OBVIOUS
<1> HIDE DEF f
<1>4. /\ call' = call /\ data'[call[t][2]] = f[1] /\ data'[call[t][3]] = f[2]
      /\ \A m \in Objects : data'[m] \in {f[1], f[2], data[m]}
  BY <1>2, <1>3, CalledMaps, OwnData DEF MapInv, ModeInv
<1>5. /\ pc' = pc /\ expect' = expect
      /\ todo' = [todo EXCEPT ![t] = Tail(@)] /\ got' = [got EXCEPT ![t] = f[3]]
  BY <1>3 DEF Step
<1>6. \A m \in Objects : IsMap(data'[m])
  BY <1>2, <1>4 DEF MapInv, MapOnCourse
<1>7. MapLeads(call[t], data[call[t][2]], data[call[t][3]], got[t], todo[t], expect[t])'
  BY <1>2, <1>4, <1>5 DEF MapInv, MapOnCourse
<1>8. ASSUME NEW u \in Threads \ {t}, pc[u] \in {"body", "unlock"}
      PROVE  data'[call[u][2]] = data[call[u][2]] /\ data'[call[u][3]] = data[call[u][3]]
  <2>1. call[t] \notin MapWriters => f[1] = data[call[t][2]] /\ f[2] = data[call[t][3]]
    BY <1>1, <1>2, CalledMaps
  <2> QED  BY <1>3, <1>8, <2>1, CalledMaps, OthersUndisturbed DEF MapInv
<1> QED  BY <1>1, <1>4, <1>5, <1>6, <1>7, <1>8 DEF MapInv, MapOnCourse

(* A member that has nothing left to visit has its outcome.                  *)
LEMMA MapFinished ==
  ASSUME CallsOf(MapCalls), MapInv, NEW t \in Threads, Finish(t)
  PROVE  MapOnCourse'
<1>1. /\ call[t] \in MapCalled /\ todo[t] = <<>>
      /\ MapLeads(call[t], data[call[t][2]], data[call[t][3]], got[t], <<>>, expect[t])
  BY DEF MapInv, ModeInv, LocksInv, Wants, MapOnCourse, Finish
<1>2. <<data[call[t][2]], data[call[t][3]], got[t]>> = expect[t]
  BY <1>1, MapEnds
<1>3. pc \in [Threads -> {"idle", "lock", "try", "body", "unlock"}]
  BY DEF MapInv, ModeInv, LocksInv, Types
<1> QED  BY <1>2, <1>3 DEF MapInv, MapOnCourse, Finish, bodyVars

(* The inductive invariant of the hashmap: who holds which lock how, and     *)
(* that every body is on its way to what its call would have done at once.   *)
THEOREM MapInvariant ==
  ASSUME CallsOf(MapCalls)
  PROVE  Spec => []MapInv
<1>1. Init => MapInv
  BY MapInvStarts
<1>2. MapInv /\ [Next]_vars => MapInv'
  <2> SUFFICES ASSUME MapInv, [Next]_vars
               PROVE  MapInv'
    OBVIOUS
  <2>1. /\ ModeInv(MapCalled, MapWriters) /\ CallsOf(MapCalled)
        /\ pc \in [Threads -> {"idle", "lock", "try", "body", "unlock"}]
    BY CalledMaps DEF MapInv, ModeInv, LocksInv, Types
  <2>2. CASE UNCHANGED vars
    <3>1. MapOnCourse'
      BY <2>2 DEF MapInv, MapOnCourse, vars, bodyVars
    <3> QED  BY <2>1, <2>2, <3>1, ModeStutter DEF MapInv
  <2>3. ASSUME NEW t \in Threads, CallMap(t)
        PROVE  MapInv'
    <3>1. PICK c \in MapCalled : Call(t, c)
      BY <2>3 DEF CallMap, MapCalled
    <3>2. MapOnCourse'
      BY <2>1, <3>1 DEF MapInv, ModeInv, LocksInv, Types, MapOnCourse, Call, bodyVars
    <3> QED  BY <2>1, <3>1, <3>2, ModeCall DEF MapInv
  <2>4. ASSUME NEW t \in Threads, Run(t)
        PROVE  MapInv'
    <3> DEFINE c == call[t]
               exclusive == ~Shared(c)
               steps == Visits(c)
               outcome == Outcome(c)
               f == Effect(c, data[c[2]], data[c[3]], got[t], Head(todo[t]))
    <3>1. c \in MapCalled => (exclusive <=> c \in MapWriters)
      BY CalledMaps
    <3>2. CASE LockFirst(t, exclusive, steps, outcome)
      <4>1. MapOnCourse'
        BY <3>2, MapEnters DEF LockFirst
      <4> HIDE DEF exclusive, steps, outcome
      <4> QED  BY <2>1, <3>1, <3>2, <4>1, ModeFirst DEF MapInv
    <3>3. CASE TrySecond(t, exclusive, steps, outcome)
      <4>1. MapOnCourse'
        BY <3>3, MapEnters DEF TrySecond
      <4> HIDE DEF exclusive, steps, outcome
      <4> QED  BY <2>1, <3>1, <3>3, <4>1, ModeSecond DEF MapInv
    <3>4. CASE todo[t] # <<>> /\ Step(t, f)
      <4>1. MapOnCourse'
        BY <3>4, MapStepped
      <4> HIDE DEF f
      <4> QED  BY <2>1, <3>4, <4>1, ModeBody DEF MapInv
    <3>5. CASE Finish(t)
      BY <2>1, <3>5, MapFinished, ModeBody DEF MapInv
    <3>6. CASE Return(t)
      <4>1. MapOnCourse'
        BY <2>1, <3>6 DEF MapInv, ModeInv, LocksInv, Types, MapOnCourse, Return, Enter
      <4> QED  BY <2>1, <3>6, <4>1, ModeReturn DEF MapInv
    <3> QED  BY <2>4, <3>2, <3>3, <3>4, <3>5, <3>6 DEF Run
  <2> QED  BY <2>2, <2>3, <2>4 DEF Next
<1> QED  BY <1>1, <1>2, PTL DEF Spec

(* No deadlock: whichever maps the calls name, in whichever order and from   *)
(* however many threads, who waits for a mutex waits for a thread that is    *)
(* not waiting.                                                              *)
THEOREM MapCallsDoNotDeadlock ==
  ASSUME CallsOf(MapCalls)
  PROVE  Spec => []WaitsEnd
<1>1. MapInv => WaitsEnd
  BY CalledMaps, HoldersDoNotWait DEF MapInv, ModeInv
<1> QED  BY <1>1, MapInvariant, PTL

(* While a member that changes a map walks it, element by element, no other  *)
(* member is inside that map; merge and swap have both of theirs to          *)
(* themselves.                                                               *)
THEOREM MapBodiesAreApart ==
  ASSUME CallsOf(MapCalls)
  PROVE  Spec => []BodiesApart(MapWriters)
<1>1. MapInv => BodiesApart(MapWriters)
  BY CalledMaps, HoldersApart DEF MapInv
<1> QED  BY <1>1, MapInvariant, PTL

(* Every member of a map leaves its maps, and returns, what it would have    *)
(* done in one step at the moment it had its locks.                          *)
THEOREM MapCallsAreAtomic ==
  ASSUME CallsOf(MapCalls)
  PROVE  Spec => []CallsAreAtomic
<1>1. MapInv => CallsAreAtomic
  BY DEF MapInv, MapOnCourse, CallsAreAtomic
<1> QED  BY <1>1, MapInvariant, PTL

-----------------------------------------------------------------------------
(* ts::Stack, and the comparisons of ts::Queue                               *)
Stacks == Seq(Int)

\* How many places <=> and == look at: those of the shorter, and the sizes.
Places(a, b) == 1 + (IF Len(a) < Len(b) THEN Len(a) ELSE Len(b))

\* What the steps left (s) make of this, other and the result so far.
StackRest(c, a, b, r, s) ==
  CASE c[1] = "pushAll" -> <<a \o s, a \o s, {}>>
    [] c[1] = "compare" -> <<a, b, {Order(a, b)}>>
    [] c[1] = "equals" -> <<a, b, {IF a = b THEN 0 ELSE 1}>>
    [] OTHER -> IF s = <<>> THEN <<a, b, r>> ELSE StackEffect(c, a, b, r, c[4])

\* The places left are the last ones, in order; those before are the same.
StackWalk(c, a, b, r, s) ==
  /\ c[1] = "pushAll" => s \in Seq(Int) /\ r = {}
  /\ c[1] \in {"compare", "equals"} =>
       /\ s \in Seq(Int) /\ Len(s) <= Places(a, b)
       /\ \A i \in 1..Len(s) : s[i] = Places(a, b) - Len(s) + i
       /\ r = {} => s # <<>> /\ \A j \in 1..(Places(a, b) - Len(s)) : a[j] = b[j]
       /\ r # {} => r = {IF c[1] = "compare" THEN Order(a, b) ELSE IF a = b THEN 0 ELSE 1}
  /\ c[1] \notin {"pushAll", "compare", "equals"} => s = <<c[4]>> \/ s = <<>>

StackLeads(c, a, b, r, s, e) == StackWalk(c, a, b, r, s) /\ e = StackRest(c, a, b, r, s)

LEMMA PlacesType ==
  ASSUME NEW a \in Stacks, NEW b \in Stacks
  PROVE  /\ Len(a) \in Nat /\ Len(b) \in Nat
         /\ Places(a, b) \in Nat /\ Places(a, b) > 0
         /\ Places(a, b) <= Len(a) + 1 /\ Places(a, b) <= Len(b) + 1
         /\ Places(a, b) = Len(a) + 1 \/ Places(a, b) = Len(b) + 1
         /\ DOMAIN a = 1..Len(a) /\ DOMAIN b = 1..Len(b)
BY DEF Stacks, Places

(* The first place that is not the same decides the order.                   *)
LEMMA OrderedByPlace ==
  ASSUME NEW a \in Stacks, NEW b \in Stacks, NEW i \in 1..(Places(a, b) - 1),
         a[i] < b[i], \A j \in 1..(i - 1) : a[j] = b[j]
  PROVE  Smaller(a, b) /\ ~Smaller(b, a) /\ a # b
<1>1. /\ Len(a) \in Nat /\ Len(b) \in Nat /\ i \in 1..Len(a) /\ i \in 1..Len(b)
      /\ DOMAIN a = 1..Len(a) /\ DOMAIN b = 1..Len(b) /\ i \in Nat
      /\ a[i] \in Int /\ b[i] \in Int
  <2>1. /\ Len(a) \in Nat /\ Len(b) \in Nat /\ Places(a, b) \in Nat
        /\ Places(a, b) <= Len(a) + 1 /\ Places(a, b) <= Len(b) + 1
        /\ DOMAIN a = 1..Len(a) /\ DOMAIN b = 1..Len(b)
    BY PlacesType
  <2>2. i \in 1..Len(a) /\ i \in 1..Len(b) /\ i \in Nat
    BY <2>1
  <2> QED  BY <2>1, <2>2, ElementOfSeq DEF Stacks
<1>2. Smaller(a, b)
  BY <1>1 DEF Smaller
<1>3. ~IsStrictPrefix(b, a)
  <2>1. SUFFICES ASSUME Len(b) <= Len(a), SubSeq(b, 1, Len(b)) = SubSeq(a, 1, Len(b))
                 PROVE  FALSE
    BY DEF IsStrictPrefix, IsPrefix
  <2>2. SubSeq(b, 1, Len(b))[i] = b[i] /\ SubSeq(a, 1, Len(b))[i] = a[i]
    BY <1>1, <2>1 DEF Stacks
  <2> QED  BY <1>1, <2>1, <2>2
<1>4. ASSUME NEW k \in DOMAIN b \cap DOMAIN a, b[k] < a[k], \A j \in 1..(k - 1) : b[j] = a[j]
      PROVE  FALSE
  <2>1. k \in Nat /\ k >= 1 /\ a[k] \in Int /\ b[k] \in Int
    BY <1>1 DEF Stacks
  <2>2. CASE k < i
    <3>1. k \in 1..(i - 1)
      BY <1>1, <2>1, <2>2
    <3> QED  BY <1>4, <2>1, <3>1
  <2>3. CASE k > i
    <3>1. i \in 1..(k - 1)
      BY <1>1, <2>1, <2>3
    <3> QED  BY <1>1, <1>4, <3>1
  <2>4. CASE k = i
    BY <1>1, <1>4, <2>4
  <2> QED  BY <1>1, <2>1, <2>2, <2>3, <2>4
<1>5. ~Smaller(b, a)
  BY <1>3, <1>4 DEF Smaller
<1>6. a # b
  BY <1>1
<1> QED  BY <1>2, <1>5, <1>6

LEMMA Lengths ==
  \A m, k \in Nat : IF m < k THEN m <= k /\ m # k ELSE m <= k => m = k
OBVIOUS

(* If there is no such place their sizes do.                                 *)
LEMMA OrderedBySize ==
  ASSUME NEW a \in Stacks, NEW b \in Stacks,
         \A j \in 1..(Places(a, b) - 1) : a[j] = b[j]
  PROVE  /\ Smaller(a, b) <=> Len(a) < Len(b)
         /\ a = b <=> Len(a) = Len(b)
<1>1. /\ Len(a) \in Nat /\ Len(b) \in Nat
      /\ DOMAIN a = 1..Len(a) /\ DOMAIN b = 1..Len(b)
      /\ \A j \in 1..Len(a) : a[j] \in Int
      /\ \A j \in 1..Len(b) : b[j] \in Int
  BY PlacesType DEF Stacks
<1>2. \A j \in DOMAIN a \cap DOMAIN b : a[j] = b[j] /\ a[j] \in Int
  <2>1. SUFFICES ASSUME NEW j \in DOMAIN a \cap DOMAIN b PROVE a[j] = b[j] /\ a[j] \in Int
    OBVIOUS
  <2>2. j \in 1..(Places(a, b) - 1)
    <3>1. /\ Places(a, b) \in Nat
          /\ Places(a, b) = Len(a) + 1 \/ Places(a, b) = Len(b) + 1
      BY PlacesType
    <3> QED  BY <1>1, <3>1
  <2> QED  BY <1>1, <2>2
<1>3. a = b <=> Len(a) = Len(b)
  <2>1. ASSUME Len(a) = Len(b)
        PROVE  a = b
    <3>1. a \in Seq(Int) /\ b \in Seq(Int) /\ \A j \in 1..Len(a) : a[j] = b[j]
      BY <1>1, <1>2, <2>1 DEF Stacks
    <3> QED  BY <2>1, <3>1, SeqEqual
  <2> QED  BY <2>1
<1>4. ~\E i \in DOMAIN a \cap DOMAIN b : a[i] < b[i] /\ \A j \in 1..(i - 1) : a[j] = b[j]
  BY <1>2
<1>5. IsStrictPrefix(a, b) <=> Len(a) < Len(b)
  <2>1. CASE Len(a) < Len(b)
    <3>1. /\ SubSeq(a, 1, Len(a)) \in Seq(Int) /\ SubSeq(b, 1, Len(a)) \in Seq(Int)
          /\ Len(SubSeq(a, 1, Len(a))) = Len(a) /\ Len(SubSeq(b, 1, Len(a))) = Len(a)
          /\ \A j \in 1..Len(a) : SubSeq(a, 1, Len(a))[j] = a[j]
          /\ \A j \in 1..Len(a) : SubSeq(b, 1, Len(a))[j] = b[j]
      BY <1>1, <2>1 DEF Stacks
    <3>2. \A j \in 1..Len(a) : a[j] = b[j]
      BY <1>1, <1>2, <2>1
    <3>3. \A j \in 1..Len(SubSeq(a, 1, Len(a))) :
            SubSeq(a, 1, Len(a))[j] = SubSeq(b, 1, Len(a))[j]
      BY <3>1, <3>2
    <3>4. SubSeq(a, 1, Len(a)) = SubSeq(b, 1, Len(a))
      BY <3>1, <3>3, SeqEqual
    <3>5. Len(a) <= Len(b) /\ Len(a) # Len(b)
      BY <1>1, <2>1, Lengths, Zenon
    <3>6. a # b
      BY <3>5
    <3>7. IsStrictPrefix(a, b)
      BY <3>4, <3>5, <3>6, Zenon DEF IsStrictPrefix, IsPrefix
    <3> QED  BY <2>1, <3>7
  <2>2. CASE ~(Len(a) < Len(b))
    <3>1. IsStrictPrefix(a, b) => Len(a) <= Len(b) /\ a # b
      BY Zenon DEF IsStrictPrefix, IsPrefix
    <3>2. Len(a) <= Len(b) => Len(a) = Len(b)
      BY <1>1, <2>2, Lengths, Zenon
    <3> QED  BY <1>3, <2>2, <3>1, <3>2, Zenon
  <2> QED  BY <2>1, <2>2
<1> QED  BY <1>3, <1>4, <1>5 DEF Smaller

LEMMA PlacesSame ==
  ASSUME NEW a \in Stacks, NEW b \in Stacks
  PROVE  Places(a, b) = Places(b, a)
BY DEF Places, Stacks

(* What <=> finds at the first place it has not found the same.              *)
LEMMA Compares ==
  ASSUME NEW a \in Stacks, NEW b \in Stacks, NEW i \in 1..Places(a, b),
         \A j \in 1..(i - 1) : a[j] = b[j]
  PROVE  \/ i < Places(a, b) /\ a[i] = b[i] /\ CompareAt(a, b, {}, i) = {}
         \/ CompareAt(a, b, {}, i) = {Order(a, b)} /\ (Order(a, b) = 0 <=> a = b)
<1>1. /\ Len(a) \in Nat /\ Len(b) \in Nat /\ i \in Nat /\ Places(a, b) \in Nat
      /\ Places(a, b) <= Len(a) + 1 /\ Places(a, b) <= Len(b) + 1
      /\ Places(a, b) = Len(a) + 1 \/ Places(a, b) = Len(b) + 1
  BY PlacesType
<1>2. CASE i = Places(a, b)
  <2>1. \A j \in 1..(Places(a, b) - 1) : a[j] = b[j] /\ b[j] = a[j]
    BY <1>2
  <2>2. Places(b, a) = Places(a, b)
    BY PlacesSame
  <2>3. /\ Smaller(a, b) <=> Len(a) < Len(b)
        /\ Smaller(b, a) <=> Len(b) < Len(a)
        /\ a = b <=> Len(a) = Len(b)
    BY <2>1, <2>2, OrderedBySize
  <2>4. CompareAt(a, b, {}, i) = {Sign(Len(a) - Len(b))}
    BY <1>1, <1>2 DEF CompareAt
  <2>5. Sign(Len(a) - Len(b)) = Order(a, b) /\ (Order(a, b) = 0 <=> a = b)
    BY <1>1, <2>3 DEF Sign, Order
  <2> QED  BY <2>4, <2>5
<1>3. CASE i < Places(a, b)
  <2>1. /\ i <= Len(a) /\ i <= Len(b) /\ a[i] \in Int /\ b[i] \in Int
        /\ i \in 1..(Places(a, b) - 1)
    <3>1. i \in 1..Len(a) /\ i \in 1..Len(b) /\ i \in 1..(Places(a, b) - 1)
      BY <1>1, <1>3
    <3>2. a[i] \in Int /\ b[i] \in Int
      BY <3>1, ElementOfSeq DEF Stacks
    <3> QED  BY <1>1, <3>1, <3>2
  <2>2. CASE a[i] = b[i]
    BY <1>1, <1>3, <2>1, <2>2 DEF CompareAt
  <2>3. CASE a[i] # b[i]
    <3>1. CompareAt(a, b, {}, i) = {Sign(a[i] - b[i])}
      BY <1>1, <2>1, <2>3 DEF CompareAt
    <3>2. CASE a[i] < b[i]
      <4>1. Smaller(a, b) /\ a # b
        BY <2>1, <3>2, OrderedByPlace
      <4>2. Sign(a[i] - b[i]) = -1 /\ Order(a, b) = -1
        BY <2>1, <3>2, <4>1 DEF Sign, Order
      <4> QED  BY <3>1, <4>1, <4>2
    <3>3. CASE b[i] < a[i]
      <4>1. /\ i \in 1..(Places(b, a) - 1)
            /\ \A j \in 1..(i - 1) : b[j] = a[j]
        BY <2>1, PlacesSame
      <4>2. Smaller(b, a) /\ ~Smaller(a, b) /\ a # b
        BY <3>3, <4>1, OrderedByPlace
      <4>3. Sign(a[i] - b[i]) = 1 /\ Order(a, b) = 1
        BY <2>1, <3>3, <4>2 DEF Sign, Order
      <4> QED  BY <3>1, <4>2, <4>3
    <3> QED  BY <2>1, <2>3, <3>2, <3>3
  <2> QED  BY <2>2, <2>3
<1> QED  BY <1>1, <1>2, <1>3

LEMMA StackBegins ==
  ASSUME NEW STATE c, c \in StackCalls, data[c[2]] \in Stacks, data[c[3]] \in Stacks
  PROVE  StackLeads(c, data[c[2]], data[c[3]], {}, Steps(c), StackOutcome(c))
<1> DEFINE a == data[c[2]]
           b == data[c[3]]
<1>1. CASE c[1] = "pushAll"
  <2>1. c[4] \in Seq(Int)
    BY <1>1, StackCallsAssumption
  <2> QED  BY <1>1, <2>1 DEF StackLeads, StackWalk, StackRest, Steps, StackOutcome
<1>2. CASE c[1] \in {"compare", "equals"}
  <2> DEFINE n == Places(a, b)
  <2>1. n \in Nat /\ n > 0
    BY PlacesType
  <2>2. Steps(c) = [i \in 1..n |-> i]
    BY <1>2 DEF Steps, Places
  <2> HIDE DEF n
  <2>3. /\ Steps(c) \in Seq(Int) /\ Len(Steps(c)) = n /\ Steps(c) # <<>>
        /\ \A i \in 1..n : Steps(c)[i] = n - n + i
    BY <2>1, <2>2
  <2>4. StackWalk(c, a, b, {}, Steps(c))
    BY <1>2, <2>1, <2>3 DEF StackWalk, n
  <2>5. StackOutcome(c) = StackRest(c, a, b, {}, Steps(c))
    BY <1>2 DEF StackRest, StackOutcome
  <2> QED  BY <2>4, <2>5 DEF StackLeads
<1>3. CASE c[1] \notin {"pushAll", "compare", "equals"}
  BY <1>3 DEF StackLeads, StackWalk, StackRest, Steps, StackOutcome
<1> QED  BY <1>1, <1>2, <1>3

LEMMA StackEnds ==
  ASSUME NEW c \in StackCalls, NEW a \in Stacks, NEW b \in Stacks, NEW r, NEW e,
         c[2] = c[3] => a = b, StackLeads(c, a, b, r, <<>>, e)
  PROVE  <<a, b, r>> = e
<1>1. c[1] \notin {"compare", "equals"} => a = b
  BY StackCallsAssumption
<1>2. CASE c[1] = "pushAll"
  <2>1. a \o <<>> = a
    BY ConcatEmptySeq DEF Stacks
  <2> QED  BY <1>1, <1>2, <2>1 DEF StackLeads, StackWalk, StackRest
<1>3. CASE c[1] \in {"compare", "equals"}
  BY <1>3 DEF StackLeads, StackWalk, StackRest
<1>4. CASE c[1] \notin {"pushAll", "compare", "equals"}
  BY <1>4 DEF StackLeads, StackRest
<1> QED  BY <1>2, <1>3, <1>4

(* A step leaves stacks, the same in both places if the call has one, the    *)
(* data as it was if the call only reads, and the outcome ahead.             *)
LEMMA StackSteps ==
  ASSUME NEW c \in StackCalls, NEW a \in Stacks, NEW b \in Stacks, NEW r, NEW s, NEW e,
         c[2] = c[3] => a = b, StackLeads(c, a, b, r, s, e), s # <<>>
  PROVE  LET f == StackEffect(c, a, b, r, Head(s)) IN
         /\ f[1] \in Stacks /\ f[2] \in Stacks
         /\ c[2] = c[3] => f[1] = f[2]
         /\ SharedStack(c) => f[1] = a /\ f[2] = b
         /\ StackLeads(c, f[1], f[2], f[3], Tail(s), e)
<1> DEFINE x == Head(s)
           z == Tail(s)
           Good(f) ==
             /\ f[1] \in Stacks /\ f[2] \in Stacks
             /\ c[2] = c[3] => f[1] = f[2]
             /\ SharedStack(c) => f[1] = a /\ f[2] = b
             /\ StackLeads(c, f[1], f[2], f[3], z, e)
<1>1. ASSUME NEW d, NEW o, NEW q, StackEffect(c, a, b, r, x) = <<d, o, q>>,
             d \in Stacks, o \in Stacks, c[2] = c[3] => d = o, SharedStack(c) => d = a /\ o = b,
             StackLeads(c, d, o, q, z, e)
       PROVE  Good(StackEffect(c, a, b, r, x))
  BY <1>1
<1>2. SUFFICES Good(StackEffect(c, a, b, r, x))
  OBVIOUS
<1> HIDE DEF Good
<1>3. /\ c[1] \in {"clear", "pop", "push", "pushAll", "front", "compare", "equals"}
      /\ c[1] \notin {"compare", "equals"} => a = b
      /\ c[1] = "push" => c[4] \in Int
  BY StackCallsAssumption
<1>4. CASE c[1] = "pushAll"
  <2>1. s \in Seq(Int) /\ r = {} /\ e = <<a \o s, a \o s, {}>>
    BY <1>4 DEF StackLeads, StackWalk, StackRest
  <2>2. x \in Int /\ z \in Seq(Int) /\ s = <<x>> \o z
    BY <2>1, HeadTailProperties
  <2>3. Append(a, x) \in Stacks /\ Append(a, x) = a \o <<x>>
    BY <2>2, AppendProperties, AppendIsConcat DEF Stacks
  <2>4. Append(a, x) \o z = a \o s
    <3>1. a \in Seq(Int) /\ <<x>> \in Seq(Int)
      BY <2>2 DEF Stacks
    <3> HIDE DEF x, z
    <3>2. (a \o <<x>>) \o z = a \o (<<x>> \o z)
      BY <2>2, <3>1, ConcatAssociative
    <3> QED  BY <2>2, <2>3, <3>2
  <2>5. StackEffect(c, a, b, r, x) = <<Append(a, x), Append(a, x), r>>
    BY <1>4 DEF StackEffect
  <2>6. StackLeads(c, Append(a, x), Append(a, x), r, z, e)
    <3> HIDE DEF x, z
    <3> QED  BY <1>4, <2>1, <2>2, <2>4 DEF StackLeads, StackWalk, StackRest
  <2> HIDE DEF x, z
  <2> QED  BY <1>1, <1>4, <2>3, <2>5, <2>6 DEF SharedStack
<1>5. CASE c[1] \in {"compare", "equals"}
  <2> DEFINE n == Places(a, b)
             i == n - Len(s) + 1
             out == IF c[1] = "compare" THEN Order(a, b) ELSE IF a = b THEN 0 ELSE 1
             q == StackEffect(c, a, b, r, x)[3]
  <2>1. /\ s \in Seq(Int) /\ Len(s) <= n
        /\ \A h \in 1..Len(s) : s[h] = n - Len(s) + h
        /\ r = {} => \A j \in 1..(n - Len(s)) : a[j] = b[j]
        /\ r # {} => r = {out}
        /\ e = <<a, b, {out}>>
    BY <1>5 DEF StackLeads, StackWalk, StackRest
  <2>2. /\ n \in Nat /\ n > 0 /\ Len(s) \in Nat /\ Len(s) > 0 /\ x = s[1]
        /\ z \in Seq(Int) /\ Len(z) = Len(s) - 1 /\ \A h \in 1..Len(z) : z[h] = s[h + 1]
        /\ z = <<>> <=> Len(z) = 0
    <3>1. n \in Nat /\ n > 0
      BY PlacesType
    <3>2. /\ z \in Seq(Int) /\ Len(z) = Len(s) - 1 /\ \A h \in 1..Len(z) : z[h] = s[h + 1]
      BY <2>1, HeadTailProperties
    <3>3. Len(s) \in Nat /\ Len(s) > 0 /\ x = s[1]
      BY <2>1, EmptySeq
    <3>4. z = <<>> <=> Len(z) = 0
      BY <3>2, EmptySeq
    <3> QED  BY <3>1, <3>2, <3>3, <3>4
  <2> HIDE DEF x, z, n
  <2>3. /\ x = i /\ i \in 1..n /\ n - Len(s) = i - 1 /\ n - Len(z) = i
        /\ z # <<>> <=> i < n
    BY <2>1, <2>2
  <2>4. \A h \in 1..Len(z) : z[h] = n - Len(z) + h
    <3>1. ASSUME NEW h \in 1..Len(z)
          PROVE  z[h] = n - Len(z) + h
      <4>1. h + 1 \in 1..Len(s) /\ z[h] = s[h + 1]
        BY <2>2
      <4>2. s[h + 1] = n - Len(s) + (h + 1)
        BY <2>1, <4>1
      <4> QED  BY <2>2, <4>1, <4>2
    <3> QED  BY <3>1
  <2>5. StackEffect(c, a, b, r, x) = <<a, b, q>>
    BY <1>5 DEF StackEffect
  <2>6. /\ q = {} => i < n /\ \A j \in 1..i : a[j] = b[j]
        /\ q # {} => q = {out}
    <3>1. CASE r # {}
      <4>1. r = {out} /\ CompareAt(a, b, r, x) = r
        BY <2>1, <3>1 DEF CompareAt
      <4>2. CASE c[1] = "compare"
        BY <3>1, <4>1, <4>2 DEF StackEffect
      <4>3. CASE c[1] = "equals" /\ Len(a) # Len(b)
        BY <4>3 DEF StackEffect
      <4>4. CASE c[1] = "equals" /\ Len(a) = Len(b)
        <5>1. q = {k * k : k \in r}
          BY <4>1, <4>4 DEF StackEffect
        <5>2. out \in {0, 1} /\ 0 * 0 = 0 /\ 1 * 1 = 1
          BY <4>4
        <5>3. out * out = out
          BY <5>2
        <5> HIDE DEF out, q
        <5> QED  BY <4>1, <5>1, <5>3
      <4> QED  BY <1>5, <4>2, <4>3, <4>4
    <3>2. CASE r = {}
      <4>1. \A j \in 1..(i - 1) : a[j] = b[j]
        BY <2>1, <2>3, <3>2
      <4>2. \/ i < n /\ a[i] = b[i] /\ CompareAt(a, b, {}, i) = {}
            \/ CompareAt(a, b, {}, i) = {Order(a, b)} /\ (Order(a, b) = 0 <=> a = b)
        BY <2>3, <4>1, Compares DEF n
      <4>3. a[i] = b[i] => \A j \in 1..i : a[j] = b[j]
        <5>1. ASSUME NEW j \in 1..i, a[i] = b[i] PROVE a[j] = b[j]
          BY <2>3, <4>1, <5>1
        <5> QED  BY <5>1
      <4>4. CASE c[1] = "compare"
        <5>1. q = CompareAt(a, b, {}, i)
          BY <2>3, <3>2, <4>4 DEF StackEffect
        <5> QED  BY <4>2, <4>3, <4>4, <5>1
      <4>5. CASE c[1] = "equals" /\ Len(a) # Len(b)
        BY <4>5 DEF StackEffect
      <4>6. CASE c[1] = "equals" /\ Len(a) = Len(b)
        <5>1. q = {k * k : k \in CompareAt(a, b, {}, i)}
          BY <2>3, <3>2, <4>6 DEF StackEffect
        <5>2. Order(a, b) \in {-1, 0, 1}
          BY DEF Order
        <5>3. Order(a, b) * Order(a, b) = IF Order(a, b) = 0 THEN 0 ELSE 1
          BY <5>2
        <5>4. CASE i < n /\ a[i] = b[i] /\ CompareAt(a, b, {}, i) = {}
          BY <4>3, <5>1, <5>4
        <5>5. CASE CompareAt(a, b, {}, i) = {Order(a, b)} /\ (Order(a, b) = 0 <=> a = b)
          BY <4>6, <5>1, <5>3, <5>5
        <5> QED  BY <4>2, <5>4, <5>5
      <4> QED  BY <1>5, <4>4, <4>5, <4>6
    <3> QED  BY <3>1, <3>2
  <2> HIDE DEF q
  <2>7. StackWalk(c, a, b, q, z)
    <3>1. Len(z) <= n
      BY <2>1, <2>2
    <3>2. q = {} => z # <<>> /\ \A j \in 1..(n - Len(z)) : a[j] = b[j]
      BY <2>3, <2>6
    <3> QED  BY <1>5, <2>2, <2>4, <2>6, <3>1, <3>2 DEF StackWalk, n
  <2>8. StackLeads(c, a, b, q, z, e)
    BY <1>5, <2>1, <2>7 DEF StackLeads, StackRest
  <2> QED  BY <1>1, <2>5, <2>8
<1>6. CASE c[1] \in {"clear", "pop", "push", "front"}
  <2> DEFINE f == StackEffect(c, a, b, r, x)
  <2>1. s = <<c[4]>> /\ x = c[4] /\ z = <<>> /\ e = f
    BY <1>6, OneStep DEF StackLeads, StackWalk, StackRest
  <2>2. f = <<f[1], f[1], f[3]>> /\ (SharedStack(c) => f[1] = a)
    BY <1>6 DEF StackEffect, SharedStack
  <2>3. f[1] \in Stacks
    <3>1. CASE c[1] = "clear"
      BY <3>1 DEF StackEffect, Stacks
    <3>2. CASE c[1] = "pop"
      <4>1. a # <<>> => Front(a) \in Seq(Int)
        BY EmptySeq DEF Stacks, Front
      <4> QED  BY <3>2, <4>1 DEF StackEffect, Stacks
    <3>3. CASE c[1] = "push"
      <4>1. Append(a, c[4]) \in Stacks
        BY <1>3, <3>3, AppendProperties DEF Stacks
      <4> QED  BY <2>1, <3>3, <4>1 DEF StackEffect
    <3>4. CASE c[1] = "front"
      BY <3>4 DEF StackEffect
    <3> QED  BY <1>6, <3>1, <3>2, <3>3, <3>4
  <2> HIDE DEF f
  <2>4. StackLeads(c, f[1], f[1], f[3], z, e)
    BY <1>6, <2>1, <2>2 DEF StackLeads, StackWalk, StackRest
  <2> QED  BY <1>1, <1>3, <1>6, <2>2, <2>3, <2>4 DEF f
<1> QED  BY <1>3, <1>4, <1>5, <1>6

\* The calls that lock exclusively.
StackWriters == {c \in StackCalls : ~SharedStack(c)}

\* Each body is on its way to its outcome, and each that has ended is there.
StackOnCourse ==
  /\ DOMAIN todo = Threads /\ DOMAIN got = Threads /\ DOMAIN expect = Threads
  /\ \A m \in Objects : data[m] \in Stacks
  /\ \A t \in Threads :
       /\ pc[t] = "body" => StackLeads(call[t], data[call[t][2]], data[call[t][3]],
                                       got[t], todo[t], expect[t])
       /\ pc[t] = "unlock" => <<data[call[t][2]], data[call[t][3]], got[t]>> = expect[t]

StackInv == ModeInv(StackCalls, StackWriters) /\ StackOnCourse

LEMMA StackInvStarts ==
  ASSUME CallsOf(StackCalls), StackInit
  PROVE  StackInv
<1>1. ModeInv(StackCalls, StackWriters)
  BY ModeStart DEF StackInit
<1>2. \A m \in Objects : data[m] \in Stacks
  BY DEF StackInit, Stacks
<1>3. StackOnCourse
  BY <1>2 DEF StackInit, InitLocks, StackOnCourse
<1> QED  BY <1>1, <1>3 DEF StackInv

(* A member that has its locks begins with its outcome before it.            *)
LEMMA StackEnters ==
  ASSUME CallsOf(StackCalls), StackInv, NEW t \in Threads,
         pc[t] \in {"lock", "try"}, data' = data, call' = call,
         \/ pc' = [pc EXCEPT ![t] = "body"] /\ Enter(t, Steps(call[t]), StackOutcome(call[t]))
         \/ (\E p \in {"lock", "try"} : pc' = [pc EXCEPT ![t] = p]) /\ UNCHANGED bodyVars
  PROVE  StackOnCourse'
<1>1. /\ call[t] \in StackCalls /\ call[t][2] \in Objects /\ call[t][3] \in Objects
      /\ pc \in [Threads -> {"idle", "lock", "try", "body", "unlock"}]
  BY DEF StackInv, ModeInv, LocksInv, Types, Wants, CallsOf, Needs
<1>2. CASE pc' = [pc EXCEPT ![t] = "body"] /\ Enter(t, Steps(call[t]), StackOutcome(call[t]))
  <2>1. StackLeads(call[t], data[call[t][2]], data[call[t][3]], {},
                   Steps(call[t]), StackOutcome(call[t]))
    BY <1>1, StackBegins DEF StackInv, StackOnCourse
  <2>2. StackLeads(call[t], data[call[t][2]], data[call[t][3]], got[t], todo[t], expect[t])'
    BY <1>2, <2>1 DEF StackInv, StackOnCourse, Enter
  <2> QED  BY <1>1, <1>2, <2>2 DEF StackInv, StackOnCourse, Enter
<1>3. CASE (\E p \in {"lock", "try"} : pc' = [pc EXCEPT ![t] = p]) /\ UNCHANGED bodyVars
  BY <1>1, <1>3 DEF StackInv, StackOnCourse, bodyVars
<1> QED  BY <1>2, <1>3

(* A step keeps its call on course, and the others on theirs.                *)
LEMMA StackStepped ==
  ASSUME CallsOf(StackCalls), StackInv, NEW t \in Threads, todo[t] # <<>>,
         Step(t, StackEffect(call[t], data[call[t][2]], data[call[t][3]], got[t], Head(todo[t])))
  PROVE  StackOnCourse'
<1> DEFINE f == StackEffect(call[t], data[call[t][2]], data[call[t][3]], got[t], Head(todo[t]))
<1>1. /\ call[t] \in StackCalls /\ call[t][2] \in Objects /\ call[t][3] \in Objects
      /\ pc[t] = "body"
  BY DEF StackInv, ModeInv, LocksInv, Wants, CallsOf, Needs, Step
<1>2. /\ f[1] \in Stacks /\ f[2] \in Stacks
      /\ call[t][2] = call[t][3] => f[1] = f[2]
      /\ SharedStack(call[t]) => f[1] = data[call[t][2]] /\ f[2] = data[call[t][3]]
      /\ StackLeads(call[t], f[1], f[2], f[3], Tail(todo[t]), expect[t])
  <2>1. StackLeads(call[t], data[call[t][2]], data[call[t][3]], got[t], todo[t], expect[t])
    BY <1>1 DEF StackInv, StackOnCourse
  <2>2. data[call[t][2]] \in Stacks /\ data[call[t][3]] \in Stacks
    BY <1>1 DEF StackInv, StackOnCourse
  <2>3. call[t][2] = call[t][3] => data[call[t][2]] = data[call[t][3]]
    OBVIOUS
  <2> QED  BY <1>1, <2>1, <2>2, <2>3, StackSteps
<1>3. Step(t, f)
  OBVIOUS
<1> HIDE DEF f
<1>4. /\ call' = call /\ data'[call[t][2]] = f[1] /\ data'[call[t][3]] = f[2]
      /\ \A m \in Objects : data'[m] \in {f[1], f[2], data[m]}
  BY <1>2, <1>3, OwnData DEF StackInv, ModeInv
<1>5. /\ pc' = pc /\ expect' = expect
      /\ todo' = [todo EXCEPT ![t] = Tail(@)] /\ got' = [got EXCEPT ![t] = f[3]]
  BY <1>3 DEF Step
<1>6. \A m \in Objects : data'[m] \in Stacks
  BY <1>2, <1>4 DEF StackInv, StackOnCourse
<1>7. StackLeads(call[t], data[call[t][2]], data[call[t][3]], got[t], todo[t], expect[t])'
  BY <1>2, <1>4, <1>5 DEF StackInv, StackOnCourse
<1>8. ASSUME NEW u \in Threads \ {t}, pc[u] \in {"body", "unlock"}
      PROVE  data'[call[u][2]] = data[call[u][2]] /\ data'[call[u][3]] = data[call[u][3]]
  <2>1. call[t] \notin StackWriters => f[1] = data[call[t][2]] /\ f[2] = data[call[t][3]]
    BY <1>1, <1>2 DEF StackWriters
  <2> QED  BY <1>3, <1>8, <2>1, OthersUndisturbed DEF StackInv
<1> QED  BY <1>1, <1>4, <1>5, <1>6, <1>7, <1>8 DEF StackInv, StackOnCourse

(* A member that has no step left has its outcome.                           *)
LEMMA StackFinished ==
  ASSUME CallsOf(StackCalls), StackInv, NEW t \in Threads, Finish(t)
  PROVE  StackOnCourse'
<1>1. /\ call[t] \in StackCalls /\ todo[t] = <<>>
      /\ data[call[t][2]] \in Stacks /\ data[call[t][3]] \in Stacks
      /\ StackLeads(call[t], data[call[t][2]], data[call[t][3]], got[t], <<>>, expect[t])
  BY DEF StackInv, ModeInv, LocksInv, Wants, CallsOf, Needs, StackOnCourse, Finish
<1>2. <<data[call[t][2]], data[call[t][3]], got[t]>> = expect[t]
  BY <1>1, StackEnds
<1>3. pc \in [Threads -> {"idle", "lock", "try", "body", "unlock"}]
  BY DEF StackInv, ModeInv, LocksInv, Types
<1> QED  BY <1>2, <1>3 DEF StackInv, StackOnCourse, Finish, bodyVars

(* The inductive invariant of the stack: who holds which lock how, and that  *)
(* every body is on its way to what its call would have done at once.        *)
THEOREM StackInvariant ==
  ASSUME CallsOf(StackCalls)
  PROVE  StackSpec => []StackInv
<1>1. StackInit => StackInv
  BY StackInvStarts
<1>2. StackInv /\ [StackNext]_vars => StackInv'
  <2> SUFFICES ASSUME StackInv, [StackNext]_vars
               PROVE  StackInv'
    OBVIOUS
  <2>1. /\ ModeInv(StackCalls, StackWriters)
        /\ pc \in [Threads -> {"idle", "lock", "try", "body", "unlock"}]
    BY DEF StackInv, ModeInv, LocksInv, Types
  <2>2. CASE UNCHANGED vars
    <3>1. StackOnCourse'
      BY <2>2 DEF StackInv, StackOnCourse, vars, bodyVars
    <3> QED  BY <2>1, <2>2, <3>1, ModeStutter DEF StackInv
  <2>3. ASSUME NEW t \in Threads, CallStack(t)
        PROVE  StackInv'
    <3>1. PICK c \in StackCalls : Call(t, c)
      BY <2>3 DEF CallStack
    <3>2. StackOnCourse'
      BY <2>1, <3>1 DEF StackInv, ModeInv, LocksInv, Types, StackOnCourse, Call, bodyVars
    <3> QED  BY <2>1, <3>1, <3>2, ModeCall DEF StackInv
  <2>4. ASSUME NEW t \in Threads, RunStack(t)
        PROVE  StackInv'
    <3> DEFINE c == call[t]
               exclusive == ~SharedStack(c)
               steps == Steps(c)
               outcome == StackOutcome(c)
               f == StackEffect(c, data[c[2]], data[c[3]], got[t], Head(todo[t]))
    <3>1. c \in StackCalls => (exclusive <=> c \in StackWriters)
      BY DEF StackWriters
    <3>2. CASE LockFirst(t, exclusive, steps, outcome)
      <4>1. StackOnCourse'
        BY <3>2, StackEnters DEF LockFirst
      <4> HIDE DEF exclusive, steps, outcome
      <4> QED  BY <2>1, <3>1, <3>2, <4>1, ModeFirst DEF StackInv
    <3>3. CASE TrySecond(t, exclusive, steps, outcome)
      <4>1. StackOnCourse'
        BY <3>3, StackEnters DEF TrySecond
      <4> HIDE DEF exclusive, steps, outcome
      <4> QED  BY <2>1, <3>1, <3>3, <4>1, ModeSecond DEF StackInv
    <3>4. CASE todo[t] # <<>> /\ Step(t, f)
      <4>1. StackOnCourse'
        BY <3>4, StackStepped
      <4> HIDE DEF f
      <4> QED  BY <2>1, <3>4, <4>1, ModeBody DEF StackInv
    <3>5. CASE Finish(t)
      BY <2>1, <3>5, StackFinished, ModeBody DEF StackInv
    <3>6. CASE Return(t)
      <4>1. StackOnCourse'
        BY <2>1, <3>6 DEF StackInv, ModeInv, LocksInv, Types, StackOnCourse, Return, Enter
      <4> QED  BY <2>1, <3>6, <4>1, ModeReturn DEF StackInv
    <3> QED  BY <2>4, <3>2, <3>3, <3>4, <3>5, <3>6 DEF RunStack
  <2> QED  BY <2>2, <2>3, <2>4 DEF StackNext
<1> QED  BY <1>1, <1>2, PTL DEF StackSpec

(* No deadlock: whichever stacks the calls name, in whichever order and from *)
(* however many threads, who waits for a mutex waits for a thread that is    *)
(* not waiting.                                                              *)
THEOREM StackCallsDoNotDeadlock ==
  ASSUME CallsOf(StackCalls)
  PROVE  StackSpec => []WaitsEnd
<1>1. StackInv => WaitsEnd
  BY HoldersDoNotWait DEF StackInv, ModeInv
<1> QED  BY <1>1, StackInvariant, PTL

(* While a member that changes a stack works on it, item by item, no other   *)
(* member works on that stack, whichever stacks the calls name and however   *)
(* many threads there are.                                                   *)
THEOREM StackBodiesAreApart ==
  ASSUME CallsOf(StackCalls)
  PROVE  StackSpec => []BodiesApart(StackWriters)
<1>1. StackInv => BodiesApart(StackWriters)
  BY HoldersApart DEF StackInv
<1> QED  BY <1>1, StackInvariant, PTL

(* Every member of a stack, and the comparisons that ts::Queue shares with   *)
(* it, leaves its stacks, and returns, what it would have done in one step   *)
(* at the moment it had its locks.                                           *)
THEOREM StackCallsAreAtomic ==
  ASSUME CallsOf(StackCalls)
  PROVE  StackSpec => []CallsAreAtomic
<1>1. StackInv => CallsAreAtomic
  BY DEF StackInv, StackOnCourse, CallsAreAtomic
<1> QED  BY <1>1, StackInvariant, PTL

-----------------------------------------------------------------------------
(* ts::Trie *)

CONSTANT Letters

WordsOfLetters == Words \subseteq Seq(Letters)
-----------------------------------------------------------------------------
(* Paths *)

\* What IsPrefix says, letter by letter.
Starts(p, w) == Len(p) <= Len(w) /\ \A i \in 1..Len(p) : p[i] = w[i]

LEMMA BeginIsStart ==
  ASSUME NEW w \in Seq(Letters), NEW d \in 0..Len(w)
  PROVE  /\ Begin(w, d) \in Seq(Letters) /\ Len(Begin(w, d)) = d
         /\ \A i \in 1..d : Begin(w, d)[i] = w[i]
BY DEF Begin

LEMMA SameSeq ==
  ASSUME NEW p \in Seq(Letters), NEW q \in Seq(Letters), Len(p) = Len(q),
         \A i \in 1..Len(p) : p[i] = q[i]
  PROVE  p = q
OBVIOUS

LEMMA PrefixIsStart ==
  ASSUME NEW p \in Seq(Letters), NEW w \in Seq(Letters)
  PROVE  IsPrefix(p, w) <=> Starts(p, w)
<1>1. Len(p) \in Nat /\ Len(w) \in Nat
  OBVIOUS
<1>2. IsPrefix(p, w) <=> Len(p) <= Len(w) /\ Begin(p, Len(p)) = Begin(w, Len(p))
  BY DEF IsPrefix, Begin
<1>3. CASE Len(p) <= Len(w)
  <2>1. Len(p) \in 0..Len(p) /\ Len(p) \in 0..Len(w)
    BY <1>1, <1>3
  <2>2. /\ Begin(p, Len(p)) \in Seq(Letters) /\ Len(Begin(p, Len(p))) = Len(p)
        /\ \A i \in 1..Len(p) : Begin(p, Len(p))[i] = p[i]
    BY <2>1, BeginIsStart
  <2>3. /\ Begin(w, Len(p)) \in Seq(Letters) /\ Len(Begin(w, Len(p))) = Len(p)
        /\ \A i \in 1..Len(p) : Begin(w, Len(p))[i] = w[i]
    BY <2>1, BeginIsStart
  <2>4. Begin(p, Len(p)) = Begin(w, Len(p)) <=> \A i \in 1..Len(p) : p[i] = w[i]
    BY <2>2, <2>3, SameSeq
  <2> QED  BY <1>2, <1>3, <2>4 DEF Starts
<1>4. CASE ~ (Len(p) <= Len(w))
  BY <1>2, <1>4 DEF Starts
<1> QED  BY <1>3, <1>4

(* The path of a word is what it begins with, the empty word left out.       *)
LEMMA PathIsStarts ==
  ASSUME NEW w \in Seq(Letters)
  PROVE  /\ Path(w) \subseteq Seq(Letters)
         /\ \A p \in Seq(Letters) : p \in Path(w) <=> p # <<>> /\ Starts(p, w)
<1>1. ASSUME NEW p \in Path(w) PROVE p \in Seq(Letters) /\ p # <<>> /\ Starts(p, w)
  <2>1. PICK d \in 1..Len(w) : p = Begin(w, d)
    BY DEF Path
  <2>2. d \in 0..Len(w) /\ d >= 1
    OBVIOUS
  <2>3. p \in Seq(Letters) /\ Len(p) = d /\ \A i \in 1..d : p[i] = w[i]
    BY <2>1, <2>2, BeginIsStart
  <2>4. p # <<>>
    BY <2>2, <2>3
  <2>5. Len(w) \in Nat /\ d <= Len(w)
    OBVIOUS
  <2> QED  BY <2>3, <2>4, <2>5 DEF Starts
<1>2. ASSUME NEW p \in Seq(Letters), p # <<>>, Starts(p, w) PROVE p \in Path(w)
  <2>1. Len(p) \in Nat /\ Len(w) \in Nat /\ Len(p) # 0 /\ Len(p) <= Len(w)
    BY <1>2 DEF Starts
  <2>2. Len(p) \in 1..Len(w) /\ Len(p) \in 0..Len(w)
    BY <2>1
  <2>3. /\ Begin(w, Len(p)) \in Seq(Letters) /\ Len(Begin(w, Len(p))) = Len(p)
        /\ \A i \in 1..Len(p) : Begin(w, Len(p))[i] = w[i]
    BY <2>2, BeginIsStart
  <2>4. p = Begin(w, Len(p))
    BY <1>2, <2>3, SameSeq DEF Starts
  <2> QED  BY <2>2, <2>4 DEF Path
<1> QED  BY <1>1, <1>2

LEMMA StartsOfStarts ==
  ASSUME NEW p \in Seq(Letters), NEW q \in Seq(Letters), NEW w \in Seq(Letters), Starts(q, w)
  PROVE  /\ Starts(p, q) => Starts(p, w)
         /\ Starts(p, w) /\ Len(p) <= Len(q) => Starts(p, q)
         /\ Starts(w, w)
<1>1. Len(p) \in Nat /\ Len(q) \in Nat /\ Len(w) \in Nat
  OBVIOUS
<1> QED  BY <1>1 DEF Starts

(* A path is finite. *)
LEMMA PathIsFinite ==
  ASSUME NEW w \in Seq(Letters)
  PROVE  IsFiniteSet(Path(w))
<1> DEFINE f == [d \in 1..Len(w) |-> Begin(w, d)]
<1>1. Len(w) \in Int /\ 1 \in Int
  OBVIOUS
<1>2. f \in [1..Len(w) -> Path(w)] /\ \A p \in Path(w) : \E d \in 1..Len(w) : f[d] = p
  BY DEF Path
<1>3. f \in Surjection(1..Len(w), Path(w))
  BY <1>2 DEF Surjection
<1>4. IsFiniteSet(1..Len(w))
  BY <1>1, FS_Interval
<1> HIDE DEF f
<1> QED  BY <1>3, <1>4, FS_Surjection

(* If a word w and another one u begin alike, then u ends within w, or there *)
(* is a last node in common, from which u leaves the path of w.              *)
LEMMA Fork ==
  ASSUME NEW w \in Seq(Letters), NEW u \in Seq(Letters), NEW p \in Path(w), p \in Path(u),
         u \notin Path(w)
  PROVE  \E q \in Path(w), c \in Path(u) :
           Starts(p, q) /\ Starts(q, c) /\ Len(c) = Len(q) + 1 /\ c \notin Path(w)
<1>1. p \in Seq(Letters) /\ p # <<>> /\ Starts(p, u) /\ Starts(p, w)
  BY PathIsStarts
<1>2. Len(p) \in Nat /\ Len(u) \in Nat /\ Len(p) >= 1 /\ Len(p) <= Len(u)
  BY <1>1 DEF Starts
<1> DEFINE D == {d \in Nat : Len(p) <= d /\ d <= Len(u) /\ Begin(u, d) \notin Path(w)}
<1>3. D # {}
  <2>1. Len(u) \in 0..Len(u)
    BY <1>2
  <2>2. Begin(u, Len(u)) = u
    BY <2>1, BeginIsStart, SameSeq
  <2> QED  BY <1>2, <2>2
<1>4. PICK d \in D : \A e \in D : ~ (<<e, d>> \in OpToRel(<, Nat))
  <2>1. D \subseteq Nat
    OBVIOUS
  <2> HIDE DEF D
  <2> QED  BY <1>3, <2>1, NatLessThanWellFounded, WFMin
<1>5. d \in Nat /\ Len(p) <= d /\ d <= Len(u) /\ Begin(u, d) \notin Path(w)
  OBVIOUS
<1>6. d # Len(p)
  <2>1. Len(p) \in 0..Len(u)
    BY <1>2
  <2>2. Begin(u, Len(p)) = p
    BY <1>1, <2>1, BeginIsStart, SameSeq DEF Starts
  <2> QED  BY <1>5, <2>2
<1>7. PICK k \in Nat : k = d - 1
  BY <1>2, <1>5, <1>6
<1>8. k \notin D
  <2>1. k < d
    BY <1>5, <1>7
  <2>2. <<k, d>> \in OpToRel(<, Nat)
    BY <1>5, <2>1 DEF OpToRel
  <2> HIDE DEF D
  <2> QED  BY <1>4, <2>2
<1>9. Begin(u, k) \in Path(w) /\ Len(p) <= k /\ k <= Len(u)
  BY <1>2, <1>5, <1>6, <1>7, <1>8
<1> HIDE DEF D
<1>10. k \in 0..Len(u) /\ d \in 0..Len(u) /\ d = k + 1
  BY <1>2, <1>5, <1>7, <1>9
<1>11. PICK q, c : q = Begin(u, k) /\ c = Begin(u, d)
  OBVIOUS
<1>12. /\ q \in Seq(Letters) /\ Len(q) = k /\ \A i \in 1..k : q[i] = u[i]
       /\ c \in Seq(Letters) /\ Len(c) = k + 1 /\ \A i \in 1..k + 1 : c[i] = u[i]
  BY <1>10, <1>11, BeginIsStart
<1>13. Starts(p, q) /\ Starts(q, c) /\ Starts(c, u) /\ c # <<>>
  <2>1. Starts(p, q)
    BY <1>1, <1>2, <1>9, <1>12 DEF Starts
  <2>2. Starts(q, c)
    BY <1>12 DEF Starts
  <2>3. Starts(c, u)
    BY <1>10, <1>12 DEF Starts
  <2>4. c # <<>>
    BY <1>12
  <2> QED  BY <2>1, <2>2, <2>3, <2>4
<1>14. c \in Path(u)
  BY <1>12, <1>13, PathIsStarts
<1>15. q \in Path(w) /\ c \notin Path(w) /\ Len(c) = Len(q) + 1
  BY <1>5, <1>9, <1>11, <1>12
<1> QED  BY <1>13, <1>14, <1>15

-----------------------------------------------------------------------------
(* What removeHelper leaves *)

\* The nodes that words have.
TreeOf(words) == {<<>>} \cup UNION {Path(w) : w \in words}

LEMMA TreeOfWords ==
  ASSUME NEW words, words \subseteq Seq(Letters)
  PROVE  /\ TreeOf(words) \subseteq Seq(Letters)
         /\ \A p \in Seq(Letters) :
              p \in TreeOf(words) <=> p = <<>> \/ \E w \in words : p # <<>> /\ Starts(p, w)
<1>1. \A w \in words : Path(w) \subseteq Seq(Letters)
                       /\ \A p \in Seq(Letters) : p \in Path(w) <=> p # <<>> /\ Starts(p, w)
  BY PathIsStarts
<1>2. <<>> \in Seq(Letters)
  OBVIOUS
<1> QED  BY <1>1, <1>2 DEF TreeOf

\* A tree of the words and w, in which exactly the words end.
TreeFor(n, words, w) ==
  /\ w \in Seq(Letters) /\ words \subseteq Seq(Letters)
  /\ DOMAIN n = TreeOf(words \cup {w})
  /\ \A p \in DOMAIN n : p # <<>> => (n[p].isEndpoint <=> p \in words)

(* No node that a word runs through is erased. *)
LEMMA WordsAreKept ==
  ASSUME NEW n, NEW words, NEW w, TreeFor(n, words, w),
         NEW u \in words, NEW p \in Path(u)
  PROVE  p \notin Erased(n, w)
<1> SUFFICES ASSUME p \in Erased(n, w) PROVE FALSE
  OBVIOUS
<1>1. w \in Seq(Letters) /\ u \in Seq(Letters) /\ words \cup {w} \subseteq Seq(Letters)
  BY DEF TreeFor
<1>2. p \in Path(w) /\ \A q \in Path(w) : IsPrefix(p, q) => Dead(n, q, w)
  BY DEF Erased
<1>3. p \in Seq(Letters) /\ p # <<>> /\ Starts(p, u) /\ Starts(p, w)
  BY <1>1, <1>2, PathIsStarts
<1>4. \A c \in Path(u) : c \in DOMAIN n
  BY DEF TreeFor, TreeOf
<1>5. CASE u \in Path(w)
  <2>1. IsPrefix(p, u)
    BY <1>1, <1>3, PrefixIsStart
  <2>2. ~n[u].isEndpoint
    BY <1>2, <1>5, <2>1 DEF Dead
  <2>3. u # <<>> /\ Starts(u, u)
    BY <1>1, <1>5, PathIsStarts, StartsOfStarts
  <2>4. u \in DOMAIN n
    BY <1>1, <1>4, <2>3, PathIsStarts
  <2> QED  BY <2>2, <2>3, <2>4 DEF TreeFor
<1>6. CASE u \notin Path(w)
  <2>1. PICK q \in Path(w), c \in Path(u) :
          Starts(p, q) /\ Starts(q, c) /\ Len(c) = Len(q) + 1 /\ c \notin Path(w)
    BY <1>1, <1>2, <1>6, Fork
  <2>2. q \in Seq(Letters) /\ c \in Seq(Letters)
    BY <1>1, PathIsStarts
  <2>3. IsPrefix(p, q) /\ IsPrefix(q, c)
    BY <1>3, <2>1, <2>2, PrefixIsStart
  <2>4. c \in Children(n, q)
    BY <1>4, <2>1, <2>3 DEF Children
  <2> QED  BY <1>2, <2>1, <2>3, <2>4 DEF Dead
<1> QED  BY <1>5, <1>6

(* A node that stays is on the way to a word that is left. *)
LEMMA KeptHaveWords ==
  ASSUME NEW n, NEW words, NEW w, TreeFor(n, words, w),
         NEW p \in DOMAIN n, p # <<>>, p \notin Erased(n, w)
  PROVE  \E u \in words : p \in Path(u)
<1>1. /\ w \in Seq(Letters) /\ words \subseteq Seq(Letters) /\ words \cup {w} \subseteq Seq(Letters)
      /\ DOMAIN n = TreeOf(words \cup {w})
  BY DEF TreeFor
<1>2. p \in Seq(Letters)
  BY <1>1, TreeOfWords
<1>3. CASE p \notin Path(w)
  BY <1>1, <1>3 DEF TreeOf
<1>4. CASE p \in Path(w)
  <2>1. PICK q \in Path(w) : IsPrefix(p, q) /\ ~Dead(n, q, w)
    BY <1>4 DEF Erased
  <2>2. q \in Seq(Letters) /\ q # <<>> /\ Starts(q, w) /\ Starts(p, q)
    BY <1>1, <1>2, <2>1, PathIsStarts, PrefixIsStart
  <2>3. q \in DOMAIN n
    BY <1>1 DEF TreeOf
  <2>4. CASE n[q].isEndpoint
    <3>1. q \in words
      BY <2>2, <2>3, <2>4 DEF TreeFor
    <3>2. p \in Path(q)
      BY <1>2, <2>2, PathIsStarts
    <3> QED  BY <3>1, <3>2
  <2>5. CASE ~n[q].isEndpoint
    <3>1. PICK c \in Children(n, q) : c \notin Path(w)
      BY <2>1, <2>5 DEF Dead
    <3>2. c \in DOMAIN n /\ IsPrefix(q, c) /\ Len(c) = Len(q) + 1
      BY DEF Children
    <3>3. c \in Seq(Letters)
      BY <1>1, <3>2, TreeOfWords
    <3>4. Starts(q, c) /\ c # <<>>
      <4>1. Len(q) \in Nat
        BY <2>2
      <4>2. Len(c) # 0
        BY <3>2, <4>1
      <4> QED  BY <2>2, <3>2, <3>3, <4>2, PrefixIsStart
    <3>5. PICK u \in words : c \in Path(u)
      BY <1>1, <3>1, <3>2, <3>4 DEF TreeOf
    <3>6. u \in Seq(Letters) /\ Starts(c, u)
      BY <1>1, <3>3, <3>5, PathIsStarts
    <3>7. Starts(p, u)
      <4>1. Starts(p, c)
        BY <1>2, <2>2, <3>3, <3>4, StartsOfStarts
      <4> QED  BY <1>2, <3>3, <3>6, <4>1, StartsOfStarts
    <3> QED  BY <1>2, <3>6, <3>7, PathIsStarts
  <2> QED  BY <2>4, <2>5
<1> QED  BY <1>3, <1>4

(* What is left is the tree of the words that are left. *)
LEMMA PrunedTree ==
  ASSUME NEW n, NEW words, NEW w, TreeFor(n, words, w)
  PROVE  DOMAIN n \ Erased(n, w) = TreeOf(words) /\ Erased(n, w) \subseteq DOMAIN n \ {<<>>}
<1>1. w \in Seq(Letters) /\ DOMAIN n = TreeOf(words \cup {w})
  BY DEF TreeFor
<1>2. Erased(n, w) \subseteq Path(w) /\ Path(w) \subseteq DOMAIN n
  BY <1>1 DEF Erased, TreeOf
<1>3. <<>> \notin Erased(n, w)
  <2>1. <<>> \in Seq(Letters)
    OBVIOUS
  <2> QED  BY <1>1, <1>2, <2>1, PathIsStarts
<1>4. ASSUME NEW p \in DOMAIN n, p \notin Erased(n, w) PROVE p \in TreeOf(words)
  BY <1>4, KeptHaveWords DEF TreeOf
<1>5. ASSUME NEW p \in TreeOf(words) PROVE p \in DOMAIN n /\ p \notin Erased(n, w)
  BY <1>1, <1>3, WordsAreKept DEF TreeOf
<1> QED  BY <1>2, <1>3, <1>4, <1>5

-----------------------------------------------------------------------------
(* The words held *)

Left(h) == {w \in Words : h[w] > 0}

\* The nodes are the tree of the words held, each as often as its node counts.
HoldsWord(n, h) ==
  /\ n \in [DOMAIN n -> [isEndpoint : BOOLEAN, count : Nat]]
  /\ h \in [Words -> Nat] /\ (<<>> \in Words => h[<<>>] = 0)
  /\ DOMAIN n = TreeOf(Left(h))
  /\ \A p \in DOMAIN n : p # <<>> /\ n[p].isEndpoint => p \in Words
  /\ \A p \in DOMAIN n : p # <<>> => (n[p].isEndpoint <=> n[p].count > 0)
  /\ \A w \in Words : w # <<>> => IF w \in DOMAIN n THEN n[w].count = h[w] ELSE h[w] = 0

(* Exactly the words held end at a node. *)
LEMMA EndsAreWords ==
  ASSUME WordsOfLetters, NEW n, NEW h, HoldsWord(n, h)
  PROVE  /\ {p \in DOMAIN n : p # <<>> /\ n[p].isEndpoint} = Left(h)
         /\ Left(h) \subseteq Seq(Letters)
         /\ \A w \in Words : h[w] = IF w # <<>> /\ w \in DOMAIN n /\ n[w].isEndpoint
                                    THEN n[w].count ELSE 0
<1>1. ASSUME NEW w \in Words
      PROVE  /\ h[w] = IF w # <<>> /\ w \in DOMAIN n /\ n[w].isEndpoint THEN n[w].count ELSE 0
             /\ w \in Left(h) <=> w # <<>> /\ w \in DOMAIN n /\ n[w].isEndpoint
  <2>1. h[w] \in Nat /\ (w \in DOMAIN n => n[w].count \in Nat)
    BY DEF HoldsWord
  <2>2. CASE w = <<>>
    BY <2>1, <2>2 DEF HoldsWord, Left
  <2>3. CASE w # <<>> /\ w \notin DOMAIN n
    BY <2>1, <2>3 DEF HoldsWord, Left
  <2>4. CASE w # <<>> /\ w \in DOMAIN n
    <3>1. n[w].count = h[w] /\ (n[w].isEndpoint <=> n[w].count > 0)
      BY <2>4 DEF HoldsWord
    <3> QED  BY <2>1, <2>4, <3>1 DEF Left
  <2> QED  BY <2>2, <2>3, <2>4
<1>2. \A p \in DOMAIN n : p # <<>> /\ n[p].isEndpoint => p \in Words
  BY DEF HoldsWord
<1>3. Left(h) \subseteq Words
  BY DEF Left
<1> QED  BY <1>1, <1>2, <1>3 DEF WordsOfLetters

\* The tree with fresh nodes for what the way to w lacks.
Grown(n, w) ==
  [p \in DOMAIN n \cup (Path(w) \ DOMAIN n) |-> IF p \in Path(w) \ DOMAIN n THEN fresh ELSE n[p]]

\* add(w) turns n and h into m and g.
Adds(n, h, w, m, g) ==
  /\ w \in Words /\ w # <<>>
  /\ m = [Grown(n, w) EXCEPT ![w] = [isEndpoint |-> TRUE, count |-> @.count + 1]]
  /\ g = [h EXCEPT ![w] = @ + 1]

(* add leaves a tree of the words then held. *)
LEMMA AddHolds ==
  ASSUME WordsOfLetters, NEW n, NEW h, NEW w, NEW m, NEW g, HoldsWord(n, h), Adds(n, h, w, m, g)
  PROVE  HoldsWord(m, g) /\ DOMAIN m = DOMAIN n \cup (Path(w) \ DOMAIN n)
<1> DEFINE D == DOMAIN n \cup Path(w)
           N == [isEndpoint : BOOLEAN, count : Nat]
           grown == Grown(n, w)
<1>0. w \in Words /\ w # <<>>
  BY DEF Adds
<1>1. w \in Seq(Letters) /\ w \in Path(w)
  <2>1. w \in Seq(Letters)
    BY <1>0 DEF WordsOfLetters
  <2>2. Starts(w, w)
    BY <2>1, StartsOfStarts DEF Starts
  <2> QED  BY <1>0, <2>1, <2>2, PathIsStarts
<1>2. /\ DOMAIN grown = D
      /\ \A p \in D : grown[p] = IF p \in DOMAIN n THEN n[p] ELSE fresh
  BY DEF Grown
<1> HIDE DEF grown
<1>3. fresh \in N /\ fresh.isEndpoint = FALSE /\ fresh.count = 0
  BY DEF fresh
<1>4. \A p \in D : grown[p] \in N
  BY <1>2, <1>3 DEF HoldsWord
<1>5. /\ DOMAIN m = D
      /\ m[w] = [isEndpoint |-> TRUE, count |-> grown[w].count + 1]
      /\ \A p \in D : p # w => m[p] = grown[p]
  <2>1. m = [grown EXCEPT ![w] = [isEndpoint |-> TRUE, count |-> @.count + 1]]
    BY DEF Adds, grown
  <2> QED  BY <1>1, <1>2, <2>1
<1> HIDE DEF D
<1>6. w \in D
  BY <1>1 DEF D
<1>7. grown[w].count = h[w]
  <2>1. CASE w \in DOMAIN n
    BY <1>0, <1>2, <1>6, <2>1 DEF HoldsWord
  <2>2. CASE w \notin DOMAIN n
    BY <1>0, <1>2, <1>3, <1>6, <2>2 DEF HoldsWord
  <2> QED  BY <2>1, <2>2
<1>8. h[w] \in Nat /\ g \in [Words -> Nat] /\ g[w] = h[w] + 1 /\ \A v \in Words : v # w => g[v] = h[v]
  <2>1. h \in [Words -> Nat] /\ g = [h EXCEPT ![w] = @ + 1]
    BY DEF Adds, HoldsWord
  <2> QED  BY <1>0, <2>1
<1>9. m[w] \in N /\ m[w].isEndpoint = TRUE /\ m[w].count = g[w] /\ g[w] > 0
  BY <1>5, <1>7, <1>8
<1>10. Left(g) = Left(h) \cup {w}
  BY <1>0, <1>8 DEF Left
<1>11. D = TreeOf(Left(g))
  <2>1. DOMAIN n = TreeOf(Left(h))
    BY DEF HoldsWord
  <2> QED  BY <1>10, <2>1 DEF D, TreeOf
<1>12. grown \in [D -> N]
  <2>1. grown = [p \in D |-> grown[p]]
    BY <1>2 DEF grown, Grown, D
  <2> HIDE DEF N
  <2> QED  BY <1>4, <2>1
<1>13. m \in [DOMAIN m -> N]
  <2>1. m = [p \in DOMAIN m |-> m[p]]
    BY DEF Adds
  <2>2. \A p \in DOMAIN m : m[p] \in N
    BY <1>4, <1>5, <1>9
  <2> HIDE DEF N
  <2> QED  BY <2>1, <2>2
<1>14. \A p \in D : p # <<>> /\ p # w =>
         /\ m[p].isEndpoint => p \in Words
         /\ m[p].isEndpoint <=> m[p].count > 0
         /\ p \in Words => m[p].count = h[p]
  <2> SUFFICES ASSUME NEW p \in D, p # <<>>, p # w
               PROVE  /\ m[p].isEndpoint => p \in Words
                      /\ m[p].isEndpoint <=> m[p].count > 0
                      /\ p \in Words => m[p].count = h[p]
    OBVIOUS
  <2>1. CASE p \in DOMAIN n
    BY <1>2, <1>5, <2>1 DEF HoldsWord
  <2>2. CASE p \notin DOMAIN n
    <3>1. m[p] = fresh
      BY <1>2, <1>5, <2>2
    <3>2. p \in Words => h[p] = 0
      BY <2>2 DEF HoldsWord
    <3> QED  BY <1>3, <3>1, <3>2
  <2> QED  BY <2>1, <2>2
<1>15. \A v \in Words : v # <<>> => IF v \in D THEN m[v].count = g[v] ELSE g[v] = 0
  <2> SUFFICES ASSUME NEW v \in Words, v # <<>>
               PROVE  IF v \in D THEN m[v].count = g[v] ELSE g[v] = 0
    OBVIOUS
  <2>1. CASE v = w
    BY <1>6, <1>9, <2>1
  <2>2. CASE v # w /\ v \in D
    BY <1>8, <1>14, <2>2
  <2>3. CASE v # w /\ v \notin D
    BY <1>8, <2>3 DEF D, HoldsWord
  <2> QED  BY <2>1, <2>2, <2>3
<1>16. <<>> \in Words => g[<<>>] = 0
  <2>1. <<>> \in Words => h[<<>>] = 0
    BY DEF HoldsWord
  <2> QED  BY <1>0, <1>8, <2>1
<1>17. \A p \in D : p # <<>> => /\ m[p].isEndpoint => p \in Words
                                /\ m[p].isEndpoint <=> m[p].count > 0
  BY <1>0, <1>9, <1>14
<1>18. DOMAIN m = D
  BY <1>5
<1>19. g \in [Words -> Nat]
  BY <1>8
<1>20. HoldsWord(m, g)
  BY <1>11, <1>13, <1>15, <1>16, <1>17, <1>18, <1>19 DEF HoldsWord
<1> QED  BY <1>18, <1>20 DEF D

\* A word is on its own path.
LEMMA WordOnPath ==
  ASSUME NEW w \in Seq(Letters), w # <<>>
  PROVE  w \in Path(w)
<1>1. Starts(w, w)
  BY DEF Starts
<1> QED  BY <1>1, PathIsStarts

\* remove(w) turns n and h into m and g: d is the tree before the erasing.
Removes(n, h, w, left, d, m, g) ==
  /\ w \in Words /\ w # <<>> /\ w \in DOMAIN n /\ n[w].isEndpoint
  /\ left \in Nat /\ left < h[w]
  /\ d = [n EXCEPT ![w] = [isEndpoint |-> left > 0, count |-> left]]
  /\ m = [p \in DOMAIN n \ Erased(d, w) |-> d[p]]
  /\ g = [h EXCEPT ![w] = left]

(* So does remove, whether occurrences of the word are left or none are. *)
LEMMA RemoveHolds ==
  ASSUME WordsOfLetters, NEW n, NEW h, NEW w, NEW left, NEW d, NEW m, NEW g,
         HoldsWord(n, h), Removes(n, h, w, left, d, m, g)
  PROVE  HoldsWord(m, g) /\ Erased(d, w) \subseteq DOMAIN n \ {<<>>}
<1> DEFINE N == [isEndpoint : BOOLEAN, count : Nat]
           D == DOMAIN n \ Erased(d, w)
<1>0. w \in Words /\ w # <<>> /\ w \in DOMAIN n /\ n[w].isEndpoint /\ left \in Nat /\ left < h[w]
  BY DEF Removes
<1>1. w \in Seq(Letters) /\ w \in Path(w)
  BY <1>0, WordOnPath DEF WordsOfLetters
<1>2. /\ {p \in DOMAIN n : p # <<>> /\ n[p].isEndpoint} = Left(h)
      /\ Left(h) \subseteq Seq(Letters)
  BY EndsAreWords
<1>3. /\ h \in [Words -> Nat] /\ g \in [Words -> Nat] /\ g[w] = left
      /\ \A v \in Words : v # w => g[v] = h[v]
  <2>1. h \in [Words -> Nat] /\ g = [h EXCEPT ![w] = left]
    BY DEF Removes, HoldsWord
  <2> QED  BY <1>0, <2>1
<1>4. w \in Left(h) /\ Left(h) = Left(g) \cup {w} /\ Left(g) \subseteq Left(h)
      /\ (w \in Left(g) <=> left > 0) /\ \A p : p # w => (p \in Left(h) <=> p \in Left(g))
  BY <1>0, <1>3 DEF Left
<1>5. [isEndpoint |-> left > 0, count |-> left] \in N
  BY <1>0
<1>6. /\ n \in [DOMAIN n -> N] /\ DOMAIN n = TreeOf(Left(h))
  BY DEF HoldsWord
<1>7. /\ DOMAIN d = DOMAIN n /\ d \in [DOMAIN n -> N]
      /\ d[w] = [isEndpoint |-> left > 0, count |-> left]
      /\ \A p \in DOMAIN n : p # w => d[p] = n[p]
  <2>1. d = [n EXCEPT ![w] = [isEndpoint |-> left > 0, count |-> left]]
    BY DEF Removes
  <2> HIDE DEF N
  <2> QED  BY <1>0, <1>5, <1>6, <2>1
<1>8. TreeFor(d, Left(g), w)
  <2>1. ASSUME NEW p \in DOMAIN n, p # <<>>
        PROVE  d[p].isEndpoint <=> p \in Left(g)
    <3>1. CASE p = w
      BY <1>4, <1>7, <3>1
    <3>2. CASE p # w
      BY <1>2, <1>4, <1>7, <2>1, <3>2
    <3> QED  BY <3>1, <3>2
  <2>2. DOMAIN d = TreeOf(Left(g) \cup {w})
    BY <1>4, <1>6, <1>7
  <2>3. Left(g) \subseteq Seq(Letters)
    BY <1>2, <1>4
  <2> QED  BY <1>1, <1>7, <2>1, <2>2, <2>3 DEF TreeFor
<1>9. D = TreeOf(Left(g)) /\ Erased(d, w) \subseteq DOMAIN n \ {<<>>}
  <2>1. /\ DOMAIN d \ Erased(d, w) = TreeOf(Left(g))
        /\ Erased(d, w) \subseteq DOMAIN d \ {<<>>}
    BY <1>8, PrunedTree
  <2>2. DOMAIN d = DOMAIN n
    BY <1>7
  <2> QED  BY <2>1, <2>2
<1>10. DOMAIN m = D /\ m \in [D -> N] /\ D \subseteq DOMAIN n /\ \A p \in D : m[p] = d[p]
  <2>1. \A p \in D : d[p] \in N
    BY <1>7
  <2>2. m = [p \in D |-> d[p]] /\ D \subseteq DOMAIN n
    BY DEF Removes
  <2> HIDE DEF N, D
  <2> QED  BY <2>1, <2>2
<1> HIDE DEF D
<1>11. ASSUME NEW p \in D, p # <<>>
       PROVE  /\ m[p].isEndpoint => p \in Words
              /\ m[p].isEndpoint <=> m[p].count > 0
              /\ p \in Words => m[p].count = g[p]
  <2>1. CASE p = w
    BY <1>0, <1>3, <1>7, <1>10, <2>1
  <2>2. CASE p # w
    <3>1. p \in DOMAIN n /\ m[p] = n[p] /\ (p \in Words => g[p] = h[p])
      BY <1>3, <1>7, <1>10, <2>2
    <3> QED  BY <1>11, <3>1 DEF HoldsWord
  <2> QED  BY <2>1, <2>2
<1>12. ASSUME NEW v \in Words, v # <<>>
       PROVE  IF v \in D THEN m[v].count = g[v] ELSE g[v] = 0
  <2>1. CASE v \in D
    BY <1>11, <1>12, <2>1
  <2>2. CASE v \notin D
    <3>1. v \notin Left(g)
      <4>1. v \in Path(v)
        BY <1>12, WordOnPath DEF WordsOfLetters
      <4> QED  BY <1>9, <2>2, <4>1 DEF TreeOf
    <3>2. g[v] \in Nat
      BY <1>3
    <3> QED  BY <2>2, <3>1, <3>2 DEF Left
  <2> QED  BY <2>1, <2>2
<1>13. <<>> \in Words => g[<<>>] = 0
  <2>1. <<>> \in Words => h[<<>>] = 0
    BY DEF HoldsWord
  <2> QED  BY <1>0, <1>3, <2>1
<1> QED  BY <1>3, <1>9, <1>10, <1>11, <1>12, <1>13 DEF HoldsWord

-----------------------------------------------------------------------------
(* How many words are held *)

\* Every word as often as h holds it.
Occ(h) == UNION {{w} \X (1..h[w]) : w \in Words}

\* The k-th occurrence of w is one of those held.
IsHeld(h, w, k) == w \in Words /\ k \in 1..h[w]

LEMMA OccOf ==
  ASSUME NEW h \in [Words -> Nat]
  PROVE  /\ \A p \in Occ(h) : \E w, k : p = <<w, k>>
         /\ \A w, k : <<w, k>> \in Occ(h) <=> IsHeld(h, w, k)
<1>1. ASSUME NEW p \in Occ(h) PROVE \E w \in Words : \E k \in 1..h[w] : p = <<w, k>>
  <2>1. PICK w \in Words : p \in {w} \X (1..h[w])
    BY DEF Occ
  <2> QED  BY <2>1
<1>2. ASSUME NEW w \in Words, NEW k \in 1..h[w] PROVE <<w, k>> \in Occ(h)
  <2>1. <<w, k>> \in {w} \X (1..h[w])
    OBVIOUS
  <2> QED  BY <2>1 DEF Occ
<1>3. ASSUME NEW w, NEW k PROVE <<w, k>> \in Occ(h) <=> IsHeld(h, w, k)
  <2>1. <<w, k>> \in Occ(h) => IsHeld(h, w, k)
    BY <1>1 DEF IsHeld
  <2> QED  BY <1>2, <2>1 DEF IsHeld
<1> QED  BY <1>1, <1>3

(* Fewer of one word are fewer by as many. *)
\* Of one word left occurrences are kept.
Reduces(h, w, left, g) ==
  w \in Words /\ left \in Nat /\ left <= h[w] /\ g = [h EXCEPT ![w] = left]

LEMMA Fewer ==
  ASSUME NEW h \in [Words -> Nat], NEW w, NEW left, NEW g,
         IsFiniteSet(Occ(h)), Reduces(h, w, left, g)
  PROVE  /\ IsFiniteSet(Occ(g))
         /\ Cardinality(Occ(g)) = Cardinality(Occ(h)) - (h[w] - left)
<1> DEFINE gone == {w} \X (left + 1 .. h[w])
<1>0. w \in Words /\ left \in Nat /\ left <= h[w]
  BY DEF Reduces
<1>1. h[w] \in Nat /\ g \in [Words -> Nat] /\ g[w] = left /\ \A v \in Words : v # w => g[v] = h[v]
  BY DEF Reduces
<1>2. \A v, k : <<v, k>> \in gone <=> IsHeld(h, v, k) /\ ~IsHeld(g, v, k)
  <2> SUFFICES ASSUME NEW v, NEW k
               PROVE  <<v, k>> \in gone <=> IsHeld(h, v, k) /\ ~IsHeld(g, v, k)
    OBVIOUS
  <2>1. <<v, k>> \in gone <=> v = w /\ k \in left + 1 .. h[w]
    OBVIOUS
  <2> HIDE DEF gone
  <2>2. CASE v = w
    BY <1>0, <1>1, <2>1, <2>2 DEF IsHeld
  <2>3. CASE v # w
    BY <1>0, <1>1, <2>1, <2>3 DEF IsHeld
  <2> QED  BY <2>2, <2>3
<1>3. \A p \in gone : \E v, k : p = <<v, k>>
  OBVIOUS
<1>4. Cardinality(gone) = h[w] - left
  <2>1. IsFiniteSet({w}) /\ Cardinality({w}) = 1
    BY FS_Singleton
  <2>2. /\ IsFiniteSet(left + 1 .. h[w])
        /\ Cardinality(left + 1 .. h[w]) = h[w] - left
    <3>1. left + 1 \in Int /\ h[w] \in Int
      BY <1>0, <1>1
    <3>2. /\ IsFiniteSet(left + 1 .. h[w])
          /\ Cardinality(left + 1 .. h[w])
               = IF left + 1 > h[w] THEN 0 ELSE h[w] - (left + 1) + 1
      BY <3>1, FS_Interval
    <3>3. (IF left + 1 > h[w] THEN 0 ELSE h[w] - (left + 1) + 1) = h[w] - left
      BY <1>0, <1>1
    <3> QED  BY <3>2, <3>3
  <2>3. Cardinality(gone) = Cardinality({w}) * Cardinality(left + 1 .. h[w])
    BY <2>1, <2>2, FS_Product
  <2> HIDE DEF gone
  <2> QED  BY <1>0, <1>1, <2>1, <2>2, <2>3
<1> HIDE DEF gone
<1>5. ASSUME NEW v, NEW k PROVE IsHeld(g, v, k) => IsHeld(h, v, k)
  <2>1. CASE v = w
    BY <1>0, <1>1, <2>1 DEF IsHeld
  <2>2. CASE v # w
    BY <1>0, <1>1, <2>2 DEF IsHeld
  <2> QED  BY <2>1, <2>2
<1>9. /\ \A p \in Occ(h) : \E v, k : p = <<v, k>>
      /\ \A v, k : <<v, k>> \in Occ(h) <=> IsHeld(h, v, k)
      /\ \A p \in Occ(g) : \E v, k : p = <<v, k>>
      /\ \A v, k : <<v, k>> \in Occ(g) <=> IsHeld(g, v, k)
  <2>1. g \in [Words -> Nat]
    BY <1>0, <1>1
  <2> QED  BY <2>1, OccOf
<1>6. Occ(g) = Occ(h) \ gone
  <2>1. ASSUME NEW p \in Occ(g) PROVE p \in Occ(h) \ gone
    <3>1. PICK v, k : p = <<v, k>>
      BY <1>9
    <3>2. IsHeld(g, v, k)
      BY <1>9, <3>1
    <3>3. p \in Occ(h)
      BY <1>5, <1>9, <3>1, <3>2
    <3>4. p \notin gone
      BY <1>2, <3>1, <3>2
    <3> QED  BY <3>3, <3>4
  <2>2. ASSUME NEW p \in Occ(h) \ gone PROVE p \in Occ(g)
    <3>1. PICK v, k : p = <<v, k>>
      BY <1>9
    <3>2. IsHeld(h, v, k)
      BY <1>9, <3>1
    <3>3. IsHeld(g, v, k)
      BY <1>2, <3>1, <3>2
    <3> QED  BY <1>9, <3>1, <3>3
  <2> QED  BY <2>1, <2>2
<1>7. Occ(h) \cap gone = gone
  BY <1>2, <1>3, <1>9
<1>8. /\ IsFiniteSet(Occ(h) \ gone)
      /\ Cardinality(Occ(h) \ gone) = Cardinality(Occ(h)) - Cardinality(Occ(h) \cap gone)
  BY FS_Difference
<1> QED  BY <1>4, <1>6, <1>7, <1>8

(* One more of a word is one more. *)
LEMMA OneMoreWord ==
  ASSUME NEW h \in [Words -> Nat], IsFiniteSet(Occ(h)), NEW w \in Words,
         NEW g, g = [h EXCEPT ![w] = @ + 1]
  PROVE  /\ IsFiniteSet(Occ(g))
         /\ Cardinality(Occ(g)) = Cardinality(Occ(h)) + 1
<1>1. /\ h[w] \in Nat /\ g \in [Words -> Nat] /\ g[w] = h[w] + 1
      /\ \A v \in Words : v # w => g[v] = h[v]
  OBVIOUS
<1>2. PICK new : new = h[w] + 1
  OBVIOUS
<1>3. ASSUME NEW v, NEW k
      PROVE  IsHeld(g, v, k) <=> IsHeld(h, v, k) \/ (v = w /\ k = new)
  <2>1. CASE v = w
    BY <1>1, <1>2, <2>1 DEF IsHeld
  <2>2. CASE v # w
    BY <1>1, <2>2 DEF IsHeld
  <2> QED  BY <2>1, <2>2
<1>4. ~IsHeld(h, w, new)
  BY <1>1, <1>2 DEF IsHeld
<1>7. /\ \A p \in Occ(h) : \E v, k : p = <<v, k>>
      /\ \A v, k : <<v, k>> \in Occ(h) <=> IsHeld(h, v, k)
      /\ \A p \in Occ(g) : \E v, k : p = <<v, k>>
      /\ \A v, k : <<v, k>> \in Occ(g) <=> IsHeld(g, v, k)
  <2>1. g \in [Words -> Nat]
    BY <1>1
  <2> QED  BY <2>1, OccOf
<1>5. Occ(g) = Occ(h) \cup {<<w, new>>} /\ <<w, new>> \notin Occ(h)
  <2>1. ASSUME NEW p \in Occ(g) PROVE p \in Occ(h) \/ p = <<w, new>>
    <3>1. PICK v, k : p = <<v, k>>
      BY <1>7
    <3>2. IsHeld(g, v, k)
      BY <1>7, <3>1
    <3> QED  BY <1>3, <1>7, <3>1, <3>2
  <2>2. ASSUME NEW p \in Occ(h) PROVE p \in Occ(g)
    <3>1. PICK v, k : p = <<v, k>>
      BY <1>7
    <3>2. IsHeld(h, v, k)
      BY <1>7, <3>1
    <3> QED  BY <1>3, <1>7, <3>1, <3>2
  <2>3. <<w, new>> \in Occ(g) /\ <<w, new>> \notin Occ(h)
    BY <1>3, <1>4, <1>7
  <2> QED  BY <2>1, <2>2, <2>3
<1>6. /\ IsFiniteSet(Occ(h) \cup {<<w, new>>})
      /\ Cardinality(Occ(h) \cup {<<w, new>>})
           = IF <<w, new>> \in Occ(h) THEN Cardinality(Occ(h)) ELSE Cardinality(Occ(h)) + 1
  BY FS_AddElement
<1> QED  BY <1>5, <1>6

-----------------------------------------------------------------------------
(* The invariant *)

NodesAreCounted == IsFiniteSet(DOMAIN node) /\ v_nodeCount = Cardinality(DOMAIN node) - 1
WordsAreCounted == IsFiniteSet(Occ(held)) /\ wordCount = Cardinality(Occ(held))

TrieInv == HoldsWord(node, held) /\ NodesAreCounted /\ WordsAreCounted

\* The tree of no words, as the program starts and as clear leaves it.
Empty == node = onlyRoot /\ v_nodeCount = 0 /\ wordCount = 0 /\ held = [w \in Words |-> 0]

LEMMA EmptyHolds ==
  ASSUME Empty
  PROVE  TrieInv
<1>1. /\ DOMAIN node = {<<>>} /\ node[<<>>] = fresh
      /\ node \in [{<<>>} -> [isEndpoint : BOOLEAN, count : Nat]]
  BY DEF Empty, fresh, onlyRoot
<1>2. held \in [Words -> Nat] /\ \A w \in Words : held[w] = 0
  BY DEF Empty
<1>3. Left(held) = {}
  BY <1>2 DEF Left
<1>4. TreeOf(Left(held)) = {<<>>}
  BY <1>3 DEF TreeOf
<1>5. HoldsWord(node, held)
  BY <1>1, <1>2, <1>4 DEF HoldsWord
<1>6. \A w, k : ~IsHeld(held, w, k)
  BY <1>2 DEF IsHeld
<1>7. Occ(held) = {}
  BY <1>2, <1>6, OccOf
<1>8. IsFiniteSet(DOMAIN node) /\ Cardinality(DOMAIN node) = 1
  BY <1>1, FS_Singleton
<1>9. IsFiniteSet(Occ(held)) /\ Cardinality(Occ(held)) = 0
  BY <1>7, FS_EmptySet
<1>10. v_nodeCount = 0 /\ wordCount = 0
  BY DEF Empty
<1> QED  BY <1>5, <1>8, <1>9, <1>10 DEF TrieInv, NodesAreCounted, WordsAreCounted

LEMMA AddKeeps ==
  ASSUME WordsOfLetters, TrieInv, NEW w \in Words, add(w)
  PROVE  TrieInv'
<1> DEFINE new == Path(w) \ DOMAIN node
           grown == [p \in DOMAIN node \cup new |-> IF p \in new THEN fresh ELSE node[p]]
<1>1. /\ w # <<>>
      /\ node' = [grown EXCEPT ![w] = [isEndpoint |-> TRUE, count |-> @.count + 1]]
      /\ v_nodeCount' = v_nodeCount + Cardinality(new)
      /\ wordCount' = wordCount + 1
      /\ held' = [held EXCEPT ![w] = @ + 1]
  BY DEF add
<1>2. HoldsWord(node', held') /\ DOMAIN node' = DOMAIN node \cup new
  <2>1. HoldsWord(node, held)
    BY DEF TrieInv
  <2>2. Adds(node, held, w, node', held')
    BY <1>1 DEF Adds, Grown
  <2>3. HoldsWord(node', held') /\ DOMAIN node' = DOMAIN node \cup (Path(w) \ DOMAIN node)
    BY <2>1, <2>2, AddHolds
  <2> QED  BY <2>3
<1> HIDE DEF grown
<1>3. NodesAreCounted'
  <2>1. IsFiniteSet(DOMAIN node) /\ v_nodeCount = Cardinality(DOMAIN node) - 1
    BY DEF TrieInv, NodesAreCounted
  <2>2. IsFiniteSet(new)
    <3>1. IsFiniteSet(Path(w))
      BY PathIsFinite DEF WordsOfLetters
    <3> QED  BY <3>1, FS_Difference
  <2>3. DOMAIN node \cap new = {}
    OBVIOUS
  <2> HIDE DEF new
  <2>4. /\ IsFiniteSet(DOMAIN node \cup new)
        /\ Cardinality(DOMAIN node \cup new)
             = Cardinality(DOMAIN node) + Cardinality(new) - Cardinality(DOMAIN node \cap new)
    BY <2>1, <2>2, FS_Union
  <2>5. Cardinality(DOMAIN node \cap new) = 0
    BY <2>3, FS_EmptySet
  <2>6. Cardinality(DOMAIN node) \in Nat /\ Cardinality(new) \in Nat
    BY <2>1, <2>2, FS_CardinalityType
  <2> QED  BY <1>1, <1>2, <2>1, <2>4, <2>5, <2>6 DEF NodesAreCounted
<1>4. WordsAreCounted'
  <2>1. held \in [Words -> Nat] /\ IsFiniteSet(Occ(held)) /\ wordCount = Cardinality(Occ(held))
    BY DEF TrieInv, HoldsWord, WordsAreCounted
  <2>2. IsFiniteSet(Occ(held')) /\ Cardinality(Occ(held')) = Cardinality(Occ(held)) + 1
    BY <1>1, <2>1, OneMoreWord
  <2> QED  BY <1>1, <2>1, <2>2 DEF WordsAreCounted
<1> QED  BY <1>2, <1>3, <1>4 DEF TrieInv

LEMMA RemoveKeeps ==
  ASSUME WordsOfLetters, TrieInv, NEW w \in Words, NEW removeAll \in BOOLEAN,
         remove(w, removeAll)
  PROVE  TrieInv'
<1>1. /\ w # <<>> /\ w \in DOMAIN node /\ node[w].isEndpoint
      /\ node[w].count = held[w] /\ held[w] \in Nat /\ held[w] > 0
      /\ held \in [Words -> Nat]
  BY DEF remove, findNode, TrieInv, HoldsWord
<1>2. PICK left \in Nat : left = IF removeAll THEN 0 ELSE held[w] - 1
  BY <1>1
<1>3. left < held[w]
  BY <1>1, <1>2
<1>4. PICK d : d = [node EXCEPT ![w] = [isEndpoint |-> left > 0, count |-> left]]
  OBVIOUS
<1>5. Dropped(node[w], removeAll) = [isEndpoint |-> left > 0, count |-> left]
  BY <1>1, <1>2 DEF Dropped
<1>6. [node EXCEPT ![w] = Dropped(@, removeAll)] = d
  BY <1>4, <1>5
<1>7. /\ node' = [p \in DOMAIN node \ Erased(d, w) |-> d[p]]
      /\ v_nodeCount' = v_nodeCount - Cardinality(Erased(d, w))
      /\ wordCount' = wordCount - (IF removeAll THEN node[w].count ELSE 1)
      /\ held' = [held EXCEPT ![w] = IF removeAll THEN 0 ELSE @ - 1]
  BY <1>6 DEF remove
<1>8. held' = [held EXCEPT ![w] = left] /\ wordCount' = wordCount - (held[w] - left)
  BY <1>1, <1>2, <1>7
<1>9. HoldsWord(node', held') /\ Erased(d, w) \subseteq DOMAIN node \ {<<>>}
  <2>1. HoldsWord(node, held)
    BY DEF TrieInv
  <2>2. Removes(node, held, w, left, d, node', held')
    BY <1>1, <1>2, <1>3, <1>4, <1>7, <1>8 DEF Removes
  <2> QED  BY <2>1, <2>2, RemoveHolds
<1>10. NodesAreCounted'
  <2>1. IsFiniteSet(DOMAIN node) /\ v_nodeCount = Cardinality(DOMAIN node) - 1
    BY DEF TrieInv, NodesAreCounted
  <2>2. DOMAIN node' = DOMAIN node \ Erased(d, w)
    BY <1>7
  <2>3. DOMAIN node \cap Erased(d, w) = Erased(d, w)
    BY <1>9
  <2>4. /\ IsFiniteSet(DOMAIN node \ Erased(d, w))
        /\ Cardinality(DOMAIN node \ Erased(d, w))
             = Cardinality(DOMAIN node) - Cardinality(DOMAIN node \cap Erased(d, w))
    BY <2>1, FS_Difference
  <2>5. Cardinality(DOMAIN node) \in Nat /\ Cardinality(Erased(d, w)) \in Nat
    <3>1. IsFiniteSet(Erased(d, w))
      BY <1>9, <2>1, FS_Subset
    <3> QED  BY <2>1, <3>1, FS_CardinalityType
  <2>6. /\ IsFiniteSet(DOMAIN node')
        /\ Cardinality(DOMAIN node') = Cardinality(DOMAIN node) - Cardinality(Erased(d, w))
    BY <2>2, <2>3, <2>4
  <2>7. v_nodeCount' = v_nodeCount - Cardinality(Erased(d, w))
    BY <1>7
  <2> HIDE DEF TrieInv
  <2>8. v_nodeCount' = Cardinality(DOMAIN node') - 1
    BY <2>1, <2>5, <2>6, <2>7
  <2> QED  BY <2>6, <2>8 DEF NodesAreCounted
<1>11. WordsAreCounted'
  <2>1. IsFiniteSet(Occ(held)) /\ wordCount = Cardinality(Occ(held))
    BY DEF TrieInv, WordsAreCounted
  <2>2. /\ IsFiniteSet(Occ(held'))
        /\ Cardinality(Occ(held')) = Cardinality(Occ(held)) - (held[w] - left)
    <3>1. Reduces(held, w, left, held')
      BY <1>1, <1>2, <1>3, <1>8 DEF Reduces
    <3>2. held \in [Words -> Nat]
      BY <1>1
    <3> QED  BY <2>1, <3>1, <3>2, Fewer
  <2> QED  BY <1>8, <2>1, <2>2 DEF WordsAreCounted
<1> QED  BY <1>9, <1>10, <1>11 DEF TrieInv

(* The inductive invariant: the nodes are exactly the paths of the words     *)
(* held, a node ends a word if and only if it counts occurrences of it, and  *)
(* the two running counts are those of the tree and of the words held.       *)
THEOREM TrieInvariant ==
  ASSUME WordsOfLetters
  PROVE  TrieSpec => []TrieInv
<1>1. TrieInit => TrieInv
  BY EmptyHolds DEF TrieInit, Empty
<1>2. TrieInv /\ [TrieNext]_trieVars => TrieInv'
  <2> SUFFICES ASSUME TrieInv, [TrieNext]_trieVars PROVE TrieInv'
    OBVIOUS
  <2>1. ASSUME NEW w \in Words, add(w) PROVE TrieInv'
    BY <2>1, AddKeeps
  <2>2. ASSUME NEW w \in Words, NEW removeAll \in BOOLEAN, remove(w, removeAll) PROVE TrieInv'
    BY <2>2, RemoveKeeps
  <2>3. CASE clear
    <3>1. Empty'
      BY <2>3 DEF clear, Empty
    <3>2. (Empty => TrieInv)'
      BY EmptyHolds, PTL
    <3> QED  BY <3>1, <3>2
  <2>4. CASE UNCHANGED trieVars
    BY <2>4 DEF trieVars, TrieInv, NodesAreCounted, WordsAreCounted
  <2> QED  BY <2>1, <2>2, <2>3, <2>4 DEF TrieNext
<1> QED  BY <1>1, <1>2, PTL DEF TrieSpec

(* HoldsItsWords of the runs, for words of any letters and any number of     *)
(* occurrences: after any adds, removes and clears every word is found as    *)
(* often as it is held, the words collected are those held, no node stays    *)
(* that no word runs through, and both running counts agree.                 *)
THEOREM TrieHoldsItsWords ==
  ASSUME WordsOfLetters
  PROVE  TrieSpec => []HoldsItsWords
<1>1. TrieInv => HoldsItsWords
  <2> SUFFICES ASSUME TrieInv PROVE HoldsItsWords
    OBVIOUS
  <2>1. HoldsWord(node, held)
    BY DEF TrieInv
  <2>2. /\ getWords = Left(held)
        /\ \A w \in Words : held[w] = IF w # <<>> /\ w \in DOMAIN node /\ node[w].isEndpoint
                                       THEN node[w].count ELSE 0
    BY <2>1, EndsAreWords DEF getWords
  <2>3. \A w \in Words : countOf(w) = held[w]
    BY <2>2 DEF countOf, find, findNode
  <2>4. DOMAIN node = {<<>>} \cup UNION {Path(w) : w \in getWords}
    BY <2>1, <2>2 DEF HoldsWord, TreeOf
  <2>5. Occurrences = Occ(held)
    BY DEF Occurrences, Occ
  <2> QED  BY <2>2, <2>3, <2>4, <2>5
           DEF HoldsItsWords, Left, TrieInv, NodesAreCounted, WordsAreCounted
<1> QED  BY <1>1, TrieInvariant, PTL
==============================================================================
