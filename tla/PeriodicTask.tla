---------------------------- MODULE PeriodicTask ----------------------------
(***************************************************************************)
(* bstd::syst::PeriodicTask (system/periodic.hpp): a worker thread that    *)
(* runs `work`, then waits on a condition variable for the interval, a     *)
(* stop or a new interval.  Any other thread may call stop() and           *)
(* setInterval(); `work` itself may too.  Code under _mtx is one step, a   *)
(* notify is a step of its own after the mutex is released, and time is    *)
(* abstract: a wait may time out at any moment.                            *)
(***************************************************************************)
EXTENDS Naturals, FiniteSets

CONSTANTS
  Callers,      \* threads other than the worker
  Intervals,    \* intervals given to the constructor and to setInterval
  MaxChanges    \* bound: calls of setInterval

ASSUME PeriodicAssumption ==
  /\ IsFiniteSet(Callers)
  /\ Intervals # {}
  /\ MaxChanges \in Nat

VARIABLES
  stop,       \* _stop
  changed,    \* _changed
  interval,   \* _interval
  armed,      \* the interval the current wait_for was called with
  worker,     \* where run() is: "check", "work", "relock", "waiting",
              \* "woken", "timedout" or "done"
  place,      \* caller -> where its call is
  joinMtx,    \* callers inside _joinMtx
  joinable,   \* _thread.joinable()
  changes     \* bound: setInterval calls so far

taskVars == <<stop, changed, interval, armed, worker, place, joinMtx, joinable, changes>>

CallerLabels ==
  {"idle", "setNotify", "stopNotify", "testThread", "lockJoin", "joining",
   "clearing", "stopped"}

InitTask ==
  /\ stop = FALSE
  /\ changed = FALSE
  /\ interval \in Intervals
  /\ armed = interval
  /\ worker = "check"
  /\ place = [c \in Callers |-> "idle"]
  /\ joinMtx = {}
  /\ joinable = TRUE
  /\ changes = 0

-----------------------------------------------------------------------------
(* The worker *)

\* The inner loop: forget earlier changes and wait with the interval of now.
Arm ==
  /\ changed' = FALSE
  /\ armed' = interval
  /\ worker' = "waiting"

(* while (!_stop): leave, or unlock and run `work`. *)
Check ==
  /\ worker = "check"
  /\ worker' = IF stop THEN "done" ELSE "work"
  /\ UNCHANGED <<stop, changed, interval, armed, place, joinMtx, joinable, changes>>

(* `work` returns or throws; the exception is swallowed. *)
WorkEnds ==
  /\ worker = "work"
  /\ worker' = "relock"
  /\ UNCHANGED <<stop, changed, interval, armed, place, joinMtx, joinable, changes>>

(* lock.lock(), then the first round of the inner loop. *)
Relock ==
  /\ worker = "relock"
  /\ IF stop THEN worker' = "check" /\ UNCHANGED <<changed, armed>> ELSE Arm
  /\ UNCHANGED <<stop, interval, place, joinMtx, joinable, changes>>

\* The clock alone ends a wait, or it is ended for no reason.
Timeout ==
  /\ worker = "waiting"
  /\ worker' = "timedout"
  /\ UNCHANGED <<stop, changed, interval, armed, place, joinMtx, joinable, changes>>

SpuriousWakeup ==
  /\ worker = "waiting"
  /\ worker' = "woken"
  /\ UNCHANGED <<stop, changed, interval, armed, place, joinMtx, joinable, changes>>

\* Faulty variant: a timeout waits again as a changed interval does.
AwakeNeverTicks ==
  /\ worker \in {"woken", "timedout"}
  /\ IF stop THEN worker' = "check" /\ UNCHANGED <<changed, armed>> ELSE Arm
  /\ UNCHANGED <<stop, interval, place, joinMtx, joinable, changes>>

(* wait_for, with the mutex back: the predicate is evaluated.  True: wait    *)
(* again if the interval changed, otherwise (stop) leave the loop.  False:   *)
(* a timeout ends the loop, a spurious wakeup resumes the same wait.         *)
Awake ==
  /\ worker \in {"woken", "timedout"}
  /\ \/ /\ changed /\ ~stop
        /\ Arm
     \/ /\ stop \/ (~changed /\ worker = "timedout")
        /\ worker' = "check"
        /\ UNCHANGED <<changed, armed>>
     \/ /\ ~stop /\ ~changed /\ worker = "woken"
        /\ worker' = "waiting"
        /\ UNCHANGED <<changed, armed>>
  /\ UNCHANGED <<stop, interval, place, joinMtx, joinable, changes>>

(* `work` calls stop(): the request is made; it is its own thread, so no join. *)
WorkStops ==
  /\ worker = "work"
  /\ stop' = TRUE
  /\ UNCHANGED <<changed, interval, armed, worker, place, joinMtx, joinable, changes>>

(* `work` calls setInterval(). *)
WorkSetsInterval(i) ==
  /\ worker = "work"
  /\ changes < MaxChanges
  /\ interval' = i
  /\ changed' = TRUE
  /\ changes' = changes + 1
  /\ UNCHANGED <<stop, armed, worker, place, joinMtx, joinable>>

-----------------------------------------------------------------------------
(* The callers *)

Goto(c, label) == place' = [place EXCEPT ![c] = label]

\* A notify reaches the worker only while it is blocked on the variable.
NotifyWorker == worker' = IF worker = "waiting" THEN "woken" ELSE worker

\* Faulty variant: the interval is replaced but the change is not flagged.
SetIntervalUnflagged(c, i) ==
  /\ place[c] \in {"idle", "stopped"}
  /\ changes < MaxChanges
  /\ interval' = i
  /\ changes' = changes + 1
  /\ Goto(c, "setNotify")
  /\ UNCHANGED <<stop, changed, armed, worker, joinMtx, joinable>>

SetInterval(c, i) ==
  /\ place[c] \in {"idle", "stopped"}
  /\ changes < MaxChanges
  /\ interval' = i
  /\ changed' = TRUE
  /\ changes' = changes + 1
  /\ Goto(c, "setNotify")
  /\ UNCHANGED <<stop, armed, worker, joinMtx, joinable>>

SetNotify(c) ==
  /\ place[c] = "setNotify"
  /\ NotifyWorker
  /\ Goto(c, "idle")
  /\ UNCHANGED <<stop, changed, interval, armed, joinMtx, joinable, changes>>

Stop(c) ==
  /\ place[c] \in {"idle", "stopped"}
  /\ stop' = TRUE
  /\ Goto(c, "stopNotify")
  /\ UNCHANGED <<changed, interval, armed, worker, joinMtx, joinable, changes>>

\* Faulty variant: stop() does not notify.
StopSilently(c) ==
  /\ place[c] = "stopNotify"
  /\ Goto(c, "testThread")
  /\ UNCHANGED <<stop, changed, interval, armed, worker, joinMtx, joinable, changes>>

StopNotify(c) ==
  /\ place[c] = "stopNotify"
  /\ NotifyWorker
  /\ Goto(c, "testThread")
  /\ UNCHANGED <<stop, changed, interval, armed, joinMtx, joinable, changes>>

\* Another caller is writing _thread at this moment, outside _joinMtx's reach.
Racing(c) == \E d \in Callers \ {c} : place[d] = "clearing"

(* stop(): _thread.joinable() && get_id() is read with no lock held; a read  *)
(* racing the write in join() may see either value.                          *)
TestThread(c) ==
  /\ place[c] = "testThread"
  /\ \/ (joinable \/ Racing(c)) /\ Goto(c, "lockJoin")
     \/ (~joinable \/ Racing(c)) /\ Goto(c, "stopped")
  /\ UNCHANGED <<stop, changed, interval, armed, worker, joinMtx, joinable, changes>>

\* Faulty variant: a caller that finds _joinMtx taken does not wait for it.
LockJoinOrLeave(c) ==
  /\ place[c] = "lockJoin"
  /\ IF joinable /\ joinMtx = {}
     THEN Goto(c, "joining") /\ joinMtx' = {c}
     ELSE Goto(c, "stopped") /\ UNCHANGED joinMtx
  /\ UNCHANGED <<stop, changed, interval, armed, worker, joinable, changes>>

\* Faulty variant: no _joinMtx.
LockJoinUnguarded(c) ==
  /\ place[c] = "lockJoin"
  /\ Goto(c, "joining")
  /\ joinMtx' = joinMtx \cup {c}
  /\ UNCHANGED <<stop, changed, interval, armed, worker, joinable, changes>>

(* stop(): _joinMtx, then the second joinable(). *)
LockJoin(c) ==
  /\ place[c] = "lockJoin"
  /\ joinMtx = {}
  /\ IF joinable
     THEN Goto(c, "joining") /\ joinMtx' = {c}
     ELSE Goto(c, "stopped") /\ UNCHANGED joinMtx
  /\ UNCHANGED <<stop, changed, interval, armed, worker, joinable, changes>>

\* join() returns from the wait for the worker...
Join(c) ==
  /\ place[c] = "joining"
  /\ worker = "done"
  /\ Goto(c, "clearing")
  /\ UNCHANGED <<stop, changed, interval, armed, worker, joinMtx, joinable, changes>>

\* Faulty variant: _joinMtx is not released.
ClearKeepsLock(c) ==
  /\ place[c] = "clearing"
  /\ joinable' = FALSE
  /\ Goto(c, "stopped")
  /\ UNCHANGED <<stop, changed, interval, armed, worker, joinMtx, changes>>

\* ...writes the thread's id, and the lock is released.
ClearThread(c) ==
  /\ place[c] = "clearing"
  /\ joinable' = FALSE
  /\ joinMtx' = {}
  /\ Goto(c, "stopped")
  /\ UNCHANGED <<stop, changed, interval, armed, worker, changes>>

WorkerStep == Check \/ WorkEnds \/ Relock \/ Awake

StopStep(c) ==
  \/ StopNotify(c)
  \/ TestThread(c)
  \/ LockJoin(c)
  \/ Join(c)
  \/ ClearThread(c)

TaskNext ==
  \/ WorkerStep
  \/ Timeout
  \/ SpuriousWakeup
  \/ WorkStops
  \/ \E i \in Intervals : WorkSetsInterval(i)
  \/ \E c \in Callers :
       \/ \E i \in Intervals : SetInterval(c, i)
       \/ SetNotify(c)
       \/ Stop(c)
       \/ StopStep(c)

TaskSpec == InitTask /\ [][TaskNext]_taskVars

(* The worker is scheduled and `work` returns; a call of stop() or           *)
(* setInterval() that began goes on.  Nothing forces a wait to time out.     *)
Fairness ==
  /\ WF_taskVars(WorkerStep)
  /\ \A c \in Callers : WF_taskVars(StopStep(c)) /\ WF_taskVars(SetNotify(c))

FairSpec == TaskSpec /\ Fairness

-----------------------------------------------------------------------------
(* Properties *)

(* Every variable holds a value of its type, and _joinMtx is held exactly by  *)
(* the caller that is joining.                                               *)
TypeOK ==
  /\ stop \in BOOLEAN
  /\ changed \in BOOLEAN
  /\ interval \in Intervals
  /\ armed \in Intervals
  /\ worker \in {"check", "work", "relock", "waiting", "woken", "timedout", "done"}
  /\ place \in [Callers -> CallerLabels]
  /\ joinMtx = {c \in Callers : place[c] \in {"joining", "clearing"}}
  /\ joinable \in BOOLEAN
  /\ changes \in 0..MaxChanges

(* When stop() has returned to a thread other than the worker, the last tick *)
(* is over and none will follow, whichever of several callers did the join.  *)
NoTickAfterStop == \A c \in Callers : place[c] = "stopped" => worker = "done"

(* Two threads calling stop() never both join.                               *)
JoinedOnce ==
  /\ Cardinality({c \in Callers : place[c] \in {"joining", "clearing"}}) <= 1
  /\ \A c \in Callers : place[c] \in {"joining", "clearing"} => joinable

Pending(labels) == \E c \in Callers : place[c] \in labels

(* A new interval takes effect right away: a worker blocked with an older    *)
(* one is about to be notified, and will find the change when it wakes.      *)
IntervalNotLost ==
  worker \in {"waiting", "woken", "timedout"} /\ armed # interval =>
    changed /\ (worker = "waiting" => Pending({"setNotify"}))

(* A stop request is not lost either: a worker still blocked after it is     *)
(* about to be notified.                                                     *)
StopNotLost == stop /\ worker = "waiting" => Pending({"stopNotify", "setNotify"})

(* The inductive invariant: a caller past the join, or past a thread that    *)
(* was joined, has seen the worker end, and one caller at most joins.        *)
IInv ==
  /\ TypeOK
  /\ \A c \in Callers : place[c] \in {"clearing", "stopped"} => worker = "done"
  /\ ~joinable => worker = "done"
  /\ \A c, d \in joinMtx : c = d
  /\ JoinedOnce
  /\ IntervalNotLost
  /\ StopNotLost

(* stop() ends the task, even if no wait ever times out, provided `work`     *)
(* returns; and every stop() called by another thread returns.               *)
StopEndsTask == stop ~> worker = "done"
StopReturns  ==
  \A c \in Callers :
    place[c] \in {"stopNotify", "testThread", "lockJoin", "joining"} ~> place[c] = "stopped"

\* The clock: the deadline of a wait is fixed when it begins and a spurious
\* wakeup resumes the same wait, so a wait entered over and over times out.
ClockAdvances == SF_taskVars(Timeout)

(* With a clock, a task that is not stopped keeps ticking (the changes of    *)
(* the interval, which restart the wait, are finitely many).                 *)
KeepsTicking == ClockAdvances => []<>(worker = "work" \/ stop)
=============================================================================
