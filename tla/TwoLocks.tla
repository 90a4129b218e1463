------------------------------ MODULE TwoLocks ------------------------------
(***************************************************************************)
(* How the members of ts::Hashmap, ts::Stack and ts::Queue take their      *)
(* locks: each object has a shared_mutex; a member of one object locks it  *)
(* shared or exclusive, a member of two locks both with std::lock (or one, *)
(* if both are the same object).  What a member then does to the data, one *)
(* element after the other, is Step, which the modules that extend this    *)
(* one define.                                                             *)
(*                                                                         *)
(* A call is <<name, this, other, arguments>>; other is this when the      *)
(* member has one object.                                                  *)
(***************************************************************************)
EXTENDS Integers, Sequences, FiniteSets

CONSTANTS
  Threads,
  Objects,
  NoThread    \* holds nothing

VARIABLES
  data,       \* object -> its contents
  writer,     \* object -> the thread that holds its mutex exclusively, or NoThread
  readers,    \* object -> the threads that hold it shared
  pc,         \* thread -> "idle", "lock", "try", "body" or "unlock"
  call,       \* thread -> its call
  want,       \* thread -> the object it locks next
  todo,       \* thread -> the steps its body has left
  got,        \* thread -> the set of what the body has found so far
  expect      \* history: thread -> the contents and result of its call as one step

lockVars == <<writer, readers>>
bodyVars == <<todo, got, expect>>
vars == <<data, lockVars, pc, call, want, bodyVars>>

NoCall == <<"none", NoThread, NoThread, <<>>>>

Needs(c) == {c[2], c[3]}

InitLocks ==
  /\ writer = [m \in Objects |-> NoThread]
  /\ readers = [m \in Objects |-> {}]
  /\ pc = [t \in Threads |-> "idle"]
  /\ call = [t \in Threads |-> NoCall]
  /\ want = [t \in Threads |-> NoThread]
  /\ todo = [t \in Threads |-> <<>>]
  /\ got = [t \in Threads |-> {}]
  /\ expect = [t \in Threads |-> <<>>]

\* May t lock m, given whether it wants it exclusively?
Free(m, exclusive) == writer[m] = NoThread /\ (exclusive => readers[m] = {})

Lock(t, m, exclusive) ==
  IF exclusive THEN writer' = [writer EXCEPT ![m] = t] /\ UNCHANGED readers
  ELSE readers' = [readers EXCEPT ![m] = @ \cup {t}] /\ UNCHANGED writer

Unlock(t, ms) ==
  /\ writer' = [m \in Objects |-> IF m \in ms /\ writer[m] = t THEN NoThread ELSE writer[m]]
  /\ readers' = [m \in Objects |-> IF m \in ms THEN readers[m] \ {t} ELSE readers[m]]

(* A member is called; it defers its locks. *)
Call(t, c) ==
  /\ pc[t] = "idle"
  /\ call' = [call EXCEPT ![t] = c]
  /\ want' = [want EXCEPT ![t] = c[2]]
  /\ pc' = [pc EXCEPT ![t] = "lock"]
  /\ UNCHANGED <<data, lockVars, bodyVars>>

\* All the locks are held: the body begins with these steps.
Enter(t, steps, outcome) ==
  /\ todo' = [todo EXCEPT ![t] = steps]
  /\ got' = [got EXCEPT ![t] = {}]
  /\ expect' = [expect EXCEPT ![t] = outcome]

\* Faulty variant: lock() one after the other, in the order of the call.
LockInOrder(t, exclusive, steps, outcome) ==
  LET m == want[t]  rest == Needs(call[t]) \ {m} IN
  /\ pc[t] = "lock"
  /\ Free(m, exclusive)
  /\ Lock(t, m, exclusive)
  /\ IF m = call[t][2] /\ rest # {}
     THEN want' = [want EXCEPT ![t] = call[t][3]] /\ UNCHANGED <<pc, bodyVars>>
     ELSE pc' = [pc EXCEPT ![t] = "body"] /\ Enter(t, steps, outcome) /\ UNCHANGED want
  /\ UNCHANGED <<data, call>>

(* std::lock blocks on one mutex only; lock() of a single one does too.      *)
LockFirst(t, exclusive, steps, outcome) ==
  /\ pc[t] = "lock"
  /\ Free(want[t], exclusive)
  /\ Lock(t, want[t], exclusive)
  /\ IF Cardinality(Needs(call[t])) = 2
     THEN pc' = [pc EXCEPT ![t] = "try"] /\ UNCHANGED bodyVars
     ELSE pc' = [pc EXCEPT ![t] = "body"] /\ Enter(t, steps, outcome)
  /\ UNCHANGED <<data, call, want>>

\* The other object of the call.
Other(t) == CHOOSE o \in Needs(call[t]) : o # want[t]

(* ... and only tries the other; if that fails it unlocks the first and      *)
(* starts again with the one it could not have.                              *)
TrySecond(t, exclusive, steps, outcome) ==
  /\ pc[t] = "try"
  /\ IF Free(Other(t), exclusive)
     THEN /\ Lock(t, Other(t), exclusive)
          /\ pc' = [pc EXCEPT ![t] = "body"]
          /\ Enter(t, steps, outcome)
          /\ UNCHANGED want
     ELSE /\ Unlock(t, Needs(call[t]))
          /\ pc' = [pc EXCEPT ![t] = "lock"]
          /\ want' = [want EXCEPT ![t] = Other(t)]
          /\ UNCHANGED bodyVars
  /\ UNCHANGED <<data, call>>

(* The next step of the body: its effect on this, other and the result.      *)
Step(t, effect) ==
  /\ pc[t] = "body"
  /\ todo[t] # <<>>
  /\ todo' = [todo EXCEPT ![t] = Tail(@)]
  /\ data' = [m \in Objects |->
                CASE m = call[t][2] -> effect[1]
                  [] m = call[t][3] -> effect[2]
                  [] OTHER -> data[m]]
  /\ got' = [got EXCEPT ![t] = effect[3]]
  /\ UNCHANGED <<lockVars, pc, call, want, expect>>

Finish(t) ==
  /\ pc[t] = "body"
  /\ todo[t] = <<>>
  /\ pc' = [pc EXCEPT ![t] = "unlock"]
  /\ UNCHANGED <<data, lockVars, call, want, bodyVars>>

(* The unique_lock or shared_lock objects are destroyed. *)
Return(t) ==
  /\ pc[t] = "unlock"
  /\ Unlock(t, Needs(call[t]))
  /\ pc' = [pc EXCEPT ![t] = "idle"]
  /\ call' = [call EXCEPT ![t] = NoCall]
  /\ Enter(t, <<>>, <<>>)
  /\ want' = [want EXCEPT ![t] = NoThread]
  /\ UNCHANGED data
-----------------------------------------------------------------------------
(* A call leaves its objects, and returns, what it would have done as one    *)
(* step when it had its locks: no other thread changed what it read or       *)
(* changes what it wrote, although it works element by element, and swap and *)
(* merge over two objects.                                                   *)
CallsAreAtomic ==
  \A t \in Threads : pc[t] = "unlock" =>
    <<data[call[t][2]], data[call[t][3]], got[t]>> = expect[t]

(* A thread that has to wait for a mutex waits for threads that are not      *)
(* themselves waiting, whichever objects they lock in whichever order: no    *)
(* cycle of waits, so no deadlock.                                           *)
WaitsEnd ==
  \A t, u \in Threads :
    /\ pc[t] = "lock"
    /\ u = writer[want[t]] \/ u \in readers[want[t]]
    => pc[u] # "lock"
=============================================================================
