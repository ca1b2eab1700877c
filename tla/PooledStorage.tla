--------------------------- MODULE PooledStorage ----------------------------
(***************************************************************************)
(* The storage facade on the pool as it is: the closures of AsyncStorage   *)
(* are the threads of WaitPool, and a step of a closure that takes a       *)
(* reader, waits for one or puts one back is a step of both modules.       *)
(***************************************************************************)
EXTENDS AsyncStorage, WaitPool

ASSUME ThreadsAreCalls == Threads = Calls
ASSUME SizeIsReaderSlots == Size = ReaderSlots

pooledVars == <<vars, poolVars>>

PooledInit == Init /\ PoolInit

(* The closure calls ReaderPool::checkout. *)
AsksForReader(c) ==
  /\ phase[c] = "running" /\ needs[c] # <<>> /\ Head(needs[c]) = "reader"
  /\ Checkout(c)
  /\ UNCHANGED vars

GetsReader(c) == CheckoutReader(c) /\ Take(c)

(* It sleeps for the first time, or again when it was overtaken. *)
SleepsForReader(c) ==
  /\ Sleep(c)
  /\ \/ ParkForReader(c)
     \/ phase[c] = "parked" /\ UNCHANGED vars

Stirs(c) == WakeUnasked(c) /\ UNCHANGED vars

(* The guard is dropped, at the end of the read or by a panic: the thread   *)
(* goes on only when it has notified.                                       *)
PutsReader(c) == phase[c] = "reading" /\ Push(c) /\ (CheckinReader(c) \/ PanicClosure(c))

Announces(c) == Notify(c) /\ UNCHANGED vars

(* The steps of a closure that is not inside the pool's code. *)
ElsewhereInClosure(c) ==
  /\ place[c] = "outside"
  /\ UNCHANGED poolVars
  /\ \/ StartClosure(c)
     \/ LockWriter(c)
     \/ UnlockWriter(c)
     \/ FinishClosure(c)
     \/ phase[c] # "reading" /\ PanicClosure(c)
     \/ UnwindClosure(c)
     \/ Complete(c)

ClosureRuns(c) ==
  \/ AsksForReader(c)
  \/ GetsReader(c)
  \/ SleepsForReader(c)
  \/ PutsReader(c)
  \/ Announces(c)
  \/ ElsewhereInClosure(c)

(* The rest of the engine, which never looks into the pool. *)
OutsideThePool(A) == A /\ UNCHANGED poolVars

PooledNext ==
  \/ \E c \in Calls : ClosureRuns(c) \/ Stirs(c) \/ OutsideThePool(Caller(c) \/ DropSpawned(c))
  \/ OutsideThePool(Owner)

PooledSpec == PooledInit /\ [][PooledNext]_pooledVars

(* Threads run, woken tasks are polled, timers fire and a runtime that is   *)
(* shutting down drops its tasks.  Nobody is obliged to call, to hang up,   *)
(* to panic or to ask for the shutdown, nor a timer to outrun a permit, nor *)
(* a sleeper of the pool to wake before it is notified.                     *)
Fairness ==
  /\ \A c \in Calls :
       /\ WF_pooledVars(OutsideThePool(
            Admit(c) \/ (phase[c] = "queued" /\ QueueTimeout(c)) \/ Refuse(c)))
       /\ WF_pooledVars(ClosureRuns(c))
       /\ WF_pooledVars(OutsideThePool(~RuntimeAlive /\ DropCaller(c)))
  /\ WF_pooledVars(OutsideThePool(CloseWrites))
  /\ WF_pooledVars(OutsideThePool(CountReads \/ CountWrites))
  /\ WF_pooledVars(OutsideThePool(owner # "closing" /\ ShutdownRuntime))
  /\ WF_pooledVars(OutsideThePool(RuntimeStopped))
  /\ WF_pooledVars(OutsideThePool(IntoEngine))

FairSpec == PooledSpec /\ Fairness

=============================================================================
