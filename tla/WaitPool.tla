------------------------------ MODULE WaitPool ------------------------------
(***************************************************************************)
(* The pool of reader connections with its mutex and Condvar               *)
(* (crates/infrastructure/src/sqlite/database.rs).  A critical section of  *)
(* the mutex is one step; what lies between two of them is where threads   *)
(* interleave: a connection is pushed under the mutex and a sleeper        *)
(* notified after it, and a woken thread may find the connection gone.     *)
(***************************************************************************)
EXTENDS Naturals, FiniteSets

CONSTANTS
  Threads,  (* blocking threads that read *)
  Size      (* connections in the pool    *)

ASSUME ThreadsAssumption == IsFiniteSet(Threads)
ASSUME SizeAssumption == Size \in Nat \ {0}

VARIABLES
  place,    (* where each thread is; see Places *)
  free      (* length of the vector `idle`      *)

poolVars == <<place, free>>

(* taking    has called take, and has not looked yet                        *)
(* asleep    in the Condvar's wait set                                      *)
(* woken     out of the wait set, about to lock the mutex and look again    *)
(* holding   has a PooledReader                                             *)
(* notifying has pushed its connection, and has yet to notify               *)
Places == {"outside", "taking", "asleep", "woken", "holding", "notifying"}

At(p) == { t \in Threads : place[t] = p }

PoolInit ==
  /\ place = [t \in Threads |-> "outside"]
  /\ free = Size

Checkout(t) ==
  /\ place[t] = "outside"
  /\ place' = [place EXCEPT ![t] = "taking"]
  /\ UNCHANGED free

(* A connection is there: whoever locks the mutex first has it, whether it  *)
(* slept or has just arrived.                                               *)
Take(t) ==
  /\ place[t] \in {"taking", "woken"}
  /\ free > 0
  /\ place' = [place EXCEPT ![t] = "holding"]
  /\ free' = free - 1

(* Seeded bug: a thread sleeps before it has looked. *)
SleepWithoutLooking(t) ==
  /\ place[t] \in {"taking", "woken"}
  /\ place' = [place EXCEPT ![t] = "asleep"]
  /\ UNCHANGED free

(* None is there: the thread enters the wait set as it unlocks the mutex.   *)
Sleep(t) ==
  /\ place[t] \in {"taking", "woken"}
  /\ free = 0
  /\ place' = [place EXCEPT ![t] = "asleep"]
  /\ UNCHANGED free

(* It wakes for no reason, or after READER_CHECKOUT_WARN_AFTER, which only  *)
(* logs before it looks and waits again.                                    *)
WakeUnasked(t) ==
  /\ place[t] = "asleep"
  /\ place' = [place EXCEPT ![t] = "woken"]
  /\ UNCHANGED free

(* Seeded bug: a connection is announced to its own thread. *)
PushUnannounced(t) ==
  /\ place[t] = "holding"
  /\ place' = [place EXCEPT ![t] = "outside"]
  /\ free' = free + 1

(* The PooledReader is dropped, by a return or a panic: put pushes its      *)
(* connection and unlocks the mutex ...                                     *)
Push(t) ==
  /\ place[t] = "holding"
  /\ place' = [place EXCEPT ![t] = "notifying"]
  /\ free' = free + 1

(* ... and then wakes one sleeper, if there is one. *)
Notify(t) ==
  /\ place[t] = "notifying"
  /\ \/ \E s \in At("asleep") : place' = [place EXCEPT ![t] = "outside", ![s] = "woken"]
     \/ At("asleep") = {} /\ place' = [place EXCEPT ![t] = "outside"]
  /\ UNCHANGED free

PoolNext ==
  \E t \in Threads :
    Checkout(t) \/ Take(t) \/ Sleep(t) \/ WakeUnasked(t) \/ Push(t) \/ Notify(t)

PoolSpec == PoolInit /\ [][PoolNext]_poolVars

-----------------------------------------------------------------------------
(* Properties. *)

PoolTypeOK ==
  /\ place \in [Threads -> Places]
  /\ free \in Nat

(* No wakeup is lost: beside a sleeper, each free connection has a thread   *)
(* of its own that is about to look for it or about to notify, however      *)
(* connections are put back together, newcomers steal them and sleepers     *)
(* wake by themselves (take and put).                                       *)
NoLostWakeup ==
  At("asleep") # {} => free <= Cardinality(At("woken")) + Cardinality(At("notifying"))

(* The inductive strengthening: every connection is at rest or held. *)
ConnectionsConserved == free + Cardinality(At("holding")) = Size

PoolInv ==
  /\ PoolTypeOK
  /\ ConnectionsConserved
  /\ NoLostWakeup

PlainPlace(p) ==
  IF p = "holding" THEN "holding"
  ELSE IF p \in {"outside", "notifying"} THEN "outside"
  ELSE "waiting"

SeenPlaces == [t \in Threads |-> PlainPlace(place[t])]

Pool == INSTANCE ReaderPool WITH state <- SeenPlaces

(* Mutex and Condvar implement the plain pool that AsyncStorage has: no     *)
(* more readers out than there are, and no thread that sleeps on while a    *)
(* connection stays free, its warning timer or not.                         *)
ImplementsPool == Pool!FairSpec

=============================================================================
