----------------------------- MODULE ReaderPool -----------------------------
(***************************************************************************)
(* What a pool of connections promises the threads that share it, without  *)
(* a mutex, wait set or notification: as many hold one as there are, and   *)
(* nobody waits for ever beside a connection that stays free.  A thread    *)
(* may be overtaken: the pool is not first come, first served.             *)
(***************************************************************************)
EXTENDS Naturals, FiniteSets

CONSTANTS Threads, Size

VARIABLE state

Holders == { t \in Threads : state[t] = "holding" }

Init == state = [t \in Threads |-> "outside"]

Ask(t) ==
  /\ state[t] = "outside"
  /\ state' = [state EXCEPT ![t] = "waiting"]

Take(t) ==
  /\ state[t] = "waiting"
  /\ Cardinality(Holders) < Size
  /\ state' = [state EXCEPT ![t] = "holding"]

Put(t) ==
  /\ state[t] = "holding"
  /\ state' = [state EXCEPT ![t] = "outside"]

Next == \E t \in Threads : Ask(t) \/ Take(t) \/ Put(t)

Spec == Init /\ [][Next]_state

FairSpec == Spec /\ \A t \in Threads : WF_state(Take(t))

=============================================================================
