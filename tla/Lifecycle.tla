----------------------------- MODULE Lifecycle -----------------------------
(***************************************************************************)
(* What the engine's runtime lifecycle promises an observer of the watch   *)
(* channel (crates/engine/src/lifecycle.rs): it only ever moves forward,   *)
(* an engine that was ready passes through "stopping" before it is over,   *)
(* and neither starting nor stopping goes on for ever.                     *)
(***************************************************************************)

VARIABLE lifecycle

LifecycleStates == {"starting", "ready", "stopping", "stopped", "failed"}

Init == lifecycle = "starting"

BecomeReady == lifecycle = "starting" /\ lifecycle' = "ready"
GiveUpStart == lifecycle = "starting" /\ lifecycle' = "failed"
BeginStop   == lifecycle = "ready" /\ lifecycle' = "stopping"
EndStop     == lifecycle = "stopping" /\ lifecycle' \in {"stopped", "failed"}

Next == BecomeReady \/ GiveUpStart \/ BeginStop \/ EndStop

Spec == Init /\ [][Next]_lifecycle

FairSpec ==
  /\ Spec
  /\ WF_lifecycle(BecomeReady \/ GiveUpStart)
  /\ WF_lifecycle(EndStop)

=============================================================================
