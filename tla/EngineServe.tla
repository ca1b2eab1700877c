---------------------------- MODULE EngineServe ----------------------------
(***************************************************************************)
(* One engine process from the end of its boot to its exit: run_loop,      *)
(* graceful_shutdown and serve (crates/engine/src/engine.rs), the gRPC     *)
(* server it spawns, the signals it polls, and the RPCs in flight with the *)
(* storage closures they started.                                          *)
(*                                                                         *)
(* Lanes and connections are the business of AsyncStorage, and what        *)
(* several processes do to one socket directory that of EngineInstances.   *)
(***************************************************************************)
EXTENDS Naturals, FiniteSets

CONSTANTS
  Rpcs,     (* identities of RPCs; each starts at most one closure at a time *)
  Signals   (* the shutdown signals listened to: SIGTERM and SIGINT          *)

ASSUME RpcsAssumption == IsFiniteSet(Rpcs)

VARIABLES
  lifecycle,  (* the state published by Lifecycle                           *)
  stage,      (* where the main thread is; see Stages                       *)
  outcome,    (* the result of run_loop, or of the boot                     *)
  pending,    (* signals delivered and not yet received; repeats coalesce   *)
  server,     (* the spawned tonic server                                   *)
  rpc,        (* each RPC as its client will see it                         *)
  closure,    (* the blocking closure an RPC started                        *)
  closed,     (* AsyncStorage::close was called                             *)
  checkpoint  (* none, "final" (by serve), or "late" (by the last closure)  *)

vars == <<lifecycle, stage, outcome, pending, server, rpc, closure, closed, checkpoint>>

(* booting, spawning   before run_loop; in it, before readiness            *)
(* serving             select! over a signal and the server's end          *)
(* draining            select! over a signal, the server's end, a deadline *)
(* idling              wait_idle                                           *)
(* returned            run_loop is over; its runtime is still there        *)
(* stopping, unlinked, reclaimed, unlocked   the steps of `serve` after it *)
(* exited, dead        ValqeronEngine::run returned; the process is gone   *)
Stages == { "booting", "spawning", "serving", "draining", "idling", "returned",
            "stopping", "unlinked", "reclaimed", "unlocked", "exited", "dead" }

Outcomes == {"none", "ok", "boot_failed", "startup_failed", "server_died", "forced"}

(* joined: ended after a graceful drain; died: ended by itself.            *)
Servers == {"absent", "up", "draining", "joined", "died", "aborted"}

Returned == { "returned", "stopping", "unlinked", "reclaimed", "unlocked", "exited", "dead" }

RuntimeAlive == stage \in {"spawning", "serving", "draining", "idling", "returned"}

(* The connections of a server that died or was aborted are tasks of their *)
(* own and go on; those of one that drained are closed.                    *)
ConnectionsAlive == RuntimeAlive /\ server \in {"up", "draining", "died", "aborted"}

InFlight(r) == closure[r] \in {"spawned", "running"}
ArcHolders == { r \in Rpcs : closure[r] # "none" }

-----------------------------------------------------------------------------
(* lifecycle.rs: a transition outside the table leaves the state unchanged *)
(* and every caller ignores the error.                                     *)

IsValidTransition(from, to) ==
  <<from, to>> \in { <<"starting", "ready">>, <<"starting", "failed">>,
                     <<"ready", "stopping">>,
                     <<"stopping", "stopped">>, <<"stopping", "failed">> }

Transition(to) ==
  lifecycle' = IF IsValidTransition(lifecycle, to) THEN to ELSE lifecycle

-----------------------------------------------------------------------------

Init ==
  /\ lifecycle = "starting"
  /\ stage = "booting"
  /\ outcome = "none"
  /\ pending = {}
  /\ server = "absent"
  /\ rpc = [r \in Rpcs |-> "idle"]
  /\ closure = [r \in Rpcs |-> "none"]
  /\ closed = FALSE
  /\ checkpoint = "none"

(* The boot sequence, which EngineInstances has in detail. *)
BootFails ==
  /\ stage = "booting"
  /\ stage' = "exited"
  /\ outcome' = "boot_failed"
  /\ Transition("failed")
  /\ UNCHANGED <<pending, server, rpc, closure, closed, checkpoint>>

Booted ==
  /\ stage = "booting"
  /\ stage' = "spawning"
  /\ UNCHANGED <<lifecycle, outcome, pending, server, rpc, closure, closed, checkpoint>>

(* Signals::install or GrpcServer::spawn returns an error. *)
StartupFails ==
  /\ stage = "spawning"
  /\ server = "absent"
  /\ stage' = "returned"
  /\ outcome' = "startup_failed"
  /\ UNCHANGED <<lifecycle, pending, server, rpc, closure, closed, checkpoint>>

SpawnServer ==
  /\ stage = "spawning"
  /\ server = "absent"
  /\ server' = "up"
  /\ UNCHANGED <<lifecycle, stage, outcome, pending, rpc, closure, closed, checkpoint>>

(* Seeded bug: readiness is not announced. *)
BecomeReadySilently ==
  /\ stage = "spawning"
  /\ server # "absent"
  /\ stage' = "serving"
  /\ UNCHANGED <<lifecycle, outcome, pending, server, rpc, closure, closed, checkpoint>>

BecomeReady ==
  /\ stage = "spawning"
  /\ server # "absent"
  /\ stage' = "serving"
  /\ Transition("ready")
  /\ UNCHANGED <<outcome, pending, server, rpc, closure, closed, checkpoint>>

(* Seeded bug: the storage is closed before the server has drained. *)
ShutdownClosesFirst ==
  /\ stage = "serving"
  /\ \E s \in pending : pending' = pending \ {s}
  /\ stage' = "draining"
  /\ Transition("stopping")
  /\ server' = IF server = "up" THEN "draining" ELSE server
  /\ closed' = TRUE
  /\ UNCHANGED <<outcome, rpc, closure, checkpoint>>

(* The select! of run_loop resolves with a signal; the graceful shutdown    *)
(* begins by telling the server to drain.                                   *)
ShutdownRequested ==
  /\ stage = "serving"
  /\ \E s \in pending : pending' = pending \ {s}
  /\ stage' = "draining"
  /\ Transition("stopping")
  /\ server' = IF server = "up" THEN "draining" ELSE server
  /\ UNCHANGED <<outcome, rpc, closure, closed, checkpoint>>

(* Seeded bug: the death of the server skips "stopping". *)
ServerLostUnannounced ==
  /\ stage = "serving"
  /\ server = "died"
  /\ stage' = "returned"
  /\ outcome' = "server_died"
  /\ closed' = TRUE
  /\ UNCHANGED <<lifecycle, pending, server, rpc, closure, checkpoint>>

(* It resolves with the server's end. *)
ServerLost ==
  /\ stage = "serving"
  /\ server = "died"
  /\ stage' = "returned"
  /\ outcome' = "server_died"
  /\ Transition("stopping")
  /\ closed' = TRUE
  /\ UNCHANGED <<pending, server, rpc, closure, checkpoint>>

(* The select! of graceful_shutdown: another signal, the server's end, or   *)
(* DRAIN_TIMEOUT.                                                           *)
ShutdownForced ==
  /\ stage = "draining"
  /\ \E s \in pending : pending' = pending \ {s}
  /\ stage' = "returned"
  /\ outcome' = "forced"
  /\ closed' = TRUE
  /\ UNCHANGED <<lifecycle, server, rpc, closure, checkpoint>>

ServerDrained ==
  /\ stage = "draining"
  /\ server \in {"joined", "died"}
  /\ stage' = "idling"
  /\ closed' = TRUE
  /\ UNCHANGED <<lifecycle, outcome, pending, server, rpc, closure, checkpoint>>

(* Seeded bug: the deadline waits for the server it is there to cut short. *)
DrainTimeoutTooPatient ==
  /\ stage = "draining"
  /\ server # "draining"
  /\ stage' = "idling"
  /\ closed' = TRUE
  /\ UNCHANGED <<lifecycle, outcome, pending, server, rpc, closure, checkpoint>>

DrainTimeout ==
  /\ stage = "draining"
  /\ server' = IF server = "draining" THEN "aborted" ELSE server
  /\ stage' = "idling"
  /\ closed' = TRUE
  /\ UNCHANGED <<lifecycle, outcome, pending, rpc, closure, checkpoint>>

(* wait_idle ends at idleness or at its own deadline, and either way the    *)
(* shutdown counts as clean.                                                *)
IdleOrOverdue ==
  /\ stage = "idling"
  /\ stage' = "returned"
  /\ outcome' = "ok"
  /\ UNCHANGED <<lifecycle, pending, server, rpc, closure, closed, checkpoint>>

-----------------------------------------------------------------------------
(* serve, after run_loop. *)

(* Runtime::shutdown_timeout: every task is dropped, RPCs being answered    *)
(* included, and closures no thread has taken; running ones are waited for, *)
(* for at most RUNTIME_SHUTDOWN_TIMEOUT.                                    *)
ShutdownRuntime ==
  /\ stage = "returned"
  /\ stage' = "stopping"
  /\ rpc' = [r \in Rpcs |-> IF rpc[r] = "handling" THEN "lost" ELSE rpc[r]]
  /\ closure' = [r \in Rpcs |-> IF closure[r] = "spawned" THEN "none" ELSE closure[r]]
  /\ UNCHANGED <<lifecycle, outcome, pending, server, closed, checkpoint>>

RemoveSocket ==
  /\ stage = "stopping"
  /\ stage' = "unlinked"
  /\ UNCHANGED <<lifecycle, outcome, pending, server, rpc, closure, closed, checkpoint>>

(* Seeded bug: the checkpoint runs whoever else has the engine. *)
IntoEngineAnyway ==
  /\ stage = "unlinked"
  /\ stage' = "reclaimed"
  /\ checkpoint' = "final"
  /\ UNCHANGED <<lifecycle, outcome, pending, server, rpc, closure, closed>>

(* into_engine: with no closure left the engine is dropped here, which      *)
(* checkpoints; otherwise the last closure to end drops it.                 *)
IntoEngine ==
  /\ stage = "unlinked"
  /\ stage' = "reclaimed"
  /\ checkpoint' = IF ArcHolders = {} THEN "final" ELSE checkpoint
  /\ UNCHANGED <<lifecycle, outcome, pending, server, rpc, closure, closed>>

DropLock ==
  /\ stage = "reclaimed"
  /\ stage' = "unlocked"
  /\ UNCHANGED <<lifecycle, outcome, pending, server, rpc, closure, closed, checkpoint>>

Terminate ==
  /\ stage = "unlocked"
  /\ stage' = "exited"
  /\ Transition(IF outcome = "ok" THEN "stopped" ELSE "failed")
  /\ UNCHANGED <<outcome, pending, server, rpc, closure, closed, checkpoint>>

(* main returns: what still runs on a blocking thread is gone.              *)
Exit ==
  /\ stage = "exited"
  /\ stage' = "dead"
  /\ closure' = [r \in Rpcs |-> "none"]
  /\ UNCHANGED <<lifecycle, outcome, pending, server, rpc, closed, checkpoint>>

Dead ==
  /\ stage = "dead"
  /\ UNCHANGED vars

-----------------------------------------------------------------------------
(* The outside, the server and the blocking threads. *)

(* The handlers stay installed once run_loop has set them up.               *)
Signal(s) ==
  /\ stage \notin {"booting", "dead"}
  /\ outcome # "boot_failed"
  /\ pending' = pending \union {s}
  /\ UNCHANGED <<lifecycle, stage, outcome, server, rpc, closure, closed, checkpoint>>

ServerDies ==
  /\ RuntimeAlive
  /\ server \in {"up", "draining"}
  /\ server' = "died"
  /\ UNCHANGED <<lifecycle, stage, outcome, pending, rpc, closure, closed, checkpoint>>

(* A draining server ends when its last RPC is answered. *)
ServerJoins ==
  /\ RuntimeAlive
  /\ server = "draining"
  /\ \A r \in Rpcs : rpc[r] # "handling"
  /\ server' = "joined"
  /\ UNCHANGED <<lifecycle, stage, outcome, pending, rpc, closure, closed, checkpoint>>

RpcArrives(r) ==
  /\ ConnectionsAlive
  /\ rpc[r] = "idle"
  /\ closure[r] = "none"
  /\ rpc' = [rpc EXCEPT ![r] = "handling"]
  /\ UNCHANGED <<lifecycle, stage, outcome, pending, server, closure, closed, checkpoint>>

(* The handler asks the storage: the closure is spawned, or the call is     *)
(* refused because the storage is closed and the RPC fails.                 *)
CallStorage(r) ==
  /\ RuntimeAlive
  /\ rpc[r] = "handling"
  /\ closure[r] = "none"
  /\ IF closed
     THEN rpc' = [rpc EXCEPT ![r] = "refused"] /\ UNCHANGED closure
     ELSE closure' = [closure EXCEPT ![r] = "spawned"] /\ UNCHANGED rpc
  /\ UNCHANGED <<lifecycle, stage, outcome, pending, server, closed, checkpoint>>

RunClosure(r) ==
  /\ closure[r] = "spawned"
  /\ closure' = [closure EXCEPT ![r] = "running"]
  /\ UNCHANGED <<lifecycle, stage, outcome, pending, server, rpc, closed, checkpoint>>

(* The closure gives its permit back, then drops its Arc of the engine; the *)
(* last Arc, once `serve` has let go of its own, runs the checkpoint.       *)
ReturnPermit(r) ==
  /\ closure[r] = "running"
  /\ closure' = [closure EXCEPT ![r] = "returning"]
  /\ UNCHANGED <<lifecycle, stage, outcome, pending, server, rpc, closed, checkpoint>>

(* The RPC, if its task is still there, is answered with the result.        *)
DropArc(r) ==
  /\ closure[r] = "returning"
  /\ closure' = [closure EXCEPT ![r] = "none"]
  /\ rpc' = IF rpc[r] = "handling" THEN [rpc EXCEPT ![r] = "idle"] ELSE rpc
  /\ checkpoint' =
       IF ArcHolders = {r} /\ stage \in {"reclaimed", "unlocked", "exited"}
       THEN "late" ELSE checkpoint
  /\ UNCHANGED <<lifecycle, stage, outcome, pending, server, closed>>

(* A client that gives up, or an RPC that needs no storage: its task is     *)
(* over, and a closure it started goes on by itself.                        *)
RpcEnds(r) ==
  /\ RuntimeAlive
  /\ rpc[r] = "handling"
  /\ rpc' = [rpc EXCEPT ![r] = "idle"]
  /\ UNCHANGED <<lifecycle, stage, outcome, pending, server, closure, closed, checkpoint>>

-----------------------------------------------------------------------------

Startup == BootFails \/ Booted \/ StartupFails \/ SpawnServer \/ BecomeReady

RunLoop ==
  \/ ShutdownRequested
  \/ ServerLost
  \/ ShutdownForced
  \/ ServerDrained
  \/ DrainTimeout
  \/ IdleOrOverdue

Teardown ==
  \/ ShutdownRuntime
  \/ RemoveSocket
  \/ IntoEngine
  \/ DropLock
  \/ Terminate
  \/ Exit

Rpc(r) ==
  \/ RpcArrives(r)
  \/ CallStorage(r)
  \/ RunClosure(r)
  \/ ReturnPermit(r)
  \/ DropArc(r)
  \/ RpcEnds(r)

Next ==
  \/ Startup
  \/ RunLoop
  \/ Teardown
  \/ Dead
  \/ ServerDies
  \/ ServerJoins
  \/ \E s \in Signals : Signal(s)
  \/ \E r \in Rpcs : Rpc(r)

Spec == Init /\ [][Next]_vars

(* The main thread runs and its timers fire.  Nothing is assumed of clients,*)
(* of the server or of closures, which may hang.                            *)
FairSpec ==
  /\ Spec
  /\ WF_vars(Startup)
  /\ WF_vars(RunLoop)
  /\ WF_vars(Teardown)

-----------------------------------------------------------------------------
(* Properties. *)

(* Every variable keeps the shape the code gives it. *)
TypeOK ==
  /\ lifecycle \in {"starting", "ready", "stopping", "stopped", "failed"}
  /\ stage \in Stages
  /\ outcome \in Outcomes
  /\ pending \subseteq Signals
  /\ server \in Servers
  /\ rpc \in [Rpcs -> {"idle", "handling", "refused", "lost"}]
  /\ closure \in [Rpcs -> {"none", "spawned", "running", "returning"}]
  /\ closed \in BOOLEAN
  /\ checkpoint \in {"none", "final", "late"}

(* A clean stop has no victims: an RPC is refused as "shutting down", or    *)
(* dropped without an answer, only if the server died, overran its drain    *)
(* deadline or was cut short by another signal.                             *)
CleanStopHasNoVictims ==
  (\E r \in Rpcs : rpc[r] \in {"refused", "lost"})
  => server \in {"died", "aborted"} \/ outcome = "forced"

(* The published terminal state tells how run_loop ended, so every          *)
(* transition of the way there was accepted (engine.rs:642-645).            *)
TerminalStateTellsOutcome ==
  stage \in {"exited", "dead"}
  => lifecycle = IF outcome = "ok" THEN "stopped" ELSE "failed"

(* The final checkpoint of `serve` has the database to itself and is the    *)
(* last thing done to it: no closure is left by then, and no connection     *)
(* that outlived the server starts another.                                 *)
FinalCheckpointIsLast == checkpoint = "final" => ArcHolders = {}

(* The inductive strengthening: how far the main thread has come determines *)
(* what it has published, the server it deals with and the result it has;   *)
(* the storage is closed only behind a server that is done with or by a     *)
(* forced stop; and an RPC in progress needs a connection.                  *)
StagePublished ==
  /\ stage \in {"booting", "spawning"} => lifecycle = "starting"
  /\ stage = "serving" => lifecycle = "ready"
  /\ stage \in {"draining", "idling"} => lifecycle = "stopping"
  /\ stage \in Returned /\ stage \notin {"exited", "dead"} =>
       lifecycle = IF outcome = "startup_failed" THEN "starting" ELSE "stopping"

StageOutcome ==
  /\ stage \notin Returned => outcome = "none"
  /\ stage \in Returned => outcome # "none"
  /\ outcome = "boot_failed" => stage \in {"exited", "dead"} /\ server = "absent"
  /\ outcome = "startup_failed" => server = "absent"
  /\ outcome = "server_died" => server = "died"
  /\ outcome = "ok" => server \in {"joined", "died", "aborted"}

StageServer ==
  /\ stage = "booting" => server = "absent"
  /\ stage = "spawning" => server \in {"absent", "up", "died"}
  /\ stage = "serving" => server \in {"up", "died"}
  /\ stage = "draining" => server \in {"draining", "joined", "died"}
  /\ stage = "idling" => server \in {"joined", "died", "aborted"}

ClosedBehindServer ==
  closed => server \in {"joined", "died", "aborted"} \/ outcome = "forced"

HandlingNeedsConnection ==
  \A r \in Rpcs : rpc[r] = "handling" => ConnectionsAlive

CheckpointInTeardown ==
  checkpoint = "final" => stage \in {"reclaimed", "unlocked", "exited", "dead"}

ServeInv ==
  /\ TypeOK
  /\ StagePublished
  /\ StageOutcome
  /\ StageServer
  /\ ClosedBehindServer
  /\ HandlingNeedsConnection
  /\ CheckpointInTeardown
  /\ CleanStopHasNoVictims
  /\ TerminalStateTellsOutcome
  /\ FinalCheckpointIsLast

(* Every step of the engine is a step, or no step, of the lifecycle, and    *)
(* neither its start nor its stop lasts for ever, whatever hangs.           *)
Published == INSTANCE Lifecycle
ImplementsLifecycle == Published!FairSpec

(* A shutdown signal, or the death of the server, ends the process, even if *)
(* RPCs, closures and the server itself hang for ever.                      *)
AlwaysStops ==
  stage = "serving" /\ (pending # {} \/ server = "died") ~> stage = "dead"

(* What serve's comment says of the terminal states (engine.rs:642-644):    *)
(* "stopped" and "failed" mean everything is drained and released.          *)
TerminalMeansDrained ==
  lifecycle \in {"stopped", "failed"} => ArcHolders = {}

(* What Signals' comment says of a second delivery (engine.rs:670-671): one *)
(* that is there while the engine drains forces the exit.                   *)
SecondSignalForces ==
  stage = "idling" /\ pending # {} ~> outcome = "forced"

=============================================================================
