---------------------------- MODULE AsyncStorage ----------------------------
(***************************************************************************)
(* The lane-bounded storage facade of the engine daemon                    *)
(* (crates/engine/src/storage.rs) on top of the reader pool and the writer *)
(* mutex of the SQLite database (crates/infrastructure/src/sqlite/         *)
(* database.rs), and the way `serve` drains it and takes the engine back.  *)
(*                                                                         *)
(* A call is admitted by the semaphore of its lane and then runs as a      *)
(* closure on a blocking thread.  The async side of a call (its caller)    *)
(* may be dropped at any await point, while a started closure cannot be    *)
(* stopped: the two halves of a call are two processes.                    *)
(***************************************************************************)
EXTENDS Naturals, Sequences, FiniteSets

CONSTANTS
  Calls,       (* identities of storage calls; one is reused once it is over *)
  ReaderSlots  (* DatabaseConfig::reader_pool_size                           *)

ASSUME CallsAssumption == IsFiniteSet(Calls)
ASSUME ReaderSlotsAssumption == ReaderSlots \in Nat \ {0}

WriteSlots == 1

Kinds == {"read", "write", "dry_run", "maintenance"}
Lanes == {"read", "write"}

(* Seeded bug: maintenance takes a permit of the read lane. *)
LaneOfMisfiled(k) == IF k \in {"read", "maintenance"} THEN "read" ELSE "write"

LaneOf(k) == IF k = "read" THEN "read" ELSE "write"
MaxPermits(l) == IF l = "read" THEN ReaderSlots ELSE WriteSlots

(* The connections a closure of each kind asks for, in order: a read takes *)
(* one reader; a registration or a patch may first look its CNPJ and its   *)
(* LEI up through the reader pool; a dry run and a maintenance pass work   *)
(* on the locked writer from end to end.                                   *)
Programs(k) ==
  IF k = "read" THEN {<<"reader">>}
  ELSE {<<"writer">>} \union
       (IF k = "write" THEN {<<"reader", "writer">>, <<"reader", "reader", "writer">>} ELSE {})

Suffixes == { <<>>, <<"reader">>, <<"writer">>, <<"reader", "writer">>,
              <<"reader", "reader", "writer">> }

VARIABLES
  kind,       (* what each call asks the storage to do                      *)
  phase,      (* where each call is; see Phases                             *)
  needs,      (* the connections its closure has still to use               *)
  caller,     (* the async side: waiting, dropped, or the reply it received *)
  available,  (* free permits of each lane's semaphore                      *)
  closed,     (* the lanes whose semaphore is closed                        *)
  idle,       (* reader connections at rest in the pool                     *)
  writer,     (* the call whose closure holds the writer mutex, or NoCall   *)
  owner       (* how far `serve` is in giving the storage up                *)

vars == <<kind, phase, needs, caller, available, closed, idle, writer, owner>>

NoCall == "no call"

ASSUME NoCallAssumption == NoCall \notin Calls

(* queued    awaiting a permit in acquire_slot                             *)
(* granted   the semaphore assigned it a permit; its task is not yet polled*)
(* spawned   closure handed to spawn_blocking, no thread has taken it      *)
(* running   closure on a thread, holding no connection                    *)
(* parked    closure waiting on the reader pool's Condvar                  *)
(* reading   closure holding a pooled reader                               *)
(* writing   closure holding the writer mutex                              *)
(* panicked  closure unwinding, its guard dropped and its permit not yet   *)
(* returning, unwinding   permit given back, the Arc of the engine not yet *)
Phases == { "over", "queued", "granted", "spawned", "running", "parked",
            "reading", "writing", "panicked", "returning", "unwinding" }

Replies == {"ok", "failed", "overloaded", "shutting_down"}
OwnerStages == { "serving", "half_closed", "closing", "reads_idle", "drained",
                 "overdue", "stopping", "stopped", "reclaimed", "shared" }

(* Phases that keep a permit, phases whose closure owns a clone of the     *)
(* engine's Arc, and phases in which a closure may still use the database. *)
ClosurePhases == { "running", "parked", "reading", "writing", "panicked" }
PermitPhases == ClosurePhases \union { "granted", "spawned" }
ArcPhases == ClosurePhases \union { "spawned", "returning", "unwinding" }

Lane(c) == LaneOf(kind[c])
PermitHolders(l) == { c \in Calls : phase[c] \in PermitPhases /\ Lane(c) = l }
Readers == { c \in Calls : phase[c] = "reading" }
Writers == { c \in Calls : phase[c] = "writing" }
ArcHolders == { c \in Calls : phase[c] \in ArcPhases }
Waiters(l) == { c \in Calls : phase[c] = "queued" /\ Lane(c) = l }

NothingUsesTheDatabase ==
  \A c \in Calls : phase[c] \notin ClosurePhases \union {"spawned"}

(* Seeded bug: in_flight forgets the read lane. *)
InFlightOfWrites(l) == IF l = "write" THEN MaxPermits(l) - available[l] ELSE 0

(* What in_flight adds up, lane by lane. *)
InFlight(l) == MaxPermits(l) - available[l]

RuntimeAlive ==
  owner \in {"serving", "half_closed", "closing", "reads_idle", "drained", "overdue"}

-----------------------------------------------------------------------------

Init ==
  /\ kind = [c \in Calls |-> "read"]
  /\ phase = [c \in Calls |-> "over"]
  /\ needs = [c \in Calls |-> <<>>]
  /\ caller = [c \in Calls |-> "ok"]
  /\ available = [l \in Lanes |-> MaxPermits(l)]
  /\ closed = {}
  /\ idle = ReaderSlots
  /\ writer = NoCall
  /\ owner = "serving"

(* Seeded bug: a call is let in whatever the lane's permits say. *)
CallOverdraws(c, k) ==
  /\ RuntimeAlive
  /\ phase[c] = "over"
  /\ kind' = [kind EXCEPT ![c] = k]
  /\ caller' = [caller EXCEPT ![c] = "waiting"]
  /\ \E p \in Programs(k) : needs' = [needs EXCEPT ![c] = p]
  /\ phase' = [phase EXCEPT ![c] = "spawned"]
  /\ available' = [available EXCEPT ![LaneOf(k)] = @ - 1]
  /\ UNCHANGED <<closed, idle, writer, owner>>

(* read, write and maintenance up to the first poll of acquire_slot: a free *)
(* permit is taken at once and the closure is handed to spawn_blocking;     *)
(* otherwise the call queues.                                               *)
Call(c, k) ==
  /\ RuntimeAlive
  /\ phase[c] = "over"
  /\ kind' = [kind EXCEPT ![c] = k]
  /\ caller' = [caller EXCEPT ![c] = "waiting"]
  /\ \E p \in Programs(k) : needs' = [needs EXCEPT ![c] = p]
  /\ \/ /\ LaneOf(k) \notin closed
        /\ available[LaneOf(k)] > 0
        /\ phase' = [phase EXCEPT ![c] = "spawned"]
        /\ available' = [available EXCEPT ![LaneOf(k)] = @ - 1]
     \/ /\ LaneOf(k) \in closed \/ available[LaneOf(k)] = 0
        /\ phase' = [phase EXCEPT ![c] = "queued"]
        /\ UNCHANGED available
  /\ UNCHANGED <<closed, idle, writer, owner>>

(* A permit of call c's lane comes back while c moves to phase p: the      *)
(* semaphore hands it to a waiter of that lane, if there is one and the    *)
(* semaphore is open.                                                      *)
GiveBackPermit(c, p) ==
  \/ /\ Lane(c) \in closed \/ Waiters(Lane(c)) = {}
     /\ phase' = [phase EXCEPT ![c] = p]
     /\ available' = [available EXCEPT ![Lane(c)] = @ + 1]
  \/ /\ Lane(c) \notin closed
     /\ \E w \in Waiters(Lane(c)) :
          phase' = [phase EXCEPT ![c] = p, ![w] = "granted"]
     /\ UNCHANGED available

(* Seeded bug: a woken call asks the semaphore for a permit once more. *)
AdmitAcquiresTwice(c) ==
  /\ RuntimeAlive
  /\ phase[c] = "granted"
  /\ Lane(c) \notin closed
  /\ available[Lane(c)] > 0
  /\ phase' = [phase EXCEPT ![c] = "spawned"]
  /\ available' = [available EXCEPT ![Lane(c)] = @ - 1]
  /\ UNCHANGED <<kind, needs, caller, closed, idle, writer, owner>>

(* The queued call's task is polled with its permit and spawns the closure. *)
Admit(c) ==
  /\ RuntimeAlive
  /\ phase[c] = "granted"
  /\ Lane(c) \notin closed
  /\ phase' = [phase EXCEPT ![c] = "spawned"]
  /\ UNCHANGED <<kind, needs, caller, available, closed, idle, writer, owner>>

(* Seeded bug: the timeout covers the whole call, not its wait in the queue. *)
QueueTimeoutCoversClosure(c) ==
  /\ RuntimeAlive
  /\ phase[c] \in {"queued", "spawned"}
  /\ caller[c] = "waiting"
  /\ phase' = [phase EXCEPT ![c] = IF @ = "queued" THEN "over" ELSE @]
  /\ caller' = [caller EXCEPT ![c] = "overloaded"]
  /\ UNCHANGED <<kind, needs, available, closed, idle, writer, owner>>

(* The acquire of a waiting call is dropped: a permit that the semaphore    *)
(* has assigned it meanwhile is given back.                                 *)
LeaveQueue(c) ==
  \/ /\ phase[c] = "queued"
     /\ phase' = [phase EXCEPT ![c] = "over"]
     /\ UNCHANGED available
  \/ /\ phase[c] = "granted"
     /\ GiveBackPermit(c, "over")

(* QUEUE_TIMEOUT elapses first: Overloaded.  The timeout polls the acquire  *)
(* before its timer, so a permit may be assigned in between.                *)
QueueTimeout(c) ==
  /\ RuntimeAlive
  /\ LeaveQueue(c)
  /\ caller' = [caller EXCEPT ![c] = "overloaded"]
  /\ UNCHANGED <<kind, needs, closed, idle, writer, owner>>

(* The acquire of a waiting call finds the semaphore closed: ShuttingDown.  *)
Refuse(c) ==
  /\ RuntimeAlive
  /\ Lane(c) \in closed
  /\ LeaveQueue(c)
  /\ caller' = [caller EXCEPT ![c] = "shutting_down"]
  /\ UNCHANGED <<kind, needs, closed, idle, writer, owner>>

(* Seeded bug: a call that was assigned a permit cannot be dropped. *)
DropCallerUnlessGranted(c) ==
  /\ caller[c] = "waiting"
  /\ phase[c] # "granted"
  /\ caller' = [caller EXCEPT ![c] = "dropped"]
  /\ phase' = [phase EXCEPT ![c] = IF @ = "queued" THEN "over" ELSE @]
  /\ UNCHANGED <<kind, needs, available, closed, idle, writer, owner>>

(* The RPC's future is dropped (client gone, server aborted, runtime shut   *)
(* down).  A call still in the queue disappears with it; a spawned closure  *)
(* is detached and goes on.                                                 *)
DropCaller(c) ==
  /\ caller[c] = "waiting"
  /\ caller' = [caller EXCEPT ![c] = "dropped"]
  /\ \/ LeaveQueue(c)
     \/ phase[c] \in ArcPhases /\ UNCHANGED <<phase, available>>
  /\ UNCHANGED <<kind, needs, closed, idle, writer, owner>>

-----------------------------------------------------------------------------
(* The closure on its blocking thread. *)

StartClosure(c) ==
  /\ phase[c] = "spawned"
  /\ phase' = [phase EXCEPT ![c] = "running"]
  /\ UNCHANGED <<kind, needs, caller, available, closed, idle, writer, owner>>

(* ReaderPool::checkout; with no idle connection the thread waits on the    *)
(* Condvar, and whoever finds a connection first takes it.                  *)
CheckoutReader(c) ==
  /\ \/ phase[c] = "running" /\ needs[c] # <<>> /\ Head(needs[c]) = "reader"
     \/ phase[c] = "parked"
  /\ idle > 0
  /\ idle' = idle - 1
  /\ phase' = [phase EXCEPT ![c] = "reading"]
  /\ UNCHANGED <<kind, needs, caller, available, closed, writer, owner>>

ParkForReader(c) ==
  /\ phase[c] = "running"
  /\ needs[c] # <<>>
  /\ Head(needs[c]) = "reader"
  /\ idle = 0
  /\ phase' = [phase EXCEPT ![c] = "parked"]
  /\ UNCHANGED <<kind, needs, caller, available, closed, idle, writer, owner>>

(* Dropping the ReadGuard checks the connection in.  A write whose lookup   *)
(* found a duplicate, or failed, asks for nothing more.                     *)
CheckinReader(c) ==
  /\ phase[c] = "reading"
  /\ idle' = idle + 1
  /\ phase' = [phase EXCEPT ![c] = "running"]
  /\ \E rest \in {Tail(needs[c]), <<>>} : needs' = [needs EXCEPT ![c] = rest]
  /\ UNCHANGED <<kind, caller, available, closed, writer, owner>>

LockWriter(c) ==
  /\ phase[c] = "running"
  /\ needs[c] # <<>>
  /\ Head(needs[c]) = "writer"
  /\ writer = NoCall
  /\ writer' = c
  /\ phase' = [phase EXCEPT ![c] = "writing"]
  /\ UNCHANGED <<kind, needs, caller, available, closed, idle, owner>>

UnlockWriter(c) ==
  /\ phase[c] = "writing"
  /\ writer' = NoCall
  /\ phase' = [phase EXCEPT ![c] = "running"]
  /\ needs' = [needs EXCEPT ![c] = Tail(@)]
  /\ UNCHANGED <<kind, caller, available, closed, idle, owner>>

(* The closure's body is over: its permit, a local, is dropped before the   *)
(* captured Arc of the engine.                                              *)
FinishClosure(c) ==
  /\ phase[c] = "running"
  /\ needs[c] = <<>>
  /\ GiveBackPermit(c, "returning")
  /\ UNCHANGED <<kind, needs, caller, closed, idle, writer, owner>>

(* Seeded bug: a panic does not check the reader in. *)
PanicLeaksReader(c) ==
  /\ phase[c] \in {"running", "reading", "writing"}
  /\ phase' = [phase EXCEPT ![c] = "panicked"]
  /\ writer' = IF phase[c] = "writing" THEN NoCall ELSE writer
  /\ needs' = [needs EXCEPT ![c] = <<>>]
  /\ UNCHANGED <<kind, caller, available, closed, idle, owner>>

(* A panic anywhere in the body unwinds: the guard it holds is dropped ...  *)
PanicClosure(c) ==
  /\ phase[c] \in {"running", "reading", "writing"}
  /\ phase' = [phase EXCEPT ![c] = "panicked"]
  /\ idle' = IF phase[c] = "reading" THEN idle + 1 ELSE idle
  /\ writer' = IF phase[c] = "writing" THEN NoCall ELSE writer
  /\ needs' = [needs EXCEPT ![c] = <<>>]
  /\ UNCHANGED <<kind, caller, available, closed, owner>>

(* Seeded bug: a panic does not give the permit back. *)
UnwindLeaksPermit(c) ==
  /\ phase[c] = "panicked"
  /\ phase' = [phase EXCEPT ![c] = "unwinding"]
  /\ UNCHANGED <<kind, needs, caller, available, closed, idle, writer, owner>>

(* ... and then the permit. *)
UnwindClosure(c) ==
  /\ phase[c] = "panicked"
  /\ GiveBackPermit(c, "unwinding")
  /\ UNCHANGED <<kind, needs, caller, closed, idle, writer, owner>>

(* The closure drops its Arc and its task completes; the caller, if it is   *)
(* still there, gets the result, or TaskFailed after a panic.               *)
Complete(c) ==
  /\ phase[c] \in {"returning", "unwinding"}
  /\ phase' = [phase EXCEPT ![c] = "over"]
  /\ caller' = IF caller[c] = "waiting"
               THEN [caller EXCEPT ![c] = IF phase[c] = "returning" THEN "ok" ELSE "failed"]
               ELSE caller
  /\ UNCHANGED <<kind, needs, available, closed, idle, writer, owner>>

-----------------------------------------------------------------------------
(* The owner: run_loop and serve. *)

(* close: the semaphore of the read lane, then that of the write lane. *)
CloseReads ==
  /\ owner = "serving"
  /\ owner' = "half_closed"
  /\ closed' = closed \union {"read"}
  /\ UNCHANGED <<kind, phase, needs, caller, available, idle, writer>>

CloseWrites ==
  /\ owner = "half_closed"
  /\ owner' = "closing"
  /\ closed' = closed \union {"write"}
  /\ UNCHANGED <<kind, phase, needs, caller, available, idle, writer>>

(* wait_idle polls in_flight, which reads one lane after the other, until   *)
(* both were idle or the deadline passes between two polls.                 *)
CountReads ==
  /\ owner = "closing"
  /\ \/ InFlight("read") = 0 /\ owner' = "reads_idle"
     \/ InFlight("read") > 0 /\ owner' = "overdue"
  /\ UNCHANGED <<kind, phase, needs, caller, available, closed, idle, writer>>

CountWrites ==
  /\ owner = "reads_idle"
  /\ \/ InFlight("write") = 0 /\ owner' = "drained"
     \/ InFlight("write") > 0 /\ owner' \in {"closing", "overdue"}
  /\ UNCHANGED <<kind, phase, needs, caller, available, closed, idle, writer>>

(* Runtime::shutdown_timeout begins; after a forced shutdown, or when the   *)
(* server died, without the wait for idleness.                              *)
ShutdownRuntime ==
  /\ owner \in {"closing", "drained", "overdue"}
  /\ owner' = "stopping"
  /\ UNCHANGED <<kind, phase, needs, caller, available, closed, idle, writer>>

(* The shut-down runtime drops a closure no thread has taken: its permit    *)
(* and its Arc go with it and its task is cancelled.                        *)
DropSpawned(c) ==
  /\ ~RuntimeAlive
  /\ phase[c] = "spawned"
  /\ GiveBackPermit(c, "over")
  /\ caller' = [caller EXCEPT ![c] = IF @ = "waiting" THEN "failed" ELSE @]
  /\ UNCHANGED <<kind, needs, closed, idle, writer, owner>>

(* It returns when every async task is gone, and every thread too or its    *)
(* 20 s are up.                                                             *)
RuntimeStopped ==
  /\ owner = "stopping"
  /\ \A c \in Calls : caller[c] # "waiting"
  /\ owner' = "stopped"
  /\ UNCHANGED <<kind, phase, needs, caller, available, closed, idle, writer>>

(* into_engine: Arc::try_unwrap succeeds when no closure has a clone. The   *)
(* reclaimed engine is dropped at once, which runs the final checkpoint.    *)
IntoEngine ==
  /\ owner = "stopped"
  /\ owner' = IF ArcHolders = {} THEN "reclaimed" ELSE "shared"
  /\ UNCHANGED <<kind, phase, needs, caller, available, closed, idle, writer>>

(* Everything is released and no closure is left. *)
Finished ==
  /\ owner \in {"reclaimed", "shared"}
  /\ ArcHolders = {}
  /\ UNCHANGED vars

-----------------------------------------------------------------------------

Caller(c) ==
  \/ \E k \in Kinds : Call(c, k)
  \/ Admit(c)
  \/ QueueTimeout(c)
  \/ Refuse(c)
  \/ DropCaller(c)

Closure(c) ==
  \/ StartClosure(c)
  \/ CheckoutReader(c)
  \/ ParkForReader(c)
  \/ CheckinReader(c)
  \/ LockWriter(c)
  \/ UnlockWriter(c)
  \/ FinishClosure(c)
  \/ PanicClosure(c)
  \/ UnwindClosure(c)
  \/ Complete(c)

Owner ==
  \/ CloseReads
  \/ CloseWrites
  \/ CountReads
  \/ CountWrites
  \/ ShutdownRuntime
  \/ RuntimeStopped
  \/ IntoEngine
  \/ Finished

Next ==
  \/ \E c \in Calls : Caller(c) \/ Closure(c) \/ DropSpawned(c)
  \/ Owner

Spec == Init /\ [][Next]_vars

-----------------------------------------------------------------------------
(* Properties. *)

(* Every variable keeps the shape the code gives it. *)
TypeOK ==
  /\ kind \in [Calls -> Kinds]
  /\ phase \in [Calls -> Phases]
  /\ needs \in [Calls -> Suffixes]
  /\ caller \in [Calls -> Replies \union {"waiting", "dropped"}]
  /\ available \in [Lanes -> Nat]
  /\ closed \subseteq Lanes
  /\ idle \in Nat
  /\ writer \in Calls \union {NoCall}
  /\ owner \in OwnerStages

(* No path through timeouts, dropped callers, panics, a closed semaphore or *)
(* a runtime shutdown leaks a permit or returns one twice: each lane's free *)
(* permits and the calls that hold one always add up to the lane's size, so *)
(* in_flight (storage.rs) counts exactly the calls that hold a permit.      *)
PermitsConserved ==
  \A l \in Lanes : available[l] + Cardinality(PermitHolders(l)) = MaxPermits(l)

(* Every reader connection is either at rest or in the hands of one closure,*)
(* a panicking or detached one included (PooledReader's Drop).              *)
ReadersConserved == idle + Cardinality(Readers) = ReaderSlots

(* The single write permit makes the writer mutex uncontended: while one    *)
(* closure holds it, no other closure is at the point of locking it, dry    *)
(* runs and maintenance included.                                           *)
WriterUncontended ==
  \A c \in Calls :
    /\ phase[c] = "running" /\ needs[c] # <<>> /\ Head(needs[c]) = "writer"
    => writer = NoCall

(* Once wait_idle has answered true nothing uses the database any more: no  *)
(* closure is spawned, running or holding a connection from then on, though *)
(* callers may still arrive on live connections.  This is what makes the    *)
(* final checkpoint of `serve` safe.                                        *)
IdleIsFinal == []((owner = "drained") => []NothingUsesTheDatabase)

(* The inductive strengthening: a closure holds the kind of connection it   *)
(* asked for, a closure of the read lane asks for readers only, and the     *)
(* writer mutex knows its holder.                                           *)
HoldsWhatItNeeds ==
  \A c \in Calls :
    /\ phase[c] \in {"reading", "parked"} => needs[c] # <<>> /\ Head(needs[c]) = "reader"
    /\ phase[c] = "writing" => needs[c] # <<>> /\ Head(needs[c]) = "writer"
    /\ Lane(c) = "read" => needs[c] \in {<<>>, <<"reader">>}

WriterIsHolder == \A c \in Calls : phase[c] = "writing" <=> writer = c

IndInv ==
  /\ TypeOK
  /\ HoldsWhatItNeeds
  /\ WriterIsHolder
  /\ PermitsConserved
  /\ ReadersConserved

(* Once its lane is closed no call is admitted: no closure is spawned, not  *)
(* even by a call the semaphore had already assigned a permit to.           *)
NoAdmissionAfterClose ==
  [][ \A c \in Calls :
        phase'[c] = "spawned" /\ Lane(c)' \in closed => phase[c] = "spawned" ]_vars

(* A refused call left no trace: a caller told "overloaded" or "shutting    *)
(* down" goes there from the queue, never from a closure that had started,  *)
(* so retrying it cannot repeat a write.                                    *)
RefusedNeverRan ==
  [][ \A c \in Calls :
        caller'[c] \in {"overloaded", "shutting_down"} /\ caller[c] = "waiting"
        => phase[c] \in {"queued", "granted"} ]_vars

(* A call in the queue of a full lane is answered: it gets a permit, is     *)
(* rejected after QUEUE_TIMEOUT or is told of the shutdown.                 *)
QueueAnswers ==
  \A c \in Calls : phase[c] \in {"queued", "granted"} ~> phase[c] \notin {"queued", "granted"}

(* Closing drains: every admitted closure ends, so in_flight reaches zero   *)
(* and stays there.  No closure of the read lane can starve the write       *)
(* lane's lookups of a reader for ever, nor the other way round.            *)
CloseDrains == (closed # {}) ~> [](\A l \in Lanes : InFlight(l) = 0)

(* A shutdown that is under way ends with the storage given up. *)
ShutdownEnds == (owner = "stopping") ~> (owner \in {"reclaimed", "shared"})

(* What admission control sees of a call: one that was assigned a permit    *)
(* still waits, one whose permit is given back has left.                    *)
Seen(p) ==
  IF p \in {"queued", "granted"} THEN "waiting"
  ELSE IF p \in ClosurePhases \union {"spawned"} THEN "inside"
  ELSE "outside"

SeenState == [c \in Calls |-> Seen(phase[c])]
SeenLane == [c \in Calls |-> Lane(c)]

Admission == INSTANCE AdmissionControl WITH
  Capacity <- [l \in Lanes |-> MaxPermits(l)],
  state <- SeenState,
  lane <- SeenLane

(* The facade implements plain admission control: per lane, no more calls   *)
(* inside than it has slots, and none let in once it is closed.             *)
ImplementsAdmission == Admission!Spec

(* What the reader pool is sized for (sqlite/engine.rs:29-32): with as many *)
(* read permits as connections, no admitted call queues on the pool's       *)
(* Condvar.                                                                 *)
AdmittedNeverParks == \A c \in Calls : phase[c] # "parked"

=============================================================================
