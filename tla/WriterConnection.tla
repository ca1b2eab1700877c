-------------------------- MODULE WriterConnection --------------------------
(***************************************************************************)
(* The writer connection of the database and the mutex around it           *)
(* (crates/infrastructure/src/sqlite/database.rs): writes in autocommit,   *)
(* dry runs inside a savepoint, maintenance, busy retries (support.rs),    *)
(* panics that poison the mutex, and failures of SQLite.                   *)
(*                                                                         *)
(* A call's data is the call itself: `committed` and `draft` are the calls *)
(* whose statement is in the database, or in the open transaction.  Lanes  *)
(* are left out (AsyncStorage): any number of threads want the mutex.      *)
(***************************************************************************)
EXTENDS Naturals, Sequences, FiniteSets

CONSTANTS
  Calls,       (* identities of calls; each is made once                    *)
  MaxAttempts, (* BUSY_MAX_ATTEMPTS                                         *)
  NoCall

ASSUME NoCallAssumption == NoCall \notin Calls
ASSUME MaxAttemptsAssumption == MaxAttempts \in Nat \ {0}

VARIABLES
  kind,       (* what each call does                                        *)
  stage,      (* where its thread is; see Stages                            *)
  attempts,   (* how often with_busy_retry has repeated its statement       *)
  answer,     (* the result it has so far                                   *)
  writer,     (* the call whose thread holds the mutex, or NoCall           *)
  poisoned,   (* the mutex was poisoned; nothing ever clears that           *)
  armed,      (* a progress handler with a deadline is installed            *)
  stack,      (* SQLite's savepoints: the draft when each of them was opened *)
  draft,      (* what the open transaction holds                            *)
  committed,  (* what the database holds                                    *)
  rollbackFailed  (* some rollback has failed with its transaction still    *)
                  (* open (history)                                         *)

connection == <<stack, draft, committed>>
vars == <<kind, stage, attempts, answer, writer, poisoned, armed, connection,
          rollbackFailed>>

Kinds == {"write", "dry_run", "maintenance"}

(* locking          waiting for the mutex                                  *)
(* savepoint        a dry run about to open its savepoint                  *)
(* lookup           a dry run about to look identifiers up                 *)
(* statement        about to execute the statement that writes             *)
(* unlocking        a live write about to drop its WriteGuard              *)
(* mapping          the rest of the closure, past the repository           *)
(* rollback         a dry run whose closure has returned                   *)
(* pragma           maintenance                                            *)
Stages == { "idle", "locking", "savepoint", "lookup", "statement", "unlocking",
            "mapping", "rollback", "pragma", "done" }
Answers == {"none", "applied", "refused", "failed", "panicked"}

TypeOK ==
  /\ kind \in [Calls -> Kinds]
  /\ stage \in [Calls -> Stages]
  /\ attempts \in [Calls -> 0..(MaxAttempts - 1)]
  /\ answer \in [Calls -> Answers]
  /\ writer \in Calls \union {NoCall}
  /\ poisoned \in BOOLEAN
  /\ armed \in BOOLEAN
  /\ stack \in Seq(SUBSET Calls)
  /\ draft \subseteq Calls
  /\ committed \subseteq Calls
  /\ rollbackFailed \in BOOLEAN

Init ==
  /\ kind = [c \in Calls |-> "write"]
  /\ stage = [c \in Calls |-> "idle"]
  /\ attempts = [c \in Calls |-> 0]
  /\ answer = [c \in Calls |-> "none"]
  /\ writer = NoCall
  /\ poisoned = FALSE
  /\ armed = FALSE
  /\ stack = <<>>
  /\ draft = {}
  /\ committed = {}
  /\ rollbackFailed = FALSE

-----------------------------------------------------------------------------
(* SQLite.  Without an open savepoint the connection is in autocommit.     *)

Autocommit == stack = <<>>

(* A statement that writes. *)
Write(c) ==
  /\ IF Autocommit THEN committed' = committed \union {c} /\ UNCHANGED draft
                   ELSE draft' = draft \union {c} /\ UNCHANGED committed
  /\ UNCHANGED stack

(* ROLLBACK, or what an interrupt, an I/O error or a full disk makes SQLite *)
(* do by itself: every savepoint goes and autocommit is back.               *)
RollbackAll ==
  /\ stack' = <<>>
  /\ draft' = {}
  /\ UNCHANGED committed

(* RELEASE of the innermost savepoint, with this draft; the outermost one   *)
(* commits.                                                                 *)
Release(changes) ==
  /\ stack' = SubSeq(stack, 1, Len(stack) - 1)
  /\ IF Len(stack) = 1
     THEN committed' = committed \union changes /\ draft' = {}
     ELSE draft' = changes /\ UNCHANGED committed

-----------------------------------------------------------------------------
Goto(c, s) == stage' = [stage EXCEPT ![c] = s]
Result(c, a) == answer' = [answer EXCEPT ![c] = a]

(* The guard goes: the mutex is free. *)
Leave == writer' = NoCall /\ armed' = FALSE

Call(c, k) ==
  /\ stage[c] = "idle"
  /\ kind' = [kind EXCEPT ![c] = k]
  /\ Goto(c, "locking")
  /\ UNCHANGED <<attempts, answer, writer, poisoned, armed, connection, rollbackFailed>>

(* Seeded bug: a poisoned mutex is taken as it is. *)
RecoverNothing == UNCHANGED <<connection, rollbackFailed>>

(* What lock_writer does about a transaction a panic has left behind; a     *)
(* ROLLBACK that fails is logged and that is all.                           *)
Recover ==
  IF poisoned /\ ~Autocommit
  THEN \/ RollbackAll /\ UNCHANGED rollbackFailed
       \/ rollbackFailed' = TRUE /\ UNCHANGED connection
  ELSE UNCHANGED <<connection, rollbackFailed>>

(* lock_writer, and DbHandle::write's deadline for a live write. *)
LockWriter(c) ==
  /\ stage[c] = "locking"
  /\ writer = NoCall
  /\ writer' = c
  /\ Recover
  /\ armed' = (armed \/ kind[c] = "write")
  /\ Goto(c, CASE kind[c] = "write" -> "statement"
               [] kind[c] = "dry_run" -> "savepoint"
               [] kind[c] = "maintenance" -> "pragma")
  /\ UNCHANGED <<kind, attempts, answer, poisoned>>

(* run_maintenance: PRAGMA optimize and a passive checkpoint. *)
Maintain(c) ==
  /\ stage[c] = "pragma"
  /\ \E a \in {"applied", "failed"} : Result(c, a)
  /\ Leave
  /\ Goto(c, "done")
  /\ UNCHANGED <<kind, attempts, poisoned, connection, rollbackFailed>>

OpenSavepoint(c) ==
  /\ stage[c] = "savepoint"
  /\ \/ /\ stack' = Append(stack, draft)
        /\ Goto(c, "lookup")
        /\ UNCHANGED <<answer, writer, armed, draft, committed>>
     \/ /\ Result(c, "failed")
        /\ Leave
        /\ Goto(c, "done")
        /\ UNCHANGED connection
  /\ UNCHANGED <<kind, attempts, poisoned, rollbackFailed>>

(* The lookups of a dry run, each with a deadline of its own that its       *)
(* ReadGuard takes away; a failure ends the closure.                        *)
Lookup(c) ==
  /\ stage[c] = "lookup"
  /\ armed' = FALSE
  /\ \/ Goto(c, "statement") /\ UNCHANGED <<answer, connection>>
     \/ /\ \E a \in {"refused", "failed"} : Result(c, a)
        /\ Goto(c, "mapping")
        /\ UNCHANGED connection
     \/ Result(c, "failed") /\ Goto(c, "mapping") /\ RollbackAll
  /\ UNCHANGED <<kind, attempts, writer, poisoned, rollbackFailed>>

(* The statement is over, whatever came of it: a live write still has its   *)
(* guard, the borrowed guard of a dry run takes its deadline away.          *)
EndStatement(c, a) ==
  /\ Result(c, a)
  /\ Goto(c, IF kind[c] = "write" THEN "unlocking" ELSE "mapping")
  /\ armed' = (armed /\ kind[c] = "write")
  /\ UNCHANGED <<kind, attempts, writer, poisoned, rollbackFailed>>

Execute(c) ==
  /\ stage[c] = "statement"
  /\ EndStatement(c, "applied")
  /\ Write(c)

(* No row matched, or a constraint refused it. *)
ExecuteRefused(c) ==
  /\ stage[c] = "statement"
  /\ EndStatement(c, "refused")
  /\ UNCHANGED connection

(* Seeded bug: the attempts are not counted. *)
RetryForever(c) ==
  /\ stage[c] = "statement"
  /\ IF kind[c] = "write"
     THEN Goto(c, "locking") /\ Leave
     ELSE UNCHANGED <<stage, writer, armed>>
  /\ UNCHANGED <<kind, attempts, answer, poisoned, connection, rollbackFailed>>

(* Another process has the database: with_busy_retry drops the guard,       *)
(* sleeps and starts over, a dry run with its savepoint still open.         *)
Retry(c) ==
  /\ stage[c] = "statement"
  /\ attempts[c] + 1 < MaxAttempts
  /\ attempts' = [attempts EXCEPT ![c] = @ + 1]
  /\ IF kind[c] = "write"
     THEN Goto(c, "locking") /\ Leave
     ELSE UNCHANGED <<stage, writer, armed>>
  /\ UNCHANGED <<kind, answer, poisoned, connection, rollbackFailed>>

GiveUp(c) ==
  /\ stage[c] = "statement"
  /\ attempts[c] + 1 >= MaxAttempts
  /\ EndStatement(c, "failed")
  /\ UNCHANGED connection

(* Seeded bug: with_busy_retry repeats whatever failed. *)
InterruptRetried(c) ==
  /\ stage[c] = "statement"
  /\ attempts[c] + 1 < MaxAttempts
  /\ attempts' = [attempts EXCEPT ![c] = @ + 1]
  /\ RollbackAll
  /\ UNCHANGED <<kind, stage, answer, writer, poisoned, armed, rollbackFailed>>

(* The deadline passes, or the disk fails: SQLite undoes the statement and  *)
(* with it the whole transaction.                                           *)
Interrupt(c) ==
  /\ stage[c] = "statement"
  /\ EndStatement(c, "failed")
  /\ RollbackAll

(* Seeded bug: the mutex is released with the deadline still installed. *)
UnlockArmed(c) ==
  /\ stage[c] = "unlocking"
  /\ writer' = NoCall
  /\ Goto(c, "mapping")
  /\ UNCHANGED <<kind, attempts, answer, poisoned, armed, connection, rollbackFailed>>

(* WriteGuard::drop, then its MutexGuard's. *)
Unlock(c) ==
  /\ stage[c] = "unlocking"
  /\ Leave
  /\ Goto(c, "mapping")
  /\ UNCHANGED <<kind, attempts, answer, poisoned, connection, rollbackFailed>>

(* The closure returns; Database::dry_run goes on with its rollback. *)
Conclude(c) ==
  /\ stage[c] = "mapping"
  /\ Goto(c, IF kind[c] = "dry_run" THEN "rollback" ELSE "done")
  /\ UNCHANGED <<kind, attempts, answer, writer, poisoned, armed, connection,
                 rollbackFailed>>

(* A panic in the closure drops the guard it holds, which poisons the mutex *)
(* and leaves the savepoint of a dry run open.                              *)
Panic(c) ==
  /\ stage[c] \in {"lookup", "statement", "mapping"}
  /\ Result(c, "panicked")
  /\ Goto(c, "done")
  /\ IF writer = c
     THEN Leave /\ poisoned' = TRUE
     ELSE UNCHANGED <<writer, armed, poisoned>>
  /\ UNCHANGED <<kind, attempts, connection, rollbackFailed>>

(* Both statements fail when SQLite has already rolled back.                *)
EndDryRun(c) ==
  /\ stage[c] = "rollback"
  /\ Leave
  /\ Goto(c, "done")
  /\ UNCHANGED <<kind, attempts, answer, poisoned>>

(* ROLLBACK TO valqeron_dry_run; RELEASE valqeron_dry_run. *)
RollbackDryRun(c) ==
  /\ EndDryRun(c)
  /\ IF Autocommit THEN UNCHANGED connection ELSE Release(stack[Len(stack)])
  /\ UNCHANGED rollbackFailed

(* One of the two fails with the savepoint still there, and the plain       *)
(* RELEASE that follows succeeds, or fails as well.                         *)
RollbackDryRunFails(c) ==
  /\ EndDryRun(c)
  /\ ~Autocommit
  /\ \/ Release(draft)
     \/ UNCHANGED connection
     \/ draft' = stack[Len(stack)] /\ UNCHANGED <<stack, committed>>
  /\ rollbackFailed' = TRUE

-----------------------------------------------------------------------------
(* What the thread of a call does, panics aside. *)
Step(c) ==
  \/ LockWriter(c) \/ Maintain(c) \/ OpenSavepoint(c) \/ Lookup(c)
  \/ Execute(c) \/ ExecuteRefused(c) \/ Retry(c) \/ GiveUp(c) \/ Interrupt(c)
  \/ Unlock(c) \/ Conclude(c) \/ RollbackDryRun(c) \/ RollbackDryRunFails(c)

(* Everybody has been answered. *)
AllDone == (\A c \in Calls : stage[c] = "done") /\ UNCHANGED vars

Next ==
  \/ \E c \in Calls : (\E k \in Kinds : Call(c, k)) \/ Step(c) \/ Panic(c)
  \/ AllDone

Spec == Init /\ [][Next]_vars

(* Threads run; a mutex that stays free is taken. *)
FairSpec == Spec /\ \A c \in Calls : WF_vars(Step(c))

-----------------------------------------------------------------------------
(* A dry run leaves nothing in the database, however it ends: with a busy   *)
(* retry, an interrupt that takes its savepoint away under it, a panic, or  *)
(* a successor that finds its savepoint open.  Rollbacks that fail are      *)
(* excepted.                                                                *)
DryRunsLeaveNothing ==
  ~rollbackFailed => \A c \in committed : kind[c] = "write"

(* An answer is true: a write that was applied is committed, not left in a  *)
(* transaction somebody will roll back, and one that failed is not there,   *)
(* so that repeating it is safe.  A panic leaves it open.                   *)
AnswersAreTrue ==
  ~rollbackFailed =>
    \A c \in Calls : kind[c] = "write" /\ stage[c] = "done" =>
      /\ answer[c] = "applied" => c \in committed
      /\ answer[c] \in {"refused", "failed"} => c \notin committed

(* The deadline of one operation never interrupts another: there is none    *)
(* when a dry run opens its savepoint or rolls back, nor during maintenance.*)
NoInheritedDeadline ==
  \A c \in Calls : stage[c] \in {"savepoint", "lookup", "rollback", "pragma"} => ~armed

(* Every call gets its answer; a poisoned mutex blocks nobody. *)
CallsEnd == \A c \in Calls : stage[c] = "locking" ~> stage[c] = "done"

(* "dry run must not persist" (engine/src/storage.rs), without exception. *)
DryRunsNeverPersist == \A c \in committed : kind[c] # "dry_run"

-----------------------------------------------------------------------------
(* The strengthening behind the theorems of WriterConnection_proofs: the   *)
(* mutex knows its holder, a stage tells what the call does, a deadline    *)
(* belongs to the live write that holds the mutex, and unless a rollback   *)
(* failed a transaction is the holder's dry run, or one that a panic left. *)
Holds(c) ==
  \/ stage[c] \in {"savepoint", "lookup", "statement", "unlocking", "rollback", "pragma"}
  \/ stage[c] = "mapping" /\ kind[c] = "dry_run"

HolderKnown == \A c \in Calls : Holds(c) <=> writer = c

StageTellsKind ==
  \A c \in Calls :
    /\ stage[c] \in {"savepoint", "lookup", "rollback"} => kind[c] = "dry_run"
    /\ stage[c] \in {"idle", "unlocking"} => kind[c] = "write"
    /\ stage[c] = "pragma" => kind[c] = "maintenance"
    /\ stage[c] \in {"statement", "mapping"} => kind[c] # "maintenance"
    /\ stage[c] \in {"idle", "locking", "savepoint", "lookup", "statement"} => answer[c] = "none"

DeadlineOfWriter == armed => writer # NoCall /\ kind[writer] = "write"

TransactionKnown ==
  ~rollbackFailed =>
    /\ stack \in {<<>>, <<{}>>}
    /\ writer = NoCall /\ stack # <<>> => poisoned
    /\ \A c \in Calls :
         /\ stage[c] \in {"savepoint", "unlocking", "pragma"} => stack = <<>>
         /\ stage[c] = "lookup" => stack = <<{}>>
         /\ stage[c] = "statement" => stack = IF kind[c] = "write" THEN <<>> ELSE <<{}>>

DraftKnown == ~rollbackFailed /\ stack = <<>> => draft = {}

AnswersKnown ==
  ~rollbackFailed =>
    \A c \in Calls : kind[c] = "write" /\ answer[c] # "panicked" =>
      (answer[c] = "applied" <=> c \in committed)

IndInv ==
  /\ TypeOK
  /\ HolderKnown
  /\ StageTellsKind
  /\ DeadlineOfWriter
  /\ TransactionKnown
  /\ DraftKnown
  /\ AnswersKnown
  /\ DryRunsLeaveNothing

=============================================================================
