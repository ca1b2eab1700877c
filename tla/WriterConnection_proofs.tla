----------------------- MODULE WriterConnection_proofs -----------------------
(***************************************************************************)
(* Proofs about the two halves of database.rs: WriterConnection, for any   *)
(* set of calls and any number of attempts, and WaitPool, for any threads  *)
(* and connections.                                                        *)
(***************************************************************************)
EXTENDS WriterConnection, WaitPool, FiniteSetTheorems, TLAPS

USE NoCallAssumption, MaxAttemptsAssumption
    DEF IndInv, TypeOK, HolderKnown, Holds, StageTellsKind, DeadlineOfWriter,
        TransactionKnown, DraftKnown, AnswersKnown, DryRunsLeaveNothing,
        Kinds, Stages, Answers, Autocommit, connection, Goto, Result

(* Savepoints are opened and released at the end of the stack. *)
LEMMA StackTypes ==
  ASSUME NEW s \in Seq(SUBSET Calls), NEW d \in SUBSET Calls
  PROVE  /\ <<>> \in Seq(SUBSET Calls)
         /\ Append(s, d) \in Seq(SUBSET Calls)
         /\ s # <<>> => s[Len(s)] \in SUBSET Calls
         /\ s # <<>> => SubSeq(s, 1, Len(s) - 1) \in Seq(SUBSET Calls)
  OBVIOUS

(* The one savepoint of a dry run, opened over nothing. *)
LEMMA OneSavepoint ==
  /\ <<{}>> # <<>>
  /\ Append(<<>>, {}) = <<{}>>
  /\ Len(<<{}>>) = 1 /\ <<{}>>[1] = {}
  /\ SubSeq(<<{}>>, 1, 0) = <<>>
  OBVIOUS

(* Recovery empties what a panic left before the next holder goes on. *)
LEMMA LockWriterStep == ASSUME IndInv, NEW c \in Calls, LockWriter(c) PROVE IndInv'
  <1> USE DEF LockWriter, Recover, RollbackAll
  <1>1. TypeOK'
    <2>1. stack' \in Seq(SUBSET Calls) /\ draft' \subseteq Calls /\ committed' \subseteq Calls
      BY StackTypes
    <2>2. QED  BY <2>1
  <1>2. HolderKnown'  OBVIOUS
  <1>3. StageTellsKind'  OBVIOUS
  <1>4. DeadlineOfWriter'  OBVIOUS
  <1>5. TransactionKnown'  OBVIOUS
  <1>6. DraftKnown'  OBVIOUS
  <1>7. AnswersKnown'  OBVIOUS
  <1>8. DryRunsLeaveNothing'  OBVIOUS
  <1>9. QED  BY <1>1, <1>2, <1>3, <1>4, <1>5, <1>6, <1>7, <1>8

(* Maintenance touches nothing but the mutex. *)
LEMMA MaintainStep == ASSUME IndInv, NEW c \in Calls, Maintain(c) PROVE IndInv'
  <1>1. kind[c] = "maintenance" /\ writer = c
    BY DEF Maintain
  <1>2. PICK a \in {"applied", "failed"} : answer' = [answer EXCEPT ![c] = a]
    BY DEF Maintain
  <1> USE DEF Maintain, Leave
  <1>3. AnswersKnown'  BY <1>1, <1>2
  <1>4. TypeOK' /\ HolderKnown' /\ StageTellsKind'  BY <1>1, <1>2
  <1>5. DeadlineOfWriter' /\ TransactionKnown' /\ DraftKnown' /\ DryRunsLeaveNothing'
    BY <1>1, <1>2
  <1>6. QED  BY <1>3, <1>4, <1>5

(* A savepoint is opened over an empty stack. *)
LEMMA OpenSavepointStep == ASSUME IndInv, NEW c \in Calls, OpenSavepoint(c) PROVE IndInv'
  <1> USE DEF OpenSavepoint, Leave
  <1>1. TypeOK'
    <2>1. Append(stack, draft) \in Seq(SUBSET Calls)  BY StackTypes
    <2>2. stack' \in Seq(SUBSET Calls)  BY <2>1
    <2>3. draft' \subseteq Calls /\ committed' \subseteq Calls  OBVIOUS
    <2>4. QED  BY <2>2, <2>3
  <1>2. HolderKnown'
    <2>1. kind[c] = "dry_run" /\ writer = c  OBVIOUS
    <2>2. CASE stage' = [stage EXCEPT ![c] = "lookup"] /\ UNCHANGED <<writer, kind>>
      BY <2>1, <2>2
    <2>3. CASE stage' = [stage EXCEPT ![c] = "done"] /\ writer' = NoCall /\ kind' = kind
      BY <2>1, <2>3
    <2>4. QED  BY <2>2, <2>3
  <1>3. TransactionKnown'
    <2>1. ~rollbackFailed => stack = <<>> /\ draft = {}  OBVIOUS
    <2>2. writer = c /\ \A d \in Calls : Holds(d) => d = c  OBVIOUS
    <2>3. CASE stack' = Append(stack, draft) /\ stage' = [stage EXCEPT ![c] = "lookup"]
      <3>1. ~rollbackFailed => stack' = <<{}>>  BY <2>1, <2>3, OneSavepoint
      <3>2. writer' = writer /\ UNCHANGED <<kind, rollbackFailed>>  BY <2>3
      <3>3. \A d \in Calls \ {c} : stage'[d] = stage[d] /\ ~Holds(d)  BY <2>2, <2>3
      <3>4. stage'[c] = "lookup" /\ kind[c] = "dry_run"  BY <2>3
      <3>5. ASSUME NEW d \in Calls \ {c}
            PROVE  stage'[d] \notin {"savepoint", "unlocking", "pragma", "lookup", "statement"}
        BY <3>3
      <3>6. writer' # NoCall  BY <2>2, <3>2
      <3>7. QED  BY <3>1, <3>4, <3>5, <3>6
    <2>4. CASE stack' = stack /\ stage' = [stage EXCEPT ![c] = "done"]
      BY <2>1, <2>2, <2>4
    <2>5. QED  BY <2>3, <2>4
  <1>4. StageTellsKind'  OBVIOUS
  <1>5. DeadlineOfWriter'
    <2>1. kind[c] = "dry_run" /\ writer = c /\ kind' = kind  OBVIOUS
    <2>2. armed = FALSE  BY <2>1
    <2>3. armed' = FALSE  BY <2>2
    <2>4. QED  BY <2>3
  <1>6. DraftKnown'  OBVIOUS
  <1>7. AnswersKnown'
    <2>1. kind[c] = "dry_run" /\ UNCHANGED <<kind, committed, rollbackFailed>>  OBVIOUS
    <2>2. \A d \in Calls \ {c} : answer'[d] = answer[d]  OBVIOUS
    <2>3. AnswersKnown  OBVIOUS
    <2> HIDE DEF IndInv, OpenSavepoint
    <2>4. QED  BY <2>1, <2>2, <2>3
  <1>8. DryRunsLeaveNothing'  OBVIOUS
  <1>9. QED  BY <1>1, <1>2, <1>3, <1>4, <1>5, <1>6, <1>7, <1>8

(* A lookup may lose the savepoint, and then ends the closure. *)
LEMMA LookupStep == ASSUME IndInv, NEW c \in Calls, Lookup(c) PROVE IndInv'
  <1> USE DEF Lookup, RollbackAll
  <1>1. TypeOK'
    <2>1. stack' \in Seq(SUBSET Calls) /\ draft' \subseteq Calls /\ committed' \subseteq Calls
      BY StackTypes
    <2>2. stage' \in [Calls -> Stages]  OBVIOUS
    <2>3. answer' \in [Calls -> Answers]  OBVIOUS
    <2>4. QED  BY <2>1, <2>2, <2>3
  <1>2. HolderKnown'  OBVIOUS
  <1>3. StageTellsKind'  OBVIOUS
  <1>4. DeadlineOfWriter'  OBVIOUS
  <1>5. TransactionKnown'  OBVIOUS
  <1>6. DraftKnown'  OBVIOUS
  <1>7. AnswersKnown'  OBVIOUS
  <1>8. DryRunsLeaveNothing'  OBVIOUS
  <1>9. QED  BY <1>1, <1>2, <1>3, <1>4, <1>5, <1>6, <1>7, <1>8

(* A write commits its statement, a dry run keeps it in its savepoint. *)
LEMMA ExecuteStep == ASSUME IndInv, NEW c \in Calls, Execute(c) PROVE IndInv'
  <1> USE DEF Execute, EndStatement, Write
  <1>1. DryRunsLeaveNothing'
    <2>1. CASE kind[c] = "write"  BY <2>1
    <2>2. CASE kind[c] # "write"
      <3>1. ~rollbackFailed => committed' = committed  BY <2>2, OneSavepoint
      <3>2. QED  BY <3>1
    <2>3. QED  BY <2>1, <2>2
  <1>2. TypeOK'  OBVIOUS
  <1>3. HolderKnown'  OBVIOUS
  <1>4. StageTellsKind'  OBVIOUS
  <1>5. DeadlineOfWriter'  OBVIOUS
  <1>6. TransactionKnown'  OBVIOUS
  <1>7. DraftKnown'  OBVIOUS
  <1>8. AnswersKnown'  OBVIOUS
  <1>9. QED  BY <1>1, <1>2, <1>3, <1>4, <1>5, <1>6, <1>7, <1>8

(* A refused statement changes nothing. *)
LEMMA ExecuteRefusedStep == ASSUME IndInv, NEW c \in Calls, ExecuteRefused(c) PROVE IndInv'
  <1> USE DEF ExecuteRefused, EndStatement
  <1>1. TypeOK'  OBVIOUS
  <1>2. HolderKnown'  OBVIOUS
  <1>3. StageTellsKind'  OBVIOUS
  <1>4. DeadlineOfWriter'  OBVIOUS
  <1>5. TransactionKnown'  OBVIOUS
  <1>6. DraftKnown'  OBVIOUS
  <1>7. AnswersKnown'  OBVIOUS
  <1>8. DryRunsLeaveNothing'  OBVIOUS
  <1>9. QED  BY <1>1, <1>2, <1>3, <1>4, <1>5, <1>6, <1>7, <1>8

(* A retry keeps the savepoint of a dry run, or gives the mutex back. *)
LEMMA RetryStep == ASSUME IndInv, NEW c \in Calls, Retry(c) PROVE IndInv'
  <1> USE DEF Retry, Leave
  <1>1. TypeOK'
    <2>1. attempts[c] + 1 \in 0..(MaxAttempts - 1)  OBVIOUS
    <2>2. attempts' \in [Calls -> 0..(MaxAttempts - 1)]  BY <2>1
    <2>3. QED  BY <2>2
  <1>2. HolderKnown'  OBVIOUS
  <1>3. StageTellsKind'  OBVIOUS
  <1>4. DeadlineOfWriter'  OBVIOUS
  <1>5. TransactionKnown'  OBVIOUS
  <1>6. DraftKnown'  OBVIOUS
  <1>7. AnswersKnown'  OBVIOUS
  <1>8. DryRunsLeaveNothing'  OBVIOUS
  <1>9. QED  BY <1>1, <1>2, <1>3, <1>4, <1>5, <1>6, <1>7, <1>8

(* The last attempt fails without a trace. *)
LEMMA GiveUpStep == ASSUME IndInv, NEW c \in Calls, GiveUp(c) PROVE IndInv'
  <1> USE DEF GiveUp, EndStatement
  <1>1. TypeOK'  OBVIOUS
  <1>2. HolderKnown'  OBVIOUS
  <1>3. StageTellsKind'  OBVIOUS
  <1>4. DeadlineOfWriter'  OBVIOUS
  <1>5. TransactionKnown'  OBVIOUS
  <1>6. DraftKnown'  OBVIOUS
  <1>7. AnswersKnown'  OBVIOUS
  <1>8. DryRunsLeaveNothing'  OBVIOUS
  <1>9. QED  BY <1>1, <1>2, <1>3, <1>4, <1>5, <1>6, <1>7, <1>8

(* An interrupt ends statement, transaction and closure together. *)
LEMMA InterruptStep == ASSUME IndInv, NEW c \in Calls, Interrupt(c) PROVE IndInv'
  <1> USE DEF Interrupt, EndStatement, RollbackAll
  <1>1. TypeOK'  OBVIOUS
  <1>2. HolderKnown'  OBVIOUS
  <1>3. StageTellsKind'  OBVIOUS
  <1>4. DeadlineOfWriter'  OBVIOUS
  <1>5. TransactionKnown'  OBVIOUS
  <1>6. DraftKnown'  OBVIOUS
  <1>7. AnswersKnown'  OBVIOUS
  <1>8. DryRunsLeaveNothing'  OBVIOUS
  <1>9. QED  BY <1>1, <1>2, <1>3, <1>4, <1>5, <1>6, <1>7, <1>8

(* The guard of a write takes its deadline with it. *)
LEMMA UnlockStep == ASSUME IndInv, NEW c \in Calls, Unlock(c) PROVE IndInv'
  <1> USE DEF Unlock, Leave
  <1>1. TypeOK'  OBVIOUS
  <1>2. HolderKnown'  OBVIOUS
  <1>3. StageTellsKind'  OBVIOUS
  <1>4. DeadlineOfWriter'  OBVIOUS
  <1>5. TransactionKnown'  OBVIOUS
  <1>6. DraftKnown'  OBVIOUS
  <1>7. AnswersKnown'  OBVIOUS
  <1>8. DryRunsLeaveNothing'  OBVIOUS
  <1>9. QED  BY <1>1, <1>2, <1>3, <1>4, <1>5, <1>6, <1>7, <1>8

(* The closure returns. *)
LEMMA ConcludeStep == ASSUME IndInv, NEW c \in Calls, Conclude(c) PROVE IndInv'
  <1> USE DEF Conclude
  <1>1. TypeOK'  OBVIOUS
  <1>2. HolderKnown'  OBVIOUS
  <1>3. StageTellsKind'  OBVIOUS
  <1>4. DeadlineOfWriter'  OBVIOUS
  <1>5. TransactionKnown'  OBVIOUS
  <1>6. DraftKnown'  OBVIOUS
  <1>7. AnswersKnown'  OBVIOUS
  <1>8. DryRunsLeaveNothing'  OBVIOUS
  <1>9. QED  BY <1>1, <1>2, <1>3, <1>4, <1>5, <1>6, <1>7, <1>8

(* The rollback leaves the draft of before the savepoint: nothing. *)
LEMMA RollbackDryRunStep == ASSUME IndInv, NEW c \in Calls, RollbackDryRun(c) PROVE IndInv'
  <1> USE DEF RollbackDryRun, EndDryRun, Leave, Release
  <1>1. TypeOK'
    <2>1. stack' \in Seq(SUBSET Calls) /\ draft' \subseteq Calls /\ committed' \subseteq Calls
      BY StackTypes
    <2>2. QED  BY <2>1
  <1>2. HolderKnown'  OBVIOUS
  <1>3. StageTellsKind'  OBVIOUS
  <1>4. DeadlineOfWriter'  OBVIOUS
  <1>5. TransactionKnown'  OBVIOUS
  <1>6. DraftKnown'  OBVIOUS
  <1>7. AnswersKnown'  OBVIOUS
  <1>8. DryRunsLeaveNothing'  OBVIOUS
  <1>9. QED  BY <1>1, <1>2, <1>3, <1>4, <1>5, <1>6, <1>7, <1>8

(* A failed rollback voids the promises that depend on it. *)
LEMMA RollbackDryRunFailsStep ==
  ASSUME IndInv, NEW c \in Calls, RollbackDryRunFails(c) PROVE IndInv'
  <1> USE DEF RollbackDryRunFails, EndDryRun, Leave, Release
  <1>1. TypeOK'
    <2>1. stack' \in Seq(SUBSET Calls) /\ draft' \subseteq Calls /\ committed' \subseteq Calls
      BY StackTypes
    <2>2. QED  BY <2>1
  <1>2. HolderKnown'  OBVIOUS
  <1>3. StageTellsKind'  OBVIOUS
  <1>4. DeadlineOfWriter'  OBVIOUS
  <1>5. TransactionKnown'  OBVIOUS
  <1>6. DraftKnown'  OBVIOUS
  <1>7. AnswersKnown'  OBVIOUS
  <1>8. DryRunsLeaveNothing'  OBVIOUS
  <1>9. QED  BY <1>1, <1>2, <1>3, <1>4, <1>5, <1>6, <1>7, <1>8

(* A panic leaves a transaction only behind a poisoned mutex. *)
LEMMA PanicStep == ASSUME IndInv, NEW c \in Calls, Panic(c) PROVE IndInv'
  <1> USE DEF Panic, Leave
  <1>1. TypeOK'  OBVIOUS
  <1>2. HolderKnown'  OBVIOUS
  <1>3. StageTellsKind'  OBVIOUS
  <1>4. DeadlineOfWriter'  OBVIOUS
  <1>5. TransactionKnown'  OBVIOUS
  <1>6. DraftKnown'  OBVIOUS
  <1>7. AnswersKnown'  OBVIOUS
  <1>8. DryRunsLeaveNothing'  OBVIOUS
  <1>9. QED  BY <1>1, <1>2, <1>3, <1>4, <1>5, <1>6, <1>7, <1>8

(* The other steps of a call, and the start of one. *)
LEMMA CallStep ==
  ASSUME IndInv, NEW c \in Calls, NEW k \in Kinds, Call(c, k) PROVE IndInv'
  <1> USE DEF Call
  <1>1. TypeOK'  OBVIOUS
  <1>2. HolderKnown'  OBVIOUS
  <1>3. StageTellsKind'  OBVIOUS
  <1>4. DeadlineOfWriter'  OBVIOUS
  <1>5. TransactionKnown'  OBVIOUS
  <1>6. DraftKnown'  OBVIOUS
  <1>7. AnswersKnown'  OBVIOUS
  <1>8. DryRunsLeaveNothing'  OBVIOUS
  <1>9. QED  BY <1>1, <1>2, <1>3, <1>4, <1>5, <1>6, <1>7, <1>8

(* The invariant holds initially. *)
LEMMA InitInv == Init => IndInv
  <1> SUFFICES ASSUME Init PROVE IndInv
    OBVIOUS
  <1> USE DEF Init
  <1>1. stack \in Seq(SUBSET Calls)  OBVIOUS
  <1>2. attempts \in [Calls -> 0..(MaxAttempts - 1)]  OBVIOUS
  <1>3. TypeOK  BY <1>1, <1>2
  <1>4. HolderKnown /\ StageTellsKind /\ DeadlineOfWriter  OBVIOUS
  <1>5. TransactionKnown /\ DraftKnown /\ AnswersKnown /\ DryRunsLeaveNothing  OBVIOUS
  <1>6. QED  BY <1>3, <1>4, <1>5

(* The invariant is inductive: mutex, stage, deadline, transaction and      *)
(* answers keep agreeing through retries, interrupts, panics and recovery.  *)
THEOREM Invariance == Spec => []IndInv
  <1>1. IndInv /\ [Next]_vars => IndInv'
    <2> SUFFICES ASSUME IndInv, [Next]_vars PROVE IndInv'
      OBVIOUS
    <2>1. CASE UNCHANGED vars
      BY <2>1 DEF vars
    <2>2. ASSUME NEW c \in Calls, Step(c) PROVE IndInv'
      BY <2>2, LockWriterStep, MaintainStep, OpenSavepointStep, LookupStep, ExecuteStep,
         ExecuteRefusedStep, RetryStep, GiveUpStep, InterruptStep, UnlockStep, ConcludeStep,
         RollbackDryRunStep, RollbackDryRunFailsStep
         DEF Step
    <2>3. ASSUME NEW c \in Calls, Panic(c) PROVE IndInv'
      BY <2>3, PanicStep
    <2>4. ASSUME NEW c \in Calls, NEW k \in Kinds, Call(c, k) PROVE IndInv'
      BY <2>4, CallStep
    <2>5. QED  BY <2>1, <2>2, <2>3, <2>4 DEF Next, AllDone
  <1>2. QED  BY <1>1, InitInv, PTL DEF Spec

(* Every variable keeps its type; no statement is tried more often than     *)
(* with_busy_retry allows.                                                  *)
THEOREM Typing == Spec => []TypeOK
  <1>1. IndInv => TypeOK  OBVIOUS
  <1>2. QED  BY <1>1, Invariance, PTL

(* Unless a rollback failed, nothing of a dry run is ever in the database,  *)
(* whatever interrupts it or panics in it.                                  *)
THEOREM DryRunsAreDry == Spec => []DryRunsLeaveNothing
  <1>1. IndInv => DryRunsLeaveNothing  OBVIOUS
  <1>2. QED  BY <1>1, Invariance, PTL

(* Unless a rollback failed, a write answered as applied is committed, and  *)
(* one answered as refused or failed is not.                                *)
THEOREM AnswersTold == Spec => []AnswersAreTrue
  <1>1. IndInv => AnswersAreTrue  BY DEF AnswersAreTrue
  <1>2. QED  BY <1>1, Invariance, PTL

(* No operation runs under the deadline of an earlier one. *)
THEOREM DeadlinesEnd == Spec => []NoInheritedDeadline
  <1>1. IndInv => NoInheritedDeadline  BY DEF NoInheritedDeadline
  <1>2. QED  BY <1>1, Invariance, PTL

-----------------------------------------------------------------------------
(* WaitPool. *)

(* What the places of threads count. *)
LEMMA PlaceCounts ==
  ASSUME NEW p
  PROVE  IsFiniteSet(At(p)) /\ Cardinality(At(p)) \in Nat
  <1>1. At(p) \subseteq Threads  BY DEF At
  <1>2. IsFiniteSet(At(p))  BY <1>1, ThreadsAssumption, FS_Subset
  <1>3. QED  BY <1>2, FS_CardinalityType

(* One thread goes from one place to another. *)
LEMMA OneMoved ==
  ASSUME PoolTypeOK, NEW t \in Threads, NEW q \in Places, NEW p \in Places,
         place[t] = q, p # q, place' = [place EXCEPT ![t] = p]
  PROVE  /\ place' \in [Threads -> Places]
         /\ Cardinality(At(q)') = Cardinality(At(q)) - 1
         /\ Cardinality(At(p)') = Cardinality(At(p)) + 1
         /\ \A r : r # p /\ r # q => At(r)' = At(r)
  <1>1. place' \in [Threads -> Places]  BY DEF PoolTypeOK
  <1>2. At(q)' = At(q) \ {t} /\ t \in At(q)  BY DEF At, PoolTypeOK
  <1>3. At(p)' = At(p) \union {t} /\ t \notin At(p)  BY DEF At, PoolTypeOK
  <1>4. ASSUME NEW r, r # p, r # q PROVE At(r)' = At(r)
    <2>1. \A s \in Threads : place'[s] = r <=> place[s] = r  BY <1>4 DEF PoolTypeOK
    <2>2. QED  BY <2>1 DEF At
  <1>5. Cardinality(At(q) \ {t}) = Cardinality(At(q)) - 1
    BY <1>2, PlaceCounts, FS_RemoveElement
  <1>6. Cardinality(At(p) \union {t}) = Cardinality(At(p)) + 1
    BY <1>3, PlaceCounts, FS_AddElement
  <1>7. QED  BY <1>1, <1>2, <1>3, <1>4, <1>5, <1>6

LEMMA PoolInitInv == PoolInit => PoolInv
  <1> SUFFICES ASSUME PoolInit PROVE PoolInv  OBVIOUS
  <1>1. PoolTypeOK  BY SizeAssumption DEF PoolInit, PoolTypeOK, Places
  <1>2. At("holding") = {} /\ At("asleep") = {}  BY DEF PoolInit, At
  <1>3. ConnectionsConserved
    BY <1>2, FS_EmptySet, SizeAssumption DEF ConnectionsConserved, PoolInit
  <1>4. NoLostWakeup  BY <1>2 DEF NoLostWakeup
  <1>5. QED  BY <1>1, <1>3, <1>4 DEF PoolInv

LEMMA PoolStep == PoolInv /\ [PoolNext]_poolVars => PoolInv'
  <1> SUFFICES ASSUME PoolInv, [PoolNext]_poolVars PROVE PoolInv'  OBVIOUS
  <1> USE DEF PoolInv, PoolTypeOK, ConnectionsConserved, NoLostWakeup
  <1> DEFINE N(p) == Cardinality(At(p))
  <1>n. \A p : N(p) \in Nat /\ N(p)' \in Nat
    <2>1. ASSUME NEW p PROVE N(p) \in Nat  BY PlaceCounts
    <2>2. ASSUME NEW p PROVE N(p)' \in Nat
      <3>1. IsFiniteSet(At(p)')
        BY ThreadsAssumption, FS_Subset DEF At
      <3>2. QED  BY <3>1, FS_CardinalityType
    <2>3. QED  BY <2>1, <2>2
  <1>1. CASE UNCHANGED poolVars
    BY <1>1 DEF poolVars, At
  <1>2. ASSUME NEW t \in Threads, Checkout(t) PROVE PoolInv'
    <2>1. /\ \A q : q # "taking" /\ q # "outside" => At(q)' = At(q)
          /\ place' \in [Threads -> Places] /\ free' = free
      BY <1>2, OneMoved DEF Checkout, Places
    <2>2. QED  BY <2>1
  <1>3. ASSUME NEW t \in Threads, Take(t) PROVE PoolInv'
    <2>1. PICK q \in {"taking", "woken"} : place[t] = q  BY <1>3 DEF Take
    <2>2. /\ N("holding")' = N("holding") + 1
          /\ N(q)' = N(q) - 1
          /\ \A r : r # "holding" /\ r # q => At(r)' = At(r)
          /\ place' \in [Threads -> Places]
      BY <1>3, <2>1, OneMoved DEF Take, Places
    <2>3. free > 0 /\ free' = free - 1 /\ free' \in Nat  BY <1>3 DEF Take
    <2>4. At("asleep")' = At("asleep") /\ N("notifying")' = N("notifying")
      <3>1. q # "asleep" /\ q # "notifying"  BY <2>1
      <3>2. At("asleep")' = At("asleep") /\ At("notifying")' = At("notifying")
        BY ONLY <3>1, <2>2
      <3>3. QED  BY ONLY <3>2
    <2>5. N("woken")' \in {N("woken"), N("woken") - 1}
      <3>1. CASE q = "woken"  BY ONLY <3>1, <2>2
      <3>2. CASE q = "taking"
        <4>1. At("woken")' = At("woken")  BY ONLY <3>2, <2>2
        <4>2. QED  BY ONLY <4>1
      <3>3. QED  BY <2>1, <3>1, <3>2
    <2>6. ASSUME At("asleep") # {} PROVE free' <= N("woken")' + N("notifying")'
      BY <2>3, <2>4, <2>5, <2>6, <1>n
    <2>7. QED  BY <2>2, <2>3, <2>4, <2>6, <1>n, SizeAssumption
  <1>4. ASSUME NEW t \in Threads, Sleep(t) PROVE PoolInv'
    <2>1. PICK q \in {"taking", "woken"} : place[t] = q  BY <1>4 DEF Sleep
    <2>2. /\ \A r : r # "asleep" /\ r # q => At(r)' = At(r)
          /\ place' \in [Threads -> Places]
      BY <1>4, <2>1, OneMoved DEF Sleep, Places
    <2>3. free' = free /\ free = 0  BY <1>4 DEF Sleep
    <2>4. N("holding")' = N("holding")
      <3>1. At("holding")' = At("holding")  BY ONLY <2>1, <2>2
      <3>2. QED  BY ONLY <3>1
    <2>5. free' <= N("woken")' + N("notifying")'  BY <2>3, <1>n
    <2>6. QED  BY <2>2, <2>3, <2>4, <2>5
  <1>5. ASSUME NEW t \in Threads, WakeUnasked(t) PROVE PoolInv'
    <2>1. /\ N("woken")' = N("woken") + 1
          /\ \A q : q # "woken" /\ q # "asleep" => At(q)' = At(q)
          /\ place' \in [Threads -> Places] /\ free' = free /\ t \in At("asleep")
      BY <1>5, OneMoved DEF WakeUnasked, Places, At
    <2>2. N("notifying")' = N("notifying") /\ N("holding")' = N("holding")  BY <2>1
    <2>3. QED  BY <2>1, <2>2, <1>n
  <1>6. ASSUME NEW t \in Threads, Push(t) PROVE PoolInv'
    <2>1. /\ N("notifying")' = N("notifying") + 1 /\ N("holding")' = N("holding") - 1
          /\ \A q : q # "notifying" /\ q # "holding" => At(q)' = At(q)
          /\ place' \in [Threads -> Places] /\ free' = free + 1 /\ free' \in Nat
      <3>1. place[t] = "holding" /\ place' = [place EXCEPT ![t] = "notifying"]
            /\ free' = free + 1
        BY <1>6 DEF Push
      <3>2. "holding" \in Places /\ "notifying" \in Places  BY DEF Places
      <3>3. /\ N("notifying")' = N("notifying") + 1 /\ N("holding")' = N("holding") - 1
            /\ \A q : q # "notifying" /\ q # "holding" => At(q)' = At(q)
            /\ place' \in [Threads -> Places]
        BY <3>1, <3>2, OneMoved
      <3>4. QED  BY <3>1, <3>3
    <2>2. N("woken")' = N("woken") /\ At("asleep")' = At("asleep")
      <3>1. At("woken")' = At("woken") /\ At("asleep")' = At("asleep")  BY ONLY <2>1
      <3>2. QED  BY ONLY <3>1
    <2>3. At("asleep") # {} => free' <= N("woken")' + N("notifying")'
      BY <2>1, <2>2, <1>n
    <2>4. QED  BY <2>1, <2>2, <2>3, <1>n, SizeAssumption
  <1>7. ASSUME NEW t \in Threads, Notify(t) PROVE PoolInv'
    <2>1. CASE At("asleep") = {} /\ place' = [place EXCEPT ![t] = "outside"]
      <3>1. /\ \A q : q # "outside" /\ q # "notifying" => At(q)' = At(q)
            /\ place' \in [Threads -> Places] /\ free' = free
        BY <1>7, <2>1, OneMoved DEF Notify, Places
      <3>2. At("asleep")' = {} /\ N("holding")' = N("holding")  BY <2>1, <3>1
      <3>3. QED  BY <3>1, <3>2
    <2>2. ASSUME NEW s \in At("asleep"),
                 place' = [place EXCEPT ![t] = "outside", ![s] = "woken"]
          PROVE  PoolInv'
      <3>1. place[t] = "notifying" /\ place[s] = "asleep" /\ s \in Threads /\ free' = free
        BY <1>7 DEF Notify, At
      <3>2. /\ At("notifying")' = At("notifying") \ {t} /\ t \in At("notifying")
            /\ At("woken")' = At("woken") \union {s} /\ s \notin At("woken")
            /\ At("holding")' = At("holding")
        BY <2>2, <3>1 DEF At
      <3>3. N("notifying")' = N("notifying") - 1  BY <3>2, PlaceCounts, FS_RemoveElement
      <3>4. N("woken")' = N("woken") + 1  BY <3>2, PlaceCounts, FS_AddElement
      <3>5. free' <= N("woken")' + N("notifying")'  BY <3>1, <3>3, <3>4, <1>n
      <3>6. place' \in [Threads -> Places]  BY <2>2, <3>1 DEF Places
      <3>7. QED  BY <3>1, <3>2, <3>5, <3>6
    <2>3. QED  BY <1>7, <2>1, <2>2 DEF Notify
  <1>8. QED  BY <1>1, <1>2, <1>3, <1>4, <1>5, <1>6, <1>7 DEF PoolNext

(* The inductive invariant of WaitPool. *)
THEOREM PoolInvariance == PoolSpec => []PoolInv
  <1>1. QED  BY PoolInitInv, PoolStep, PTL DEF PoolSpec

(* However many threads and connections there are, no thread sleeps beside  *)
(* a free connection that nobody is about to look for or to announce.       *)
THEOREM WakeupsKept == PoolSpec => []NoLostWakeup
  <1>1. PoolInv => NoLostWakeup  BY DEF PoolInv
  <1>2. QED  BY <1>1, PoolInvariance, PTL

(* Mutex and Condvar implement the plain pool: a checkout never gives out   *)
(* more connections than there are.                                         *)
THEOREM PlainPool == PoolSpec => Pool!Spec
  <1>1. PoolInit => Pool!Init
    BY DEF PoolInit, Pool!Init, SeenPlaces, PlainPlace
  <1>2. ASSUME PoolInv, [PoolNext]_poolVars PROVE [Pool!Next]_SeenPlaces
    <2> USE <1>2 DEF PoolInv, PoolTypeOK, SeenPlaces, PlainPlace, Places
    <2>1. CASE UNCHANGED poolVars  BY <2>1 DEF poolVars
    <2>2. ASSUME NEW t \in Threads, Checkout(t) PROVE Pool!Ask(t)
      BY <2>2 DEF Checkout, Pool!Ask
    <2>3. ASSUME NEW t \in Threads, Take(t) PROVE Pool!Take(t)
      <3>1. Pool!Holders = At("holding")  BY DEF Pool!Holders, At
      <3>2. Cardinality(At("holding")) < Size
        BY <2>3, PlaceCounts, SizeAssumption DEF Take, ConnectionsConserved
      <3>3. Pool!Cardinality(Pool!Holders) < Size
        BY <3>1, <3>2 DEF Pool!Cardinality, Cardinality
      <3>4. SeenPlaces[t] = "waiting" /\ SeenPlaces' = [SeenPlaces EXCEPT ![t] = "holding"]
        BY <2>3 DEF Take
      <3>5. QED  BY <3>3, <3>4 DEF Pool!Take
    <2>4. ASSUME NEW t \in Threads, Sleep(t) \/ WakeUnasked(t) \/ Notify(t)
          PROVE  SeenPlaces' = SeenPlaces
      BY <2>4 DEF Sleep, WakeUnasked, Notify, At
    <2>5. ASSUME NEW t \in Threads, Push(t) PROVE Pool!Put(t)
      BY <2>5 DEF Push, Pool!Put
    <2>6. QED  BY <2>1, <2>2, <2>3, <2>4, <2>5 DEF PoolNext, Pool!Next
  <1>3. QED  BY <1>1, <1>2, PoolInvariance, PTL DEF PoolSpec, Pool!Spec

=============================================================================
