------------------------- MODULE AsyncStorage_proofs -------------------------
(***************************************************************************)
(* Theorems about AsyncStorage, for every finite set of calls and every    *)
(* reader pool size, and about its composition with the pool.              *)
(***************************************************************************)
EXTENDS PooledStorage, FiniteSetTheorems, TLAPS

(* The lane of a call of a known kind is one of the two lanes. *)
LEMMA LaneType == ASSUME NEW k \in Kinds PROVE LaneOf(k) \in Lanes
  BY DEF Kinds, Lanes, LaneOf

(* A lane has a positive number of permits. *)
LEMMA MaxPermitsType == \A l \in Lanes : MaxPermits(l) \in Nat \ {0}
  BY ReaderSlotsAssumption DEF MaxPermits, Lanes, WriteSlots

(* Every program is a suffix a closure may have left to run. *)
LEMMA ProgramsType == ASSUME NEW k \in Kinds PROVE Programs(k) \subseteq Suffixes
  BY DEF Kinds, Programs, Suffixes

(* Using a connection leaves a shorter suffix. *)
LEMMA TailSuffix ==
  ASSUME NEW s \in Suffixes, s # <<>>
  PROVE  Tail(s) \in Suffixes
  <1>1. CASE s = <<"reader">>
    <2>1. Tail(s) = <<>>  BY <1>1
    <2>2. QED  BY <2>1 DEF Suffixes
  <1>2. CASE s = <<"writer">>
    <2>1. Tail(s) = <<>>  BY <1>2
    <2>2. QED  BY <2>1 DEF Suffixes
  <1>3. CASE s = <<"reader", "writer">>
    <2>1. Tail(s) = <<"writer">>  BY <1>3
    <2>2. QED  BY <2>1 DEF Suffixes
  <1>4. CASE s = <<"reader", "reader", "writer">>
    <2>1. Tail(s) = <<"reader", "writer">>  BY <1>4
    <2>2. QED  BY <2>1 DEF Suffixes
  <1>5. QED  BY <1>1, <1>2, <1>3, <1>4 DEF Suffixes

(* Giving a permit back leaves phases and permits well typed. *)
LEMMA GiveBackType ==
  ASSUME TypeOK, NEW c \in Calls, NEW p \in Phases, GiveBackPermit(c, p)
  PROVE  /\ phase' \in [Calls -> Phases]
         /\ available' \in [Lanes -> Nat]
  <1>1. Lane(c) \in Lanes
    BY LaneType DEF TypeOK, Lane
  <1>2. CASE /\ phase' = [phase EXCEPT ![c] = p]
             /\ available' = [available EXCEPT ![Lane(c)] = @ + 1]
    BY <1>1, <1>2 DEF TypeOK
  <1>3. CASE /\ \E w \in Waiters(Lane(c)) : phase' = [phase EXCEPT ![c] = p, ![w] = "granted"]
             /\ UNCHANGED available
    BY <1>3 DEF TypeOK, Waiters, Phases
  <1>4. QED  BY <1>2, <1>3 DEF GiveBackPermit

(* The type invariant is inductive, given that a connection in use is one  *)
(* the closure still needs.                                                *)
LEMMA TypeStep == TypeOK /\ HoldsWhatItNeeds /\ [Next]_vars => TypeOK'
  <1> SUFFICES ASSUME TypeOK, HoldsWhatItNeeds, [Next]_vars PROVE TypeOK'
    OBVIOUS
  <1> USE DEF Phases, Replies, OwnerStages
  <1>0. ASSUME NEW c \in Calls, LeaveQueue(c)
        PROVE  phase' \in [Calls -> Phases] /\ available' \in [Lanes -> Nat]
    BY <1>0, GiveBackType DEF LeaveQueue, TypeOK
  <1>1. ASSUME NEW c \in Calls, NEW k \in Kinds, Call(c, k) PROVE TypeOK'
    <2>1. LaneOf(k) \in Lanes  BY LaneType
    <2>2. needs' \in [Calls -> Suffixes]
      BY <1>1, ProgramsType DEF Call, TypeOK
    <2>3. available' \in [Lanes -> Nat]
      BY <1>1, <2>1 DEF Call, TypeOK
    <2>4. QED  BY <1>1, <2>2, <2>3 DEF Call, TypeOK
  <1>2. ASSUME NEW c \in Calls, Admit(c) PROVE TypeOK'
    BY <1>2 DEF Admit, TypeOK
  <1>3. ASSUME NEW c \in Calls, QueueTimeout(c) PROVE TypeOK'
    BY <1>0, <1>3 DEF QueueTimeout, TypeOK
  <1>4. ASSUME NEW c \in Calls, Refuse(c) PROVE TypeOK'
    BY <1>0, <1>4 DEF Refuse, TypeOK
  <1>5. ASSUME NEW c \in Calls, DropCaller(c) PROVE TypeOK'
    <2>1. phase' \in [Calls -> Phases] /\ available' \in [Lanes -> Nat]
      BY <1>0, <1>5 DEF DropCaller, TypeOK
    <2>2. QED  BY <1>5, <2>1 DEF DropCaller, TypeOK
  <1>6. ASSUME NEW c \in Calls, StartClosure(c) PROVE TypeOK'
    BY <1>6 DEF StartClosure, TypeOK
  <1>7. ASSUME NEW c \in Calls, CheckoutReader(c) PROVE TypeOK'
    BY <1>7 DEF CheckoutReader, TypeOK
  <1>8. ASSUME NEW c \in Calls, ParkForReader(c) PROVE TypeOK'
    BY <1>8 DEF ParkForReader, TypeOK
  <1>9. ASSUME NEW c \in Calls, CheckinReader(c) PROVE TypeOK'
    <2>1. needs[c] \in Suffixes /\ Tail(needs[c]) \in Suffixes
      BY <1>9, TailSuffix DEF HoldsWhatItNeeds, CheckinReader, TypeOK
    <2>2. needs' \in [Calls -> Suffixes]
      BY <1>9, <2>1 DEF CheckinReader, TypeOK, Suffixes
    <2>3. QED  BY <1>9, <2>2 DEF CheckinReader, TypeOK
  <1>10. ASSUME NEW c \in Calls, LockWriter(c) PROVE TypeOK'
    BY <1>10 DEF LockWriter, TypeOK
  <1>11. ASSUME NEW c \in Calls, UnlockWriter(c) PROVE TypeOK'
    <2>1. needs[c] \in Suffixes /\ Tail(needs[c]) \in Suffixes
      BY <1>11, TailSuffix DEF HoldsWhatItNeeds, UnlockWriter, TypeOK
    <2>2. needs' \in [Calls -> Suffixes]
      BY <1>11, <2>1 DEF UnlockWriter, TypeOK, Suffixes
    <2>3. QED  BY <1>11, <2>2 DEF UnlockWriter, TypeOK
  <1>12. ASSUME NEW c \in Calls, FinishClosure(c) \/ UnwindClosure(c) PROVE TypeOK'
    <2>1. phase' \in [Calls -> Phases] /\ available' \in [Lanes -> Nat]
      BY <1>12, GiveBackType DEF FinishClosure, UnwindClosure, TypeOK
    <2>2. QED  BY <1>12, <2>1 DEF FinishClosure, UnwindClosure, TypeOK
  <1>13. ASSUME NEW c \in Calls, PanicClosure(c) PROVE TypeOK'
    <2>1. <<>> \in Suffixes  BY DEF Suffixes
    <2>2. QED  BY <1>13, <2>1 DEF PanicClosure, TypeOK
  <1>14. ASSUME NEW c \in Calls, Complete(c) PROVE TypeOK'
    BY <1>14 DEF Complete, TypeOK
  <1>15. ASSUME NEW c \in Calls, DropSpawned(c) PROVE TypeOK'
    <2>1. phase' \in [Calls -> Phases] /\ available' \in [Lanes -> Nat]
      BY <1>15, GiveBackType DEF DropSpawned, TypeOK
    <2>2. QED  BY <1>15, <2>1 DEF DropSpawned, TypeOK
  <1>16. CASE Owner
    BY <1>16 DEF Owner, CloseReads, CloseWrites, CountReads, CountWrites,
       ShutdownRuntime, RuntimeStopped, IntoEngine, Finished, Lanes, TypeOK, vars
  <1>17. CASE UNCHANGED vars
    BY <1>17 DEF vars, TypeOK
  <1>18. QED
    BY <1>1, <1>2, <1>3, <1>4, <1>5, <1>6, <1>7, <1>8, <1>9, <1>10, <1>11, <1>12, <1>13, <1>14, <1>15, <1>16, <1>17 DEF Next, Caller, Closure

(* Connections in use match what the closure asked for. *)
LEMMA NeedsStep == TypeOK /\ HoldsWhatItNeeds /\ [Next]_vars => HoldsWhatItNeeds'
  <1> SUFFICES ASSUME TypeOK, HoldsWhatItNeeds, [Next]_vars PROVE HoldsWhatItNeeds'
    OBVIOUS
  <1> USE DEF HoldsWhatItNeeds, Lane
  <1>1. ASSUME NEW c \in Calls, NEW k \in Kinds, Call(c, k) PROVE HoldsWhatItNeeds'
    BY <1>1 DEF Call, TypeOK, Programs, LaneOf, Kinds
  <1>2. ASSUME NEW c \in Calls, Admit(c) PROVE HoldsWhatItNeeds'
    BY <1>2 DEF Admit, TypeOK
  <1>3. ASSUME NEW c \in Calls, QueueTimeout(c) PROVE HoldsWhatItNeeds'
    <2>1. \A d \in Calls : phase'[d] = phase[d] \/ phase'[d] \notin {"reading", "parked", "writing"}
      BY <1>3 DEF QueueTimeout, LeaveQueue, GiveBackPermit, Waiters, TypeOK
    <2>2. kind' = kind /\ needs' = needs
      BY <1>3 DEF QueueTimeout
    <2>3. QED  BY <2>1, <2>2
  <1>4. ASSUME NEW c \in Calls, StartClosure(c) PROVE HoldsWhatItNeeds'
    BY <1>4 DEF StartClosure, TypeOK
  <1>5. ASSUME NEW c \in Calls, CheckoutReader(c) PROVE HoldsWhatItNeeds'
    BY <1>5 DEF CheckoutReader, TypeOK
  <1>6. ASSUME NEW c \in Calls, ParkForReader(c) PROVE HoldsWhatItNeeds'
    BY <1>6 DEF ParkForReader, TypeOK
  <1>7. ASSUME NEW c \in Calls, LockWriter(c) PROVE HoldsWhatItNeeds'
    BY <1>7 DEF LockWriter, TypeOK
  <1>8. ASSUME NEW c \in Calls, Complete(c) PROVE HoldsWhatItNeeds'
    BY <1>8 DEF Complete, TypeOK
  <1>9. ASSUME NEW c \in Calls, CheckinReader(c) PROVE HoldsWhatItNeeds'
    <2>1. Lane(c) = "read" => Tail(needs[c]) = <<>>
      <3>1. Lane(c) = "read" => needs[c] = <<"reader">>
        BY <1>9 DEF CheckinReader
      <3>2. Tail(<<"reader">>) = <<>>
        OBVIOUS
      <3>3. QED  BY <3>1, <3>2
    <2>2. QED  BY <1>9, <2>1 DEF CheckinReader, TypeOK
  <1>10. ASSUME NEW c \in Calls, UnlockWriter(c) PROVE HoldsWhatItNeeds'
    <2>1. Lane(c) = "read" => Tail(needs[c]) = <<>>
      <3>1. Lane(c) = "read" => needs[c] = <<"reader">>
        BY <1>10 DEF UnlockWriter
      <3>2. Tail(<<"reader">>) = <<>>
        OBVIOUS
      <3>3. QED  BY <3>1, <3>2
    <2>2. QED  BY <1>10, <2>1 DEF UnlockWriter, TypeOK
  <1>11. ASSUME NEW c \in Calls, Refuse(c) PROVE HoldsWhatItNeeds'
    <2>1. \A d \in Calls : phase'[d] = phase[d] \/ phase'[d] \notin {"reading", "parked", "writing"}
      BY <1>11 DEF Refuse, LeaveQueue, GiveBackPermit, Waiters, TypeOK
    <2>2. kind' = kind /\ needs' = needs
      BY <1>11 DEF Refuse
    <2>3. QED  BY <2>1, <2>2
  <1>12. ASSUME NEW c \in Calls, DropCaller(c) PROVE HoldsWhatItNeeds'
    <2>1. \A d \in Calls : phase'[d] = phase[d] \/ phase'[d] \notin {"reading", "parked", "writing"}
      BY <1>12 DEF DropCaller, LeaveQueue, GiveBackPermit, Waiters, TypeOK
    <2>2. kind' = kind /\ needs' = needs
      BY <1>12 DEF DropCaller
    <2>3. QED  BY <2>1, <2>2
  <1>13. ASSUME NEW c \in Calls, FinishClosure(c) \/ UnwindClosure(c) PROVE HoldsWhatItNeeds'
    <2>1. \A d \in Calls : phase'[d] = phase[d] \/ phase'[d] \notin {"reading", "parked", "writing"}
      BY <1>13 DEF FinishClosure, UnwindClosure, GiveBackPermit, Waiters, TypeOK
    <2>2. kind' = kind /\ needs' = needs
      BY <1>13 DEF FinishClosure, UnwindClosure
    <2>3. QED  BY <2>1, <2>2
  <1>14. ASSUME NEW c \in Calls, PanicClosure(c) PROVE HoldsWhatItNeeds'
    BY <1>14 DEF PanicClosure, TypeOK
  <1>15. ASSUME NEW c \in Calls, DropSpawned(c) PROVE HoldsWhatItNeeds'
    <2>1. \A d \in Calls : phase'[d] = phase[d] \/ phase'[d] \notin {"reading", "parked", "writing"}
      BY <1>15 DEF DropSpawned, GiveBackPermit, Waiters, TypeOK
    <2>2. kind' = kind /\ needs' = needs
      BY <1>15 DEF DropSpawned
    <2>3. QED  BY <2>1, <2>2
  <1>16. CASE Owner
    BY <1>16 DEF Owner, CloseReads, CloseWrites, CountReads, CountWrites,
       ShutdownRuntime, RuntimeStopped, IntoEngine, Finished, vars
  <1>17. CASE UNCHANGED vars
    BY <1>17 DEF vars
  <1>18. QED
    BY <1>1, <1>2, <1>3, <1>4, <1>5, <1>6, <1>7, <1>8, <1>9, <1>10, <1>11, <1>12, <1>13, <1>14, <1>15, <1>16, <1>17 DEF Next, Caller, Closure

(* The writer mutex knows its holder. *)
LEMMA WriterStep == TypeOK /\ WriterIsHolder /\ [Next]_vars => WriterIsHolder'
  <1> SUFFICES ASSUME TypeOK, WriterIsHolder, [Next]_vars PROVE WriterIsHolder'
    OBVIOUS
  <1> USE NoCallAssumption DEF WriterIsHolder
  <1>1. ASSUME NEW c \in Calls, NEW k \in Kinds, Call(c, k) PROVE WriterIsHolder'
    BY <1>1 DEF Call, TypeOK
  <1>2. ASSUME NEW c \in Calls, Admit(c) PROVE WriterIsHolder'
    BY <1>2 DEF Admit, TypeOK
  <1>3. ASSUME NEW c \in Calls, QueueTimeout(c) PROVE WriterIsHolder'
    BY <1>3 DEF QueueTimeout, LeaveQueue, GiveBackPermit, Waiters, TypeOK
  <1>4. ASSUME NEW c \in Calls, StartClosure(c) PROVE WriterIsHolder'
    BY <1>4 DEF StartClosure, TypeOK
  <1>5. ASSUME NEW c \in Calls, ParkForReader(c) PROVE WriterIsHolder'
    BY <1>5 DEF ParkForReader, TypeOK
  <1>6. ASSUME NEW c \in Calls, Complete(c) PROVE WriterIsHolder'
    BY <1>6 DEF Complete, TypeOK
  <1>7. ASSUME NEW c \in Calls, CheckoutReader(c) PROVE WriterIsHolder'
    BY <1>7 DEF CheckoutReader, TypeOK
  <1>8. ASSUME NEW c \in Calls, CheckinReader(c) PROVE WriterIsHolder'
    BY <1>8 DEF CheckinReader, TypeOK
  <1>9. ASSUME NEW c \in Calls, LockWriter(c) PROVE WriterIsHolder'
    BY <1>9 DEF LockWriter, TypeOK
  <1>10. ASSUME NEW c \in Calls, UnlockWriter(c) PROVE WriterIsHolder'
    BY <1>10 DEF UnlockWriter, TypeOK
  <1>11. ASSUME NEW c \in Calls, Refuse(c) PROVE WriterIsHolder'
    BY <1>11 DEF Refuse, LeaveQueue, GiveBackPermit, Waiters, ArcPhases, ClosurePhases, TypeOK
  <1>12. ASSUME NEW c \in Calls, DropCaller(c) PROVE WriterIsHolder'
    BY <1>12 DEF DropCaller, LeaveQueue, GiveBackPermit, Waiters, ArcPhases, ClosurePhases, TypeOK
  <1>13. ASSUME NEW c \in Calls, FinishClosure(c) \/ UnwindClosure(c) PROVE WriterIsHolder'
    BY <1>13 DEF FinishClosure, UnwindClosure, GiveBackPermit, Waiters, ArcPhases, ClosurePhases, TypeOK
  <1>14. ASSUME NEW c \in Calls, DropSpawned(c) PROVE WriterIsHolder'
    BY <1>14 DEF DropSpawned, GiveBackPermit, Waiters, ArcPhases, ClosurePhases, TypeOK
  <1>15. ASSUME NEW c \in Calls, PanicClosure(c) PROVE WriterIsHolder'
    BY <1>15 DEF PanicClosure, TypeOK
  <1>16. CASE Owner
    BY <1>16 DEF Owner, CloseReads, CloseWrites, CountReads, CountWrites,
       ShutdownRuntime, RuntimeStopped, IntoEngine, Finished, vars
  <1>17. CASE UNCHANGED vars
    BY <1>17 DEF vars
  <1>18. QED
    BY <1>1, <1>2, <1>3, <1>4, <1>5, <1>6, <1>7, <1>8, <1>9, <1>10, <1>11, <1>12, <1>13, <1>14, <1>15, <1>16, <1>17 DEF Next, Caller, Closure

(* The set of calls is finite, and so is every set of calls. *)
LEMMA FiniteCalls ==
  ASSUME NEW S, S \subseteq Calls
  PROVE  IsFiniteSet(S) /\ Cardinality(S) \in Nat
  BY CallsAssumption, FS_Subset, FS_CardinalityType

(* A step that neither takes nor returns a reader keeps the count. *)
LEMMA SameReaders ==
  ASSUME ReadersConserved, idle' = idle,
         \A d \in Calls : phase'[d] = "reading" <=> phase[d] = "reading"
  PROVE  ReadersConserved'
  <1>1. Readers' = Readers  BY DEF Readers
  <1>2. QED  BY <1>1 DEF ReadersConserved

(* One reader put back by call c. *)
LEMMA OneReaderBack ==
  ASSUME TypeOK, ReadersConserved, NEW c \in Calls,
         phase[c] = "reading", phase'[c] # "reading", idle' = idle + 1,
         \A d \in Calls \ {c} : phase'[d] = "reading" <=> phase[d] = "reading"
  PROVE  ReadersConserved'
  <1>1. Readers' = Readers \ {c} /\ c \in Readers  BY DEF Readers
  <1>2. IsFiniteSet(Readers)  BY FiniteCalls DEF Readers
  <1>3. Cardinality(Readers') = Cardinality(Readers) - 1
    BY <1>1, <1>2, FS_RemoveElement
  <1>4. Cardinality(Readers) \in Nat  BY <1>2, FS_CardinalityType
  <1>5. QED  BY <1>3, <1>4, ReaderSlotsAssumption DEF ReadersConserved, TypeOK

(* Reader connections are neither lost nor duplicated. *)
LEMMA ReadersStep == TypeOK /\ ReadersConserved /\ [Next]_vars => ReadersConserved'
  <1> SUFFICES ASSUME TypeOK, ReadersConserved, [Next]_vars PROVE ReadersConserved'
    OBVIOUS
  <1>1. ASSUME NEW c \in Calls, NEW k \in Kinds, Call(c, k) PROVE ReadersConserved'
    BY <1>1, SameReaders DEF Call, TypeOK
  <1>2. ASSUME NEW c \in Calls, Admit(c) PROVE ReadersConserved'
    BY <1>2, SameReaders DEF Admit, TypeOK
  <1>3. ASSUME NEW c \in Calls, QueueTimeout(c) PROVE ReadersConserved'
    <2>1. idle' = idle /\ \A d \in Calls : phase'[d] = "reading" <=> phase[d] = "reading"
      BY <1>3 DEF QueueTimeout, LeaveQueue, GiveBackPermit, Waiters, TypeOK
    <2>2. QED  BY <2>1, SameReaders
  <1>4. ASSUME NEW c \in Calls, StartClosure(c) PROVE ReadersConserved'
    BY <1>4, SameReaders DEF StartClosure, TypeOK
  <1>5. ASSUME NEW c \in Calls, ParkForReader(c) PROVE ReadersConserved'
    BY <1>5, SameReaders DEF ParkForReader, TypeOK
  <1>6. ASSUME NEW c \in Calls, Complete(c) PROVE ReadersConserved'
    BY <1>6, SameReaders DEF Complete, TypeOK
  <1>7. ASSUME NEW c \in Calls, LockWriter(c) PROVE ReadersConserved'
    BY <1>7, SameReaders DEF LockWriter, TypeOK
  <1>8. ASSUME NEW c \in Calls, UnlockWriter(c) PROVE ReadersConserved'
    BY <1>8, SameReaders DEF UnlockWriter, TypeOK
  <1>9. ASSUME NEW c \in Calls, Refuse(c) PROVE ReadersConserved'
    <2>1. idle' = idle /\ \A d \in Calls : phase'[d] = "reading" <=> phase[d] = "reading"
      BY <1>9 DEF Refuse, LeaveQueue, GiveBackPermit, Waiters, TypeOK
    <2>2. QED  BY <2>1, SameReaders
  <1>10. ASSUME NEW c \in Calls, DropCaller(c) PROVE ReadersConserved'
    <2>1. idle' = idle /\ \A d \in Calls : phase'[d] = "reading" <=> phase[d] = "reading"
      BY <1>10 DEF DropCaller, LeaveQueue, GiveBackPermit, Waiters, TypeOK
    <2>2. QED  BY <2>1, SameReaders
  <1>11. ASSUME NEW c \in Calls, FinishClosure(c) \/ UnwindClosure(c) PROVE ReadersConserved'
    <2>1. idle' = idle /\ \A d \in Calls : phase'[d] = "reading" <=> phase[d] = "reading"
      BY <1>11 DEF FinishClosure, UnwindClosure, GiveBackPermit, Waiters, TypeOK
    <2>2. QED  BY <2>1, SameReaders
  <1>12. ASSUME NEW c \in Calls, DropSpawned(c) PROVE ReadersConserved'
    <2>1. idle' = idle /\ \A d \in Calls : phase'[d] = "reading" <=> phase[d] = "reading"
      BY <1>12 DEF DropSpawned, GiveBackPermit, Waiters, TypeOK
    <2>2. QED  BY <2>1, SameReaders
  <1>13. ASSUME NEW c \in Calls, PanicClosure(c) PROVE ReadersConserved'
    <2>1. /\ phase'[c] # "reading"
          /\ \A d \in Calls \ {c} : phase'[d] = "reading" <=> phase[d] = "reading"
      BY <1>13 DEF PanicClosure, TypeOK
    <2>2. CASE phase[c] = "reading"
      BY <1>13, <2>1, <2>2, OneReaderBack DEF PanicClosure
    <2>3. CASE phase[c] # "reading"
      BY <1>13, <2>1, <2>3, SameReaders DEF PanicClosure
    <2>4. QED  BY <2>2, <2>3
  <1>14. ASSUME NEW c \in Calls, CheckinReader(c) PROVE ReadersConserved'
    BY <1>14, OneReaderBack DEF CheckinReader, TypeOK
  <1>15. ASSUME NEW c \in Calls, CheckoutReader(c) PROVE ReadersConserved'
    <2>1. Readers' = Readers \union {c} /\ c \notin Readers
      BY <1>15 DEF CheckoutReader, Readers, TypeOK
    <2>2. IsFiniteSet(Readers)  BY FiniteCalls DEF Readers
    <2>3. Cardinality(Readers') = Cardinality(Readers) + 1
      BY <2>1, <2>2, FS_AddElement
    <2>4. Cardinality(Readers) \in Nat  BY <2>2, FS_CardinalityType
    <2>5. idle' = idle - 1  BY <1>15 DEF CheckoutReader
    <2>6. QED  BY <2>3, <2>4, <2>5, ReaderSlotsAssumption DEF ReadersConserved, TypeOK
  <1>16. CASE Owner
    BY <1>16, SameReaders DEF Owner, CloseReads, CloseWrites, CountReads, CountWrites,
       ShutdownRuntime, RuntimeStopped, IntoEngine, Finished, vars
  <1>17. CASE UNCHANGED vars
    BY <1>17, SameReaders DEF vars
  <1>18. QED
    BY <1>1, <1>2, <1>3, <1>4, <1>5, <1>6, <1>7, <1>8, <1>9, <1>10, <1>11, <1>12, <1>13, <1>14, <1>15, <1>16, <1>17 DEF Next, Caller, Closure

(* A step in which no call gains or loses a permit. *)
LEMMA SamePermits ==
  ASSUME PermitsConserved, kind' = kind, available' = available,
         \A d \in Calls : phase'[d] \in PermitPhases <=> phase[d] \in PermitPhases
  PROVE  PermitsConserved'
  <1>1. \A l \in Lanes : PermitHolders(l)' = PermitHolders(l)
    BY DEF PermitHolders, Lane
  <1>2. QED  BY <1>1 DEF PermitsConserved, MaxPermits

(* A holder's permit comes back: to the semaphore, or straight to a waiter. *)
LEMMA GiveBackPermits ==
  ASSUME TypeOK, PermitsConserved, NEW c \in Calls, NEW p \in Phases \ PermitPhases,
         phase[c] \in PermitPhases, GiveBackPermit(c, p), kind' = kind
  PROVE  PermitsConserved'
  <1>. PICK L \in Lanes : L = Lane(c)
    BY LaneType DEF TypeOK, Lane
  <1>0. c \in PermitHolders(L)
    BY DEF PermitHolders
  <1>1. \A l \in Lanes : IsFiniteSet(PermitHolders(l)) /\ Cardinality(PermitHolders(l)) \in Nat
    BY FiniteCalls DEF PermitHolders
  <1>2. CASE /\ phase' = [phase EXCEPT ![c] = p]
             /\ available' = [available EXCEPT ![L] = @ + 1]
    <2>0. phase'[c] = p /\ \A d \in Calls \ {c} : phase'[d] = phase[d]
      BY <1>2 DEF TypeOK
    <2>1. PermitHolders(L)' = PermitHolders(L) \ {c}
      BY <2>0 DEF PermitHolders, Lane
    <2>2. Cardinality(PermitHolders(L)') = Cardinality(PermitHolders(L)) - 1
      <3>1. Cardinality(PermitHolders(L) \ {c}) = Cardinality(PermitHolders(L)) - 1
        BY <1>0, <1>1, FS_RemoveElement
      <3>2. QED  BY <2>1, <3>1
    <2>3. \A l \in Lanes \ {L} : PermitHolders(l)' = PermitHolders(l)
      BY <1>2 DEF PermitHolders, Lane, TypeOK
    <2>4. ASSUME NEW l \in Lanes
          PROVE  available'[l] + Cardinality(PermitHolders(l)') = MaxPermits(l)
      <3>1. available[l] + Cardinality(PermitHolders(l)) = MaxPermits(l)
        BY DEF PermitsConserved
      <3>2. MaxPermits(l) \in Nat /\ available[l] \in Nat
        BY MaxPermitsType DEF TypeOK
      <3>3. CASE l = L
        <4>1. available'[l] = available[l] + 1  BY <1>2, <3>3 DEF TypeOK
        <4>2. Cardinality(PermitHolders(l)') = Cardinality(PermitHolders(l)) - 1
          BY <2>2, <3>3
        <4>3. Cardinality(PermitHolders(l)) \in Nat  BY <1>1
        <4>4. QED  BY <3>1, <3>2, <4>1, <4>2, <4>3
      <3>4. CASE l # L
        <4>1. available'[l] = available[l]  BY <1>2, <3>4 DEF TypeOK
        <4>2. QED  BY <2>3, <3>1, <3>4, <4>1
      <3>5. QED  BY <3>3, <3>4
    <2>5. QED  BY <2>4 DEF PermitsConserved, MaxPermits
  <1>3. CASE /\ \E w \in Waiters(L) : phase' = [phase EXCEPT ![c] = p, ![w] = "granted"]
             /\ UNCHANGED available
    <2>1. PICK w \in Waiters(L) : phase' = [phase EXCEPT ![c] = p, ![w] = "granted"]
      BY <1>3
    <2>2. /\ w \in Calls /\ w # c /\ Lane(w) = L
          /\ w \notin PermitHolders(L)
      BY <1>0 DEF Waiters, PermitHolders, PermitPhases, ClosurePhases
    <2>3. PermitHolders(L)' = (PermitHolders(L) \ {c}) \union {w}
      BY <2>1, <2>2 DEF PermitHolders, Lane, TypeOK, PermitPhases, ClosurePhases
    <2>4. Cardinality(PermitHolders(L) \ {c}) = Cardinality(PermitHolders(L)) - 1
      BY <1>0, <1>1, FS_RemoveElement
    <2>5. IsFiniteSet(PermitHolders(L) \ {c})
      BY <1>0, <1>1, FS_RemoveElement
    <2>6. Cardinality(PermitHolders(L)') = Cardinality(PermitHolders(L))
      <3>1. Cardinality((PermitHolders(L) \ {c}) \union {w}) = Cardinality(PermitHolders(L) \ {c}) + 1
        BY <2>2, <2>5, FS_AddElement
      <3>2. Cardinality(PermitHolders(L)) \in Nat  BY <1>0, <1>1
      <3>3. QED  BY <2>3, <2>4, <3>1, <3>2
    <2>7. \A l \in Lanes \ {L} : PermitHolders(l)' = PermitHolders(l)
      BY <2>1, <2>2 DEF PermitHolders, Lane, TypeOK
    <2>8. \A l \in Lanes : available'[l] + Cardinality(PermitHolders(l)') = MaxPermits(l)
      BY <1>3, <2>6, <2>7 DEF PermitsConserved
    <2>9. QED  BY <2>8 DEF PermitsConserved, MaxPermits
  <1>4. QED  BY <1>2, <1>3 DEF GiveBackPermit

(* No step loses or invents a permit. *)
LEMMA PermitsStep == TypeOK /\ PermitsConserved /\ [Next]_vars => PermitsConserved'
  <1> SUFFICES ASSUME TypeOK, PermitsConserved, [Next]_vars PROVE PermitsConserved'
    OBVIOUS
  <1> USE DEF PermitPhases, ClosurePhases, Phases
  <1>0. ASSUME NEW c \in Calls, LeaveQueue(c), kind' = kind PROVE PermitsConserved'
    <2>1. CASE phase[c] = "queued" /\ phase' = [phase EXCEPT ![c] = "over"] /\ UNCHANGED available
      BY <1>0, <2>1, SamePermits DEF TypeOK
    <2>2. CASE phase[c] = "granted" /\ GiveBackPermit(c, "over")
      BY <1>0, <2>2, GiveBackPermits
    <2>3. QED  BY <1>0, <2>1, <2>2 DEF LeaveQueue
  <1>1. ASSUME NEW c \in Calls, NEW k \in Kinds, Call(c, k) PROVE PermitsConserved'
    <2>0. LaneOf(k) \in Lanes  BY LaneType
    <2>1. \A l \in Lanes : IsFiniteSet(PermitHolders(l)) /\ Cardinality(PermitHolders(l)) \in Nat
      BY FiniteCalls DEF PermitHolders
    <2>2. \A l \in Lanes : c \notin PermitHolders(l)
      BY <1>1 DEF Call, PermitHolders
    <2>3. CASE /\ available[LaneOf(k)] > 0
               /\ phase' = [phase EXCEPT ![c] = "spawned"]
               /\ available' = [available EXCEPT ![LaneOf(k)] = @ - 1]
      <3>1. PermitHolders(LaneOf(k))' = PermitHolders(LaneOf(k)) \union {c}
        BY <1>1, <2>3 DEF Call, PermitHolders, Lane, TypeOK
      <3>2. Cardinality(PermitHolders(LaneOf(k))') = Cardinality(PermitHolders(LaneOf(k))) + 1
        BY <2>0, <2>1, <2>2, <3>1, FS_AddElement
      <3>3. \A l \in Lanes \ {LaneOf(k)} : PermitHolders(l)' = PermitHolders(l)
        BY <1>1, <2>3 DEF Call, PermitHolders, Lane, TypeOK
      <3>4. ASSUME NEW l \in Lanes
            PROVE  available'[l] + Cardinality(PermitHolders(l)') = MaxPermits(l)
        <4>1. available[l] + Cardinality(PermitHolders(l)) = MaxPermits(l)
          BY DEF PermitsConserved
        <4>2. available[l] \in Nat /\ Cardinality(PermitHolders(l)) \in Nat
          BY <2>1 DEF TypeOK
        <4>3. CASE l = LaneOf(k)
          <5>1. available'[l] = available[l] - 1  BY <2>3, <4>3 DEF TypeOK
          <5>2. Cardinality(PermitHolders(l)') = Cardinality(PermitHolders(l)) + 1
            BY <3>2, <4>3
          <5>3. QED  BY <4>1, <4>2, <5>1, <5>2
        <4>4. CASE l # LaneOf(k)
          <5>1. available'[l] = available[l]  BY <2>3, <4>4 DEF TypeOK
          <5>2. QED  BY <3>3, <4>1, <4>4, <5>1
        <4>5. QED  BY <4>3, <4>4
      <3>5. QED  BY <3>4 DEF PermitsConserved, MaxPermits
    <2>4. CASE /\ phase' = [phase EXCEPT ![c] = "queued"]
               /\ UNCHANGED available
      <3>1. \A l \in Lanes : PermitHolders(l)' = PermitHolders(l)
        BY <1>1, <2>4 DEF Call, PermitHolders, Lane, TypeOK
      <3>2. QED  BY <2>4, <3>1 DEF PermitsConserved, MaxPermits
    <2>5. QED  BY <1>1, <2>3, <2>4 DEF Call
  <1>2. ASSUME NEW c \in Calls, Admit(c) PROVE PermitsConserved'
    BY <1>2, SamePermits DEF Admit, TypeOK
  <1>3. ASSUME NEW c \in Calls, QueueTimeout(c) PROVE PermitsConserved'
    BY <1>0, <1>3 DEF QueueTimeout
  <1>4. ASSUME NEW c \in Calls, StartClosure(c) PROVE PermitsConserved'
    BY <1>4, SamePermits DEF StartClosure, TypeOK
  <1>5. ASSUME NEW c \in Calls, ParkForReader(c) PROVE PermitsConserved'
    BY <1>5, SamePermits DEF ParkForReader, TypeOK
  <1>6. ASSUME NEW c \in Calls, Complete(c) PROVE PermitsConserved'
    BY <1>6, SamePermits DEF Complete, TypeOK
  <1>7. ASSUME NEW c \in Calls, CheckoutReader(c) PROVE PermitsConserved'
    BY <1>7, SamePermits DEF CheckoutReader, TypeOK
  <1>8. ASSUME NEW c \in Calls, CheckinReader(c) PROVE PermitsConserved'
    BY <1>8, SamePermits DEF CheckinReader, TypeOK
  <1>9. ASSUME NEW c \in Calls, LockWriter(c) PROVE PermitsConserved'
    BY <1>9, SamePermits DEF LockWriter, TypeOK
  <1>10. ASSUME NEW c \in Calls, UnlockWriter(c) PROVE PermitsConserved'
    BY <1>10, SamePermits DEF UnlockWriter, TypeOK
  <1>11. ASSUME NEW c \in Calls, Refuse(c) PROVE PermitsConserved'
    BY <1>0, <1>11 DEF Refuse
  <1>12. ASSUME NEW c \in Calls, DropCaller(c) PROVE PermitsConserved'
    <2>1. CASE LeaveQueue(c)
      BY <1>0, <1>12, <2>1 DEF DropCaller
    <2>2. CASE UNCHANGED <<phase, available>>
      BY <1>12, <2>2, SamePermits DEF DropCaller
    <2>3. QED  BY <1>12, <2>1, <2>2 DEF DropCaller
  <1>13. ASSUME NEW c \in Calls, FinishClosure(c) \/ UnwindClosure(c) PROVE PermitsConserved'
    BY <1>13, GiveBackPermits DEF FinishClosure, UnwindClosure
  <1>14. ASSUME NEW c \in Calls, PanicClosure(c) PROVE PermitsConserved'
    BY <1>14, SamePermits DEF PanicClosure, TypeOK
  <1>15. ASSUME NEW c \in Calls, DropSpawned(c) PROVE PermitsConserved'
    BY <1>15, GiveBackPermits DEF DropSpawned
  <1>16. CASE Owner
    BY <1>16, SamePermits DEF Owner, CloseReads, CloseWrites, CountReads, CountWrites,
       ShutdownRuntime, RuntimeStopped, IntoEngine, Finished, vars
  <1>17. CASE UNCHANGED vars
    BY <1>17, SamePermits DEF vars
  <1>18. QED
    BY <1>1, <1>2, <1>3, <1>4, <1>5, <1>6, <1>7, <1>8, <1>9, <1>10, <1>11, <1>12, <1>13, <1>14, <1>15, <1>16, <1>17 DEF Next, Caller, Closure

-----------------------------------------------------------------------------

(* The initial state satisfies the inductive invariant. *)
LEMMA InitIndInv == Init => IndInv
  <1> SUFFICES ASSUME Init PROVE IndInv
    OBVIOUS
  <1>1. TypeOK
    <2>1. <<>> \in Suffixes  BY DEF Suffixes
    <2>2. [l \in Lanes |-> MaxPermits(l)] \in [Lanes -> Nat]  BY MaxPermitsType
    <2>3. QED
      BY <2>1, <2>2, ReaderSlotsAssumption
      DEF Init, TypeOK, Kinds, Phases, Replies, OwnerStages
  <1>2. HoldsWhatItNeeds  BY DEF Init, HoldsWhatItNeeds
  <1>3. WriterIsHolder  BY NoCallAssumption DEF Init, WriterIsHolder
  <1>4. PermitsConserved
    <2>1. \A l \in Lanes : PermitHolders(l) = {}
      BY DEF Init, PermitHolders, PermitPhases, ClosurePhases
    <2>2. Cardinality({}) = 0  BY FS_EmptySet
    <2>3. \A l \in Lanes : available[l] = MaxPermits(l) /\ MaxPermits(l) \in Nat
      BY MaxPermitsType DEF Init
    <2>4. QED  BY <2>1, <2>2, <2>3 DEF PermitsConserved
  <1>5. ReadersConserved
    <2>1. Readers = {}  BY DEF Init, Readers
    <2>2. Cardinality({}) = 0  BY FS_EmptySet
    <2>3. QED  BY <2>1, <2>2, ReaderSlotsAssumption DEF Init, ReadersConserved
  <1>6. QED  BY <1>1, <1>2, <1>3, <1>4, <1>5 DEF IndInv

(* IndInv holds throughout: its parts are preserved one by one. *)
THEOREM Invariance == Spec => []IndInv
  <1>1. IndInv /\ [Next]_vars => IndInv'
    BY TypeStep, NeedsStep, WriterStep, PermitsStep, ReadersStep DEF IndInv
  <1>2. QED  BY InitIndInv, <1>1, PTL DEF Spec

(* Type correctness, for every set of calls and every pool size. *)
THEOREM Typing == Spec => []TypeOK
  <1>1. IndInv => TypeOK  BY DEF IndInv
  <1>2. QED  BY <1>1, Invariance, PTL

(* in_flight counts the holders of permits exactly. *)
THEOREM PermitConservation == Spec => []PermitsConserved
  <1>1. IndInv => PermitsConserved  BY DEF IndInv
  <1>2. QED  BY <1>1, Invariance, PTL

(* The reader pool never loses a connection. *)
THEOREM ReaderConservation == Spec => []ReadersConserved
  <1>1. IndInv => ReadersConserved  BY DEF IndInv
  <1>2. QED  BY <1>1, Invariance, PTL

(* At most one call of the write lane holds a permit. *)
LEMMA OneWriteCall ==
  ASSUME TypeOK, PermitsConserved,
         NEW c \in PermitHolders("write"), NEW d \in PermitHolders("write")
  PROVE  c = d
  <1> DEFINE H == PermitHolders("write")
  <1>1. IsFiniteSet(H) /\ Cardinality(H) \in Nat
    BY FiniteCalls DEF PermitHolders
  <1>2. Cardinality(H) <= 1
    <2>1. "write" \in Lanes /\ MaxPermits("write") = 1  BY DEF Lanes, MaxPermits, WriteSlots
    <2>2. available["write"] \in Nat  BY <2>1 DEF TypeOK
    <2>3. available["write"] + Cardinality(H) = 1  BY <2>1 DEF PermitsConserved
    <2>4. QED  BY <1>1, <2>2, <2>3
  <1>3. SUFFICES ASSUME c # d PROVE FALSE
    OBVIOUS
  <1>4. IsFiniteSet(H \ {c}) /\ Cardinality(H \ {c}) = Cardinality(H) - 1
    BY <1>1, FS_RemoveElement
  <1>5. Cardinality(H \ {c}) # 0
    BY <1>3, <1>4, FS_EmptySet
  <1>6. Cardinality(H \ {c}) \in Nat  BY <1>4, FS_CardinalityType
  <1>7. QED  BY <1>1, <1>2, <1>4, <1>5, <1>6

(* The writer mutex is free whenever a closure is about to lock it. *)
THEOREM WriterMutexUncontended == Spec => []WriterUncontended
  <1>1. IndInv => WriterUncontended
    <2> SUFFICES ASSUME IndInv, NEW c \in Calls,
                        phase[c] = "running", needs[c] # <<>>, Head(needs[c]) = "writer",
                        writer # NoCall
                 PROVE  FALSE
      BY DEF WriterUncontended
    <2>1. writer \in Calls /\ phase[writer] = "writing"
      BY DEF IndInv, TypeOK, WriterIsHolder
    <2>2. ASSUME NEW d \in Calls, needs[d] # <<>>, Head(needs[d]) = "writer"
          PROVE  Lane(d) = "write"
      <3>1. Lane(d) \in {"read", "write"}
        BY LaneType DEF IndInv, TypeOK, Lane, Lanes
      <3>2. Lane(d) = "read" => needs[d] = <<"reader">>
        BY <2>2 DEF IndInv, HoldsWhatItNeeds
      <3>3. Head(<<"reader">>) = "reader"
        OBVIOUS
      <3>4. QED  BY <2>2, <3>1, <3>2, <3>3
    <2>3. c \in PermitHolders("write")
      BY <2>2 DEF PermitHolders, PermitPhases, ClosurePhases
    <2>4. writer \in PermitHolders("write")
      BY <2>1, <2>2 DEF IndInv, HoldsWhatItNeeds, PermitHolders, PermitPhases, ClosurePhases
    <2>5. c = writer  BY <2>3, <2>4, OneWriteCall DEF IndInv
    <2>6. QED  BY <2>1, <2>5
  <1>2. QED  BY <1>1, Invariance, PTL

(* No closure is spawned in a lane whose semaphore is closed. *)
THEOREM ClosedAdmitsNobody == Spec => NoAdmissionAfterClose
  <1> DEFINE Stays == \A c \in Calls :
                        phase'[c] = "spawned" /\ Lane(c)' \in closed => phase[c] = "spawned"
  <1>1. TypeOK /\ [Next]_vars => [Stays]_vars
    <2> SUFFICES ASSUME TypeOK, Next, NEW c \in Calls, phase'[c] = "spawned", Lane(c)' \in closed
                 PROVE  phase[c] = "spawned"
      BY DEF vars
    <2>1. ASSUME NEW d \in Calls, Caller(d) PROVE phase[c] = "spawned"
      BY <2>1 DEF Caller, Lane, Call, Admit, QueueTimeout, Refuse, DropCaller, LeaveQueue, GiveBackPermit, Waiters, TypeOK
    <2>2. ASSUME NEW d \in Calls, Closure(d) PROVE phase[c] = "spawned"
      BY <2>2 DEF Closure, StartClosure, CheckoutReader, ParkForReader, CheckinReader, LockWriter,
                  UnlockWriter, FinishClosure, PanicClosure, UnwindClosure, Complete, GiveBackPermit, Waiters, TypeOK
    <2>3. ASSUME NEW d \in Calls, DropSpawned(d) PROVE phase[c] = "spawned"
      BY <2>3 DEF DropSpawned, GiveBackPermit, Waiters, TypeOK
    <2>4. CASE Owner
      BY <2>4 DEF Owner, CloseReads, CloseWrites, CountReads, CountWrites,
         ShutdownRuntime, RuntimeStopped, IntoEngine, Finished, vars
    <2>5. QED  BY <2>1, <2>2, <2>3, <2>4 DEF Next
  <1>2. QED  BY <1>1, Typing, PTL DEF Spec, NoAdmissionAfterClose

(* A call is told "overloaded" or "shutting down" from the queue only, so a *)
(* refusal never hides a closure that ran.                                  *)
THEOREM RefusalsNeverRan == Spec => RefusedNeverRan
  <1> DEFINE Kept == \A c \in Calls :
                       caller'[c] \in {"overloaded", "shutting_down"} /\ caller[c] = "waiting"
                       => phase[c] \in {"queued", "granted"}
  <1>1. TypeOK /\ [Next]_vars => [Kept]_vars
    <2> SUFFICES ASSUME TypeOK, Next, NEW c \in Calls,
                        caller'[c] \in {"overloaded", "shutting_down"}, caller[c] = "waiting"
                 PROVE  phase[c] \in {"queued", "granted"}
      BY DEF vars
    <2>1. ASSUME NEW d \in Calls, Caller(d) PROVE phase[c] \in {"queued", "granted"}
      BY <2>1 DEF Caller, Call, Admit, QueueTimeout, Refuse, DropCaller, LeaveQueue, TypeOK
    <2>2. ASSUME NEW d \in Calls, Closure(d) PROVE phase[c] \in {"queued", "granted"}
      BY <2>2 DEF Closure, StartClosure, CheckoutReader, ParkForReader, CheckinReader, LockWriter,
                  UnlockWriter, FinishClosure, PanicClosure, UnwindClosure, Complete, TypeOK
    <2>3. ASSUME NEW d \in Calls, DropSpawned(d) PROVE phase[c] \in {"queued", "granted"}
      BY <2>3 DEF DropSpawned, TypeOK
    <2>4. CASE Owner
      BY <2>4 DEF Owner, CloseReads, CloseWrites, CountReads, CountWrites,
         ShutdownRuntime, RuntimeStopped, IntoEngine, Finished, vars
    <2>5. QED  BY <2>1, <2>2, <2>3, <2>4 DEF Next
  <1>2. QED  BY <1>1, Typing, PTL DEF Spec, RefusedNeverRan

-----------------------------------------------------------------------------
(* Idleness is final. *)

(* What wait_idle leaves behind: the semaphores are closed and no closure   *)
(* is left.                                                                 *)
Quiet == closed = Lanes /\ NothingUsesTheDatabase

(* Nobody who is refused, gives up or is assigned a permit starts a closure,*)
(* so quiet stays quiet.                                                    *)
LEMMA QuietStep == TypeOK /\ Quiet /\ [Next]_vars => Quiet'
  <1> SUFFICES ASSUME TypeOK, Quiet, [Next]_vars PROVE Quiet'
    OBVIOUS
  <1> USE DEF Quiet, NothingUsesTheDatabase, ClosurePhases
  <1>1. ASSUME NEW c \in Calls, Caller(c) PROVE Quiet'
    <2>1. Lane(c) \in closed /\ \A k \in Kinds : LaneOf(k) \in closed
      BY LaneType DEF TypeOK, Lane
    <2>2. QED
      BY <1>1, <2>1 DEF Caller, Call, Admit, QueueTimeout, Refuse, DropCaller, LeaveQueue,
         GiveBackPermit, TypeOK
  <1>2. ASSUME NEW c \in Calls, Closure(c) PROVE Quiet'
    <2>1. Complete(c)
      BY <1>2 DEF Closure, StartClosure, CheckoutReader, ParkForReader, CheckinReader, LockWriter,
                  UnlockWriter, FinishClosure, PanicClosure, UnwindClosure
    <2>2. QED  BY <2>1 DEF Complete, TypeOK
  <1>3. ASSUME NEW c \in Calls, DropSpawned(c) PROVE Quiet'
    BY <1>3 DEF DropSpawned
  <1>4. CASE Owner
    BY <1>4 DEF Owner, CloseReads, CloseWrites, CountReads, CountWrites,
       ShutdownRuntime, RuntimeStopped, IntoEngine, Finished, Lanes, vars
  <1>5. CASE UNCHANGED vars
    BY <1>5 DEF vars
  <1>6. QED  BY <1>1, <1>2, <1>3, <1>4, <1>5 DEF Next

(* The owner closes the semaphores before it counts.  The lane it has found *)
(* idle stays idle while it reads the other one.                            *)
ReadsAreOver == \A c \in Calls : Lane(c) = "read" => phase[c] \notin PermitPhases

DrainedIsQuiet ==
  /\ owner = "serving" => closed = {}
  /\ owner = "half_closed" => closed = {"read"}
  /\ owner \notin {"serving", "half_closed"} => closed = Lanes
  /\ owner = "reads_idle" => ReadsAreOver
  /\ owner = "drained" => Quiet

(* With no permit of a lane out, none of its calls is inside: in_flight     *)
(* counts them all.                                                         *)
LEMMA NothingInFlight ==
  ASSUME TypeOK, PermitsConserved, NEW l \in Lanes, InFlight(l) = 0
  PROVE  \A c \in Calls : Lane(c) = l => phase[c] \notin PermitPhases
  <1>1. IsFiniteSet(PermitHolders(l)) /\ Cardinality(PermitHolders(l)) \in Nat
    BY FiniteCalls DEF PermitHolders
  <1>2. /\ available[l] \in Nat /\ MaxPermits(l) \in Nat
        /\ available[l] + Cardinality(PermitHolders(l)) = MaxPermits(l)
    BY MaxPermitsType DEF TypeOK, PermitsConserved
  <1>3. MaxPermits(l) - available[l] = 0
    BY DEF InFlight
  <1>4. Cardinality(PermitHolders(l)) = 0
    BY <1>1, <1>2, <1>3
  <1>5. PermitHolders(l) = {}
    BY <1>1, <1>4, FS_EmptySet
  <1>6. QED  BY <1>5 DEF PermitHolders

(* A closed lane with no permit out admits nobody.                          *)
LEMMA ReadsStayOver ==
  ASSUME TypeOK, closed = Lanes, ReadsAreOver, NEW c \in Calls,
         Caller(c) \/ Closure(c) \/ DropSpawned(c)
  PROVE  ReadsAreOver'
  <1> USE DEF ReadsAreOver, PermitPhases, ClosurePhases, Lane, Lanes
  <1>1. ASSUME NEW k \in Kinds, Call(c, k) PROVE ReadsAreOver'
    <2>1. LaneOf(k) \in closed  BY LaneType
    <2>2. QED  BY <1>1, <2>1 DEF Call, TypeOK
  <1>2. kind' = kind \/ \E k \in Kinds : Call(c, k)
    BY DEF Caller, Closure, Admit, QueueTimeout, Refuse, DropCaller, StartClosure, CheckoutReader,
       ParkForReader, CheckinReader, LockWriter, UnlockWriter, FinishClosure, PanicClosure,
       UnwindClosure, Complete, DropSpawned
  <1>3. Lane(c) \in closed
    BY LaneType DEF TypeOK
  <1>4. CASE Caller(c) /\ kind' = kind /\ ~\E k \in Kinds : Call(c, k)
    BY <1>3, <1>4 DEF Caller, Admit, QueueTimeout, Refuse, DropCaller, LeaveQueue, GiveBackPermit,
       TypeOK
  <1>5. CASE Closure(c) /\ kind' = kind
    BY <1>3, <1>5 DEF Closure, StartClosure, CheckoutReader, ParkForReader, CheckinReader, LockWriter,
       UnlockWriter, FinishClosure, PanicClosure, UnwindClosure, Complete, GiveBackPermit, TypeOK
  <1>6. CASE DropSpawned(c)
    BY <1>3, <1>6 DEF DropSpawned, GiveBackPermit, TypeOK
  <1>7. QED  BY <1>1, <1>2, <1>4, <1>5, <1>6

(* The owner's order is kept by every step. *)
LEMMA DrainedStep == TypeOK /\ PermitsConserved /\ DrainedIsQuiet /\ [Next]_vars => DrainedIsQuiet'
  <1> SUFFICES ASSUME TypeOK, PermitsConserved, DrainedIsQuiet, [Next]_vars PROVE DrainedIsQuiet'
    OBVIOUS
  <1>1. ASSUME owner' = owner, closed' = closed, owner = "reads_idle" => ReadsAreOver'
        PROVE  DrainedIsQuiet'
    BY <1>1, QuietStep DEF DrainedIsQuiet
  <1>2. CASE CloseReads \/ CloseWrites
    <2>1. owner = "serving" => closed = {}
      BY DEF DrainedIsQuiet
    <2>2. QED  BY <1>2, <2>1 DEF CloseReads, CloseWrites, DrainedIsQuiet, Lanes
  <1>3. CASE CountReads \/ CountWrites
    <2>1. UNCHANGED <<kind, phase, closed>> /\ closed = Lanes
      BY <1>3 DEF CountReads, CountWrites, DrainedIsQuiet
    <2>2. CASE CountReads /\ InFlight("read") = 0
      <3>1. ReadsAreOver
        BY <2>2, NothingInFlight DEF ReadsAreOver, Lanes
      <3>2. QED  BY <2>1, <2>2, <3>1 DEF CountReads, DrainedIsQuiet, ReadsAreOver, Lane
    <2>3. CASE CountWrites /\ InFlight("write") = 0
      <3>1. ReadsAreOver /\ \A c \in Calls : Lane(c) = "write" => phase[c] \notin PermitPhases
        BY <2>3, NothingInFlight DEF CountWrites, DrainedIsQuiet, Lanes
      <3>2. \A c \in Calls : Lane(c) \in {"read", "write"}
        BY LaneType DEF TypeOK, Lane, Lanes
      <3>3. NothingUsesTheDatabase
        BY <3>1, <3>2 DEF ReadsAreOver, NothingUsesTheDatabase, PermitPhases
      <3>4. QED
        BY <2>1, <2>3, <3>3 DEF CountWrites, DrainedIsQuiet, Quiet, NothingUsesTheDatabase
    <2>4. CASE owner' \in {"closing", "overdue"}
      BY <2>1, <2>4 DEF DrainedIsQuiet
    <2>5. QED  BY <1>3, <2>2, <2>3, <2>4 DEF CountReads, CountWrites
  <1>4. CASE ShutdownRuntime  BY <1>4 DEF ShutdownRuntime, DrainedIsQuiet
  <1>5. CASE RuntimeStopped  BY <1>5 DEF RuntimeStopped, DrainedIsQuiet
  <1>6. CASE IntoEngine  BY <1>6 DEF IntoEngine, DrainedIsQuiet
  <1>7. CASE Finished  BY <1>1, <1>7 DEF Finished, vars
  <1>8. ASSUME NEW c \in Calls, Caller(c) \/ Closure(c) \/ DropSpawned(c) PROVE DrainedIsQuiet'
    <2>1. owner' = owner /\ closed' = closed
      BY <1>8 DEF Caller, Call, Admit, QueueTimeout, Refuse, DropCaller, Closure, StartClosure,
       CheckoutReader, ParkForReader, CheckinReader, LockWriter, UnlockWriter, FinishClosure,
       PanicClosure, UnwindClosure, Complete, DropSpawned
    <2>2. owner = "reads_idle" => ReadsAreOver'
      BY <1>8, ReadsStayOver DEF DrainedIsQuiet
    <2>3. QED  BY <1>1, <2>1, <2>2
  <1>9. CASE UNCHANGED vars
    BY <1>1, <1>9 DEF vars, DrainedIsQuiet, ReadsAreOver, Lane
  <1>10. QED
    BY <1>2, <1>3, <1>4, <1>5, <1>6, <1>7, <1>8, <1>9 DEF Next, Owner

(* Once wait_idle has answered true nothing ever uses the database again.   *)
THEOREM IdlenessIsFinal == Spec => IdleIsFinal
  <1>1. Init => DrainedIsQuiet
    BY DEF Init, DrainedIsQuiet
  <1>2. IndInv => TypeOK /\ PermitsConserved  BY DEF IndInv
  <1>3. Spec => []DrainedIsQuiet
    BY <1>1, <1>2, DrainedStep, Invariance, PTL DEF Spec
  <1>4. DrainedIsQuiet /\ owner = "drained" => Quiet  BY DEF DrainedIsQuiet
  <1>5. Quiet => NothingUsesTheDatabase  BY DEF Quiet
  <1>6. QED
    BY <1>3, <1>4, <1>5, QuietStep, Typing, PTL DEF Spec, IdleIsFinal

-----------------------------------------------------------------------------
(* The facade implements admission control. *)

(* A step in which one call alone is seen to move.                          *)
LEMMA OneMoves ==
  ASSUME NEW c \in Calls, NEW s, Seen(phase'[c]) = s,
         \A d \in Calls \ {c} : Seen(phase'[d]) = Seen(phase[d])
  PROVE  SeenState' = [SeenState EXCEPT ![c] = s]
  BY DEF SeenState

(* A step in which nobody is seen to move.                                  *)
LEMMA NobodyMoves ==
  ASSUME kind' = kind, closed' = closed, \A d \in Calls : Seen(phase'[d]) = Seen(phase[d])
  PROVE  UNCHANGED Admission!vars
  BY DEF SeenState, SeenLane, Lane, Admission!vars

(* A permit given back is seen as its call's going out: the waiter it may   *)
(* be handed to has still to wait for its task to be polled.                *)
LEMMA HandedBackUnseen ==
  ASSUME TypeOK, NEW c \in Calls, NEW p \in {"over", "returning", "unwinding"},
         phase[c] # "queued", GiveBackPermit(c, p)
  PROVE  SeenState' = [SeenState EXCEPT ![c] = "outside"]
  <1>1. phase'[c] = p /\ \A d \in Calls \ {c} : Seen(phase'[d]) = Seen(phase[d])
    BY DEF GiveBackPermit, Waiters, TypeOK, Seen
  <1>2. Seen(p) = "outside"  BY DEF Seen, ClosurePhases
  <1>3. QED  BY <1>1, <1>2, OneMoves

(* AdmissionControl counts as everyone does.                                *)
LEMMA SameCount == \A S : Admission!Cardinality(S) = Cardinality(S)
  BY DEF Admission!Cardinality, Cardinality

(* A call inside a lane holds one of its permits. *)
LEMMA InsideHolds ==
  ASSUME NEW l \in Lanes
  PROVE  Admission!Inside(l) = { c \in PermitHolders(l) : phase[c] # "granted" }
  BY DEF Admission!Inside, SeenState, SeenLane, Seen, ClosurePhases, PermitHolders, PermitPhases

(* Fewer are inside a lane than it has permits, if one is free or assigned  *)
(* to a waiter.                                                             *)
LEMMA RoomInLane ==
  ASSUME TypeOK, PermitsConserved, NEW l \in Lanes,
         available[l] > 0 \/ \E c \in PermitHolders(l) : phase[c] = "granted"
  PROVE  Cardinality(Admission!Inside(l)) < MaxPermits(l)
  <1> DEFINE H == PermitHolders(l)
             I == Admission!Inside(l)
  <1>1. IsFiniteSet(H) /\ Cardinality(H) \in Nat
    BY FiniteCalls DEF PermitHolders
  <1>2. I \subseteq H  BY InsideHolds
  <1>3. Cardinality(I) \in Nat /\ Cardinality(I) <= Cardinality(H)
    BY <1>1, <1>2, FS_Subset, FS_CardinalityType
  <1>4. /\ available[l] \in Nat /\ MaxPermits(l) \in Nat
        /\ available[l] + Cardinality(H) = MaxPermits(l)
    BY MaxPermitsType DEF TypeOK, PermitsConserved
  <1> SUFFICES Cardinality(I) < MaxPermits(l)
    OBVIOUS
  <1>5. CASE available[l] > 0
    <2> HIDE DEF H, I
    <2>1. QED  BY <1>1, <1>3, <1>4, <1>5
  <1>6. CASE \E c \in H : phase[c] = "granted"
    <2>1. PICK c \in H : phase[c] = "granted"  BY <1>6
    <2>2. I \subseteq H \ {c}  BY <2>1, InsideHolds
    <2>3. IsFiniteSet(H \ {c}) /\ Cardinality(H \ {c}) = Cardinality(H) - 1
      BY <1>1, <2>1, FS_RemoveElement
    <2>4. Cardinality(I) <= Cardinality(H) - 1
      BY <2>2, <2>3, FS_Subset
    <2> HIDE DEF H, I
    <2>5. QED  BY <1>1, <1>3, <1>4, <2>4
  <1>7. QED  BY <1>5, <1>6

(* The callers' half: asking, entering, giving up, leaving.                 *)
LEMMA CallerRefines ==
  ASSUME TypeOK, PermitsConserved, NEW c \in Calls, Caller(c)
  PROVE  [Admission!Next]_Admission!vars
  <1> USE DEF Seen, ClosurePhases, ArcPhases
  <1>0. SeenState[c] = Seen(phase[c]) /\ SeenLane[c] = Lane(c)
    BY DEF SeenState, SeenLane
  <1>1. ASSUME NEW k \in Kinds, Call(c, k) PROVE Admission!Next
    <2> DEFINE l == LaneOf(k)
    <2>1. l \in Lanes /\ SeenState[c] = "outside"  BY <1>0, <1>1, LaneType DEF Call
    <2>2. SeenLane' = [SeenLane EXCEPT ![c] = l]
      BY <1>1 DEF Call, SeenLane, Lane, TypeOK
    <2>3. CASE l \notin closed /\ available[l] > 0 /\ phase' = [phase EXCEPT ![c] = "spawned"]
      <3>1. SeenState' = [SeenState EXCEPT ![c] = "inside"]
        BY <2>3, OneMoves DEF TypeOK
      <3>2. Cardinality(Admission!Inside(l)) < MaxPermits(l)
        BY <2>1, <2>3, RoomInLane
      <3>3. Admission!Enter(c, l)
        BY <1>1, <2>1, <2>2, <2>3, <3>1, <3>2, SameCount DEF Call, Admission!Enter
      <3>4. QED  BY <2>1, <3>3 DEF Admission!Next
    <2>4. CASE phase' = [phase EXCEPT ![c] = "queued"]
      <3>1. SeenState' = [SeenState EXCEPT ![c] = "waiting"]
        BY <2>4, OneMoves DEF TypeOK
      <3>2. Admission!Ask(c, l)
        BY <1>1, <2>1, <2>2, <3>1 DEF Call, Admission!Ask
      <3>3. QED  BY <2>1, <3>2 DEF Admission!Next
    <2>5. QED  BY <1>1, <2>3, <2>4 DEF Call
  <1>2. ASSUME Admit(c) PROVE Admission!Next
    <2>1. Lane(c) \in Lanes  BY LaneType DEF TypeOK, Lane
    <2>2. SeenState[c] = "waiting" /\ SeenState' = [SeenState EXCEPT ![c] = "inside"]
      BY <1>0, <1>2, OneMoves DEF Admit, TypeOK
    <2>3. SeenLane' = SeenLane /\ SeenLane' = [SeenLane EXCEPT ![c] = Lane(c)]
      BY <1>2 DEF Admit, SeenLane, Lane
    <2>4. c \in PermitHolders(Lane(c)) /\ phase[c] = "granted"
      BY <1>2 DEF Admit, PermitHolders, PermitPhases
    <2>5. Cardinality(Admission!Inside(Lane(c))) < MaxPermits(Lane(c))
      BY <2>1, <2>4, RoomInLane
    <2>6. Admission!Enter(c, Lane(c))
      BY <1>0, <1>2, <2>1, <2>2, <2>3, <2>5, SameCount DEF Admit, Admission!Enter
    <2>7. QED  BY <2>1, <2>6 DEF Admission!Next
  <1>3. ASSUME phase[c] \in {"queued", "granted"}, kind' = kind, closed' = closed,
               SeenState' = [SeenState EXCEPT ![c] = "outside"]
        PROVE  Admission!Next
    <2>1. SeenLane' = SeenLane  BY <1>3 DEF SeenLane, Lane
    <2>2. Admission!GiveUp(c)  BY <1>0, <1>3, <2>1 DEF Admission!GiveUp
    <2>3. QED  BY <2>2 DEF Admission!Next
  <1>8. ASSUME LeaveQueue(c)
        PROVE  /\ phase[c] \in {"queued", "granted"}
               /\ SeenState' = [SeenState EXCEPT ![c] = "outside"]
    <2>1. CASE phase[c] = "queued" /\ phase' = [phase EXCEPT ![c] = "over"]
      BY <2>1, OneMoves DEF TypeOK
    <2>2. CASE phase[c] = "granted" /\ GiveBackPermit(c, "over")
      BY <2>2, HandedBackUnseen
    <2>3. QED  BY <1>8, <2>1, <2>2 DEF LeaveQueue
  <1>4. ASSUME QueueTimeout(c) PROVE Admission!Next
    BY <1>3, <1>4, <1>8 DEF QueueTimeout
  <1>5. ASSUME Refuse(c) PROVE Admission!Next
    BY <1>3, <1>5, <1>8 DEF Refuse
  <1>6. ASSUME DropCaller(c) PROVE [Admission!Next]_Admission!vars
    <2>1. CASE LeaveQueue(c)
      BY <1>3, <1>6, <1>8, <2>1 DEF DropCaller
    <2>2. CASE phase[c] \in ArcPhases /\ UNCHANGED <<phase, available>>
      BY <1>6, <2>2, NobodyMoves DEF DropCaller
    <2>3. QED  BY <1>6, <2>1, <2>2 DEF DropCaller
  <1>7. QED  BY <1>1, <1>2, <1>4, <1>5, <1>6 DEF Caller

(* The closures' half: a closure that gives its permit back leaves, and     *)
(* nothing else it does is seen.                                            *)
LEMMA ClosureRefines ==
  ASSUME TypeOK, NEW c \in Calls, Closure(c) \/ DropSpawned(c)
  PROVE  [Admission!Next]_Admission!vars
  <1> USE DEF Seen, ClosurePhases
  <1>1. ASSUME phase[c] \in ClosurePhases \union {"spawned"}, kind' = kind, closed' = closed,
               NEW p \in {"over", "returning", "unwinding"}, GiveBackPermit(c, p)
        PROVE  Admission!Next
    <2>1. SeenState' = [SeenState EXCEPT ![c] = "outside"]
      BY <1>1, HandedBackUnseen
    <2>2. SeenState[c] = "inside" /\ SeenLane' = SeenLane
      BY <1>1 DEF SeenState, SeenLane, Lane
    <2>3. Admission!Leave(c)  BY <1>1, <2>1, <2>2 DEF Admission!Leave
    <2>4. QED  BY <2>3 DEF Admission!Next
  <1>2. CASE FinishClosure(c)
    BY <1>1, <1>2 DEF FinishClosure
  <1>3. CASE UnwindClosure(c)
    BY <1>1, <1>3 DEF UnwindClosure
  <1>4. CASE DropSpawned(c)
    BY <1>1, <1>4 DEF DropSpawned
  <1>5. CASE StartClosure(c)
    BY <1>5, NobodyMoves DEF StartClosure, TypeOK
  <1>6. CASE CheckoutReader(c) \/ ParkForReader(c) \/ CheckinReader(c)
    BY <1>6, NobodyMoves DEF CheckoutReader, ParkForReader, CheckinReader, TypeOK
  <1>7. CASE LockWriter(c) \/ UnlockWriter(c) \/ PanicClosure(c)
    BY <1>7, NobodyMoves DEF LockWriter, UnlockWriter, PanicClosure, TypeOK
  <1>8. CASE Complete(c)
    BY <1>8, NobodyMoves DEF Complete, TypeOK
  <1>9. QED  BY <1>2, <1>3, <1>4, <1>5, <1>6, <1>7, <1>8 DEF Closure

(* Every step of the facade is a step of admission control or unseen.       *)
LEMMA AdmissionStep == TypeOK /\ PermitsConserved /\ [Next]_vars => [Admission!Next]_Admission!vars
  <1> SUFFICES ASSUME TypeOK, PermitsConserved, [Next]_vars PROVE [Admission!Next]_Admission!vars
    OBVIOUS
  <1>1. CASE CloseReads \/ CloseWrites
    <2>1. PICK l \in Lanes : closed' = closed \union {l}
      BY <1>1 DEF CloseReads, CloseWrites, Lanes
    <2>2. SeenState' = SeenState /\ SeenLane' = SeenLane
      BY <1>1 DEF CloseReads, CloseWrites, SeenState, SeenLane, Lane
    <2>3. QED  BY <2>1, <2>2 DEF Admission!Close, Admission!Next
  <1>2. CASE \/ CountReads \/ CountWrites \/ ShutdownRuntime \/ RuntimeStopped \/ IntoEngine
             \/ Finished \/ UNCHANGED vars
    BY <1>2, NobodyMoves DEF CountReads, CountWrites, ShutdownRuntime, RuntimeStopped, IntoEngine,
       Finished, vars
  <1>3. QED  BY <1>1, <1>2, CallerRefines, ClosureRefines DEF Next, Owner

(* The facade implements plain admission control: per lane no more calls    *)
(* inside than it has permits, and nobody let in once it is closed.         *)
THEOREM FacadeAdmits == Spec => ImplementsAdmission
  <1>1. Init => Admission!Init
    <2> SUFFICES ASSUME Init PROVE Admission!Init
      OBVIOUS
    <2>1. SeenState = [c \in Calls |-> "outside"]
      BY DEF Init, SeenState, Seen, ClosurePhases
    <2>2. SeenLane \in [Calls -> Lanes]
      BY LaneType DEF Init, SeenLane, Lane, Kinds
    <2>3. QED  BY <2>1, <2>2 DEF Init, Admission!Init
  <1>2. IndInv => TypeOK /\ PermitsConserved  BY DEF IndInv
  <1>3. QED
    BY <1>1, <1>2, AdmissionStep, Invariance, PTL DEF Spec, ImplementsAdmission, Admission!Spec

-----------------------------------------------------------------------------
(* The composition. *)

(* A step of the two together is a step, or none, of each. *)
LEMMA PooledStep == [PooledNext]_pooledVars => [Next]_vars /\ [PoolNext]_poolVars
  <1>1. ASSUME NEW c \in Calls, ClosureRuns(c) \/ Stirs(c)
        PROVE  [Next]_vars /\ [PoolNext]_poolVars
    <2>1. c \in Threads  BY ThreadsAreCalls
    <2>2. CASE GetsReader(c)  BY <2>1, <2>2 DEF GetsReader, Next, Closure, PoolNext
    <2>3. CASE SleepsForReader(c)  BY <2>1, <2>3 DEF SleepsForReader, Next, Closure, PoolNext
    <2>4. CASE PutsReader(c)  BY <2>1, <2>4 DEF PutsReader, Next, Closure, PoolNext
    <2>5. CASE AsksForReader(c) \/ Announces(c) \/ Stirs(c)
      BY <2>1, <2>5 DEF AsksForReader, Announces, Stirs, PoolNext
    <2>6. CASE ElsewhereInClosure(c)  BY <2>6 DEF ElsewhereInClosure, Next, Closure
    <2>7. QED  BY <1>1, <2>2, <2>3, <2>4, <2>5, <2>6 DEF ClosureRuns
  <1>2. ASSUME OutsideThePool(Owner) \/ \E c \in Calls : OutsideThePool(Caller(c) \/ DropSpawned(c))
        PROVE  [Next]_vars /\ [PoolNext]_poolVars
    BY <1>2 DEF OutsideThePool, Next
  <1>3. CASE UNCHANGED pooledVars  BY <1>3 DEF pooledVars
  <1>4. QED  BY <1>1, <1>2, <1>3 DEF PooledNext

(* The facade on the pool's mutex and Condvar is a facade and a pool: what  *)
(* is proved of AsyncStorage and of WaitPool holds of the two together.     *)
THEOREM Composition == PooledSpec => Spec /\ PoolSpec
  <1>1. PooledInit => Init /\ PoolInit  BY DEF PooledInit
  <1>2. QED  BY <1>1, PooledStep, PTL DEF PooledSpec, Spec, PoolSpec

(* The readers that the facade counts as idle are those in the pool.        *)
THEOREM PoolsAgree == PooledSpec => [](idle = free)
  <1>1. PooledInit => idle = free
    BY SizeIsReaderSlots DEF PooledInit, Init, PoolInit
  <1>2. idle = free /\ [PooledNext]_pooledVars => (idle = free)'
    <2> SUFFICES ASSUME idle = free, [PooledNext]_pooledVars PROVE idle' = free'
      OBVIOUS
    <2>1. ASSUME NEW c \in Calls, OutsideThePool(Caller(c) \/ DropSpawned(c)) PROVE idle' = free'
      BY <2>1 DEF OutsideThePool, poolVars, Caller, Call, Admit, QueueTimeout, Refuse, DropCaller, DropSpawned
    <2>2. CASE OutsideThePool(Owner)
      BY <2>2 DEF OutsideThePool, poolVars, Owner, CloseReads, CloseWrites, CountReads, CountWrites,
                  ShutdownRuntime, RuntimeStopped, IntoEngine, Finished, vars
    <2>3. ASSUME NEW c \in Calls, ElsewhereInClosure(c) PROVE idle' = free'
      BY <2>3 DEF ElsewhereInClosure, poolVars, StartClosure, LockWriter, UnlockWriter, FinishClosure,
                  PanicClosure, UnwindClosure, Complete
    <2>4. ASSUME NEW c \in Calls, GetsReader(c) \/ SleepsForReader(c) PROVE idle' = free'
      BY <2>4 DEF GetsReader, SleepsForReader, CheckoutReader, ParkForReader, Take, Sleep, vars
    <2>5. ASSUME NEW c \in Calls, PutsReader(c) PROVE idle' = free'
      BY <2>5 DEF PutsReader, CheckinReader, PanicClosure, Push
    <2>6. ASSUME NEW c \in Calls, AsksForReader(c) \/ Announces(c) \/ Stirs(c) PROVE idle' = free'
      BY <2>6 DEF AsksForReader, Announces, Stirs, Checkout, Notify, WakeUnasked, vars
    <2>7. QED
      BY <2>1, <2>2, <2>3, <2>4, <2>5, <2>6 DEF PooledNext, ClosureRuns, pooledVars, vars, poolVars
  <1>3. QED  BY <1>1, <1>2, PTL DEF PooledSpec

=============================================================================
