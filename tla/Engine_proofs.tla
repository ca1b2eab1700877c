--------------------------- MODULE Engine_proofs ---------------------------
(***************************************************************************)
(* Theorems about the engine process: EngineInstances, for every set of    *)
(* processes and inodes, then EngineServe, for every set of RPCs and       *)
(* signals, and that the latter implements Lifecycle step by step.         *)
(***************************************************************************)
EXTENDS EngineInstances, EngineServe, TLAPS

-----------------------------------------------------------------------------
(* The lock, the socket and the database of one data directory.            *)

(* Without a stale lock the owner is unique: two owners would share the     *)
(* inode the path names, and its flock is granted once.                     *)
LEMMA LinkedOwnersCoincide == FlockExclusive /\ OwnerIsLinked => SingleOwner
  BY DEF FlockExclusive, OwnerIsLinked, SingleOwner

(* The type invariant is inductive, with the handles open where used.        *)
LEMMA TypeStep ==
  ASSUME InstancesTypeOK, HandleWhileStarted, [InstancesNext]_instancesVars
  PROVE  InstancesTypeOK'
  <1> USE DEF InstancesTypeOK, ProcessStages, HandleWhileStarted
  <1>1. ASSUME NEW p \in Procs, OpenLockFile(p) PROVE InstancesTypeOK'
    BY <1>1 DEF OpenLockFile
  <1>2. ASSUME NEW p \in Procs, TryLock(p) PROVE InstancesTypeOK'
    BY <1>2 DEF TryLock
  <1>3. ASSUME NEW p \in Procs, ReportHolder(p) PROVE InstancesTypeOK'
    BY <1>3 DEF ReportHolder
  <1>4. ASSUME NEW p \in Procs, TruncatePid(p) PROVE InstancesTypeOK'
    BY <1>4 DEF TruncatePid
  <1>5. ASSUME NEW p \in Procs, WritePid(p) PROVE InstancesTypeOK'
    BY <1>5 DEF WritePid
  <1>6. ASSUME NEW p \in Procs, AcquireFails(p) PROVE InstancesTypeOK'
    BY <1>6 DEF AcquireFails
  <1>7. ASSUME NEW p \in Procs, PrepareSocket(p) PROVE InstancesTypeOK'
    BY <1>7 DEF PrepareSocket
  <1>8. ASSUME NEW p \in Procs, OpenDatabase(p) PROVE InstancesTypeOK'
    BY <1>8 DEF OpenDatabase
  <1>9. ASSUME NEW p \in Procs, BindSocket(p) PROVE InstancesTypeOK'
    BY <1>9 DEF BindSocket
  <1>10. ASSUME NEW p \in Procs, StartServing(p) PROVE InstancesTypeOK'
    BY <1>10 DEF StartServing
  <1>11. ASSUME NEW p \in Procs, BootStepFails(p) PROVE InstancesTypeOK'
    BY <1>11 DEF BootStepFails
  <1>12. ASSUME NEW p \in Procs, StopServing(p) PROVE InstancesTypeOK'
    BY <1>12 DEF StopServing
  <1>13. ASSUME NEW p \in Procs, CloseDatabase(p) PROVE InstancesTypeOK'
    BY <1>13 DEF CloseDatabase
  <1>14. ASSUME NEW p \in Procs, UnlinkLockFile(p) PROVE InstancesTypeOK'
    BY <1>14 DEF UnlinkLockFile
  <1>15. ASSUME NEW p \in Procs, Unlock(p) PROVE InstancesTypeOK'
    BY <1>15 DEF Unlock
  <1>16. ASSUME NEW p \in Procs, CloseDatabaseLate(p) PROVE InstancesTypeOK'
    BY <1>16 DEF CloseDatabaseLate
  <1>17. ASSUME NEW p \in Procs, Crash(p) PROVE InstancesTypeOK'
    BY <1>17 DEF Crash
  <1>18. CASE UNCHANGED instancesVars
    BY <1>18 DEF instancesVars
  <1>19. QED
    BY <1>1, <1>2, <1>3, <1>4, <1>5, <1>6, <1>7, <1>8, <1>9, <1>10, <1>11, <1>12, <1>13, <1>14, <1>15, <1>16, <1>17, <1>18
    DEF InstancesNext, Acquire, Boot, TearDown

(* Handles are open exactly in the started stages. *)
LEMMA HandleStep ==
  ASSUME InstancesTypeOK, HandleWhileStarted, [InstancesNext]_instancesVars
  PROVE  HandleWhileStarted'
  <1> USE NoInodeAssumption DEF InstancesTypeOK, ProcessStages, HandleWhileStarted
  <1>1. ASSUME NEW p \in Procs, OpenLockFile(p) PROVE HandleWhileStarted'
    BY <1>1 DEF OpenLockFile
  <1>2. ASSUME NEW p \in Procs, TryLock(p) PROVE HandleWhileStarted'
    BY <1>2 DEF TryLock
  <1>3. ASSUME NEW p \in Procs, ReportHolder(p) PROVE HandleWhileStarted'
    BY <1>3 DEF ReportHolder
  <1>4. ASSUME NEW p \in Procs, TruncatePid(p) PROVE HandleWhileStarted'
    BY <1>4 DEF TruncatePid
  <1>5. ASSUME NEW p \in Procs, WritePid(p) PROVE HandleWhileStarted'
    BY <1>5 DEF WritePid
  <1>6. ASSUME NEW p \in Procs, AcquireFails(p) PROVE HandleWhileStarted'
    BY <1>6 DEF AcquireFails
  <1>7. ASSUME NEW p \in Procs, PrepareSocket(p) PROVE HandleWhileStarted'
    BY <1>7 DEF PrepareSocket
  <1>8. ASSUME NEW p \in Procs, OpenDatabase(p) PROVE HandleWhileStarted'
    BY <1>8 DEF OpenDatabase
  <1>9. ASSUME NEW p \in Procs, BindSocket(p) PROVE HandleWhileStarted'
    BY <1>9 DEF BindSocket
  <1>10. ASSUME NEW p \in Procs, StartServing(p) PROVE HandleWhileStarted'
    BY <1>10 DEF StartServing
  <1>11. ASSUME NEW p \in Procs, BootStepFails(p) PROVE HandleWhileStarted'
    BY <1>11 DEF BootStepFails
  <1>12. ASSUME NEW p \in Procs, StopServing(p) PROVE HandleWhileStarted'
    BY <1>12 DEF StopServing
  <1>13. ASSUME NEW p \in Procs, CloseDatabase(p) PROVE HandleWhileStarted'
    BY <1>13 DEF CloseDatabase
  <1>14. ASSUME NEW p \in Procs, UnlinkLockFile(p) PROVE HandleWhileStarted'
    BY <1>14 DEF UnlinkLockFile
  <1>15. ASSUME NEW p \in Procs, Unlock(p) PROVE HandleWhileStarted'
    BY <1>15 DEF Unlock
  <1>16. ASSUME NEW p \in Procs, CloseDatabaseLate(p) PROVE HandleWhileStarted'
    BY <1>16 DEF CloseDatabaseLate
  <1>17. ASSUME NEW p \in Procs, Crash(p) PROVE HandleWhileStarted'
    BY <1>17 DEF Crash
  <1>18. CASE UNCHANGED instancesVars
    BY <1>18 DEF instancesVars
  <1>19. QED
    BY <1>1, <1>2, <1>3, <1>4, <1>5, <1>6, <1>7, <1>8, <1>9, <1>10, <1>11, <1>12, <1>13, <1>14, <1>15, <1>16, <1>17, <1>18
    DEF InstancesNext, Acquire, Boot, TearDown

(* No inode's flock is granted twice. *)
LEMMA FlockStep ==
  ASSUME InstancesTypeOK, HandleWhileStarted, FlockExclusive, [InstancesNext]_instancesVars
  PROVE  FlockExclusive'
  <1> USE NoInodeAssumption DEF InstancesTypeOK, HandleWhileStarted, FlockExclusive, Owns, OwningStages, HeldInode
  <1>1. ASSUME NEW p \in Procs, OpenLockFile(p) PROVE FlockExclusive'
    BY <1>1 DEF OpenLockFile
  <1>2. ASSUME NEW p \in Procs, TryLock(p) PROVE FlockExclusive'
    BY <1>2 DEF TryLock
  <1>3. ASSUME NEW p \in Procs, ReportHolder(p) PROVE FlockExclusive'
    BY <1>3 DEF ReportHolder
  <1>4. ASSUME NEW p \in Procs, TruncatePid(p) PROVE FlockExclusive'
    BY <1>4 DEF TruncatePid
  <1>5. ASSUME NEW p \in Procs, WritePid(p) PROVE FlockExclusive'
    BY <1>5 DEF WritePid
  <1>6. ASSUME NEW p \in Procs, AcquireFails(p) PROVE FlockExclusive'
    BY <1>6 DEF AcquireFails
  <1>7. ASSUME NEW p \in Procs, PrepareSocket(p) PROVE FlockExclusive'
    BY <1>7 DEF PrepareSocket
  <1>8. ASSUME NEW p \in Procs, OpenDatabase(p) PROVE FlockExclusive'
    BY <1>8 DEF OpenDatabase
  <1>9. ASSUME NEW p \in Procs, BindSocket(p) PROVE FlockExclusive'
    BY <1>9 DEF BindSocket
  <1>10. ASSUME NEW p \in Procs, StartServing(p) PROVE FlockExclusive'
    BY <1>10 DEF StartServing
  <1>11. ASSUME NEW p \in Procs, BootStepFails(p) PROVE FlockExclusive'
    BY <1>11 DEF BootStepFails
  <1>12. ASSUME NEW p \in Procs, StopServing(p) PROVE FlockExclusive'
    BY <1>12 DEF StopServing
  <1>13. ASSUME NEW p \in Procs, CloseDatabase(p) PROVE FlockExclusive'
    BY <1>13 DEF CloseDatabase
  <1>14. ASSUME NEW p \in Procs, UnlinkLockFile(p) PROVE FlockExclusive'
    BY <1>14 DEF UnlinkLockFile
  <1>15. ASSUME NEW p \in Procs, Unlock(p) PROVE FlockExclusive'
    BY <1>15 DEF Unlock
  <1>16. ASSUME NEW p \in Procs, CloseDatabaseLate(p) PROVE FlockExclusive'
    BY <1>16 DEF CloseDatabaseLate
  <1>17. ASSUME NEW p \in Procs, Crash(p) PROVE FlockExclusive'
    BY <1>17 DEF Crash
  <1>18. CASE UNCHANGED instancesVars
    BY <1>18 DEF instancesVars
  <1>19. QED
    BY <1>1, <1>2, <1>3, <1>4, <1>5, <1>6, <1>7, <1>8, <1>9, <1>10, <1>11, <1>12, <1>13, <1>14, <1>15, <1>16, <1>17, <1>18
    DEF InstancesNext, Acquire, Boot, TearDown

(* Without a stale lock the owner's inode stays the one the path names. *)
LEMMA LinkStep ==
  ASSUME InstancesTypeOK, HandleWhileStarted, FlockExclusive, OwnerIsLinked, [InstancesNext]_instancesVars
  PROVE  OwnerIsLinked'
  <1> USE NoInodeAssumption DEF InstancesTypeOK, HandleWhileStarted, FlockExclusive, OwnerIsLinked, Owns, OwningStages, HeldInode
  <1>1. ASSUME NEW p \in Procs, OpenLockFile(p) PROVE OwnerIsLinked'
    BY <1>1 DEF OpenLockFile
  <1>2. ASSUME NEW p \in Procs, TryLock(p) PROVE OwnerIsLinked'
    BY <1>2 DEF TryLock
  <1>3. ASSUME NEW p \in Procs, ReportHolder(p) PROVE OwnerIsLinked'
    BY <1>3 DEF ReportHolder
  <1>4. ASSUME NEW p \in Procs, TruncatePid(p) PROVE OwnerIsLinked'
    BY <1>4 DEF TruncatePid
  <1>5. ASSUME NEW p \in Procs, WritePid(p) PROVE OwnerIsLinked'
    BY <1>5 DEF WritePid
  <1>6. ASSUME NEW p \in Procs, AcquireFails(p) PROVE OwnerIsLinked'
    BY <1>6 DEF AcquireFails
  <1>7. ASSUME NEW p \in Procs, PrepareSocket(p) PROVE OwnerIsLinked'
    BY <1>7 DEF PrepareSocket
  <1>8. ASSUME NEW p \in Procs, OpenDatabase(p) PROVE OwnerIsLinked'
    BY <1>8 DEF OpenDatabase
  <1>9. ASSUME NEW p \in Procs, BindSocket(p) PROVE OwnerIsLinked'
    BY <1>9 DEF BindSocket
  <1>10. ASSUME NEW p \in Procs, StartServing(p) PROVE OwnerIsLinked'
    BY <1>10 DEF StartServing
  <1>11. ASSUME NEW p \in Procs, BootStepFails(p) PROVE OwnerIsLinked'
    BY <1>11 DEF BootStepFails
  <1>12. ASSUME NEW p \in Procs, StopServing(p) PROVE OwnerIsLinked'
    BY <1>12 DEF StopServing
  <1>13. ASSUME NEW p \in Procs, CloseDatabase(p) PROVE OwnerIsLinked'
    BY <1>13 DEF CloseDatabase
  <1>14. ASSUME NEW p \in Procs, UnlinkLockFile(p) PROVE OwnerIsLinked'
    BY <1>14 DEF UnlinkLockFile
  <1>15. ASSUME NEW p \in Procs, Unlock(p) PROVE OwnerIsLinked'
    BY <1>15 DEF Unlock
  <1>16. ASSUME NEW p \in Procs, CloseDatabaseLate(p) PROVE OwnerIsLinked'
    BY <1>16 DEF CloseDatabaseLate
  <1>17. ASSUME NEW p \in Procs, Crash(p) PROVE OwnerIsLinked'
    BY <1>17 DEF Crash
  <1>18. CASE UNCHANGED instancesVars
    BY <1>18 DEF instancesVars
  <1>19. QED
    BY <1>1, <1>2, <1>3, <1>4, <1>5, <1>6, <1>7, <1>8, <1>9, <1>10, <1>11, <1>12, <1>13, <1>14, <1>15, <1>16, <1>17, <1>18
    DEF InstancesNext, Acquire, Boot, TearDown

(* The lock file keeps naming its owner. *)
LEMMA PidStep ==
  ASSUME InstancesTypeOK, HandleWhileStarted, FlockExclusive, OwnerIsLinked, PidNamesOwner, [InstancesNext]_instancesVars
  PROVE  PidNamesOwner'
  <1> USE NoInodeAssumption DEF InstancesTypeOK, HandleWhileStarted, FlockExclusive, OwnerIsLinked, PidNamesOwner, Owns, OwningStages, HeldInode
  <1>1. ASSUME NEW p \in Procs, OpenLockFile(p) PROVE PidNamesOwner'
    BY <1>1 DEF OpenLockFile
  <1>2. ASSUME NEW p \in Procs, TryLock(p) PROVE PidNamesOwner'
    BY <1>2 DEF TryLock
  <1>3. ASSUME NEW p \in Procs, ReportHolder(p) PROVE PidNamesOwner'
    BY <1>3 DEF ReportHolder
  <1>4. ASSUME NEW p \in Procs, TruncatePid(p) PROVE PidNamesOwner'
    BY <1>4 DEF TruncatePid
  <1>5. ASSUME NEW p \in Procs, WritePid(p) PROVE PidNamesOwner'
    BY <1>5 DEF WritePid
  <1>6. ASSUME NEW p \in Procs, AcquireFails(p) PROVE PidNamesOwner'
    BY <1>6 DEF AcquireFails
  <1>7. ASSUME NEW p \in Procs, PrepareSocket(p) PROVE PidNamesOwner'
    BY <1>7 DEF PrepareSocket
  <1>8. ASSUME NEW p \in Procs, OpenDatabase(p) PROVE PidNamesOwner'
    BY <1>8 DEF OpenDatabase
  <1>9. ASSUME NEW p \in Procs, BindSocket(p) PROVE PidNamesOwner'
    BY <1>9 DEF BindSocket
  <1>10. ASSUME NEW p \in Procs, StartServing(p) PROVE PidNamesOwner'
    BY <1>10 DEF StartServing
  <1>11. ASSUME NEW p \in Procs, BootStepFails(p) PROVE PidNamesOwner'
    BY <1>11 DEF BootStepFails
  <1>12. ASSUME NEW p \in Procs, StopServing(p) PROVE PidNamesOwner'
    BY <1>12 DEF StopServing
  <1>13. ASSUME NEW p \in Procs, CloseDatabase(p) PROVE PidNamesOwner'
    BY <1>13 DEF CloseDatabase
  <1>14. ASSUME NEW p \in Procs, UnlinkLockFile(p) PROVE PidNamesOwner'
    BY <1>14 DEF UnlinkLockFile
  <1>15. ASSUME NEW p \in Procs, Unlock(p) PROVE PidNamesOwner'
    BY <1>15 DEF Unlock
  <1>16. ASSUME NEW p \in Procs, CloseDatabaseLate(p) PROVE PidNamesOwner'
    BY <1>16 DEF CloseDatabaseLate
  <1>17. ASSUME NEW p \in Procs, Crash(p) PROVE PidNamesOwner'
    BY <1>17 DEF Crash
  <1>18. CASE UNCHANGED instancesVars
    BY <1>18 DEF instancesVars
  <1>19. QED
    BY <1>1, <1>2, <1>3, <1>4, <1>5, <1>6, <1>7, <1>8, <1>9, <1>10, <1>11, <1>12, <1>13, <1>14, <1>15, <1>16, <1>17, <1>18
    DEF InstancesNext, Acquire, Boot, TearDown

(* Only the owner touches the socket file. *)
LEMMA SocketStep ==
  ASSUME InstancesTypeOK, SingleOwner, LiveSocketKept, [InstancesNext]_instancesVars
  PROVE  LiveSocketKept'
  <1> USE NoOneAssumption DEF InstancesTypeOK, SingleOwner, LiveSocketKept, ListeningStages, Owns, OwningStages, HeldInode
  <1>1. ASSUME NEW p \in Procs, OpenLockFile(p) PROVE LiveSocketKept'
    BY <1>1 DEF OpenLockFile
  <1>2. ASSUME NEW p \in Procs, TryLock(p) PROVE LiveSocketKept'
    BY <1>2 DEF TryLock
  <1>3. ASSUME NEW p \in Procs, ReportHolder(p) PROVE LiveSocketKept'
    BY <1>3 DEF ReportHolder
  <1>4. ASSUME NEW p \in Procs, TruncatePid(p) PROVE LiveSocketKept'
    BY <1>4 DEF TruncatePid
  <1>5. ASSUME NEW p \in Procs, WritePid(p) PROVE LiveSocketKept'
    BY <1>5 DEF WritePid
  <1>6. ASSUME NEW p \in Procs, AcquireFails(p) PROVE LiveSocketKept'
    BY <1>6 DEF AcquireFails
  <1>7. ASSUME NEW p \in Procs, PrepareSocket(p) PROVE LiveSocketKept'
    BY <1>7 DEF PrepareSocket
  <1>8. ASSUME NEW p \in Procs, OpenDatabase(p) PROVE LiveSocketKept'
    BY <1>8 DEF OpenDatabase
  <1>9. ASSUME NEW p \in Procs, BindSocket(p) PROVE LiveSocketKept'
    BY <1>9 DEF BindSocket
  <1>10. ASSUME NEW p \in Procs, StartServing(p) PROVE LiveSocketKept'
    BY <1>10 DEF StartServing
  <1>11. ASSUME NEW p \in Procs, BootStepFails(p) PROVE LiveSocketKept'
    BY <1>11 DEF BootStepFails
  <1>12. ASSUME NEW p \in Procs, StopServing(p) PROVE LiveSocketKept'
    BY <1>12 DEF StopServing
  <1>13. ASSUME NEW p \in Procs, CloseDatabase(p) PROVE LiveSocketKept'
    BY <1>13 DEF CloseDatabase
  <1>14. ASSUME NEW p \in Procs, UnlinkLockFile(p) PROVE LiveSocketKept'
    BY <1>14 DEF UnlinkLockFile
  <1>15. ASSUME NEW p \in Procs, Unlock(p) PROVE LiveSocketKept'
    BY <1>15 DEF Unlock
  <1>16. ASSUME NEW p \in Procs, CloseDatabaseLate(p) PROVE LiveSocketKept'
    BY <1>16 DEF CloseDatabaseLate
  <1>17. ASSUME NEW p \in Procs, Crash(p) PROVE LiveSocketKept'
    BY <1>17 DEF Crash
  <1>18. CASE UNCHANGED instancesVars
    BY <1>18 DEF instancesVars
  <1>19. QED
    BY <1>1, <1>2, <1>3, <1>4, <1>5, <1>6, <1>7, <1>8, <1>9, <1>10, <1>11, <1>12, <1>13, <1>14, <1>15, <1>16, <1>17, <1>18
    DEF InstancesNext, Acquire, Boot, TearDown

-----------------------------------------------------------------------------

(* InstancesInv holds throughout. *)
THEOREM InstancesInvariance == InstancesSpec => []InstancesInv
  <1>1. InstancesInit => InstancesInv
    BY NoInodeAssumption
    DEF InstancesInit, InstancesInv, InstancesTypeOK, ProcessStages, HandleWhileStarted, FlockExclusive, OwnerIsLinked,
        PidNamesOwner, LiveSocketKept, Owns, OwningStages, ListeningStages
  <1>2. InstancesInv /\ [InstancesNext]_instancesVars => InstancesInv'
    BY TypeStep, HandleStep, FlockStep, LinkStep, PidStep, SocketStep, LinkedOwnersCoincide
    DEF InstancesInv
  <1>3. QED  BY <1>1, <1>2, PTL DEF InstancesSpec

(* Type correctness. *)
THEOREM InstancesTyping == InstancesSpec => []InstancesTypeOK
  <1>1. InstancesInv => InstancesTypeOK  BY DEF InstancesInv
  <1>2. QED  BY <1>1, InstancesInvariance, PTL

(* One engine at a time, whatever crashes and whichever releases happen,    *)
(* unless a removed lock file was locked.                                   *)
THEOREM OneOwner == InstancesSpec => []SingleOwner
  <1>1. InstancesInv => SingleOwner  BY LinkedOwnersCoincide DEF InstancesInv
  <1>2. QED  BY <1>1, InstancesInvariance, PTL

(* The lock file names the engine that owns it. *)
THEOREM PidIsTruthful == InstancesSpec => []PidNamesOwner
  <1>1. InstancesInv => PidNamesOwner  BY DEF InstancesInv
  <1>2. QED  BY <1>1, InstancesInvariance, PTL

(* A live engine keeps its socket file. *)
THEOREM SocketIsKept == InstancesSpec => []LiveSocketKept
  <1>1. InstancesInv => LiveSocketKept  BY DEF InstancesInv
  <1>2. QED  BY <1>1, InstancesInvariance, PTL

-----------------------------------------------------------------------------
(* Serving and shutting down.                                              *)

(* The engine boots into the invariant. *)
LEMMA InitInv == Init => ServeInv
  BY DEF Init, ServeInv, TypeOK, StagePublished, StageOutcome, StageServer, ClosedBehindServer,
         HandlingNeedsConnection, CheckpointInTeardown, CleanStopHasNoVictims,
         TerminalStateTellsOutcome, FinalCheckpointIsLast, ArcHolders, Stages, Outcomes, Servers,
         Returned

(* The steps up to readiness. *)
LEMMA StartupStep == ServeInv /\ Startup => ServeInv'
  <1> SUFFICES ASSUME ServeInv, Startup PROVE ServeInv'
    OBVIOUS
  <1> USE DEF ServeInv, TypeOK, StagePublished, StageOutcome, StageServer, ClosedBehindServer,
              HandlingNeedsConnection, CheckpointInTeardown, CleanStopHasNoVictims,
              TerminalStateTellsOutcome, FinalCheckpointIsLast, ArcHolders, Stages, Outcomes,
              Servers, Returned, RuntimeAlive, ConnectionsAlive, Transition, IsValidTransition
  <1>1. CASE BootFails  BY <1>1 DEF BootFails
  <1>2. CASE Booted  BY <1>2 DEF Booted
  <1>3. CASE StartupFails  BY <1>3 DEF StartupFails
  <1>4. CASE SpawnServer  BY <1>4 DEF SpawnServer
  <1>5. CASE BecomeReady  BY <1>5 DEF BecomeReady
  <1>6. QED  BY <1>1, <1>2, <1>3, <1>4, <1>5 DEF Startup

(* The two select! points and wait_idle. *)
LEMMA RunLoopStep == ServeInv /\ RunLoop => ServeInv'
  <1> SUFFICES ASSUME ServeInv, RunLoop PROVE ServeInv'
    OBVIOUS
  <1> USE DEF ServeInv, TypeOK, StagePublished, StageOutcome, StageServer, ClosedBehindServer,
              HandlingNeedsConnection, CheckpointInTeardown, CleanStopHasNoVictims,
              TerminalStateTellsOutcome, FinalCheckpointIsLast, ArcHolders, Stages, Outcomes,
              Servers, Returned, RuntimeAlive, ConnectionsAlive, Transition, IsValidTransition
  <1>1. CASE ShutdownRequested  BY <1>1 DEF ShutdownRequested
  <1>2. CASE ServerLost  BY <1>2 DEF ServerLost
  <1>3. CASE ShutdownForced  BY <1>3 DEF ShutdownForced
  <1>4. CASE ServerDrained  BY <1>4 DEF ServerDrained
  <1>5. CASE DrainTimeout  BY <1>5 DEF DrainTimeout
  <1>6. CASE IdleOrOverdue  BY <1>6 DEF IdleOrOverdue
  <1>7. QED  BY <1>1, <1>2, <1>3, <1>4, <1>5, <1>6 DEF RunLoop

(* What `serve` does after run_loop. *)
LEMMA TeardownStep == ServeInv /\ Teardown => ServeInv'
  <1> SUFFICES ASSUME ServeInv, Teardown PROVE ServeInv'
    OBVIOUS
  <1> USE DEF ServeInv, TypeOK, StagePublished, StageOutcome, StageServer, ClosedBehindServer,
              HandlingNeedsConnection, CheckpointInTeardown, CleanStopHasNoVictims,
              TerminalStateTellsOutcome, FinalCheckpointIsLast, ArcHolders, Stages, Outcomes,
              Servers, Returned, RuntimeAlive, ConnectionsAlive, Transition, IsValidTransition
  <1>1. CASE ShutdownRuntime  BY <1>1 DEF ShutdownRuntime
  <1>2. CASE RemoveSocket  BY <1>2 DEF RemoveSocket
  <1>3. CASE IntoEngine  BY <1>3 DEF IntoEngine
  <1>4. CASE DropLock  BY <1>4 DEF DropLock
  <1>5. CASE Terminate  BY <1>5 DEF Terminate
  <1>6. CASE Exit  BY <1>6 DEF Exit
  <1>7. QED  BY <1>1, <1>2, <1>3, <1>4, <1>5, <1>6 DEF Teardown

(* Signals, the server and the RPCs, at any stage. *)
LEMMA OutsideStep ==
  ASSUME ServeInv,
         ServerDies \/ ServerJoins \/ (\E s \in Signals : Signal(s)) \/ (\E r \in Rpcs : Rpc(r))
  PROVE  ServeInv'
  <1> USE DEF ServeInv, TypeOK, StagePublished, StageOutcome, StageServer, ClosedBehindServer,
              HandlingNeedsConnection, CheckpointInTeardown, CleanStopHasNoVictims,
              TerminalStateTellsOutcome, FinalCheckpointIsLast, ArcHolders, Stages, Outcomes,
              Servers, Returned, RuntimeAlive, ConnectionsAlive
  <1>1. CASE ServerDies  BY <1>1 DEF ServerDies
  <1>2. CASE ServerJoins  BY <1>2 DEF ServerJoins
  <1>3. ASSUME NEW s \in Signals, Signal(s) PROVE ServeInv'
    BY <1>3 DEF Signal
  <1>4. ASSUME NEW r \in Rpcs, Rpc(r) PROVE ServeInv'
    <2>1. CASE RpcArrives(r)  BY <2>1 DEF RpcArrives
    <2>2. CASE CallStorage(r)  BY <2>2 DEF CallStorage
    <2>3. CASE RunClosure(r)  BY <2>3 DEF RunClosure
    <2>4. CASE ReturnPermit(r)  BY <2>4 DEF ReturnPermit
    <2>5. CASE DropArc(r)  BY <2>5 DEF DropArc
    <2>6. CASE RpcEnds(r)  BY <2>6 DEF RpcEnds
    <2>7. QED  BY <1>4, <2>1, <2>2, <2>3, <2>4, <2>5, <2>6 DEF Rpc
  <1>5. QED  BY <1>1, <1>2, <1>3, <1>4

(* The invariant is inductive. *)
THEOREM ServeInvariance == Spec => []ServeInv
  <1>1. ServeInv /\ [Next]_vars => ServeInv'
    <2> SUFFICES ASSUME ServeInv, [Next]_vars PROVE ServeInv'
      OBVIOUS
    <2>1. CASE UNCHANGED vars
      BY <2>1 DEF vars, ServeInv, TypeOK, StagePublished, StageOutcome, StageServer,
                  ClosedBehindServer, HandlingNeedsConnection, CheckpointInTeardown,
                  CleanStopHasNoVictims, TerminalStateTellsOutcome, FinalCheckpointIsLast,
                  ArcHolders, RuntimeAlive, ConnectionsAlive
    <2>2. CASE Dead  BY <2>1, <2>2 DEF Dead
    <2>3. QED  BY <2>1, <2>2, StartupStep, RunLoopStep, TeardownStep, OutsideStep DEF Next
  <1>2. QED  BY <1>1, InitInv, PTL DEF Spec

(* Every variable keeps its type, whatever the RPCs and the signals. *)
THEOREM ServeTyping == Spec => []TypeOK
  <1>1. ServeInv => TypeOK  BY DEF ServeInv
  <1>2. QED  BY <1>1, ServeInvariance, PTL

(* An unforced stop whose server drained in time refuses and drops no RPC. *)
THEOREM NoVictims == Spec => []CleanStopHasNoVictims
  <1>1. ServeInv => CleanStopHasNoVictims  BY DEF ServeInv
  <1>2. QED  BY <1>1, ServeInvariance, PTL

(* The exit code and the published terminal state agree. *)
THEOREM TerminalState == Spec => []TerminalStateTellsOutcome
  <1>1. ServeInv => TerminalStateTellsOutcome  BY DEF ServeInv
  <1>2. QED  BY <1>1, ServeInvariance, PTL

(* The checkpoint `serve` runs is alone with the database and the last one. *)
THEOREM CheckpointAlone == Spec => []FinalCheckpointIsLast
  <1>1. ServeInv => FinalCheckpointIsLast  BY DEF ServeInv
  <1>2. QED  BY <1>1, ServeInvariance, PTL

(* The safety half of ImplementsLifecycle: the engine publishes nothing the *)
(* lifecycle does not allow.                                                *)
THEOREM PublishesLifecycle == Spec => Published!Spec
  <1>1. Init => Published!Init
    BY DEF Init, Published!Init
  <1>2. ASSUME NEW to \in {"ready", "stopping", "stopped", "failed"}, Transition(to)
        PROVE  [Published!Next]_lifecycle
    BY <1>2 DEF Transition, IsValidTransition, Published!Next, Published!BecomeReady,
                Published!GiveUpStart, Published!BeginStop, Published!EndStop
  <1>3. [Next]_vars => [Published!Next]_lifecycle
    <2> SUFFICES ASSUME Next, lifecycle' # lifecycle PROVE [Published!Next]_lifecycle
      BY DEF vars
    <2>1. CASE Startup
      BY <1>2, <2>1 DEF Startup, BootFails, Booted, StartupFails, SpawnServer, BecomeReady
    <2>2. CASE RunLoop
      BY <1>2, <2>2 DEF RunLoop, ShutdownRequested, ServerLost, ShutdownForced, ServerDrained,
                        DrainTimeout, IdleOrOverdue
    <2>3. CASE Teardown
      BY <1>2, <2>3 DEF Teardown, ShutdownRuntime, RemoveSocket, IntoEngine, DropLock, Terminate,
                        Exit
    <2>4. QED
      BY <2>1, <2>2, <2>3 DEF Next, Dead, vars, ServerDies, ServerJoins, Signal, Rpc, RpcArrives,
                              CallStorage, RunClosure, ReturnPermit, DropArc, RpcEnds
  <1>4. QED  BY <1>1, <1>3, PTL DEF Spec, Published!Spec
=============================================================================
