--------------------------- MODULE EngineInstances ---------------------------
(***************************************************************************)
(* Several engine processes started on one database (crates/engine/src/    *)
(* engine.rs): the single-instance lock file, the boot chain that follows  *)
(* it, the two ways a process tears itself down, and crashes.              *)
(*                                                                         *)
(* The lock is an flock on an inode.  The file system maps the lock path   *)
(* to an inode, or to none, and a process keeps the inode it opened even   *)
(* after the path was unlinked.                                            *)
(***************************************************************************)
CONSTANTS
  Procs,      (* engine processes; one that is down may be started again    *)
  Inodes,     (* inodes of the file system; a freed one may be used again   *)
  NoInode, NoOne, Empty  (* no inode, no process, no PID in the file        *)

ASSUME NoInodeAssumption == NoInode \notin Inodes
ASSUME NoOneAssumption == NoOne \notin Procs
ASSUME EmptyAssumption == Empty \notin Procs

VARIABLES
  pc,         (* where each process is in its life; see ProcessStages       *)
  fd,         (* the inode of its lock file handle, or NoInode              *)
  lockPath,   (* the inode `<db>.lock` names, or NoInode                    *)
  pidIn,      (* what each inode holds: a process's PID, or Empty           *)
  socketPath, (* the process whose bind created the socket file, or NoOne   *)
  database,   (* the processes that have the database open                  *)
  staleLock   (* a process has locked a file removed since it opened it     *)
              (* (history)                                                  *)

instancesVars == <<pc, fd, lockPath, pidIn, socketPath, database, staleLock>>

(* down, opened, contended  before try_lock succeeded or after it failed   *)
(* acquired, truncated      holding the flock, the PID not written yet     *)
(* locked .. bound          the typestates of the boot chain               *)
(* serving, draining, closed  run_loop, socket removed, engine dropped     *)
(* failed                   boot failed: the typestate is being dropped    *)
(* unlinked                 lock file removed, flock still held            *)
(* dropping                 lock released, the database not yet closed      *)
ProcessStages ==
  { "down", "opened", "contended", "acquired", "truncated", "locked", "socket_ready",
    "database_open", "bound", "serving", "draining", "closed", "failed", "unlinked",
    "dropping" }

(* Stages in which the process owns the engine lock (once it has unlinked   *)
(* the file it only still holds the flock), and those in which its listener *)
(* is bound.                                                                *)
OwningStages == { "acquired", "truncated", "locked", "socket_ready", "database_open",
                  "bound", "serving", "draining", "closed", "failed" }
ListeningStages == { "bound", "serving" }

Owns(p) == pc[p] \in OwningStages
HeldInode(i) == \E p \in Procs : (Owns(p) \/ pc[p] = "unlinked") /\ fd[p] = i

-----------------------------------------------------------------------------

InstancesInit ==
  /\ pc = [p \in Procs |-> "down"]
  /\ fd = [p \in Procs |-> NoInode]
  /\ lockPath = NoInode
  /\ pidIn = [i \in Inodes |-> Empty]
  /\ socketPath = NoOne
  /\ database = {}
  /\ staleLock = FALSE

(* Seeded bug: the lock file is replaced by a new one at every start. *)
OpenLockFileAfresh(p) ==
  /\ pc[p] = "down"
  /\ pc' = [pc EXCEPT ![p] = "opened"]
  /\ \E i \in Inodes \ { fd[q] : q \in Procs } :
       /\ lockPath' = i
       /\ fd' = [fd EXCEPT ![p] = i]
       /\ pidIn' = [pidIn EXCEPT ![i] = Empty]
  /\ UNCHANGED <<socketPath, database, staleLock>>

(* OpenOptions::create without truncate: the file the path names, or a new  *)
(* empty one.                                                               *)
OpenLockFile(p) ==
  /\ pc[p] = "down"
  /\ pc' = [pc EXCEPT ![p] = "opened"]
  /\ \/ /\ lockPath # NoInode
        /\ fd' = [fd EXCEPT ![p] = lockPath]
        /\ UNCHANGED <<lockPath, pidIn>>
     \/ /\ lockPath = NoInode
        /\ \E i \in Inodes \ { fd[q] : q \in Procs } :
             /\ lockPath' = i
             /\ fd' = [fd EXCEPT ![p] = i]
             /\ pidIn' = [pidIn EXCEPT ![i] = Empty]
  /\ UNCHANGED <<socketPath, database, staleLock>>

TryLock(p) ==
  /\ pc[p] = "opened"
  /\ pc' = [pc EXCEPT ![p] = IF HeldInode(fd[p]) THEN "contended" ELSE "acquired"]
  /\ staleLock' = (staleLock \/ (~HeldInode(fd[p]) /\ fd[p] # lockPath))
  /\ UNCHANGED <<fd, lockPath, pidIn, socketPath, database>>

(* Seeded bug: a refused starter drops an EngineLock, which unlinks the file. *)
ReportHolderUnlinks(p) ==
  /\ pc[p] = "contended"
  /\ pc' = [pc EXCEPT ![p] = "down"]
  /\ fd' = [fd EXCEPT ![p] = NoInode]
  /\ lockPath' = NoInode
  /\ UNCHANGED <<pidIn, socketPath, database, staleLock>>

(* AlreadyRunning, with the PID read through the path (read_lock_pid): what *)
(* it can say of the owner is the property PidNamesOwner.                   *)
ReportHolder(p) ==
  /\ pc[p] = "contended"
  /\ pc' = [pc EXCEPT ![p] = "down"]
  /\ fd' = [fd EXCEPT ![p] = NoInode]
  /\ UNCHANGED <<lockPath, pidIn, socketPath, database, staleLock>>

(* write_pid: set_len(0), then the PID. *)
TruncatePid(p) ==
  /\ pc[p] = "acquired"
  /\ pidIn' = [pidIn EXCEPT ![fd[p]] = Empty]
  /\ pc' = [pc EXCEPT ![p] = "truncated"]
  /\ UNCHANGED <<fd, lockPath, socketPath, database, staleLock>>

WritePid(p) ==
  /\ pc[p] = "truncated"
  /\ pidIn' = [pidIn EXCEPT ![fd[p]] = p]
  /\ pc' = [pc EXCEPT ![p] = "locked"]
  /\ UNCHANGED <<fd, lockPath, socketPath, database, staleLock>>

(* try_lock or write_pid fails: the handle is closed, the file stays. *)
AcquireFails(p) ==
  /\ pc[p] \in {"opened", "acquired", "truncated"}
  /\ pc' = [pc EXCEPT ![p] = "down"]
  /\ fd' = [fd EXCEPT ![p] = NoInode]
  /\ UNCHANGED <<lockPath, pidIn, socketPath, database, staleLock>>

(* Seeded bug: the stale socket is removed before the lock is tried. *)
PrepareSocketEarly(p) ==
  /\ pc[p] \in {"opened", "locked"}
  /\ socketPath' = NoOne
  /\ pc' = [pc EXCEPT ![p] = IF @ = "locked" THEN "socket_ready" ELSE @]
  /\ UNCHANGED <<fd, lockPath, pidIn, database, staleLock>>

(* prepare_socket unlinks whatever socket file is there. *)
PrepareSocket(p) ==
  /\ pc[p] = "locked"
  /\ socketPath' = NoOne
  /\ pc' = [pc EXCEPT ![p] = "socket_ready"]
  /\ UNCHANGED <<fd, lockPath, pidIn, database, staleLock>>

OpenDatabase(p) ==
  /\ pc[p] = "socket_ready"
  /\ database' = database \union {p}
  /\ pc' = [pc EXCEPT ![p] = "database_open"]
  /\ UNCHANGED <<fd, lockPath, pidIn, socketPath, staleLock>>

(* bind fails on an existing file; the chmod after it may fail too and then *)
(* leaves the socket file behind.                                           *)
BindSocket(p) ==
  /\ pc[p] = "database_open"
  /\ socketPath = NoOne
  /\ socketPath' = p
  /\ pc' = [pc EXCEPT ![p] = "bound"]
  /\ UNCHANGED <<fd, lockPath, pidIn, database, staleLock>>

StartServing(p) ==
  /\ pc[p] = "bound"
  /\ pc' = [pc EXCEPT ![p] = "serving"]
  /\ UNCHANGED <<fd, lockPath, pidIn, socketPath, database, staleLock>>

(* A boot phase after the lock fails. *)
BootStepFails(p) ==
  /\ pc[p] \in {"locked", "socket_ready", "database_open", "bound"}
  /\ pc' = [pc EXCEPT ![p] = "failed"]
  /\ UNCHANGED <<fd, lockPath, pidIn, socketPath, database, staleLock>>

(* serve: run_loop and the runtime are over, remove_file(socket_path). *)
StopServing(p) ==
  /\ pc[p] = "serving"
  /\ socketPath' = NoOne
  /\ pc' = [pc EXCEPT ![p] = "draining"]
  /\ UNCHANGED <<fd, lockPath, pidIn, database, staleLock>>

(* into_engine reclaims the engine and drops it, or finds it still shared   *)
(* with a closure that outlived every deadline.                             *)
CloseDatabase(p) ==
  /\ pc[p] = "draining"
  /\ database' \in {database \ {p}, database}
  /\ pc' = [pc EXCEPT ![p] = "closed"]
  /\ UNCHANGED <<fd, lockPath, pidIn, socketPath, staleLock>>

(* EngineLock::drop: remove_file(path), then unlock.  On a failed boot the  *)
(* typestate's fields drop in declaration order, the lock before storage.   *)
UnlinkLockFile(p) ==
  /\ pc[p] \in {"closed", "failed"}
  /\ lockPath' = NoInode
  /\ pc' = [pc EXCEPT ![p] = "unlinked"]
  /\ UNCHANGED <<fd, pidIn, socketPath, database, staleLock>>

Unlock(p) ==
  /\ pc[p] = "unlinked"
  /\ fd' = [fd EXCEPT ![p] = NoInode]
  /\ pc' = [pc EXCEPT ![p] = IF p \in database THEN "dropping" ELSE "down"]
  /\ UNCHANGED <<lockPath, pidIn, socketPath, database, staleLock>>

CloseDatabaseLate(p) ==
  /\ pc[p] = "dropping"
  /\ database' = database \ {p}
  /\ pc' = [pc EXCEPT ![p] = "down"]
  /\ UNCHANGED <<fd, lockPath, pidIn, socketPath, staleLock>>

(* SIGKILL or power loss of the process: its handles close, its files stay. *)
Crash(p) ==
  /\ pc[p] # "down"
  /\ pc' = [pc EXCEPT ![p] = "down"]
  /\ fd' = [fd EXCEPT ![p] = NoInode]
  /\ database' = database \ {p}
  /\ UNCHANGED <<lockPath, pidIn, socketPath, staleLock>>

Acquire(p) ==
  \/ OpenLockFile(p)
  \/ TryLock(p)
  \/ ReportHolder(p)
  \/ TruncatePid(p)
  \/ WritePid(p)
  \/ AcquireFails(p)

Boot(p) ==
  \/ PrepareSocket(p)
  \/ OpenDatabase(p)
  \/ BindSocket(p)
  \/ StartServing(p)
  \/ BootStepFails(p)

TearDown(p) ==
  \/ StopServing(p)
  \/ CloseDatabase(p)
  \/ UnlinkLockFile(p)
  \/ Unlock(p)
  \/ CloseDatabaseLate(p)

InstancesNext == \E p \in Procs : Acquire(p) \/ Boot(p) \/ TearDown(p) \/ Crash(p)

InstancesSpec == InstancesInit /\ [][InstancesNext]_instancesVars

-----------------------------------------------------------------------------
(* Properties. *)

(* Every variable keeps the shape the code gives it. *)
InstancesTypeOK ==
  /\ pc \in [Procs -> ProcessStages]
  /\ fd \in [Procs -> Inodes \union {NoInode}]
  /\ lockPath \in Inodes \union {NoInode}
  /\ pidIn \in [Inodes -> Procs \union {Empty}]
  /\ socketPath \in Procs \union {NoOne}
  /\ database \subseteq Procs
  /\ staleLock \in BOOLEAN

(* Crashes, failed boots, leftover lock files and clean releases never let  *)
(* two engines own the lock.  The one thing that can is a starter locking a *)
(* file that was removed after it had opened it (staleLock).                *)
SingleOwner ==
  ~staleLock => \A p, q \in Procs : Owns(p) /\ Owns(q) => p = q

(* Under the same condition the PID a refused starter reads once the owner  *)
(* has written its own is the owner's, even in a file inherited from a      *)
(* crashed engine.                                                          *)
PidNamesOwner ==
  \A p \in Procs :
    ~staleLock /\ Owns(p) /\ pc[p] \notin {"acquired", "truncated"}
    => lockPath = fd[p] /\ pidIn[lockPath] = p

(* Under the same condition the socket file of a live listener stays its    *)
(* own: no other starter's stale-socket removal, and no other engine's      *)
(* teardown, takes it away.                                                 *)
LiveSocketKept ==
  \A p \in Procs : ~staleLock /\ pc[p] \in ListeningStages => socketPath = p

(* The inductive strengthening: a process has a handle exactly while it is  *)
(* on its way to the lock or holds it, the kernel grants an inode's flock   *)
(* once, and without a stale lock an owner's inode is the one the path      *)
(* names.                                                                   *)
HandleWhileStarted ==
  \A p \in Procs : pc[p] \in {"down", "dropping"} <=> fd[p] = NoInode

FlockExclusive ==
  \A p, q \in Procs :
    /\ Owns(p) \/ pc[p] = "unlinked"
    /\ Owns(q) \/ pc[q] = "unlinked"
    /\ fd[p] = fd[q]
    => p = q

OwnerIsLinked == \A p \in Procs : ~staleLock /\ Owns(p) => fd[p] = lockPath

InstancesInv ==
  /\ InstancesTypeOK
  /\ HandleWhileStarted
  /\ FlockExclusive
  /\ OwnerIsLinked
  /\ PidNamesOwner
  /\ LiveSocketKept

(* remove_stale_socket's contract (engine.rs:438-439): holding the lock     *)
(* means no live engine is serving on the socket that is about to go.       *)
NoLiveEngineServing ==
  \A p, q \in Procs : pc[p] = "locked" => pc[q] \notin ListeningStages

=============================================================================
