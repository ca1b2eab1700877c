# Valqeron in TLA+

Valqeron is a registry of securities: a daemon (`crates/engine`) serves a gRPC
API on a Unix socket over one SQLite file (`crates/infrastructure`), with its
rules in `crates/core`, a client library (`crates/engine-client`) and a CLI.
These modules model what is concurrent, stateful or failure-prone in it. TLC
checks them on small instances; TLAPS proves the main safety properties for
every value of the constants. Paths below are relative to `crates/` unless they
start with `src/`.

## 1. Inventory

| Component | State | Operations | What is hard | What makes it correct |
|---|---|---|---|---|
| Storage facade `engine/src/storage.rs` | two semaphores (read lane, write lane), open or closed; `Arc` of the engine | `read`, `write`, `maintenance`, `close`, `wait_idle`, `in_flight`, `into_engine` | callers dropped at any await while their closure goes on; queue timeout racing a grant; panics; close racing admission | permits and connections conserved; nobody admitted after close; "overloaded" means "never ran"; idle is final |
| Reader pool, writer mutex `infrastructure/src/sqlite/database.rs` | idle readers, Condvar, writer mutex (with poisoning), progress handlers | `checkout`, check-in by `Drop`, `lock_writer`, `dry_run` | one write may need readers *and* the writer; wakeups; poison recovery; failed rollbacks | no connection lost; no deadlock; nothing of a dry run survives |
| Single-instance lock, boot chain `engine/src/engine.rs:260-606` | lock file (inode, flock, PID), socket file, database, typestates | `EngineLock::acquire`, `prepare_socket`, `open_database`, `bind_socket`, `build_runtime`, and their `Drop`s | several processes, crashes, unlinked inodes | one owner; truthful PID; a live socket is never removed |
| Serve loop `engine/src/engine.rs:606-860` | tonic server task, signals, drain deadline | `run_loop`, `graceful_shutdown`, `serve` | `select!` between signals, server death and deadlines; stragglers | it always stops; a clean stop has no victims; the final checkpoint runs alone |
| Lifecycle `engine/src/lifecycle.rs` | one watched state | `transition` | errors ignored by every caller | the terminal state tells the outcome |
| gRPC services `engine/src/grpc` | none | issuer `register`, `get`, `list`, `patch`, `delete`; admin `checkpoint`, `version`, ... | one storage call per RPC; lost replies | requests that are refused have no effect |
| Issuer domain and repository `core/src/domain/issuer.rs`, `infrastructure/src/sqlite/repositories/issuer.rs`, `src/migrations/001_*.sql` | table `issuer` | lookups, insert, guarded update and delete, paged reads | lookups and statement on different connections; optimistic versions; dry runs | linearizable; duplicates named; versions tell staleness; CNPJ implies BR |
| Migrations `infrastructure/src/sqlite/migrations.rs` | `user_version` | `run` | two openers, a crash | all or nothing per migration |
| Securities `core/src/domain/security.rs`, `infrastructure/.../repositories/securities.rs` | table `security` | register, insert, find, patch, replace, delete (no RPC reaches them yet) | three lookups and an insert in calls of their own; edits that no builder validates | references resolve, an ISIN names one security, no receipt wraps itself, edits answer the truth |
| Venues, listings `core/src/domain/venue.rs`, `listing.rs` | two repositories (traits only) | register, patch, delete | lookups and insert in calls of their own, which no lock, transaction or constraint ties together | a rule is broken only by a write since its lookup; a MIC is shared only by those who raced for it |
| Background tasks `core/src/tasks.rs` | typestate machine, attempt tracker | start, complete, fail, cancel | copies, a saturating counter | the retry budget is spent exactly |
| Identifiers `core/src/identifiers`, MIC table `macros/src/lib.rs` | none | parse, check digits, display, compile the table | arithmetic, punctuation, self-reference of the registry | agree with their reference definitions; slips are caught; texts survive storage |
| Client, CLI `engine-client`, `cli` | channel, printed cursor | connect, handshake, RPCs, commands | dead sockets, lost replies, an engine upgraded under a client, paging under writes | an outcome tells the effect; a walk lists each issuer once |

How they interact: a gRPC handler validates its request, makes **one** call of
the storage facade and maps its result. The facade waits for a permit of the
lane (5 s at most), hands a closure to a blocking thread, and the closure runs
the domain service on repositories that borrow pooled readers or lock the
writer; a dry run gives the repositories the locked writer inside a savepoint
that is always rolled back. The serve loop stops the server first, then closes
the facade, waits until it is idle, shuts the runtime down, takes the engine
back and checkpoints, and releases the lock last. Shared state is the semaphores,
the pool, the writer mutex, the database file, the lock and socket files, and
the lifecycle watch.

## 2. Modules

Each component has a module, an `MC` module that instantiates it for TLC, and
theorems in a `_proofs` module: its own, or one that it shares, as
`EngineInstances` and `EngineServe` share `Engine_proofs`, `IdentifierDesk` and
`BackgroundTask` share `Core_proofs`, `WriterConnection` and `WaitPool` share
`WriterConnection_proofs`. (Modules that share one have specifications
of different names, such as `InstancesSpec` and `PoolSpec`.) `Seeded bug` operators
are mutated forms of the definition that follows them; no specification uses them.

* **AsyncStorage** - facade, lanes, pool, writer mutex, and the owner's drain.
  A *call* is two processes: the async side (`caller`) and the closure
  (`phase`, with the connections it still `needs`). `available` is the
  semaphores, `idle` the pool, `owner` how far `serve` is. Actions: `Call` (to the first poll of the
  acquire), `Admit`, `QueueTimeout`, `Refuse`, `DropCaller`, `StartClosure`,
  `CheckoutReader`, `ParkForReader`, `CheckinReader`, `LockWriter`,
  `UnlockWriter`, `FinishClosure`, `PanicClosure` (what it borrowed) then
  `UnwindClosure` (its permit), `Complete`, and the owner's `CloseReads`,
  `CloseWrites`, `CountReads`, `CountWrites`, `ShutdownRuntime`,
  `RuntimeStopped`, `IntoEngine`: the lanes are closed and counted one after the
  other, as in the code. `LeaveQueue` is a timeout, a refusal or a dropped caller, which may
  find a permit granted that it gives back;
  `DropSpawned` is the runtime dropping a closure no thread took. The tokio
  semaphore is first come, first served to *some* waiter (the choice of the
  waiter is left open, which covers its FIFO). The permit is given back before the
  `Arc` is dropped, as the closure's drop order has it; that is why `serve` may
  find the engine shared just after `wait_idle`.
* **WaitPool** - the pool of readers as `database.rs` has it: a vector behind a
  mutex, and a Condvar. A critical section is one step; `Push` and the `Notify`
  that follows it are two, a newcomer may take what a sleeper was notified for,
  and a sleeper may wake by itself or by the warning timer. Its refinement
  mapping forgets who sleeps: it implements **ReaderPool**, where whoever waits
  takes a reader if one is free, fairness included.
* **PooledStorage** - the two together: the closures of `AsyncStorage` are the
  threads of `WaitPool`, and taking a reader, sleeping for one and putting one back
  are steps of both (`GetsReader`, `SleepsForReader`, `PutsReader`). A closure
  inside the pool's code does nothing else.
* **AdmissionControl** - what the facade promises: per lane a bounded number
  inside, nobody let in once closed. `AsyncStorage` implements it.
* **EngineInstances** - any number of processes on one lock path and one socket
  path. An inode outlives its name; `flock` belongs to the inode. Every step
  between two system calls is an action; a crash may come between any two.
* **EngineServe** - one process from the end of its boot to its exit, with RPCs,
  their closures, the server task, and signals that coalesce while pending.
  A closure may hang and the server may never finish.
* **Lifecycle** - the state machine promised to observers of the watch channel;
  `EngineServe` implements it, fairness included.
* **IssuerRows**, **IssuerRegister**, **IssuerStore** - rows and requests; the
  atomic register the service promises; and the code: the handler's validation
  (`Call`), admission to the write lane, the savepoint of a dry run, the two lookups, the
  statement (`Insert`, `Update`, `Delete`) with the table's constraints,
  `write_outcome` for zero rows, faults, the rollback, and the answer. A row keeps its version, CNPJ, LEI
  and country, the columns the rules are about; a patch of the name or the
  status is one that sets none of them. `IssuerStore` implements
  `IssuerRegister`.

* **WriterConnection** - the writer's mutex (with its poisoning, which nothing
  clears) and SQLite's transaction state behind it: the savepoint stack, the
  open transaction (`draft`), the database (`committed`), and the progress
  handler (`armed`). Live writes, dry runs and maintenance; busy retries, which
  a live write makes with the mutex released and a dry run inside its savepoint;
  interrupts, after which SQLite has rolled everything back and is in autocommit;
  panics; the recovery in `lock_writer`; and rollbacks that fail, whose two
  failure branches (`lock_writer`, the plain RELEASE of `dry_run`) the history
  variable `rollbackFailed` remembers. Lanes are left out, so that any number of
  threads compete for the mutex, as in the tests of `database.rs`.

* **SecurityStore** - threads that register, import and edit securities. A row
  is its issuer, kind, ISIN, underlying security and whether it has a ratio;
  `Accepted` is what the table's constraints let in. Every lookup of
  `register_security` and every statement is a step: `Register`, `CheckIssuer`,
  `CheckIsin`, `CheckUnderlying`, `Insert`, and for edits `Find` then
  `ApplyPatch`, `Update` or `Delete` guarded by the version found.
* **ListingDesk** - `register_venue` and `register_listing`, a step per
  repository call, against each other and against patches, retirements and
  deletions. Both take shared repositories and hold nothing between their calls,
  so the steps of callers interleave freely; no engine implements the
  repositories, which are plain maps here. The history variable `since` keeps, for
  each lookup of a registration, the rows it was about that were written after it.
  The repositories' full `update`, which no service calls, is left out.
* **IdentifierText**, **CheckDigits**, **IdentifierDesk** - texts are sequences
  of code points; the first two are operators only (classes and lengths per
  scheme, blanks, case, punctuation; check digits and their references), the
  third walks an identifier through being issued, slipped on or written another
  way, parsed, stored and reread, and `generate_mic_table` over a registry.
* **BackgroundTask** - values of the typestate; a transition replaces a value,
  `Clone` copies it and `Drop` ends it. `history` counts what really happened.
* **IssuerReads**, **EngineClient** - the repository's reads as functions of the
  tables; and a user of the client library and the CLI: dial, handshake, input
  check, RPC, answer, output. The engine behind the socket stops, starts and
  changes its protocol; a call may be lost before or after the engine took it,
  and then runs `late`. `user` is for good a CLI user or a holder of the
  repositories who makes eager reads: the two share no state but the tables.

Where a part appears twice, the second module abstracts what the first has in
detail: `EngineClient` has a handler as one step, for `IssuerStore` shows that
its effect is atomic; `IssuerStore` takes from `AsyncStorage` only that one write is admitted
at a time (`WriteSlots`), `EngineServe` only that a closure holds an `Arc`, and
boot is one step of `EngineServe`; `AsyncStorage` has as a
number what `WaitPool` has in detail, and `PooledStorage` joins them.

Abstractions to know of: `with_busy_retry` locks the writer anew at each attempt,
which is one hold here, since the write permit keeps other writes of the process
out and another process's write shows as a fault; a retry after a lost
answer is the call of another client with the same request; a closure that
panics in a dry run is `Fault` followed by `Rollback` (the recovery proper is in
`WriterConnection`); a `get` for an id nobody
ever issued is left out (it answers as for a missing row); a CHECK or foreign
key refusal reaches the client as an internal error, and in `IssuerStore` the
foreign key of `security`, a table it does not have, is a `Fault` of `Delete`
(`EngineClient` and `SecurityStore` have both tables).

## 3. Runs

| Run | Instance | Shows |
|---|---|---|
| `storage` | `PooledStorage`: 2 calls, 1 reader, all four kinds, fairness | readers conserved, writer uncontended, no wakeup lost, refused calls never ran, implements `AdmissionControl` and the plain `ReaderPool`, idle is final, the queue answers, close drains, the shutdown ends |
| `instances` | 3 processes, 3 inodes | single owner, truthful PID, live socket kept, unless a stale lock was taken |
| `instances_race` | 3 processes, 3 inodes | **violation**: two live engines after a stale lock |
| `serve` | 2 RPCs, both signals, fairness | clean stops have no victims, terminal state tells the outcome, the final checkpoint is alone, implements `Lifecycle`, always stops |
| `issuer_store` | 2 clients, 2 ids, 1 CNPJ, 1 LEI, 2 countries, versions to 2 | implements `IssuerRegister`; duplicates are named; versions tell staleness |
| `issuer_store_brazil` | same | **violation**: a CNPJ stored without a country |
| `writer` | 3 calls, 2 attempts, fairness | dry runs leave nothing, answers are true, no deadline is inherited; every call ends, through poisoning and busy databases |
| `security_store` | 2 threads, 3 ids, 1 issuer, 1 ISIN, versions to 2 | no cycle of receipts, references resolve, one security per ISIN, edits answer the truth |
| `listing_desk` | 2 callers, 2 securities, 3 venues, 1 MIC, 2 listings, 2 tickers | a MIC names at most as many venues as callers raced; a listing for a security or on a venue that is gone or closed, or one that clashes, owes it to a write since the lookup |
| `identifiers` | eight schemes and names, registries of up to 3 rows, and of one more than the 3 that count | check digits agree with the references and catch the slips they can; every way of writing parses to the same text and survives storage; a registry compiles exactly if it resolves and can be counted |
| `background_task` | 2 values, a counter that saturates at 4 | the attempt counter is the truth and the budget is spent exactly |
| `engine_client` | 3 ids, 1 security, 2 protocols, page limits 1 and 2 | outcomes tell the effect; a walk lists whoever stays once; an eager read gives no issuer another's securities |

Why the bounds suffice. One reader makes every wait for a connection happen: two
calls are a closure that holds it and a write whose lookups want it, or a holder
of a permit and the waiter it starves; each violation of these properties needs a
holder and one other, and the safety half is proved for any number. A write that looks up twice puts its
reader back, notifies the sleeper and takes the reader again before that one has
looked. That several readers put back together lose no wakeup either is proved
(`WakeupsKept`). Three processes are the owner that leaves, the starter that
kept a handle on its file, and the newcomer on the fresh file; three inodes let
each hold one. Two RPCs let one end while the other hangs. Two clients give the
races of a register (one between lookup and statement, one anywhere); one CNPJ and
one LEI over two ids make every duplicate; version 2 gives a stale version.
`SparseRequests` thins the requests of `issuer_store` (a LEI is set alone, a patch
sets one column, a dry run sets a CNPJ or nothing), as the columns are
independent of each other in the code except for CNPJ and country, which
registrations still combine. Versions expected by clients start at 1, the first version the table gives.
Three calls on the writer are
a panicking one, the one that recovers, and one whose answer depends on it; two
attempts have one retry, of which the code's five are repetitions. Each call is
made once.

Three securities make the shortest cycle that no single row shows and a bystander;
one issuer, which comes and goes, is enough because a security refers to one.
`FewSnapshots` keeps plain shares, receipts, and the snapshots that break a rule.
Two callers register, or one registers against the patches and deletions that
anybody may make; two listings clash; two venues tell a rule of a venue from one
of a security, and a third would show a MIC shared by more than raced for it.
`FewDrafts` keeps the listings that meet in one rule and differ in the others; dates
are left out, as no lookup reads them. Three ids make a page, its
successor and one in between; the limits are the default, the maximum and beyond, and the
clamp of zero. `FewCommands` leaves out repetitions among commands that fail for their
input. A registry of four rows is one longer than `MaxMarkets`, which in the code is
65535. Identifiers are taken around bases that
exercise each digit and letter class at three places; `LongestSlipped` keeps
slips off texts longer than an LEI, as names have no check to catch them.
A counter of 4 saturates within five starts; in the code it is 2^32-1 and the theorem is for any.

Symmetry (calls, processes, inodes, clients, ids) is used in runs of safety
properties only. Every run but `identifiers` checks for deadlock: there an
identifier's way ends.

A property has a run where it is the most telling check. Type invariants,
`PermitsConserved` and `NoAdmissionAfterClose` are proved instead, for every instance; to watch
them on a small one, add their names to the module's `.cfg`.

### Fairness

`PooledStorage!FairSpec`: woken tasks are polled and timers fire (tokio), started
closures run on (they are SQLite operations with a progress-handler deadline;
nothing else in them blocks for ever), and a runtime that shuts down drops its
tasks. Nobody has to call, hang up, panic or ask for a shutdown. The `Admit` of a
queued call, its timeout and its refusal share their fairness: one of them happens;
no timer has to outrun a permit already granted, and no sleeper of the pool is
counted on to wake before it is notified.
`EngineServe!FairSpec` assumes only that the main thread runs and its own timers
fire: RPCs, closures and the server may hang for ever, and the process still
ends. `WriterConnection!FairSpec`: a call's thread runs on; weak fairness of the mutex
is enough because each call is made once (in the engine the write lane keeps the
mutex uncontended). `PooledStorage`, `EngineServe` and
`WriterConnection` are the modules with fairness; the others state safety only,
for nothing in their code promises an end: a user need not go on, an edit may be
given up.

## 4. Proofs

All theorems follow one argument: an invariant of the component (`IndInv`;
`PoolInv`, `InstancesInv`, `ServeInv`, `TaskInv`, `RegistryInv` and `TextInv` where a module
has the theorems of two) is shown to hold initially and to be kept by each action
(one lemma per action that can disturb it), and the property follows. The
assumptions are the named ASSUMEs of the modules: finite sets of calls, clients and
RPCs, at least one reader, distinct values for "nobody", page sizes that are
numbers with a default of at least one, and, of texts, what the code guarantees
about them: a registry is a list of rows of four-character codes (`code4`; of any
length, also beyond what compiles), a
held name has no blanks around it, and held identifiers are in upper case.

* `AsyncStorage_proofs`: typing, conservation of permits and of readers, the
  uncontended writer, no admission after close, refusals that never ran, final
  idleness, and `FacadeAdmits`: `AsyncStorage` implements `AdmissionControl`, where
  a call that was assigned a permit still waits and one that gave it back has left,
  so a permit handed to a waiter frees its place at once. `PermitsConserved` is not
  inductive alone: a closure's release must be in its own lane and of the kind it
  holds (`HoldsWhatItNeeds`), and the uncontended writer needs that the mutex
  knows its holder (`WriterIsHolder`) and that two writes never hold a permit
  together, which is where `PermitsConserved` with `WriteSlots = 1` comes in.
  `IdleIsFinal` needs `DrainedIsQuiet`: a lane that was closed and then found with all its
  permits has no closure left (`PermitsConserved` again) and gets no more, so that
  what the owner counted in the read lane is still true when it has counted the
  write lane (`ReadsAreOver`).
* `AsyncStorage_proofs`, about `PooledStorage`: `Composition`, by which every theorem about
  `AsyncStorage` and about `WaitPool` holds of the two together, and `PoolsAgree`:
  the number of idle readers of the one is the length of the other's vector.
* `Engine_proofs`, about `EngineInstances`: `SingleOwner`, `PidNamesOwner`, `LiveSocketKept`
  for any processes and inodes. The strengthening says that a flock is granted
  once per inode (`FlockExclusive`) and that without a stale lock the owner's
  inode is the one the path names (`OwnerIsLinked`); the two give one owner.
* `Engine_proofs`, about `EngineServe`: clean stops, the terminal state, the lone checkpoint,
  and the safety part of `Lifecycle`. The strengthening ties the main thread's
  stage to the published state, the server and the outcome.
* `IssuerStore_proofs`: `DuplicatesAreNamed`, `VersionTellsStaleness`, and
  `Linearizable`: `IssuerStore` implements `IssuerRegister`. The
  strengthening says that one call is in the write lane (`OneWriter`), that a
  savepoint's draft equals the table until its statement
  (`SavepointIsDryRun`), that the lookups' answers are still true at the
  statement (`LookedUp`), and that an id being registered is nobody else's
  (`FreshIds`). The linearization point of a write is the closure's conclusion; of
  a read, its SELECT.
* `WriterConnection_proofs`: `DryRunsLeaveNothing`, `AnswersAreTrue` and
  `NoInheritedDeadline`, for any number of calls and attempts. The strengthening
  says that unless a rollback failed the savepoint stack is empty or one savepoint over
  nothing, that it is the holder's dry run or stands behind a poisoned mutex
  (`TransactionKnown`), and that a statement of a dry run always has its
  savepoint: it is false as soon as an interrupt could be retried.
* `WriterConnection_proofs`, about `WaitPool`: `NoLostWakeup`, for any threads and
  readers, and the safety part of `ImplementsPool`. `PoolInv` adds that every
  connection is idle or held; `Push` and `Notify` then move a thread and a
  connection from one side of the inequality to the other together.
* `Core_proofs`, about `BackgroundTask`: `BudgetIsKept`, for any width of the counter. It is
  inductive with the types, because an attempt never passes the maximum and so
  the counter never saturates before its task has failed.
* `SecurityStore_proofs`: all its rules, for any threads and ids. They hold by
  the statements alone; the lookups are not needed. A cycle would need an old row
  to refer to a new one: `AddRow` takes the new row out of a set that contains it
  and uses the property on the rest. `EditsWhatItSaw` says that a row seen is
  still the same, or later, or gone; it needs that no id is registered twice.
* `ListingDesk_proofs`: its properties, for any number of callers.
  The strengthening says that what a lookup found is true still, except for the
  rows in `since`, and that the venues and the callers about to insert
  under one MIC are together no more than the callers; `OneRegistrarOneVenue`
  adds that a single caller never makes two venues share one. Here
  the lookups are all there is: no constraint repeats them.

* `Core_proofs`, about `IdentifierDesk`: `RegistryResolves`, `WrittenAnyWay`,
  `DigitsAgreeWithReference` and `SlipsAreCaught`, for registries and texts of any
  length and content; a registry longer than `MaxMarkets` is one that does not compile.
  They are about loops of the code, which the model has as recursive functions.
  `RecursionExists` shows that such a function exists, by least counterexample over
  the natural numbers (`LeastNatural`, `Induction`), `Iterated` that the one the
  model defines is it, and facts about its values follow by `Induction`. So: the
  walk of `finalize_mic` that has not ended after as many hops as there are rows has
  met a market twice (`FS_PigeonHole`), and the markets in between are a closed set; the
  punctuation of a formatted CNPJ goes and nothing else does; a text between
  blanks trims to itself; a code's sum modulo 97 over characters is the reference's
  over the digits they expand to; and the code's Luhn sum from the right is the
  reference's from the left, because the digits that the suffix of a text expands
  to are the suffix of the digits of the whole (`Spelled`).
  `SlipInv` says that what was issued satisfies its reference definition and that
  what is typed is one slip away from it, so what is parsed satisfies the definition
  too and differs at one place or two. Two weighted sums then differ by what those
  places add (`SumsDiffer`): for a CNPJ by a multiple of a weight, or of the
  difference of neighbouring weights, which 11 does not divide (`WeightCounts`,
  `OrderCounts`); for an ISIN by a change of digits that Luhn tells apart
  (`GainOne`, `GainTwo`). The remainders of two LEIs that come apart stay apart while
  the texts agree, since 10 and 100 have inverses modulo 97 (`FoldsStayApart`). The
  theorem says that the blind spots `Blind` lists are the only ones.
* `EngineClient_proofs`: `OutcomesTellTheEffect`, `StayersListedOnce` and
  `EagerReadsAreTrue`. `EffectInv` says for every stage of a command what its reply and the
  rows written since it began have to do with each other, a request its client
  gave up on included. `WalkInv` says that the listed ids ascend to the cursor and
  that every issuer that stayed is listed or beyond it; a page is a prefix of what is beyond the
  cursor (`PageIsPrefix`), so the next cursor skips nobody. `ReadInv` relates the
  first statement of an eager read to the table through the ids inserted since
  (`crowd`): a row counts as many predecessors or more in the second statement
  only if one of them is new.

Model-checked only: everything under fairness (`QueueAnswers`, `CloseDrains`,
`ShutdownEnds`, `AlwaysStops`, `CallsEnd`, the fairness halves of `ImplementsLifecycle`
and `ImplementsPool`),
which is beyond the prover.

## 5. Findings

Two have a run of their own:

1. `NoLiveEngineServing` (`instances_race`) - the lock file is unlinked and
   `acquire` never compares the inode it locked with the path's: two engines can
   run, and one removes the other's socket.
2. `CnpjImpliesBrazil` (`issuer_store_brazil`) - a patch can give a CNPJ to an
   issuer whose country is NULL; the table's CHECK evaluates to NULL and passes.

The others are stated in their modules, false of the code, and shown by adding
the property to the module's `.cfg` (alone, where others hide it):

3. `TerminalMeansDrained` (EngineServe, invariant) - when a closure outlives `wait_idle`
   and the runtime's shutdown, `stopped`/`failed` is published and the lock dropped
   while it still runs, and its write may commit after that
   (`engine/src/engine.rs:642-644` says that everything is drained).
4. `RetiredVenueTakesNoListing` (ListingDesk, action property) - `register_listing` reads
   the venue's status and inserts in separate calls, so a listing lands on a
   venue retired in between (`core/src/domain/venue.rs:98-99`: "retiring a venue here
   means we stop accepting listings on it").
5. `AdmittedNeverParks` (AsyncStorage, invariant) - permits are not connections:
   the lookups of a write borrow a pooled reader from the write lane, so an
   admitted closure can block on the pool (`infrastructure/src/sqlite/engine.rs:29-32`,
   `engine/src/engine.rs:466-467` claim otherwise). It only delays: `CloseDrains` holds.
6. `SecondSignalForces` (EngineServe, temporal) - a second signal during
   `wait_idle` is never polled (`engine/src/engine.rs:670-671`).
7. `DryRunsNeverPersist` (WriterConnection, invariant) - if `ROLLBACK TO` fails
   with the savepoint still open, the plain `RELEASE` that `dry_run` tries next
   commits the dry run.
8. `EagerPageIsExact` (EngineClient, action property) - the second statement of
   an eager page applies its LIMIT anew, so an issuer inserted in between pushes
   the last of the page out of it, and it comes out with no securities
   (`infrastructure/src/sqlite/repositories/issuer.rs:380` says "exactly").

Observed while reading and not modelled as properties: the CLI's `--status` has a
default, so it always overrides the status of the JSON input
(`cli/src/commands/issuer.rs:131,202`); tasks derive `Clone`, so copies of one task
can together exceed its attempts (each value keeps its budget); an issuer stored
with a CNPJ and a NULL country (finding 2) is shown by the client as Brazilian, for
its `IssuerBuilder` fills the country in; `migrations::run` reads `user_version`
outside the exclusive transaction; two callers of `register_venue` that
both look before either inserts store one MIC twice (`core/src/domain/venue.rs:508-514`,
`MicSharedByRacersOnly` bounds how many); and `mic.rs:205` describes the table otherwise
than the macro builds it (`macros/src/lib.rs:322-330`).

## 6. How the project was ordered, and what could follow

Modules were written in the order of the damage their hazards can do: the
facade, the engine's instances and its shutdown, the issuer register, the writer
connection; then securities, listings, tasks, identifiers and the client.
The reader pool came last, under the facade that uses it.
What could follow, once the code has them: repositories of venues and listings, a driver of
tasks and a second migration.

## 7. Not modelled

systemd notifications (observers only; the watchdog datagram has no caller),
configuration and logging, the opening of connections with their PRAGMAs, the one
migration (a single exclusive transaction under the engine lock), the
protobuf wire format, argument parsing and the views of the CLI, the macros
that only emit code, the registry of tasks (it reads a table that nothing
writes), `tasks_old` (not compiled), fuzz targets and benches. The full `update` of issuers
has no caller. SQLite itself is taken at its word: statements are atomic,
readers see committed rows, a savepoint's rollback undoes it.
