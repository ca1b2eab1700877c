---------------------------- MODULE EngineClient ----------------------------
(***************************************************************************)
(* A user of the registry: commands of the CLI (crates/cli), or of another *)
(* program, through the client library (crates/engine-client) to an engine *)
(* that stops, starts and is upgraded meanwhile; or eager reads by a       *)
(* holder of the repositories, which the RPCs do not offer.  Others write  *)
(* to the tables at any moment, so one user stands for all.  A command is  *)
(* a whole run: connect, handshake, check the input, one RPC, hand the     *)
(* answer over.  The client repeats nothing; the user may, from the cursor *)
(* printed last.                                                           *)
(***************************************************************************)
EXTENDS IssuerReads, Sequences, SequencesExt

CONSTANTS
  Ids,            (* issuer ids, in byte order                              *)
  Securities,
  Protocols,      (* protocol versions of engines                           *)
  ClientProtocol, (* PROTOCOL_VERSION of this client                        *)
  Asked,          (* the commands that users give                           *)
  Limits,         (* page sizes of commands and reads                       *)
  DefaultLimit, MaxLimit

ASSUME IdsAssumption == Ids \subseteq Nat \ {0}
ASSUME ProtocolsAssumption == Protocols \subseteq Nat \ {0} /\ ClientProtocol \in Protocols
ASSUME LimitsAssumption ==
  MaxLimit \in Nat /\ DefaultLimit \in 1..MaxLimit /\ Limits \subseteq Nat

(* The server's clamp: 0 asks for the default.                             *)
ClampLimit(limit) ==
  IF limit = 0 THEN DefaultLimit ELSE IF limit < MaxLimit THEN limit ELSE MaxLimit

Command(ops, limits, dry) == [op : ops, limit : limits, dry : dry, valid : BOOLEAN]

(* The CLI keeps to limits from 1 on, the library passes on any.  Input is *)
(* invalid if a field, a UUID or the JSON file does not parse, or no       *)
(* issuer can be built of it.                                              *)
ListCommands == Command({"list"}, Limits, {FALSE})

RegisterCommands == Command({"register"}, {0}, BOOLEAN)

(* info; ping, status or list-background-tasks (whose table nobody writes):*)
(* one RPC that changes nothing.                                           *)
AskCommands == Command({"ask"}, {0}, {FALSE})

(* Offered by the library only.                                            *)
EditCommands == Command({"patch", "delete"}, {0}, BOOLEAN)

Commands == ListCommands \union RegisterCommands \union AskCommands \union EditCommands

ASSUME AskedAssumption == Asked \subseteq Commands

-----------------------------------------------------------------------------
VARIABLES
  user,             (* "cli" or "holder", for good                          *)
  issuers, issued,  (* the issuer table; ids stored so far                  *)
  owner,            (* the issuer of a stored security, Start if not stored *)
  engine,           (* the protocol of the engine that listens, 0 if none   *)
  stage, command,   (* the CLI: its next step, what it was asked            *)
  reply,            (* what the engine answered                             *)
  outcome,          (* how the command ended                                *)
  applied,          (* history: the rows its request wrote                  *)
  late,             (* the request its client gave up on, if it may yet run *)
  walk,             (* the pages a user has printed, and the next cursor    *)
  read, rows,       (* an eager read after its first statement              *)
  crowd,            (* history: ids inserted since then                     *)
  result            (* its issuers with their securities                    *)

tables == <<user, issuers, issued, owner>>
cli == <<stage, command, reply, outcome, applied, late, walk>>
reader == <<read, rows, crowd, result>>
vars == <<tables, engine, cli, reader>>

NoCommand == [op |-> "none", limit |-> 0, dry |-> FALSE, valid |-> FALSE]
NoReply == [kind |-> "none", ids |-> {}]
NewWalk == [cursor |-> Start, listed |-> <<>>, stayers |-> {}, over |-> FALSE]
NoRead == [shape |-> "none", key |-> Start, limit |-> 0]
NoResult == [i \in {Start} |-> {}]

Init ==
  /\ user \in {"cli", "holder"}
  /\ issuers = {} /\ issued = {} /\ owner = [s \in Securities |-> Start]
  /\ engine = 0
  /\ stage = "idle" /\ outcome = "none" /\ reply = NoReply
  /\ command = NoCommand
  /\ applied = {} /\ late = "none" /\ walk = NewWalk
  /\ read = NoRead /\ rows = {} /\ crowd = {} /\ result = NoResult

-----------------------------------------------------------------------------
(* The tables, as others write them.  UUIDv7s are ordered by the clock of  *)
(* who makes them and stored later, so a new id may be before old ones.    *)
Store(i) ==
  /\ i \notin issued
  /\ issuers' = issuers \union {i}
  /\ issued' = issued \union {i}
  /\ crowd' = IF read = NoRead THEN {} ELSE crowd \union {i}
  /\ UNCHANGED <<user, owner>>

Insert(i) == Store(i) /\ UNCHANGED <<engine, cli, read, rows, result>>

(* The foreign key of security keeps an issuer that has any.               *)
Erase(i) ==
  /\ i \in issuers
  /\ \A s \in Securities : owner[s] # i
  /\ issuers' = issuers \ {i}
  /\ walk' = [walk EXCEPT !.stayers = @ \ {i}]
  /\ UNCHANGED <<user, issued, owner, crowd>>

Delete(i) ==
  /\ Erase(i)
  /\ UNCHANGED <<engine, stage, command, reply, outcome, applied, late, read, rows, result>>

(* A security comes and goes; only eager reads look at them.               *)
Assign(s, i) ==
  /\ user = "holder"
  /\ owner[s] # i
  /\ i \in issuers \union {Start}
  /\ owner[s] = Start \/ i = Start
  /\ owner' = [owner EXCEPT ![s] = i]
  /\ UNCHANGED <<user, issuers, issued, engine, cli, reader>>

-----------------------------------------------------------------------------
(* An eager read: two statements on one pooled connection, no transaction. *)
ReadRows(r) ==
  /\ user = "holder" /\ read = NoRead
  /\ read' = r
  /\ rows' = RowsOf(issuers, r)
  /\ crowd' = {} /\ result' = NoResult
  /\ UNCHANGED <<tables, engine, cli>>

ReadSecurities ==
  /\ read # NoRead
  /\ result' = HydrateRows(rows, SecuritiesOf(issuers, owner, read), owner)
  /\ read' = NoRead /\ rows' = {} /\ crowd' = {}
  /\ UNCHANGED <<tables, engine, cli>>

(* A StorageFault of the second statement.                                 *)
ReadFails ==
  /\ read # NoRead
  /\ read' = NoRead /\ rows' = {} /\ crowd' = {}
  /\ UNCHANGED <<tables, engine, cli, result>>

-----------------------------------------------------------------------------
(* The engine.  One that stops takes the requests it has not answered.     *)
StartEngine(p) ==
  /\ user = "cli" /\ engine = 0
  /\ engine' = p
  /\ UNCHANGED <<tables, cli, reader>>

StopEngine ==
  /\ engine # 0
  /\ engine' = 0
  /\ stage' = IF stage = "sent" THEN "lost" ELSE stage
  /\ late' = "none"
  /\ UNCHANGED <<tables, command, reply, outcome, applied, walk, reader>>

Answer(r) == stage' = "answered" /\ reply' = r

HandleRegister ==
  /\ command.op = "register"
  /\ \E i \in Ids \ issued :
       /\ Answer([kind |-> "Ok", ids |-> {i}])
       /\ IF command.dry THEN UNCHANGED <<tables, applied, crowd>>
                         ELSE Store(i) /\ applied' = applied \union {i}
  /\ UNCHANGED walk

(* patch and delete: no such issuer, another version of it, or done.       *)
HandleEdit ==
  /\ command.op \in {"patch", "delete"}
  /\ \E i \in Ids :
       \/ i \notin issuers /\ Answer([kind |-> "Missing", ids |-> {i}])
            /\ UNCHANGED <<tables, applied, crowd, walk>>
       \/ i \in issuers /\ Answer([kind |-> "VersionMismatch", ids |-> {i}])
            /\ UNCHANGED <<tables, applied, crowd, walk>>
       \/ /\ i \in issuers /\ Answer([kind |-> "Ok", ids |-> {i}])
          /\ applied' = IF command.dry THEN {} ELSE {i}
          /\ IF command.op = "delete" /\ ~command.dry THEN Erase(i)
             ELSE UNCHANGED <<tables, crowd, walk>>

(* Issuers present from the statement of the first page on are to appear   *)
(* in the walk.                                                            *)
HandleList ==
  /\ command.op = "list"
  /\ Answer([kind |-> "Ok", ids |-> Page(issuers, walk.cursor, ClampLimit(command.limit))])
  /\ walk' = IF walk.listed = <<>> THEN [walk EXCEPT !.stayers = issuers] ELSE walk
  /\ UNCHANGED <<tables, applied, crowd>>

HandleAsk ==
  /\ command.op = "ask"
  /\ Answer([kind |-> "Ok", ids |-> {}])
  /\ UNCHANGED <<tables, applied, crowd, walk>>

(* A duplicate, a request that names nothing; or a fault, an overload, a   *)
(* shutdown or a panic, which are all Internal.                            *)
RefuseRequest ==
  /\ \E k \in {"AlreadyExists", "InvalidArgument", "Internal"} : Answer([kind |-> k, ids |-> {}])
  /\ UNCHANGED <<tables, applied, crowd, walk>>

Handle ==
  /\ stage = "sent" /\ engine # 0
  /\ HandleRegister \/ HandleEdit \/ HandleList \/ HandleAsk \/ RefuseRequest
  /\ UNCHANGED <<engine, command, outcome, late, read, rows, result>>

(* What AsyncStorage has admitted goes on without its caller.              *)
HandleLate(i) ==
  /\ engine # 0
  /\ \/ late = "register" /\ Store(i) /\ UNCHANGED walk
     \/ late = "delete" /\ Erase(i)
  /\ late' = "none"
  /\ UNCHANGED <<engine, stage, command, reply, outcome, applied, read, rows, result>>

-----------------------------------------------------------------------------
(* The CLI.                                                                *)
Finish(o) ==
  /\ stage' = "idle"
  /\ outcome' = o
  /\ reply' = NoReply
  /\ UNCHANGED <<tables, engine, command, applied, reader>>

Proceed(from, to) ==
  /\ stage = from
  /\ stage' = to
  /\ UNCHANGED <<tables, engine, command, reply, outcome, applied, late, walk, reader>>

(* classify_connect_error, by the kind of the io::Error.                   *)
ConnectError(kind) ==
  IF kind \in {"ConnectionRefused", "NotFound"} THEN "not_running" ELSE "unreachable"

(* Seeded bug: a channel that breaks taken for an engine that is not there. *)
MapStatusNotRunning(code) == IF code = "Unavailable" THEN "not_running" ELSE code

(* map_status: Unreachable, or Rpc with the code.                          *)
MapStatus(code) == IF code = "Unavailable" THEN "unreachable" ELSE code

Begin(c) ==
  /\ user = "cli" /\ stage = "idle"
  /\ stage' = "dial"
  /\ command' = c
  /\ outcome' = "none" /\ reply' = NoReply /\ applied' = {}
  /\ walk' = IF c.op = "list" /\ walk.over THEN NewWalk ELSE walk
  /\ UNCHANGED <<tables, engine, late, reader>>

(* Client::connect: the socket, then the health RPC.                       *)
Dial == engine # 0 /\ Proceed("dial", "handshake")

DialFails ==
  /\ stage = "dial"
  /\ \E kind \in {"ConnectionRefused", "NotFound", "TimedOut"} :
       /\ kind # "TimedOut" => engine = 0
       /\ Finish(ConnectError(kind))
  /\ UNCHANGED <<late, walk>>

Handshake == engine = ClientProtocol /\ Proceed("handshake", "execute")

ProtocolMismatch ==
  /\ stage = "handshake" /\ engine \notin {0, ClientProtocol}
  /\ Finish("version_mismatch")
  /\ UNCHANGED <<late, walk>>

(* Command::execute looks at its input only now.                           *)
Execute == command.valid /\ Proceed("execute", "send")

InvalidInput ==
  /\ stage = "execute" /\ ~command.valid
  /\ Finish("invalid_input")
  /\ UNCHANGED <<late, walk>>

(* The channel connects again by itself, to whichever engine listens.      *)
Send == engine # 0 /\ Proceed("send", "sent")

(* The connection breaks, or the timeout of 5 s passes: the request may    *)
(* not have been sent, may be on its way, or may be done.                  *)
LoseCall ==
  /\ stage \in {"handshake", "send", "sent", "answered", "lost"}
  /\ \E code \in {"Unavailable", "Cancelled"} : Finish(MapStatus(code))
  /\ late' \in {late, IF stage = "sent" /\ ~command.dry THEN command.op ELSE late}
  /\ UNCHANGED walk

(* Answered by a message, which for patch and delete is a WriteOutcome, or *)
(* by a status.                                                            *)
Messages == {"Ok", "Missing", "VersionMismatch"}

Receive == reply.kind \in Messages /\ Proceed("answered", "print")

ReceiveError ==
  /\ stage = "answered" /\ reply.kind \notin Messages
  /\ Finish(MapStatus(reply.kind))
  /\ UNCHANGED <<late, walk>>

(* InvalidResponse: the message has no issuer, outcome or value in it that *)
(* this client can parse, whatever its request did.                        *)
DecodeFails ==
  /\ stage = "answered" /\ reply.kind \in Messages
  /\ Finish("invalid_response")
  /\ UNCHANGED <<late, walk>>

(* ORDER BY id.                                                            *)
Ordered(ids) == CHOOSE s \in SetToSeqs(ids) : \A m, n \in DOMAIN s : m < n => s[m] < s[n]

(* next_after is the last id of the page; an empty page ends the walk.     *)
Turned(ids) ==
  IF ids = {} THEN [walk EXCEPT !.over = TRUE]
  ELSE LET page == Ordered(ids)
       IN  [walk EXCEPT !.listed = @ \o page, !.cursor = Last(page)]

(* write_success, last of all.                                             *)
WriteSuccess ==
  /\ stage = "print"
  /\ stage' = "idle"
  /\ outcome' = IF reply.kind = "Ok" THEN "success" ELSE reply.kind
  /\ walk' = IF command.op = "list" THEN Turned(reply.ids) ELSE walk
  /\ UNCHANGED <<tables, engine, command, reply, applied, late, reader>>

OutputFails ==
  /\ stage = "print" /\ command.op \notin {"patch", "delete"}
  /\ Finish("output_failed")
  /\ UNCHANGED <<late, walk>>

Next ==
  \/ \E i \in Ids : Insert(i) \/ Delete(i) \/ HandleLate(i)
  \/ \E s \in Securities, i \in Ids \union {Start} : Assign(s, i)
  \/ \E r \in Reads(Ids, Limits \ {0}) : ReadRows(r)
  \/ ReadSecurities \/ ReadFails
  \/ \E p \in Protocols : StartEngine(p)
  \/ StopEngine \/ Handle
  \/ \E c \in Asked : Begin(c)
  \/ Dial \/ DialFails \/ Handshake \/ ProtocolMismatch \/ Execute \/ InvalidInput
  \/ Send \/ LoseCall \/ Receive \/ ReceiveError \/ DecodeFails \/ WriteSuccess
  \/ OutputFails

Spec == Init /\ [][Next]_vars

-----------------------------------------------------------------------------
(* How a command ends tells what it did, which decides whether the user    *)
(* may repeat it: the errors and outcomes that name a reason had no        *)
(* effect; a success wrote exactly the issuer it names, or nothing in a    *)
(* dry run; and no command, however it ended, wrote two (dispatch,         *)
(* classify_connect_error, map_status, handshake, write_outcome_from_proto)*)
SafeToRepeat == { "not_running", "version_mismatch", "invalid_input", "AlreadyExists",
                  "InvalidArgument", "Missing", "VersionMismatch" }

OutcomesTellTheEffect ==
  /\ outcome \in SafeToRepeat => applied = {}
  /\ outcome = "success" /\ command.op \in {"register", "patch", "delete"} =>
       applied = IF command.dry THEN {} ELSE reply.ids
  /\ Cardinality(applied) <= 1

(* A walk through the pages, whatever is inserted and deleted meanwhile,   *)
(* over engines that stop and start and with pages that had to be asked    *)
(* for again: no issuer appears twice, the order is that of the ids, and   *)
(* at the end every issuer that was there all the time has appeared        *)
(* (list_paged, the clamp of the limit, next_after of ListArgs).           *)
StayersListedOnce ==
  /\ \A m, n \in DOMAIN walk.listed : m < n => walk.listed[m] < walk.listed[n]
  /\ walk.over => walk.stayers \subseteq ToSet(walk.listed)

(* An eager read never gives an issuer another's securities and, with one  *)
(* exception, gives it all of its own: on a page, an issuer inserted       *)
(* between the two statements before it pushes it out of the second one's  *)
(* LIMIT, and it comes out with none (list_paged, hydrate_rows,            *)
(* securities_for_issuer_page).                                            *)
EagerReadsAreTrue ==
  [][result' # result /\ result' # NoResult =>
       \A i \in DOMAIN result' :
         \/ result'[i] = { s \in Securities : owner[s] = i }
         \/ /\ result'[i] = {}
            /\ read.shape = "page" /\ \E j \in crowd : read.key < j /\ j < i]_vars

(* What the comment on securities_for_issuer_page says: securities "of     *)
(* exactly the issuers a list_paged call returns".                         *)
EagerPageIsExact ==
  [][result' # result /\ result' # NoResult =>
       \A i \in DOMAIN result' : result'[i] = { s \in Securities : owner[s] = i }]_vars
=============================================================================
