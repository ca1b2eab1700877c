---------------------------- MODULE IssuerStore -----------------------------
(***************************************************************************)
(* Issuer RPCs as the engine runs them: the handler validates and builds   *)
(* the request (crates/engine/src/grpc/issuer.rs), the closure of the      *)
(* write lane looks the identifiers up and then runs one version-guarded   *)
(* statement (crates/core/src/domain/issuer.rs, crates/infrastructure/src/ *)
(* sqlite/repositories/issuer.rs).  A live closure looks up on pooled      *)
(* readers, which see committed rows, and writes in autocommit on the      *)
(* writer; a dry run does all of it on the writer inside a savepoint.      *)
(***************************************************************************)
EXTENDS IssuerRows, FiniteSets

ASSUME ClientsAssumption == IsFiniteSet(Clients)

(* Seeded bug: two writes are let in at a time. *)
WriteSlotsTwo == 2

WriteSlots == 1

VARIABLES
  rows,       (* the committed issuer table                                 *)
  draft,      (* the writer connection's view of it inside a savepoint      *)
  savepoint,  (* the dry run that keeps the writer locked, or None          *)
  writing,    (* the calls that hold a permit of the write lane             *)
  stage,      (* where the closure of each call is                          *)
  request,    (* what each call asks                                        *)
  answer,     (* what its closure returns                                   *)
  issued      (* ids generated so far                                       *)

vars == <<rows, draft, savepoint, writing, stage, request, answer, issued>>

Stages == { "idle", "queued", "savepoint", "cnpj", "lei", "statement", "rollback",
            "answered" }

TypeOK ==
  /\ rows \in [Ids -> Row]
  /\ draft \in [Ids -> Row]
  /\ savepoint \in Maybe(Clients)
  /\ writing \subseteq Clients
  /\ stage \in [Clients -> Stages]
  /\ request \in [Clients -> Requests \union {NoRequest}]
  /\ answer \in [Clients -> [kind : AnswerKinds, row : Row]]
  /\ issued \subseteq Ids

Init ==
  /\ rows = NoRows
  /\ draft = NoRows
  /\ savepoint = None
  /\ writing = {}
  /\ stage = [c \in Clients |-> "idle"]
  /\ request = [c \in Clients |-> NoRequest]
  /\ answer = [c \in Clients |-> NoAnswer]
  /\ issued = {}

-----------------------------------------------------------------------------
(* The handler.  A registration gets a new id from the builder before it   *)
(* is queued; the other requests name an id some registration, perhaps a   *)
(* dry or a failed one, has given out.                                     *)
Call(c, r) ==
  /\ stage[c] = "idle"
  /\ r.id \in issued <=> r.op # "register"
  /\ request' = [request EXCEPT ![c] = r]
  /\ IF Buildable(r)
     THEN /\ issued' = issued \union {r.id}
          /\ stage' = [stage EXCEPT ![c] = "queued"]
          /\ UNCHANGED answer
     ELSE /\ answer' = [answer EXCEPT ![c] = Answer("invalid")]
          /\ stage' = [stage EXCEPT ![c] = "answered"]
          /\ UNCHANGED issued
  /\ UNCHANGED <<rows, draft, savepoint, writing>>

(* A delete has no lookups to make. *)
FirstStage(r) == IF r.op = "delete" THEN "statement" ELSE "cnpj"

(* Write-lane admission; see AsyncStorage. *)
Admit(c) ==
  /\ stage[c] = "queued"
  /\ request[c].op # "get"
  /\ Cardinality(writing) < WriteSlots
  /\ writing' = writing \union {c}
  /\ stage' = [stage EXCEPT ![c] = IF request[c].dry THEN "savepoint"
                                                     ELSE FirstStage(request[c])]
  /\ UNCHANGED <<rows, draft, savepoint, request, answer, issued>>

(* Database::dry_run: SAVEPOINT on the locked writer, kept locked until    *)
(* the rollback.                                                           *)
OpenSavepoint(c) ==
  /\ stage[c] = "savepoint"
  /\ savepoint = None
  /\ savepoint' = c
  /\ draft' = rows
  /\ stage' = [stage EXCEPT ![c] = FirstStage(request[c])]
  /\ UNCHANGED <<rows, writing, request, answer, issued>>

(* What the statements of a closure see: DbHandle::Live or DryRun. *)
View(c) == IF request[c].dry THEN draft ELSE rows

(* The closure has its result; a dry run rolls back before it returns it. *)
Conclude(c, a) ==
  /\ answer' = [answer EXCEPT ![c] = a]
  /\ stage' = [stage EXCEPT ![c] = IF savepoint = c THEN "rollback" ELSE "answered"]
  /\ UNCHANGED <<savepoint, writing, request, issued>>

LookupCnpj(c) ==
  /\ stage[c] = "cnpj"
  /\ IF CnpjTaken(View(c), request[c].cnpj)
     THEN Conclude(c, Answer("cnpj_exists"))
     ELSE /\ stage' = [stage EXCEPT ![c] = "lei"]
          /\ UNCHANGED <<savepoint, writing, request, answer, issued>>
  /\ UNCHANGED <<rows, draft>>

LookupLei(c) ==
  /\ stage[c] = "lei"
  /\ IF LeiTaken(View(c), request[c].lei)
     THEN Conclude(c, Answer("lei_exists"))
     ELSE /\ stage' = [stage EXCEPT ![c] = "statement"]
          /\ UNCHANGED <<savepoint, writing, request, answer, issued>>
  /\ UNCHANGED <<rows, draft>>

(* One statement on the writer, which a dry run of another call may hold   *)
(* locked.                                                                 *)
AtStatement(c, op) ==
  /\ stage[c] = "statement"
  /\ request[c].op = op
  /\ savepoint \in {None, c}

(* The statement stores `row` in the writer's view unless a constraint of  *)
(* the table forbids it.                                                   *)
Execute(c, row, success) ==
  LET table == [View(c) EXCEPT ![request[c].id] = row]
  IN  IF KeysUnique(table) /\ CheckHolds(row)
      THEN /\ Conclude(c, Answer(success))
           /\ rows' = IF request[c].dry THEN rows ELSE table
           /\ draft' = IF request[c].dry THEN table ELSE draft
      ELSE /\ Conclude(c, Answer(IF KeysUnique(table) THEN "check" ELSE "unique"))
           /\ UNCHANGED <<rows, draft>>

Insert(c) ==
  /\ AtStatement(c, "register")
  /\ IF View(c)[request[c].id] = Absent
     THEN Execute(c, Built(request[c]), "registered")
     ELSE /\ Conclude(c, Answer("unique"))   (* the primary key *)
          /\ UNCHANGED <<rows, draft>>

(* write_outcome: a guarded write touched no row; the version column tells *)
(* why, read under the same hold of the writer.                            *)
ZeroRows(c) ==
  LET row == View(c)[request[c].id]
  IN  /\ Conclude(c, IF row = Absent THEN Answer("missing") ELSE Mismatch(row))
      /\ UNCHANGED <<rows, draft>>

(* Seeded bug: the UPDATE is not guarded by the version. *)
UpdateUnguarded(c) ==
  /\ AtStatement(c, "patch")
  /\ LET row == View(c)[request[c].id]
     IN  IF row # Absent
         THEN Execute(c, Patched(row, request[c]), "applied")
         ELSE ZeroRows(c)

Update(c) ==
  /\ AtStatement(c, "patch")
  /\ LET row == View(c)[request[c].id]
     IN  IF row.version = request[c].expected
         THEN Execute(c, Patched(row, request[c]), "applied")
         ELSE ZeroRows(c)

(* The foreign key of `security` may refuse it instead: Fault. *)
Delete(c) ==
  /\ AtStatement(c, "delete")
  /\ IF View(c)[request[c].id].version = request[c].expected
     THEN Execute(c, Absent, "applied")
     ELSE ZeroRows(c)

(* Seeded bug: a read during a dry run runs on the dry run's connection. *)
SelectInDraft(c) ==
  /\ stage[c] = "queued"
  /\ request[c].op = "get"
  /\ LET row == (IF savepoint = None THEN rows ELSE draft)[request[c].id]
     IN  Conclude(c, IF row = Absent THEN Answer("absent") ELSE Found(row))
  /\ UNCHANGED <<rows, draft>>

(* A read is one SELECT on a pooled reader. *)
Select(c) ==
  /\ stage[c] = "queued"
  /\ request[c].op = "get"
  /\ LET row == rows[request[c].id]
     IN  Conclude(c, IF row = Absent THEN Answer("absent") ELSE Found(row))
  /\ UNCHANGED <<rows, draft>>

(* A call that fails before its statement commits: refused by its lane,    *)
(* interrupted, busy beyond the retries, panicked, or stopped by the       *)
(* foreign key of a security that refers to the issuer it deletes.  What   *)
(* the open savepoint of a dry run holds is rolled back, by the dry run    *)
(* itself or by the next one to lock the poisoned writer.                  *)
Fault(c) ==
  /\ stage[c] \in {"queued", "savepoint", "cnpj", "lei", "statement"}
  /\ Conclude(c, Answer("fault"))
  /\ UNCHANGED <<rows, draft>>

(* ROLLBACK TO valqeron_dry_run; RELEASE valqeron_dry_run. *)
Rollback(c) ==
  /\ stage[c] = "rollback"
  /\ savepoint' = None
  /\ draft' = NoRows
  /\ stage' = [stage EXCEPT ![c] = "answered"]
  /\ UNCHANGED <<rows, writing, request, answer, issued>>

(* The permit goes back and the answer leaves, to a client or to nobody. *)
Return(c) ==
  /\ stage[c] = "answered"
  /\ writing' = writing \ {c}
  /\ stage' = [stage EXCEPT ![c] = "idle"]
  /\ request' = [request EXCEPT ![c] = NoRequest]
  /\ answer' = [answer EXCEPT ![c] = NoAnswer]
  /\ UNCHANGED <<rows, draft, savepoint, issued>>

Next ==
  \E c \in Clients :
    \/ \E r \in Asked : Call(c, r)
    \/ Admit(c) \/ OpenSavepoint(c)
    \/ LookupCnpj(c) \/ LookupLei(c)
    \/ Insert(c) \/ Update(c) \/ Delete(c) \/ Select(c)
    \/ Fault(c) \/ Rollback(c) \/ Return(c)

Spec == Init /\ [][Next]_vars

-----------------------------------------------------------------------------
(* A taken identifier is always reported as such: no registration or patch *)
(* passes its lookups and then fails on a UNIQUE column, which the client  *)
(* would get as an internal error, although lookups and statement run on   *)
(* different connections.                                                  *)
DuplicatesAreNamed == \A c \in Clients : answer[c].kind # "unique"

(* A version tells whether what was read is stale: while the row a `get`   *)
(* answers is on its way, the stored row is the same, or a later version,  *)
(* or gone; it never has other contents under the same version.            *)
VersionTellsStaleness ==
  \A c \in Clients : answer[c].kind = "found" =>
    LET now == rows[request[c].id]
    IN  now = answer[c].row \/ now = Absent \/ now.version > answer[c].row.version

(* The service behaves as the atomic register: two lookups, a statement, a *)
(* savepoint and its rollback are one step to any number of clients.       *)
Register == INSTANCE IssuerRegister
ImplementsRegister == Register!Spec

(* "Cross-field Validation: CNPJ implies BR" (core/src/domain/issuer.rs),  *)
(* for every stored row.                                                   *)
CnpjImpliesBrazil == \A i \in Ids : rows[i].cnpj # None => rows[i].country = "BR"

-----------------------------------------------------------------------------
(* The strengthening behind the theorems of IssuerStore_proofs.  A call is *)
(* pending from its queueing to its result; inside the lane once it has a  *)
(* permit.                                                                 *)
PendingStages == {"queued", "savepoint", "cnpj", "lei", "statement"}
LaneStages == {"savepoint", "cnpj", "lei", "statement", "rollback"}
LookupStages == {"cnpj", "lei"}
SavepointStages == {"cnpj", "lei", "statement", "rollback"}

OneWriter ==
  /\ \A c, d \in writing : c = d
  /\ \A c \in Clients : stage[c] \in LaneStages =>
       c \in writing /\ request[c].op \in {"register", "patch", "delete"}
  /\ \A c \in Clients : stage[c] \in LookupStages => request[c].op # "delete"

StageTellsCall ==
  \A c \in Clients : /\ stage[c] = "idle" <=> request[c] = NoRequest
                     /\ stage[c] \in {"idle"} \union PendingStages <=> answer[c] = NoAnswer
                     /\ stage[c] \in PendingStages => Buildable(request[c])

SavepointIsDryRun ==
  \A c \in Clients :
    /\ savepoint = c <=> stage[c] \in SavepointStages /\ request[c].dry
    /\ savepoint = c /\ stage[c] # "rollback" => draft = rows
    /\ stage[c] = "savepoint" => request[c].dry

LookedUp ==
  \A c \in Clients :
    /\ stage[c] \in {"lei", "statement"} => ~CnpjTaken(rows, request[c].cnpj)
    /\ stage[c] = "statement" => ~LeiTaken(rows, request[c].lei)

Registering(c) == request[c].op = "register" /\ stage[c] \in PendingStages

FreshIds ==
  /\ \A i \in Ids : rows[i] # Absent => i \in issued
  /\ \A c \in Clients : Registering(c) =>
       /\ request[c].id \in issued
       /\ rows[request[c].id] = Absent
       /\ \A d \in Clients :
            /\ Registering(d) /\ request[d].id = request[c].id => d = c
            /\ answer[d].kind = "found" => request[d].id # request[c].id
  /\ \A c \in Clients : answer[c].kind = "found" =>
       request[c].op = "get" /\ request[c].id \in issued

IndInv ==
  /\ TypeOK
  /\ OneWriter
  /\ StageTellsCall
  /\ SavepointIsDryRun
  /\ LookedUp
  /\ KeysUnique(rows)
  /\ FreshIds
  /\ DuplicatesAreNamed
  /\ VersionTellsStaleness

=============================================================================
