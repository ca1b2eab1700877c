--------------------------- MODULE SecurityStore ----------------------------
(***************************************************************************)
(* Securities of issuers: the service that registers them                  *)
(* (crates/core/src/domain/security.rs) over the security table            *)
(* (crates/infrastructure/src/sqlite/repositories/securities.rs and        *)
(* migrations/001_create_initial_schema.sql).  Callers share the storage   *)
(* engine from threads of their own: every lookup and every statement      *)
(* takes and releases a connection, so the steps of one caller interleave  *)
(* with those of the others.  A row keeps the columns that the rules       *)
(* relate; name, status and cfi are patches that set none of them.         *)
(***************************************************************************)
EXTENDS Naturals, FiniteSets

CONSTANTS
  Callers,     (* threads that use the repositories                         *)
  Ids,         (* security ids (UUIDv7), each generated at most once        *)
  Issuers,     (* issuer ids                                                *)
  Isins,
  None,        (* an absent Option, an SQL NULL                             *)
  Snapshots,   (* the securities that callers store                         *)
  MaxVersion   (* bound: no row moves past this version                     *)

ASSUME NoneAssumption == None \notin Ids \union Isins
ASSUME MaxVersionAssumption == MaxVersion \in Nat \ {0}

Maybe(S) == S \union {None}

(* Only is_depositary_receipt tells the kinds apart. *)
Kinds == {"COMMON_SHARE", "DEPOSITARY_RECEIPT"}

Security == [issuer : Issuers, kind : Kinds, isin : Maybe(Isins),
             underlying : Maybe(Ids), ratio : BOOLEAN]
ASSUME SnapshotsAssumption == Snapshots \subseteq Security

Row == [data : Security, version : 1..MaxVersion]
NoRow == [version |-> 0]

(* SecurityBuilder::build, for the security that is to have this id; a     *)
(* snapshot reaches the repository by Security::reconstitute without it.   *)
Buildable(id, s) ==
  /\ s.kind # "DEPOSITARY_RECEIPT" => s.underlying = None /\ ~s.ratio
  /\ s.underlying # id

-----------------------------------------------------------------------------
VARIABLES
  issuers,   (* the ids in the issuer table                                 *)
  rows,      (* the security table: a Row for every id, NoRow if not stored *)
  issued,    (* ids generated so far                                        *)
  stage,     (* the next step of each caller                                *)
  target,    (* the id it works on                                          *)
  input,     (* the security it hands over                                  *)
  seen,      (* the row its find_by_id returned                             *)
  answer     (* what its last call returned                                 *)

vars == <<issuers, rows, issued, stage, target, input, seen, answer>>
caller == <<target, input, seen>>

Stages == {"idle", "issuer", "isin", "underlying", "insert", "editing"}
Answers == { "none", "invalid", "unknown_issuer", "duplicate_isin", "unknown_underlying",
             "registered", "found", "applied", "mismatch", "missing", "fault" }

Stored == { i \in Ids : rows[i] # NoRow }

TypeOK ==
  /\ issuers \subseteq Issuers
  /\ rows \in [Ids -> Row \union {NoRow}]
  /\ issued \subseteq Ids
  /\ stage \in [Callers -> Stages]
  /\ target \in [Callers -> Maybe(Ids)]
  /\ input \in [Callers -> Maybe(Snapshots)]
  /\ seen \in [Callers -> Row \union {NoRow}]
  /\ answer \in [Callers -> Answers]

Init ==
  /\ issuers = {}
  /\ rows = [i \in Ids |-> NoRow]
  /\ issued = {}
  /\ stage = [c \in Callers |-> "idle"]
  /\ target = [c \in Callers |-> None]
  /\ input = [c \in Callers |-> None]
  /\ seen = [c \in Callers |-> NoRow]
  /\ answer = [c \in Callers |-> "none"]

(* The call returns, and the caller drops what it worked on. *)
Return(c, a) ==
  /\ answer' = [answer EXCEPT ![c] = a]
  /\ stage' = [stage EXCEPT ![c] = "idle"]
  /\ target' = [target EXCEPT ![c] = None]
  /\ input' = [input EXCEPT ![c] = None]
  /\ seen' = [seen EXCEPT ![c] = NoRow]

Goto(c, s) ==
  /\ stage' = [stage EXCEPT ![c] = s]
  /\ UNCHANGED <<answer, target, input, seen>>

-----------------------------------------------------------------------------
(* exists_by_isin, and the UNIQUE column, which does not compare NULLs.    *)
IsinFree(i, isin) == isin = None \/ \A j \in Stored \ {i} : rows[j].data.isin # isin

(* Seeded bug: isin is not UNIQUE. *)
AcceptedTwice(i, s) ==
  /\ s.kind = "DEPOSITARY_RECEIPT" \/ (s.underlying = None /\ ~s.ratio)
  /\ s.underlying # i
  /\ s.issuer \in issuers
  /\ s.underlying = None \/ s.underlying \in Stored

(* What the table accepts as the data of row i: isin UNIQUE; the CHECKs on *)
(* the kind and on itself; and the REFERENCES to both tables, which are    *)
(* enforced on every connection.                                           *)
Accepted(i, s) ==
  /\ IsinFree(i, s.isin)
  /\ s.kind = "DEPOSITARY_RECEIPT" \/ (s.underlying = None /\ ~s.ratio)
  /\ s.underlying # i
  /\ s.issuer \in issuers
  /\ s.underlying = None \/ s.underlying \in Stored

(* Issuer::insert and IssuerRepository::delete; an issuer that securities  *)
(* refer to cannot go.                                                     *)
AddIssuer(i) ==
  /\ i \notin issuers
  /\ issuers' = issuers \union {i}
  /\ UNCHANGED <<rows, issued, stage, caller, answer>>

RemoveIssuer(i) ==
  /\ i \in issuers
  /\ \A j \in Stored : rows[j].data.issuer # i
  /\ issuers' = issuers \ {i}
  /\ UNCHANGED <<rows, issued, stage, caller, answer>>

-----------------------------------------------------------------------------
(* register_security: the builder, then three lookups, then the insert.    *)
Register(c, i, s) ==
  /\ stage[c] = "idle"
  /\ i \notin issued
  /\ IF Buildable(i, s)
     THEN /\ issued' = issued \union {i}
          /\ target' = [target EXCEPT ![c] = i]
          /\ input' = [input EXCEPT ![c] = s]
          /\ stage' = [stage EXCEPT ![c] = "issuer"]
          /\ answer' = [answer EXCEPT ![c] = "none"]
          /\ UNCHANGED seen
     ELSE Return(c, "invalid") /\ UNCHANGED issued
  /\ UNCHANGED <<issuers, rows>>

CheckIssuer(c) ==
  /\ stage[c] = "issuer"
  /\ IF input[c].issuer \in issuers THEN Goto(c, "isin") ELSE Return(c, "unknown_issuer")
  /\ UNCHANGED <<issuers, rows, issued>>

CheckIsin(c) ==
  /\ stage[c] = "isin"
  /\ IF IsinFree(None, input[c].isin) THEN Goto(c, "underlying") ELSE Return(c, "duplicate_isin")
  /\ UNCHANGED <<issuers, rows, issued>>

CheckUnderlying(c) ==
  /\ stage[c] = "underlying"
  /\ IF input[c].underlying \in {None} \union Stored
     THEN Goto(c, "insert")
     ELSE Return(c, "unknown_underlying")
  /\ UNCHANGED <<issuers, rows, issued>>

(* The repository's insert is also called alone, with a reconstituted      *)
(* security that no builder has validated.                                 *)
Import(c, i, s) ==
  /\ stage[c] = "idle"
  /\ i \notin issued
  /\ issued' = issued \union {i}
  /\ target' = [target EXCEPT ![c] = i]
  /\ input' = [input EXCEPT ![c] = s]
  /\ stage' = [stage EXCEPT ![c] = "insert"]
  /\ answer' = [answer EXCEPT ![c] = "none"]
  /\ UNCHANGED <<issuers, rows, seen>>

Insert(c) ==
  /\ stage[c] = "insert"
  /\ IF rows[target[c]] = NoRow /\ Accepted(target[c], input[c])
     THEN /\ rows' = [rows EXCEPT ![target[c]] = [data |-> input[c], version |-> 1]]
          /\ Return(c, "registered")
     ELSE Return(c, "fault") /\ UNCHANGED rows
  /\ UNCHANGED <<issuers, issued>>

-----------------------------------------------------------------------------
(* An edit: find_by_id, then one of the three writes guarded by the        *)
(* version that it returned.                                               *)
Find(c, i) ==
  /\ stage[c] = "idle"
  /\ i \in Stored
  /\ target' = [target EXCEPT ![c] = i]
  /\ seen' = [seen EXCEPT ![c] = rows[i]]
  /\ stage' = [stage EXCEPT ![c] = "editing"]
  /\ answer' = [answer EXCEPT ![c] = "found"]
  /\ UNCHANGED <<issuers, rows, issued, input>>

(* write_outcome: no row had this id and version. *)
ZeroRows(c) ==
  /\ Return(c, IF rows[target[c]] = NoRow THEN "missing" ELSE "mismatch")
  /\ UNCHANGED rows

(* Seeded bug: the statement names the row by its id alone. *)
WriteUnguarded(c, s) ==
  IF rows[target[c]] # NoRow
  THEN IF Accepted(target[c], s)
       THEN /\ rows' = [rows EXCEPT ![target[c]] = [data |-> s, version |-> @.version + 1]]
            /\ Return(c, "applied")
       ELSE Return(c, "fault") /\ UNCHANGED rows
  ELSE ZeroRows(c)

Write(c, s) ==
  IF rows[target[c]].version = seen[c].version
  THEN IF Accepted(target[c], s)
       THEN /\ rows' = [rows EXCEPT ![target[c]] = [data |-> s, version |-> @.version + 1]]
            /\ Return(c, "applied")
       ELSE Return(c, "fault") /\ UNCHANGED rows
  ELSE ZeroRows(c)

Editing(c) ==
  /\ stage[c] = "editing"
  /\ seen[c].version < MaxVersion
  /\ UNCHANGED <<issuers, issued>>

(* The columns of the row that the statement finds, not of the one seen.   *)
Now(c) == IF rows[target[c]] = NoRow THEN seen[c].data ELSE rows[target[c]].data

(* COALESCE(?, column) for each column of a SecurityPatch. *)
Patched(old, isin, ratio) ==
  [old EXCEPT !.isin = IF isin = None THEN @ ELSE isin, !.ratio = @ \/ ratio]
ApplyPatch(c, isin, ratio) == Editing(c) /\ Write(c, Patched(Now(c), isin, ratio))

(* Seeded bug: the full replace also writes the underlying security. *)
ReplacedLink(old, s) == [old EXCEPT !.isin = s.isin, !.ratio = s.ratio, !.underlying = s.underlying]

(* The full replace writes neither the issuer, the kind nor the underlying *)
(* security of the object it is given.                                     *)
Replaced(old, s) == [old EXCEPT !.isin = s.isin, !.ratio = s.ratio]
Update(c, s) == Editing(c) /\ Write(c, Replaced(Now(c), s))

(* Seeded bug: the foreign keys are not enforced on the writer. *)
DeleteReferenced(c) ==
  /\ stage[c] = "editing"
  /\ IF rows[target[c]].version = seen[c].version
     THEN rows' = [rows EXCEPT ![target[c]] = NoRow] /\ Return(c, "applied")
     ELSE ZeroRows(c)
  /\ UNCHANGED <<issuers, issued>>

Delete(c) ==
  /\ stage[c] = "editing"
  /\ IF rows[target[c]].version = seen[c].version
     THEN IF \A j \in Stored : rows[j].data.underlying # target[c]
          THEN rows' = [rows EXCEPT ![target[c]] = NoRow] /\ Return(c, "applied")
          ELSE Return(c, "fault") /\ UNCHANGED rows
     ELSE ZeroRows(c)
  /\ UNCHANGED <<issuers, issued>>

(* A lookup or a statement that fails: busy beyond the retries, or an      *)
(* error of the connection.  An edit may also be given up.                 *)
Fault(c) ==
  /\ stage[c] # "idle"
  /\ Return(c, "fault")
  /\ UNCHANGED <<issuers, rows, issued>>

Next ==
  \/ \E i \in Issuers : AddIssuer(i) \/ RemoveIssuer(i)
  \/ \E c \in Callers :
       \/ \E i \in Ids, s \in Snapshots : Register(c, i, s) \/ Import(c, i, s)
       \/ CheckIssuer(c) \/ CheckIsin(c) \/ CheckUnderlying(c) \/ Insert(c)
       \/ \E i \in Ids : Find(c, i)
       \/ \E isin \in Maybe(Isins), ratio \in BOOLEAN : ApplyPatch(c, isin, ratio)
       \/ \E s \in Snapshots : Update(c, s)
       \/ Delete(c) \/ Fault(c)

Spec == Init /\ [][Next]_vars

-----------------------------------------------------------------------------
(* No receipt wraps itself through others: from any securities one follows *)
(* the underlying links to one that is not among them.  Lookup and insert  *)
(* are separate steps and rows come and go between them, yet what          *)
(* register_security and the schema let in is never a cycle.               *)
NoReceiptCycle ==
  \A S \in SUBSET Stored : S # {} => \E i \in S : rows[i].data.underlying \notin S

(* What a security refers to exists: neither a deletion between the        *)
(* lookups of register_security and its insert, nor one made later, leaves *)
(* a security whose issuer or underlying security is gone.                 *)
ReferencesResolve ==
  \A i \in Stored : /\ rows[i].data.issuer \in issuers
                    /\ rows[i].data.underlying \in Maybe(Stored)

(* find_by_isin has one answer: two callers that both passed the lookup,   *)
(* or that patch the identifier in, do not both get to keep it.            *)
IsinNamesOneSecurity ==
  \A i, j \in Stored : rows[i].data.isin = rows[j].data.isin /\ i # j => rows[i].data.isin = None

(* The WriteOutcome of an edit is true: an applied one has replaced the    *)
(* very row it was computed from, one refused for its version was overrun  *)
(* by another edit, and one refused as missing was overrun by a deletion.  *)
Answered(c, a) == stage[c] = "editing" /\ answer'[c] = a
WriteOutcomesAreTrue ==
  [][\A c \in Callers :
       /\ Answered(c, "applied") => rows[target[c]] = seen[c]
       /\ Answered(c, "mismatch") => rows[target[c]].version > seen[c].version
       /\ Answered(c, "missing") => target[c] \notin Stored]_vars

=============================================================================
