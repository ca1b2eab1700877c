------------------------- MODULE IssuerStore_proofs -------------------------
(***************************************************************************)
(* Theorems about IssuerStore, for every finite set of clients, every set  *)
(* of ids and identifiers, and every set of requests.                      *)
(***************************************************************************)
EXTENDS IssuerStore, FiniteSetTheorems, TLAPS

(* The fields of a request. *)
LEMMA RequestType ==
  ASSUME NEW r \in Requests
  PROVE  /\ r.op \in {"register", "patch", "delete", "get"}
         /\ r.id \in Ids
         /\ r.cnpj \in Maybe(Cnpjs) /\ r.lei \in Maybe(Leis) /\ r.country \in Maybe(Countries)
         /\ r.dry \in BOOLEAN
         /\ r.op = "patch" => r.expected \in 1..(MaxVersion - 1)
         /\ r.op = "delete" => r.expected \in 1..MaxVersion
         /\ r # NoRequest
  <1>1. CASE r \in Registrations
    BY <1>1, NoneAssumption DEF Registrations, NoRequest, Maybe
  <1>2. CASE r \in Patches
    BY <1>2, NoneAssumption DEF Patches, NoRequest, Maybe
  <1>3. CASE r \in Deletes
    BY <1>3, NoneAssumption DEF Deletes, NoRequest, Maybe
  <1>4. CASE r \in Gets
    <2>1. r.dry \in {FALSE}  BY <1>4 DEF Gets
    <2>2. r.dry \in BOOLEAN  BY <2>1, Zenon
    <2>3. QED  BY <1>4, <2>2, NoneAssumption DEF Gets, NoRequest, Maybe
  <1>5. QED  BY <1>1, <1>2, <1>3, <1>4 DEF Requests

(* The rows the statements store. *)
LEMMA RowType ==
  /\ Absent \in Row
  /\ \A r \in Requests : r.op = "register" => Built(r) \in Row /\ Built(r) # Absent
  /\ \A r \in Requests, row \in Row :
       r.op = "patch" /\ row.version = r.expected =>
         /\ row # Absent
         /\ Patched(row, r) \in Row
         /\ Patched(row, r).version > row.version
  <1>1. Absent \in Row
    BY MaxVersionAssumption DEF Absent, Row, Maybe
  <1>2. ASSUME NEW r \in Requests, r.op = "register"
        PROVE  Built(r) \in Row /\ Built(r) # Absent
    <2>1. Built(r).version = 1 /\ Absent.version = 0  BY DEF Built, Absent
    <2>2. Built(r) \in Row
      <3>1. r.cnpj \in Maybe(Cnpjs) /\ r.lei \in Maybe(Leis) /\ r.country \in Maybe(Countries)
        BY RequestType
      <3>2. 1 \in 0..MaxVersion /\ "BR" \in Maybe(Countries)
        BY CountriesAssumption, MaxVersionAssumption DEF Maybe
      <3>3. QED  BY <3>1, <3>2 DEF Built, Row
    <2>3. QED  BY <2>1, <2>2
  <1>3. ASSUME NEW r \in Requests, NEW row \in Row, r.op = "patch", row.version = r.expected
        PROVE  row # Absent /\ Patched(row, r) \in Row /\ Patched(row, r).version > row.version
    <2>1. r.expected \in 1..(MaxVersion - 1)  BY <1>3, RequestType
    <2>2. row # Absent  BY <2>1, <1>3, MaxVersionAssumption DEF Absent
    <2>3. Patched(row, r).version = row.version + 1  BY DEF Patched
    <2>4. Patched(row, r) \in Row
      <3>1. row.version + 1 \in 0..MaxVersion  BY <2>1, <1>3, MaxVersionAssumption
      <3>2. /\ Coalesce(r.cnpj, row.cnpj) \in Maybe(Cnpjs)
            /\ Coalesce(r.lei, row.lei) \in Maybe(Leis)
            /\ Coalesce(r.country, row.country) \in Maybe(Countries)
        BY RequestType DEF Coalesce, Row
      <3>3. QED  BY <3>1, <3>2 DEF Patched, Row
    <2>5. QED  BY <2>1, <2>2, <2>3, <2>4, <1>3, MaxVersionAssumption
  <1>4. QED  BY <1>1, <1>2, <1>3

(* Storing a row whose keys are its old ones, absent or free keeps the     *)
(* UNIQUE columns unique.                                                  *)
LEMMA UniqueAfterStore ==
  ASSUME rows \in [Ids -> Row], KeysUnique(rows), NEW i \in Ids, NEW row \in Row,
         \/ row.cnpj \in {None, rows[i].cnpj}
         \/ ~CnpjTaken(rows, row.cnpj),
         \/ row.lei \in {None, rows[i].lei}
         \/ ~LeiTaken(rows, row.lei)
  PROVE  KeysUnique([rows EXCEPT ![i] = row])
  BY DEF KeysUnique, CnpjTaken, LeiTaken, Row

(* The statements of a dry run see the committed rows: no other call has   *)
(* written since its savepoint.                                            *)
LEMMA ViewIsRows ==
  ASSUME IndInv, NEW c \in Clients, stage[c] \in {"cnpj", "lei", "statement"}
  PROVE  View(c) = rows
  BY DEF IndInv, SavepointIsDryRun, SavepointStages, View

(* A call past admission, when none of its statements has run. *)
LEMMA PendingRequest ==
  ASSUME IndInv, NEW c \in Clients, stage[c] \notin {"idle"}
  PROVE  request[c] \in Requests
  BY DEF IndInv, TypeOK, StageTellsCall

(* A closure that ends without touching the table. *)
LEMMA ConcludeStep ==
  ASSUME IndInv, NEW c \in Clients, stage[c] \in PendingStages,
         NEW a \in [kind : AnswerKinds \ {"none", "unique"}, row : Row],
         Conclude(c, a), UNCHANGED <<rows, draft>>,
         a.kind = "found" => /\ request[c].op = "get"
                             /\ a.row = rows[request[c].id]
                             /\ a.row # Absent
  PROVE  IndInv'
  <1> USE DEF PendingStages
  <1>1. request[c] \in Requests /\ request[c].id \in Ids /\ a # NoAnswer
    <2>1. a.kind # "none" /\ NoAnswer.kind = "none"  BY DEF NoAnswer, Answer
    <2>2. QED  BY <2>1, PendingRequest, RequestType
  <1>2. TypeOK'
    BY <1>1 DEF IndInv, TypeOK, Conclude, Stages
  <1>3. OneWriter'
    BY DEF IndInv, TypeOK, OneWriter, Conclude, LaneStages, LookupStages,
           SavepointIsDryRun, SavepointStages
  <1>4. StageTellsCall'
    BY <1>1 DEF IndInv, TypeOK, StageTellsCall, Conclude
  <1>5. SavepointIsDryRun'
    <2>1. \A d \in Clients : stage'[d] = IF d # c THEN stage[d]
                               ELSE IF savepoint = c THEN "rollback" ELSE "answered"
      BY DEF IndInv, TypeOK, Conclude
    <2>2. savepoint' = savepoint /\ request' = request
      BY DEF Conclude
    <2>3. savepoint = c <=> stage[c] \in SavepointStages /\ request[c].dry
      BY DEF IndInv, SavepointIsDryRun
    <2>4. savepoint' = c <=> stage'[c] \in SavepointStages /\ request'[c].dry
      BY <2>1, <2>2, <2>3 DEF SavepointStages
    <2>5. ASSUME NEW d \in Clients, d # c
          PROVE  /\ savepoint' = d <=> stage'[d] \in SavepointStages /\ request'[d].dry
                 /\ savepoint' = d /\ stage'[d] # "rollback" => draft' = rows'
      BY <2>1, <2>2, <2>5 DEF IndInv, SavepointIsDryRun
    <2>6. savepoint' = c => stage'[c] = "rollback"
      BY <2>1, <2>2
    <2>7. \A d \in Clients : stage'[d] = "savepoint" => request'[d].dry
      BY <2>1, <2>2 DEF IndInv, SavepointIsDryRun
    <2>8. QED  BY <2>4, <2>5, <2>6, <2>7 DEF SavepointIsDryRun
  <1>6. LookedUp'
    BY DEF IndInv, TypeOK, LookedUp, Conclude, CnpjTaken, LeiTaken
  <1>7. KeysUnique(rows)'
    BY DEF IndInv, KeysUnique
  <1>8. FreshIds'
    <2>1. request[c].op = "get" /\ a.kind = "found" => request[c].id \in issued
      BY <1>1 DEF IndInv, FreshIds
    <2>2. \A d \in Clients : Registering(d)' => Registering(d) /\ d # c
      BY DEF IndInv, TypeOK, Registering, Conclude
    <2>3. \A d \in Clients : answer'[d].kind = "found" =>
            answer[d].kind = "found" \/ (d = c /\ a.kind = "found")
      BY DEF IndInv, TypeOK, Conclude
    <2>4. QED
      BY <1>1, <2>1, <2>2, <2>3 DEF IndInv, FreshIds, Registering, Conclude
  <1>9. DuplicatesAreNamed'
    BY DEF IndInv, TypeOK, DuplicatesAreNamed, Conclude
  <1>10. VersionTellsStaleness'
    BY DEF IndInv, TypeOK, VersionTellsStaleness, Conclude
  <1>11. QED
    BY <1>2, <1>3, <1>4, <1>5, <1>6, <1>7, <1>8, <1>9, <1>10 DEF IndInv

(* The effect of a statement that stores `row` for a call. *)
Stored(c, row) ==
  /\ rows' = IF request[c].dry THEN rows ELSE [rows EXCEPT ![request[c].id] = row]
  /\ draft' = IF request[c].dry THEN [rows EXCEPT ![request[c].id] = row] ELSE draft

(* A closure whose statement stores a row: a new one, or one of a later    *)
(* version, or none, in place of a row that exists.                        *)
LEMMA StoreStep ==
  ASSUME IndInv, NEW c \in Clients, stage[c] = "statement",
         NEW a \in [kind : {"registered", "applied"}, row : Row],
         NEW row \in Row,
         Conclude(c, a), Stored(c, row),
         KeysUnique([rows EXCEPT ![request[c].id] = row]),
         \/ request[c].op = "register" /\ rows[request[c].id] = Absent
         \/ /\ request[c].op # "register"
            /\ rows[request[c].id] # Absent
            /\ row = Absent \/ row.version > rows[request[c].id].version
  PROVE  IndInv'
  <1>1. request[c] \in Requests /\ request[c].id \in Ids /\ a # NoAnswer
    <2>1. a.kind # "none" /\ NoAnswer.kind = "none"  BY DEF NoAnswer, Answer
    <2>2. QED  BY <2>1, PendingRequest, RequestType
  <1>2. TypeOK'
    <2>1. rows' \in [Ids -> Row] /\ draft' \in [Ids -> Row]
      BY <1>1 DEF IndInv, TypeOK, Stored
    <2>2. a \in [kind : AnswerKinds, row : Row]  BY DEF AnswerKinds
    <2>3. stage' \in [Clients -> Stages] /\ answer' \in [Clients -> [kind : AnswerKinds, row : Row]]
      BY <2>2 DEF IndInv, TypeOK, Conclude, Stages
    <2>4. QED  BY <2>1, <2>3 DEF IndInv, TypeOK, Conclude
  <1>3. \A d \in Clients : stage'[d] = IF d # c THEN stage[d]
                               ELSE IF savepoint = c THEN "rollback" ELSE "answered"
    BY DEF IndInv, TypeOK, Conclude
  <1>4. /\ savepoint' = savepoint /\ request' = request /\ writing' = writing
        /\ issued' = issued
    BY DEF Conclude
  <1>5. \A d \in Clients : d # c => stage[d] \notin LaneStages
    BY DEF IndInv, OneWriter, LaneStages
  <1>6. OneWriter'
    BY <1>3, <1>4 DEF IndInv, OneWriter, LaneStages, LookupStages
  <1>7. StageTellsCall'
    BY <1>1 DEF IndInv, TypeOK, StageTellsCall, PendingStages, Conclude
  <1>8. SavepointIsDryRun'
    BY <1>3, <1>4, <1>5 DEF IndInv, SavepointIsDryRun, SavepointStages, LaneStages
  <1>9. LookedUp'
    BY <1>3, <1>5 DEF LookedUp, LaneStages
  <1>10. KeysUnique(rows)'
    BY DEF IndInv, Stored, KeysUnique
  <1>11. \A i \in Ids : i # request[c].id => rows'[i] = rows[i]
    BY <1>1 DEF IndInv, TypeOK, Stored
  <1>12. rows'[request[c].id] \in {rows[request[c].id], row}
    BY <1>1 DEF IndInv, TypeOK, Stored
  <1>13. request[c].id \in issued
    BY <1>1 DEF IndInv, FreshIds, Registering, PendingStages
  <1>14. \A d \in Clients : Registering(d)' => /\ Registering(d)
                                             /\ request[d].id # request[c].id
    <2>1. \A d \in Clients : Registering(d)' => Registering(d) /\ d # c
      BY <1>3, <1>4 DEF Registering, PendingStages
    <2>2. request[c].op = "register" => Registering(c)
      BY DEF Registering, PendingStages
    <2>3. QED  BY <2>1, <2>2 DEF IndInv, FreshIds
  <1>15. \A d \in Clients : answer'[d].kind = "found" => answer'[d] = answer[d]
    BY DEF IndInv, TypeOK, Conclude
  <1>16. FreshIds'
    <2>1. \A i \in Ids : rows'[i] # Absent => i \in issued'
      BY <1>4, <1>11, <1>13 DEF IndInv, FreshIds
    <2>2. ASSUME NEW d \in Clients, Registering(d)'
          PROVE  /\ request'[d].id \in issued'
                 /\ rows'[request'[d].id] = Absent
                 /\ \A e \in Clients :
                      /\ Registering(e)' /\ request'[e].id = request'[d].id => e = d
                      /\ answer'[e].kind = "found" => request'[e].id # request'[d].id
      <3>1. Registering(d) /\ request[d].id # request[c].id  BY <1>14, <2>2
      <3>2. request[d].id \in Ids
        BY <3>1, PendingRequest, RequestType DEF Registering, PendingStages
      <3>3. QED  BY <1>4, <1>11, <1>14, <1>15, <3>1, <3>2 DEF IndInv, FreshIds
    <2>3. \A d \in Clients : answer'[d].kind = "found" =>
            request'[d].op = "get" /\ request'[d].id \in issued'
      BY <1>4, <1>15 DEF IndInv, FreshIds
    <2>4. QED  BY <2>1, <2>2, <2>3 DEF FreshIds
  <1>17. DuplicatesAreNamed'
    BY DEF IndInv, TypeOK, DuplicatesAreNamed, Conclude
  <1>18. VersionTellsStaleness'
    <2> SUFFICES ASSUME NEW d \in Clients, answer'[d].kind = "found"
                 PROVE  \/ rows'[request'[d].id] = answer'[d].row
                        \/ rows'[request'[d].id] = Absent
                        \/ rows'[request'[d].id].version > answer'[d].row.version
      BY DEF VersionTellsStaleness
    <2>1. answer[d].kind = "found" /\ answer'[d] = answer[d]  BY <1>15
    <2>2. \/ rows[request[d].id] = answer[d].row
          \/ rows[request[d].id] = Absent
          \/ rows[request[d].id].version > answer[d].row.version
      BY <2>1 DEF IndInv, VersionTellsStaleness
    <2>3. CASE request[d].id # request[c].id
      <3>1. request[d].id \in Ids
        <4>1. stage[d] # "idle"
          <5>1. answer[d] # NoAnswer  BY <2>1 DEF NoAnswer, Answer
          <5>2. QED  BY <5>1 DEF IndInv, StageTellsCall
        <4>2. QED  BY <4>1, PendingRequest, RequestType
      <3>2. QED  BY <2>1, <2>2, <2>3, <3>1, <1>4, <1>11
    <2>4. CASE request[d].id = request[c].id
      <3>1. request[c].op # "register"
        BY <2>1, <2>4 DEF IndInv, FreshIds, Registering, PendingStages
      <3>2. CASE row = Absent
        BY <1>4, <1>12, <2>1, <2>2, <2>4, <3>2
      <3>3. CASE row.version > rows[request[c].id].version
        <4>1. /\ row.version \in Nat /\ rows[request[c].id].version \in Nat
              /\ answer[d].row.version \in Nat
          BY <1>1, MaxVersionAssumption DEF IndInv, TypeOK, Row
        <4>2. \/ rows[request[d].id] = answer[d].row
              \/ rows[request[d].id].version > answer[d].row.version
          BY <2>2, <2>4, <3>1
        <4>3. row.version > answer[d].row.version  BY <2>4, <3>3, <4>1, <4>2
        <4>4. QED  BY <1>4, <1>12, <2>1, <2>2, <2>4, <4>3
      <3>4. QED  BY <3>1, <3>2, <3>3
    <2>5. QED  BY <2>3, <2>4
  <1>19. QED
    BY <1>2, <1>6, <1>7, <1>8, <1>9, <1>10, <1>16, <1>17, <1>18 DEF IndInv

(* What an executed statement comes to, once the lookups have passed: it   *)
(* stores its row, or the CHECK refuses it; never a UNIQUE column.         *)
LEMMA ExecuteCases ==
  ASSUME IndInv, NEW c \in Clients, stage[c] = "statement", NEW row \in Row, NEW s,
         row.cnpj \in {None, rows[request[c].id].cnpj, request[c].cnpj},
         row.lei \in {None, rows[request[c].id].lei, request[c].lei},
         Execute(c, row, s)
  PROVE  /\ KeysUnique([rows EXCEPT ![request[c].id] = row])
         /\ \/ CheckHolds(row) /\ Conclude(c, Answer(s)) /\ Stored(c, row)
            \/ /\ ~CheckHolds(row)
               /\ Conclude(c, Answer("check"))
               /\ UNCHANGED <<rows, draft>>
  <1>1. View(c) = rows  BY ViewIsRows
  <1>2. request[c].id \in Ids  BY PendingRequest, RequestType
  <1>3. ~CnpjTaken(rows, request[c].cnpj) /\ ~LeiTaken(rows, request[c].lei)
    BY DEF IndInv, LookedUp
  <1>4. KeysUnique([rows EXCEPT ![request[c].id] = row])
    <2>1. rows \in [Ids -> Row] /\ KeysUnique(rows)  BY DEF IndInv, TypeOK
    <2>2. row.cnpj \in {None, rows[request[c].id].cnpj} \/ ~CnpjTaken(rows, row.cnpj)
      BY <1>3
    <2>3. row.lei \in {None, rows[request[c].id].lei} \/ ~LeiTaken(rows, row.lei)
      BY <1>3
    <2>4. QED  BY <1>2, <2>1, <2>2, <2>3, UniqueAfterStore
  <1>5. QED  BY <1>1, <1>4 DEF Execute, Stored

(* A registration is not there yet, so its primary key is free, and *)
(* what the builder built satisfies the CHECK.                             *)
LEMMA InsertCases ==
  ASSUME IndInv, NEW c \in Clients, Insert(c)
  PROVE  /\ stage[c] = "statement" /\ request[c].op = "register"
         /\ rows[request[c].id] = Absent
         /\ Built(request[c]) \in Row
         /\ KeysUnique([rows EXCEPT ![request[c].id] = Built(request[c])])
         /\ Conclude(c, Answer("registered")) /\ Stored(c, Built(request[c]))
  <1>1. stage[c] = "statement" /\ request[c].op = "register"  BY DEF Insert, AtStatement
  <1>2. request[c] \in Requests  BY <1>1, PendingRequest
  <1>3. View(c) = rows  BY <1>1, ViewIsRows
  <1>4. rows[request[c].id] = Absent
    BY <1>1 DEF IndInv, FreshIds, Registering, PendingStages
  <1>5. Built(request[c]) \in Row  BY <1>1, <1>2, RowType
  <1>6. Execute(c, Built(request[c]), "registered")
    BY <1>3, <1>4 DEF Insert
  <1>7. Built(request[c]).cnpj = request[c].cnpj /\ Built(request[c]).lei = request[c].lei
    BY DEF Built
  <1>8. CheckHolds(Built(request[c]))
    <2>1. Buildable(request[c])
      BY <1>1 DEF IndInv, StageTellsCall, PendingStages
    <2>2. QED  BY <1>1, <2>1 DEF Buildable, CheckHolds, Built
  <1>9. QED  BY <1>1, <1>4, <1>5, <1>6, <1>7, <1>8, ExecuteCases

(* A patch stores the patched row, is refused by the CHECK, or finds that  *)
(* its version is not the row's.                                           *)
LEMMA UpdateCases ==
  ASSUME IndInv, NEW c \in Clients, Update(c)
  PROVE  /\ stage[c] = "statement" /\ request[c].op = "patch"
         /\ \/ /\ rows[request[c].id].version = request[c].expected
               /\ rows[request[c].id] # Absent
               /\ Patched(rows[request[c].id], request[c]) \in Row
               /\ Patched(rows[request[c].id], request[c]).version
                    > rows[request[c].id].version
               /\ KeysUnique([rows EXCEPT ![request[c].id] =
                                Patched(rows[request[c].id], request[c])])
               /\ \/ /\ CheckHolds(Patched(rows[request[c].id], request[c]))
                     /\ Conclude(c, Answer("applied"))
                     /\ Stored(c, Patched(rows[request[c].id], request[c]))
                  \/ /\ ~CheckHolds(Patched(rows[request[c].id], request[c]))
                     /\ Conclude(c, Answer("check"))
                     /\ UNCHANGED <<rows, draft>>
            \/ /\ rows[request[c].id].version # request[c].expected
               /\ Conclude(c, IF rows[request[c].id] = Absent THEN Answer("missing")
                              ELSE Mismatch(rows[request[c].id]))
               /\ UNCHANGED <<rows, draft>>
  <1>1. stage[c] = "statement" /\ request[c].op = "patch"  BY DEF Update, AtStatement
  <1>2. request[c] \in Requests /\ request[c].id \in Ids
    BY <1>1, PendingRequest, RequestType
  <1>3. View(c) = rows  BY <1>1, ViewIsRows
  <1>4. rows[request[c].id] \in Row  BY <1>2 DEF IndInv, TypeOK
  <1>5. CASE rows[request[c].id].version = request[c].expected
    <2> DEFINE row == Patched(rows[request[c].id], request[c])
    <2>1. /\ rows[request[c].id] # Absent
          /\ row \in Row
          /\ row.version > rows[request[c].id].version
      BY <1>1, <1>2, <1>4, <1>5, RowType
    <2>2. Execute(c, row, "applied")  BY <1>3, <1>5 DEF Update
    <2>3. /\ row.cnpj \in {None, rows[request[c].id].cnpj, request[c].cnpj}
          /\ row.lei \in {None, rows[request[c].id].lei, request[c].lei}
      BY DEF Patched, Coalesce
    <2> HIDE DEF row
    <2>4. /\ KeysUnique([rows EXCEPT ![request[c].id] = row])
          /\ \/ CheckHolds(row) /\ Conclude(c, Answer("applied")) /\ Stored(c, row)
             \/ /\ ~CheckHolds(row)
                /\ Conclude(c, Answer("check"))
                /\ UNCHANGED <<rows, draft>>
      BY <1>1, <2>1, <2>2, <2>3, ExecuteCases
    <2>5. QED  BY <1>1, <1>5, <2>1, <2>4 DEF row
  <1>6. CASE rows[request[c].id].version # request[c].expected
    BY <1>1, <1>3, <1>6 DEF Update, ZeroRows
  <1>7. QED  BY <1>5, <1>6

(* A delete removes the row, or finds that its version is not the row's.   *)
LEMMA DeleteCases ==
  ASSUME IndInv, NEW c \in Clients, Delete(c)
  PROVE  /\ stage[c] = "statement" /\ request[c].op = "delete"
         /\ \/ /\ rows[request[c].id].version = request[c].expected
               /\ rows[request[c].id] # Absent
               /\ KeysUnique([rows EXCEPT ![request[c].id] = Absent])
               /\ Conclude(c, Answer("applied")) /\ Stored(c, Absent)
            \/ /\ rows[request[c].id].version # request[c].expected
               /\ Conclude(c, IF rows[request[c].id] = Absent THEN Answer("missing")
                              ELSE Mismatch(rows[request[c].id]))
               /\ UNCHANGED <<rows, draft>>
  <1>1. stage[c] = "statement" /\ request[c].op = "delete"  BY DEF Delete, AtStatement
  <1>2. request[c] \in Requests /\ request[c].expected \in 1..MaxVersion
    BY <1>1, PendingRequest, RequestType
  <1>3. View(c) = rows  BY <1>1, ViewIsRows
  <1>4. CASE rows[request[c].id].version = request[c].expected
    <2>1. rows[request[c].id] # Absent
      BY <1>2, <1>4, MaxVersionAssumption DEF Absent
    <2>2. Execute(c, Absent, "applied")  BY <1>3, <1>4 DEF Delete
    <2>3. Absent \in Row /\ Absent.cnpj = None /\ Absent.lei = None
      BY RowType DEF Absent
    <2>4. CheckHolds(Absent)  BY <2>3 DEF CheckHolds
    <2>5. QED  BY <1>1, <1>4, <2>1, <2>2, <2>3, <2>4, ExecuteCases
  <1>5. CASE rows[request[c].id].version # request[c].expected
    BY <1>1, <1>3, <1>5 DEF Delete, ZeroRows
  <1>6. QED  BY <1>4, <1>5

(* The answers of statements are well typed. *)
LEMMA AnswerType ==
  /\ \A k \in {"cnpj_exists", "lei_exists", "missing", "absent", "check", "fault"} :
       /\ Answer(k) \in [kind : AnswerKinds \ {"none", "unique"}, row : Row]
       /\ Answer(k).kind # "found"
  /\ \A k \in {"registered", "applied"} :
       Answer(k) \in [kind : {"registered", "applied"}, row : Row]
  /\ \A row \in Row :
       /\ Found(row) \in [kind : AnswerKinds \ {"none", "unique"}, row : Row]
       /\ Mismatch(row) \in [kind : AnswerKinds \ {"none", "unique"}, row : Row]
       /\ Mismatch(row).kind # "found"
  <1>1. Absent \in Row  BY RowType
  <1>2. \A row \in Row : [Absent EXCEPT !.version = row.version] \in Row
    BY <1>1 DEF Row, Absent
  <1>3. QED  BY <1>1, <1>2 DEF Answer, Found, Mismatch, AnswerKinds

(* A guarded write that touched no row. *)
LEMMA ZeroRowsStep ==
  ASSUME IndInv, NEW c \in Clients, stage[c] = "statement",
         Conclude(c, IF rows[request[c].id] = Absent THEN Answer("missing")
                     ELSE Mismatch(rows[request[c].id])),
         UNCHANGED <<rows, draft>>
  PROVE  IndInv'
  <1>1. stage[c] \in PendingStages  BY DEF PendingStages
  <1>2. rows[request[c].id] \in Row
    BY PendingRequest, RequestType DEF IndInv, TypeOK
  <1>3. CASE rows[request[c].id] = Absent
    <2>1. Conclude(c, Answer("missing"))  BY <1>3
    <2>2. QED  BY <1>1, <2>1, AnswerType, ConcludeStep
  <1>4. CASE rows[request[c].id] # Absent
    <2>1. Conclude(c, Mismatch(rows[request[c].id]))  BY <1>4
    <2>2. QED  BY <1>1, <1>2, <2>1, AnswerType, ConcludeStep
  <1>5. QED  BY <1>3, <1>4

LEMMA InsertStep ==
  ASSUME IndInv, NEW c \in Clients, Insert(c)
  PROVE  IndInv'
  <1>1. Answer("registered") \in [kind : {"registered", "applied"}, row : Row]
    BY AnswerType
  <1>2. QED  BY <1>1, InsertCases, StoreStep

LEMMA UpdateStep ==
  ASSUME IndInv, NEW c \in Clients, Update(c)
  PROVE  IndInv'
  <1> DEFINE row == Patched(rows[request[c].id], request[c])
  <1>1. /\ stage[c] = "statement" /\ request[c].op = "patch"
        /\ \/ /\ rows[request[c].id] # Absent /\ row \in Row
              /\ row.version > rows[request[c].id].version
              /\ KeysUnique([rows EXCEPT ![request[c].id] = row])
              /\ \/ Conclude(c, Answer("applied")) /\ Stored(c, row)
                 \/ Conclude(c, Answer("check")) /\ UNCHANGED <<rows, draft>>
           \/ /\ Conclude(c, IF rows[request[c].id] = Absent THEN Answer("missing")
                             ELSE Mismatch(rows[request[c].id]))
              /\ UNCHANGED <<rows, draft>>
    BY UpdateCases
  <1> HIDE DEF row
  <1>2. Answer("applied") \in [kind : {"registered", "applied"}, row : Row]  BY AnswerType
  <1>3. stage[c] \in PendingStages  BY <1>1 DEF PendingStages
  <1>4. CASE Conclude(c, Answer("check")) /\ UNCHANGED <<rows, draft>>
    BY <1>3, <1>4, AnswerType, ConcludeStep
  <1>5. QED  BY <1>1, <1>2, <1>4, StoreStep, ZeroRowsStep

LEMMA DeleteStep ==
  ASSUME IndInv, NEW c \in Clients, Delete(c)
  PROVE  IndInv'
  <1>1. Answer("applied") \in [kind : {"registered", "applied"}, row : Row]  BY AnswerType
  <1>2. Absent \in Row  BY RowType
  <1>3. QED  BY <1>1, <1>2, DeleteCases, StoreStep, ZeroRowsStep

LEMMA SelectStep ==
  ASSUME IndInv, NEW c \in Clients, Select(c)
  PROVE  IndInv'
  <1>1. stage[c] \in PendingStages /\ stage[c] # "idle"  BY DEF Select, PendingStages
  <1>2. rows[request[c].id] \in Row
    BY <1>1, PendingRequest, RequestType DEF IndInv, TypeOK
  <1>3. CASE rows[request[c].id] = Absent
    <2>1. Conclude(c, Answer("absent")) /\ UNCHANGED <<rows, draft>>  BY <1>3 DEF Select
    <2>2. QED  BY <1>1, <2>1, AnswerType, ConcludeStep
  <1>4. CASE rows[request[c].id] # Absent
    <2>1. Conclude(c, Found(rows[request[c].id])) /\ UNCHANGED <<rows, draft>>
      BY <1>4 DEF Select
    <2>2. Found(rows[request[c].id]).row = rows[request[c].id]  BY DEF Found
    <2>3. request[c].op = "get"  BY DEF Select
    <2>4. QED  BY <1>1, <1>2, <1>4, <2>1, <2>2, <2>3, AnswerType, ConcludeStep
  <1>5. QED  BY <1>3, <1>4

LEMMA FaultStep ==
  ASSUME IndInv, NEW c \in Clients, Fault(c)
  PROVE  IndInv'
  <1>1. stage[c] \in PendingStages /\ Conclude(c, Answer("fault")) /\ UNCHANGED <<rows, draft>>
    BY DEF Fault, PendingStages
  <1>2. QED  BY <1>1, AnswerType, ConcludeStep

(* A lookup that finds its identifier taken ends the closure; the other    *)
(* moves it to its next statement.                                         *)
LEMMA LookupStep ==
  ASSUME IndInv, NEW c \in Clients, LookupCnpj(c) \/ LookupLei(c)
  PROVE  IndInv'
  <1>1. stage[c] \in PendingStages /\ View(c) = rows
    <2>1. stage[c] \in {"cnpj", "lei"}  BY DEF LookupCnpj, LookupLei
    <2>2. QED  BY <2>1, ViewIsRows DEF PendingStages
  <1>2. CASE \/ Conclude(c, Answer("cnpj_exists")) /\ UNCHANGED <<rows, draft>>
             \/ Conclude(c, Answer("lei_exists")) /\ UNCHANGED <<rows, draft>>
    BY <1>1, <1>2, AnswerType, ConcludeStep
  <1>3. ASSUME NEW s \in {"lei", "statement"},
               stage[c] = IF s = "lei" THEN "cnpj" ELSE "lei",
               IF s = "lei" THEN ~CnpjTaken(rows, request[c].cnpj)
                            ELSE ~LeiTaken(rows, request[c].lei),
               stage' = [stage EXCEPT ![c] = s],
               UNCHANGED <<rows, draft, savepoint, writing, request, answer, issued>>
        PROVE  IndInv'
    <2>1. \A d \in Clients : stage'[d] = IF d = c THEN s ELSE stage[d]
      BY <1>3 DEF IndInv, TypeOK
    <2>2. TypeOK'
      BY <1>3 DEF IndInv, TypeOK, Stages
    <2>3. OneWriter'
      BY <1>3, <2>1 DEF IndInv, OneWriter, LaneStages, LookupStages
    <2>4. StageTellsCall'
      BY <1>3, <2>1 DEF IndInv, StageTellsCall, PendingStages
    <2>5. SavepointIsDryRun'
      BY <1>3, <2>1 DEF IndInv, SavepointIsDryRun, SavepointStages
    <2>6. LookedUp'
      BY <1>3, <2>1 DEF IndInv, LookedUp, CnpjTaken, LeiTaken
    <2>7. FreshIds'
      <3>1. \A d \in Clients : Registering(d)' => Registering(d)
        BY <1>3, <2>1 DEF Registering, PendingStages
      <3>2. QED  BY <1>3, <3>1 DEF IndInv, FreshIds
    <2>8. KeysUnique(rows)' /\ DuplicatesAreNamed' /\ VersionTellsStaleness'
      BY <1>3 DEF IndInv, KeysUnique, DuplicatesAreNamed, VersionTellsStaleness
    <2>9. QED  BY <2>2, <2>3, <2>4, <2>5, <2>6, <2>7, <2>8 DEF IndInv
  <1>4. CASE LookupCnpj(c)
    BY <1>1, <1>2, <1>3, <1>4 DEF LookupCnpj
  <1>5. CASE LookupLei(c)
    BY <1>1, <1>2, <1>3, <1>5 DEF LookupLei
  <1>6. QED  BY <1>4, <1>5

(* A registration's id is new, so nothing is known under it. *)
LEMMA CallStep ==
  ASSUME IndInv, NEW c \in Clients, NEW r \in Requests, Call(c, r)
  PROVE  IndInv'
  <1>1. r.id \in Ids /\ r # NoRequest  BY RequestType
  <1>2. /\ stage[c] = "idle"
        /\ r.id \in issued <=> r.op # "register"
        /\ request' = [request EXCEPT ![c] = r]
        /\ UNCHANGED <<rows, draft, savepoint, writing>>
    BY DEF Call
  <1>3. \/ /\ Buildable(r)
           /\ issued' = issued \union {r.id}
           /\ stage' = [stage EXCEPT ![c] = "queued"]
           /\ answer' = answer
        \/ /\ answer' = [answer EXCEPT ![c] = Answer("invalid")]
           /\ stage' = [stage EXCEPT ![c] = "answered"]
           /\ issued' = issued
    BY DEF Call
  <1>4. Answer("invalid") \in [kind : AnswerKinds, row : Row] /\ Answer("invalid").kind = "invalid"
    BY RowType DEF Answer, AnswerKinds
  <1>5. Answer("invalid") # NoAnswer
    BY <1>4 DEF Answer, NoAnswer
  <1>6. TypeOK'
    BY <1>1, <1>2, <1>3, <1>4 DEF IndInv, TypeOK, Stages
  <1>7. \A d \in Clients : d # c => request'[d] = request[d] /\ stage'[d] = stage[d]
                                    /\ answer'[d] = answer[d]
    BY <1>2, <1>3 DEF IndInv, TypeOK
  <1>8. /\ request'[c] = r
        /\ \/ stage'[c] = "queued" /\ answer'[c] = answer[c] /\ Buildable(r)
              /\ issued' = issued \union {r.id}
           \/ stage'[c] = "answered" /\ answer'[c] = Answer("invalid")
    BY <1>2, <1>3 DEF IndInv, TypeOK
  <1>9. answer[c] = NoAnswer /\ NoAnswer.kind = "none"
    BY <1>2 DEF IndInv, StageTellsCall, NoAnswer, Answer
  <1>10. OneWriter'
    BY <1>2, <1>7, <1>8 DEF IndInv, OneWriter, LaneStages, LookupStages
  <1>11. StageTellsCall'
    BY <1>1, <1>5, <1>7, <1>8, <1>9 DEF IndInv, StageTellsCall, PendingStages
  <1>12. SavepointIsDryRun'
    BY <1>2, <1>7, <1>8 DEF IndInv, SavepointIsDryRun, SavepointStages
  <1>13. LookedUp'
    BY <1>2, <1>7, <1>8 DEF IndInv, LookedUp, CnpjTaken, LeiTaken
  <1>14. FreshIds'
    <2>1. issued \subseteq issued'  BY <1>3
    <2>2. \A d \in Clients : answer'[d].kind = "found" => d # c /\ answer[d].kind = "found"
      BY <1>4, <1>7, <1>8, <1>9
    <2>3. \A d \in Clients : Registering(d)' =>
            \/ d # c /\ Registering(d)
            \/ d = c /\ r.op = "register" /\ r.id \notin issued /\ r.id \in issued'
      BY <1>2, <1>7, <1>8 DEF Registering, PendingStages
    <2>4. r.op = "register" => rows[r.id] = Absent
      BY <1>1, <1>2 DEF IndInv, FreshIds
    <2>5. QED
      BY <1>2, <1>7, <1>8, <2>1, <2>2, <2>3, <2>4 DEF IndInv, FreshIds
  <1>15. KeysUnique(rows)'
    BY <1>2 DEF IndInv, KeysUnique
  <1>16. DuplicatesAreNamed' /\ VersionTellsStaleness'
    BY <1>2, <1>4, <1>7, <1>8, <1>9 DEF IndInv, DuplicatesAreNamed, VersionTellsStaleness
  <1>17. QED
    BY <1>6, <1>10, <1>11, <1>12, <1>13, <1>14, <1>15, <1>16 DEF IndInv

(* The lane lets a call in only when no other is inside.                   *)
LEMMA AdmitStep ==
  ASSUME IndInv, NEW c \in Clients, Admit(c)
  PROVE  IndInv'
  <1> DEFINE s == IF request[c].dry THEN "savepoint" ELSE FirstStage(request[c])
  <1>1. /\ stage[c] = "queued" /\ request[c].op # "get"
        /\ writing' = writing \union {c}
        /\ stage' = [stage EXCEPT ![c] = s]
        /\ UNCHANGED <<rows, draft, savepoint, request, answer, issued>>
    BY DEF Admit
  <1>2. writing = {}
    <2>1. IsFiniteSet(writing)
      BY ClientsAssumption, FS_Subset DEF IndInv, TypeOK
    <2>2. Cardinality(writing) \in Nat /\ Cardinality(writing) < 1
      BY <2>1, FS_CardinalityType DEF Admit, WriteSlots
    <2>3. QED  BY <2>1, <2>2, FS_EmptySet
  <1>3. request[c].op \in {"register", "patch", "delete"}
    BY <1>1, PendingRequest, RequestType
  <1>4. /\ s \in {"savepoint", "cnpj", "statement"}
        /\ s \in {"cnpj", "statement"} => ~request[c].dry
        /\ s = "savepoint" => request[c].dry
        /\ s = "cnpj" => request[c].op # "delete"
        /\ s = "statement" => request[c].op = "delete"
    BY DEF FirstStage
  <1> HIDE DEF s
  <1>5. \A d \in Clients : stage'[d] = IF d = c THEN s ELSE stage[d]
    BY <1>1 DEF IndInv, TypeOK
  <1>6. TypeOK'
    BY <1>1, <1>4 DEF IndInv, TypeOK, Stages
  <1>7. OneWriter'
    BY <1>1, <1>2, <1>3, <1>4, <1>5 DEF IndInv, OneWriter, LaneStages, LookupStages
  <1>8. StageTellsCall'
    BY <1>1, <1>4, <1>5 DEF IndInv, StageTellsCall, PendingStages
  <1>9. SavepointIsDryRun'
    BY <1>1, <1>4, <1>5 DEF IndInv, SavepointIsDryRun, SavepointStages
  <1>10. LookedUp'
    <2>1. s = "statement" => request[c].cnpj = None /\ request[c].lei = None
      BY <1>1, <1>4, PendingRequest
         DEF Requests, Registrations, Patches, Deletes, Gets
    <2>2. QED
      BY <1>1, <1>4, <1>5, <2>1 DEF IndInv, LookedUp, CnpjTaken, LeiTaken
  <1>11. FreshIds'
    <2>1. \A d \in Clients : Registering(d)' => Registering(d)
      BY <1>1, <1>5 DEF Registering, PendingStages
    <2>2. QED  BY <1>1, <2>1 DEF IndInv, FreshIds
  <1>12. KeysUnique(rows)' /\ DuplicatesAreNamed' /\ VersionTellsStaleness'
    BY <1>1 DEF IndInv, KeysUnique, DuplicatesAreNamed, VersionTellsStaleness
  <1>13. QED
    BY <1>6, <1>7, <1>8, <1>9, <1>10, <1>11, <1>12 DEF IndInv

(* The savepoint starts from the committed rows. *)
LEMMA OpenSavepointStep ==
  ASSUME IndInv, NEW c \in Clients, OpenSavepoint(c)
  PROVE  IndInv'
  <1> DEFINE s == FirstStage(request[c])
  <1>1. /\ stage[c] = "savepoint" /\ savepoint = None
        /\ savepoint' = c /\ draft' = rows
        /\ stage' = [stage EXCEPT ![c] = s]
        /\ UNCHANGED <<rows, writing, request, answer, issued>>
    BY DEF OpenSavepoint
  <1>2. request[c] \in Requests /\ request[c].op \in {"register", "patch", "delete"}
    BY <1>1, PendingRequest DEF IndInv, OneWriter, LaneStages
  <1>3. request[c].dry
    <2>1. request[c].dry \in BOOLEAN  BY <1>2, RequestType
    <2>2. QED  BY <1>1, <2>1 DEF IndInv, SavepointIsDryRun
  <1>4. /\ s \in {"cnpj", "statement"}
        /\ s = "cnpj" => request[c].op # "delete"
        /\ s = "statement" => request[c].op = "delete"
    BY DEF FirstStage
  <1> HIDE DEF s
  <1>5. \A d \in Clients : stage'[d] = IF d = c THEN s ELSE stage[d]
    BY <1>1 DEF IndInv, TypeOK
  <1>6. TypeOK'
    BY <1>1, <1>4 DEF IndInv, TypeOK, Stages, Maybe
  <1>7. OneWriter'
    BY <1>1, <1>2, <1>4, <1>5 DEF IndInv, OneWriter, LaneStages, LookupStages
  <1>8. StageTellsCall'
    BY <1>1, <1>4, <1>5 DEF IndInv, StageTellsCall, PendingStages
  <1>9. SavepointIsDryRun'
    <2>1. ASSUME NEW d \in Clients, d # c
          PROVE  ~(stage[d] \in SavepointStages /\ request[d].dry)
      <3>1. savepoint # d  BY <1>1, NoneAssumption
      <3>2. savepoint = d <=> stage[d] \in SavepointStages /\ request[d].dry
        BY DEF IndInv, SavepointIsDryRun
      <3>3. QED  BY <3>1, <3>2
    <2>2. \A d \in Clients : d # c => stage'[d] = stage[d] /\ request'[d] = request[d]
      BY <1>1, <1>5
    <2>3. stage'[c] \in SavepointStages /\ request'[c].dry
      BY <1>1, <1>3, <1>4, <1>5 DEF SavepointStages
    <2>4. \A d \in Clients : stage'[d] = "savepoint" => request'[d].dry
      BY <1>1, <1>3, <2>2 DEF IndInv, SavepointIsDryRun
    <2>5. draft' = rows' /\ savepoint' = c
      BY <1>1
    <2>6. QED  BY <2>1, <2>2, <2>3, <2>4, <2>5 DEF SavepointIsDryRun
  <1>10. LookedUp'
    <2>1. s = "statement" => request[c].cnpj = None /\ request[c].lei = None
      BY <1>2, <1>4 DEF Requests, Registrations, Patches, Deletes, Gets
    <2>2. QED
      BY <1>1, <1>4, <1>5, <2>1 DEF IndInv, LookedUp, CnpjTaken, LeiTaken
  <1>11. FreshIds'
    <2>1. \A d \in Clients : Registering(d)' => Registering(d)
      BY <1>1, <1>5 DEF Registering, PendingStages
    <2>2. QED  BY <1>1, <2>1 DEF IndInv, FreshIds
  <1>12. KeysUnique(rows)' /\ DuplicatesAreNamed' /\ VersionTellsStaleness'
    BY <1>1 DEF IndInv, KeysUnique, DuplicatesAreNamed, VersionTellsStaleness
  <1>13. QED
    BY <1>6, <1>7, <1>8, <1>9, <1>10, <1>11, <1>12 DEF IndInv

LEMMA RollbackStep ==
  ASSUME IndInv, NEW c \in Clients, Rollback(c)
  PROVE  IndInv'
  <1>1. /\ stage[c] = "rollback"
        /\ savepoint' = None /\ draft' = NoRows
        /\ stage' = [stage EXCEPT ![c] = "answered"]
        /\ UNCHANGED <<rows, writing, request, answer, issued>>
    BY DEF Rollback
  <1>2. \A d \in Clients : stage'[d] = IF d = c THEN "answered" ELSE stage[d]
    BY <1>1 DEF IndInv, TypeOK
  <1>3. TypeOK'
    BY <1>1, RowType DEF IndInv, TypeOK, Stages, Maybe, NoRows
  <1>4. OneWriter'
    BY <1>1, <1>2 DEF IndInv, OneWriter, LaneStages, LookupStages
  <1>5. StageTellsCall'
    BY <1>1, <1>2 DEF IndInv, StageTellsCall, PendingStages
  <1>6. SavepointIsDryRun'
    <2>1. \A d \in Clients : d # c => ~(stage[d] \in SavepointStages /\ request[d].dry)
      BY <1>1 DEF IndInv, OneWriter, SavepointIsDryRun, LaneStages, SavepointStages
    <2>2. QED
      BY <1>1, <1>2, <2>1, NoneAssumption
         DEF IndInv, SavepointIsDryRun, SavepointStages
  <1>7. LookedUp'
    BY <1>1, <1>2 DEF IndInv, LookedUp, CnpjTaken, LeiTaken
  <1>8. FreshIds'
    <2>1. \A d \in Clients : Registering(d)' => Registering(d)
      BY <1>1, <1>2 DEF Registering, PendingStages
    <2>2. QED  BY <1>1, <2>1 DEF IndInv, FreshIds
  <1>9. KeysUnique(rows)' /\ DuplicatesAreNamed' /\ VersionTellsStaleness'
    BY <1>1 DEF IndInv, KeysUnique, DuplicatesAreNamed, VersionTellsStaleness
  <1>10. QED
    BY <1>3, <1>4, <1>5, <1>6, <1>7, <1>8, <1>9 DEF IndInv

LEMMA ReturnStep ==
  ASSUME IndInv, NEW c \in Clients, Return(c)
  PROVE  IndInv'
  <1>1. /\ stage[c] = "answered"
        /\ writing' = writing \ {c}
        /\ stage' = [stage EXCEPT ![c] = "idle"]
        /\ request' = [request EXCEPT ![c] = NoRequest]
        /\ answer' = [answer EXCEPT ![c] = NoAnswer]
        /\ UNCHANGED <<rows, draft, savepoint, issued>>
    BY DEF Return
  <1>2. \A d \in Clients :
          IF d = c THEN stage'[d] = "idle" /\ request'[d] = NoRequest /\ answer'[d] = NoAnswer
          ELSE stage'[d] = stage[d] /\ request'[d] = request[d] /\ answer'[d] = answer[d]
    BY <1>1 DEF IndInv, TypeOK
  <1>3. NoAnswer \in [kind : AnswerKinds, row : Row] /\ NoAnswer.kind = "none"
    BY RowType DEF NoAnswer, Answer, AnswerKinds
  <1>4. TypeOK'
    BY <1>1, <1>3 DEF IndInv, TypeOK, Stages
  <1>5. OneWriter'
    BY <1>1, <1>2 DEF IndInv, OneWriter, LaneStages, LookupStages
  <1>6. StageTellsCall'
    BY <1>1, <1>2 DEF IndInv, StageTellsCall, PendingStages
  <1>7. SavepointIsDryRun'
    BY <1>1, <1>2 DEF IndInv, SavepointIsDryRun, SavepointStages
  <1>8. LookedUp'
    BY <1>1, <1>2 DEF IndInv, LookedUp, CnpjTaken, LeiTaken
  <1>9. FreshIds'
    <2>1. \A d \in Clients : Registering(d)' => d # c /\ Registering(d)
      BY <1>2 DEF Registering, PendingStages
    <2>2. \A d \in Clients : answer'[d].kind = "found" => d # c /\ answer[d].kind = "found"
      BY <1>2, <1>3
    <2>3. QED  BY <1>1, <1>2, <2>1, <2>2 DEF IndInv, FreshIds
  <1>10. KeysUnique(rows)' /\ DuplicatesAreNamed' /\ VersionTellsStaleness'
    BY <1>1, <1>2, <1>3 DEF IndInv, KeysUnique, DuplicatesAreNamed, VersionTellsStaleness
  <1>11. QED
    BY <1>4, <1>5, <1>6, <1>7, <1>8, <1>9, <1>10 DEF IndInv

LEMMA InitInv == Init => IndInv
  <1> SUFFICES ASSUME Init PROVE IndInv  OBVIOUS
  <1>1. NoAnswer \in [kind : AnswerKinds, row : Row] /\ NoAnswer.kind = "none"
    BY RowType DEF NoAnswer, Answer, AnswerKinds
  <1>2. TypeOK
    BY <1>1, RowType DEF Init, TypeOK, NoRows, Stages, Maybe
  <1>3. OneWriter /\ StageTellsCall /\ LookedUp /\ FreshIds
    BY <1>1 DEF Init, OneWriter, StageTellsCall, LookedUp, FreshIds, Registering, NoRows,
                LaneStages, LookupStages, PendingStages
  <1>4. SavepointIsDryRun
    BY NoneAssumption DEF Init, SavepointIsDryRun, SavepointStages
  <1>5. KeysUnique(rows)
    BY DEF Init, KeysUnique, NoRows, Absent
  <1>6. DuplicatesAreNamed /\ VersionTellsStaleness
    BY <1>1 DEF Init, DuplicatesAreNamed, VersionTellsStaleness
  <1>7. QED  BY <1>2, <1>3, <1>4, <1>5, <1>6 DEF IndInv

(* A step that changes nothing preserves the strengthening. *)
LEMMA StutterInv == IndInv /\ UNCHANGED vars => IndInv'
  BY DEF IndInv, vars, TypeOK, OneWriter, StageTellsCall, SavepointIsDryRun, LookedUp,
         KeysUnique, FreshIds, Registering, CnpjTaken, LeiTaken, DuplicatesAreNamed,
         VersionTellsStaleness

(* Every step of the store preserves the strengthening. *)
LEMMA NextInv == IndInv /\ [Next]_vars => IndInv'
  <1> SUFFICES ASSUME IndInv, [Next]_vars PROVE IndInv'  OBVIOUS
  <1>1. CASE UNCHANGED vars
    BY <1>1, StutterInv
  <1>2. ASSUME NEW c \in Clients, NEW r \in Asked, Call(c, r) PROVE IndInv'
    BY <1>2, AskedAssumption, CallStep
  <1>3. ASSUME NEW c \in Clients, Admit(c) \/ OpenSavepoint(c) \/ Rollback(c) \/ Return(c)
        PROVE  IndInv'
    BY <1>3, AdmitStep, OpenSavepointStep, RollbackStep, ReturnStep
  <1>4. ASSUME NEW c \in Clients, LookupCnpj(c) \/ LookupLei(c) PROVE IndInv'
    BY <1>4, LookupStep
  <1>5. ASSUME NEW c \in Clients,
               Insert(c) \/ Update(c) \/ Delete(c) \/ Select(c) \/ Fault(c)
        PROVE  IndInv'
    BY <1>5, InsertStep, UpdateStep, DeleteStep, SelectStep, FaultStep
  <1>6. QED  BY <1>1, <1>2, <1>3, <1>4, <1>5 DEF Next

(* The strengthening of IssuerStore holds in every reachable state: the    *)
(* one write permit makes lookups, statement and savepoint one unit.       *)
THEOREM Invariance == Spec => []IndInv
  <1>1. QED  BY InitInv, NextInv, PTL DEF Spec

(* The issuer store is type correct. *)
THEOREM Typing == Spec => []TypeOK
  <1>1. IndInv => TypeOK  BY DEF IndInv
  <1>2. QED  BY <1>1, Invariance, PTL

(* No UNIQUE column ever refuses a statement whose lookups passed.         *)
THEOREM DuplicatesNamed == Spec => []DuplicatesAreNamed
  <1>1. IndInv => DuplicatesAreNamed  BY DEF IndInv
  <1>2. QED  BY <1>1, Invariance, PTL

(* A row read by `get` is stale only if its version is, or the row is gone. *)
THEOREM StalenessTold == Spec => []VersionTellsStaleness
  <1>1. IndInv => VersionTellsStaleness  BY DEF IndInv
  <1>2. QED  BY <1>1, Invariance, PTL

-----------------------------------------------------------------------------
(* IssuerRegister speaks of the same rows, requests and answers. *)
LEMMA SameWords ==
  /\ Register!NoRequest = NoRequest /\ Register!NoAnswer = NoAnswer
  /\ Register!Absent = Absent /\ Register!NoRows = NoRows
  /\ \A k : Register!Answer(k) = Answer(k)
  /\ \A row : Register!Found(row) = Found(row) /\ Register!Mismatch(row) = Mismatch(row)
  /\ \A r : Register!Built(r) = Built(r)
  /\ \A r, row : Register!Patched(row, r) = Patched(row, r)
  <1>1. Register!Absent = Absent /\ Register!NoRequest = NoRequest
    BY DEF Register!Absent, Absent, Register!NoRequest, NoRequest
  <1>2. \A k : Register!Answer(k) = Answer(k)
    BY <1>1 DEF Register!Answer, Answer
  <1>3. Register!NoAnswer = NoAnswer /\ Register!NoRows = NoRows
    BY <1>1, <1>2 DEF Register!NoAnswer, NoAnswer, Register!NoRows, NoRows
  <1>4. \A row : Register!Found(row) = Found(row) /\ Register!Mismatch(row) = Mismatch(row)
    BY <1>1 DEF Register!Found, Found, Register!Mismatch, Mismatch
  <1>5. \A r : Register!Built(r) = Built(r)
    BY DEF Register!Built, Built
  <1>6. \A r, row : Register!Patched(row, r) = Patched(row, r)
    BY DEF Register!Patched, Patched, Register!Coalesce, Coalesce
  <1>7. QED  BY <1>1, <1>2, <1>3, <1>4, <1>5, <1>6

(* IssuerRegister asks the same questions of them. *)
LEMMA SameTests ==
  /\ \A row : Register!CheckHolds(row) <=> CheckHolds(row)
  /\ \A r : Register!Buildable(r) <=> Buildable(r)
  /\ \A k : Register!CnpjTaken(rows, k) <=> CnpjTaken(rows, k)
  /\ \A k : Register!LeiTaken(rows, k) <=> LeiTaken(rows, k)
  BY DEF Register!CheckHolds, CheckHolds, Register!Buildable, Buildable,
         Register!CnpjTaken, CnpjTaken, Register!LeiTaken, LeiTaken

(* The register's initial state is the store's. *)
LEMMA RefinementInit == Init => Register!Init
  BY SameWords, SameTests DEF Init, Register!Init

(* A closure that concludes replies in the register. *)
LEMMA ConcludeReplies ==
  ASSUME IndInv, NEW c \in Clients, stage[c] \in PendingStages, NEW a, Conclude(c, a)
  PROVE  Register!Reply(c, a)
  <1>1. request[c] # NoRequest /\ answer[c] = NoAnswer
    BY DEF IndInv, StageTellsCall, PendingStages
  <1>2. QED
    BY <1>1, SameWords, SameTests DEF Register!Reply, Register!Pending, Conclude

(* A guarded write that touched no row is a refusal of its version. *)
LEMMA ZeroRowsRefuses ==
  ASSUME IndInv, NEW c \in Clients, stage[c] = "statement",
         request[c].op \in {"patch", "delete"},
         rows[request[c].id].version # request[c].expected,
         Conclude(c, IF rows[request[c].id] = Absent THEN Answer("missing")
                     ELSE Mismatch(rows[request[c].id])),
         UNCHANGED <<rows, draft>>
  PROVE  Register!RefuseVersion(c)
  <1>1. stage[c] \in PendingStages  BY DEF PendingStages
  <1>2. Register!KeysFree(request[c])
    BY SameWords, SameTests DEF Register!KeysFree, IndInv, LookedUp
  <1>3. CASE rows[request[c].id] = Absent
    <2>1. Register!Reply(c, Answer("missing"))  BY <1>1, <1>3, ConcludeReplies
    <2>2. QED  BY <1>2, <1>3, <2>1, SameWords, SameTests DEF Register!RefuseVersion
  <1>4. CASE rows[request[c].id] # Absent
    <2>1. Register!Reply(c, Mismatch(rows[request[c].id]))  BY <1>1, <1>4, ConcludeReplies
    <2>2. QED  BY <1>2, <1>4, <2>1, SameWords, SameTests DEF Register!RefuseVersion
  <1>5. QED  BY <1>3, <1>4

(* The call, the read and the end of a call are steps of their own.        *)
LEMMA HandlerRefines ==
  ASSUME IndInv, NEW c \in Clients
  PROVE  /\ \A r \in Requests : Call(c, r) => Register!Ask(c, r)
         /\ Select(c) => Register!Read(c)
         /\ Fault(c) => Register!Fail(c)
         /\ Return(c) => Register!Leave(c)
  <1>1. ASSUME NEW r \in Requests, Call(c, r) PROVE Register!Ask(c, r)
    <2>1. /\ stage[c] = "idle" /\ rows' = rows
          /\ request' = [request EXCEPT ![c] = r]
          /\ answer' = IF Buildable(r) THEN answer
                       ELSE [answer EXCEPT ![c] = Answer("invalid")]
      BY <1>1 DEF Call
    <2>2. /\ request[c] = NoRequest /\ answer[c] = NoAnswer
          /\ answer \in [Clients -> [kind : AnswerKinds, row : Row]]
      BY <2>1 DEF IndInv, StageTellsCall, TypeOK
    <2>3. answer' = [answer EXCEPT ![c] = IF Buildable(r) THEN NoAnswer ELSE Answer("invalid")]
      BY <2>1, <2>2
    <2>4. QED  BY <2>1, <2>2, <2>3, SameWords, SameTests DEF Register!Ask
  <1>2. ASSUME Select(c) PROVE Register!Read(c)
    <2>1. stage[c] \in PendingStages /\ request[c].op = "get" /\ rows' = rows
      BY <1>2 DEF Select, PendingStages
    <2>2. Register!Reply(c, IF rows[request[c].id] = Absent THEN Answer("absent")
                            ELSE Found(rows[request[c].id]))
      BY <1>2, <2>1, ConcludeReplies DEF Select
    <2>3. QED  BY <2>1, <2>2, SameWords, SameTests DEF Register!Read
  <1>3. ASSUME Fault(c) PROVE Register!Fail(c)
    <2>1. stage[c] \in PendingStages /\ Conclude(c, Answer("fault")) /\ rows' = rows
      BY <1>3 DEF Fault, PendingStages
    <2>2. QED  BY <2>1, ConcludeReplies, SameWords, SameTests DEF Register!Fail
  <1>4. ASSUME Return(c) PROVE Register!Leave(c)
    <2>1. answer[c] # NoAnswer  BY <1>4 DEF Return, IndInv, StageTellsCall, PendingStages
    <2>2. QED  BY <1>4, <2>1, SameWords, SameTests DEF Return, Register!Leave
  <1>5. QED  BY <1>1, <1>2, <1>3, <1>4

(* A lookup refuses a taken identifier, at the instant it is taken, or     *)
(* shows nothing.                                                          *)
LEMMA LookupRefines ==
  ASSUME IndInv, NEW c \in Clients, LookupCnpj(c) \/ LookupLei(c)
  PROVE  Register!RefuseKeys(c) \/ UNCHANGED Register!vars
  <1>1. stage[c] \in {"cnpj", "lei"}  BY DEF LookupCnpj, LookupLei
  <1>2. View(c) = rows /\ stage[c] \in PendingStages
    BY <1>1, ViewIsRows DEF PendingStages
  <1>3. Register!SetsKeys(request[c])
    BY <1>1 DEF IndInv, OneWriter, LaneStages, LookupStages, Register!SetsKeys
  <1>4. CASE LookupCnpj(c)
    <2>1. \/ /\ CnpjTaken(rows, request[c].cnpj)
             /\ Conclude(c, Answer("cnpj_exists")) /\ rows' = rows
          \/ UNCHANGED <<rows, request, answer>>
      BY <1>2, <1>4 DEF LookupCnpj
    <2>2. QED
      BY <1>2, <1>3, <2>1, ConcludeReplies, SameWords, SameTests DEF Register!RefuseKeys, Register!vars
  <1>5. CASE LookupLei(c)
    <2>1. \/ /\ LeiTaken(rows, request[c].lei)
             /\ Conclude(c, Answer("lei_exists")) /\ rows' = rows
          \/ UNCHANGED <<rows, request, answer>>
      BY <1>2, <1>5 DEF LookupLei
    <2>2. ~CnpjTaken(rows, request[c].cnpj)
      BY <1>5 DEF IndInv, LookedUp, LookupLei
    <2>3. QED
      BY <1>2, <1>3, <2>1, <2>2, ConcludeReplies, SameWords, SameTests
         DEF Register!RefuseKeys, Register!vars
  <1>6. QED  BY <1>4, <1>5

(* A statement is the instant at which a write takes effect. *)
LEMMA StatementRefines ==
  ASSUME IndInv, NEW c \in Clients, Insert(c) \/ Update(c) \/ Delete(c)
  PROVE  \/ Register!Register(c) \/ Register!Patch(c) \/ Register!Delete(c)
         \/ Register!RefuseVersion(c)
  <1>1. stage[c] = "statement" /\ stage[c] \in PendingStages
    BY DEF Insert, Update, Delete, AtStatement, PendingStages
  <1>2. Register!KeysFree(request[c])
    BY <1>1, SameWords, SameTests DEF Register!KeysFree, IndInv, LookedUp
  <1>3. CASE Insert(c)
    <2>1. /\ request[c].op = "register" /\ rows[request[c].id] = Absent
          /\ Conclude(c, Answer("registered")) /\ Stored(c, Built(request[c]))
      BY <1>3, InsertCases
    <2>2. Register!Reply(c, Answer("registered"))  BY <1>1, <2>1, ConcludeReplies
    <2>3. QED
      BY <1>2, <2>1, <2>2, SameWords, SameTests DEF Register!Register, Register!Store, Stored
  <1>4. CASE Update(c)
    <2> DEFINE row == Patched(rows[request[c].id], request[c])
    <2>1. CASE /\ rows[request[c].id].version = request[c].expected
               /\ request[c].op = "patch"
               /\ \/ CheckHolds(row) /\ Conclude(c, Answer("applied")) /\ Stored(c, row)
                  \/ /\ ~CheckHolds(row) /\ Conclude(c, Answer("check"))
                     /\ UNCHANGED <<rows, draft>>
      <3> HIDE DEF row
      <3>1. Register!Patched(rows[request[c].id], request[c]) = row
        BY SameWords, SameTests DEF row
      <3>2. \/ CheckHolds(row) /\ Register!Reply(c, Answer("applied")) /\ Stored(c, row)
            \/ ~CheckHolds(row) /\ Register!Reply(c, Answer("check")) /\ rows' = rows
        BY <1>1, <2>1, ConcludeReplies
      <3>3. QED
        BY <1>2, <2>1, <3>1, <3>2, SameWords, SameTests DEF Register!Patch, Register!Store, Stored
    <2>2. CASE /\ rows[request[c].id].version # request[c].expected
               /\ request[c].op = "patch"
               /\ Conclude(c, IF rows[request[c].id] = Absent THEN Answer("missing")
                              ELSE Mismatch(rows[request[c].id]))
               /\ UNCHANGED <<rows, draft>>
      BY <1>1, <2>2, ZeroRowsRefuses
    <2>3. QED  BY <1>4, <2>1, <2>2, UpdateCases
  <1>5. CASE Delete(c)
    <2>1. CASE /\ rows[request[c].id].version = request[c].expected
               /\ request[c].op = "delete"
               /\ Conclude(c, Answer("applied")) /\ Stored(c, Absent)
      <3>1. Register!Reply(c, Answer("applied"))  BY <1>1, <2>1, ConcludeReplies
      <3>2. QED  BY <2>1, <3>1, SameWords, SameTests DEF Register!Delete, Register!Store, Stored
    <2>2. CASE /\ rows[request[c].id].version # request[c].expected
               /\ request[c].op = "delete"
               /\ Conclude(c, IF rows[request[c].id] = Absent THEN Answer("missing")
                              ELSE Mismatch(rows[request[c].id]))
               /\ UNCHANGED <<rows, draft>>
      BY <1>1, <2>2, ZeroRowsRefuses
    <2>3. QED  BY <1>5, <2>1, <2>2, DeleteCases
  <1>6. QED  BY <1>3, <1>4, <1>5

(* Every step of the store is a step of the register, or changes nothing   *)
(* the register shows.                                                     *)
LEMMA RefinementStep == IndInv /\ [Next]_vars => [Register!Next]_(Register!vars)
  <1> SUFFICES ASSUME IndInv, [Next]_vars PROVE [Register!Next]_(Register!vars)  OBVIOUS
  <1>1. CASE UNCHANGED vars
    BY <1>1 DEF vars, Register!vars
  <1>2. ASSUME NEW c \in Clients, NEW r \in Asked, Call(c, r)
        PROVE  Register!Next
    BY <1>2, AskedAssumption, HandlerRefines DEF Register!Next
  <1>3. ASSUME NEW c \in Clients, Select(c) \/ Fault(c) \/ Return(c)
        PROVE  Register!Next
    BY <1>3, HandlerRefines DEF Register!Next
  <1>4. ASSUME NEW c \in Clients, LookupCnpj(c) \/ LookupLei(c)
        PROVE  Register!Next \/ UNCHANGED Register!vars
    BY <1>4, LookupRefines DEF Register!Next
  <1>5. ASSUME NEW c \in Clients, Insert(c) \/ Update(c) \/ Delete(c)
        PROVE  Register!Next
    BY <1>5, StatementRefines DEF Register!Next
  <1>6. ASSUME NEW c \in Clients, Admit(c) \/ OpenSavepoint(c) \/ Rollback(c)
        PROVE  UNCHANGED Register!vars
    BY <1>6 DEF Admit, OpenSavepoint, Rollback, Register!vars
  <1>7. QED  BY <1>1, <1>2, <1>3, <1>4, <1>5, <1>6 DEF Next

(* The issuer store implements the atomic register: lookups on pooled      *)
(* readers, one guarded statement, savepoints and faults, in any           *)
(* interleaving of any number of clients, are one step of it.              *)
THEOREM Linearizable == Spec => ImplementsRegister
  <1>1. QED
    BY Invariance, RefinementInit, RefinementStep, PTL
       DEF ImplementsRegister, Register!Spec, Spec

=============================================================================
