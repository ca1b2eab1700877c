------------------------ MODULE SecurityStore_proofs ------------------------
(***************************************************************************)
(* The rules of the security table, for any number of threads, ids,        *)
(* issuers and ISINs.  The rules are kept by the statements alone: of the  *)
(* lookups of register_security the proofs need nothing.  That an edit     *)
(* answers the truth rests on ids being generated once, so that a row that *)
(* is gone does not come back at an older version (Working).               *)
(***************************************************************************)
EXTENDS SecurityStore, TLAPS

Rules == NoReceiptCycle /\ ReferencesResolve /\ IsinNamesOneSecurity

AnyRow == Row \union {NoRow}

Registering == {"issuer", "isin", "underlying", "insert"}

(* What a caller in the middle of a call may rely on.                      *)
RegistersAlone(c) ==
  stage[c] \in Registering =>
    /\ target[c] \in issued
    /\ input[c] \in Snapshots
    /\ rows[target[c]] = NoRow
    /\ \A d \in Callers \ {c} : stage[d] # "idle" => target[d] # target[c]

EditsWhatItSaw(c) ==
  stage[c] = "editing" =>
    /\ target[c] \in issued
    /\ seen[c] \in Row
    /\ answer[c] = "found"
    /\ \/ rows[target[c]] \in {NoRow, seen[c]}
       \/ rows[target[c]].version > seen[c].version

IndInv ==
  /\ TypeOK
  /\ Rules
  /\ Stored \subseteq issued
  /\ \A c \in Callers : RegistersAlone(c) /\ EditsWhatItSaw(c)

-----------------------------------------------------------------------------
LEMMA RowShape ==
  ASSUME NEW r \in AnyRow
  PROVE  /\ r # NoRow => r \in Row /\ r.data \in Security /\ r.version \in 1..MaxVersion
         /\ r = NoRow <=> r.version = 0
         /\ r.version \in Nat
<1>1. NoRow.version = 0
  BY DEF NoRow
<1>2. ASSUME r \in Row
      PROVE  r.data \in Security /\ r.version \in 1..MaxVersion
  BY <1>2 DEF Row
<1> QED BY <1>1, <1>2, MaxVersionAssumption DEF AnyRow

LEMMA NewRow ==
  ASSUME NEW s \in Security, NEW n \in 1..MaxVersion
  PROVE  /\ [data |-> s, version |-> n] \in Row
         /\ [data |-> s, version |-> n] # NoRow
<1>1. [data |-> s, version |-> n].version # NoRow.version
  BY DEF NoRow
<1> QED BY <1>1 DEF Row

LEMMA NoneIsNoId == \A i \in Ids : i # None
BY NoneAssumption

(* The three ways in which a statement changes the table.                  *)
LEMMA AddRow ==
  ASSUME rows \in [Ids -> AnyRow], Rules, UNCHANGED issuers,
         NEW i \in Ids, rows[i] = NoRow, NEW s \in Security, Accepted(i, s),
         rows' = [rows EXCEPT ![i] = [data |-> s, version |-> 1]]
  PROVE  rows' \in [Ids -> AnyRow] /\ Rules' /\ Stored' = Stored \union {i}
<1> DEFINE r == [data |-> s, version |-> 1]
<1>1. r \in Row /\ r # NoRow /\ r.data = s
  BY NewRow, MaxVersionAssumption
<1>0. rows' = [rows EXCEPT ![i] = r]
  OBVIOUS
<1> HIDE DEF r
<1>2. rows'[i] = r /\ \A j \in Ids \ {i} : rows'[j] = rows[j]
  BY <1>0
<1>3. rows' \in [Ids -> AnyRow]
  BY <1>0, <1>1 DEF AnyRow
<1>4. Stored' = Stored \union {i} /\ i \notin Stored
  BY <1>1, <1>2 DEF Stored
<1>5. /\ s.issuer \in issuers
      /\ s.underlying \in Maybe(Stored)
      /\ s.underlying # i
      /\ IsinFree(i, s.isin)
  BY DEF Accepted, Maybe
<1>6. \A j \in Stored : rows[j].data.underlying # i
  BY <1>4, NoneIsNoId DEF Rules, ReferencesResolve, Maybe
<1>7. ReferencesResolve'
  BY <1>1, <1>2, <1>4, <1>5 DEF Rules, ReferencesResolve, Maybe, Stored
<1>8. IsinNamesOneSecurity'
  BY <1>1, <1>2, <1>4, <1>5 DEF Rules, IsinNamesOneSecurity, IsinFree, Stored
<1>9. ASSUME NEW S \in SUBSET (Stored \union {i}), S # {}
      PROVE  \E j \in S : rows'[j].data.underlying \notin S
  <2>1. CASE S = {i}
    BY <1>1, <1>2, <1>5, <2>1
  <2>2. CASE S # {i}
    <3>1. S \ {i} \in SUBSET Stored /\ S \ {i} # {}
      BY <1>9, <2>2
    <3>2. PICK j \in S \ {i} : rows[j].data.underlying \notin S \ {i}
      BY <3>1 DEF Rules, NoReceiptCycle
    <3>3. rows'[j] = rows[j] /\ j \in Stored
      BY <1>2, <3>1, <3>2 DEF Stored
    <3> QED BY <1>6, <3>2, <3>3
  <2> QED BY <2>1, <2>2
<1>10. NoReceiptCycle'
  BY <1>4, <1>9 DEF NoReceiptCycle
<1> QED BY <1>3, <1>4, <1>7, <1>8, <1>10 DEF Rules

LEMMA ReplaceRow ==
  ASSUME rows \in [Ids -> AnyRow], Rules, UNCHANGED issuers,
         NEW i \in Ids, rows[i] # NoRow, NEW s \in Security, Accepted(i, s),
         s.underlying = rows[i].data.underlying, NEW n \in 1..MaxVersion,
         rows' = [rows EXCEPT ![i] = [data |-> s, version |-> n]]
  PROVE  rows' \in [Ids -> AnyRow] /\ Rules' /\ Stored' = Stored
<1> DEFINE r == [data |-> s, version |-> n]
<1>1. r \in Row /\ r # NoRow /\ r.data = s
  BY NewRow
<1>0. rows' = [rows EXCEPT ![i] = r]
  OBVIOUS
<1> HIDE DEF r
<1>2. rows'[i] = r /\ \A j \in Ids \ {i} : rows'[j] = rows[j]
  BY <1>0
<1>3. rows' \in [Ids -> AnyRow]
  BY <1>0, <1>1 DEF AnyRow
<1>4. Stored' = Stored /\ i \in Stored
  BY <1>1, <1>2 DEF Stored
<1>5. s.issuer \in issuers /\ IsinFree(i, s.isin)
  BY DEF Accepted
<1>6. \A j \in Stored : rows'[j].data.underlying = rows[j].data.underlying
  BY <1>1, <1>2 DEF Stored
<1>7. ReferencesResolve'
  BY <1>1, <1>2, <1>4, <1>5, <1>6 DEF Rules, ReferencesResolve, Stored
<1>8. IsinNamesOneSecurity'
  BY <1>1, <1>2, <1>4, <1>5 DEF Rules, IsinNamesOneSecurity, IsinFree, Stored
<1>9. NoReceiptCycle'
  BY <1>4, <1>6 DEF Rules, NoReceiptCycle
<1> QED BY <1>3, <1>4, <1>7, <1>8, <1>9 DEF Rules

LEMMA DropRow ==
  ASSUME rows \in [Ids -> AnyRow], Rules, UNCHANGED issuers,
         NEW i \in Ids, \A j \in Stored : rows[j].data.underlying # i,
         rows' = [rows EXCEPT ![i] = NoRow]
  PROVE  rows' \in [Ids -> AnyRow] /\ Rules' /\ Stored' = Stored \ {i}
<1>1. rows'[i] = NoRow /\ \A j \in Ids \ {i} : rows'[j] = rows[j]
  OBVIOUS
<1>2. rows' \in [Ids -> AnyRow]
  BY DEF AnyRow
<1>3. Stored' = Stored \ {i}
  BY <1>1 DEF Stored
<1>4. \A j \in Stored' : rows'[j] = rows[j] /\ j \in Stored
  BY <1>1, <1>3 DEF Stored
<1>5. ReferencesResolve' /\ IsinNamesOneSecurity'
  BY <1>3, <1>4 DEF Rules, ReferencesResolve, IsinNamesOneSecurity, Maybe
<1>6. NoReceiptCycle'
  BY <1>3, <1>4 DEF Rules, NoReceiptCycle
<1> QED BY <1>2, <1>3, <1>5, <1>6 DEF Rules

-----------------------------------------------------------------------------
(* What a step of caller c may do to the table: nothing, or to the row it  *)
(* works on; an edit takes the row away or gives it a later version.       *)
Advances(c) ==
  \/ UNCHANGED rows
  \/ /\ stage[c] \in {"insert", "editing"}
     /\ \A i \in Ids \ {target[c]} : rows'[i] = rows[i]
     /\ stage[c] = "editing" =>
          \/ rows'[target[c]] = NoRow
          \/ rows[target[c]] # NoRow /\ rows'[target[c]].version > rows[target[c]].version

(* The id that c works on after its step was its own, new, or stored.      *)
ClaimsFairly(c) ==
  stage'[c] # "idle" =>
    \/ stage[c] # "idle" /\ target'[c] = target[c]
    \/ target'[c] \notin issued
    \/ target'[c] \in Stored

LEMMA IdsOfCallers ==
  ASSUME IndInv, NEW c \in Callers, stage[c] # "idle"
  PROVE  target[c] \in issued /\ target[c] \in Ids
<1>1. stage[c] \in Registering \union {"editing"}
  BY DEF IndInv, TypeOK, Stages, Registering
<1> QED BY <1>1 DEF IndInv, TypeOK, RegistersAlone, EditsWhatItSaw

LEMMA OthersKeep ==
  ASSUME IndInv, NEW c \in Callers, NEW d \in Callers \ {c},
         \A e \in Callers \ {c} :
            /\ stage'[e] = stage[e] /\ target'[e] = target[e] /\ input'[e] = input[e]
            /\ seen'[e] = seen[e] /\ answer'[e] = answer[e],
         rows' \in [Ids -> AnyRow], issued \subseteq issued', Advances(c), ClaimsFairly(c)
  PROVE  (RegistersAlone(d) /\ EditsWhatItSaw(d))'
<1> USE DEF IndInv
<1>1. ASSUME stage[d] \in Registering
      PROVE  RegistersAlone(d)'
  <2>1. /\ target[d] \in issued /\ rows[target[d]] = NoRow /\ input[d] \in Snapshots
        /\ \A e \in Callers \ {d} : stage[e] # "idle" => target[e] # target[d]
    BY <1>1 DEF RegistersAlone
  <2>2. target[d] \in Ids /\ target[d] \notin Stored
    BY <2>1 DEF TypeOK, Stored
  <2>3. rows'[target[d]] = NoRow
    BY <2>1, <2>2 DEF Advances
  <2>4. stage'[c] # "idle" => target'[c] # target[d]
    BY <2>1, <2>2 DEF ClaimsFairly
  <2>5. \A e \in Callers \ {d} : stage'[e] # "idle" => target'[e] # target'[d]
    BY <2>1, <2>4
  <2> QED BY <2>1, <2>3, <2>5 DEF RegistersAlone
<1>2. ASSUME stage[d] = "editing"
      PROVE  EditsWhatItSaw(d)'
  <2>1. /\ target[d] \in issued /\ seen[d] \in Row /\ answer[d] = "found"
        /\ \/ rows[target[d]] \in {NoRow, seen[d]}
           \/ rows[target[d]].version > seen[d].version
    BY <1>2 DEF EditsWhatItSaw
  <2>2. target[d] \in Ids
    BY <2>1 DEF TypeOK
  <2>3. CASE rows'[target[d]] = rows[target[d]]
    BY <2>1, <2>3 DEF EditsWhatItSaw
  <2>4. CASE rows'[target[d]] # rows[target[d]]
    <3>1. target[d] = target[c] /\ stage[c] \in {"insert", "editing"}
      BY <2>2, <2>4 DEF Advances
    <3>2. stage[c] = "editing"
      BY <1>2, <3>1 DEF RegistersAlone, Registering
    <3>3. \/ rows'[target[d]] = NoRow
          \/ rows[target[d]] # NoRow /\ rows'[target[d]].version > rows[target[d]].version
      BY <2>4, <3>1, <3>2 DEF Advances
    <3>4. CASE rows'[target[d]] = NoRow
      BY <2>1, <3>4 DEF EditsWhatItSaw
    <3>5. CASE /\ rows[target[d]] # NoRow
               /\ rows'[target[d]].version > rows[target[d]].version
      <4>1. rows[target[d]] \in AnyRow /\ seen[d] \in AnyRow
        BY <2>2 DEF TypeOK, AnyRow
      <4>2. rows[target[d]].version \in Nat /\ seen[d].version \in Nat
        BY <4>1, RowShape
      <4>3. rows[target[d]].version >= seen[d].version
        BY <2>1, <3>5, <4>2
      <4>4. rows'[target[d]].version \in Nat
        BY <2>2, RowShape
      <4> QED BY <2>1, <3>5, <4>2, <4>3, <4>4 DEF EditsWhatItSaw
    <3> QED BY <3>3, <3>4, <3>5
  <2> QED BY <2>3, <2>4
<1>3. (stage[d] \notin Registering => RegistersAlone(d)') /\ (stage[d] # "editing" => EditsWhatItSaw(d)')
  BY DEF RegistersAlone, EditsWhatItSaw
<1> QED BY <1>1, <1>2, <1>3

-----------------------------------------------------------------------------
TableKept ==
  /\ rows' \in [Ids -> AnyRow]
  /\ Rules'
  /\ issuers' \subseteq Issuers
  /\ issued' \subseteq Ids
  /\ issued \subseteq issued'
  /\ Stored' \subseteq issued'

LEMMA NothingWritten ==
  ASSUME IndInv, UNCHANGED <<issuers, rows>>, issued' \subseteq Ids, issued \subseteq issued'
  PROVE  TableKept /\ Stored' = Stored /\ \A c \in Callers : Advances(c)
BY DEF IndInv, TableKept, TypeOK, AnyRow, Rules, NoReceiptCycle, ReferencesResolve,
       IsinNamesOneSecurity, Stored, Advances

LEMMA ReturnStep ==
  ASSUME IndInv, NEW c \in Callers, NEW a \in Answers, Return(c, a), TableKept, Advances(c)
  PROVE  IndInv'
<1> USE DEF IndInv, TableKept
<1>1. TypeOK'
  BY DEF TypeOK, Return, AnyRow, Maybe, Stages
<1>2. stage'[c] = "idle"
  BY DEF Return, TypeOK
<1>3. \A e \in Callers \ {c} :
        /\ stage'[e] = stage[e] /\ target'[e] = target[e] /\ input'[e] = input[e]
        /\ seen'[e] = seen[e] /\ answer'[e] = answer[e]
  BY DEF Return, TypeOK
<1>4. \A d \in Callers \ {c} : (RegistersAlone(d) /\ EditsWhatItSaw(d))'
  BY <1>2, <1>3, OthersKeep DEF ClaimsFairly
<1>5. (RegistersAlone(c) /\ EditsWhatItSaw(c))'
  BY <1>2 DEF RegistersAlone, EditsWhatItSaw, Registering
<1> QED BY <1>1, <1>4, <1>5

LEMMA LookStep ==
  ASSUME IndInv, NEW c \in Callers, stage[c] \in Registering,
         NEW s \in Registering, Goto(c, s), UNCHANGED <<issuers, rows, issued>>
  PROVE  IndInv'
<1>1. TableKept /\ Stored' = Stored /\ Advances(c)
  BY NothingWritten DEF IndInv, TypeOK
<1>2. stage' = [stage EXCEPT ![c] = s] /\ stage[c] # "idle" /\ stage'[c] = s
  BY DEF Goto, IndInv, TypeOK, Registering
<1>3. UNCHANGED <<answer, target, input, seen>>
  BY DEF Goto
<1>4. TypeOK'
  BY <1>2, <1>3 DEF IndInv, TypeOK, Registering, Stages
<1>5. ClaimsFairly(c)
  BY <1>2, <1>3 DEF ClaimsFairly
<1>6. \A d \in Callers \ {c} : (RegistersAlone(d) /\ EditsWhatItSaw(d))'
  BY <1>1, <1>2, <1>3, <1>5, OthersKeep DEF TableKept, IndInv, TypeOK
<1>7. (RegistersAlone(c) /\ EditsWhatItSaw(c))'
  BY <1>2, <1>3 DEF IndInv, TypeOK, RegistersAlone, EditsWhatItSaw, Registering
<1> QED BY <1>1, <1>4, <1>6, <1>7 DEF IndInv, TableKept

(* Register and Import take an id that nobody else will ever have.         *)
LEMMA ClaimStep ==
  ASSUME IndInv, NEW c \in Callers, NEW i \in Ids, NEW s \in Snapshots, NEW first \in Registering,
         stage[c] = "idle", i \notin issued,
         issued' = issued \union {i},
         target' = [target EXCEPT ![c] = i],
         input' = [input EXCEPT ![c] = s],
         stage' = [stage EXCEPT ![c] = first],
         answer' = [answer EXCEPT ![c] = "none"],
         UNCHANGED <<issuers, rows, seen>>
  PROVE  IndInv'
<1>1. TableKept /\ Stored' = Stored /\ Advances(c)
  BY NothingWritten DEF IndInv, TypeOK
<1>2. TypeOK'
  BY DEF IndInv, TypeOK, Maybe, Registering, Stages, Answers
<1>3. stage'[c] = first /\ target'[c] = i /\ input'[c] = s
  BY DEF IndInv, TypeOK
<1>4. \A e \in Callers \ {c} :
        /\ stage'[e] = stage[e] /\ target'[e] = target[e] /\ input'[e] = input[e]
        /\ seen'[e] = seen[e] /\ answer'[e] = answer[e]
  BY DEF IndInv, TypeOK
<1>5. ClaimsFairly(c)
  BY <1>3 DEF ClaimsFairly
<1>6. \A d \in Callers \ {c} : (RegistersAlone(d) /\ EditsWhatItSaw(d))'
  BY <1>1, <1>4, <1>5, OthersKeep DEF TableKept
<1>7. rows'[i] = NoRow
  BY DEF IndInv, TypeOK, Stored
<1>8. \A e \in Callers \ {c} : stage'[e] # "idle" => target'[e] # i
  BY <1>4, IdsOfCallers
<1>9. (RegistersAlone(c) /\ EditsWhatItSaw(c))'
  BY <1>3, <1>7, <1>8 DEF RegistersAlone, EditsWhatItSaw, Registering
<1> QED BY <1>1, <1>2, <1>6, <1>9 DEF IndInv, TableKept

LEMMA FindStep ==
  ASSUME IndInv, NEW c \in Callers, NEW i \in Ids, Find(c, i)
  PROVE  IndInv'
<1> USE DEF Find
<1>1. TableKept /\ Stored' = Stored /\ Advances(c)
  BY NothingWritten DEF IndInv, TypeOK
<1>2. rows[i] \in Row
  BY RowShape DEF IndInv, TypeOK, Stored, AnyRow
<1>3. TypeOK'
  BY <1>2 DEF IndInv, TypeOK, Maybe, Stages, Answers
<1>4. stage'[c] = "editing" /\ target'[c] = i /\ seen'[c] = rows[i] /\ answer'[c] = "found"
  BY DEF IndInv, TypeOK
<1>5. \A e \in Callers \ {c} :
        /\ stage'[e] = stage[e] /\ target'[e] = target[e] /\ input'[e] = input[e]
        /\ seen'[e] = seen[e] /\ answer'[e] = answer[e]
  BY DEF IndInv, TypeOK
<1>6. ClaimsFairly(c)
  BY <1>1, <1>4 DEF ClaimsFairly
<1>7. \A d \in Callers \ {c} : (RegistersAlone(d) /\ EditsWhatItSaw(d))'
  BY <1>1, <1>5, <1>6, OthersKeep DEF TableKept
<1>8. (RegistersAlone(c) /\ EditsWhatItSaw(c))'
  BY <1>2, <1>4 DEF IndInv, RegistersAlone, EditsWhatItSaw, Registering
<1> QED BY <1>1, <1>3, <1>7, <1>8 DEF IndInv, TableKept

-----------------------------------------------------------------------------
LEMMA InsertStep ==
  ASSUME IndInv, NEW c \in Callers, Insert(c)
  PROVE  IndInv'
<1> USE DEF Insert
<1>1. target[c] \in Ids /\ target[c] \in issued /\ input[c] \in Security /\ rows[target[c]] = NoRow
  BY IdsOfCallers, SnapshotsAssumption DEF IndInv, RegistersAlone, Registering
<1>2. CASE Accepted(target[c], input[c])
  <2>1. /\ rows' = [rows EXCEPT ![target[c]] = [data |-> input[c], version |-> 1]]
        /\ Return(c, "registered")
    BY <1>1, <1>2
  <2>2. rows' \in [Ids -> AnyRow] /\ Rules' /\ Stored' = Stored \union {target[c]}
    BY <1>1, <1>2, <2>1, AddRow DEF IndInv, TypeOK, AnyRow
  <2>3. TableKept
    BY <1>1, <2>2 DEF TableKept, IndInv, TypeOK
  <2>4. Advances(c)
    BY <2>1 DEF Advances, IndInv, TypeOK
  <2> QED BY <2>1, <2>3, <2>4, ReturnStep DEF Answers
<1>3. CASE ~Accepted(target[c], input[c])
  <2>1. Return(c, "fault") /\ UNCHANGED <<issuers, rows, issued>>
    BY <1>3
  <2> QED BY <2>1, NothingWritten, ReturnStep DEF Answers, IndInv, TypeOK
<1> QED BY <1>2, <1>3

(* A refused edit, for its version or because the row is gone.             *)
LEMMA ZeroRowsStep ==
  ASSUME IndInv, NEW c \in Callers, ZeroRows(c), UNCHANGED <<issuers, issued>>
  PROVE  IndInv'
<1>1. PICK a \in Answers : Return(c, a)
  BY DEF ZeroRows, Answers
<1> QED BY <1>1, NothingWritten, ReturnStep DEF ZeroRows, IndInv, TypeOK

(* The row an edit meets when the versions agree is the row it has seen.   *)
LEMMA SameVersionSameRow ==
  ASSUME IndInv, NEW c \in Callers, stage[c] = "editing",
         rows[target[c]].version = seen[c].version
  PROVE  /\ rows[target[c]] = seen[c]
         /\ rows[target[c]] # NoRow
         /\ target[c] \in Stored
<1>1. target[c] \in Ids /\ seen[c] \in Row
  BY IdsOfCallers DEF IndInv, EditsWhatItSaw
<1>2. rows[target[c]] \in AnyRow /\ seen[c] \in AnyRow
  BY <1>1 DEF IndInv, TypeOK, AnyRow
<1>3. seen[c].version \in 1..MaxVersion
  BY <1>1 DEF Row
<1>4. rows[target[c]] # NoRow
  BY <1>2, <1>3, RowShape, MaxVersionAssumption
<1>5. ~(rows[target[c]].version > seen[c].version)
  BY <1>3, MaxVersionAssumption
<1> QED BY <1>1, <1>4, <1>5 DEF IndInv, EditsWhatItSaw, Stored

(* An edit that keeps the underlying security, whatever else it writes.    *)
LEMMA WriteStep ==
  ASSUME IndInv, NEW c \in Callers, Editing(c), NEW s \in Security, Write(c, s),
         rows[target[c]] # NoRow => s.underlying = rows[target[c]].data.underlying
  PROVE  IndInv'
<1>1. stage[c] = "editing" /\ seen[c].version < MaxVersion /\ UNCHANGED <<issuers, issued>>
  BY DEF Editing
<1>2. target[c] \in Ids /\ target[c] \in issued
  BY <1>1, IdsOfCallers
<1>3. CASE rows[target[c]].version = seen[c].version /\ Accepted(target[c], s)
  <2> DEFINE n == rows[target[c]].version + 1
  <2>1. rows[target[c]] # NoRow
    BY <1>1, <1>3, SameVersionSameRow
  <2>2. rows[target[c]].version \in 1..MaxVersion
    BY <1>2, <2>1, RowShape DEF IndInv, TypeOK, AnyRow
  <2>3. n \in 1..MaxVersion /\ n > rows[target[c]].version
    BY <1>1, <1>3, <2>2, MaxVersionAssumption
  <2>4. rows' = [rows EXCEPT ![target[c]] = [data |-> s, version |-> n]] /\ Return(c, "applied")
    BY <1>2, <1>3 DEF Write, IndInv, TypeOK
  <2> HIDE DEF n
  <2>5. rows' \in [Ids -> AnyRow] /\ Rules' /\ Stored' = Stored
    BY <1>1, <1>2, <1>3, <2>1, <2>3, <2>4, ReplaceRow DEF IndInv, TypeOK, AnyRow
  <2>6. TableKept
    BY <1>1, <2>5 DEF TableKept, IndInv, TypeOK
  <2>7. rows'[target[c]].version = n /\ \A i \in Ids \ {target[c]} : rows'[i] = rows[i]
    BY <1>2, <2>4 DEF IndInv, TypeOK
  <2>8. Advances(c)
    BY <1>1, <2>1, <2>3, <2>7 DEF Advances
  <2> QED BY <2>4, <2>6, <2>8, ReturnStep DEF Answers
<1>4. CASE rows[target[c]].version = seen[c].version /\ ~Accepted(target[c], s)
  <2>1. Return(c, "fault") /\ UNCHANGED <<issuers, rows, issued>>
    BY <1>1, <1>4 DEF Write
  <2> QED BY <2>1, NothingWritten, ReturnStep DEF Answers, IndInv, TypeOK
<1>5. CASE rows[target[c]].version # seen[c].version
  BY <1>1, <1>5, ZeroRowsStep DEF Write
<1> QED BY <1>3, <1>4, <1>5

LEMMA NowIsSecurity ==
  ASSUME IndInv, NEW c \in Callers, stage[c] = "editing"
  PROVE  Now(c) \in Security /\ (rows[target[c]] # NoRow => Now(c) = rows[target[c]].data)
<1>1. target[c] \in Ids /\ seen[c] \in Row
  BY IdsOfCallers DEF IndInv, EditsWhatItSaw
<1>2. rows[target[c]] \in AnyRow
  BY <1>1 DEF IndInv, TypeOK, AnyRow
<1> QED BY <1>1, <1>2, RowShape DEF Now, Row

LEMMA EditStep ==
  ASSUME IndInv, NEW c \in Callers,
         \/ \E isin \in Maybe(Isins), ratio \in BOOLEAN : ApplyPatch(c, isin, ratio)
         \/ \E s \in Snapshots : Update(c, s)
  PROVE  IndInv'
<1>1. stage[c] = "editing" /\ Editing(c)
  BY DEF ApplyPatch, Update, Editing
<1>2. Now(c) \in Security /\ (rows[target[c]] # NoRow => Now(c) = rows[target[c]].data)
  BY <1>1, NowIsSecurity
<1>3. ASSUME NEW isin \in Maybe(Isins), NEW ratio \in BOOLEAN, ApplyPatch(c, isin, ratio)
      PROVE  IndInv'
  <2>1. /\ Patched(Now(c), isin, ratio) \in Security
        /\ Patched(Now(c), isin, ratio).underlying = Now(c).underlying
    BY <1>2 DEF Patched, Security, Maybe
  <2>2. Write(c, Patched(Now(c), isin, ratio))
    BY <1>3 DEF ApplyPatch
  <2> HIDE DEF Patched
  <2> QED BY <1>1, <1>2, <2>1, <2>2, WriteStep
<1>4. ASSUME NEW s \in Snapshots, Update(c, s)
      PROVE  IndInv'
  <2>1. s \in Security
    BY SnapshotsAssumption
  <2>2. /\ Replaced(Now(c), s) \in Security
        /\ Replaced(Now(c), s).underlying = Now(c).underlying
    BY <1>2, <2>1 DEF Replaced, Security
  <2>3. Write(c, Replaced(Now(c), s))
    BY <1>4 DEF Update
  <2> QED BY <1>1, <1>2, <2>2, <2>3, WriteStep
<1> QED BY <1>3, <1>4

LEMMA DeleteStep ==
  ASSUME IndInv, NEW c \in Callers, Delete(c)
  PROVE  IndInv'
<1>1. stage[c] = "editing" /\ UNCHANGED <<issuers, issued>>
  BY DEF Delete
<1>2. target[c] \in Ids /\ target[c] \in issued
  BY <1>1, IdsOfCallers
<1>3. CASE /\ rows[target[c]].version = seen[c].version
           /\ \A j \in Stored : rows[j].data.underlying # target[c]
  <2>1. rows' = [rows EXCEPT ![target[c]] = NoRow] /\ Return(c, "applied")
    BY <1>3 DEF Delete
  <2>2. rows' \in [Ids -> AnyRow] /\ Rules' /\ Stored' = Stored \ {target[c]}
    BY <1>1, <1>2, <1>3, <2>1, DropRow DEF IndInv, TypeOK, AnyRow
  <2>3. TableKept
    BY <1>1, <2>2 DEF TableKept, IndInv, TypeOK
  <2>4. Advances(c)
    BY <1>1, <1>2, <2>1 DEF Advances, IndInv, TypeOK
  <2> QED BY <2>1, <2>3, <2>4, ReturnStep DEF Answers
<1>4. CASE /\ rows[target[c]].version = seen[c].version
           /\ ~(\A j \in Stored : rows[j].data.underlying # target[c])
  <2>1. Return(c, "fault") /\ UNCHANGED <<issuers, rows, issued>>
    BY <1>1, <1>4 DEF Delete
  <2> QED BY <2>1, NothingWritten, ReturnStep DEF Answers, IndInv, TypeOK
<1>5. CASE rows[target[c]].version # seen[c].version
  BY <1>1, <1>5, ZeroRowsStep DEF Delete
<1> QED BY <1>3, <1>4, <1>5

LEMMA IssuerStep ==
  ASSUME IndInv, NEW i \in Issuers, AddIssuer(i) \/ RemoveIssuer(i)
  PROVE  IndInv'
<1>1. UNCHANGED <<rows, issued, stage, target, input, seen, answer>>
  BY DEF AddIssuer, RemoveIssuer, caller
<1>2. TypeOK' /\ Stored' = Stored
  BY <1>1 DEF IndInv, TypeOK, AddIssuer, RemoveIssuer, Stored
<1>3. ReferencesResolve'
  BY <1>1, <1>2 DEF IndInv, Rules, ReferencesResolve, AddIssuer, RemoveIssuer
<1>4. NoReceiptCycle' /\ IsinNamesOneSecurity'
  BY <1>1, <1>2 DEF IndInv, Rules, NoReceiptCycle, IsinNamesOneSecurity
<1>5. \A c \in Callers : (RegistersAlone(c) /\ EditsWhatItSaw(c))'
  BY <1>1 DEF IndInv, RegistersAlone, EditsWhatItSaw
<1> QED BY <1>1, <1>2, <1>3, <1>4, <1>5 DEF IndInv, Rules

LEMMA LookupsStep ==
  ASSUME IndInv, NEW c \in Callers, CheckIssuer(c) \/ CheckIsin(c) \/ CheckUnderlying(c)
  PROVE  IndInv'
<1>1. stage[c] \in Registering /\ UNCHANGED <<issuers, rows, issued>>
  BY DEF CheckIssuer, CheckIsin, CheckUnderlying, Registering
<1>2. \/ \E s \in Registering : Goto(c, s)
      \/ \E a \in Answers : Return(c, a)
  BY DEF CheckIssuer, CheckIsin, CheckUnderlying, Registering, Answers
<1> QED BY <1>1, <1>2, LookStep, NothingWritten, ReturnStep DEF IndInv, TypeOK

LEMMA RegisterStep ==
  ASSUME IndInv, NEW c \in Callers, NEW i \in Ids, NEW s \in Snapshots,
         Register(c, i, s) \/ Import(c, i, s)
  PROVE  IndInv'
<1>1. CASE Register(c, i, s) /\ Buildable(i, s)
  BY <1>1, ClaimStep DEF Register, Registering
<1>2. CASE Register(c, i, s) /\ ~Buildable(i, s)
  <2>1. Return(c, "invalid") /\ UNCHANGED <<issuers, rows, issued>>
    BY <1>2 DEF Register
  <2> QED BY <2>1, NothingWritten, ReturnStep DEF Answers, IndInv, TypeOK
<1>3. CASE Import(c, i, s)
  BY <1>3, ClaimStep DEF Import, Registering
<1> QED BY <1>1, <1>2, <1>3

LEMMA FaultStep ==
  ASSUME IndInv, NEW c \in Callers, Fault(c)
  PROVE  IndInv'
BY NothingWritten, ReturnStep DEF Fault, Answers, IndInv, TypeOK

-----------------------------------------------------------------------------
LEMMA InitHolds == Init => IndInv
<1> SUFFICES ASSUME Init PROVE IndInv
  OBVIOUS
<1>1. Stored = {}
  BY DEF Init, Stored
<1>2. TypeOK
  BY DEF Init, TypeOK, Maybe, Stages, Answers
<1>3. Rules
  BY <1>1 DEF Rules, NoReceiptCycle, ReferencesResolve, IsinNamesOneSecurity
<1>4. \A c \in Callers : RegistersAlone(c) /\ EditsWhatItSaw(c)
  BY DEF Init, RegistersAlone, EditsWhatItSaw, Registering
<1> QED BY <1>1, <1>2, <1>3, <1>4 DEF IndInv

LEMMA StutterHolds == IndInv /\ UNCHANGED vars => IndInv'
<1> SUFFICES ASSUME IndInv, UNCHANGED vars PROVE IndInv'
  OBVIOUS
<1>1. Stored' = Stored /\ TypeOK'
  BY DEF vars, IndInv, TypeOK, Stored
<1>2. Rules'
  BY <1>1 DEF vars, IndInv, Rules, NoReceiptCycle, ReferencesResolve, IsinNamesOneSecurity
<1>3. \A c \in Callers : (RegistersAlone(c) /\ EditsWhatItSaw(c))'
  BY DEF vars, IndInv, RegistersAlone, EditsWhatItSaw
<1> QED BY <1>1, <1>2, <1>3 DEF vars, IndInv

LEMMA NextHolds == IndInv /\ [Next]_vars => IndInv'
<1> SUFFICES ASSUME IndInv, Next PROVE IndInv'
  BY StutterHolds
<1> QED
  BY IssuerStep, RegisterStep, LookupsStep, InsertStep, FindStep, EditStep, DeleteStep, FaultStep
     DEF Next

LEMMA Invariance == Spec => []IndInv
BY InitHolds, NextHolds, PTL DEF Spec

(* The types of the table and of its callers.                              *)
THEOREM TypeCorrect == Spec => []TypeOK
<1>1. IndInv => TypeOK
  BY DEF IndInv
<1> QED BY <1>1, Invariance, PTL

(* No depositary receipt wraps itself through others, whatever is          *)
(* registered, imported, patched, replaced and deleted in any order.       *)
THEOREM ReceiptsAreWellFounded == Spec => []NoReceiptCycle
<1>1. IndInv => NoReceiptCycle
  BY DEF IndInv, Rules
<1> QED BY <1>1, Invariance, PTL

(* The issuer and the underlying security of a stored security are stored, *)
(* although register_security looks them up in transactions of their own.  *)
THEOREM References == Spec => []ReferencesResolve
<1>1. IndInv => ReferencesResolve
  BY DEF IndInv, Rules
<1> QED BY <1>1, Invariance, PTL

(* An ISIN names one security (find_by_isin).                              *)
THEOREM OneSecurityPerIsin == Spec => []IsinNamesOneSecurity
<1>1. IndInv => IsinNamesOneSecurity
  BY DEF IndInv, Rules
<1> QED BY <1>1, Invariance, PTL

LEMMA ReturnAnswers ==
  ASSUME IndInv, NEW c \in Callers, NEW d \in Callers, NEW a, NEW b \in Answers, b # "found",
         Return(d, a), Answered(c, b)
  PROVE  d = c /\ a = b
<1>1. answer[c] = "found"
  BY DEF Answered, IndInv, EditsWhatItSaw
<1> QED BY <1>1 DEF Return, Answered, IndInv, TypeOK

(* Only the three writes and a fault answer an edit.                       *)
LEMMA WhoAnswers ==
  ASSUME IndInv, [Next]_vars, NEW c \in Callers,
         NEW b \in {"applied", "mismatch", "missing"}, Answered(c, b)
  PROVE  \/ \E s \in Security : Write(c, s)
         \/ Delete(c)
<1>1. b \in Answers /\ b # "found" /\ answer[c] = "found" /\ answer'[c] = b /\ stage[c] = "editing"
  BY DEF Answered, IndInv, EditsWhatItSaw, Answers
<1>2. ASSUME NEW i \in Issuers, AddIssuer(i) \/ RemoveIssuer(i)
      PROVE  FALSE
  BY <1>1, <1>2 DEF AddIssuer, RemoveIssuer
<1>3. ASSUME NEW d \in Callers, NEW i \in Ids, NEW s \in Snapshots,
             Register(d, i, s) \/ Import(d, i, s)
      PROVE  FALSE
  <2>1. d # c
    BY <1>1, <1>3 DEF Register, Import
  <2> QED BY <1>1, <1>3, <2>1 DEF Register, Import, Return, IndInv, TypeOK
<1>4. ASSUME NEW d \in Callers, CheckIssuer(d) \/ CheckIsin(d) \/ CheckUnderlying(d) \/ Insert(d)
      PROVE  FALSE
  <2>1. d # c
    BY <1>1, <1>4 DEF CheckIssuer, CheckIsin, CheckUnderlying, Insert
  <2> QED BY <1>1, <1>4, <2>1
       DEF CheckIssuer, CheckIsin, CheckUnderlying, Insert, Goto, Return, IndInv, TypeOK
<1>5. ASSUME NEW d \in Callers, Fault(d)
      PROVE  FALSE
  BY <1>1, <1>5, ReturnAnswers DEF Fault
<1>6. ASSUME NEW d \in Callers, NEW s \in Security, Write(d, s)
      PROVE  d = c
  <2>1. PICK a \in Answers : Return(d, a)
    BY <1>6 DEF Write, ZeroRows, Answers
  <2> QED BY <1>1, <2>1, ReturnAnswers
<1>7. ASSUME NEW d \in Callers, Delete(d)
      PROVE  Delete(c)
  <2>1. PICK a \in Answers : Return(d, a)
    BY <1>7 DEF Delete, ZeroRows, Answers
  <2>2. d = c
    BY <1>1, <2>1, ReturnAnswers
  <2> QED BY <1>7, <2>2
<1>8. ASSUME NEW d \in Callers, NEW isin \in Maybe(Isins), NEW ratio \in BOOLEAN,
             ApplyPatch(d, isin, ratio)
      PROVE  d = c /\ \E s \in Security : Write(c, s)
  <2>1. Patched(Now(d), isin, ratio) \in Security /\ Write(d, Patched(Now(d), isin, ratio))
    BY <1>8, NowIsSecurity DEF ApplyPatch, Editing, Patched, Security, Maybe
  <2> HIDE DEF Patched
  <2> QED BY <1>6, <2>1
<1>9. ASSUME NEW d \in Callers, NEW s \in Snapshots, Update(d, s)
      PROVE  d = c /\ \E r \in Security : Write(c, r)
  <2>1. Replaced(Now(d), s) \in Security /\ Write(d, Replaced(Now(d), s))
    BY <1>9, NowIsSecurity, SnapshotsAssumption DEF Update, Editing, Replaced, Security
  <2> QED BY <1>6, <2>1
<1>10. ~UNCHANGED vars
  BY <1>1 DEF vars
<1>11. ASSUME NEW d \in Callers, NEW i \in Ids, Find(d, i)
       PROVE  FALSE
  BY <1>1, <1>11 DEF Find, IndInv, TypeOK
<1>12. \E d \in Callers :
         \/ \E isin \in Maybe(Isins), ratio \in BOOLEAN : ApplyPatch(d, isin, ratio)
         \/ \E s \in Snapshots : Update(d, s)
         \/ Delete(d)
  BY <1>2, <1>3, <1>4, <1>5, <1>10, <1>11 DEF Next
<1> QED BY <1>7, <1>8, <1>9, <1>12

(* An edit that is applied replaces the row it was computed from; one that *)
(* is refused was overrun, by another edit or by a deletion, as it is told *)
(* (write_outcome).                                                        *)
THEOREM EditsAnswerTrue == Spec => WriteOutcomesAreTrue
<1> DEFINE True(c) == /\ Answered(c, "applied") => rows[target[c]] = seen[c]
                      /\ Answered(c, "mismatch") => rows[target[c]].version > seen[c].version
                      /\ Answered(c, "missing") => target[c] \notin Stored
<1>1. ASSUME IndInv, [Next]_vars, NEW c \in Callers,
             NEW b \in {"applied", "mismatch", "missing"}, Answered(c, b)
      PROVE  /\ b = "applied" => rows[target[c]] = seen[c]
             /\ b = "mismatch" => rows[target[c]].version > seen[c].version
             /\ b = "missing" => target[c] \notin Stored
  <2>1. stage[c] = "editing" /\ answer'[c] = b /\ answer[c] = "found" /\ b # "fault"
    BY <1>1 DEF Answered, IndInv, EditsWhatItSaw
  <2>2. \/ \E s \in Security : Write(c, s)
        \/ Delete(c)
    BY <1>1, WhoAnswers
  <2>3. CASE rows[target[c]].version = seen[c].version
    <3>1. rows[target[c]] = seen[c]
      BY <1>1, <2>1, <2>3, SameVersionSameRow
    <3>2. b = "applied"
      BY <1>1, <2>1, <2>2, <2>3 DEF Write, Delete, Return, IndInv, TypeOK
    <3> QED BY <3>1, <3>2
  <2>4. CASE rows[target[c]].version # seen[c].version
    <3>1. ZeroRows(c)
      BY <2>2, <2>4 DEF Write, Delete
    <3>2. b = IF rows[target[c]] = NoRow THEN "missing" ELSE "mismatch"
      BY <1>1, <2>1, <3>1 DEF ZeroRows, Return, IndInv, TypeOK
    <3>3. \/ rows[target[c]] \in {NoRow, seen[c]}
          \/ rows[target[c]].version > seen[c].version
      BY <1>1, <2>1 DEF IndInv, EditsWhatItSaw
    <3> QED BY <2>4, <3>2, <3>3 DEF Stored
  <2> QED BY <2>3, <2>4
<1>2. IndInv /\ [Next]_vars => [\A c \in Callers : True(c)]_vars
  BY <1>1
<1> QED BY <1>2, Invariance, PTL DEF Spec, WriteOutcomesAreTrue

=============================================================================
