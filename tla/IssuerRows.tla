----------------------------- MODULE IssuerRows -----------------------------
(***************************************************************************)
(* The issuer table and the requests on it, shared by IssuerRegister (what *)
(* the service promises) and IssuerStore (what its code does).  A row      *)
(* keeps the columns the rules are about: its version, its two unique      *)
(* identifiers and its country; a change of name or status is a patch that *)
(* sets none of them.                                                      *)
(***************************************************************************)
EXTENDS Naturals

CONSTANTS
  Clients,    (* handlers of RPCs; a retry is the call of another handler   *)
  Ids,        (* issuer ids (UUIDv7), each generated at most once           *)
  Cnpjs, Leis, Countries,
  None,       (* an absent Option, an SQL NULL, nobody                      *)
  Asked,      (* the requests that clients make                             *)
  MaxVersion  (* bound: no request expects to move a row past this version  *)

ASSUME NoneAssumption == None \notin (Clients \union Ids \union Cnpjs \union Leis \union Countries)
ASSUME CountriesAssumption == "BR" \in Countries
ASSUME MaxVersionAssumption == MaxVersion \in Nat \ {0}

Maybe(S) == S \union {None}

(* Version 0 stands for "no such row". *)
Row == [version : 0..MaxVersion, cnpj : Maybe(Cnpjs), lei : Maybe(Leis),
        country : Maybe(Countries)]
Absent == [version |-> 0, cnpj |-> None, lei |-> None, country |-> None]
NoRows == [i \in Ids |-> Absent]

(* exists_by_cnpj and exists_by_lei, asked only for a Some. *)
CnpjTaken(table, k) == k # None /\ \E i \in Ids : table[i].cnpj = k
LeiTaken(table, k) == k # None /\ \E i \in Ids : table[i].lei = k

(* The UNIQUE columns of the table, which do not compare NULLs. *)
KeysUnique(table) ==
  \A i, j \in Ids : /\ table[i].cnpj = table[j].cnpj /\ i # j => table[i].cnpj = None
                    /\ table[i].lei = table[j].lei /\ i # j => table[i].lei = None

(* CHECK (cnpj IS NULL OR country_code = 'BR'): a CHECK that evaluates to  *)
(* NULL is satisfied.                                                      *)
CheckHolds(row) == row.cnpj = None \/ row.country \in {"BR", None}

(* One shape for all requests; the fields an operation does not have stay  *)
(* as they are in NoRequest.                                               *)
NoRequest == [op |-> "none", id |-> None, expected |-> 0, cnpj |-> None,
              lei |-> None, country |-> None, dry |-> FALSE]
Registrations == [op : {"register"}, id : Ids, expected : {0}, cnpj : Maybe(Cnpjs),
                  lei : Maybe(Leis), country : Maybe(Countries), dry : BOOLEAN]
Patches == [op : {"patch"}, id : Ids, expected : 1..(MaxVersion - 1), cnpj : Maybe(Cnpjs),
            lei : Maybe(Leis), country : Maybe(Countries), dry : BOOLEAN]
Deletes == [op : {"delete"}, id : Ids, expected : 1..MaxVersion, cnpj : {None},
            lei : {None}, country : {None}, dry : BOOLEAN]
Gets == [op : {"get"}, id : Ids, expected : {0}, cnpj : {None}, lei : {None},
         country : {None}, dry : {FALSE}]
Requests == Registrations \union Patches \union Deletes \union Gets

ASSUME AskedAssumption == Asked \subseteq Requests

(* IssuerBuilder::build: a CNPJ implies Brazil, written or left out. *)
Buildable(r) == r.op = "register" /\ r.cnpj # None => r.country \in {"BR", None}
Built(r) ==
  [version |-> 1, cnpj |-> r.cnpj, lei |-> r.lei,
   country |-> IF r.cnpj # None /\ r.country = None THEN "BR" ELSE r.country]

(* UPDATE issuer SET c = COALESCE(?, c), ..., version = version + 1. *)
Coalesce(new, old) == IF new = None THEN old ELSE new
Patched(row, r) ==
  [version |-> row.version + 1, cnpj |-> Coalesce(r.cnpj, row.cnpj),
   lei |-> Coalesce(r.lei, row.lei), country |-> Coalesce(r.country, row.country)]

(* An answer carries the row a read found, or the version a refused write  *)
(* found in the version column.                                            *)
AnswerKinds == { "none", "invalid", "cnpj_exists", "lei_exists", "missing", "mismatch",
                 "registered", "applied", "found", "absent", "check", "unique", "fault" }
Answer(k) == [kind |-> k, row |-> Absent]
NoAnswer == Answer("none")
Found(row) == [kind |-> "found", row |-> row]
Mismatch(row) == [kind |-> "mismatch", row |-> [Absent EXCEPT !.version = row.version]]

=============================================================================
