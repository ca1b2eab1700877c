---------------------------- MODULE IssuerReads -----------------------------
(***************************************************************************)
(* The reads of the issuer repository                                      *)
(* (crates/infrastructure/src/sqlite/repositories/issuer.rs) as functions  *)
(* of the tables.  An id is a number: UUIDs are stored as blobs and their  *)
(* bytes order them.  An eager read is two statements, each of them over   *)
(* the tables as they are at that moment.                                  *)
(***************************************************************************)
EXTENDS Naturals, FiniteSets

(* No cursor: every id is greater.                                         *)
Start == 0

(* Seeded bug: the cursor's own row again. *)
PageFrom(stored, after, limit) ==
  LET rest == { i \in stored : i >= after }
  IN  { i \in rest : Cardinality({ j \in rest : j <= i }) <= limit }

(* WHERE id > after ORDER BY id LIMIT limit.                               *)
Page(stored, after, limit) ==
  LET rest == { i \in stored : i > after }
  IN  { i \in rest : Cardinality({ j \in rest : j <= i }) <= limit }

(* find_by_id of key, list_paged after key, list_all.                      *)
Reads(Keys, Limits) ==
  [shape : {"one"}, key : Keys, limit : {1}]
    \union [shape : {"page"}, key : Keys \union {Start}, limit : Limits]
    \union [shape : {"all"}, key : {Start}, limit : {0}]

(* The issuers of the first statement.                                     *)
RowsOf(stored, r) ==
  IF r.shape = "one" THEN stored \intersect {r.key}
  ELSE IF r.shape = "page" THEN Page(stored, r.key, r.limit)
  ELSE stored

(* Seeded bug: the second statement of a page starts at the first row. *)
SecuritiesFromStart(stored, owner, r) ==
  { s \in DOMAIN owner : owner[s] \in RowsOf(stored, [r EXCEPT !.key = IF r.shape = "one" THEN r.key ELSE Start]) }

(* The securities of the second statement: list_by_issuer,                 *)
(* securities_for_issuer_page, securities_for_all_issuers; a security that *)
(* is not stored has no owner.                                             *)
SecuritiesOf(stored, owner, r) ==
  { s \in DOMAIN owner : owner[s] \in RowsOf(stored, r) }

(* Group by issuer, drop what belongs to no row, nothing for the rest.     *)
HydrateRows(rows, securities, owner) ==
  [i \in rows |-> { s \in securities : owner[s] = i }]
=============================================================================
