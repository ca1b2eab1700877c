--------------------------- MODULE MCIssuerStore ----------------------------
EXTENDS IssuerStore, TLC

(* A bound on the requests explored: a LEI is never set together with      *)
(* another column, a patch sets one column at most, and a dry run sets the *)
(* CNPJ or nothing.                                                        *)
SparseRequests ==
  { r \in Requests :
      /\ r.lei # None => r.cnpj = None /\ r.country = None
      /\ r.op = "patch" /\ r.cnpj # None => r.country = None
      /\ r.dry => r.lei = None /\ r.country = None }

(* Clients are interchangeable, and so are ids. *)
Symmetry == Permutations(Clients) \union Permutations(Ids)
=============================================================================
