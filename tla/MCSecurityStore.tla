-------------------------- MODULE MCSecurityStore ---------------------------
EXTENDS SecurityStore, TLC

(* A bound on the securities stored: a share is the plain one, or has the  *)
(* ISIN; a receipt wraps any security; and two snapshots break the rules:  *)
(* a share with a ratio and a share that wraps.                            *)
FewSnapshots ==
  { s \in Security :
      IF s.kind = "COMMON_SHARE" THEN s.isin # None => s.underlying = None /\ ~s.ratio
                                 ELSE s.isin = None /\ s.ratio }

Symmetry == Permutations(Callers) \union Permutations(Ids)
=============================================================================
