--------------------------- MODULE MCListingDesk ----------------------------
EXTENDS ListingDesk, TLC

(* A bound on the listings built: a primary one on two venues, on the      *)
(* first venue one more under another ticker, one of another security under *)
(* the first ticker, and one that is not active.                           *)
CONSTANTS s1, s2, v1, v2, t1, t2
FewDrafts ==
  { l \in Listing :
      \/ l.security = s1 /\ l.venue \in {v1, v2} /\ l.symbol = t1 /\ l.primary /\ l.active
      \/ l.venue = v1 /\ ~l.primary
         /\ \/ l.security = s1 /\ l.symbol = t2 /\ l.active
            \/ l.security = s2 /\ l.symbol = t1 }

Symmetry == Permutations(Callers) \union Permutations(Listings)
=============================================================================
