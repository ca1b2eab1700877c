-------------------------- MODULE MCIdentifierDesk --------------------------
EXTENDS IdentifierDesk, TLC

(* Code points of the letters that the instances use. *)
A == 65
B == 66
M == 77
R == 82
X == 88
Z == 90

Filled(n, c) == [i \in 1..n |-> c]
Pair(n, c, i, a, b) == [j \in 1..n |-> IF j = i THEN a ELSE IF j = i + 1 THEN b ELSE c]
(* The texts of n characters that are c but for two neighbours.            *)
Around(n, c, places, S) == { Pair(n, c, i, a, b) : i \in places, a \in S, b \in S }

AllTypos == {48, 49, 53, 54, 57, A, B, M, X, 98, 32, 45, 233}
(* Names up to the two limits and past them, with a blank inside.          *)
NameTexts == { Filled(n, 233) : n \in {1, 100, 101, 200, 201} } \union {<<A, 32, B>>}
BasesOf ==
  [n \in Names |-> NameTexts] @@
  [cnpj |-> Around(12, 48, {3, 7, 11}, {48, 49, 50, 54, 57, A, B, Z})
             \union {Filled(12, 49), Pair(12, 48, 10, 50, 56)},
   lei |-> Around(18, 50, {3, 7, 17}, {48, 49, 50, 57, A, B, M, X}),
   isin |-> { <<B, R>> \o SubSeq(s, 3, 11) : s \in Around(11, 51, {3, 7, 10}, {48, 49, 50, 57, A, Z}) },
   cfi |-> { <<69, c, A, a, 70, M>> : c \in {A, B, X}, a \in {A, X} } \union {<<M, A, X, X, X, X>>},
   mic |-> { <<X, A, A, c>> : c \in {A, B, M} },
   country |-> { <<B, c>> : c \in {B, R, X} },
   currency |-> { <<B, R, c>> : c \in {X, 48} },
   ticker |-> { <<A>>, <<A, B, 51>>, <<B, Point, A>>, Filled(12, X), Filled(13, X), <<A, 45>> }]

Market(c) == <<X, A, A, c>>
Rows == { [mic |-> Market(a), operating |-> Market(b)] : a \in {A, B, M}, b \in {A, B, M, Z} }
(* Every registry of up to three rows, and of four, one more than counts,  *)
(* those in which Z is a market.                                           *)
SomeRegistries ==
  UNION { [1..n -> Rows] : n \in 0..3 }
    \union { Append(rows, [mic |-> Market(Z), operating |-> Market(Z)]) : rows \in [1..3 -> Rows] }
SomeCountries == { <<B, R>>, <<B, B>> }
SomeGroups ==
  { [category |-> 69, group |-> A, values |-> << {A, B}, {A}, {70}, {M, X} >>],
    [category |-> 69, group |-> X, values |-> << {A}, {B, X}, {70, M}, {M} >>],
    [category |-> M, group |-> A, values |-> << {X}, {X}, {X}, {X} >>] }
=============================================================================
