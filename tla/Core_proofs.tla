---------------------------- MODULE Core_proofs ----------------------------
(***************************************************************************)
(* Theorems about the values of crates/core: the identifiers and names of  *)
(* IdentifierDesk, for every text, registry and typo, and the tasks of     *)
(* BackgroundTask, for any number of values and any width of the counter.  *)
(*                                                                         *)
(* Most of it is about recursion: the code folds over the characters of a  *)
(* text, a reference definition folds over its digits, and a walk follows  *)
(* the operating markets of a registry.  A recursive function is shown to  *)
(* exist (RecursionExists), to iterate its step (Iterated), and to have a  *)
(* property everywhere by the least place that would lack it (Induction).  *)
(***************************************************************************)
EXTENDS IdentifierDesk, BackgroundTask, FiniteSetTheorems, SequenceTheorems, TLAPS

-----------------------------------------------------------------------------
(* Induction by the least counterexample.                                  *)

LEMMA LeastNatural ==
  ASSUME NEW T \in SUBSET Nat, T # {}
  PROVE  \E m \in T : \A n \in T : m <= n
<1>1. PICK m \in T : \A n \in T : <<n, m>> \notin OpToRel(<, Nat)
  BY NatLessThanWellFounded, WFMin
<1>2. \A n \in T : ~(n < m)
  BY <1>1 DEF OpToRel
<1> QED BY <1>2

(* A set of numbers with 0 and with the successor of each is all of them.  *)
LEMMA Induction ==
  ASSUME NEW N \in Nat, NEW T, 0 \in T, \A n \in 1..N : n - 1 \in T => n \in T
  PROVE  0..N \subseteq T
<1> SUFFICES ASSUME ~(0..N \subseteq T) PROVE FALSE
  OBVIOUS
<1>1. PICK m \in (0..N) \ T : \A n \in (0..N) \ T : m <= n
  <2>1. (0..N) \ T \in SUBSET Nat /\ (0..N) \ T # {}
    OBVIOUS
  <2> QED BY <2>1, LeastNatural
<1>2. m # 0 /\ m \in 1..N /\ m - 1 \in 0..N
  BY <1>1
<1>3. m - 1 \in T
  BY <1>1, <1>2
<1> QED BY <1>1, <1>2, <1>3

LEMMA Earlier ==
  ASSUME NEW N \in Nat, NEW V, NEW f \in [0..N -> V]
  PROVE  \A n \in 1..N : f[n - 1] \in V
<1>1. \A n \in 1..N : n - 1 \in 0..N
  OBVIOUS
<1> QED BY <1>1

(* A function defined by recursion on 0..N exists.                         *)
Iterates(f, N, V, base, step) ==
  /\ f \in [0..N -> V] /\ f[0] = base
  /\ \A n \in 1..N : f[n] = step[n][f[n - 1]]

LEMMA RecursionExists ==
  ASSUME NEW N \in Nat, NEW V, NEW base \in V, NEW step \in [1..N -> [V -> V]]
  PROVE  \E f : Iterates(f, N, V, base, step)
<1> DEFINE Fits(f, m) == Iterates(f, m, V, base, step)
           T == { m \in 0..N : \E f : Fits(f, m) }
<1>1. 0 \in T
  <2> DEFINE g == [n \in 0..0 |-> base]
  <2>1. g \in [0..0 -> V] /\ g[0] = base /\ 1..0 = {}
    OBVIOUS
  <2> HIDE DEF g
  <2>2. Fits(g, 0)
    BY <2>1 DEF Iterates
  <2> QED BY <2>2
<1>2. ASSUME NEW m \in 1..N, m - 1 \in T PROVE m \in T
  <2>1. PICK f : Fits(f, m - 1)
    BY <1>2
  <2> DEFINE g == [n \in 0..m |-> IF n = m THEN step[m][f[m - 1]] ELSE f[n]]
  <2>2. /\ f \in [0..(m - 1) -> V] /\ f[0] = base /\ f[m - 1] \in V
        /\ \A n \in 1..(m - 1) : f[n] = step[n][f[n - 1]]
    BY <2>1 DEF Iterates
  <2>3. step[m][f[m - 1]] \in V
    BY <2>2
  <2>4. g \in [0..m -> V]
    BY <2>2, <2>3
  <2>5. g[0] = base
    BY <2>2
  <2>6. ASSUME NEW n \in 1..m PROVE g[n] = step[n][g[n - 1]]
    <3>1. CASE n = m
      BY <3>1
    <3>2. CASE n # m
      <4>1. n \in 1..(m - 1) /\ n - 1 \in 0..m /\ n - 1 # m
        BY <3>2
      <4> QED BY <2>2, <3>2, <4>1
    <3> QED BY <3>1, <3>2
  <2> HIDE DEF g
  <2>7. Fits(g, m)
    BY <2>4, <2>5, <2>6 DEF Iterates
  <2> QED BY <2>7
<1> HIDE DEF T
<1>3. N \in T
  <2>1. 0..N \subseteq T
    BY <1>1, <1>2, Induction
  <2> QED BY <2>1
<1> USE DEF T
<1> QED BY <1>3


-----------------------------------------------------------------------------
(* The registry.                                                           *)

Row == [mic : MicText, operating : MicText]
Places == 0..Len(registry)
Hop(x) == IF x \in Mics THEN Operating(x) ELSE <<>>
Itself(x) == x \in Mics /\ Operating(x) = x

(* The walk of Ends.                                                       *)
Walk(mic) ==
  CHOOSE current : current = [hops \in 0..Len(registry) |->
    IF hops = 0 THEN mic
    ELSE IF current[hops - 1] \in Mics THEN Operating(current[hops - 1]) ELSE <<>>]

LEMMA RegistryRows ==
  ASSUME registry \in Seq(Row)
  PROVE  /\ Mics \subseteq MicText /\ <<>> \notin Mics
         /\ \A mic \in Mics : Operating(mic) \in MicText
         /\ IsFiniteSet(Mics) /\ Cardinality(Mics) <= Len(registry) /\ Cardinality(Mics) \in Nat
         /\ Cardinality(Mics) = Len(registry) <=>
              \A i, j \in DOMAIN registry : registry[i].mic = registry[j].mic => i = j
<1>1. DOMAIN registry = 1..Len(registry) /\ Len(registry) \in Nat
  OBVIOUS
<1>2. \A i \in 1..Len(registry) : registry[i] \in Row
  OBVIOUS
<1>3. \A r \in Row : r.mic \in MicText /\ r.operating \in MicText
  BY DEF Row
<1>4. Mics \subseteq MicText
  BY <1>1, <1>2, <1>3 DEF Mics
<1>5. <<>> \notin MicText
  <2> SUFFICES ASSUME <<>> \in MicText PROVE FALSE
    OBVIOUS
  <2>1. DOMAIN <<>> = 1..4
    BY DEF MicText
  <2> QED BY <2>1
<1>6. ASSUME NEW mic \in Mics PROVE Operating(mic) \in MicText
  <2>1. \E r \in Range(registry) : r.mic = mic
    BY <1>1 DEF Mics, Range
  <2>2. \A r \in Range(registry) : r \in Row
    BY <1>1, <1>2 DEF Range
  <2> QED BY <1>3, <2>1, <2>2 DEF Operating
<1> DEFINE f == [i \in 1..Len(registry) |-> registry[i].mic]
<1>7. f \in Surjection(1..Len(registry), Mics)
  BY <1>1 DEF Mics, Surjection
<1>8. IsFiniteSet(1..Len(registry)) /\ Cardinality(1..Len(registry)) = Len(registry)
  BY <1>1, FS_Interval
<1>9. /\ IsFiniteSet(Mics) /\ Cardinality(Mics) <= Len(registry)
      /\ Cardinality(Mics) = Len(registry) <=> f \in Injection(1..Len(registry), Mics)
  BY <1>7, <1>8, FS_Surjection
<1>10. f \in Injection(1..Len(registry), Mics) <=>
         \A i, j \in DOMAIN registry : registry[i].mic = registry[j].mic => i = j
  BY <1>1, <1>7 DEF Injection, IsInjective, Surjection
<1> QED BY <1>4, <1>5, <1>6, <1>9, <1>10, FS_CardinalityType

LEMMA WalkHops ==
  ASSUME registry \in Seq(Row), NEW mic \in Mics
  PROVE  /\ Walk(mic) \in [Places -> MicText \union {<<>>}] /\ Walk(mic)[0] = mic
         /\ \A h \in 1..Len(registry) : Walk(mic)[h] = Hop(Walk(mic)[h - 1])
         /\ Ends(mic) <=> \E h \in Places : Itself(Walk(mic)[h])
<1> DEFINE M == MicText \union {<<>>}
           rows == Len(registry)
           hop == [i \in 1..rows |-> [x \in M |-> Hop(x)]]
<1>1. rows \in Nat
  OBVIOUS
<1>2. mic \in M /\ \A x \in M : Hop(x) \in M
  BY RegistryRows DEF Hop
<1>3. hop \in [1..rows -> [M -> M]]
  BY <1>2
<1> HIDE DEF hop, M, rows
<1>4. PICK f : Iterates(f, rows, M, mic, hop)
  BY <1>1, <1>2, <1>3, RecursionExists
<1>5. /\ f \in [0..rows -> M] /\ f[0] = mic
      /\ \A n \in 1..rows : n - 1 \in 0..rows /\ f[n - 1] \in M /\ f[n] = hop[n][f[n - 1]]
  BY <1>1, <1>4 DEF Iterates
<1>6. f = [n \in 0..rows |-> IF n = 0 THEN mic ELSE Hop(f[n - 1])]
  <2>1. \A n \in 0..rows : n # 0 => n \in 1..rows
    BY <1>1
  <2>2. \A n \in 1..rows : hop[n][f[n - 1]] = Hop(f[n - 1])
    BY <1>5 DEF hop
  <2>3. \A n \in 0..rows : f[n] = IF n = 0 THEN mic ELSE Hop(f[n - 1])
    BY <1>5, <2>1, <2>2
  <2> QED BY <1>5, <2>3
<1>7. Walk(mic) = [n \in 0..rows |-> IF n = 0 THEN mic ELSE Hop(Walk(mic)[n - 1])]
  BY <1>6 DEF Walk, Hop, rows
<1>8. Walk(mic)[0] = mic /\ \A n \in 1..rows : Walk(mic)[n] = Hop(Walk(mic)[n - 1])
  BY <1>1, <1>7
<1> DEFINE T == { n \in 0..rows : Walk(mic)[n] \in M }
<1>9. 0..rows \subseteq T
  <2>1. 0 \in T
    BY <1>1, <1>2, <1>8
  <2>2. \A n \in 1..rows : n - 1 \in T => n \in T
    BY <1>1, <1>2, <1>8
  <2> HIDE DEF T
  <2> QED BY <1>1, <2>1, <2>2, Induction
<1>10. Walk(mic) \in [0..rows -> M]
  BY <1>7, <1>9
<1>11. Ends(mic) <=> \E h \in 0..rows : Itself(Walk(mic)[h])
  BY DEF Ends, Walk, Itself, rows
<1> QED BY <1>8, <1>10, <1>11 DEF rows, M, Places

(* No set of markets leads to nothing but itself.                          *)
NoTrap ==
  \A S \in (SUBSET Mics) \ {{}} :
    \E mic \in S : Operating(mic) \in Mics /\ (Operating(mic) \in S => Operating(mic) \in
      { m \in S : Operating(m) = m })

LEMMA EndsLeaveEverySet ==
  ASSUME registry \in Seq(Row), \A mic \in Mics : Ends(mic)
  PROVE  NoTrap
<1> SUFFICES ASSUME NEW S \in (SUBSET Mics) \ {{}},
                    \A m \in S : Operating(m) \in Mics =>
                      Operating(m) \in S /\ Operating(Operating(m)) # Operating(m)
             PROVE  FALSE
  BY DEF NoTrap
<1>1. PICK mic \in S : TRUE
  OBVIOUS
<1> DEFINE W == Walk(mic)
           T == { h \in Places : W[h] \in Mics => W[h] \in S }
<1>2. /\ W[0] = mic /\ Len(registry) \in Nat
      /\ \A h \in 1..Len(registry) : W[h] = Hop(W[h - 1])
      /\ \E h \in Places : Itself(W[h])
  BY <1>1, WalkHops
<1>3. <<>> \notin Mics
  BY RegistryRows
<1> HIDE DEF W
<1>4. \A h \in 1..Len(registry) : h - 1 \in T => h \in T
  BY <1>2, <1>3 DEF Hop, Places
<1>5. 0 \in T
  BY <1>1, <1>2 DEF Places
<1> HIDE DEF T
<1>6. Places \subseteq T
  BY <1>2, <1>4, <1>5, Induction DEF Places
<1>7. PICK h \in Places : W[h] \in Mics /\ Operating(W[h]) = W[h]
  BY <1>2 DEF Itself
<1>8. W[h] \in S
  BY <1>6, <1>7 DEF T
<1> QED BY <1>7, <1>8

LEMMA NoTrapHolds ==
  ASSUME registry \in Seq(Row), NoTrap, NEW mic \in Mics
  PROVE  Ends(mic)
<1> DEFINE W == Walk(mic)
           rows == Len(registry)
<1>1. /\ W \in [Places -> MicText \union {<<>>}] /\ W[0] = mic /\ rows \in Nat
      /\ \A h \in 1..rows : W[h] = Hop(W[h - 1])
      /\ Ends(mic) <=> \E h \in Places : Itself(W[h])
  BY WalkHops
<1> HIDE DEF W
<1> SUFFICES ASSUME \A h \in Places : ~Itself(W[h]) PROVE FALSE
  BY <1>1
<1>2. CASE \E h \in Places : W[h] \notin Mics
  <2> DEFINE T == { h \in Places : W[h] \notin Mics }
  <2>1. T \in SUBSET Nat /\ T # {}
    BY <1>1, <1>2 DEF Places
  <2>2. PICK k \in T : \A n \in T : k <= n
    BY <2>1, LeastNatural
  <2>3. k \in 1..rows /\ k - 1 \in Places /\ k - 1 \in Nat /\ ~(k <= k - 1)
    BY <1>1, <2>2 DEF Places
  <2>4. W[k - 1] \in Mics
    BY <2>2, <2>3
  <2>5. W[k] = Operating(W[k - 1]) /\ W[k] \notin Mics
    BY <1>1, <2>2, <2>3, <2>4 DEF Hop
  <2>6. {W[k - 1]} \in (SUBSET Mics) \ {{}}
    BY <2>4
  <2>7. Operating(W[k - 1]) \in Mics
    BY <2>6 DEF NoTrap
  <2> QED BY <2>5, <2>7
<1>3. CASE \A h \in Places : W[h] \in Mics
  <2>1. \A h \in 1..rows : W[h] = Operating(W[h - 1])
    <3>1. \A h \in 1..rows : h - 1 \in Places
      BY <1>1 DEF Places
    <3> QED BY <1>1, <1>3, <3>1 DEF Hop
  <2>2. PICK i, j \in Places : i < j /\ W[i] = W[j]
    <3>1. W \in [Places -> Mics]
      BY <1>1, <1>3
    <3>2. IsFiniteSet(Places) /\ Cardinality(Places) = rows + 1
      BY <1>1, FS_Interval DEF Places
    <3>3. IsFiniteSet(Mics) /\ Cardinality(Mics) <= rows /\ Cardinality(Mics) \in Nat
      BY RegistryRows
    <3>4. Cardinality(Mics) < Cardinality(Places)
      BY <1>1, <3>2, <3>3
    <3>5. PICK x, y \in Places : x # y /\ W[x] = W[y]
      BY ONLY <3>1, <3>2, <3>3, <3>4, FS_PigeonHole
    <3>6. x < y \/ y < x
      BY <1>1, <3>5 DEF Places
    <3> QED BY <3>5, <3>6
  <2> DEFINE S == { W[h] : h \in 0..(j - 1) }
  <2>3. \A h \in 0..(j - 1) : h \in Places /\ h + 1 \in 1..rows /\ h + 1 - 1 = h
    BY <1>1, <2>2 DEF Places
  <2>4. S \in (SUBSET Mics) \ {{}}
    <3>1. 0 \in 0..(j - 1)
      BY <1>1, <2>2 DEF Places
    <3> QED BY <1>3, <2>3, <3>1
  <2>5. \A h \in 0..(j - 1) : Operating(W[h]) \in S
    <3> SUFFICES ASSUME NEW h \in 0..(j - 1) PROVE Operating(W[h]) \in S
      OBVIOUS
    <3>1. Operating(W[h]) = W[h + 1]
      BY <2>1, <2>3
    <3>2. CASE h + 1 = j
      <4>1. i \in 0..(j - 1)
        BY <1>1, <2>2 DEF Places
      <4> QED BY <2>2, <3>1, <3>2, <4>1
    <3>3. CASE h + 1 # j
      <4>1. h + 1 \in 0..(j - 1)
        BY <1>1, <2>2, <3>3 DEF Places
      <4> QED BY <3>1, <4>1
    <3> QED BY <3>2, <3>3
  <2>6. \A m \in S : Operating(m) \in S
    BY <2>5
  <2>7. \A m \in S : Operating(m) # m
    BY <1>3, <2>3 DEF Itself
  <2> HIDE DEF S
  <2>8. PICK m \in S : Operating(m) \in S => Operating(m) \in { x \in S : Operating(x) = x }
    BY <2>4 DEF NoTrap
  <2> QED BY <2>6, <2>7, <2>8
<1> QED BY <1>2, <1>3

(* What Compile asks of a registry is what Resolves says of it.            *)
LEMMA CompileDecides ==
  ASSUME registry \in Seq(Row)
  PROVE  /\ registry # <<>> /\ Cardinality(Mics) = Len(registry) /\ (\A mic \in Mics : Ends(mic))
              <=> Resolves
<1>1. (\A mic \in Mics : Ends(mic)) <=> NoTrap
  BY EndsLeaveEverySet, NoTrapHolds
<1>2. Cardinality(Mics) = Len(registry) <=>
        \A i, j \in DOMAIN registry : registry[i].mic = registry[j].mic => i = j
  BY RegistryRows
<1> QED BY <1>1, <1>2 DEF Resolves, NoTrap

-----------------------------------------------------------------------------
(* The registry of a run never changes, and a run that has gone past       *)
(* Compile has one that compiled.                                          *)
Stages == {"compile", "failed", "issue", "issued", "presented", "slipped", "copied", "mistaken"}
RegistryInv ==
  /\ stage \in Stages
  /\ stage \in {"compile", "failed"} => scheme = "mic"
  /\ registry \in Seq(Row)
  /\ RegistryResolves

LEMMA RegistryInit == Init => RegistryInv
<1> SUFFICES ASSUME Init PROVE RegistryInv
  OBVIOUS
<1>1. registry \in Seq(Row)
  <2>1. <<>> \in Seq(Row)
    OBVIOUS
  <2>2. Registries \subseteq Seq(Row)
    BY RegistriesAssumption DEF Row
  <2>3. registry \in Registries \/ registry = <<>>
    BY DEF Init
  <2> QED BY <2>1, <2>2, <2>3
<1>2. scheme = "mic" => stage = "compile"
  BY DEF Init
<1>3. stage \in Stages /\ (stage \in {"compile", "failed"} => scheme = "mic") /\ stage # "failed"
  BY DEF Init, Stages
<1> QED BY <1>1, <1>2, <1>3 DEF RegistryInv, RegistryResolves

LEMMA RegistryStep == RegistryInv /\ [Next]_vars => RegistryInv'
<1> SUFFICES ASSUME RegistryInv, [Next]_vars PROVE RegistryInv'
  OBVIOUS
<1> DEFINE Fits == Len(registry) <= MaxMarkets
<1>1. Fits <=> ~(Len(registry) > MaxMarkets)
  <2>1. Len(registry) \in Nat
    BY DEF RegistryInv
  <2> QED BY <2>1, MaxMarketsAssumption
<1>2. ASSUME UNCHANGED registry
      PROVE  (Resolves' <=> Resolves) /\ (Len(registry) > MaxMarkets)' = (Len(registry) > MaxMarkets)
             /\ (Fits' <=> Fits)
  BY <1>2 DEF Resolves, Mics, Operating
<1> HIDE DEF Fits
<1>3. CASE Compile
  <2>1. stage = "compile" /\ scheme = "mic" /\ UNCHANGED <<scheme, registry>>
    BY <1>3 DEF Compile, RegistryInv
  <2>2. stage' = IF Resolves /\ Fits THEN "issue" ELSE "failed"
    BY <1>3, CompileDecides DEF Compile, RegistryInv, Fits
  <2>3. (stage' = "failed" => ~Resolves' \/ (Len(registry) > MaxMarkets)')
        /\ (stage' # "failed" => Resolves' /\ Fits')
    BY <1>1, <1>2, <2>1, <2>2
  <2>4. stage' \in {"issue", "failed"}
    BY <2>2
  <2> QED BY <2>1, <2>3, <2>4 DEF RegistryInv, RegistryResolves, Stages, Fits
<1>4. CASE Issue \/ Present \/ Slip \/ Read
  <2>1. UNCHANGED <<scheme, registry>> /\ stage \notin {"compile", "failed"}
        /\ stage' \in Stages \ {"compile", "failed"}
    BY <1>4 DEF Issue, Present, Slip, Read, Stages
  <2> QED BY <1>2, <2>1 DEF RegistryInv, RegistryResolves, Fits
<1>5. CASE UNCHANGED vars
  <2>1. UNCHANGED <<scheme, registry, stage>>
    BY <1>5 DEF vars
  <2> QED BY <1>2, <2>1 DEF RegistryInv, RegistryResolves, Fits
<1> QED BY <1>3, <1>4, <1>5 DEF Next

(* A registry file compiles exactly if its markets can be counted, none is *)
(* in it twice and every chain of operating markets in it ends with one    *)
(* that operates itself, so that operating_mic never panics (mic.rs,       *)
(* macros/src/lib.rs).                                                     *)
THEOREM Registry == Spec => []RegistryResolves
<1>1. Spec => []RegistryInv
  BY RegistryInit, RegistryStep, PTL DEF Spec
<1>2. RegistryInv => RegistryResolves
  BY DEF RegistryInv
<1> QED BY <1>1, <1>2, PTL

-----------------------------------------------------------------------------
(* The check digits of a CNPJ.                                             *)

Alnum == Digit \union Upper

LEMMA AlnumValue ==
  ASSUME NEW c \in Alnum
  PROVE  c \in 48..90 /\ CharValue(c) \in Nat
<1>1. c \in 48..90
  BY DEF Alnum, Digit, Upper
<1> QED BY <1>1 DEF CharValue

(* The partial sums of Weighted.                                           *)
Sums(sum, s, w) ==
  /\ sum \in [0..Len(w) -> Nat] /\ sum[0] = 0
  /\ \A n \in 1..Len(w) : sum[n] = sum[n - 1] + CharValue(s[n]) * w[n]

LEMMA WeightedSums ==
  ASSUME NEW w \in Seq(Nat), NEW s, \A n \in 1..Len(w) : s[n] \in Alnum
  PROVE  \E sum : Sums(sum, s, w) /\ Weighted(s, w) = sum[Len(w)]
<1> DEFINE top == Len(w)
           add == [i \in 1..top |-> [x \in Nat |-> x + CharValue(s[i]) * w[i]]]
<1>1. top \in Nat
  OBVIOUS
<1>2. \A i \in 1..top : CharValue(s[i]) * w[i] \in Nat
  <2> TAKE i \in 1..top
  <2>a. s[i] \in Alnum
    OBVIOUS
  <2>1. CharValue(s[i]) \in Nat
    BY <2>a, AlnumValue
  <2>2. w[i] \in Nat
    OBVIOUS
  <2> QED BY <2>1, <2>2
<1>3. add \in [1..top -> [Nat -> Nat]]
  BY <1>2
<1> HIDE DEF add
<1>4. PICK f : Iterates(f, top, Nat, 0, add)
  BY <1>1, <1>3, RecursionExists
<1>5. /\ f \in [0..top -> Nat] /\ f[0] = 0
      /\ \A n \in 1..top : f[n] = f[n - 1] + CharValue(s[n]) * w[n]
  <2>1. /\ f \in [0..top -> Nat] /\ f[0] = 0
        /\ \A n \in 1..top : f[n] = add[n][f[n - 1]]
    BY <1>4 DEF Iterates
  <2>a. f \in [0..top -> Nat]
    BY <2>1
  <2>2. \A n \in 1..top : f[n - 1] \in Nat
    BY ONLY <1>1, <2>a, Earlier
  <2>3. \A n \in 1..top : \A x \in Nat : add[n][x] = x + CharValue(s[n]) * w[n]
    BY DEF add
  <2>4. ASSUME NEW n \in 1..top PROVE f[n] = f[n - 1] + CharValue(s[n]) * w[n]
    <3>1. f[n] = add[n][f[n - 1]] /\ f[n - 1] \in Nat
      BY <2>1, <2>2
    <3> HIDE DEF top
    <3> QED BY <2>3, <3>1, Zenon
  <2> QED BY <2>1, <2>4
<1> DEFINE sum == CHOOSE sum : sum = [n \in 0..top |->
                    IF n = 0 THEN 0 ELSE sum[n - 1] + CharValue(s[n]) * w[n]]
<1>6. f = [n \in 0..top |-> IF n = 0 THEN 0 ELSE f[n - 1] + CharValue(s[n]) * w[n]]
  <2>1. \A n \in 0..top : n # 0 => n \in 1..top
    BY <1>1
  <2> QED BY <1>5, <2>1
<1>7. sum = [n \in 0..top |-> IF n = 0 THEN 0 ELSE sum[n - 1] + CharValue(s[n]) * w[n]]
  BY <1>6
<1>8. Weighted(s, w) = sum[top]
  BY DEF Weighted
<1> HIDE DEF sum
<1>9. sum[0] = 0 /\ \A n \in 1..top : sum[n] = sum[n - 1] + CharValue(s[n]) * w[n]
  BY <1>1, <1>7
<1> DEFINE T == { n \in 0..top : sum[n] \in Nat }
<1>10. 0 \in T /\ \A n \in 1..top : n - 1 \in T => n \in T
  BY <1>1, <1>2, <1>9
<1> HIDE DEF T
<1>11. 0..top \subseteq T
  BY <1>1, <1>10, Induction
<1>12. sum \in [0..top -> Nat]
  BY <1>7, <1>11 DEF T
<1>13. Sums(sum, s, w)
  BY <1>9, <1>12 DEF Sums
<1> QED BY <1>8, <1>13

(* Two recursions agree if they start the same and step the same.          *)
LEMMA RecursionAgrees ==
  ASSUME NEW N \in Nat, NEW f, NEW g, f[0] = g[0],
         \A n \in 1..N : f[n - 1] = g[n - 1] => f[n] = g[n]
  PROVE  f[N] = g[N]
<1> DEFINE T == { n \in 0..N : f[n] = g[n] }
<1>1. 0 \in T /\ \A n \in 1..N : n - 1 \in T => n \in T
  OBVIOUS
<1> HIDE DEF T
<1>2. 0..N \subseteq T
  BY <1>1, Induction
<1> QED BY <1>2 DEF T

LEMMA WeightedAgrees ==
  ASSUME NEW w \in Seq(Nat), NEW s, NEW t,
         \A n \in 1..Len(w) : s[n] \in Alnum /\ t[n] = s[n]
  PROVE  Weighted(s, w) = Weighted(t, w)
<1>1. PICK f : Sums(f, s, w) /\ Weighted(s, w) = f[Len(w)]
  BY WeightedSums
<1>2. PICK g : Sums(g, t, w) /\ Weighted(t, w) = g[Len(w)]
  <2>1. \A n \in 1..Len(w) : t[n] \in Alnum
    OBVIOUS
  <2> QED BY <2>1, WeightedSums
<1>3. f[0] = g[0] /\ \A n \in 1..Len(w) : f[n - 1] = g[n - 1] => f[n] = g[n]
  BY <1>1, <1>2 DEF Sums
<1>4. Len(w) \in Nat
  OBVIOUS
<1>5. f[Len(w)] = g[Len(w)]
  BY <1>3, <1>4, RecursionAgrees
<1> QED BY <1>1, <1>2, <1>5

LEMMA WeightedNatural ==
  ASSUME NEW w \in Seq(Nat), NEW s, \A n \in 1..Len(w) : s[n] \in Alnum
  PROVE  Weighted(s, w) \in Nat
<1>1. PICK f : Sums(f, s, w) /\ Weighted(s, w) = f[Len(w)]
  BY WeightedSums
<1>2. Len(w) \in 0..Len(w)
  OBVIOUS
<1> QED BY <1>1, <1>2 DEF Sums

LEMMA Mod11 ==
  ASSUME NEW x \in Nat, NEW y \in Nat
  PROVE  x % 11 \in 0..10 /\ (x + y) % 11 = ((x % 11) + y) % 11
OBVIOUS

LEMMA DigitCloses ==
  ASSUME NEW sum \in Nat, NEW c \in Digit
  PROVE  c = ToDigit(DigitOf(sum % 11)) <=>
           ((sum + CharValue(c)) % 11 = 0 \/ (CharValue(c) = 0 /\ sum % 11 = 1))
<1> DEFINE r == sum % 11
           v == CharValue(c)
<1>1. v \in 0..9 /\ c = 48 + v
  BY DEF CharValue, Digit
<1>2. r \in 0..10 /\ (sum + v) % 11 = (r + v) % 11
  BY <1>1, Mod11
<1> HIDE DEF r, v
<1>3. (r + v) % 11 = 0 <=> r + v = 0 \/ r + v = 11
  BY <1>1, <1>2
<1>4. c = ToDigit(DigitOf(r)) <=> v = IF r < 2 THEN 0 ELSE 11 - r
  BY <1>1, <1>2 DEF ToDigit, DigitOf
<1>5. (v = IF r < 2 THEN 0 ELSE 11 - r) <=> (r + v = 0 \/ r + v = 11 \/ (v = 0 /\ r = 1))
  BY <1>1, <1>2
<1> QED BY <1>2, <1>3, <1>4, <1>5 DEF r, v

LEMMA DigitOfDigit ==
  ASSUME NEW sum \in Nat
  PROVE  ToDigit(DigitOf(sum % 11)) \in Digit
<1>1. sum % 11 \in 0..10
  OBVIOUS
<1> QED BY <1>1 DEF ToDigit, DigitOf, Digit

LEMMA Weights ==
  /\ WeightsDv1 \in Seq(Nat) /\ Len(WeightsDv1) = 12
  /\ WeightsDv2 \in Seq(Nat) /\ Len(WeightsDv2) = 13
BY DEF WeightsDv1, WeightsDv2

(* The base of a text, and what follows it.                                *)
LEMMA BaseOf ==
  ASSUME NEW s \in Seq(Alnum), NEW n \in Nat, n <= Len(s)
  PROVE  /\ Base(s, n) \in Seq(Alnum) /\ Len(Base(s, n)) = n
         /\ \A i \in 1..n : Base(s, n)[i] = s[i] /\ s[i] \in Alnum
<1>1. Len(s) \in Nat /\ \A i \in 1..n : i \in 1..Len(s)
  OBVIOUS
<1>2. \A i \in 1..n : s[i] \in Alnum
  BY <1>1, ElementOfSeq
<1>3. n - 1 + 1 = n /\ (1 <= n => n - 1 + 1 = n) /\ (~(1 <= n) => n = 0)
  OBVIOUS
<1>4. /\ SubSeq(s, 1, n) \in Seq(Alnum)
      /\ Len(SubSeq(s, 1, n)) = IF 1 <= n THEN n - 1 + 1 ELSE 0
      /\ \A i \in 1..(n - 1 + 1) : SubSeq(s, 1, n)[i] = s[1 + i - 1]
  BY ONLY <1>2, n \in Nat, SubSeqProperties
<1>5. \A i \in 1..n : 1 + i - 1 = i
  OBVIOUS
<1> QED BY <1>2, <1>3, <1>4, <1>5 DEF Base

LEMMA LastTwo ==
  ASSUME NEW s \in Seq(Alnum), NEW n \in Nat, Len(s) = n + 2
  PROVE  SubSeq(s, n + 1, Len(s)) = <<s[n + 1], s[n + 2]>>
<1>1. \A i \in (n + 1)..(n + 2) : s[i] \in Alnum
  BY ElementOfSeq
<1>2. n + 1 <= n + 2 /\ n + 2 - (n + 1) + 1 = 2
  OBVIOUS
<1> DEFINE t == SubSeq(s, n + 1, n + 2)
<1>3. t \in Seq(Alnum) /\ Len(t) = 2 /\ \A i \in 1..2 : t[i] = s[n + 1 + i - 1]
  BY <1>1, <1>2, SubSeqProperties
<1> HIDE DEF t
<1>4. t[1] = s[n + 1] /\ t[2] = s[n + 2]
  <2>1. n + 1 + 1 - 1 = n + 1 /\ n + 1 + 2 - 1 = n + 2 /\ 1 \in 1..2 /\ 2 \in 1..2
    OBVIOUS
  <2> QED BY <1>3, <2>1
<1>5. t = <<s[n + 1], s[n + 2]>>
  BY <1>3, <1>4
<1> QED BY <1>5 DEF t

LEMMA Appended ==
  ASSUME NEW S, NEW t \in Seq(S), NEW e \in S
  PROVE  /\ \A i \in 1..Len(t) : Append(t, e)[i] = t[i]
         /\ Append(t, e)[Len(t) + 1] = e
BY AppendProperties

LEMMA CnpjAgrees ==
  ASSUME NEW s \in Seq(Alnum), Len(s) = 14, s[13] \in Digit, s[14] \in Digit
  PROVE  SubSeq(s, 13, Len(s)) = CnpjDigits(Base(s, 12)) <=> CnpjReference(s)
<1> DEFINE b == Base(s, 12)
           one == Weighted(s, WeightsDv1)
           two == Weighted(s, WeightsDv2)
           d == ToDigit(DigitOf(one % 11))
<1>1. \A n \in 1..14 : s[n] \in Alnum
  BY ElementOfSeq
<1>2. b \in Seq(Alnum) /\ Len(b) = 12 /\ \A n \in 1..12 : b[n] = s[n]
  <2>1. 12 \in Nat /\ 12 <= Len(s)
    OBVIOUS
  <2> QED BY <2>1, BaseOf
<1>3. one \in Nat /\ two \in Nat
  <2>1. /\ \A n \in 1..Len(WeightsDv1) : s[n] \in Alnum
        /\ \A n \in 1..Len(WeightsDv2) : s[n] \in Alnum
    BY <1>1, Weights
  <2> QED BY <2>1, Weights, WeightedNatural
<1>4. Weighted(b, WeightsDv1) = one
  <2>a. Len(WeightsDv1) = 12 /\ \A n \in 1..12 : n \in 1..14
    BY Weights
  <2>1. \A n \in 1..Len(WeightsDv1) : s[n] \in Alnum /\ b[n] = s[n]
    BY <1>1, <1>2, <2>a
  <2> HIDE DEF b
  <2> QED BY <2>1, Weights, WeightedAgrees
<1>5. d \in Alnum
  BY <1>3, DigitOfDigit DEF Alnum
<1>6. SubSeq(s, 13, Len(s)) = <<s[13], s[14]>>
  <2>1. 12 + 1 = 13 /\ 12 + 2 = 14
    OBVIOUS
  <2> QED BY <2>1, LastTwo
<1> HIDE DEF b, one, two, d
<1>7. s[13] = d => Weighted(Append(b, d), WeightsDv2) = two
  <2> SUFFICES ASSUME s[13] = d PROVE Weighted(Append(b, d), WeightsDv2) = two
    OBVIOUS
  <2>b. /\ \A i \in 1..Len(b) : Append(b, d)[i] = b[i]
        /\ Append(b, d)[Len(b) + 1] = d
    <3>1. b \in Seq(Alnum)
      BY <1>2
    <3> QED BY <3>1, <1>5, Appended
  <2>1. \A n \in 1..13 : Append(b, d)[n] = s[n]
    <3> TAKE n \in 1..13
    <3>1. CASE n = 13
      <4>1. Len(b) + 1 = 13
        BY <1>2
      <4>2. Append(b, d)[Len(b) + 1] = d
        BY <2>b
      <4> QED BY <3>1, <4>1, <4>2
    <3>2. CASE n # 13
      <4>1. n \in 1..12
        BY <3>2
      <4>2. Append(b, d)[n] = b[n]
        BY <1>2, <2>b, <4>1
      <4> QED BY <1>2, <4>1, <4>2
    <3> QED BY <3>1, <3>2
  <2>a. Len(WeightsDv2) = 13 /\ \A n \in 1..13 : n \in 1..14
    BY Weights
  <2>2. \A n \in 1..Len(WeightsDv2) : s[n] \in Alnum /\ Append(b, d)[n] = s[n]
    BY <1>1, <2>1, <2>a
  <2> QED BY <2>2, Weights, WeightedAgrees DEF two
<1>8. CnpjDigits(b) = <<d, ToDigit(DigitOf(Weighted(Append(b, d), WeightsDv2) % 11))>>
  BY <1>4 DEF CnpjDigits, d
<1>9. SubSeq(s, 13, Len(s)) = CnpjDigits(b) <=>
        s[13] = d /\ s[14] = ToDigit(DigitOf(two % 11))
  BY <1>6, <1>7, <1>8
<1>10. CnpjReference(s) <=>
         /\ (one + CharValue(s[13])) % 11 = 0 \/ (CharValue(s[13]) = 0 /\ one % 11 = 1)
         /\ (two + CharValue(s[14])) % 11 = 0 \/ (CharValue(s[14]) = 0 /\ two % 11 = 1)
  BY DEF CnpjReference, one, two
<1>11. s[13] = d <=> ((one + CharValue(s[13])) % 11 = 0 \/ (CharValue(s[13]) = 0 /\ one % 11 = 1))
  BY <1>3, DigitCloses DEF d
<1>12. s[14] = ToDigit(DigitOf(two % 11)) <=>
         ((two + CharValue(s[14])) % 11 = 0 \/ (CharValue(s[14]) = 0 /\ two % 11 = 1))
  BY <1>3, DigitCloses
<1> QED BY <1>9, <1>10, <1>11, <1>12 DEF b

-----------------------------------------------------------------------------
(* The expansion of letters: where the digits of each character stand.     *)
Decimal == 0..9
Spelled(s, d, pos) ==
  /\ d \in Seq(Decimal)
  /\ pos \in [0..Len(s) -> 0..Len(d)] /\ pos[0] = 0 /\ pos[Len(s)] = Len(d)
  /\ \A n \in 1..Len(s) :
       /\ s[n] \in Digit => pos[n] = pos[n - 1] + 1 /\ d[pos[n]] = Value(s[n])
       /\ s[n] \notin Digit => /\ pos[n] = pos[n - 1] + 2
                               /\ d[pos[n - 1] + 1] = Value(s[n]) \div 10
                               /\ d[pos[n]] = Value(s[n]) % 10

LEMMA Split10 ==
  ASSUME NEW x \in Nat
  PROVE  x = 10 * (x \div 10) + (x % 10) /\ x % 10 \in 0..9 /\ x \div 10 \in Nat
OBVIOUS

LEMMA ValuesInRange ==
  ASSUME NEW c \in Alnum
  PROVE  /\ c \in Digit => Value(c) \in 0..9
         /\ c \notin Digit => Value(c) \in 10..35
         /\ Value(c) \div 10 \in 0..9 /\ Value(c) % 10 \in 0..9 /\ Value(c) \in Nat
         /\ Value(c) = 10 * (Value(c) \div 10) + (Value(c) % 10)
<1> DEFINE v == Value(c)
<1>1. /\ c \in Digit => v \in 0..9
      /\ c \notin Digit => v \in 10..35
  BY DEF Value, Alnum, Digit, Upper
<1>2. v \in 0..35
  BY <1>1
<1> HIDE DEF v
<1>a. v \in Nat
  BY <1>2
<1>3. v = 10 * (v \div 10) + (v % 10) /\ v % 10 \in 0..9 /\ v \div 10 \in Nat
  BY <1>a, Split10
<1>4. v \div 10 \in 0..9
  BY <1>2, <1>3
<1> QED BY <1>1, <1>a, <1>3, <1>4 DEF v

LEMMA Joined ==
  ASSUME NEW S, NEW left \in Seq(S), NEW right \in Seq(S)
  PROVE  /\ left \o right \in Seq(S) /\ Len(left \o right) = Len(left) + Len(right)
         /\ \A k \in 1..Len(left) : (left \o right)[k] = left[k]
         /\ \A k \in 1..Len(right) : (left \o right)[Len(left) + k] = right[k]
<1>1. Len(left) \in Nat /\ Len(right) \in Nat
  OBVIOUS
<1>2. /\ left \o right \in Seq(S) /\ Len(left \o right) = Len(left) + Len(right)
      /\ \A i \in 1..Len(left) + Len(right) :
           (left \o right)[i] = IF i <= Len(left) THEN left[i] ELSE right[i - Len(left)]
  BY ConcatProperties
<1>3. ASSUME NEW k \in 1..Len(left) PROVE (left \o right)[k] = left[k]
  <2>1. k \in 1..Len(left) + Len(right) /\ k <= Len(left)
    BY <1>1
  <2> QED BY <1>2, <2>1
<1>4. ASSUME NEW k \in 1..Len(right) PROVE (left \o right)[Len(left) + k] = right[k]
  <2>1. Len(left) + k \in 1..Len(left) + Len(right) /\ ~(Len(left) + k <= Len(left)) /\ Len(left) + k - Len(left) = k
    BY <1>1
  <2> QED BY <1>2, <2>1
<1> QED BY <1>2, <1>3, <1>4

(* The texts that Expanded builds up.                                      *)
Part(c) == IF c \in Digit THEN <<Value(c)>> ELSE <<Value(c) \div 10, Value(c) % 10>>
Builds(D, s) ==
  /\ D \in [0..Len(s) -> Seq(Decimal)] /\ D[0] = <<>>
  /\ \A n \in 1..Len(s) : D[n] = D[n - 1] \o Part(s[n])

LEMMA Parts ==
  ASSUME NEW c \in Alnum
  PROVE  /\ Part(c) \in Seq(Decimal)
         /\ c \in Digit => Len(Part(c)) = 1 /\ Part(c)[1] = Value(c)
         /\ c \notin Digit => /\ Len(Part(c)) = 2 /\ Part(c)[1] = Value(c) \div 10
                              /\ Part(c)[2] = Value(c) % 10
<1>1. /\ c \in Digit => Value(c) \in 0..9
      /\ Value(c) \div 10 \in 0..9 /\ Value(c) % 10 \in 0..9
  BY ValuesInRange
<1>2. CASE c \in Digit
  <2>1. Part(c) = <<Value(c)>>
    BY <1>2 DEF Part
  <2> QED BY <1>1, <1>2, <2>1 DEF Decimal
<1>3. CASE c \notin Digit
  <2>1. Part(c) = <<Value(c) \div 10, Value(c) % 10>>
    BY <1>3 DEF Part
  <2> QED BY <1>1, <1>3, <2>1 DEF Decimal
<1> QED BY <1>2, <1>3

LEMMA ExpandedBuilds ==
  ASSUME NEW s \in Seq(Alnum)
  PROVE  \E D : Builds(D, s) /\ Expanded(s) = D[Len(s)]
<1> DEFINE top == Len(s)
           add == [i \in 1..top |-> [x \in Seq(Decimal) |-> x \o Part(s[i])]]
<1>1. top \in Nat /\ \A i \in 1..top : Part(s[i]) \in Seq(Decimal)
  BY Parts, ElementOfSeq
<1>2. add \in [1..top -> [Seq(Decimal) -> Seq(Decimal)]]
  BY <1>1
<1>3. <<>> \in Seq(Decimal)
  OBVIOUS
<1> HIDE DEF add, top
<1>4. PICK f : Iterates(f, top, Seq(Decimal), <<>>, add)
  BY <1>1, <1>2, <1>3, RecursionExists
<1>5. /\ f \in [0..top -> Seq(Decimal)] /\ f[0] = <<>>
      /\ \A n \in 1..top : f[n] = f[n - 1] \o Part(s[n])
  <2>1. /\ f \in [0..top -> Seq(Decimal)] /\ f[0] = <<>>
        /\ \A n \in 1..top : f[n] = add[n][f[n - 1]]
    BY <1>4 DEF Iterates
  <2>a. f \in [0..top -> Seq(Decimal)]
    BY <2>1
  <2>2. \A n \in 1..top : f[n - 1] \in Seq(Decimal)
    BY ONLY <1>1, <2>a, Earlier
  <2> QED BY <2>1, <2>2 DEF add
<1> DEFINE D == CHOOSE digits : digits = [n \in 0..top |->
                  IF n = 0 THEN <<>>
                  ELSE digits[n - 1] \o (IF s[n] \in Digit THEN <<Value(s[n])>>
                                         ELSE <<Value(s[n]) \div 10, Value(s[n]) % 10>>)]
<1>6. f = [n \in 0..top |->
             IF n = 0 THEN <<>>
             ELSE f[n - 1] \o (IF s[n] \in Digit THEN <<Value(s[n])>>
                               ELSE <<Value(s[n]) \div 10, Value(s[n]) % 10>>)]
  <2>1. \A n \in 0..top : n # 0 => n \in 1..top
    BY <1>1
  <2>2. \A n \in 1..top : f[n] = f[n - 1] \o (IF s[n] \in Digit THEN <<Value(s[n])>>
                                      ELSE <<Value(s[n]) \div 10, Value(s[n]) % 10>>)
    BY <1>5 DEF Part
  <2>3. f = [n \in 0..top |-> f[n]] /\ f[0] = <<>>
    BY <1>5
  <2> QED BY <2>1, <2>2, <2>3
<1>7. D = [n \in 0..top |-> IF n = 0 THEN <<>> ELSE D[n - 1] \o Part(s[n])]
  BY <1>6 DEF Part
<1>8. Expanded(s) = D[top]
  BY DEF Expanded, top
<1> HIDE DEF D
<1>9. D[0] = <<>> /\ \A n \in 1..top : D[n] = D[n - 1] \o Part(s[n])
  BY <1>1, <1>7
<1> DEFINE T == { n \in 0..top : D[n] \in Seq(Decimal) }
<1>10. 0 \in T
  <2>1. 0 \in 0..top
    BY <1>1
  <2> QED BY <1>3, <1>9, <2>1
<1>a. ASSUME NEW n \in 1..top, n - 1 \in T PROVE n \in T
  <2>1. D[n - 1] \in Seq(Decimal) /\ Part(s[n]) \in Seq(Decimal)
    BY <1>1, <1>a
  <2>2. D[n - 1] \o Part(s[n]) \in Seq(Decimal)
    BY <2>1
  <2>3. n \in 0..top /\ D[n] = D[n - 1] \o Part(s[n])
    <3>1. top \in Nat
      BY <1>1
    <3>2. n \in 0..top
      BY <3>1
    <3> QED BY <1>9, <3>2
  <2> QED BY <2>2, <2>3
<1> HIDE DEF T
<1>11. 0..top \subseteq T
  BY <1>1, <1>10, <1>a, Induction
<1>12. D \in [0..top -> Seq(Decimal)]
  BY <1>7, <1>11 DEF T
<1> QED BY <1>8, <1>9, <1>12 DEF Builds, top

LEMMA ExpandedSpells ==
  ASSUME NEW s \in Seq(Alnum)
  PROVE  \E pos : Spelled(s, Expanded(s), pos)
<1> DEFINE top == Len(s)
<1>1. PICK D : Builds(D, s) /\ Expanded(s) = D[top]
  BY ExpandedBuilds
<1>2. top \in Nat /\ \A n \in 1..top : s[n] \in Alnum
  BY ElementOfSeq
<1> HIDE DEF top
<1>3. /\ D \in [0..top -> Seq(Decimal)] /\ D[0] = <<>>
      /\ \A n \in 1..top : D[n] = D[n - 1] \o Part(s[n])
  BY <1>1 DEF Builds, top
<1> DEFINE pos == [n \in 0..top |-> Len(D[n])]
           Before(m, n) == /\ Len(D[n]) <= Len(D[m])
                           /\ \A k \in 1..Len(D[n]) : D[m][k] = D[n][k]
           T == { m \in 0..top : \A n \in 0..m : Before(m, n) }
<1>4. \A n \in 0..top : Len(D[n]) \in Nat
  BY <1>3
<1>5. ASSUME NEW n \in 1..top
      PROVE  /\ n - 1 \in 0..top /\ n \in 0..top
             /\ Len(D[n]) = Len(D[n - 1]) + Len(Part(s[n]))
             /\ \A k \in 1..Len(D[n - 1]) : D[n][k] = D[n - 1][k]
             /\ \A k \in 1..Len(Part(s[n])) : D[n][Len(D[n - 1]) + k] = Part(s[n])[k]
  <2>1. n - 1 \in 0..top /\ n \in 0..top
    BY <1>2
  <2>2. D[n - 1] \in Seq(Decimal) /\ Part(s[n]) \in Seq(Decimal)
    BY <1>2, <1>3, <2>1, Parts
  <2>3. /\ Len(D[n - 1] \o Part(s[n])) = Len(D[n - 1]) + Len(Part(s[n]))
        /\ \A k \in 1..Len(D[n - 1]) : (D[n - 1] \o Part(s[n]))[k] = D[n - 1][k]
        /\ \A k \in 1..Len(Part(s[n])) :
             (D[n - 1] \o Part(s[n]))[Len(D[n - 1]) + k] = Part(s[n])[k]
    <3> HIDE DEF pos, Before
    <3>1. \A a, b \in Seq(Decimal) :
            /\ Len(a \o b) = Len(a) + Len(b)
            /\ \A k \in 1..Len(a) : (a \o b)[k] = a[k]
            /\ \A k \in 1..Len(b) : (a \o b)[Len(a) + k] = b[k]
      BY Joined
    <3> QED BY ONLY <2>2, <3>1, Zenon
  <2> QED BY <1>3, <2>1, <2>3
<1>6. 0 \in T
  BY <1>2, <1>3
<1>7. ASSUME NEW m \in 1..top, m - 1 \in T PROVE m \in T
  <2> SUFFICES ASSUME NEW n \in 0..m PROVE Before(m, n)
    BY <1>2
  <2>1. CASE n = m
    BY <1>4, <1>5, <2>1
  <2>2. CASE n # m
    <3>1. n \in 0..(m - 1) /\ m - 1 \in 0..top /\ n \in 0..top
      BY <1>2, <2>2
    <3>2. Before(m - 1, n)
      BY <1>7, <3>1
    <3>3. Len(Part(s[m])) \in Nat
      BY <1>2, Parts
    <3>4. Len(D[n]) \in Nat /\ Len(D[m - 1]) \in Nat
      BY <1>4, <3>1
    <3>5. Len(D[n]) <= Len(D[m - 1]) /\ \A k \in 1..Len(D[n]) : k \in 1..Len(D[m - 1])
      BY <3>2, <3>4
    <3>8. Len(D[m]) = Len(D[m - 1]) + Len(Part(s[m]))
      BY <1>5
    <3>6. Len(D[n]) <= Len(D[m])
      <4>1. \A a, b, c \in Nat : a <= b => a <= b + c
        OBVIOUS
      <4>2. Len(D[n]) <= Len(D[m - 1]) + Len(Part(s[m]))
        BY ONLY <3>3, <3>4, <3>5, <4>1, Zenon
      <4> QED BY ONLY <4>2, <3>8, Zenon
    <3>7. ASSUME NEW k \in 1..Len(D[n]) PROVE D[m][k] = D[n][k]
      BY <1>5, <3>2, <3>5
    <3> QED BY <3>6, <3>7
  <2> QED BY <2>1, <2>2
<1> HIDE DEF T
<1>8. 0..top \subseteq T
  BY <1>2, <1>6, <1>7, Induction
<1>9. \A n \in 0..top : Before(top, n)
  BY <1>2, <1>8 DEF T
<1> DEFINE d == Expanded(s)
<1>10. d = D[top] /\ d \in Seq(Decimal)
  BY <1>1, <1>2, <1>3
<1> HIDE DEF d
<1>11. pos \in [0..top -> 0..Len(d)] /\ pos[0] = 0 /\ pos[top] = Len(d)
  BY <1>2, <1>3, <1>4, <1>9, <1>10
<1>12. ASSUME NEW n \in 1..top
       PROVE  /\ s[n] \in Digit => pos[n] = pos[n - 1] + 1 /\ d[pos[n]] = Value(s[n])
              /\ s[n] \notin Digit => /\ pos[n] = pos[n - 1] + 2
                                      /\ d[pos[n - 1] + 1] = Value(s[n]) \div 10
                                      /\ d[pos[n]] = Value(s[n]) % 10
  <2> DEFINE p == Len(D[n - 1])
             q == Len(D[n])
  <2>1. pos[n] = q /\ pos[n - 1] = p /\ p \in Nat /\ q \in Nat
    BY <1>4, <1>5
  <2>2. /\ q = p + Len(Part(s[n]))
        /\ \A k \in 1..Len(Part(s[n])) : D[n][p + k] = Part(s[n])[k]
    BY <1>5
  <2>3. \A k \in 1..q : d[k] = D[n][k]
    BY <1>5, <1>9, <1>10
  <2>4. s[n] \in Alnum
    BY <1>2
  <2> HIDE DEF p, q, pos
  <2>5. CASE s[n] \in Digit
    <3>1. Len(Part(s[n])) = 1 /\ Part(s[n])[1] = Value(s[n])
      BY <2>4, <2>5, Parts
    <3>2. q = p + 1 /\ q \in 1..q /\ 1 \in 1..1
      BY <2>1, <2>2, <3>1
    <3>3. D[n][p + 1] = Value(s[n])
      BY <2>2, <3>1, <3>2
    <3> QED BY <2>1, <2>3, <2>5, <3>2, <3>3
  <2>6. CASE s[n] \notin Digit
    <3>1. Len(Part(s[n])) = 2 /\ Part(s[n])[1] = Value(s[n]) \div 10 /\ Part(s[n])[2] = Value(s[n]) % 10
      BY <2>4, <2>6, Parts
    <3>2. q = p + 2 /\ q \in 1..q /\ p + 1 \in 1..q /\ 1 \in 1..2 /\ 2 \in 1..2
      BY <2>1, <2>2, <3>1
    <3>3. D[n][p + 1] = Value(s[n]) \div 10 /\ D[n][p + 2] = Value(s[n]) % 10
      BY <2>2, <3>1, <3>2
    <3> QED BY <2>1, <2>3, <2>6, <3>2, <3>3
  <2> QED BY <2>5, <2>6
<1>13. Spelled(s, d, pos)
  BY <1>10, <1>11, <1>12 DEF Spelled, top
<1> QED BY <1>13 DEF d

-----------------------------------------------------------------------------
(* The check digits of an LEI.                                             *)
LEMMA Mod97Drop ==
  ASSUME NEW k \in Nat, NEW z \in Nat
  PROVE  (97 * k + z) % 97 = z % 97
OBVIOUS
LEMMA Mod97Split ==
  ASSUME NEW x \in Nat
  PROVE  x \div 97 \in Nat /\ x % 97 \in 0..96 /\ x = 97 * (x \div 97) + (x % 97)
OBVIOUS
LEMMA Mod97Scale ==
  ASSUME NEW x \in Nat, NEW y \in Nat
  PROVE  /\ ((x % 97) * 10 + y) % 97 = (x * 10 + y) % 97
         /\ ((x % 97) * 100 + y) % 97 = (x * 100 + y) % 97
<1> DEFINE q == x \div 97
           r == x % 97
<1>1. q \in Nat /\ r \in Nat /\ x = 97 * q + r
  BY Mod97Split
<1> HIDE DEF q, r
<1>2. x * 10 + y = 97 * (10 * q) + (r * 10 + y) /\ x * 100 + y = 97 * (100 * q) + (r * 100 + y)
  BY <1>1
<1>3. 10 * q \in Nat /\ 100 * q \in Nat /\ r * 10 + y \in Nat /\ r * 100 + y \in Nat
  BY <1>1
<1>4. (x * 10 + y) % 97 = (r * 10 + y) % 97
  <2>1. (97 * (10 * q) + (r * 10 + y)) % 97 = (r * 10 + y) % 97
    BY ONLY <1>3, Mod97Drop
  <2> QED BY <1>2, <2>1
<1>5. (x * 100 + y) % 97 = (r * 100 + y) % 97
  <2>1. (97 * (100 * q) + (r * 100 + y)) % 97 = (r * 100 + y) % 97
    BY ONLY <1>3, Mod97Drop
  <2> QED BY <1>2, <2>1
<1> QED BY <1>4, <1>5 DEF r
LEMMA Mod97Two ==
  ASSUME NEW x \in Nat, NEW a \in Nat, NEW b \in Nat
  PROVE  (((x * 10 + a) % 97) * 10 + b) % 97 = (x * 100 + (10 * a + b)) % 97
<1>1. x * 10 + a \in Nat
  OBVIOUS
<1>2. (((x * 10 + a) % 97) * 10 + b) % 97 = ((x * 10 + a) * 10 + b) % 97
  BY <1>1, Mod97Scale
<1>3. (x * 10 + a) * 10 + b = x * 100 + (10 * a + b)
  OBVIOUS
<1> QED BY <1>2, <1>3

(* A function whose steps are those of a recursion is its function.        *)
LEMMA Iterated ==
  ASSUME NEW N \in Nat, NEW V, NEW base \in V, NEW step \in [1..N -> [V -> V]],
         NEW g, g = [n \in 0..N |-> g[n]], g[0] = base,
         \A n \in 1..N : g[n - 1] \in V => g[n] = step[n][g[n - 1]]
  PROVE  Iterates(g, N, V, base, step)
<1> DEFINE T == { n \in 0..N : g[n] \in V }
<1>1. 0 \in T
  OBVIOUS
<1>2. ASSUME NEW n \in 1..N, n - 1 \in T PROVE n \in T
  <2>1. g[n - 1] \in V /\ n \in 0..N
    BY <1>2
  <2>2. g[n] = step[n][g[n - 1]]
    BY <2>1
  <2>3. step[n] \in [V -> V]
    OBVIOUS
  <2>4. g[n] \in V
    BY ONLY <2>1, <2>2, <2>3
  <2> QED BY <2>1, <2>4
<1> HIDE DEF T
<1>3. 0..N \subseteq T
  BY <1>1, <1>2, Induction
<1>4. \A n \in 0..N : g[n] \in V
  BY <1>3 DEF T
<1>5. g \in [0..N -> V]
  BY <1>4
<1>6. \A n \in 1..N : g[n] = step[n][g[n - 1]]
  <2>1. \A n \in 1..N : g[n - 1] \in V
    BY <1>4
  <2> QED BY <2>1
<1> QED BY <1>5, <1>6 DEF Iterates

FoldStep(r, c) == IF c \in Digit THEN (r * 10 + Value(c)) % 97 ELSE (r * 100 + Value(c)) % 97
Folds(f, s) ==
  /\ f \in [0..Len(s) -> Nat] /\ f[0] = 0
  /\ \A n \in 1..Len(s) : f[n] = FoldStep(f[n - 1], s[n])

LEMMA FoldStepNatural ==
  ASSUME NEW r \in Nat, NEW c \in Alnum
  PROVE  FoldStep(r, c) \in Nat
<1>1. Value(c) \in Nat
  BY ValuesInRange
<1> QED BY <1>1 DEF FoldStep

LEMMA FoldMod97Folds ==
  ASSUME NEW s \in Seq(Alnum)
  PROVE  \E f : Folds(f, s) /\ FoldMod97(s) = f[Len(s)]
<1> DEFINE top == Len(s)
           fold == [i \in 1..top |-> [x \in Nat |-> FoldStep(x, s[i])]]
<1>1. top \in Nat /\ \A i \in 1..top : s[i] \in Alnum
  BY ElementOfSeq
<1>2. fold \in [1..top -> [Nat -> Nat]]
  BY <1>1, FoldStepNatural
<1> HIDE DEF fold, top
<1>3. ASSUME NEW g, Iterates(g, top, Nat, 0, fold)
      PROVE  /\ g \in [0..top -> Nat] /\ g[0] = 0
             /\ \A n \in 1..top : g[n] = FoldStep(g[n - 1], s[n])
  <2>1. /\ g \in [0..top -> Nat] /\ g[0] = 0
        /\ \A n \in 1..top : g[n] = fold[n][g[n - 1]]
    BY <1>3 DEF Iterates
  <2>a. g \in [0..top -> Nat]
    BY <2>1
  <2>2. \A n \in 1..top : g[n - 1] \in Nat
    BY ONLY <1>1, <2>a, Earlier
  <2> QED BY <2>1, <2>2 DEF fold
<1>4. PICK f : Iterates(f, top, Nat, 0, fold)
  BY <1>1, <1>2, RecursionExists
<1> DEFINE rem == CHOOSE rem : rem = [n \in 0..top |->
                    IF n = 0 THEN 0
                    ELSE IF s[n] \in Digit THEN (rem[n - 1] * 10 + Value(s[n])) % 97
                    ELSE (rem[n - 1] * 100 + Value(s[n])) % 97]
<1>5. f = [n \in 0..top |->
             IF n = 0 THEN 0
             ELSE IF s[n] \in Digit THEN (f[n - 1] * 10 + Value(s[n])) % 97
             ELSE (f[n - 1] * 100 + Value(s[n])) % 97]
  <2>1. \A n \in 0..top : n # 0 => n \in 1..top
    BY <1>1
  <2> QED BY <1>3, <1>4, <2>1 DEF FoldStep
<1>6. rem = [n \in 0..top |-> IF n = 0 THEN 0 ELSE FoldStep(rem[n - 1], s[n])]
  BY <1>5 DEF FoldStep
<1>7. FoldMod97(s) = rem[top]
  BY DEF FoldMod97, top
<1> HIDE DEF rem
<1>8. rem[0] = 0 /\ \A n \in 1..top : rem[n] = FoldStep(rem[n - 1], s[n])
  BY <1>1, <1>6
<1>9. Iterates(rem, top, Nat, 0, fold)
  <2>1. \A n \in 1..top : rem[n - 1] \in Nat => rem[n] = fold[n][rem[n - 1]]
    BY <1>8 DEF fold
  <2>2. rem = [n \in 0..top |-> rem[n]]
    BY <1>6
  <2>3. top \in Nat /\ rem[0] = 0
    BY <1>1, <1>8
  <2> QED BY ONLY <1>2, <2>1, <2>2, <2>3, Iterated
<1>10. Folds(rem, s)
  BY <1>3, <1>9 DEF Folds, top
<1> QED BY <1>7, <1>10 DEF top

(* The remainders of a number read digit by digit.                         *)
Remains(r, d) ==
  /\ r \in [0..Len(d) -> Nat] /\ r[0] = 0
  /\ \A n \in 1..Len(d) : r[n] = (r[n - 1] * 10 + d[n]) % 97

LEMMA LeiReferenceRemains ==
  ASSUME NEW s \in Seq(Alnum)
  PROVE  \E r : /\ Remains(r, Expanded(s))
                /\ LeiReference(s) <=> /\ r[Len(Expanded(s))] = 1
                                       /\ 10 * Value(s[19]) + Value(s[20]) \in 2..98
<1> DEFINE d == Expanded(s)
           top == Len(d)
           read == [i \in 1..top |-> [x \in Nat |-> (x * 10 + d[i]) % 97]]
<1>1. d \in Seq(Decimal)
  BY ExpandedSpells DEF Spelled
<1>2. top \in Nat /\ \A i \in 1..top : d[i] \in Nat
  BY <1>1, ElementOfSeq DEF Decimal
<1> HIDE DEF d
<1>3. read \in [1..top -> [Nat -> Nat]]
  <2>1. \A x, y \in Nat : (x * 10 + y) % 97 \in Nat
    OBVIOUS
  <2> QED BY <1>2, <2>1
<1> HIDE DEF read, top
<1>4. ASSUME NEW g, Iterates(g, top, Nat, 0, read)
      PROVE  /\ g \in [0..top -> Nat] /\ g[0] = 0
             /\ \A n \in 1..top : g[n] = (g[n - 1] * 10 + d[n]) % 97
  <2>1. /\ g \in [0..top -> Nat] /\ g[0] = 0
        /\ \A n \in 1..top : g[n] = read[n][g[n - 1]]
    BY <1>4 DEF Iterates
  <2>a. g \in [0..top -> Nat]
    BY <2>1
  <2>2. \A n \in 1..top : g[n - 1] \in Nat
    BY ONLY <1>2, <2>a, Earlier
  <2> QED BY <2>1, <2>2 DEF read
<1>5. PICK f : Iterates(f, top, Nat, 0, read)
  BY <1>2, <1>3, RecursionExists
<1> DEFINE rem == CHOOSE rem : rem = [n \in 0..top |->
                    IF n = 0 THEN 0 ELSE (rem[n - 1] * 10 + d[n]) % 97]
<1>6. f = [n \in 0..top |-> IF n = 0 THEN 0 ELSE (f[n - 1] * 10 + d[n]) % 97]
  <2>1. \A n \in 0..top : n # 0 => n \in 1..top
    BY <1>2
  <2> QED BY <1>4, <1>5, <2>1
<1>7. rem = [n \in 0..top |-> IF n = 0 THEN 0 ELSE (rem[n - 1] * 10 + d[n]) % 97]
  BY <1>6
<1>8. LeiReference(s) <=> rem[top] = 1 /\ 10 * Value(s[19]) + Value(s[20]) \in 2..98
  BY DEF LeiReference, top, d
<1> HIDE DEF rem
<1>9. rem[0] = 0 /\ \A n \in 1..top : rem[n] = (rem[n - 1] * 10 + d[n]) % 97
  BY <1>2, <1>7
<1>10. Iterates(rem, top, Nat, 0, read)
  <2>1. \A n \in 1..top : rem[n - 1] \in Nat => rem[n] = read[n][rem[n - 1]]
    BY <1>9 DEF read
  <2>2. rem = [n \in 0..top |-> rem[n]]
    BY <1>7
  <2>3. top \in Nat /\ rem[0] = 0
    BY <1>2, <1>9
  <2> QED BY ONLY <1>3, <2>1, <2>2, <2>3, Iterated
<1>11. Remains(rem, d)
  BY <1>4, <1>10 DEF Remains, top
<1> QED BY <1>8, <1>11 DEF top, d

(* Reading a letter is reading its two digits.                             *)
LEMMA RemainsFolds ==
  ASSUME NEW s \in Seq(Alnum), NEW d, NEW pos, Spelled(s, d, pos),
         NEW f, Folds(f, s), NEW r, Remains(r, d)
  PROVE  r[Len(d)] = f[Len(s)]
<1> DEFINE top == Len(s)
           T == { n \in 0..top : r[pos[n]] = f[n] }
<1>1. top \in Nat /\ \A n \in 1..top : s[n] \in Alnum
  BY ElementOfSeq
<1>2. /\ Len(d) \in Nat /\ \A k \in 1..Len(d) : d[k] \in Nat
      /\ pos \in [0..top -> 0..Len(d)] /\ pos[0] = 0 /\ pos[top] = Len(d)
  <2>1. d \in Seq(Decimal)
    BY DEF Spelled
  <2>2. Len(d) \in Nat /\ \A k \in 1..Len(d) : d[k] \in Nat
    BY <2>1, ElementOfSeq DEF Decimal
  <2> QED BY <2>2 DEF Spelled
<1>3. f \in [0..top -> Nat] /\ f[0] = 0 /\ \A n \in 1..top : f[n] = FoldStep(f[n - 1], s[n])
  BY DEF Folds
<1>4. /\ r \in [0..Len(d) -> Nat] /\ r[0] = 0
      /\ \A n \in 1..Len(d) : r[n] = (r[n - 1] * 10 + d[n]) % 97
  BY DEF Remains
<1>5. 0 \in T
  BY <1>1, <1>2, <1>3, <1>4
<1>6. ASSUME NEW n \in 1..top, n - 1 \in T PROVE n \in T
  <2> DEFINE p == pos[n - 1]
             q == pos[n]
             v == Value(s[n])
  <2>1. n - 1 \in 0..top /\ n \in 0..top /\ r[p] = f[n - 1]
    BY <1>1, <1>6
  <2>2. p \in 0..Len(d) /\ q \in 0..Len(d) /\ r[p] \in Nat
    BY <1>2, <1>4, <2>1
  <2>3. /\ s[n] \in Digit => q = p + 1 /\ d[q] = v
        /\ s[n] \notin Digit => q = p + 2 /\ d[p + 1] = v \div 10 /\ d[q] = v % 10
    BY DEF Spelled
  <2>4. f[n] = FoldStep(r[p], s[n])
    BY <1>3, <2>1
  <2>5. v \in Nat /\ v \div 10 \in Nat /\ v % 10 \in Nat /\ v = 10 * (v \div 10) + (v % 10)
    <3>1. s[n] \in Alnum
      BY <1>1
    <3>2. v \div 10 \in 0..9 /\ v % 10 \in 0..9 /\ v \in Nat /\ v = 10 * (v \div 10) + (v % 10)
      BY <3>1, ValuesInRange
    <3> HIDE DEF v
    <3> QED BY <3>2
  <2> HIDE DEF p, q, v, T
  <2>6. CASE s[n] \in Digit
    <3>1. q = p + 1 /\ q \in 1..Len(d) /\ q - 1 = p
      BY <1>2, <2>2, <2>3, <2>6
    <3>2. r[q] = (r[p] * 10 + v) % 97
      BY <1>4, <2>3, <2>6, <3>1
    <3>3. r[q] = f[n]
      BY <2>4, <2>6, <3>2 DEF FoldStep, v
    <3> QED BY <2>1, <3>3 DEF T, q
  <2>7. CASE s[n] \notin Digit
    <3> DEFINE k == p + 1
    <3>1. /\ q = p + 2 /\ q \in 1..Len(d) /\ q - 1 = k
          /\ k \in 1..Len(d) /\ k - 1 = p /\ d[k] = v \div 10
      BY <1>2, <2>2, <2>3, <2>7
    <3> HIDE DEF k
    <3>2. r[k] = (r[p] * 10 + (v \div 10)) % 97
      BY <1>4, <3>1
    <3>3. r[q] = (r[k] * 10 + (v % 10)) % 97
      BY <1>4, <2>3, <2>7, <3>1
    <3>4. r[q] = (r[p] * 100 + v) % 97
      <4>2. (((r[p] * 10 + (v \div 10)) % 97) * 10 + (v % 10)) % 97
              = (r[p] * 100 + (10 * (v \div 10) + (v % 10))) % 97
        <5> DEFINE x == r[p]
                   a == v \div 10
                   b == v % 10
        <5>1. x \in Nat /\ a \in Nat /\ b \in Nat
          BY <2>2, <2>5
        <5> HIDE DEF x, a, b
        <5>2. (((x * 10 + a) % 97) * 10 + b) % 97 = (x * 100 + (10 * a + b)) % 97
          BY <5>1, Mod97Two
        <5> QED BY <5>2 DEF x, a, b
      <4> QED BY <2>5, <3>2, <3>3, <4>2
    <3>5. r[q] = f[n]
      BY <2>4, <2>7, <3>4 DEF FoldStep, v
    <3> QED BY <2>1, <3>5 DEF T, q
  <2> QED BY <2>6, <2>7
<1> HIDE DEF T
<1>7. 0..top \subseteq T
  BY <1>1, <1>5, <1>6, Induction
<1>8. top \in T
  BY <1>1, <1>7
<1> QED BY <1>2, <1>8 DEF T

LEMMA FoldAgrees ==
  ASSUME NEW s, NEW t, NEW f, NEW g, Len(s) \in Nat, Len(t) \in Nat, Len(t) <= Len(s),
         Folds(f, s), Folds(g, t), \A n \in 1..Len(t) : s[n] = t[n]
  PROVE  f[Len(t)] = g[Len(t)]
<1>1. \A n \in 1..Len(t) : n \in 1..Len(s)
  OBVIOUS
<1>2. f[0] = g[0] /\ \A n \in 1..Len(t) : f[n - 1] = g[n - 1] => f[n] = g[n]
  BY <1>1 DEF Folds
<1> QED BY <1>2, RecursionAgrees

LEMMA LeiCloses ==
  ASSUME NEW F \in Nat, NEW a \in Digit, NEW b \in Digit
  PROVE  LET check == 98 - ((F * 100) % 97)
         IN  (a = ToDigit(check \div 10) /\ b = ToDigit(check % 10)) <=>
               /\ (F * 100 + (10 * Value(a) + Value(b))) % 97 = 1
               /\ 10 * Value(a) + Value(b) \in 2..98
<1> DEFINE x == (F * 100) % 97
           u == Value(a)
           v == Value(b)
           c == 10 * u + v
           check == 98 - x
<1>1. u \in 0..9 /\ v \in 0..9 /\ a = 48 + u /\ b = 48 + v
  BY DEF Value, Digit
<1>2. x \in 0..96 /\ (F * 100 + c) % 97 = (x + c) % 97
  <2>1. \A y \in Nat, z \in Nat : y % 97 \in 0..96 /\ (y + z) % 97 = ((y % 97) + z) % 97
    OBVIOUS
  <2>2. F * 100 \in Nat /\ c \in Nat
    BY <1>1
  <2> HIDE DEF c
  <2> QED BY <2>1, <2>2
<1> HIDE DEF x, u, v
<1>3. check \in 2..98 /\ c \in 0..99
  BY <1>1, <1>2
<1>4. (x + c) % 97 = 1 /\ c \in 2..98 <=> c = check
  <2>1. c \in 2..98 => ((x + c) % 97 = 1 <=> x + c = 98)
    <3> SUFFICES ASSUME c \in 2..98 PROVE (x + c) % 97 = 1 <=> x + c = 98
      OBVIOUS
    <3>1. x + c \in 2..194
      BY <1>2
    <3> HIDE DEF c
    <3> QED BY <3>1
  <2> QED BY <1>2, <1>3, <2>1
<1>5. a = ToDigit(check \div 10) /\ b = ToDigit(check % 10) <=> c = check
  <2>1. check \in Nat
    BY <1>3
  <2>2. check = 10 * (check \div 10) + (check % 10) /\ check % 10 \in 0..9 /\ check \div 10 \in Nat
    <3> HIDE DEF check
    <3> QED BY <2>1, Split10
  <2> DEFINE k == check \div 10
             m == check % 10
  <2> HIDE DEF k, m, check
  <2>3. check = 10 * k + m /\ m \in 0..9 /\ k \in Nat
    BY <2>2 DEF k, m
  <2>4. a = ToDigit(k) /\ b = ToDigit(m) <=> u = k /\ v = m
    BY <1>1, <2>3 DEF ToDigit
  <2>5. u = k /\ v = m <=> 10 * u + v = check
    BY <1>1, <2>3
  <2> QED BY <2>4, <2>5 DEF k, m
<1> QED BY <1>2, <1>4, <1>5 DEF x, u, v

LEMMA LeiAgrees ==
  ASSUME NEW s \in Seq(Alnum), Len(s) = 20, s[19] \in Digit, s[20] \in Digit
  PROVE  SubSeq(s, 19, Len(s)) = LeiDigits(Base(s, 18)) <=> LeiReference(s)
<1> DEFINE head == Base(s, 18)
           d == Expanded(s)
<1>1. head \in Seq(Alnum) /\ Len(head) = 18 /\ \A n \in 1..18 : s[n] = head[n]
  <2>1. 18 \in Nat /\ 18 <= Len(s)
    OBVIOUS
  <2> QED BY <2>1, BaseOf
<1>2. PICK pos : Spelled(s, d, pos)
  BY ExpandedSpells
<1>3. PICK r : /\ Remains(r, d)
               /\ LeiReference(s) <=> r[Len(d)] = 1 /\ 10 * Value(s[19]) + Value(s[20]) \in 2..98
  BY LeiReferenceRemains
<1>4. PICK f : Folds(f, s) /\ FoldMod97(s) = f[Len(s)]
  BY FoldMod97Folds
<1> HIDE DEF head, d
<1>5. PICK g : Folds(g, head) /\ FoldMod97(head) = g[Len(head)]
  BY <1>1, FoldMod97Folds
<1>6. r[Len(d)] = f[20]
  <2>1. Remains(r, d) /\ Folds(f, s)
    BY <1>3, <1>4
  <2>2. r[Len(d)] = f[Len(s)]
    BY ONLY s \in Seq(Alnum), <1>2, <2>1, RemainsFolds
  <2> QED BY <2>2
<1>7. f[18] = g[18]
  <2>1. Len(s) \in Nat /\ Len(head) \in Nat /\ Len(head) <= Len(s)
    BY <1>1
  <2>2. Folds(f, s) /\ Folds(g, head) /\ \A n \in 1..Len(head) : s[n] = head[n]
    BY <1>1, <1>4, <1>5
  <2>3. f[Len(head)] = g[Len(head)]
    BY ONLY <2>1, <2>2, FoldAgrees
  <2> QED BY <1>1, <2>3
<1> DEFINE F == FoldMod97(head)
           u == Value(s[19])
           v == Value(s[20])
<1>8. F = f[18] /\ F \in Nat
  <2>1. 18 \in 0..Len(s) /\ f \in [0..Len(s) -> Nat]
    BY <1>4 DEF Folds
  <2> QED BY <1>1, <1>5, <1>7, <2>1
<1>9. u \in Nat /\ v \in Nat
  BY DEF Value, Digit
<1> HIDE DEF F, u, v
<1>10. f[20] = (F * 100 + (10 * u + v)) % 97
  <2>1. f[19] = FoldStep(f[18], s[19]) /\ f[20] = FoldStep(f[19], s[20])
    <3>1. 19 \in 1..Len(s) /\ 20 \in 1..Len(s) /\ 19 - 1 = 18 /\ 20 - 1 = 19
      OBVIOUS
    <3>2. \A n \in 1..Len(s) : f[n] = FoldStep(f[n - 1], s[n])
      BY <1>4 DEF Folds
    <3>3. f[19] = FoldStep(f[19 - 1], s[19]) /\ f[20] = FoldStep(f[20 - 1], s[20])
      BY <3>1, <3>2
    <3> QED BY <3>1, <3>3
  <2>2. f[19] = (F * 10 + u) % 97 /\ f[20] = (f[19] * 10 + v) % 97
    BY <1>8, <2>1 DEF FoldStep, u, v
  <2>3. (((F * 10 + u) % 97) * 10 + v) % 97 = (F * 100 + (10 * u + v)) % 97
    <3>1. F \in Nat /\ u \in Nat /\ v \in Nat
      BY <1>8, <1>9
    <3> QED BY ONLY <3>1, Mod97Two
  <2> QED BY <2>2, <2>3
<1>11. SubSeq(s, 19, Len(s)) = <<s[19], s[20]>>
  <2>1. 18 \in Nat /\ 18 + 1 = 19 /\ 18 + 2 = 20
    OBVIOUS
  <2> QED BY <2>1, LastTwo
<1>12. LeiDigits(head) = <<ToDigit((98 - ((F * 100) % 97)) \div 10), ToDigit((98 - ((F * 100) % 97)) % 10)>>
  BY DEF LeiDigits, F
<1>13. SubSeq(s, 19, Len(s)) = LeiDigits(head) <=>
         /\ s[19] = ToDigit((98 - ((F * 100) % 97)) \div 10)
         /\ s[20] = ToDigit((98 - ((F * 100) % 97)) % 10)
  BY <1>11, <1>12
<1>14. SubSeq(s, 19, Len(s)) = LeiDigits(head) <=>
         (F * 100 + (10 * u + v)) % 97 = 1 /\ 10 * u + v \in 2..98
  <2>1. /\ s[19] = ToDigit((98 - ((F * 100) % 97)) \div 10)
        /\ s[20] = ToDigit((98 - ((F * 100) % 97)) % 10)
        <=> (F * 100 + (10 * u + v)) % 97 = 1 /\ 10 * u + v \in 2..98
    <3>1. F \in Nat
      BY <1>8
    <3> QED BY <3>1, LeiCloses DEF u, v
  <2> QED BY <1>13, <2>1
<1> QED BY <1>3, <1>6, <1>10, <1>14 DEF head, u, v

-----------------------------------------------------------------------------
(* The check digit of an ISIN.                                             *)
Luhn == [sum : Nat, double : BOOLEAN]
LuhnNext(p, c) ==
  IF c \in Digit
  THEN [sum |-> p.sum + LuhnStep(Value(c), p.double), double |-> ~p.double]
  ELSE [p EXCEPT !.sum = @ + LuhnStep(Value(c) % 10, p.double)
                           + LuhnStep(Value(c) \div 10, ~p.double)]
Runs(L, s) ==
  /\ L \in [0..Len(s) -> Luhn] /\ L[0] = [sum |-> 0, double |-> TRUE]
  /\ \A n \in 1..Len(s) : L[n] = LuhnNext(L[n - 1], s[Len(s) + 1 - n])

LEMMA LuhnStepNatural ==
  ASSUME NEW v \in 0..9, NEW double
  PROVE  LuhnStep(v, double) \in Nat
BY DEF LuhnStep

LEMMA LuhnNextIs ==
  ASSUME NEW p \in Luhn, NEW c \in Alnum
  PROVE  /\ LuhnNext(p, c) \in Luhn
         /\ c \in Digit => /\ LuhnNext(p, c).sum = p.sum + LuhnStep(Value(c), p.double)
                           /\ LuhnNext(p, c).double = ~p.double
         /\ c \notin Digit => /\ LuhnNext(p, c).sum = p.sum + LuhnStep(Value(c) % 10, p.double)
                                                            + LuhnStep(Value(c) \div 10, ~p.double)
                              /\ LuhnNext(p, c).double = p.double
<1>1. p.sum \in Nat /\ p.double \in BOOLEAN /\ p = [sum |-> p.sum, double |-> p.double]
  BY DEF Luhn
<1>2. CASE c \in Digit
  <2>1. LuhnStep(Value(c), p.double) \in Nat
    BY <1>2, ValuesInRange, LuhnStepNatural
  <2>2. LuhnNext(p, c) = [sum |-> p.sum + LuhnStep(Value(c), p.double), double |-> ~p.double]
    BY <1>2 DEF LuhnNext
  <2> QED BY <1>1, <1>2, <2>1, <2>2 DEF Luhn
<1>3. CASE c \notin Digit
  <2> DEFINE k == LuhnStep(Value(c) % 10, p.double)
             m == LuhnStep(Value(c) \div 10, ~p.double)
  <2>1. k \in Nat /\ m \in Nat
    BY ValuesInRange, LuhnStepNatural
  <2>2. LuhnNext(p, c) = [sum |-> p.sum + k + m, double |-> p.double]
    BY <1>1, <1>3 DEF LuhnNext
  <2> HIDE DEF k, m
  <2>3. LuhnNext(p, c).sum = p.sum + k + m /\ LuhnNext(p, c).double = p.double
    BY <2>2
  <2>4. LuhnNext(p, c) \in Luhn
    BY <1>1, <2>1, <2>2 DEF Luhn
  <2> QED BY <1>3, <2>3, <2>4 DEF k, m
<1> QED BY <1>2, <1>3

LEMMA IsinDigitRuns ==
  ASSUME NEW s \in Seq(Alnum)
  PROVE  \E L : Runs(L, s) /\ IsinDigit(s) = ToDigit((10 - (L[Len(s)].sum % 10)) % 10)
<1> DEFINE top == Len(s)
           go == [i \in 1..top |-> [x \in Luhn |-> LuhnNext(x, s[top + 1 - i])]]
           zero == [sum |-> 0, double |-> TRUE]
<1>1. top \in Nat
  OBVIOUS
<1>2. ASSUME NEW i \in 1..top PROVE s[top + 1 - i] \in Alnum
  <2>1. top + 1 - i \in 1..top
    BY <1>1
  <2> QED BY <2>1, ElementOfSeq
<1>3. go \in [1..top -> [Luhn -> Luhn]]
  BY <1>2, LuhnNextIs
<1>4. zero \in Luhn
  BY DEF Luhn
<1> HIDE DEF go, top, zero
<1>5. ASSUME NEW g, Iterates(g, top, Luhn, zero, go)
      PROVE  /\ g \in [0..top -> Luhn] /\ g[0] = zero
             /\ \A n \in 1..top : g[n] = LuhnNext(g[n - 1], s[top + 1 - n])
  <2>1. /\ g \in [0..top -> Luhn] /\ g[0] = zero
        /\ \A n \in 1..top : g[n] = go[n][g[n - 1]]
    BY <1>5 DEF Iterates
  <2>a. g \in [0..top -> Luhn]
    BY <2>1
  <2>2. \A n \in 1..top : g[n - 1] \in Luhn
    BY ONLY <1>1, <2>a, Earlier
  <2> QED BY <2>1, <2>2 DEF go
<1>6. PICK f : Iterates(f, top, Luhn, zero, go)
  BY <1>1, <1>3, <1>4, RecursionExists
<1> DEFINE luhn == CHOOSE luhn : luhn = [n \in 0..top |->
        IF n = 0 THEN [sum |-> 0, double |-> TRUE]
        ELSE IF s[top + 1 - n] \in Digit
             THEN [sum |-> luhn[n - 1].sum + LuhnStep(Value(s[top + 1 - n]), luhn[n - 1].double),
                   double |-> ~luhn[n - 1].double]
             ELSE [luhn[n - 1] EXCEPT
                     !.sum = @ + LuhnStep(Value(s[top + 1 - n]) % 10, luhn[n - 1].double)
                               + LuhnStep(Value(s[top + 1 - n]) \div 10, ~luhn[n - 1].double)]]
<1>7. f = [n \in 0..top |-> IF n = 0 THEN zero ELSE LuhnNext(f[n - 1], s[top + 1 - n])]
  <2>1. \A n \in 0..top : n # 0 => n \in 1..top
    BY <1>1
  <2> QED BY <1>5, <1>6, <2>1
<1>8. luhn = [n \in 0..top |-> IF n = 0 THEN zero ELSE LuhnNext(luhn[n - 1], s[top + 1 - n])]
  BY <1>7 DEF LuhnNext, zero
<1>9. IsinDigit(s) = ToDigit((10 - (luhn[top].sum % 10)) % 10)
  BY DEF IsinDigit, top
<1> HIDE DEF luhn
<1>10. luhn[0] = zero /\ \A n \in 1..top : luhn[n] = LuhnNext(luhn[n - 1], s[top + 1 - n])
  BY <1>1, <1>8
<1>11. Iterates(luhn, top, Luhn, zero, go)
  <2>1. \A n \in 1..top : luhn[n - 1] \in Luhn => luhn[n] = go[n][luhn[n - 1]]
    BY <1>10 DEF go
  <2>2. luhn = [n \in 0..top |-> luhn[n]]
    BY <1>8
  <2>3. top \in Nat /\ luhn[0] = zero
    BY <1>1, <1>10
  <2> HIDE DEF zero
  <2> QED BY ONLY <1>3, <1>4, <2>1, <2>2, <2>3, Iterated
<1>12. Runs(luhn, s)
  BY <1>5, <1>11 DEF Runs, top, zero
<1> QED BY <1>9, <1>12 DEF top

(* The sums of the reference, from the left: whether a place is doubled    *)
(* depends on how many are to its right.                                   *)
Doubled(top, k) == (top - k) % 2 # 0

LEMMA DoubledAlternates ==
  ASSUME NEW top \in Nat, NEW k \in 1..top
  PROVE  /\ Doubled(top, k) \in BOOLEAN /\ Doubled(top, k - 1) = ~Doubled(top, k)
         /\ Doubled(top, top) = FALSE
<1>1. top - (k - 1) = (top - k) + 1 /\ top - k \in Nat /\ (top - top) % 2 = 0
  OBVIOUS
<1>2. \A x \in Nat : ((x + 1) % 2 # 0) = ~(x % 2 # 0)
  OBVIOUS
<1> QED BY <1>1, <1>2 DEF Doubled

Adds(S, d) ==
  /\ S \in [0..Len(d) -> Nat] /\ S[0] = 0
  /\ \A n \in 1..Len(d) : S[n] = S[n - 1] + LuhnStep(d[n], Doubled(Len(d), n))

LEMMA LuhnTerm ==
  ASSUME NEW v \in 0..9, NEW even \in BOOLEAN
  PROVE  (IF even THEN v ELSE ((2 * v) \div 10) + ((2 * v) % 10)) = LuhnStep(v, ~even)
<1>1. ((2 * v) \div 10) + ((2 * v) % 10) = IF 2 * v > 9 THEN 2 * v - 9 ELSE 2 * v
  OBVIOUS
<1>2. CASE even = TRUE
  BY <1>2 DEF LuhnStep
<1>3. CASE even = FALSE
  BY <1>1, <1>3 DEF LuhnStep
<1> QED BY <1>2, <1>3

LEMMA IsinReferenceAdds ==
  ASSUME NEW s \in Seq(Alnum)
  PROVE  \E S : Adds(S, Expanded(s)) /\ (IsinReference(s) <=> S[Len(Expanded(s))] % 10 = 0)
<1> DEFINE d == Expanded(s)
           top == Len(d)
           term == [k \in 1..top |-> LuhnStep(d[k], Doubled(top, k))]
           more == [i \in 1..top |-> [x \in Nat |-> x + term[i]]]
<1>1. d \in Seq(Decimal)
  BY ExpandedSpells DEF Spelled
<1>2. top \in Nat /\ \A k \in 1..top : d[k] \in 0..9
  BY <1>1, ElementOfSeq DEF Decimal
<1> HIDE DEF d, top
<1>3. \A k \in 1..top : term[k] \in Nat
  BY <1>2, LuhnStepNatural
<1>4. \A k \in 1..top :
        (IF (top - k) % 2 = 0 THEN d[k] ELSE ((2 * d[k]) \div 10) + ((2 * d[k]) % 10)) = term[k]
  <2> TAKE k \in 1..top
  <2> DEFINE even == (top - k) % 2 = 0
  <2>1. even \in BOOLEAN /\ d[k] \in 0..9
    BY <1>2
  <2> HIDE DEF even
  <2>2. (IF even THEN d[k] ELSE ((2 * d[k]) \div 10) + ((2 * d[k]) % 10)) = LuhnStep(d[k], ~even)
    BY <2>1, LuhnTerm
  <2> QED BY <2>2 DEF even, Doubled
<1> HIDE DEF term
<1>5. more \in [1..top -> [Nat -> Nat]]
  BY <1>3
<1> HIDE DEF more
<1>6. ASSUME NEW g, Iterates(g, top, Nat, 0, more)
      PROVE  /\ g \in [0..top -> Nat] /\ g[0] = 0
             /\ \A n \in 1..top : g[n] = g[n - 1] + term[n]
  <2>1. /\ g \in [0..top -> Nat] /\ g[0] = 0
        /\ \A n \in 1..top : g[n] = more[n][g[n - 1]]
    BY <1>6 DEF Iterates
  <2>a. g \in [0..top -> Nat]
    BY <2>1
  <2>2. \A n \in 1..top : g[n - 1] \in Nat
    BY ONLY <1>2, <2>a, Earlier
  <2> QED BY <2>1, <2>2 DEF more
<1>7. PICK f : Iterates(f, top, Nat, 0, more)
  BY <1>2, <1>5, RecursionExists
<1> DEFINE sum == CHOOSE sum : sum = [n \in 0..top |->
              IF n = 0 THEN 0
              ELSE sum[n - 1] + (IF (top - n) % 2 = 0 THEN d[n]
                                 ELSE ((2 * d[n]) \div 10) + ((2 * d[n]) % 10))]
<1>8. f = [n \in 0..top |->
             IF n = 0 THEN 0
             ELSE f[n - 1] + (IF (top - n) % 2 = 0 THEN d[n]
                              ELSE ((2 * d[n]) \div 10) + ((2 * d[n]) % 10))]
  <2>1. \A n \in 0..top : n # 0 => n \in 1..top
    BY <1>2
  <2>2. /\ f \in [0..top -> Nat] /\ f[0] = 0
        /\ \A n \in 1..top : f[n] = f[n - 1] + term[n]
    BY <1>6, <1>7
  <2>3. \A n \in 1..top :
          f[n] = f[n - 1] + (IF (top - n) % 2 = 0 THEN d[n]
                             ELSE ((2 * d[n]) \div 10) + ((2 * d[n]) % 10))
    BY <1>4, <2>2
  <2> QED BY <2>1, <2>2, <2>3
<1>9. sum = [n \in 0..top |->
               IF n = 0 THEN 0
               ELSE sum[n - 1] + (IF (top - n) % 2 = 0 THEN d[n]
                                  ELSE ((2 * d[n]) \div 10) + ((2 * d[n]) % 10))]
  BY <1>8
<1>10. IsinReference(s) <=> sum[top] % 10 = 0
  BY DEF IsinReference, top, d
<1> HIDE DEF sum
<1>11. sum[0] = 0 /\ \A n \in 1..top : sum[n] = sum[n - 1] + term[n]
  <2>1. 0 \in 0..top /\ \A n \in 1..top : n \in 0..top /\ n # 0
    BY <1>2
  <2> QED BY <1>4, <1>9, <2>1
<1>12. Iterates(sum, top, Nat, 0, more)
  <2>1. \A n \in 1..top : sum[n - 1] \in Nat => sum[n] = more[n][sum[n - 1]]
    BY <1>11 DEF more
  <2>2. sum = [n \in 0..top |-> sum[n]]
    BY <1>9
  <2>3. top \in Nat /\ sum[0] = 0
    BY <1>2, <1>11
  <2> QED BY ONLY <1>5, <2>1, <2>2, <2>3, Iterated
<1>13. Adds(sum, d)
  BY <1>6, <1>12 DEF Adds, top, term
<1> QED BY <1>10, <1>13 DEF top, d

(* What LuhnStep adds from the right is what the reference adds.           *)
(* The two sums over an ISIN: of the reference, from the left over the      *)
(* digits d that s spells, and of the code, from the right over base.      *)
TwoSums(s, d, pos, S, base, L) ==
  /\ s \in Seq(Alnum) /\ Len(s) = 12 /\ s[12] \in Digit
  /\ Spelled(s, d, pos) /\ Adds(S, d)
  /\ base \in Seq(Alnum) /\ Len(base) = 11 /\ \A n \in 1..11 : base[n] = s[n]
  /\ Runs(L, base)

LEMMA RunsAdd ==
  ASSUME NEW s, NEW d, NEW pos, NEW S, NEW base, NEW L, TwoSums(s, d, pos, S, base, L)
  PROVE  S[Len(d)] = L[11].sum + Value(s[12])
<1>0. /\ s \in Seq(Alnum) /\ Len(s) = 12 /\ s[12] \in Digit
      /\ Spelled(s, d, pos) /\ Adds(S, d)
      /\ base \in Seq(Alnum) /\ Len(base) = 11 /\ \A n \in 1..11 : base[n] = s[n]
      /\ Runs(L, base)
  BY DEF TwoSums
<1> USE <1>0
<1> DEFINE top == Len(d)
           T == { m \in 0..11 : /\ L[m].sum + S[pos[11 - m]] = S[pos[11]]
                                /\ L[m].double = Doubled(top, pos[11 - m]) }
<1>1. d \in Seq(Decimal)
  BY DEF Spelled
<1>2. top \in Nat
  BY <1>1
<1>3. \A k \in 1..top : d[k] \in 0..9
  BY <1>1, ElementOfSeq DEF Decimal
<1>4. pos \in [0..12 -> 0..top] /\ pos[0] = 0 /\ pos[12] = top
  BY DEF Spelled
<1>5. \A n \in 1..12 :
        /\ s[n] \in Digit => pos[n] = pos[n - 1] + 1 /\ d[pos[n]] = Value(s[n])
        /\ s[n] \notin Digit => /\ pos[n] = pos[n - 1] + 2
                                /\ d[pos[n - 1] + 1] = Value(s[n]) \div 10
                                /\ d[pos[n]] = Value(s[n]) % 10
  BY DEF Spelled
<1>6. /\ S \in [0..top -> Nat] /\ S[0] = 0
      /\ \A n \in 1..top : S[n] = S[n - 1] + LuhnStep(d[n], Doubled(top, n))
  BY DEF Adds
<1>7. /\ L \in [0..11 -> Luhn] /\ L[0] = [sum |-> 0, double |-> TRUE]
      /\ \A n \in 1..11 : L[n] = LuhnNext(L[n - 1], base[11 + 1 - n])
  BY DEF Runs
<1> HIDE DEF top, T
<1>8. /\ pos[11] = top - 1 /\ d[top] = Value(s[12]) /\ top \in 1..top
      /\ S[top] = S[top - 1] + Value(s[12])
  <2>1. 12 \in 1..12 /\ 12 - 1 = 11 /\ 11 \in 0..12
    OBVIOUS
  <2>2. pos[12] = pos[12 - 1] + 1 /\ d[pos[12]] = Value(s[12])
    BY <1>5, <2>1
  <2>3. top = pos[11] + 1 /\ d[top] = Value(s[12])
    BY <1>4, <2>1, <2>2
  <2>4. pos[11] \in 0..top
    BY <1>4, <2>1
  <2>5. pos[11] = top - 1 /\ top \in 1..top
    <3>1. \A q \in 0..top : top = q + 1 => q = top - 1 /\ top \in 1..top
      BY <1>2
    <3> QED BY <2>3, <2>4, <3>1
  <2>6. S[top] = S[top - 1] + LuhnStep(d[top], Doubled(top, top))
    BY <1>6, <2>5
  <2>7. LuhnStep(d[top], Doubled(top, top)) = d[top]
    BY <1>2, <2>5, DoubledAlternates DEF LuhnStep
  <2> QED BY <2>3, <2>5, <2>6, <2>7
<1>9. 0 \in T
  <2>1. L[0].sum = 0 /\ L[0].double = TRUE /\ 11 - 0 = 11 /\ 0 \in 0..11
    BY <1>7
  <2>2. pos[11] \in 0..top /\ S[pos[11]] \in Nat
    BY <1>4, <1>6
  <2>3. L[0].sum + S[pos[11]] = S[pos[11]]
    BY <2>1, <2>2
  <2>4. Doubled(top, pos[11]) = TRUE
    BY <1>2, <1>8, DoubledAlternates
  <2> QED BY <2>1, <2>3, <2>4 DEF T
<1>10. ASSUME NEW m \in 1..11, m - 1 \in T PROVE m \in T
  <2> DEFINE n == 12 - m
             p == pos[n - 1]
             q == pos[n]
             P == L[m - 1]
             v == Value(s[n])
  <2>1. /\ n \in 1..11 /\ n - 1 = 11 - m /\ n = 11 - (m - 1) /\ 11 + 1 - m = n
        /\ m \in 0..11 /\ m - 1 \in 0..11 /\ n \in 0..12 /\ n - 1 \in 0..12 /\ n \in 1..12
    OBVIOUS
  <2>2. s[n] \in Alnum /\ base[n] = s[n]
    BY <2>1, ElementOfSeq
  <2>3. P \in Luhn /\ L[m] = LuhnNext(P, s[n])
    BY <1>7, <2>1, <2>2
  <2>4. P.sum + S[q] = S[pos[11]] /\ P.double = Doubled(top, q)
    BY <1>10, <2>1 DEF T
  <2>5. /\ s[n] \in Digit => q = p + 1 /\ d[q] = v
        /\ s[n] \notin Digit => q = p + 2 /\ d[p + 1] = v \div 10 /\ d[q] = v % 10
    BY <1>5, <2>1
  <2>0. top \in Nat
    BY <1>2
  <2>6. p \in 0..top /\ q \in 0..top
    BY <1>4, <2>1
  <2>7. S[p] \in Nat /\ S[q] \in Nat
    BY <1>6, <2>6
  <2>8. P.sum \in Nat /\ P.double \in BOOLEAN
    BY <2>3 DEF Luhn
  <2>a. P.sum + S[q] = S[pos[11]] /\ P.sum \in Nat
    BY <2>4, <2>8
  <2>9. L[m].sum + S[p] = S[pos[11]] /\ L[m].double = Doubled(top, p) => m \in T
    BY <2>1 DEF T
  <2> HIDE DEF n, p, q, P, v
  <2>10. CASE s[n] \in Digit
    <3>1. q = p + 1 /\ d[q] = v
      BY <2>5, <2>10
    <3>2. q \in 1..top /\ q - 1 = p
      BY ONLY <2>6, <3>1
    <3>3. S[q] = S[p] + LuhnStep(v, P.double)
      <4>1. S[q] = S[q - 1] + LuhnStep(d[q], Doubled(top, q))
        BY <1>6, <3>2
      <4> QED BY <2>4, <3>1, <3>2, <4>1
    <3>4. L[m].sum = P.sum + LuhnStep(v, P.double) /\ L[m].double = ~P.double
      BY <2>2, <2>3, <2>10, LuhnNextIs DEF v
    <3>5. LuhnStep(v, P.double) \in Nat
      BY <2>2, <2>10, ValuesInRange, LuhnStepNatural DEF v
    <3>6. L[m].sum + S[p] = S[pos[11]]
      <4> DEFINE t == LuhnStep(v, P.double)
      <4> HIDE DEF t
      <4>1. t \in Nat /\ S[q] = S[p] + t /\ L[m].sum = P.sum + t
        BY <3>3, <3>4, <3>5 DEF t
      <4> QED BY ONLY <2>7, <2>a, <4>1
    <3>7. L[m].double = Doubled(top, p)
      BY <1>2, <2>4, <3>2, <3>4, DoubledAlternates
    <3> QED BY <2>9, <3>6, <3>7
  <2>11. CASE s[n] \notin Digit
    <3> DEFINE k == p + 1
    <3>1. q = p + 2 /\ d[q] = v % 10 /\ d[k] = v \div 10
      BY <2>5, <2>11
    <3>2. q \in 1..top /\ q - 1 = k /\ k \in 1..top /\ k - 1 = p
      BY ONLY <2>0, <2>6, <3>1
    <3> HIDE DEF k
    <3>3. Doubled(top, k) = ~Doubled(top, q) /\ Doubled(top, p) = ~Doubled(top, k)
      BY <1>2, <3>2, DoubledAlternates
    <3>4. Doubled(top, k) = ~P.double /\ Doubled(top, p) = P.double
      BY <2>4, <2>8, <3>3
    <3>5. S[q] = S[k] + LuhnStep(v % 10, P.double)
      <4>1. S[q] = S[q - 1] + LuhnStep(d[q], Doubled(top, q))
        BY <1>6, <3>2
      <4> QED BY <2>4, <3>1, <3>2, <4>1
    <3>6. S[k] = S[p] + LuhnStep(v \div 10, ~P.double)
      <4>1. S[k] = S[k - 1] + LuhnStep(d[k], Doubled(top, k))
        BY <1>6, <3>2
      <4> QED BY <3>1, <3>2, <3>4, <4>1
    <3>7. /\ L[m].sum = P.sum + LuhnStep(v % 10, P.double) + LuhnStep(v \div 10, ~P.double)
          /\ L[m].double = P.double
      BY <2>2, <2>3, <2>11, LuhnNextIs DEF v
    <3>8. LuhnStep(v % 10, P.double) \in Nat /\ LuhnStep(v \div 10, ~P.double) \in Nat
      BY <2>2, ValuesInRange, LuhnStepNatural DEF v
    <3>9. L[m].sum + S[p] = S[pos[11]]
      <4> DEFINE t == LuhnStep(v % 10, P.double)
                 u == LuhnStep(v \div 10, ~P.double)
      <4> HIDE DEF t, u
      <4>1. t \in Nat /\ u \in Nat
        BY <3>8 DEF t, u
      <4>2. S[k] = S[p] + u /\ S[q] = S[k] + t /\ L[m].sum = P.sum + t + u
        BY <3>5, <3>6, <3>7 DEF t, u
      <4> QED BY ONLY <2>7, <2>a, <4>1, <4>2
    <3> QED BY <2>9, <3>4, <3>7, <3>9
  <2> QED BY <2>10, <2>11
<1>11. 0..11 \subseteq T
  BY <1>9, <1>10, Induction
<1>12. L[11].sum + S[pos[0]] = S[pos[11]] /\ S[pos[0]] = 0
  <2>1. 11 \in 0..11 /\ 11 - 11 = 0
    OBVIOUS
  <2> QED BY <1>4, <1>6, <1>11, <2>1 DEF T
<1>13. L[11].sum \in Nat
  BY <1>7 DEF Luhn
<1>14. S[top - 1] = L[11].sum
  BY <1>8, <1>12, <1>13
<1> QED BY <1>8, <1>14 DEF top

LEMMA IsinAgrees ==
  ASSUME NEW s \in Seq(Alnum), Len(s) = 12, s[12] \in Digit
  PROVE  SubSeq(s, 12, Len(s)) = <<IsinDigit(Base(s, 11))>> <=> IsinReference(s)
<1> DEFINE base == Base(s, 11)
           d == Expanded(s)
<1>1. base \in Seq(Alnum) /\ Len(base) = 11 /\ \A n \in 1..11 : base[n] = s[n]
  <2>1. 11 \in Nat /\ 11 <= Len(s)
    OBVIOUS
  <2> QED BY <2>1, BaseOf
<1>2. PICK pos : Spelled(s, d, pos)
  BY ExpandedSpells
<1>3. PICK S : Adds(S, d) /\ (IsinReference(s) <=> S[Len(d)] % 10 = 0)
  BY IsinReferenceAdds
<1> HIDE DEF base, d
<1>4. PICK L : Runs(L, base) /\ IsinDigit(base) = ToDigit((10 - (L[Len(base)].sum % 10)) % 10)
  BY <1>1, IsinDigitRuns
<1>5. S[Len(d)] = L[11].sum + Value(s[12])
  <2>1. TwoSums(s, d, pos, S, base, L)
    BY <1>1, <1>2, <1>3, <1>4 DEF TwoSums
  <2> QED BY ONLY <2>1, RunsAdd
<1> DEFINE x == L[11].sum
           v == Value(s[12])
<1>6. x \in Nat
  <2>1. L \in [0..11 -> Luhn] /\ 11 \in 0..11
    BY <1>1, <1>4 DEF Runs
  <2> QED BY <2>1 DEF Luhn
<1>7. v \in 0..9 /\ s[12] = 48 + v
  BY DEF Value, Digit
<1> HIDE DEF x, v
<1>8. (x + v) % 10 = 0 <=> v = (10 - (x % 10)) % 10
  <2>1. (x + v) % 10 = ((x % 10) + v) % 10 /\ x % 10 \in 0..9
    BY <1>6, <1>7
  <2> DEFINE r == x % 10
  <2> HIDE DEF r
  <2>2. r \in 0..9
    BY <2>1 DEF r
  <2>3. (r + v) % 10 = 0 <=> v = (10 - r) % 10
    BY <1>7, <2>2
  <2> QED BY <2>1, <2>3 DEF r
<1>9. SubSeq(s, 12, Len(s)) = <<s[12]>>
  <2>1. \A i \in 12..12 : s[i] \in Alnum
    <3>1. \A i \in 12..12 : i \in 1..Len(s)
      OBVIOUS
    <3> QED BY <3>1, ElementOfSeq
  <2>2. 12 - 12 + 1 = 1 /\ 12 + 1 - 1 = 12 /\ 12 <= 12 /\ 1 \in 1..1
    OBVIOUS
  <2> DEFINE t == SubSeq(s, 12, 12)
  <2>3. t \in Seq(Alnum) /\ Len(t) = 1 /\ \A i \in 1..1 : t[i] = s[12 + i - 1]
    BY <2>1, <2>2, SubSeqProperties
  <2> HIDE DEF t
  <2>4. t[1] = s[12 + 1 - 1]
    BY <2>2, <2>3
  <2>5. t = <<s[12]>>
    BY <2>2, <2>3, <2>4
  <2> QED BY <2>5 DEF t
<1>10. IsinDigit(base) = 48 + ((10 - (x % 10)) % 10)
  BY <1>1, <1>4 DEF ToDigit, x
<1>11. SubSeq(s, 12, Len(s)) = <<IsinDigit(base)>> <=> s[12] = IsinDigit(base)
  BY <1>9
<1>12. (10 - (x % 10)) % 10 \in Nat
  <2>1. x % 10 \in 0..9
    BY <1>6
  <2> QED BY <2>1
<1>13. IsinReference(s) <=> (x + v) % 10 = 0
  BY <1>3, <1>5 DEF x, v
<1> DEFINE w == (10 - (x % 10)) % 10
<1> HIDE DEF w
<1>14. s[12] = 48 + w <=> v = w
  <2>1. w \in Nat
    BY <1>12 DEF w
  <2> QED BY <2>1, <1>7
<1>15. IsinDigit(base) = 48 + w /\ ((x + v) % 10 = 0 <=> v = w)
  BY <1>8, <1>10 DEF w
<1> HIDE DEF x, v
<1>16. IsinReference(s) <=> SubSeq(s, 12, Len(s)) = <<IsinDigit(base)>>
  BY ONLY <1>11, <1>13, <1>14, <1>15
<1> QED BY ONLY <1>16 DEF base

-----------------------------------------------------------------------------
(* Reading texts.                                                          *)

(* Trim takes from the first character that is not a blank to the last.    *)
TrimsTo(s, lo, hi) ==
  /\ lo \in 1..Len(s) /\ hi \in lo..Len(s) /\ s[lo] \notin Blank /\ s[hi] \notin Blank
  /\ \A i \in 1..Len(s) : s[i] \notin Blank => lo <= i /\ i <= hi

LEMMA TrimBetween ==
  ASSUME NEW s \in Seq(Nat), NEW lo, NEW hi, TrimsTo(s, lo, hi)
  PROVE  Trim(s) = SubSeq(s, lo, hi)
<1> DEFINE kept == { i \in DOMAIN s : s[i] \notin Blank }
<1>1. DOMAIN s = 1..Len(s) /\ Len(s) \in Nat
  OBVIOUS
<1>2. lo \in 1..Len(s) /\ hi \in 1..Len(s)
  BY <1>1 DEF TrimsTo
<1>3. lo \in kept /\ hi \in kept /\ \A i \in kept : i \in Nat /\ lo <= i /\ i <= hi
  BY <1>1, <1>2 DEF TrimsTo
<1> HIDE DEF kept
<1>4. Min(kept) = lo
  <2>1. \A x \in kept : (\A y \in kept : x <= y) => x = lo
    BY <1>3
  <2>2. \E x \in kept : \A y \in kept : x <= y
    BY <1>3
  <2> QED BY <2>1, <2>2 DEF Min
<1>5. Max(kept) = hi
  <2>1. \A x \in kept : (\A y \in kept : x >= y) => x = hi
    BY <1>3
  <2>2. \E x \in kept : \A y \in kept : x >= y
    BY <1>3
  <2> QED BY <2>1, <2>2 DEF Max
<1>6. kept # {}
  BY <1>3
<1>7. Trim(s) = IF kept = {} THEN <<>> ELSE SubSeq(s, Min(kept), Max(kept))
  BY DEF Trim, kept
<1> QED BY <1>4, <1>5, <1>6, <1>7

LEMMA TrimBlank ==
  ASSUME NEW s \in Seq(Nat), \A i \in 1..Len(s) : s[i] \in Blank
  PROVE  Trim(s) = <<>>
<1>1. { i \in DOMAIN s : s[i] \notin Blank } = {}
  OBVIOUS
<1> QED BY <1>1 DEF Trim

LEMMA TrimEnds ==
  ASSUME NEW s \in Seq(Nat), NEW k \in 1..Len(s), s[k] \notin Blank
  PROVE  \E lo, hi : TrimsTo(s, lo, hi)
<1> DEFINE kept == { i \in 1..Len(s) : s[i] \notin Blank }
           over == { n \in 1..Len(s) : \A i \in kept : i <= n }
<1>1. Len(s) \in Nat /\ kept \in SUBSET Nat /\ k \in kept
  OBVIOUS
<1>2. PICK lo \in kept : \A i \in kept : lo <= i
  BY <1>1, LeastNatural
<1>3. over \in SUBSET Nat /\ Len(s) \in over
  BY <1>1
<1>4. PICK hi \in over : \A n \in over : hi <= n
  <2> HIDE DEF over
  <2> QED BY <1>3, LeastNatural
<1>5. hi \in kept
  <2> SUFFICES ASSUME hi \notin kept PROVE FALSE
    OBVIOUS
  <2>1. lo <= hi /\ lo # hi /\ lo \in 1..Len(s)
    BY <1>2, <1>4
  <2>2. hi - 1 \in 1..Len(s)
    BY <1>1, <1>4, <2>1
  <2>3. \A i \in kept : i <= hi /\ i # hi /\ i \in Nat
    BY <1>4
  <2>4. \A i \in kept : i <= hi - 1
    BY <1>4, <2>3
  <2>5. hi - 1 \in over
    BY <2>2, <2>4
  <2>6. hi <= hi - 1
    <3> HIDE DEF over
    <3> QED BY <1>4, <2>5
  <2> QED BY <2>1, <2>6
<1>6. TrimsTo(s, lo, hi)
  <2>1. hi \in lo..Len(s)
    BY <1>2, <1>4, <1>5
  <2> QED BY <1>2, <1>4, <1>5, <2>1 DEF TrimsTo
<1> QED BY <1>6

(* What Trim gives is trimmed.                                             *)
Trimmed(s) == s # <<>> => s[1] \notin Blank /\ s[Len(s)] \notin Blank

LEMMA TrimTrims ==
  ASSUME NEW s \in Seq(Nat)
  PROVE  /\ Trim(s) \in Seq(Nat) /\ Trimmed(Trim(s))
         /\ \A i \in 1..Len(Trim(s)) : \E j \in 1..Len(s) : Trim(s)[i] = s[j]
<1>1. CASE \A i \in 1..Len(s) : s[i] \in Blank
  <2>1. Trim(s) = <<>>
    BY <1>1, TrimBlank
  <2> QED BY <2>1 DEF Trimmed
<1>2. CASE ~(\A i \in 1..Len(s) : s[i] \in Blank)
  <2>1. PICK lo, hi : TrimsTo(s, lo, hi)
    BY <1>2, TrimEnds
  <2> DEFINE t == SubSeq(s, lo, hi)
  <2>2. Trim(s) = t
    BY <2>1, TrimBetween
  <2>3. lo \in Int /\ hi \in Int /\ lo <= hi /\ lo \in 1..Len(s) /\ hi \in 1..Len(s)
        /\ s[lo] \notin Blank /\ s[hi] \notin Blank
    BY <2>1 DEF TrimsTo
  <2>4. \A i \in lo..hi : i \in 1..Len(s) /\ s[i] \in Nat
    BY <2>3, ElementOfSeq
  <2>5. t \in Seq(Nat) /\ Len(t) = hi - lo + 1 /\ \A i \in 1..(hi - lo + 1) : t[i] = s[lo + i - 1]
    BY <2>3, <2>4, SubSeqProperties
  <2> HIDE DEF t
  <2>6. \A i \in 1..(hi - lo + 1) : lo + i - 1 \in lo..hi
    BY <2>3
  <2>7. 1 \in 1..(hi - lo + 1) /\ hi - lo + 1 \in 1..(hi - lo + 1)
        /\ lo + 1 - 1 = lo /\ lo + (hi - lo + 1) - 1 = hi
    BY <2>3
  <2>8. t[1] = s[lo] /\ t[Len(t)] = s[hi]
    BY <2>5, <2>7
  <2>9. \A i \in 1..Len(t) : \E j \in 1..Len(s) : t[i] = s[j]
    BY <2>4, <2>5, <2>6
  <2> QED BY <2>2, <2>3, <2>5, <2>8, <2>9 DEF Trimmed
<1> QED BY <1>1, <1>2

LEMMA TrimOfTrimmed ==
  ASSUME NEW s \in Seq(Nat), Trimmed(s)
  PROVE  Trim(s) = s
<1>1. CASE s = <<>>
  <2>1. \A i \in 1..Len(s) : FALSE
    BY <1>1
  <2>2. Trim(s) = <<>>
    BY <2>1, TrimBlank
  <2> QED BY <1>1, <2>2
<1>2. CASE s # <<>>
  <2>1. Len(s) \in Nat /\ 1 <= Len(s)
    BY <1>2, EmptySeq
  <2>2. TrimsTo(s, 1, Len(s))
    BY <1>2, <2>1 DEF TrimsTo, Trimmed
  <2>3. Trim(s) = SubSeq(s, 1, Len(s))
    BY <2>2, TrimBetween
  <2> QED BY <2>3, SubSeqFull
<1> QED BY <1>1, <1>2

(* A CNPJ's formatting is left out, wherever it stands.                    *)
Formatting == {Point, Slash, Dash} \union Blank
Keeps(K, s) ==
  /\ K \in [0..Len(s) -> Seq(Nat)] /\ K[0] = <<>>
  /\ \A n \in 1..Len(s) : K[n] = IF s[n] \in Formatting THEN K[n - 1] ELSE Append(K[n - 1], s[n])

LEMMA AppendNatural ==
  ASSUME NEW t \in Seq(Nat), NEW c \in Nat
  PROVE  Append(t, c) \in Seq(Nat)
BY AppendProperties

LEMMA NatConcat ==
  ASSUME NEW x \in Seq(Nat), NEW y \in Seq(Nat), NEW z \in Seq(Nat)
  PROVE  (x \o y) \o z = x \o (y \o z)
BY ConcatAssociative, SMTT(60)

LEMMA MeaningfulKeeps ==
  ASSUME NEW s \in Seq(Nat)
  PROVE  \E K : Keeps(K, s) /\ Meaningful(s) = K[Len(s)]
<1> DEFINE top == Len(s)
           sift == [i \in 1..top |-> [x \in Seq(Nat) |->
                      IF s[i] \in Formatting THEN x ELSE Append(x, s[i])]]
<1>1. top \in Nat /\ \A i \in 1..top : s[i] \in Nat
  BY ElementOfSeq
<1>2. sift \in [1..top -> [Seq(Nat) -> Seq(Nat)]]
  BY <1>1, AppendNatural
<1>3. <<>> \in Seq(Nat)
  OBVIOUS
<1> HIDE DEF sift, top
<1>4. ASSUME NEW g, Iterates(g, top, Seq(Nat), <<>>, sift)
      PROVE  /\ g \in [0..top -> Seq(Nat)] /\ g[0] = <<>>
             /\ \A n \in 1..top : g[n] = IF s[n] \in Formatting THEN g[n - 1]
                                         ELSE Append(g[n - 1], s[n])
  <2>1. /\ g \in [0..top -> Seq(Nat)] /\ g[0] = <<>>
        /\ \A n \in 1..top : g[n] = sift[n][g[n - 1]]
    BY <1>4 DEF Iterates
  <2>a. g \in [0..top -> Seq(Nat)]
    BY <2>1
  <2>2. \A n \in 1..top : g[n - 1] \in Seq(Nat)
    BY ONLY <1>1, <2>a, Earlier
  <2> QED BY <2>1, <2>2 DEF sift
<1>5. PICK f : Iterates(f, top, Seq(Nat), <<>>, sift)
  BY <1>1, <1>2, <1>3, RecursionExists
<1> DEFINE kept == CHOOSE kept : kept = [n \in 0..top |->
                     IF n = 0 THEN <<>>
                     ELSE IF s[n] \in {Point, Slash, Dash} \union Blank THEN kept[n - 1]
                     ELSE Append(kept[n - 1], s[n])]
<1>6. f = [n \in 0..top |->
             IF n = 0 THEN <<>>
             ELSE IF s[n] \in {Point, Slash, Dash} \union Blank THEN f[n - 1]
             ELSE Append(f[n - 1], s[n])]
  <2>1. \A n \in 0..top : n # 0 => n \in 1..top
    BY <1>1
  <2> QED BY <1>4, <1>5, <2>1 DEF Formatting
<1>7. kept = [n \in 0..top |->
                IF n = 0 THEN <<>>
                ELSE IF s[n] \in Formatting THEN kept[n - 1] ELSE Append(kept[n - 1], s[n])]
  BY <1>6 DEF Formatting
<1>8. Meaningful(s) = kept[top]
  BY DEF Meaningful, top
<1> HIDE DEF kept
<1>9. kept[0] = <<>> /\ \A n \in 1..top : kept[n] = IF s[n] \in Formatting THEN kept[n - 1]
                                                    ELSE Append(kept[n - 1], s[n])
  <2>1. 0 \in 0..top /\ \A n \in 1..top : n \in 0..top /\ n # 0
    BY <1>1
  <2> QED BY <1>7, <2>1
<1>10. Iterates(kept, top, Seq(Nat), <<>>, sift)
  <2>1. \A n \in 1..top : kept[n - 1] \in Seq(Nat) => kept[n] = sift[n][kept[n - 1]]
    BY <1>9 DEF sift
  <2>2. kept = [n \in 0..top |-> kept[n]]
    BY <1>7
  <2>3. top \in Nat /\ kept[0] = <<>>
    BY <1>1, <1>9
  <2> QED BY ONLY <1>2, <1>3, <2>1, <2>2, <2>3, Iterated
<1>11. Keeps(kept, s)
  BY <1>4, <1>10 DEF Keeps, top
<1> QED BY <1>8, <1>11 DEF top

LEMMA MeaningfulText ==
  ASSUME NEW s \in Seq(Nat)
  PROVE  Meaningful(s) \in Seq(Nat)
<1>1. PICK K : Keeps(K, s) /\ Meaningful(s) = K[Len(s)]
  BY MeaningfulKeeps
<1>2. Len(s) \in 0..Len(s)
  OBVIOUS
<1> QED BY <1>1, <1>2 DEF Keeps

LEMMA MeaningfulAll ==
  ASSUME NEW s \in Seq(Nat), \A i \in 1..Len(s) : s[i] \notin Formatting
  PROVE  Meaningful(s) = s
<1>1. PICK K : Keeps(K, s) /\ Meaningful(s) = K[Len(s)]
  BY MeaningfulKeeps
<1> DEFINE top == Len(s)
           Same(t, n) == t \in Seq(Nat) /\ Len(t) = n /\ \A i \in 1..n : t[i] = s[i]
           T == { n \in 0..top : Same(K[n], n) }
<1>2. top \in Nat /\ \A i \in 1..top : s[i] \in Nat
  BY ElementOfSeq
<1>3. K[0] = <<>> /\ \A n \in 1..top : K[n] = Append(K[n - 1], s[n])
  BY <1>1 DEF Keeps
<1> HIDE DEF top
<1>4. 0 \in T
  <2>1. 0 \in 0..top /\ (\A i \in 1..0 : FALSE) /\ <<>> \in Seq(Nat) /\ Len(<<>>) = 0
    BY <1>2
  <2> QED BY <1>3, <2>1
<1>5. ASSUME NEW n \in 1..top, n - 1 \in T PROVE n \in T
  <2> DEFINE t == K[n - 1]
  <2>1. Same(t, n - 1) /\ s[n] \in Nat /\ n \in 0..top
    BY <1>2, <1>5
  <2>2. K[n] = Append(t, s[n])
    BY <1>3
  <2> HIDE DEF t
  <2>3. t \in Seq(Nat) /\ s[n] \in Nat
    BY <2>1
  <2>4. /\ Append(t, s[n]) \in Seq(Nat) /\ Len(Append(t, s[n])) = Len(t) + 1
        /\ \A i \in 1..Len(t) : Append(t, s[n])[i] = t[i]
        /\ Append(t, s[n])[Len(t) + 1] = s[n]
    BY ONLY <2>3, AppendProperties
  <2>5. Len(t) + 1 = n
    BY <1>2, <2>1
  <2>6. \A i \in 1..n : i = n \/ i \in 1..(n - 1)
    OBVIOUS
  <2>7. \A i \in 1..n : Append(t, s[n])[i] = s[i]
    BY <2>1, <2>4, <2>5, <2>6
  <2>8. Same(K[n], n)
    BY <2>2, <2>4, <2>5, <2>7
  <2> QED BY <2>1, <2>8
<1> HIDE DEF T
<1>6. 0..top \subseteq T
  BY <1>2, <1>4, <1>5, Induction
<1>7. Same(K[top], top)
  BY <1>2, <1>6 DEF T
<1> QED BY <1>1, <1>7, SeqEqual DEF top

LEMMA MeaningfulJoins ==
  ASSUME NEW a \in Seq(Nat), NEW b \in Seq(Nat)
  PROVE  Meaningful(a \o b) = Meaningful(a) \o Meaningful(b)
<1> DEFINE s == a \o b
           m == Len(a)
           top == Len(b)
<1>1. /\ s \in Seq(Nat) /\ Len(s) = m + top /\ m \in Nat /\ top \in Nat
      /\ \A k \in 1..m : s[k] = a[k]
      /\ \A k \in 1..top : s[m + k] = b[k]
  BY Joined
<1>2. PICK K : Keeps(K, s) /\ Meaningful(s) = K[Len(s)]
  BY <1>1, MeaningfulKeeps
<1>3. PICK A : Keeps(A, a) /\ Meaningful(a) = A[m]
  BY MeaningfulKeeps
<1>4. PICK B : Keeps(B, b) /\ Meaningful(b) = B[top]
  BY MeaningfulKeeps
<1> HIDE DEF s, m, top
<1>5. K[m] = A[m]
  <2>1. K[0] = <<>> /\ \A n \in 1..m : K[n] = IF a[n] \in Formatting THEN K[n - 1]
                                              ELSE Append(K[n - 1], a[n])
    <3>1. \A n \in 1..m : n \in 1..Len(s)
      BY <1>1
    <3> QED BY <1>1, <1>2, <3>1 DEF Keeps
  <2>2. A[0] = <<>> /\ \A n \in 1..m : A[n] = IF a[n] \in Formatting THEN A[n - 1]
                                              ELSE Append(A[n - 1], a[n])
    BY <1>3 DEF Keeps, m
  <2>3. K[0] = A[0] /\ \A n \in 1..m : K[n - 1] = A[n - 1] => K[n] = A[n]
    BY <2>1, <2>2
  <2> QED BY ONLY <1>1, <2>3, RecursionAgrees
<1>6. A[m] \in Seq(Nat) /\ B \in [0..top -> Seq(Nat)] /\ B[0] = <<>>
  <2>1. m \in 0..m
    BY <1>1
  <2> QED BY <1>3, <1>4, <2>1 DEF Keeps, m, top
<1> DEFINE T == { n \in 0..top : K[m + n] = A[m] \o B[n] }
<1>7. 0 \in T
  <2>1. m + 0 = m /\ A[m] \o <<>> = A[m] /\ 0 \in 0..top
    BY <1>1, <1>6, ConcatEmptySeq
  <2> QED BY <1>5, <1>6, <2>1
<1>8. ASSUME NEW n \in 1..top, n - 1 \in T PROVE n \in T
  <2> DEFINE k == m + n
             x == B[n - 1]
  <2>1. k \in 1..Len(s) /\ k - 1 = m + (n - 1) /\ n \in 0..top /\ n - 1 \in 0..top
    BY <1>1
  <2>2. s[k] = b[n] /\ x \in Seq(Nat) /\ b[n] \in Nat
    BY <1>1, <1>6, <2>1, ElementOfSeq DEF top
  <2> HIDE DEF k, x
  <2>3. K[k] = IF b[n] \in Formatting THEN K[k - 1] ELSE Append(K[k - 1], b[n])
    BY <1>2, <2>1, <2>2 DEF Keeps
  <2>4. K[k - 1] = A[m] \o x
    BY <1>8, <2>1 DEF x
  <2>5. B[n] = IF b[n] \in Formatting THEN x ELSE Append(x, b[n])
    BY <1>4 DEF Keeps, top, x
  <2>6. Append(A[m] \o x, b[n]) = A[m] \o Append(x, b[n])
    <3> DEFINE y == A[m]
    <3>1. y \in Seq(Nat) /\ x \in Seq(Nat) /\ b[n] \in Nat
      BY <1>6, <2>2
    <3> HIDE DEF y
    <3>2. <<b[n]>> \in Seq(Nat) /\ y \o x \in Seq(Nat)
      BY <3>1
    <3>3. Append(y \o x, b[n]) = (y \o x) \o <<b[n]>>
      BY ONLY <3>1, <3>2, AppendIsConcat
    <3>4. Append(x, b[n]) = x \o <<b[n]>>
      BY ONLY <3>1, AppendIsConcat
    <3> DEFINE z == <<b[n]>>
    <3>5. z \in Seq(Nat)
      BY <3>2
    <3> HIDE DEF z
    <3>6. (y \o x) \o z = y \o (x \o z)
      <4>1. y \in Seq(Nat) /\ x \in Seq(Nat) /\ z \in Seq(Nat)
        BY <3>1, <3>5
      <4> QED BY ONLY <4>1, NatConcat, ZenonT(30)
    <3> QED BY <3>3, <3>4, <3>6 DEF y, z
  <2>7. K[k] = A[m] \o B[n]
    BY <2>3, <2>4, <2>5, <2>6
  <2> QED BY <2>1, <2>7 DEF k
<1> HIDE DEF T
<1>9. 0..top \subseteq T
  BY <1>1, <1>7, <1>8, Induction
<1>10. K[m + top] = A[m] \o B[top]
  <2>1. top \in T
    BY <1>1, <1>9
  <2> QED BY <2>1 DEF T
<1> QED BY <1>1, <1>2, <1>3, <1>4, <1>10 DEF s

LEMMA MeaningfulMark ==
  ASSUME NEW c \in Nat, c \in Formatting
  PROVE  Meaningful(<<c>>) = <<>>
<1> DEFINE s == <<c>>
<1>1. s \in Seq(Nat) /\ Len(s) = 1 /\ s[1] = c
  OBVIOUS
<1> HIDE DEF s
<1>2. PICK K : Keeps(K, s) /\ Meaningful(s) = K[Len(s)]
  BY <1>1, MeaningfulKeeps
<1>3. 1 \in 1..Len(s) /\ 1 - 1 = 0
  BY <1>1
<1>4. K[1] = K[0] /\ K[0] = <<>>
  BY <1>1, <1>2, <1>3 DEF Keeps
<1> QED BY <1>1, <1>2, <1>4 DEF s

-----------------------------------------------------------------------------
(* The ways of writing an identifier.                                      *)
Plain == Digit \union Upper \union {Point, Dash}
Low(c) == IF c \in Upper THEN c + 32 ELSE c

LEMMA PlainCharacters ==
  ASSUME NEW c \in Plain
  PROVE  /\ c \in Nat /\ c \in Ascii /\ c \notin Blank /\ ToUpper(c) = c
         /\ Low(c) \in Nat /\ Low(c) \in Ascii /\ Low(c) \notin Blank /\ ToUpper(Low(c)) = c
BY DEF Plain, Low, ToUpper, Digit, Upper, Lower, Point, Dash, Ascii, Blank

LEMMA AlnumCharacters ==
  ASSUME NEW c \in Alnum
  PROVE  c \in Plain /\ c \in Nat /\ c \notin Formatting /\ c \notin Blank
BY DEF Alnum, Plain, Digit, Upper, Formatting, Point, Slash, Dash, Blank

LEMMA LowFormatting ==
  ASSUME NEW c \in Nat
  PROVE  Low(c) \in Nat /\ (Low(c) \in Formatting <=> c \in Formatting)
BY DEF Low, Upper, Formatting, Point, Slash, Dash, Blank

LEMMA LoweredText ==
  ASSUME NEW s \in Seq(Nat)
  PROVE  /\ Lowered(s) \in Seq(Nat) /\ Len(Lowered(s)) = Len(s)
         /\ \A i \in 1..Len(s) : Lowered(s)[i] = Low(s[i])
<1>1. Len(s) \in Nat /\ DOMAIN s = 1..Len(s) /\ \A i \in 1..Len(s) : s[i] \in Nat
  BY ElementOfSeq
<1>2. Lowered(s) = [i \in 1..Len(s) |-> Low(s[i])]
  BY <1>1 DEF Lowered, Low
<1>3. \A i \in 1..Len(s) : Low(s[i]) \in Nat
  BY <1>1, LowFormatting
<1>4. Lowered(s) \in Seq(Nat)
  BY <1>1, <1>2, <1>3
<1> QED BY <1>1, <1>2, <1>4

(* Lower case letters stand where the capitals did.                        *)
LEMMA MeaningfulLowered ==
  ASSUME NEW s \in Seq(Nat)
  PROVE  Meaningful(Lowered(s)) = Lowered(Meaningful(s))
<1> DEFINE low == Lowered(s)
           top == Len(s)
<1>1. /\ low \in Seq(Nat) /\ Len(low) = top /\ top \in Nat
      /\ \A i \in 1..top : low[i] = Low(s[i]) /\ s[i] \in Nat
  BY LoweredText, ElementOfSeq
<1>2. PICK A : Keeps(A, s) /\ Meaningful(s) = A[top]
  BY MeaningfulKeeps
<1> HIDE DEF low
<1>3. PICK B : Keeps(B, low) /\ Meaningful(low) = B[Len(low)]
  BY <1>1, MeaningfulKeeps
<1> HIDE DEF top
<1> DEFINE T == { n \in 0..top : B[n] = Lowered(A[n]) }
<1>4. A \in [0..top -> Seq(Nat)]
  BY <1>2 DEF Keeps, top
<1>5. 0 \in T
  <2>1. A[0] = <<>> /\ B[0] = <<>> /\ 0 \in 0..top
    BY <1>1, <1>2, <1>3 DEF Keeps
  <2>2. Lowered(<<>>) = <<>>
    <3>1. <<>> \in Seq(Nat) /\ Len(<<>>) = 0
      OBVIOUS
    <3>2. Lowered(<<>>) \in Seq(Nat) /\ Len(Lowered(<<>>)) = 0
      BY <3>1, LoweredText
    <3> QED BY <3>2, EmptySeq
  <2> QED BY <2>1, <2>2
<1>6. ASSUME NEW n \in 1..top, n - 1 \in T PROVE n \in T
  <2> DEFINE x == A[n - 1]
             c == s[n]
  <2>1. n - 1 \in 0..top /\ n \in 0..top /\ n \in 1..Len(s) /\ n \in 1..Len(low)
    BY <1>1 DEF top
  <2>2. x \in Seq(Nat) /\ c \in Nat /\ low[n] = Low(c) /\ B[n - 1] = Lowered(x)
    BY <1>1, <1>4, <1>6, <2>1
  <2>3. A[n] = IF c \in Formatting THEN x ELSE Append(x, c)
    BY <1>2, <2>1 DEF Keeps
  <2>4. B[n] = IF Low(c) \in Formatting THEN Lowered(x) ELSE Append(Lowered(x), Low(c))
    BY <1>3, <2>1, <2>2 DEF Keeps
  <2> HIDE DEF x, c
  <2>5. Append(Lowered(x), Low(c)) = Lowered(Append(x, c))
    <3> DEFINE l == Append(Lowered(x), Low(c))
               r == Lowered(Append(x, c))
    <3>1. /\ Lowered(x) \in Seq(Nat) /\ Len(Lowered(x)) = Len(x) /\ Low(c) \in Nat
          /\ \A i \in 1..Len(x) : Lowered(x)[i] = Low(x[i])
      BY <2>2, LoweredText, LowFormatting
    <3>2. /\ l \in Seq(Nat) /\ Len(l) = Len(x) + 1 /\ l[Len(x) + 1] = Low(c)
          /\ \A i \in 1..Len(x) : l[i] = Low(x[i])
      BY <3>1, AppendProperties
    <3>3. /\ Append(x, c) \in Seq(Nat) /\ Len(Append(x, c)) = Len(x) + 1
          /\ Append(x, c)[Len(x) + 1] = c /\ \A i \in 1..Len(x) : Append(x, c)[i] = x[i]
      BY <2>2, AppendProperties
    <3>4. /\ r \in Seq(Nat) /\ Len(r) = Len(x) + 1
          /\ \A i \in 1..(Len(x) + 1) : r[i] = Low(Append(x, c)[i])
      BY <3>3, LoweredText
    <3>5. Len(x) \in Nat /\ \A i \in 1..(Len(x) + 1) : i \in 1..Len(x) \/ i = Len(x) + 1
      BY <2>2
    <3> HIDE DEF l, r
    <3>6. \A i \in 1..(Len(x) + 1) : l[i] = r[i]
      BY <3>2, <3>3, <3>4, <3>5
    <3>7. l = r
      BY <3>2, <3>4, <3>6, SeqEqual
    <3> QED BY <3>7 DEF l, r
  <2>6. B[n] = Lowered(A[n])
    BY <2>2, <2>3, <2>4, <2>5, LowFormatting
  <2> QED BY <2>1, <2>6
<1> HIDE DEF T
<1>7. 0..top \subseteq T
  BY <1>1, <1>5, <1>6, Induction
<1>8. B[top] = Lowered(A[top])
  <2>1. top \in T
    BY <1>1, <1>7
  <2> QED BY <2>1 DEF T
<1> QED BY <1>1, <1>2, <1>3, <1>8 DEF low

(* Text between blanks.                                                    *)
Padded(s) == <<32>> \o s \o <<9, 160>>

LEMMA TrimPadded ==
  ASSUME NEW s \in Seq(Nat), s # <<>>, Trimmed(s)
  PROVE  Padded(s) \in Seq(Nat) /\ Trim(Padded(s)) = s
<1> DEFINE a == <<32>>
           b == <<9, 160>>
           u == a \o s
           t == u \o b
           top == Len(s)
<1>1. /\ a \in Seq(Nat) /\ Len(a) = 1 /\ a[1] = 32
      /\ b \in Seq(Nat) /\ Len(b) = 2 /\ b[1] = 9 /\ b[2] = 160
  OBVIOUS
<1>2. top \in Nat /\ 1 <= top
  BY EmptySeq
<1> HIDE DEF a, b, top
<1>3. u \in Seq(Nat) /\ Len(u) = 1 + top /\ u[1] = 32 /\ \A k \in 1..top : u[1 + k] = s[k]
  <2>1. /\ a \o s \in Seq(Nat) /\ Len(a \o s) = Len(a) + Len(s)
        /\ \A k \in 1..Len(a) : (a \o s)[k] = a[k]
        /\ \A k \in 1..Len(s) : (a \o s)[Len(a) + k] = s[k]
    <3>1. a \in Seq(Nat) /\ s \in Seq(Nat)
      BY <1>1
    <3> QED BY ONLY <3>1, Joined
  <2>2. 1 \in 1..Len(a)
    BY <1>1
  <2> QED BY <1>1, <2>1, <2>2 DEF top
<1> HIDE DEF u
<1>4. /\ t \in Seq(Nat) /\ Len(t) = top + 3
      /\ \A k \in 1..(1 + top) : t[k] = u[k]
      /\ t[top + 2] = 9 /\ t[top + 3] = 160
  <2>1. /\ u \o b \in Seq(Nat) /\ Len(u \o b) = Len(u) + Len(b)
        /\ \A k \in 1..Len(u) : (u \o b)[k] = u[k]
        /\ \A k \in 1..Len(b) : (u \o b)[Len(u) + k] = b[k]
    <3>1. u \in Seq(Nat) /\ b \in Seq(Nat)
      BY <1>1, <1>3
    <3> QED BY ONLY <3>1, Joined
  <2>2. 1 \in 1..Len(b) /\ 2 \in 1..Len(b) /\ Len(u) + 1 = top + 2 /\ Len(u) + 2 = top + 3
        /\ Len(u) + Len(b) = top + 3
    BY <1>1, <1>2, <1>3
  <2>3. t[Len(u) + 1] = b[1] /\ t[Len(u) + 2] = b[2]
    BY <2>1, <2>2
  <2> QED BY <1>1, <1>3, <2>1, <2>2, <2>3
<1> HIDE DEF t
<1>5. t[1] = 32 /\ \A k \in 1..top : t[1 + k] = s[k]
  <2>1. 1 \in 1..(1 + top) /\ \A k \in 1..top : 1 + k \in 1..(1 + top)
    BY <1>2
  <2> QED BY <1>3, <1>4, <2>1
<1>6. TrimsTo(t, 2, top + 1)
  <2>1. t[2] = s[1] /\ t[top + 1] = s[top]
    <3>1. 1 \in 1..top /\ top \in 1..top /\ 1 + 1 = 2 /\ 1 + top = top + 1
      BY <1>2
    <3> QED BY <1>5, <3>1
  <2>2. s[1] \notin Blank /\ s[top] \notin Blank
    BY DEF Trimmed, top
  <2>3. 2 \in 1..Len(t) /\ top + 1 \in 2..Len(t)
    BY <1>2, <1>4
  <2>4. \A i \in 1..Len(t) : i = 1 \/ i = top + 2 \/ i = top + 3 \/ (2 <= i /\ i <= top + 1)
    BY <1>2, <1>4
  <2>5. 32 \in Blank /\ 9 \in Blank /\ 160 \in Blank
    BY DEF Blank
  <2>6. t[1] \in Blank /\ t[top + 2] \in Blank /\ t[top + 3] \in Blank
    BY <1>4, <1>5, <2>5
  <2>7. \A i \in 1..Len(t) : t[i] \notin Blank => 2 <= i /\ i <= top + 1
    BY <2>4, <2>6
  <2> QED BY <2>1, <2>2, <2>3, <2>7 DEF TrimsTo
<1>7. Trim(t) = SubSeq(t, 2, top + 1)
  <2>1. t \in Seq(Nat)
    BY <1>4
  <2> QED BY ONLY <1>6, <2>1, TrimBetween
<1>8. SubSeq(t, 2, top + 1) = s
  <2>1. 2 <= top + 1 /\ top + 1 - 2 + 1 = top /\ \A i \in 2..(top + 1) : i \in 1..Len(t) /\ t[i] \in Nat
    BY <1>2, <1>4, ElementOfSeq
  <2> DEFINE r == SubSeq(t, 2, top + 1)
  <2>2. r \in Seq(Nat) /\ Len(r) = top /\ \A i \in 1..top : r[i] = t[2 + i - 1]
    BY <1>2, <2>1, SubSeqProperties
  <2>3. \A i \in 1..top : 2 + i - 1 = 1 + i
    BY <1>2
  <2> HIDE DEF r
  <2>4. \A i \in 1..top : r[i] = s[i]
    <3> TAKE i \in 1..top
    <3>1. r[i] = t[2 + i - 1] /\ 2 + i - 1 = 1 + i /\ t[1 + i] = s[i]
      BY <1>5, <2>2, <2>3
    <3> QED BY <3>1
  <2>5. r = s
    BY <2>2, <2>4, SeqEqual DEF top
  <2> QED BY <2>5 DEF r
<1> QED BY <1>4, <1>7, <1>8 DEF Padded, t, u, a, b

LEMMA NatJoined ==
  ASSUME NEW a \in Seq(Nat), NEW b \in Seq(Nat)
  PROVE  a \o b \in Seq(Nat) /\ Len(a \o b) = Len(a) + Len(b)
BY Joined

LEMMA MeaningfulPart ==
  ASSUME NEW s \in Seq(Nat), \A i \in 1..Len(s) : s[i] \notin Formatting,
         NEW k \in Nat, NEW m \in Nat, k <= m, m <= Len(s)
  PROVE  LET t == SubSeq(s, k + 1, m) IN t \in Seq(Nat) /\ Meaningful(t) = t
<1> DEFINE t == SubSeq(s, k + 1, m)
<1>1. \A i \in (k + 1)..m : i \in 1..Len(s) /\ s[i] \in Nat /\ s[i] \notin Formatting
  BY ElementOfSeq
<1>2. /\ t \in Seq(Nat) /\ Len(t) = IF k + 1 <= m THEN m - (k + 1) + 1 ELSE 0
      /\ \A i \in 1..(m - (k + 1) + 1) : t[i] = s[k + 1 + i - 1]
  BY <1>1, SubSeqProperties
<1>3. \A i \in 1..(m - (k + 1) + 1) : k + 1 + i - 1 \in (k + 1)..m
  OBVIOUS
<1>4. Len(t) = m - (k + 1) + 1
  BY <1>2
<1> HIDE DEF t
<1>5. \A i \in 1..Len(t) : t[i] \notin Formatting
  BY <1>1, <1>2, <1>3, <1>4
<1>6. Meaningful(t) = t
  BY <1>2, <1>5, MeaningfulAll
<1> QED BY <1>2, <1>6 DEF t

(* A formatted CNPJ so far, x, of the first k characters of s, a mark c,   *)
(* and one more group of characters, up to the m-th.                       *)
Grouping(s, k, m, x, c) ==
  /\ s \in Seq(Nat) /\ \A i \in 1..Len(s) : s[i] \notin Formatting
  /\ k \in Nat /\ m \in Nat /\ k <= m /\ m <= Len(s)
  /\ x \in Seq(Nat) /\ Meaningful(x) = SubSeq(s, 1, k) /\ c \in Formatting

LEMMA MeaningfulGroup ==
  ASSUME NEW s, NEW k, NEW m, NEW x, NEW c, Grouping(s, k, m, x, c)
  PROVE  LET y == (x \o <<c>>) \o SubSeq(s, k + 1, m)
         IN  y \in Seq(Nat) /\ Meaningful(y) = SubSeq(s, 1, m)
<1>0. /\ s \in Seq(Nat) /\ \A i \in 1..Len(s) : s[i] \notin Formatting
      /\ k \in Nat /\ m \in Nat /\ k <= m /\ m <= Len(s)
      /\ x \in Seq(Nat) /\ Meaningful(x) = SubSeq(s, 1, k) /\ c \in Formatting
  BY DEF Grouping
<1> USE <1>0
<1> DEFINE h == SubSeq(s, 1, k)
           t == SubSeq(s, k + 1, m)
           d == <<c>>
<1>1. t \in Seq(Nat) /\ Meaningful(t) = t
  BY MeaningfulPart
<1>2. d \in Seq(Nat) /\ Meaningful(d) = <<>>
  <2>1. c \in Nat
    BY DEF Formatting, Point, Slash, Dash, Blank
  <2> QED BY <2>1, MeaningfulMark
<1>3. h \o t = SubSeq(s, 1, m)
  <2>1. 1 \in 1..(Len(s) + 1) /\ k \in (1 - 1)..Len(s) /\ m \in k..Len(s)
    OBVIOUS
  <2> QED BY <2>1, ConcatAdjacentSubSeq
<1>a. Meaningful(x) = h
  OBVIOUS
<1> HIDE DEF h, t, d
<1>4. x \o d \in Seq(Nat) /\ Meaningful(x \o d) = h \o <<>>
  <2>1. Meaningful(x \o d) = Meaningful(x) \o Meaningful(d)
    BY <1>2, MeaningfulJoins
  <2> QED BY <1>2, <1>a, <2>1, NatJoined
<1>5. h \o <<>> = h
  <2>1. h \in Seq(Nat)
    BY <1>a, MeaningfulText
  <2> QED BY <2>1, ConcatEmptySeq
<1> DEFINE u == x \o d
<1>6. u \in Seq(Nat) /\ Meaningful(u) = h
  BY <1>4, <1>5
<1> HIDE DEF u
<1>7. u \o t \in Seq(Nat) /\ Meaningful(u \o t) = h \o t
  <2>1. Meaningful(u \o t) = Meaningful(u) \o Meaningful(t)
    BY <1>1, <1>6, MeaningfulJoins
  <2> QED BY <1>1, <1>6, <2>1, NatJoined
<1> QED BY <1>3, <1>7 DEF u, t, d

LEMMA MeaningfulFormatted ==
  ASSUME NEW s \in Seq(Nat), Len(s) = 14, \A i \in 1..Len(s) : s[i] \notin Formatting
  PROVE  Formatted(s) \in Seq(Nat) /\ Meaningful(Formatted(s)) = s
<1> DEFINE x1 == SubSeq(s, 1, 2)
           x2 == (x1 \o <<Point>>) \o SubSeq(s, 2 + 1, 5)
           x3 == (x2 \o <<Point>>) \o SubSeq(s, 5 + 1, 8)
           x4 == (x3 \o <<Slash>>) \o SubSeq(s, 8 + 1, 12)
           x5 == (x4 \o <<Dash>>) \o SubSeq(s, 12 + 1, 14)
<1>0. Point \in Formatting /\ Slash \in Formatting /\ Dash \in Formatting
  BY DEF Formatting
<1>a. Formatted(s) = x5
  BY DEF Formatted
<1>1. x1 \in Seq(Nat) /\ Meaningful(x1) = SubSeq(s, 1, 2)
  <2>1. 0 \in Nat /\ 2 \in Nat /\ 0 <= 2 /\ 2 <= Len(s) /\ 0 + 1 = 1
    OBVIOUS
  <2>2. LET t == SubSeq(s, 0 + 1, 2) IN t \in Seq(Nat) /\ Meaningful(t) = t
    BY <2>1, MeaningfulPart
  <2> QED BY <2>1, <2>2
<1> HIDE DEF x1
<1>2. x2 \in Seq(Nat) /\ Meaningful(x2) = SubSeq(s, 1, 5)
  <2>1. Grouping(s, 2, 5, x1, Point)
    BY <1>0, <1>1 DEF Grouping
  <2>2. LET y == (x1 \o <<Point>>) \o SubSeq(s, 2 + 1, 5)
        IN  y \in Seq(Nat) /\ Meaningful(y) = SubSeq(s, 1, 5)
    BY ONLY <2>1, MeaningfulGroup
  <2> QED BY <2>2
<1> HIDE DEF x2
<1>3. x3 \in Seq(Nat) /\ Meaningful(x3) = SubSeq(s, 1, 8)
  <2>1. Grouping(s, 5, 8, x2, Point)
    BY <1>0, <1>2 DEF Grouping
  <2>2. LET y == (x2 \o <<Point>>) \o SubSeq(s, 5 + 1, 8)
        IN  y \in Seq(Nat) /\ Meaningful(y) = SubSeq(s, 1, 8)
    BY ONLY <2>1, MeaningfulGroup
  <2> QED BY <2>2
<1> HIDE DEF x3
<1>4. x4 \in Seq(Nat) /\ Meaningful(x4) = SubSeq(s, 1, 12)
  <2>1. Grouping(s, 8, 12, x3, Slash)
    BY <1>0, <1>3 DEF Grouping
  <2>2. LET y == (x3 \o <<Slash>>) \o SubSeq(s, 8 + 1, 12)
        IN  y \in Seq(Nat) /\ Meaningful(y) = SubSeq(s, 1, 12)
    BY ONLY <2>1, MeaningfulGroup
  <2> QED BY <2>2
<1> HIDE DEF x4
<1>5. x5 \in Seq(Nat) /\ Meaningful(x5) = SubSeq(s, 1, 14)
  <2>1. Grouping(s, 12, 14, x4, Dash)
    BY <1>0, <1>4 DEF Grouping
  <2>2. LET y == (x4 \o <<Dash>>) \o SubSeq(s, 12 + 1, 14)
        IN  y \in Seq(Nat) /\ Meaningful(y) = SubSeq(s, 1, 14)
    BY ONLY <2>1, MeaningfulGroup
  <2> QED BY <2>2
<1>6. SubSeq(s, 1, 14) = s
  BY SubSeqFull
<1> QED BY <1>a, <1>5, <1>6

(* What Parse makes of a text before it looks at its characters.           *)
Taken(input) == IF scheme = "cnpj" THEN Meaningful(input) ELSE Trim(input)

(* What is held of a scheme: see Holdable.                                  *)
Identifier(s) ==
  /\ s \in Seq(Nat) /\ s # <<>> /\ \A i \in 1..Len(s) : s[i] \in Plain
  /\ scheme = "cnpj" => Len(s) = 14 /\ \A i \in 1..Len(s) : s[i] \in Alnum

LEMMA PlainTrimmed ==
  ASSUME NEW s \in Seq(Nat), \A i \in 1..Len(s) : s[i] \notin Blank
  PROVE  Trimmed(s) /\ Trim(s) = s
<1>1. Trimmed(s)
  <2>1. s # <<>> => 1 \in 1..Len(s) /\ Len(s) \in 1..Len(s)
    BY EmptySeq
  <2> QED BY <2>1 DEF Trimmed
<1> QED BY <1>1, TrimOfTrimmed

LEMMA TakenOfPresented ==
  ASSUME NEW s, Identifier(s), scheme \in Schemes \ Names, NEW t \in Presentations(s)
  PROVE  t \in Seq(Nat) /\ Taken(t) \in {s, Lowered(s)}
<1> DEFINE l == Lowered(s)
           p == Padded(s)
<1>1. s \in Seq(Nat) /\ s # <<>> /\ \A i \in 1..Len(s) : s[i] \in Plain
  BY DEF Identifier
<1>2. \A i \in 1..Len(s) : s[i] \notin Blank /\ Low(s[i]) \notin Blank
  BY <1>1, PlainCharacters
<1>3. l \in Seq(Nat) /\ \A i \in 1..Len(l) : l[i] \notin Blank
  BY <1>1, <1>2, LoweredText
<1>4. Trim(s) = s /\ Trim(l) = l /\ p \in Seq(Nat) /\ Trim(p) = s
  <2>1. Trimmed(s) /\ Trim(s) = s
    BY <1>1, <1>2, PlainTrimmed
  <2>2. Trim(l) = l
    <3> HIDE DEF l
    <3> QED BY <1>3, PlainTrimmed
  <2>3. p \in Seq(Nat) /\ Trim(p) = s
    BY <1>1, <2>1, TrimPadded
  <2> QED BY <2>1, <2>2, <2>3
<1>5. CASE scheme # "cnpj"
  <2>1. t \in {s, p, l}
    BY <1>5 DEF Presentations, Padded
  <2> HIDE DEF p, l
  <2>2. Taken(t) = Trim(t)
    BY <1>5 DEF Taken
  <2> QED BY <1>1, <1>3, <1>4, <2>1, <2>2 DEF l
<1>6. CASE scheme = "cnpj"
  <2> DEFINE f == Formatted(s)
             b == <<32>>
             e == <<9, 160>>
             g == Lowered(f)
  <2> HIDE DEF e
  <2>1. Len(s) = 14 /\ \A i \in 1..Len(s) : s[i] \notin Formatting
    BY <1>6, AlnumCharacters DEF Identifier
  <2>2. Meaningful(s) = s
    BY <1>1, <2>1, MeaningfulAll
  <2>3. Meaningful(l) = l
    BY <1>1, <2>2, MeaningfulLowered
  <2>4. f \in Seq(Nat) /\ Meaningful(f) = s
    BY <1>1, <2>1, MeaningfulFormatted
  <2>5. b \in Seq(Nat) /\ Meaningful(b) = <<>>
    <3>1. 32 \in Nat /\ 32 \in Formatting
      BY DEF Formatting, Blank
    <3> QED BY <3>1, MeaningfulMark
  <2>6. e \in Seq(Nat) /\ Meaningful(e) = <<>>
    <3>1. 9 \in Nat /\ 9 \in Formatting /\ 160 \in Nat /\ 160 \in Formatting
      BY DEF Formatting, Blank
    <3>2. Meaningful(<<9>>) = <<>> /\ Meaningful(<<160>>) = <<>>
      BY <3>1, MeaningfulMark
    <3>3. <<9>> \in Seq(Nat) /\ <<160>> \in Seq(Nat)
      OBVIOUS
    <3>4. Meaningful(<<9>> \o <<160>>) = Meaningful(<<9>>) \o Meaningful(<<160>>)
      BY ONLY <3>3, MeaningfulJoins
    <3>5. <<9>> \o <<160>> = <<9, 160>>
      <4> DEFINE one == <<9>>
                 u == one \o <<160>>
                 r == <<9, 160>>
      <4>1. /\ one \in Seq(Nat) /\ Len(one) = 1 /\ one[1] = 9 /\ 160 \in Nat
            /\ r \in Seq(Nat) /\ Len(r) = 2 /\ r[1] = 9 /\ r[2] = 160
        OBVIOUS
      <4> HIDE DEF one, r
      <4>2. u = Append(one, 160)
        BY ONLY <4>1, AppendIsConcat
      <4> HIDE DEF u
      <4>3. u \in Seq(Nat) /\ Len(u) = 2 /\ u[1] = 9 /\ u[2] = 160
        <5>1. /\ Append(one, 160) \in Seq(Nat) /\ Len(Append(one, 160)) = Len(one) + 1
              /\ \A i \in 1..Len(one) : Append(one, 160)[i] = one[i]
              /\ Append(one, 160)[Len(one) + 1] = 160
          <6>1. one \in Seq(Nat) /\ 160 \in Nat
            BY <4>1
          <6> QED BY ONLY <6>1, AppendProperties
        <5>2. 1 \in 1..Len(one) /\ Len(one) + 1 = 2
          BY <4>1
        <5> QED BY <4>1, <4>2, <5>1, <5>2
      <4>4. /\ u \in Seq(Nat) /\ r \in Seq(Nat) /\ Len(u) = Len(r)
            /\ \A i \in 1..Len(u) : u[i] = r[i]
        BY <4>1, <4>3
      <4>5. u = r
        BY ONLY <4>4, SeqEqual
      <4> QED BY <4>5 DEF u, one, r
    <3>6. <<>> \o <<>> = <<>>
      <4>1. <<>> \in Seq(Nat)
        OBVIOUS
      <4> QED BY ONLY <4>1, ConcatEmptySeq
    <3>7. e \in Seq(Nat)
      BY <3>1 DEF e
    <3> QED BY <3>2, <3>4, <3>5, <3>6, <3>7 DEF e
  <2> HIDE DEF f, b
  <2>7. g \in Seq(Nat) /\ Meaningful(g) = l
    BY <2>4, LoweredText, MeaningfulLowered
  <2> HIDE DEF g
  <2>8. \A x \in Seq(Nat) : Meaningful(b \o x) = Meaningful(x) /\ b \o x \in Seq(Nat)
    <3> TAKE x \in Seq(Nat)
    <3>1. Meaningful(b \o x) = <<>> \o Meaningful(x) /\ b \o x \in Seq(Nat)
      BY <2>5, MeaningfulJoins, NatJoined
    <3>2. Meaningful(x) \in Seq(Nat)
      BY MeaningfulText
    <3> QED BY <3>1, <3>2, ConcatEmptySeq
  <2>9. Meaningful(p) = s
    <3>1. p = (b \o s) \o e
      BY DEF Padded, b, e
    <3> DEFINE u == b \o s
    <3>2. u \in Seq(Nat) /\ Meaningful(u) = s
      BY <1>1, <2>2, <2>8
    <3> HIDE DEF u
    <3>3. Meaningful(u \o e) = s \o <<>>
      BY <2>6, <3>2, MeaningfulJoins
    <3>4. s \o <<>> = s
      BY <1>1, ConcatEmptySeq
    <3> QED BY <3>1, <3>3, <3>4 DEF u
  <2>10. b \o g \in Seq(Nat) /\ Meaningful(b \o g) = l
    BY <2>7, <2>8
  <2>11. t \in {s, p, l, f, b \o g}
    BY <1>6 DEF Presentations, Padded, f, b, g
  <2>12. Taken(t) = Meaningful(t)
    BY <1>6 DEF Taken
  <2> HIDE DEF p, l
  <2> QED BY <1>1, <1>3, <1>4, <2>2, <2>3, <2>4, <2>9, <2>10, <2>11, <2>12 DEF l
<1> QED BY <1>5, <1>6

-----------------------------------------------------------------------------
(* What parses.                                                            *)
Identifiers == {"cnpj", "lei", "isin", "cfi", "mic", "country", "currency"}
Raised(r) == [i \in DOMAIN r |-> ToUpper(r[i])]

LEMMA ToUpperNatural ==
  ASSUME NEW c \in Nat
  PROVE  ToUpper(c) \in Nat
BY DEF ToUpper, Lower

LEMMA RaisedText ==
  ASSUME NEW r \in Seq(Nat)
  PROVE  /\ Raised(r) \in Seq(Nat) /\ Len(Raised(r)) = Len(r)
         /\ \A i \in 1..Len(r) : Raised(r)[i] = ToUpper(r[i])
<1>1. Len(r) \in Nat /\ DOMAIN r = 1..Len(r) /\ \A i \in 1..Len(r) : ToUpper(r[i]) \in Nat
  <2>1. \A i \in 1..Len(r) : r[i] \in Nat
    BY ElementOfSeq
  <2>2. \A i \in 1..Len(r) : ToUpper(r[i]) \in Nat
    BY <2>1, ToUpperNatural
  <2> QED BY <2>2
<1>2. Raised(r) = [i \in 1..Len(r) |-> ToUpper(r[i])]
  BY <1>1 DEF Raised
<1> QED BY <1>1, <1>2

LEMMA RaisedPlain ==
  ASSUME NEW s \in Seq(Nat), \A i \in 1..Len(s) : s[i] \in Plain, NEW r \in {s, Lowered(s)}
  PROVE  /\ r \in Seq(Nat) /\ Len(r) = Len(s) /\ Raised(r) = s
         /\ \A i \in DOMAIN r : r[i] \in Ascii
<1>1. \A i \in 1..Len(s) : /\ s[i] \in Ascii /\ ToUpper(s[i]) = s[i]
                           /\ Low(s[i]) \in Ascii /\ ToUpper(Low(s[i])) = s[i]
  BY PlainCharacters
<1>2. /\ Lowered(s) \in Seq(Nat) /\ Len(Lowered(s)) = Len(s)
      /\ \A i \in 1..Len(s) : Lowered(s)[i] = Low(s[i])
  BY LoweredText
<1>3. /\ r \in Seq(Nat) /\ Len(r) = Len(s)
      /\ \A i \in 1..Len(s) : r[i] \in Ascii /\ ToUpper(r[i]) = s[i]
  <2>1. CASE r = s
    BY <1>1, <2>1
  <2>2. CASE r = Lowered(s)
    BY <1>1, <1>2, <2>2
  <2> QED BY <2>1, <2>2
<1>4. DOMAIN r = 1..Len(s)
  BY <1>3
<1>5. Raised(r) = s
  <2>1. Raised(r) \in Seq(Nat) /\ Len(Raised(r)) = Len(s)
        /\ \A i \in 1..Len(s) : Raised(r)[i] = s[i]
    BY <1>3, RaisedText
  <2> HIDE DEF Raised
  <2>2. /\ Raised(r) \in Seq(Nat) /\ s \in Seq(Nat) /\ Len(Raised(r)) = Len(s)
        /\ \A i \in 1..Len(Raised(r)) : Raised(r)[i] = s[i]
    BY <2>1
  <2> QED BY ONLY <2>2, SeqEqual
<1> QED BY <1>3, <1>4, <1>5

LEMMA TakenNothing == Taken(<<>>) = <<>>
<1>1. <<>> \in Seq(Nat) /\ \A i \in 1..Len(<<>>) : <<>>[i] \in Blank /\ <<>>[i] \notin Formatting
  OBVIOUS
<1>2. Trim(<<>>) = <<>>
  BY <1>1, TrimBlank
<1>3. Meaningful(<<>>) = <<>>
  BY <1>1, MeaningfulAll
<1> QED BY <1>2, <1>3 DEF Taken

LEMMA TakenText ==
  ASSUME NEW t \in Seq(Nat)
  PROVE  Taken(t) \in Seq(Nat)
BY MeaningfulText, TrimTrims DEF Taken

LEMMA NormalizeIs ==
  ASSUME NEW t \in Seq(Nat), scheme \in Identifiers
  PROVE  LET r == Taken(t)
         IN  Normalize(scheme, t) =
               IF t = <<>> \/ (scheme = "currency" /\ r = <<>>) THEN Err("Empty")
               ELSE IF Len(r) # Length[scheme] THEN Err("InvalidLength")
               ELSE IF \E i \in DOMAIN r : r[i] \notin Ascii THEN Err("InvalidCharacter")
               ELSE Ok(Raised(r))
BY DEF Normalize, Taken, Raised

LEMMA NormalizeTaken ==
  ASSUME NEW s, Identifier(s), scheme \in Identifiers, NEW t \in Seq(Nat),
         Taken(t) \in {s, Lowered(s)}
  PROVE  Normalize(scheme, t) = IF Len(s) # Length[scheme] THEN Err("InvalidLength") ELSE Ok(s)
<1> DEFINE r == Taken(t)
<1>1. s \in Seq(Nat) /\ s # <<>> /\ \A i \in 1..Len(s) : s[i] \in Plain
  BY DEF Identifier
<1>2. r \in Seq(Nat) /\ Len(r) = Len(s) /\ Raised(r) = s /\ \A i \in DOMAIN r : r[i] \in Ascii
  <2>1. r \in {s, Lowered(s)}
    OBVIOUS
  <2> HIDE DEF r
  <2> QED BY <1>1, <2>1, RaisedPlain
<1>3. r # <<>>
  <2>1. Len(s) # 0
    BY <1>1, EmptySeq
  <2> HIDE DEF r
  <2> QED BY <1>2, <2>1
<1>4. t # <<>>
  BY <1>3, TakenNothing
<1>5. Normalize(scheme, t) =
         IF t = <<>> \/ (scheme = "currency" /\ r = <<>>) THEN Err("Empty")
         ELSE IF Len(r) # Length[scheme] THEN Err("InvalidLength")
         ELSE IF \E i \in DOMAIN r : r[i] \notin Ascii THEN Err("InvalidCharacter")
         ELSE Ok(Raised(r))
  BY NormalizeIs
<1> HIDE DEF r, Raised
<1> QED BY <1>2, <1>3, <1>4, <1>5

LEMMA NormalizedText ==
  ASSUME NEW t \in Seq(Nat), scheme \in Identifiers, Normalize(scheme, t).ok
  PROVE  LET s == Normalize(scheme, t).text
         IN  Normalize(scheme, t) = Ok(s) /\ s \in Seq(Nat) /\ Len(s) = Length[scheme]
<1> DEFINE r == Taken(t)
<1>1. r \in Seq(Nat)
  BY TakenText
<1>2. Normalize(scheme, t) =
         IF t = <<>> \/ (scheme = "currency" /\ r = <<>>) THEN Err("Empty")
         ELSE IF Len(r) # Length[scheme] THEN Err("InvalidLength")
         ELSE IF \E i \in DOMAIN r : r[i] \notin Ascii THEN Err("InvalidCharacter")
         ELSE Ok(Raised(r))
  BY NormalizeIs
<1>3. Raised(r) \in Seq(Nat) /\ Len(Raised(r)) = Len(r)
  BY <1>1, RaisedText
<1> HIDE DEF r, Raised
<1>4. Normalize(scheme, t) = Ok(Raised(r)) /\ Len(r) = Length[scheme]
  BY <1>2 DEF Err, Ok
<1> QED BY <1>3, <1>4 DEF Ok

LEMMA NormalizeRefuses ==
  ASSUME NEW t \in Seq(Nat), scheme \in Identifiers, ~Normalize(scheme, t).ok
  PROVE  Normalize(scheme, t) \in {Err("Empty"), Err("InvalidLength"), Err("InvalidCharacter")}
<1> DEFINE r == Taken(t)
<1>2. Normalize(scheme, t) =
         IF t = <<>> \/ (scheme = "currency" /\ r = <<>>) THEN Err("Empty")
         ELSE IF Len(r) # Length[scheme] THEN Err("InvalidLength")
         ELSE IF \E i \in DOMAIN r : r[i] \notin Ascii THEN Err("InvalidCharacter")
         ELSE Ok(Raised(r))
  BY NormalizeIs
<1> HIDE DEF r, Raised
<1> QED BY <1>2 DEF Ok

(* Characters of the right classes are letters and digits.                 *)
LEMMA ClassesAlnum ==
  ASSUME scheme \in Identifiers, NEW i
  PROVE  Class(scheme, i) \subseteq Alnum
BY DEF Class, Alnum, Identifiers

LEMMA InClassesIdentifier ==
  ASSUME NEW s \in Seq(Nat), scheme \in Identifiers, Len(s) = Length[scheme], InClasses(scheme, s)
  PROVE  s \in Seq(Alnum) /\ Identifier(s)
<1>1. Len(s) \in Nat /\ DOMAIN s = 1..Len(s) /\ s = [i \in 1..Len(s) |-> s[i]]
  OBVIOUS
<1>2. \A i \in 1..Len(s) : s[i] \in Alnum
  BY <1>1, ClassesAlnum DEF InClasses
<1>3. s \in Seq(Alnum)
  BY <1>1, <1>2
<1>4. Len(s) \in {14, 20, 12, 6, 4, 2, 3} /\ (scheme = "cnpj" => Len(s) = 14)
  BY DEF Length, Identifiers
<1>5. s # <<>>
  BY <1>4
<1> QED BY <1>2, <1>3, <1>4, <1>5, AlnumCharacters DEF Identifier

LEMMA FromBytesKeeps ==
  ASSUME NEW s, scheme \in Identifiers, FromBytes(s).ok
  PROVE  FromBytes(s) = Ok(s) /\ InClasses(scheme, s)
<1>1. InClasses(scheme, s)
  BY DEF FromBytes, Err
<1>2. FromBytes(s) = Ok(s)
  <2>1. CASE scheme = "cnpj"
    BY <1>1, <2>1 DEF FromBytes, Cnpj, If, Err
  <2>2. CASE scheme = "lei"
    BY <1>1, <2>2 DEF FromBytes, Lei, If, Err
  <2>3. CASE scheme = "isin"
    BY <1>1, <2>3 DEF FromBytes, Isin, If, Err
  <2>4. CASE scheme = "cfi"
    BY <1>1, <2>4 DEF FromBytes, Cfi, If, Err
  <2>5. CASE scheme = "mic"
    BY <1>1, <2>5 DEF FromBytes, Mic, If, Err
  <2>6. CASE scheme = "country"
    BY <1>1, <2>6 DEF FromBytes, CountryCode, If, Err
  <2>7. CASE scheme = "currency"
    BY <1>1, <2>7 DEF FromBytes
  <2> QED BY <2>1, <2>2, <2>3, <2>4, <2>5, <2>6, <2>7 DEF Identifiers
<1> QED BY <1>1, <1>2

LEMMA ParseIs ==
  ASSUME scheme \in Identifiers, NEW t
  PROVE  Parse(t) = IF Normalize(scheme, t).ok THEN FromBytes(Normalize(scheme, t).text)
                    ELSE Normalize(scheme, t)
BY DEF Parse, Identifiers

LEMMA TickerTaken ==
  ASSUME NEW s, Identifier(s), scheme = "ticker", NEW t \in Seq(Nat), Taken(t) \in {s, Lowered(s)}
  PROVE  Ticker(t) = IF Len(s) > TickerMaxLen THEN Err("TooLong") ELSE Ok(s)
<1> DEFINE r == Trim(t)
<1>1. s \in Seq(Nat) /\ s # <<>> /\ \A i \in 1..Len(s) : s[i] \in Plain
  BY DEF Identifier
<1>2. r \in Seq(Nat) /\ Len(r) = Len(s) /\ Raised(r) = s
  <2>1. r \in {s, Lowered(s)}
    BY DEF Taken
  <2> HIDE DEF r
  <2> QED BY <1>1, <2>1, RaisedPlain
<1>3. Ticker(t) = IF r = <<>> THEN Err("Empty")
                  ELSE IF Len(r) > TickerMaxLen THEN Err("TooLong")
                  ELSE IF \E i \in DOMAIN Raised(r) : Raised(r)[i] \notin Plain
                  THEN Err("InvalidCharacter") ELSE Ok(Raised(r))
  BY DEF Ticker, Raised, Plain
<1> HIDE DEF r, Raised
<1>4. r # <<>>
  <2>1. Len(s) # 0
    BY <1>1, EmptySeq
  <2> QED BY <1>2, <2>1
<1>5. ~(\E i \in DOMAIN Raised(r) : Raised(r)[i] \notin Plain)
  BY <1>1, <1>2
<1> QED BY <1>2, <1>3, <1>4, <1>5

LEMMA TickerText ==
  ASSUME scheme = "ticker", NEW t \in Seq(Nat), Ticker(t).ok
  PROVE  LET s == Ticker(t).text IN Ticker(t) = Ok(s) /\ Identifier(s) /\ Len(s) <= TickerMaxLen
<1> DEFINE r == Trim(t)
           u == Raised(r)
<1>1. r \in Seq(Nat)
  BY TrimTrims
<1>2. Ticker(t) = IF r = <<>> THEN Err("Empty")
                  ELSE IF Len(r) > TickerMaxLen THEN Err("TooLong")
                  ELSE IF \E i \in DOMAIN u : u[i] \notin Plain
                  THEN Err("InvalidCharacter") ELSE Ok(u)
  BY DEF Ticker, Raised, Plain
<1> HIDE DEF r, Raised
<1>3. u \in Seq(Nat) /\ Len(u) = Len(r)
  BY <1>1, RaisedText
<1> HIDE DEF u
<1>4. Ticker(t) = Ok(u) /\ r # <<>> /\ ~(Len(r) > TickerMaxLen) /\ \A i \in DOMAIN u : u[i] \in Plain
  BY <1>2 DEF Err
<1>5. u # <<>> /\ Len(u) <= TickerMaxLen
  <2>1. Len(r) \in Nat \ {0}
    BY <1>1, <1>4, EmptySeq
  <2> QED BY <1>3, <1>4, <2>1 DEF TickerMaxLen
<1>6. Identifier(u)
  BY <1>3, <1>4, <1>5 DEF Identifier
<1> QED BY <1>4, <1>5, <1>6 DEF Ok

LEMMA NameText ==
  ASSUME NEW t \in Seq(Nat), NEW max
  PROVE  Name(t, max).ok => Name(t, max) = Ok(Trim(t)) /\ Name(Trim(t), max) = Ok(Trim(t))
<1> DEFINE s == Trim(t)
<1>1. Trim(s) = s
  BY TrimTrims, TrimOfTrimmed
<1>2. Name(t, max) = IF s = <<>> THEN Err("Empty") ELSE IF Len(s) > max THEN Err("TooLong") ELSE Ok(s)
  BY DEF Name
<1> HIDE DEF s
<1>3. Name(s, max) = IF s = <<>> THEN Err("Empty") ELSE IF Len(s) > max THEN Err("TooLong") ELSE Ok(s)
  BY <1>1 DEF Name
<1> QED BY <1>2, <1>3 DEF Err, s

LEMMA NameTaken ==
  ASSUME NEW s \in Seq(Nat), NEW t \in Seq(Nat), Trim(t) = s, NEW max
  PROVE  Name(t, max) = Name(s, max) /\ (Name(s, max).ok => Name(s, max).text = s)
<1>1. Trim(s) = s
  BY TrimTrims, TrimOfTrimmed
<1> QED BY <1>1 DEF Name, Err, Ok

(* Each kind of name is a Name of its own length.                          *)
LEMMA ParseName ==
  ASSUME scheme \in Names
  PROVE  \E max : \A t : Parse(t) = Name(t, max)
<1>1. CASE scheme = "issuer_name"
  <2>1. \A t : Parse(t) = Name(t, 200)
    BY <1>1 DEF Parse, IssuerName
  <2> QED BY <2>1
<1>2. CASE scheme = "security_name"
  <2>1. \A t : Parse(t) = Name(t, 200)
    BY <1>2 DEF Parse, SecurityName
  <2> QED BY <2>1
<1>3. CASE scheme = "venue_name"
  <2>1. \A t : Parse(t) = Name(t, 200)
    BY <1>3 DEF Parse, VenueName
  <2> QED BY <2>1
<1>4. CASE scheme = "segment"
  <2>1. \A t : Parse(t) = Name(t, 100)
    BY <1>4 DEF Parse, MarketSegment
  <2> QED BY <2>1
<1>5. CASE scheme = "task_name"
  <2>1. \A t : Parse(t) = Name(t, 100)
    BY <1>5 DEF Parse, BackgroundTaskName
  <2> QED BY <2>1
<1> QED BY <1>1, <1>2, <1>3, <1>4, <1>5 DEF Names

LEMMA ParseTicker ==
  ASSUME scheme = "ticker", NEW t
  PROVE  Parse(t) = Ticker(t)
BY DEF Parse

LEMMA SchemesAre ==
  ASSUME scheme \in Schemes
  PROVE  /\ scheme \in Names \/ scheme = "ticker" \/ scheme \in Identifiers
         /\ scheme = "ticker" \/ scheme \in Identifiers => scheme \in Schemes \ Names
BY DEF Schemes, Names, Identifiers

LEMMA TakenOfIdentifier ==
  ASSUME NEW s, Identifier(s), scheme \in Schemes \ Names
  PROVE  s \in Seq(Nat) /\ Taken(s) \in {s, Lowered(s)}
<1>1. s \in Presentations(s)
  BY DEF Presentations
<1> QED BY <1>1, TakenOfPresented

(* What parses, parses to itself.                                          *)
LEMMA ParsesToItself ==
  ASSUME scheme \in Schemes, NEW t \in Seq(Nat), Parse(t).ok
  PROVE  Parse(Parse(t).text) = Parse(t)
<1>1. CASE scheme \in Names
  <2>1. PICK max : \A u : Parse(u) = Name(u, max)
    BY <1>1, ParseName
  <2>2. Name(t, max).ok
    BY <2>1
  <2>3. Name(t, max).ok => Name(t, max) = Ok(Trim(t)) /\ Name(Trim(t), max) = Ok(Trim(t))
    <3>1. t \in Seq(Nat)
      OBVIOUS
    <3> QED BY ONLY <3>1, NameText
  <2>4. Parse(t) = Ok(Trim(t)) /\ Parse(Trim(t)) = Ok(Trim(t))
    BY <2>1, <2>2, <2>3
  <2>5. Ok(Trim(t)).text = Trim(t)
    BY DEF Ok
  <2> QED BY <2>4, <2>5
<1>2. CASE scheme = "ticker"
  <2> DEFINE s == Ticker(t).text
  <2>1. Ticker(t).ok /\ Parse(t) = Ticker(t) /\ Parse(s) = Ticker(s)
    BY <1>2, ParseTicker
  <2>2. Ticker(t) = Ok(s) /\ Identifier(s) /\ Len(s) <= TickerMaxLen
    BY <1>2, <2>1, TickerText
  <2> HIDE DEF s
  <2>3. s \in Seq(Nat) /\ Taken(s) \in {s, Lowered(s)}
    BY <1>2, <2>2, SchemesAre, TakenOfIdentifier
  <2>4. Ticker(s) = IF Len(s) > TickerMaxLen THEN Err("TooLong") ELSE Ok(s)
    BY <1>2, <2>2, <2>3, TickerTaken
  <2>5. ~(Len(s) > TickerMaxLen)
    <3>1. Len(s) \in Nat
      BY <2>3
    <3> QED BY <2>2, <3>1 DEF TickerMaxLen
  <2>6. Parse(t).text = s
    BY <2>1, <2>2 DEF Ok
  <2> QED BY <2>1, <2>2, <2>4, <2>5, <2>6
<1>3. CASE scheme \in Identifiers
  <2> DEFINE n == Normalize(scheme, t)
             s == n.text
  <2>1. n.ok /\ Parse(t) = FromBytes(s)
    <3>1. Parse(t) = IF n.ok THEN FromBytes(s) ELSE n
      BY <1>3, ParseIs
    <3> QED BY <3>1
  <2>2. s \in Seq(Nat) /\ Len(s) = Length[scheme]
    BY <1>3, <2>1, NormalizedText
  <2> HIDE DEF n, s
  <2>3. FromBytes(s) = Ok(s) /\ InClasses(scheme, s)
    BY <1>3, <2>1, FromBytesKeeps
  <2>4. Identifier(s)
    BY <1>3, <2>2, <2>3, InClassesIdentifier
  <2>5. Taken(s) \in {s, Lowered(s)}
    BY <1>3, <2>4, SchemesAre, TakenOfIdentifier
  <2>6. Normalize(scheme, s) = Ok(s)
    <3>1. Normalize(scheme, s) = IF Len(s) # Length[scheme] THEN Err("InvalidLength") ELSE Ok(s)
      BY <1>3, <2>2, <2>4, <2>5, NormalizeTaken
    <3> QED BY <2>2, <3>1
  <2>7. Parse(s) = FromBytes(s)
    <3>1. Parse(s) = IF Normalize(scheme, s).ok THEN FromBytes(Normalize(scheme, s).text)
                     ELSE Normalize(scheme, s)
      BY <1>3, ParseIs
    <3>2. Ok(s).ok /\ Ok(s).text = s
      BY DEF Ok
    <3> QED BY <2>6, <3>1, <3>2
  <2>8. Parse(t).text = s
    BY <2>1, <2>2, <2>3 DEF Ok
  <2> QED BY <2>1, <2>7, <2>8
<1> QED BY <1>1, <1>2, <1>3, SchemesAre

(* What is issued.                                                         *)
Issued(s) ==
  IF scheme \in Names THEN s \in Seq(Nat) /\ s # <<>> /\ Trimmed(s) ELSE Identifier(s)

LEMMA ParsesAnyWay ==
  ASSUME scheme \in Schemes, NEW s, Issued(s), NEW t \in Presentations(s)
  PROVE  /\ t \in Seq(Nat)
         /\ Parse(t) = Parse(s) /\ (Parse(s).ok => Parse(s).text = s)
<1>1. CASE scheme \in Names
  <2>1. PICK max : \A u : Parse(u) = Name(u, max)
    BY <1>1, ParseName
  <2>2. s \in Seq(Nat) /\ s # <<>> /\ Trimmed(s)
    BY <1>1 DEF Issued
  <2>3. t \in {s, Padded(s)}
    BY <1>1 DEF Presentations, Names, Padded
  <2>4. t \in Seq(Nat) /\ Trim(t) = s
    <3>1. Trim(s) = s
      BY <2>2, TrimOfTrimmed
    <3>2. Padded(s) \in Seq(Nat) /\ Trim(Padded(s)) = s
      BY <2>2, TrimPadded
    <3> QED BY <2>2, <2>3, <3>1, <3>2
  <2>5. Name(t, max) = Name(s, max) /\ (Name(s, max).ok => Name(s, max).text = s)
    BY <2>2, <2>4, NameTaken
  <2> QED BY <2>1, <2>4, <2>5
<1>2. CASE scheme \notin Names
  <2>1. Identifier(s) /\ scheme \in Schemes \ Names
    BY <1>2 DEF Issued
  <2>2. t \in Seq(Nat) /\ Taken(t) \in {s, Lowered(s)}
    BY <2>1, TakenOfPresented
  <2>3. s \in Seq(Nat) /\ Taken(s) \in {s, Lowered(s)}
    BY <2>1, TakenOfIdentifier
  <2>4. CASE scheme = "ticker"
    <3>1. Parse(t) = Ticker(t) /\ Parse(s) = Ticker(s)
      BY <2>4, ParseTicker
    <3>2. /\ Ticker(t) = IF Len(s) > TickerMaxLen THEN Err("TooLong") ELSE Ok(s)
          /\ Ticker(s) = IF Len(s) > TickerMaxLen THEN Err("TooLong") ELSE Ok(s)
      BY <2>1, <2>2, <2>3, <2>4, TickerTaken
    <3> QED BY <2>2, <3>1, <3>2 DEF Err, Ok
  <2>5. CASE scheme \in Identifiers
    <3>1. /\ Normalize(scheme, t) = IF Len(s) # Length[scheme] THEN Err("InvalidLength") ELSE Ok(s)
          /\ Normalize(scheme, s) = IF Len(s) # Length[scheme] THEN Err("InvalidLength") ELSE Ok(s)
      BY <2>1, <2>2, <2>3, <2>5, NormalizeTaken
    <3>2. /\ Parse(t) = IF Normalize(scheme, t).ok THEN FromBytes(Normalize(scheme, t).text)
                        ELSE Normalize(scheme, t)
          /\ Parse(s) = IF Normalize(scheme, s).ok THEN FromBytes(Normalize(scheme, s).text)
                        ELSE Normalize(scheme, s)
      BY <2>5, ParseIs
    <3>3. Parse(t) = Parse(s)
      BY <3>1, <3>2
    <3>4. Parse(s).ok => Parse(s).text = s
      <4> SUFFICES ASSUME Parse(s).ok PROVE Parse(s).text = s
        OBVIOUS
      <4>1. Normalize(scheme, s) = Ok(s) \/ ~Normalize(scheme, s).ok
        BY <3>1 DEF Err
      <4>2. Parse(s) = FromBytes(s)
        BY <3>2, <4>1 DEF Ok
      <4>3. FromBytes(s) = Ok(s)
        BY <2>5, <4>2, FromBytesKeeps
      <4> QED BY <4>2, <4>3 DEF Ok
    <3> QED BY <2>2, <3>3, <3>4
  <2> QED BY <1>2, <2>4, <2>5, SchemesAre
<1> QED BY <1>1, <1>2

-----------------------------------------------------------------------------
(* The check digits that are issued.                                       *)
LEMMA DigitText ==
  ASSUME NEW a \in Digit, NEW b \in Digit
  PROVE  /\ <<a>> \in Seq(Alnum) /\ Len(<<a>>) = 1 /\ <<a>>[1] \in Digit
         /\ <<a, b>> \in Seq(Alnum) /\ Len(<<a, b>>) = 2
         /\ <<a, b>>[1] \in Digit /\ <<a, b>>[2] \in Digit
BY DEF Alnum

LEMMA CnpjDigitsText ==
  ASSUME NEW b \in Seq(Alnum), Len(b) = 12
  PROVE  /\ CnpjDigits(b) \in Seq(Alnum) /\ Len(CnpjDigits(b)) = 2
         /\ CnpjDigits(b)[1] \in Digit /\ CnpjDigits(b)[2] \in Digit
<1> DEFINE one == Weighted(b, WeightsDv1)
           d == ToDigit(DigitOf(one % 11))
           two == Weighted(Append(b, d), WeightsDv2)
<1>1. \A n \in 1..12 : b[n] \in Alnum
  BY ElementOfSeq
<1>2. one \in Nat
  BY <1>1, Weights, WeightedNatural
<1>3. d \in Digit
  BY <1>2, DigitOfDigit
<1> HIDE DEF one, d
<1>4. d \in Alnum
  BY <1>3 DEF Alnum
<1>5. Append(b, d) \in Seq(Alnum) /\ Len(Append(b, d)) = 13
  <2>1. b \in Seq(Alnum)
    OBVIOUS
  <2>2. Append(b, d) \in Seq(Alnum) /\ Len(Append(b, d)) = Len(b) + 1
    BY ONLY <2>1, <1>4, AppendProperties
  <2> QED BY <2>2
<1>6. \A n \in 1..13 : Append(b, d)[n] \in Alnum
  BY <1>5, ElementOfSeq
<1>7. two \in Nat
  BY <1>6, Weights, WeightedNatural
<1>8. ToDigit(DigitOf(two % 11)) \in Digit
  BY <1>7, DigitOfDigit
<1>9. CnpjDigits(b) = <<d, ToDigit(DigitOf(two % 11))>>
  BY DEF CnpjDigits, d, one
<1> HIDE DEF two
<1> QED BY <1>3, <1>8, <1>9, DigitText

LEMMA LeiDigitsText ==
  ASSUME NEW b \in Seq(Alnum)
  PROVE  /\ LeiDigits(b) \in Seq(Alnum) /\ Len(LeiDigits(b)) = 2
         /\ LeiDigits(b)[1] \in Digit /\ LeiDigits(b)[2] \in Digit
<1> DEFINE F == FoldMod97(b)
           c == 98 - ((F * 100) % 97)
<1>1. F \in Nat
  <2>1. PICK f : Folds(f, b) /\ FoldMod97(b) = f[Len(b)]
    BY FoldMod97Folds
  <2>2. Len(b) \in 0..Len(b)
    OBVIOUS
  <2> QED BY <2>1, <2>2 DEF Folds
<1>2. c \in 2..98
  <2> HIDE DEF F
  <2>1. (F * 100) % 97 \in 0..96
    <3>1. F * 100 \in Nat
      BY <1>1
    <3>2. \A y \in Nat : y % 97 \in 0..96
      OBVIOUS
    <3> QED BY <3>1, <3>2
  <2>2. \A y \in 0..96 : 98 - y \in 2..98
    OBVIOUS
  <2> QED BY <2>1, <2>2
<1>3. LeiDigits(b) = <<ToDigit(c \div 10), ToDigit(c % 10)>>
  BY DEF LeiDigits
<1> HIDE DEF c
<1>4. c \div 10 \in 0..9 /\ c % 10 \in 0..9
  <2>1. c \in Nat
    BY <1>2
  <2>2. c = 10 * (c \div 10) + (c % 10) /\ c % 10 \in 0..9 /\ c \div 10 \in Nat
    BY <2>1, Split10
  <2> QED BY <1>2, <2>2
<1>5. ToDigit(c \div 10) \in Digit /\ ToDigit(c % 10) \in Digit
  BY <1>4 DEF ToDigit, Digit
<1> QED BY <1>3, <1>5, DigitText

LEMMA IsinDigitText ==
  ASSUME NEW b \in Seq(Alnum)
  PROVE  <<IsinDigit(b)>> \in Seq(Alnum) /\ Len(<<IsinDigit(b)>>) = 1 /\ IsinDigit(b) \in Digit
<1>1. PICK L : Runs(L, b) /\ IsinDigit(b) = ToDigit((10 - (L[Len(b)].sum % 10)) % 10)
  BY IsinDigitRuns
<1> DEFINE x == L[Len(b)].sum
<1>2. x \in Nat
  <2>1. L \in [0..Len(b) -> Luhn] /\ Len(b) \in 0..Len(b)
    BY <1>1 DEF Runs
  <2> QED BY <2>1 DEF Luhn
<1> HIDE DEF x
<1>3. (10 - (x % 10)) % 10 \in 0..9
  <2>1. x % 10 \in 0..9
    BY <1>2
  <2> QED BY <2>1
<1>4. IsinDigit(b) \in Digit
  BY <1>1, <1>3 DEF ToDigit, Digit, x
<1> QED BY <1>4, DigitText

LEMMA IssuedText ==
  ASSUME scheme \in Schemes, NEW base \in Holdable(scheme)
  PROVE  Issued(base \o CheckDigitsOf(scheme, base))
<1> DEFINE d == CheckDigitsOf(scheme, base)
           s == base \o d
<1>1. CASE scheme \in Names
  <2>1. base \in Seq(Nat) /\ base # <<>> /\ base[1] \notin Blank /\ base[Len(base)] \notin Blank
    <3>1. Holdable(scheme) = { u \in Seq(Nat) \ {<<>>} : u[1] \notin Blank /\ u[Len(u)] \notin Blank }
      BY <1>1 DEF Holdable, Names
    <3> QED BY <3>1
  <2>2. d = <<>>
    BY <1>1 DEF CheckDigitsOf, Names
  <2>3. s = base
    BY <2>1, <2>2, ConcatEmptySeq
  <2> QED BY <1>1, <2>1, <2>3 DEF Issued, Trimmed
<1>2. CASE scheme \in {"cnpj", "lei", "isin"}
  <2>1. base \in Seq(Alnum) /\ Len(base) = BaseLen(scheme)
    BY <1>2 DEF Holdable, Names, Alnum
  <2>2. d \in Seq(Alnum) /\ Len(d) \in {1, 2} /\ (scheme = "cnpj" => Len(base) = 12 /\ Len(d) = 2)
    <3>1. CASE scheme = "cnpj"
      <4>1. Len(base) = 12 /\ d = CnpjDigits(Base(base, 12))
        BY <2>1, <3>1 DEF BaseLen, CheckDigitsOf
      <4>2. Base(base, 12) \in Seq(Alnum) /\ Len(Base(base, 12)) = 12
        <5>1. 12 \in Nat /\ 12 <= Len(base)
          BY <4>1
        <5> QED BY <2>1, <5>1, BaseOf
      <4> HIDE DEF d
      <4> QED BY <3>1, <4>1, <4>2, CnpjDigitsText
    <3>2. CASE scheme = "lei"
      <4>1. Len(base) = 18 /\ d = LeiDigits(Base(base, 18))
        BY <2>1, <3>2 DEF BaseLen, CheckDigitsOf
      <4>2. Base(base, 18) \in Seq(Alnum)
        <5>1. 18 \in Nat /\ 18 <= Len(base)
          BY <4>1
        <5> QED BY <2>1, <5>1, BaseOf
      <4> HIDE DEF d
      <4> QED BY <3>2, <4>1, <4>2, LeiDigitsText
    <3>3. CASE scheme = "isin"
      <4>1. Len(base) = 11 /\ d = <<IsinDigit(Base(base, 11))>>
        BY <2>1, <3>3 DEF BaseLen, CheckDigitsOf
      <4>2. Base(base, 11) \in Seq(Alnum)
        <5>1. 11 \in Nat /\ 11 <= Len(base)
          BY <4>1
        <5> QED BY <2>1, <5>1, BaseOf
      <4> HIDE DEF d
      <4> QED BY <3>3, <4>1, <4>2, IsinDigitText
    <3> QED BY <1>2, <3>1, <3>2, <3>3
  <2> HIDE DEF d
  <2>3. s \in Seq(Alnum) /\ Len(s) = Len(base) + Len(d)
    <3>1. base \in Seq(Alnum) /\ d \in Seq(Alnum)
      BY <2>1, <2>2
    <3> QED BY ONLY <3>1, Joined
  <2> HIDE DEF s
  <2>4. s \in Seq(Nat) /\ \A i \in 1..Len(s) : s[i] \in Alnum /\ s[i] \in Plain
    <3>1. \A i \in 1..Len(s) : s[i] \in Alnum
      BY <2>3, ElementOfSeq
    <3>2. \A i \in 1..Len(s) : s[i] \in Plain /\ s[i] \in Nat
      BY <3>1, AlnumCharacters
    <3>3. s = [i \in 1..Len(s) |-> s[i]] /\ Len(s) \in Nat
      BY <2>3
    <3>4. s \in Seq(Nat)
      BY <3>2, <3>3
    <3> QED BY <3>1, <3>2, <3>4
  <2>5. s # <<>> /\ (scheme = "cnpj" => Len(s) = 14)
    <3>1. Len(base) \in Nat /\ Len(d) \in {1, 2}
      BY <2>1, <2>2
    <3>2. Len(s) # 0
      BY <2>3, <3>1
    <3>3. s # <<>>
      BY <3>2
    <3>4. Len(base) = 12 /\ Len(d) = 2 => Len(s) = 14
      BY <2>3
    <3> QED BY <2>2, <3>3, <3>4
  <2>6. Identifier(s)
    BY <2>4, <2>5 DEF Identifier
  <2> QED BY <1>2, <2>6 DEF Issued, Names, s, d
<1>3. CASE scheme \notin Names \union {"cnpj", "lei", "isin"}
  <2>1. base \in Seq(Plain) /\ base # <<>>
    BY <1>3 DEF Holdable, Plain
  <2>2. d = <<>>
    BY <1>3 DEF CheckDigitsOf
  <2>3. s = base
    BY <2>1, <2>2, ConcatEmptySeq
  <2> HIDE DEF s, d
  <2>4. base \in Seq(Nat) /\ \A i \in 1..Len(base) : base[i] \in Plain
    <3>1. \A i \in 1..Len(base) : base[i] \in Plain
      BY <2>1, ElementOfSeq
    <3>2. \A i \in 1..Len(base) : base[i] \in Nat
      BY <3>1, PlainCharacters
    <3>3. base = [i \in 1..Len(base) |-> base[i]] /\ Len(base) \in Nat
      BY <2>1
    <3>4. base \in Seq(Nat)
      BY <3>2, <3>3
    <3> QED BY <3>1, <3>4
  <2>5. Identifier(s)
    BY <1>3, <2>1, <2>3, <2>4 DEF Identifier
  <2> QED BY <1>3, <2>5 DEF Issued, s, d
<1> QED BY <1>1, <1>2, <1>3

-----------------------------------------------------------------------------
(* The check digits of what parses.                                        *)
LEMMA ClosedAgrees ==
  ASSUME scheme \in {"cnpj", "lei", "isin"}, NEW s \in Seq(Nat), Len(s) = Length[scheme],
         InClasses(scheme, s)
  PROVE  Closed(s) <=> Reference(scheme, s)
<1>1. s \in Seq(Alnum) /\ DOMAIN s = 1..Len(s)
  BY InClassesIdentifier DEF Identifiers
<1>2. CASE scheme = "cnpj"
  <2>1. Len(s) = 14 /\ BaseLen(scheme) + 1 = 13
    BY <1>2 DEF Length, BaseLen
  <2>2. s[13] \in Digit /\ s[14] \in Digit
    <3>1. 13 \in DOMAIN s /\ 14 \in DOMAIN s
      BY <1>1, <2>1
    <3>2. Class(scheme, 13) = Digit /\ Class(scheme, 14) = Digit
      BY <1>2 DEF Class
    <3> QED BY <3>1, <3>2 DEF InClasses
  <2>3. SubSeq(s, 13, Len(s)) = CnpjDigits(Base(s, 12)) <=> CnpjReference(s)
    BY <1>1, <2>1, <2>2, CnpjAgrees
  <2>4. CheckDigitsOf(scheme, s) = CnpjDigits(Base(s, 12)) /\ (Reference(scheme, s) <=> CnpjReference(s))
    BY <1>2 DEF CheckDigitsOf, Reference
  <2> QED BY <2>1, <2>3, <2>4 DEF Closed
<1>3. CASE scheme = "lei"
  <2>1. Len(s) = 20 /\ BaseLen(scheme) + 1 = 19
    BY <1>3 DEF Length, BaseLen
  <2>2. s[19] \in Digit /\ s[20] \in Digit
    <3>1. 19 \in DOMAIN s /\ 20 \in DOMAIN s
      BY <1>1, <2>1
    <3>2. Class(scheme, 19) = Digit /\ Class(scheme, 20) = Digit
      BY <1>3 DEF Class
    <3> QED BY <3>1, <3>2 DEF InClasses
  <2>3. SubSeq(s, 19, Len(s)) = LeiDigits(Base(s, 18)) <=> LeiReference(s)
    BY <1>1, <2>1, <2>2, LeiAgrees
  <2>4. CheckDigitsOf(scheme, s) = LeiDigits(Base(s, 18)) /\ (Reference(scheme, s) <=> LeiReference(s))
    BY <1>3 DEF CheckDigitsOf, Reference
  <2> QED BY <2>1, <2>3, <2>4 DEF Closed
<1>4. CASE scheme = "isin"
  <2>1. Len(s) = 12 /\ BaseLen(scheme) + 1 = 12
    BY <1>4 DEF Length, BaseLen
  <2>2. s[12] \in Digit
    <3>1. 12 \in DOMAIN s
      BY <1>1, <2>1
    <3>2. Class(scheme, 12) = Digit
      BY <1>4 DEF Class
    <3> QED BY <3>1, <3>2 DEF InClasses
  <2>3. SubSeq(s, 12, Len(s)) = <<IsinDigit(Base(s, 11))>> <=> IsinReference(s)
    BY <1>1, <2>1, <2>2, IsinAgrees
  <2>4. CheckDigitsOf(scheme, s) = <<IsinDigit(Base(s, 11))>> /\ (Reference(scheme, s) <=> IsinReference(s))
    BY <1>4 DEF CheckDigitsOf, Reference
  <2> QED BY <2>1, <2>3, <2>4 DEF Closed
<1> QED BY <1>2, <1>3, <1>4

LEMMA NormalizeKeepsDigits ==
  ASSUME NEW t \in Seq(Nat), scheme \in Identifiers, ~Normalize(scheme, t).ok
  PROVE  Normalize(scheme, t) # Err("InvalidCheckDigits")
BY NormalizeRefuses DEF Err

LEMMA ParsedAgrees ==
  ASSUME scheme \in Schemes, NEW t \in Seq(Nat)
  PROVE  /\ Parse(t).ok => Reference(scheme, Parse(t).text)
         /\ Parse(t) = Err("InvalidCheckDigits") => ~Reference(scheme, Normalize(scheme, t).text)
<1>1. CASE scheme \in {"cnpj", "lei", "isin"}
  <2> DEFINE n == Normalize(scheme, t)
             s == n.text
  <2>1. scheme \in Identifiers
    BY <1>1 DEF Identifiers
  <2>2. Parse(t) = IF n.ok THEN FromBytes(s) ELSE n
    BY <2>1, ParseIs
  <2>3. CASE ~n.ok
    <3>1. n # Err("InvalidCheckDigits")
      BY <2>1, <2>3, NormalizeKeepsDigits
    <3> HIDE DEF n
    <3> QED BY <2>2, <2>3, <3>1
  <2>4. CASE n.ok
    <3>1. s \in Seq(Nat) /\ Len(s) = Length[scheme] /\ n = Ok(s)
      BY <2>1, <2>4, NormalizedText
    <3>2. Parse(t) = FromBytes(s)
      BY <2>2, <2>4
    <3> HIDE DEF n, s
    <3>3. CASE ~InClasses(scheme, s)
      <4>1. Parse(t) = Err("InvalidCharacter")
        BY <3>2, <3>3 DEF FromBytes
      <4> QED BY <4>1 DEF Err
    <3>4. CASE InClasses(scheme, s)
      <4>1. Closed(s) <=> Reference(scheme, s)
        BY <1>1, <3>1, <3>4, ClosedAgrees
      <4>2. /\ FromBytes(s).ok => Closed(s)
            /\ FromBytes(s) = Err("InvalidCheckDigits") => ~Closed(s)
        BY <1>1, <3>4 DEF FromBytes, Cnpj, Lei, Isin, If, Ok, Err
      <4>3. FromBytes(s).ok => FromBytes(s).text = s
        BY <2>1, FromBytesKeeps DEF Ok
      <4> QED BY <3>2, <4>1, <4>2, <4>3 DEF n, s
    <3> QED BY <3>3, <3>4
  <2> QED BY <2>3, <2>4
<1>2. CASE scheme \notin {"cnpj", "lei", "isin"}
  <2>1. \A s : Reference(scheme, s)
    BY <1>2 DEF Reference
  <2>2. Parse(t) # Err("InvalidCheckDigits")
    <3>1. CASE scheme \in Names
      <4>1. PICK max : \A u : Parse(u) = Name(u, max)
        BY <3>1, ParseName
      <4>2. Name(t, max) # Err("InvalidCheckDigits")
        BY DEF Name, Err, Ok
      <4> QED BY <4>1, <4>2
    <3>2. CASE scheme = "ticker"
      <4>1. Ticker(t) # Err("InvalidCheckDigits")
        BY DEF Ticker, Err, Ok
      <4> QED BY <3>2, <4>1, ParseTicker
    <3>3. CASE scheme \in Identifiers
      <4> DEFINE n == Normalize(scheme, t)
                 s == n.text
      <4>1. Parse(t) = IF n.ok THEN FromBytes(s) ELSE n
        BY <3>3, ParseIs
      <4>2. ~n.ok => n # Err("InvalidCheckDigits")
        BY <3>3, NormalizeKeepsDigits
      <4> HIDE DEF n, s
      <4>3. FromBytes(s) # Err("InvalidCheckDigits")
        BY <1>2, <3>3 DEF FromBytes, Cfi, Mic, CountryCode, If, Ok, Err, Identifiers
      <4> QED BY <4>1, <4>2, <4>3
    <3> QED BY <3>1, <3>2, <3>3, SchemesAre
  <2> QED BY <2>1, <2>2
<1> QED BY <1>1, <1>2

-----------------------------------------------------------------------------
(* The way of a text: what is issued is well formed, what is typed is a    *)
(* text, written in one of the ways unless there was a slip, and what is   *)
(* parsed, and read again, is what Parse makes of it.                      *)
TextInv ==
  /\ scheme \in Schemes
  /\ stage \in Stages
  /\ stage \in {"issued", "presented", "copied", "slipped", "mistaken"} => Issued(issued)
  /\ stage \in {"presented", "copied"} => typed \in Presentations(issued)
  /\ stage \in {"presented", "copied", "slipped", "mistaken"} => typed \in Seq(Nat)
  /\ stage \in {"copied", "mistaken"} => parsed = Parse(typed) /\ reread = parsed

LEMMA TextInit == Init => TextInv
BY DEF Init, TextInv, Stages

LEMMA TextUnchanged ==
  UNCHANGED <<scheme, registry, issued, typed>> =>
    /\ Issued(issued)' <=> Issued(issued)
    /\ Presentations(issued)' = Presentations(issued)
    /\ Parse(typed)' = Parse(typed)
BY DEF Issued, Identifier, Presentations, Parse, FromBytes, Cnpj, Lei, Isin, Cfi, Mic, CountryCode,
       Closed, Mics

LEMMA Slipped ==
  ASSUME NEW s \in Seq(Nat), NEW i \in DOMAIN s, NEW c \in Nat
  PROVE  ReplaceAt(s, i, c) \in Seq(Nat)
BY DEF ReplaceAt

Swap(s, i) == [s EXCEPT ![i] = s[i + 1], ![i + 1] = s[i]]

LEMMA Swapped ==
  ASSUME NEW s \in Seq(Nat), NEW i \in 1..(Len(s) - 1)
  PROVE  Swap(s, i) \in Seq(Nat)
<1>1. i \in 1..Len(s) /\ i + 1 \in 1..Len(s)
  OBVIOUS
<1>2. s[i] \in Nat /\ s[i + 1] \in Nat
  BY <1>1, ElementOfSeq
<1>3. s \in [1..Len(s) -> Nat] /\ Len(s) \in Nat
  OBVIOUS
<1> DEFINE u == [s EXCEPT ![i] = s[i + 1]]
<1>4. u \in [1..Len(s) -> Nat]
  BY <1>2, <1>3
<1> HIDE DEF u
<1>5. [u EXCEPT ![i + 1] = s[i]] \in [1..Len(s) -> Nat]
  BY <1>2, <1>4
<1> DEFINE w == [u EXCEPT ![i + 1] = s[i]]
<1> HIDE DEF w
<1>6. w \in Seq(Nat)
  <2>1. w \in [1..Len(s) -> Nat]
    BY <1>5 DEF w
  <2> QED BY <1>3, <2>1
<1> QED BY <1>6 DEF u, w, Swap

LEMMA IssuedNatural ==
  ASSUME NEW s, Issued(s)
  PROVE  s \in Seq(Nat)
BY DEF Issued, Identifier

LEMMA TextStep == TextInv /\ [Next]_vars => TextInv'
<1> SUFFICES ASSUME TextInv, [Next]_vars PROVE TextInv'
  OBVIOUS
<1>1. CASE Compile
  BY <1>1 DEF Compile, TextInv, Stages
<1>2. CASE Issue
  <2>1. PICK base \in Bases[scheme] : issued' = base \o CheckDigitsOf(scheme, base)
    BY <1>2 DEF Issue
  <2>2. scheme \in Schemes /\ base \in Holdable(scheme)
    BY <2>1, TextsAssumption DEF TextInv
  <2>3. Issued(issued')
    BY <2>1, <2>2, IssuedText
  <2>4. stage' = "issued" /\ UNCHANGED <<scheme, registry>>
    BY <1>2 DEF Issue
  <2>5. Issued(issued)'
    BY <2>3, <2>4 DEF Issued, Identifier
  <2> QED BY <2>2, <2>4, <2>5 DEF TextInv, Stages
<1>3. CASE Present
  <2>1. /\ scheme \in Schemes /\ Issued(issued) /\ typed' \in Presentations(issued)
        /\ stage' = "presented" /\ UNCHANGED <<scheme, registry, issued>>
    BY <1>3 DEF Present, TextInv
  <2>2. typed' \in Seq(Nat)
    BY <2>1, ParsesAnyWay
  <2>3. Issued(issued)' /\ Presentations(issued)' = Presentations(issued)
    BY <2>1 DEF Issued, Identifier, Presentations
  <2> QED BY <2>1, <2>2, <2>3 DEF TextInv, Stages
<1>4. CASE Slip
  <2>1. /\ scheme \in Schemes /\ Issued(issued) /\ stage' = "slipped"
        /\ UNCHANGED <<scheme, registry, issued>>
        /\ typed' \in { ReplaceAt(issued, i, c) : i \in DOMAIN issued, c \in Typos }
             \union { Swap(issued, i) : i \in 1..(Len(issued) - 1) }
    BY <1>4 DEF Slip, Swap, TextInv
  <2>2. issued \in Seq(Nat)
    BY <2>1, IssuedNatural
  <2>3. typed' \in Seq(Nat)
    <3>1. CASE typed' \in { ReplaceAt(issued, i, c) : i \in DOMAIN issued, c \in Typos }
      <4>1. PICK i \in DOMAIN issued, c \in Typos : typed' = ReplaceAt(issued, i, c)
        BY <3>1
      <4>2. c \in Nat
        BY TextsAssumption
      <4> QED BY <2>2, <4>1, <4>2, Slipped
    <3>2. CASE typed' \in { Swap(issued, i) : i \in 1..(Len(issued) - 1) }
      <4>1. PICK i \in 1..(Len(issued) - 1) : typed' = Swap(issued, i)
        BY <3>2
      <4>2. Swap(issued, i) \in Seq(Nat)
        BY <2>2, Swapped
      <4> QED BY <4>1, <4>2
    <3> QED BY <2>1, <3>1, <3>2
  <2>4. Issued(issued)'
    BY <2>1 DEF Issued, Identifier
  <2> QED BY <2>1, <2>3, <2>4 DEF TextInv, Stages
<1>5. CASE Read
  <2>1. UNCHANGED <<scheme, registry, issued, typed>> /\ parsed' = Parse(typed) /\ reread' = Reread(parsed')
    BY <1>5 DEF Read
  <2>2. /\ Issued(issued)' <=> Issued(issued)
        /\ Presentations(issued)' = Presentations(issued)
        /\ Parse(typed)' = Parse(typed)
    BY <2>1, TextUnchanged
  <2>3. reread' = parsed'
    <3>1. scheme \in Schemes /\ typed \in Seq(Nat)
      BY <1>5 DEF Read, TextInv
    <3>2. Parse(typed).ok => Parse(Parse(typed).text) = Parse(typed)
      BY <3>1, ParsesToItself
    <3> QED BY <2>1, <3>2 DEF Reread
  <2>4. /\ stage \in {"presented", "slipped"}
        /\ stage' = IF stage = "presented" THEN "copied" ELSE "mistaken"
    BY <1>5 DEF Read
  <2> QED BY <2>1, <2>2, <2>3, <2>4 DEF TextInv, Stages
<1>6. CASE UNCHANGED vars
  <2>1. UNCHANGED <<scheme, registry, issued, typed, stage, parsed, reread>>
    BY <1>6 DEF vars
  <2>2. /\ Issued(issued)' <=> Issued(issued)
        /\ Presentations(issued)' = Presentations(issued)
        /\ Parse(typed)' = Parse(typed)
    BY <2>1, TextUnchanged
  <2> QED BY <2>1, <2>2 DEF TextInv
<1> QED BY <1>1, <1>2, <1>3, <1>4, <1>5, <1>6 DEF Next

LEMMA Texts == Spec => []TextInv
BY TextInit, TextStep, PTL DEF Spec

(* However a text is written - between blanks, in lower case, with the     *)
(* punctuation of FormattedCnpj - FromStr gives the text that was issued,  *)
(* or refuses it as it would refuse that text; and what is stored of       *)
(* anything that parses is read back as it was (the parse and as_str of    *)
(* crates/core/src/identifiers, domain and tasks.rs).                      *)
THEOREM AnyWay == Spec => []WrittenAnyWay
<1>1. TextInv => WrittenAnyWay
  <2> SUFFICES ASSUME TextInv PROVE WrittenAnyWay
    OBVIOUS
  <2>1. ASSUME stage = "copied" PROVE parsed = Parse(issued) /\ (parsed.ok => parsed.text = issued)
    <3>1. scheme \in Schemes /\ Issued(issued) /\ typed \in Presentations(issued) /\ parsed = Parse(typed)
      BY <2>1 DEF TextInv
    <3>2. Parse(typed) = Parse(issued) /\ (Parse(issued).ok => Parse(issued).text = issued)
      BY <3>1, ParsesAnyWay
    <3> QED BY <3>1, <3>2
  <2>2. stage \in {"copied", "mistaken"} => reread = parsed
    BY DEF TextInv
  <2> QED BY <2>1, <2>2 DEF WrittenAnyWay
<1> QED BY <1>1, Texts, PTL

(* What the validation of a CNPJ, a LEI or an ISIN lets through satisfies  *)
(* the official definition of its check digits - two modulus 11 digits,    *)
(* ISO 7064 MOD 97-10, the Luhn formula - and what it refuses for its      *)
(* check digits does not (validate of cnpj.rs, lei.rs, isin.rs).           *)
THEOREM Digits == Spec => []DigitsAgreeWithReference
<1>1. TextInv => DigitsAgreeWithReference
  <2> SUFFICES ASSUME TextInv, stage \in {"copied", "mistaken"}
               PROVE  /\ parsed.ok => Reference(scheme, parsed.text)
                      /\ parsed = Err("InvalidCheckDigits")
                           => ~Reference(scheme, Normalize(scheme, typed).text)
    BY DEF DigitsAgreeWithReference
  <2>1. scheme \in Schemes /\ typed \in Seq(Nat) /\ parsed = Parse(typed)
    BY DEF TextInv
  <2>2. /\ Parse(typed).ok => Reference(scheme, Parse(typed).text)
        /\ Parse(typed) = Err("InvalidCheckDigits") => ~Reference(scheme, Normalize(scheme, typed).text)
    BY <2>1, ParsedAgrees
  <2> QED BY <2>1, <2>2
<1> QED BY <1>1, Texts, PTL

-----------------------------------------------------------------------------
(* Slips.  A text t is what became of s: one character was mistaken, or    *)
(* two neighbours were swapped.                                            *)

Misread(s, t, i) ==
  /\ Len(t) = Len(s) /\ i \in 1..Len(s)
  /\ \A n \in 1..Len(s) : n # i => t[n] = s[n]
Exchanged(s, t, i) ==
  /\ Len(t) = Len(s) /\ i \in 1..Len(s) /\ i + 1 \in 1..Len(s)
  /\ t[i] = s[i + 1] /\ t[i + 1] = s[i]
  /\ \A n \in 1..Len(s) : n # i /\ n # i + 1 => t[n] = s[n]

(* Two sums, f of p and g of q, whose terms differ at two places only.     *)
Totals(N, f, g, p, q, i, j) ==
  /\ N \in Nat /\ i \in Nat \ {0} /\ j \in Nat \ {0} /\ i # j
  /\ f[0] = 0 /\ g[0] = 0
  /\ \A n \in 1..N : /\ p[n] \in Int /\ q[n] \in Int
                     /\ f[n] = f[n - 1] + p[n] /\ g[n] = g[n - 1] + q[n]
                     /\ n # i /\ n # j => p[n] = q[n]

LEMMA SumsDiffer ==
  ASSUME NEW N, NEW f, NEW g, NEW p, NEW q, NEW i, NEW j, Totals(N, f, g, p, q, i, j)
  PROVE  /\ f[N] \in Int /\ g[N] \in Int
         /\ g[N] - f[N] = (IF i <= N THEN q[i] - p[i] ELSE 0) + (IF j <= N THEN q[j] - p[j] ELSE 0)
<1>0. /\ N \in Nat /\ i \in Nat \ {0} /\ j \in Nat \ {0} /\ i # j
      /\ f[0] = 0 /\ g[0] = 0
      /\ \A n \in 1..N : /\ p[n] \in Int /\ q[n] \in Int
                         /\ f[n] = f[n - 1] + p[n] /\ g[n] = g[n - 1] + q[n]
                         /\ n # i /\ n # j => p[n] = q[n]
  BY DEF Totals
<1> DEFINE Gap(n) == (IF i <= n THEN q[i] - p[i] ELSE 0) + (IF j <= n THEN q[j] - p[j] ELSE 0)
           T == { n \in 0..N : f[n] \in Int /\ g[n] \in Int /\ g[n] - f[n] = Gap(n) }
<1>1. 0 \in T
  BY <1>0
<1>2. ASSUME NEW n \in 1..N, n - 1 \in T PROVE n \in T
  <2>1. /\ p[n] \in Int /\ q[n] \in Int /\ f[n - 1] \in Int /\ g[n - 1] \in Int
        /\ f[n] = f[n - 1] + p[n] /\ g[n] = g[n - 1] + q[n]
        /\ g[n - 1] - f[n - 1] = Gap(n - 1)
    BY <1>0, <1>2
  <2>2. Gap(n) = Gap(n - 1) + (q[n] - p[n])
    <3>0. Gap(n - 1) \in Int /\ q[n] - p[n] \in Int
      <4>1. g[n - 1] - f[n - 1] \in Int
        BY <2>1
      <4> QED BY <2>1, <4>1
    <3>1. i <= n - 1 => i \in 1..N
      BY <1>0
    <3>2. j <= n - 1 => j \in 1..N
      BY <1>0
    <3>3. /\ i <= n - 1 => q[i] - p[i] \in Int
          /\ j <= n - 1 => q[j] - p[j] \in Int
      BY <1>0, <3>1, <3>2
    <3>4. CASE n = i
      BY <1>0, <2>1, <3>3, <3>4
    <3>5. CASE n = j
      BY <1>0, <2>1, <3>3, <3>5
    <3>6. CASE n # i /\ n # j
      <4>1. q[n] - p[n] = 0
        BY <1>0, <2>1, <3>6
      <4>2. (i <= n <=> i <= n - 1) /\ (j <= n <=> j <= n - 1)
        BY <1>0, <3>6
      <4>3. Gap(n) = Gap(n - 1)
        BY <4>2
      <4> HIDE DEF Gap
      <4> QED BY <3>0, <4>1, <4>3
    <3> QED BY <3>4, <3>5, <3>6
  <2> HIDE DEF Gap
  <2>3. g[n] - f[n] = Gap(n)
    BY <2>1, <2>2
  <2> QED BY <2>1, <2>3
<1> HIDE DEF T
<1>3. 0..N \subseteq T
  BY <1>0, <1>1, <1>2, Induction
<1>4. N \in T
  BY <1>0, <1>3
<1> QED BY <1>4 DEF T

(* CNPJ.                                                                    *)
Change(s, t, w, i) ==
  IF i <= Len(w) THEN CharValue(t[i]) * w[i] - CharValue(s[i]) * w[i] ELSE 0

LEMMA WeightedDiffers ==
  ASSUME NEW w \in Seq(Nat), NEW s, NEW t, NEW i \in Nat \ {0}, NEW j \in Nat \ {0}, i # j,
         \A n \in 1..Len(w) : s[n] \in Alnum /\ t[n] \in Alnum /\ (n # i /\ n # j => t[n] = s[n])
  PROVE  Weighted(t, w) - Weighted(s, w) = Change(s, t, w, i) + Change(s, t, w, j)
<1>1. PICK f : Sums(f, s, w) /\ Weighted(s, w) = f[Len(w)]
  BY WeightedSums
<1>2. PICK g : Sums(g, t, w) /\ Weighted(t, w) = g[Len(w)]
  BY WeightedSums
<1> DEFINE N == Len(w)
           p == [n \in 1..N |-> CharValue(s[n]) * w[n]]
           q == [n \in 1..N |-> CharValue(t[n]) * w[n]]
<1>3. N \in Nat /\ \A n \in 1..N : w[n] \in Nat
  OBVIOUS
<1>4. \A n \in 1..N : p[n] \in Int /\ q[n] \in Int
  BY <1>3, AlnumValue
<1>5. f[0] = 0 /\ g[0] = 0
  BY <1>1, <1>2 DEF Sums
<1>6. \A n \in 1..N : /\ f[n] = f[n - 1] + p[n] /\ g[n] = g[n - 1] + q[n]
                      /\ n # i /\ n # j => p[n] = q[n]
  BY <1>1, <1>2 DEF Sums
<1>7. /\ i <= N => Change(s, t, w, i) = q[i] - p[i]
      /\ j <= N => Change(s, t, w, j) = q[j] - p[j]
  <2>1. (i <= N => i \in 1..N) /\ (j <= N => j \in 1..N)
    BY <1>3
  <2> QED BY <2>1 DEF Change
<1>8. (~(i <= N) => Change(s, t, w, i) = 0) /\ (~(j <= N) => Change(s, t, w, j) = 0)
  BY DEF Change
<1> HIDE DEF N, p, q
<1>9. g[N] - f[N] = (IF i <= N THEN q[i] - p[i] ELSE 0) + (IF j <= N THEN q[j] - p[j] ELSE 0)
  <2>1. Totals(N, f, g, p, q, i, j)
    BY <1>3, <1>4, <1>5, <1>6 DEF Totals
  <2> QED BY ONLY <2>1, SumsDiffer
<1> QED BY <1>1, <1>2, <1>7, <1>8, <1>9 DEF N

(* Weights are invertible modulo 11, and so are the differences of         *)
(* neighbouring ones.                                                      *)
Codes == 0..42

LEMMA CodeOf ==
  ASSUME NEW c \in Alnum
  PROVE  CharValue(c) \in Codes /\ (c \in Digit <=> CharValue(c) \in 0..9)
BY DEF Alnum, Digit, Upper, CharValue, Codes

LEMMA WeightCounts ==
  ASSUME NEW k \in 2..9, NEW x \in Codes, NEW y \in Codes, (y - x) % 11 # 0
  PROVE  (y * k - x * k) % 11 # 0
<1>1. x \in 0..42 /\ y \in 0..42
  BY DEF Codes
<1>2. CASE k = 2  BY <1>1, <1>2
<1>3. CASE k = 3  BY <1>1, <1>3
<1>4. CASE k = 4  BY <1>1, <1>4
<1>5. CASE k = 5  BY <1>1, <1>5
<1>6. CASE k = 6  BY <1>1, <1>6
<1>7. CASE k = 7  BY <1>1, <1>7
<1>8. CASE k = 8  BY <1>1, <1>8
<1>9. CASE k = 9  BY <1>1, <1>9
<1> QED BY <1>2, <1>3, <1>4, <1>5, <1>6, <1>7, <1>8, <1>9

Neighbours == { <<3, 2>>, <<4, 3>>, <<5, 4>>, <<6, 5>>, <<7, 6>>, <<8, 7>>, <<9, 8>>, <<2, 9>> }

LEMMA OrderCounts ==
  ASSUME NEW k, NEW m, <<k, m>> \in Neighbours, NEW x \in Codes, NEW y \in Codes, (y - x) % 11 # 0
  PROVE  ((y * k - x * k) + (x * m - y * m)) % 11 # 0
<1>1. x \in 0..42 /\ y \in 0..42
  BY DEF Codes
<1>2. CASE k = m + 1 /\ m \in 2..8
  <2>1. (y * k - x * k) + (x * m - y * m) = y - x
    <3>1. y * (m + 1) = y * m + y /\ x * (m + 1) = x * m + x
      BY <1>1, <1>2
    <3>2. y * m \in Int /\ x * m \in Int
      BY <1>1, <1>2
    <3> QED BY <1>1, <1>2, <3>1, <3>2
  <2> QED BY <2>1
<1>3. CASE k = 2 /\ m = 9
  <2>1. (y * k - x * k) + (x * m - y * m) = 7 * x - 7 * y
    BY <1>1, <1>3
  <2>2. (7 * x - 7 * y) % 11 # 0
    BY <1>1
  <2> QED BY <2>1, <2>2
<1> QED BY <1>2, <1>3 DEF Neighbours

LEMMA WeightsAre ==
  /\ \A i \in 1..12 : WeightsDv1[i] \in 2..9 /\ WeightsDv2[i] \in 2..9
  /\ \A i \in 1..11 : <<WeightsDv1[i], WeightsDv1[i + 1]>> \in Neighbours
  /\ \A i \in 1..12 : <<WeightsDv2[i], WeightsDv2[i + 1]>> \in Neighbours
  /\ WeightsDv1[12] = 2 /\ WeightsDv2[13] = 2
<1>1. \A i \in 1..12 : i \in {1, 2, 3, 4, 5, 6, 7, 8, 9, 10, 11, 12}
  OBVIOUS
<1>2. \A i \in 1..11 : i \in {1, 2, 3, 4, 5, 6, 7, 8, 9, 10, 11}
  OBVIOUS
<1>3. \A i \in 1..12 : WeightsDv1[i] \in 2..9 /\ WeightsDv2[i] \in 2..9
  BY <1>1 DEF WeightsDv1, WeightsDv2
<1>4. \A i \in 1..11 : <<WeightsDv1[i], WeightsDv1[i + 1]>> \in Neighbours
  BY <1>2 DEF WeightsDv1, Neighbours
<1>5. \A i \in 1..12 : <<WeightsDv2[i], WeightsDv2[i + 1]>> \in Neighbours
  BY <1>1 DEF WeightsDv2, Neighbours
<1>6. WeightsDv1[12] = 2 /\ WeightsDv2[13] = 2
  BY DEF WeightsDv1, WeightsDv2
<1> QED BY <1>3, <1>4, <1>5, <1>6

(* What CnpjReference asks of a check digit worth v after the sum.         *)
Closes(sum, v) == (sum + v) % 11 = 0 \/ (v = 0 /\ sum % 11 = 1)

LEMMA OneDigitCloses ==
  ASSUME NEW sum \in Nat, NEW u \in 0..9, NEW v \in 0..9, Closes(sum, u), Closes(sum, v)
  PROVE  u = v
<1> DEFINE r == sum % 11
<1>1. r \in 0..10 /\ (sum + u) % 11 = (r + u) % 11 /\ (sum + v) % 11 = (r + v) % 11
  BY Mod11
<1> HIDE DEF r
<1>2. ((r + u) % 11 = 0 \/ (u = 0 /\ r = 1)) /\ ((r + v) % 11 = 0 \/ (v = 0 /\ r = 1))
  BY <1>1 DEF Closes, r
<1> QED BY <1>1, <1>2

(* A check digit that is the same for two sums that differ is 0.           *)
LEMMA SameDigitIsZero ==
  ASSUME NEW a \in Nat, NEW b \in Nat, (b - a) % 11 # 0,
         NEW v \in 0..9, Closes(a, v), Closes(b, v)
  PROVE  v = 0
<1> SUFFICES ASSUME v # 0 PROVE FALSE
  OBVIOUS
<1>1. (a + v) % 11 = 0 /\ (b + v) % 11 = 0
  BY DEF Closes
<1>2. (b + v) - (a + v) = b - a
  OBVIOUS
<1>3. \A x, y \in Nat : x % 11 = 0 /\ y % 11 = 0 => (y - x) % 11 = 0
  OBVIOUS
<1>4. a + v \in Nat /\ b + v \in Nat
  OBVIOUS
<1> QED BY <1>1, <1>2, <1>3, <1>4

(* What the reference asks of a CNPJ, and what is left of it after a slip. *)
CnpjText(s) ==
  /\ s \in Seq(Alnum) /\ Len(s) = 14 /\ s[13] \in Digit /\ s[14] \in Digit
  /\ CnpjReference(s)

LEMMA CnpjCloses ==
  ASSUME NEW s, CnpjText(s)
  PROVE  /\ Weighted(s, WeightsDv1) \in Nat /\ Weighted(s, WeightsDv2) \in Nat
         /\ CharValue(s[13]) \in 0..9 /\ CharValue(s[14]) \in 0..9
         /\ Closes(Weighted(s, WeightsDv1), CharValue(s[13]))
         /\ Closes(Weighted(s, WeightsDv2), CharValue(s[14]))
         /\ \A n \in 1..14 : s[n] \in Alnum /\ CharValue(s[n]) \in Codes /\ s[n] = 48 + CharValue(s[n])
<1>1. \A n \in 1..14 : s[n] \in Alnum
  BY ElementOfSeq DEF CnpjText
<1>2. Weighted(s, WeightsDv1) \in Nat /\ Weighted(s, WeightsDv2) \in Nat
  <2>1. /\ \A n \in 1..Len(WeightsDv1) : s[n] \in Alnum
        /\ \A n \in 1..Len(WeightsDv2) : s[n] \in Alnum
    BY <1>1, Weights
  <2> QED BY <2>1, Weights, WeightedNatural
<1>3. CharValue(s[13]) \in 0..9 /\ CharValue(s[14]) \in 0..9
  <2>1. 13 \in 1..14 /\ 14 \in 1..14
    OBVIOUS
  <2> QED BY <1>1, <2>1, CodeOf DEF CnpjText
<1>4. \A n \in 1..14 : CharValue(s[n]) \in Codes /\ s[n] = 48 + CharValue(s[n])
  <2>1. \A c \in Alnum : c = 48 + CharValue(c)
    BY DEF Alnum, Digit, Upper, CharValue
  <2> QED BY <1>1, <2>1, CodeOf
<1>5. /\ Closes(Weighted(s, WeightsDv1), CharValue(s[13]))
      /\ Closes(Weighted(s, WeightsDv2), CharValue(s[14]))
  BY DEF CnpjText, CnpjReference, Closes
<1> QED BY <1>1, <1>2, <1>3, <1>4, <1>5

(* The two sums of s and of t, which differ at i and j only.               *)
LEMMA CnpjSums ==
  ASSUME NEW s, NEW t, CnpjText(s), CnpjText(t),
         NEW i \in 1..14, NEW j \in Nat \ {0}, i # j,
         \A n \in 1..14 : n # i /\ n # j => t[n] = s[n]
  PROVE  /\ Weighted(t, WeightsDv1) - Weighted(s, WeightsDv1)
              = Change(s, t, WeightsDv1, i) + Change(s, t, WeightsDv1, j)
         /\ Weighted(t, WeightsDv2) - Weighted(s, WeightsDv2)
              = Change(s, t, WeightsDv2, i) + Change(s, t, WeightsDv2, j)
<1>1. \A n \in 1..14 : s[n] \in Alnum /\ t[n] \in Alnum
  BY CnpjCloses
<1>2. ASSUME NEW w \in Seq(Nat), Len(w) <= 14
      PROVE  Weighted(t, w) - Weighted(s, w) = Change(s, t, w, i) + Change(s, t, w, j)
  <2>1. \A n \in 1..Len(w) : n \in 1..14
    BY <1>2
  <2>2. \A n \in 1..Len(w) : s[n] \in Alnum /\ t[n] \in Alnum /\ (n # i /\ n # j => t[n] = s[n])
    BY <1>1, <2>1
  <2>3. i \in Nat \ {0}
    OBVIOUS
  <2> QED BY <2>2, <2>3, WeightedDiffers
<1>3. Len(WeightsDv1) <= 14 /\ Len(WeightsDv2) <= 14
  BY Weights
<1> QED BY <1>2, <1>3, Weights

(* One mistaken character of a CNPJ shows, unless both CNPJs end in 00.    *)
LEMMA CnpjMisread ==
  ASSUME NEW s, NEW t, CnpjText(s), CnpjText(t), NEW i, Misread(s, t, i),
         (CharValue(t[i]) - CharValue(s[i])) % 11 # 0
  PROVE  s[13] = 48 /\ s[14] = 48
<1> DEFINE x == CharValue(s[i])
           y == CharValue(t[i])
<1>1. i \in 1..14 /\ \A n \in 1..14 : n # i => t[n] = s[n]
  BY DEF Misread, CnpjText
<1>2. /\ Weighted(t, WeightsDv1) - Weighted(s, WeightsDv1) = Change(s, t, WeightsDv1, i)
      /\ Weighted(t, WeightsDv2) - Weighted(s, WeightsDv2) = Change(s, t, WeightsDv2, i)
  <2>1. /\ Weighted(t, WeightsDv1) - Weighted(s, WeightsDv1)
             = Change(s, t, WeightsDv1, i) + Change(s, t, WeightsDv1, 15)
        /\ Weighted(t, WeightsDv2) - Weighted(s, WeightsDv2)
             = Change(s, t, WeightsDv2, i) + Change(s, t, WeightsDv2, 15)
    <3>1. 15 \in Nat \ {0} /\ i # 15 /\ \A n \in 1..14 : n # i /\ n # 15 => t[n] = s[n]
      BY <1>1
    <3> QED BY <1>1, <3>1, CnpjSums
  <2>2. Change(s, t, WeightsDv1, 15) = 0 /\ Change(s, t, WeightsDv2, 15) = 0
    BY Weights DEF Change
  <2>3. /\ Weighted(s, WeightsDv1) \in Nat /\ Weighted(s, WeightsDv2) \in Nat
        /\ Weighted(t, WeightsDv1) \in Nat /\ Weighted(t, WeightsDv2) \in Nat
    BY CnpjCloses
  <2>4. Change(s, t, WeightsDv1, i) \in Int /\ Change(s, t, WeightsDv2, i) \in Int
    <3>1. x \in Codes /\ y \in Codes
      BY <1>1, CnpjCloses
    <3>2. ASSUME NEW w \in Seq(Nat) PROVE Change(s, t, w, i) \in Int
      <4>1. CASE i <= Len(w)
        <5>1. i \in 1..Len(w)
          BY <1>1, <4>1
        <5>2. w[i] \in Nat
          BY <5>1, ElementOfSeq
        <5>3. \A a, b \in Codes, k \in Nat : b * k - a * k \in Int
          BY DEF Codes
        <5> QED BY <3>1, <4>1, <5>2, <5>3 DEF Change
      <4>2. CASE ~(i <= Len(w))
        BY <4>2 DEF Change
      <4> QED BY <4>1, <4>2
    <3> QED BY <3>2, Weights
  <2> QED BY <2>1, <2>2, <2>4
<1>3. /\ i <= 12 => Change(s, t, WeightsDv1, i) = y * WeightsDv1[i] - x * WeightsDv1[i]
      /\ i <= 12 => Change(s, t, WeightsDv2, i) = y * WeightsDv2[i] - x * WeightsDv2[i]
      /\ ~(i <= 12) => Change(s, t, WeightsDv1, i) = 0
      /\ ~(i <= 13) => Change(s, t, WeightsDv2, i) = 0
  BY <1>1, Weights DEF Change
<1>4. /\ x \in Codes /\ y \in Codes /\ (y - x) % 11 # 0
      /\ \A n \in 1..14 : s[n] = 48 + CharValue(s[n]) /\ t[n] = 48 + CharValue(t[n])
  BY <1>1, CnpjCloses
<1> HIDE DEF x, y
<1>5. CASE i <= 12
  <2>1. i \in 1..12 /\ t[13] = s[13] /\ t[14] = s[14]
    BY <1>1, <1>5
  <2>2. WeightsDv1[i] \in 2..9 /\ WeightsDv2[i] \in 2..9
    BY <2>1, WeightsAre
  <2>3. /\ (Weighted(t, WeightsDv1) - Weighted(s, WeightsDv1)) % 11 # 0
        /\ (Weighted(t, WeightsDv2) - Weighted(s, WeightsDv2)) % 11 # 0
    BY <1>2, <1>3, <1>4, <1>5, <2>2, WeightCounts
  <2>4. CharValue(s[13]) = 0 /\ CharValue(s[14]) = 0
    BY <2>1, <2>3, CnpjCloses, SameDigitIsZero
  <2> QED BY <1>4, <2>4
<1>6. CASE i = 13
  <2>1. Weighted(t, WeightsDv1) = Weighted(s, WeightsDv1)
    BY <1>2, <1>3, <1>6, CnpjCloses
  <2>2. CharValue(t[13]) = CharValue(s[13])
    BY <2>1, CnpjCloses, OneDigitCloses
  <2>3. y = x
    BY <1>6, <2>2 DEF x, y
  <2>4. x - x = 0 /\ 0 % 11 = 0
    BY <1>4 DEF Codes
  <2> QED BY <1>4, <2>3, <2>4
<1>7. CASE i = 14
  <2>1. Weighted(t, WeightsDv2) = Weighted(s, WeightsDv2)
    BY <1>2, <1>3, <1>7, CnpjCloses
  <2>2. CharValue(t[14]) = CharValue(s[14])
    BY <2>1, CnpjCloses, OneDigitCloses
  <2>3. y = x
    BY <1>7, <2>2 DEF x, y
  <2>4. x - x = 0 /\ 0 % 11 = 0
    BY <1>4 DEF Codes
  <2> QED BY <1>4, <2>3, <2>4
<1> QED BY <1>1, <1>5, <1>6, <1>7

(* Two neighbours of a CNPJ that were swapped show, unless one of the two  *)
(* CNPJs ends in 00.                                                       *)
LEMMA LastSwap ==
  ASSUME NEW a \in Nat, NEW b \in Nat, NEW x \in 0..9, NEW y \in 0..9,
         b - a = 2 * y - 2 * x, x # y, Closes(a, y), Closes(b, x)
  PROVE  x = 0 \/ y = 0
<1> SUFFICES ASSUME x # 0, y # 0 PROVE FALSE
  OBVIOUS
<1>1. (a + y) % 11 = 0 /\ (b + x) % 11 = 0
  BY DEF Closes
<1>2. (b + x) - (a + y) = y - x
  OBVIOUS
<1>3. \A u, v \in Nat : u % 11 = 0 /\ v % 11 = 0 => (v - u) % 11 = 0
  OBVIOUS
<1>4. a + y \in Nat /\ b + x \in Nat
  OBVIOUS
<1>5. (y - x) % 11 = 0
  BY <1>1, <1>2, <1>3, <1>4
<1> QED BY <1>5

LEMMA CnpjExchanged ==
  ASSUME NEW s, NEW t, CnpjText(s), CnpjText(t), NEW i, Exchanged(s, t, i),
         (CharValue(t[i]) - CharValue(s[i])) % 11 # 0
  PROVE  (s[13] = 48 /\ s[14] = 48) \/ (t[13] = 48 /\ t[14] = 48)
<1> DEFINE x == CharValue(s[i])
           y == CharValue(t[i])
<1>1. /\ i \in 1..13 /\ i + 1 \in 1..14 /\ t[i] = s[i + 1] /\ t[i + 1] = s[i]
      /\ \A n \in 1..14 : n # i /\ n # i + 1 => t[n] = s[n]
  BY DEF Exchanged, CnpjText
<1>2. /\ Weighted(t, WeightsDv1) - Weighted(s, WeightsDv1)
           = Change(s, t, WeightsDv1, i) + Change(s, t, WeightsDv1, i + 1)
      /\ Weighted(t, WeightsDv2) - Weighted(s, WeightsDv2)
           = Change(s, t, WeightsDv2, i) + Change(s, t, WeightsDv2, i + 1)
  <2>1. i \in 1..14 /\ i + 1 \in Nat \ {0} /\ i # i + 1
    BY <1>1
  <2> QED BY <1>1, <2>1, CnpjSums
<1>3. /\ x \in Codes /\ y \in Codes /\ (y - x) % 11 # 0
      /\ \A n \in 1..14 : /\ s[n] = 48 + CharValue(s[n]) /\ t[n] = 48 + CharValue(t[n])
  BY <1>1, CnpjCloses
<1>4. CharValue(t[i + 1]) = x /\ CharValue(s[i + 1]) = y
  BY <1>1
<1>5. /\ i <= 11 => Change(s, t, WeightsDv1, i + 1) = x * WeightsDv1[i + 1] - y * WeightsDv1[i + 1]
      /\ i <= 12 => /\ Change(s, t, WeightsDv1, i) = y * WeightsDv1[i] - x * WeightsDv1[i]
                    /\ Change(s, t, WeightsDv2, i) = y * WeightsDv2[i] - x * WeightsDv2[i]
                    /\ Change(s, t, WeightsDv2, i + 1) = x * WeightsDv2[i + 1] - y * WeightsDv2[i + 1]
      /\ i = 12 => Change(s, t, WeightsDv1, i + 1) = 0
      /\ i = 13 => Change(s, t, WeightsDv1, i) = 0 /\ Change(s, t, WeightsDv1, i + 1) = 0
  <2>1. \A n \in 1..14 : n <= 11 => n + 1 <= 12 /\ n <= 12
    OBVIOUS
  <2>2. Len(WeightsDv1) = 12 /\ Len(WeightsDv2) = 13
    BY Weights
  <2>3. i \in Nat
    BY <1>1
  <2> HIDE DEF x, y
  <2>4. /\ \A w, k : k <= Len(w) => Change(s, t, w, k) = CharValue(t[k]) * w[k] - CharValue(s[k]) * w[k]
        /\ \A w, k : ~(k <= Len(w)) => Change(s, t, w, k) = 0
    BY DEF Change
  <2>5. CASE i <= 11
    <3>1. i <= 12 /\ i + 1 <= 12 /\ i + 1 <= 13 /\ i <= 13 /\ i # 12 /\ i # 13
      BY <2>3, <2>5
    <3> QED BY <1>4, <2>2, <2>4, <3>1 DEF x, y
  <2>6. CASE i = 12
    <3>1. ~(i + 1 <= 12) /\ i <= 12 /\ i <= 13 /\ i + 1 <= 13 /\ ~(i <= 11) /\ i # 13
      BY <2>6
    <3> QED BY <1>4, <2>2, <2>4, <3>1 DEF x, y
  <2>7. CASE i = 13
    <3>1. ~(i <= 12) /\ ~(i + 1 <= 12) /\ i # 12 /\ ~(i <= 11)
      BY <2>7
    <3> QED BY <2>2, <2>4, <3>1
  <2> QED BY <1>1, <2>5, <2>6, <2>7
<1> HIDE DEF x, y
<1>6. i <= 12 => (Weighted(t, WeightsDv2) - Weighted(s, WeightsDv2)) % 11 # 0
  <2> SUFFICES ASSUME i <= 12 PROVE (Weighted(t, WeightsDv2) - Weighted(s, WeightsDv2)) % 11 # 0
    OBVIOUS
  <2>1. i \in 1..12
    BY <1>1
  <2>2. <<WeightsDv2[i], WeightsDv2[i + 1]>> \in Neighbours
    BY <2>1, WeightsAre
  <2> QED BY <1>2, <1>3, <1>5, <2>2, OrderCounts
<1>7. CASE i <= 11
  <2>1. i \in 1..11 /\ t[13] = s[13] /\ t[14] = s[14]
    BY <1>1, <1>7
  <2>2. <<WeightsDv1[i], WeightsDv1[i + 1]>> \in Neighbours /\ i <= 12
    BY <2>1, WeightsAre
  <2>3. (Weighted(t, WeightsDv1) - Weighted(s, WeightsDv1)) % 11 # 0
    BY <1>2, <1>3, <1>5, <1>7, <2>2, OrderCounts
  <2>4. CharValue(s[13]) = 0 /\ CharValue(s[14]) = 0
    BY <1>6, <2>1, <2>2, <2>3, CnpjCloses, SameDigitIsZero
  <2> QED BY <1>3, <2>4
<1>8. CASE i = 12
  <2>1. t[14] = s[14] /\ t[13] = s[12] /\ t[12] = s[13]
    BY <1>1, <1>8
  <2>2. CharValue(s[14]) = 0
    BY <1>6, <1>8, <2>1, CnpjCloses, SameDigitIsZero
  <2>3. x = CharValue(t[13]) /\ y = CharValue(s[13])
    BY <1>8, <2>1 DEF x, y
  <2>4. Weighted(t, WeightsDv1) - Weighted(s, WeightsDv1) = 2 * y - 2 * x
    <3>1. WeightsDv1[i] = 2
      BY <1>8, WeightsAre
    <3>2. /\ Change(s, t, WeightsDv1, i) = y * WeightsDv1[i] - x * WeightsDv1[i]
          /\ Change(s, t, WeightsDv1, i + 1) = 0
      BY <1>5, <1>8
    <3>3. (y * 2 - x * 2) + 0 = 2 * y - 2 * x
      BY <1>3 DEF Codes
    <3> QED BY <1>2, <3>1, <3>2, <3>3
  <2>5. x # y
    <3>1. (x - x) % 11 = 0
      BY <1>3 DEF Codes
    <3> QED BY <1>3, <3>1
  <2>6. x = 0 \/ y = 0
    <3>1. /\ Weighted(s, WeightsDv1) \in Nat /\ Weighted(t, WeightsDv1) \in Nat
          /\ x \in 0..9 /\ y \in 0..9
          /\ Closes(Weighted(s, WeightsDv1), y) /\ Closes(Weighted(t, WeightsDv1), x)
      BY <2>3, CnpjCloses
    <3> QED BY <2>4, <2>5, <3>1, LastSwap
  <2> QED BY <1>3, <2>1, <2>2, <2>3, <2>6
<1>9. CASE i = 13
  <2>1. Weighted(t, WeightsDv1) = Weighted(s, WeightsDv1)
    BY <1>2, <1>5, <1>9, CnpjCloses
  <2>2. CharValue(t[13]) = CharValue(s[13])
    BY <2>1, CnpjCloses, OneDigitCloses
  <2>3. y = x
    BY <1>9, <2>2 DEF x, y
  <2>4. x - x = 0 /\ 0 % 11 = 0
    BY <1>3 DEF Codes
  <2> QED BY <1>3, <2>3, <2>4
<1>10. i <= 11 \/ i = 12 \/ i = 13
  BY <1>1
<1> QED BY <1>7, <1>8, <1>9, <1>10

(* LEI.                                                                    *)
LeiText(s) == s \in Seq(Alnum) /\ Len(s) = 20 /\ LeiReference(s)

LEMMA LeiFolds ==
  ASSUME NEW s, LeiText(s)
  PROVE  \E f : Folds(f, s) /\ f[20] = 1
<1> DEFINE d == Expanded(s)
<1>1. s \in Seq(Alnum) /\ Len(s) = 20 /\ LeiReference(s)
  BY DEF LeiText
<1>2. PICK pos : Spelled(s, d, pos)
  BY <1>1, ExpandedSpells
<1>3. PICK r : Remains(r, d) /\ r[Len(d)] = 1
  BY <1>1, LeiReferenceRemains
<1>4. PICK f : Folds(f, s)
  BY <1>1, FoldMod97Folds
<1> HIDE DEF d
<1>5. r[Len(d)] = f[Len(s)]
  <2>1. s \in Seq(Alnum) /\ Remains(r, d) /\ Folds(f, s)
    BY <1>1, <1>3, <1>4
  <2> QED BY ONLY <2>1, <1>2, RemainsFolds
<1> QED BY <1>1, <1>3, <1>4, <1>5

LEMMA FoldStepRange ==
  ASSUME NEW r \in Nat, NEW c \in Alnum
  PROVE  FoldStep(r, c) \in 0..96
<1>1. Value(c) \in Nat
  BY ValuesInRange
<1>2. r * 10 + Value(c) \in Nat /\ r * 100 + Value(c) \in Nat
  BY <1>1
<1>3. \A x \in Nat : x % 97 \in 0..96
  OBVIOUS
<1> QED BY <1>2, <1>3 DEF FoldStep

LEMMA FoldsRange ==
  ASSUME NEW s \in Seq(Alnum), NEW f, Folds(f, s)
  PROVE  \A n \in 0..Len(s) : f[n] \in 0..96
<1> TAKE n \in 0..Len(s)
<1>1. CASE n = 0
  BY <1>1 DEF Folds
<1>2. CASE n # 0
  <2>1. n \in 1..Len(s) /\ n - 1 \in 0..Len(s)
    BY <1>2
  <2>2. f[n - 1] \in Nat /\ s[n] \in Alnum /\ f[n] = FoldStep(f[n - 1], s[n])
    BY <2>1, ElementOfSeq DEF Folds
  <2> QED BY <2>2, FoldStepRange
<1> QED BY <1>1, <1>2

(* 10 and 100 are invertible modulo 97.                                    *)
LEMMA FoldStepApart ==
  ASSUME NEW r \in 0..96, NEW q \in 0..96, NEW c \in Alnum, FoldStep(r, c) = FoldStep(q, c)
  PROVE  r = q
<1> DEFINE v == Value(c)
<1>1. v \in Nat
  BY ValuesInRange
<1> HIDE DEF v
<1>2. CASE c \in Digit
  <2>1. (r * 10 + v) % 97 = (q * 10 + v) % 97
    BY <1>2 DEF FoldStep, v
  <2>2. ((r * 10 + v) - (q * 10 + v)) % 97 = 0
    <3>1. \A x, y \in Nat : x % 97 = y % 97 => (x - y) % 97 = 0
      OBVIOUS
    <3>2. r * 10 + v \in Nat /\ q * 10 + v \in Nat
      BY <1>1
    <3> QED BY <2>1, <3>1, <3>2
  <2>3. (10 * (r - q)) % 97 = 0
    <3>1. (r * 10 + v) - (q * 10 + v) = 10 * (r - q)
      BY <1>1
    <3> QED BY <2>2, <3>1
  <2> QED BY <2>3
<1>3. CASE c \notin Digit
  <2>1. (r * 100 + v) % 97 = (q * 100 + v) % 97
    BY <1>3 DEF FoldStep, v
  <2>2. ((r * 100 + v) - (q * 100 + v)) % 97 = 0
    <3>1. \A x, y \in Nat : x % 97 = y % 97 => (x - y) % 97 = 0
      OBVIOUS
    <3>2. r * 100 + v \in Nat /\ q * 100 + v \in Nat
      BY <1>1
    <3> QED BY <2>1, <3>1, <3>2
  <2>3. (3 * (r - q)) % 97 = 0
    <3>1. (r * 100 + v) - (q * 100 + v) = 97 * (r - q) + 3 * (r - q)
      BY <1>1
    <3>2. \A x \in Int : (97 * x + 3 * x) % 97 = (3 * x) % 97
      OBVIOUS
    <3>3. r - q \in Int
      OBVIOUS
    <3> QED BY <2>2, <3>1, <3>2, <3>3
  <2> QED BY <2>3
<1> QED BY <1>2, <1>3

(* Remainders that have come apart stay apart while the texts agree.       *)
Apart(s, t, f, g, k) ==
  /\ s \in Seq(Alnum) /\ t \in Seq(Alnum) /\ Len(s) = 20 /\ Len(t) = 20
  /\ Folds(f, s) /\ Folds(g, t) /\ k \in 0..20
  /\ \A n \in 1..20 : n > k => t[n] = s[n]

LEMMA FoldsStayApart ==
  ASSUME NEW s, NEW t, NEW f, NEW g, NEW k, Apart(s, t, f, g, k), f[20] = g[20]
  PROVE  f[k] = g[k]
<1> SUFFICES ASSUME f[k] # g[k] PROVE FALSE
  OBVIOUS
<1>1. /\ k \in 0..20 /\ \A n \in 0..20 : f[n] \in 0..96 /\ g[n] \in 0..96
      /\ \A n \in 1..20 : /\ s[n] \in Alnum /\ (n > k => t[n] = s[n])
                          /\ f[n] = FoldStep(f[n - 1], s[n]) /\ g[n] = FoldStep(g[n - 1], t[n])
  <2>1. /\ k \in 0..20 /\ s \in Seq(Alnum) /\ t \in Seq(Alnum) /\ Len(s) = 20 /\ Len(t) = 20
        /\ Folds(f, s) /\ Folds(g, t) /\ \A n \in 1..20 : n > k => t[n] = s[n]
    BY DEF Apart
  <2>2. (\A n \in 0..Len(s) : f[n] \in 0..96) /\ \A n \in 0..Len(t) : g[n] \in 0..96
    BY <2>1, FoldsRange
  <2>3. \A n \in 1..20 : s[n] \in Alnum
    BY <2>1, ElementOfSeq
  <2> QED BY <2>1, <2>2, <2>3 DEF Folds
<1> DEFINE T == { n \in 0..20 : n >= k => f[n] # g[n] }
<1>2. 0 \in T
  BY <1>1
<1>3. ASSUME NEW n \in 1..20, n - 1 \in T PROVE n \in T
  <2>1. CASE n = k
    BY <2>1
  <2>2. CASE n < k
    BY <1>1, <2>2
  <2>3. CASE n > k
    <3>1. n - 1 >= k /\ n - 1 \in 0..20
      BY <1>1, <2>3
    <3>2. f[n - 1] # g[n - 1] /\ t[n] = s[n]
      BY <1>1, <1>3, <2>3, <3>1
    <3>3. f[n] # g[n]
      <4> SUFFICES ASSUME f[n] = g[n] PROVE FALSE
        OBVIOUS
      <4>1. s[n] \in Alnum /\ f[n - 1] \in 0..96 /\ g[n - 1] \in 0..96
        BY <1>1, <3>1
      <4>2. f[n] = FoldStep(f[n - 1], s[n]) /\ g[n] = FoldStep(g[n - 1], t[n])
        BY <1>1
      <4>3. FoldStep(f[n - 1], s[n]) = FoldStep(g[n - 1], s[n])
        BY <3>2, <4>2
      <4>4. f[n - 1] = g[n - 1]
        BY ONLY <4>1, <4>3, FoldStepApart
      <4> QED BY <3>2, <4>4
    <3> QED BY <3>3
  <2> QED BY <1>1, <2>1, <2>2, <2>3
<1> HIDE DEF T
<1>4. 0..20 \subseteq T
  BY <1>2, <1>3, Induction
<1>5. 20 \in T /\ 20 >= k
  BY <1>1, <1>4
<1> QED BY <1>5 DEF T

Alike(s, t, f, g, k) ==
  /\ Len(s) = 20 /\ Len(t) = 20 /\ Folds(f, s) /\ Folds(g, t) /\ k \in 0..20
  /\ \A n \in 1..k : t[n] = s[n]

LEMMA FoldsAgreeBefore ==
  ASSUME NEW s, NEW t, NEW f, NEW g, NEW k, Alike(s, t, f, g, k)
  PROVE  f[k] = g[k]
<1>0. /\ Len(s) = 20 /\ Len(t) = 20 /\ Folds(f, s) /\ Folds(g, t) /\ k \in 0..20
      /\ \A n \in 1..k : t[n] = s[n]
  BY DEF Alike
<1>1. \A n \in 1..k : n \in 1..20
  BY <1>0
<1>2. f[0] = g[0] /\ \A n \in 1..k : f[n - 1] = g[n - 1] => f[n] = g[n]
  BY <1>0, <1>1 DEF Folds
<1>3. k \in Nat
  BY <1>0
<1> QED BY <1>2, <1>3, RecursionAgrees

(* One mistaken character of a LEI shows, unless it is a digit for a       *)
(* letter.                                                                 *)
LEMMA LeiMisread ==
  ASSUME NEW s, NEW t, LeiText(s), LeiText(t), NEW i, Misread(s, t, i), t[i] # s[i]
  PROVE  s[i] \in Digit <=> t[i] \notin Digit
<1> SUFFICES ASSUME s[i] \in Digit <=> t[i] \in Digit PROVE FALSE
  OBVIOUS
<1>1. PICK f : Folds(f, s) /\ f[20] = 1
  BY LeiFolds
<1>2. PICK g : Folds(g, t) /\ g[20] = 1
  BY LeiFolds
<1>3. /\ i \in 1..20 /\ s \in Seq(Alnum) /\ t \in Seq(Alnum) /\ Len(s) = 20 /\ Len(t) = 20
      /\ \A n \in 1..20 : n # i => t[n] = s[n]
  BY DEF Misread, LeiText
<1>4. f[i - 1] = g[i - 1] /\ f[i - 1] \in 0..96
  <2>0. i \in 1..20
    BY <1>3
  <2>1. i - 1 \in 0..20 /\ \A n \in 1..(i - 1) : n \in 1..20 /\ n # i
    BY ONLY <2>0
  <2>2. \A n \in 1..(i - 1) : t[n] = s[n]
    BY <1>3, <2>1
  <2>3. f[i - 1] = g[i - 1]
    <3> DEFINE k == i - 1
    <3>1. k \in 0..20 /\ Len(s) = 20 /\ Len(t) = 20 /\ Folds(f, s) /\ Folds(g, t)
      BY <1>1, <1>2, <1>3, <2>1
    <3>2. \A n \in 1..k : t[n] = s[n]
      BY <2>2
    <3> HIDE DEF k
    <3>3. Alike(s, t, f, g, k)
      BY <3>1, <3>2 DEF Alike
    <3>4. f[k] = g[k]
      BY <3>3, FoldsAgreeBefore
    <3> QED BY <3>4 DEF k
  <2>4. \A n \in 0..Len(s) : f[n] \in 0..96
    BY <1>1, <1>3, FoldsRange
  <2> QED BY <1>3, <2>1, <2>3, <2>4
<1>5. f[i] = g[i]
  <2>1. i \in 0..20 /\ \A n \in 1..20 : n > i => n # i
    BY <1>3
  <2>2. Apart(s, t, f, g, i)
    BY <1>1, <1>2, <1>3, <2>1 DEF Apart
  <2> QED BY <1>1, <1>2, <2>2, FoldsStayApart
<1>6. FoldStep(f[i - 1], s[i]) = FoldStep(f[i - 1], t[i])
  BY <1>1, <1>2, <1>3, <1>4, <1>5 DEF Folds
<1>7. s[i] \in Alnum /\ t[i] \in Alnum
  BY <1>3, ElementOfSeq
<1> DEFINE r == f[i - 1]
           x == Value(s[i])
           y == Value(t[i])
<1>8. /\ x \in 0..35 /\ y \in 0..35 /\ x # y
  <2>1. \A c \in Alnum : Value(c) \in 0..35
    BY DEF Alnum, Digit, Upper, Value
  <2>2. x # y
    BY <1>7 DEF Alnum, Digit, Upper, Value
  <2> QED BY <1>7, <2>1, <2>2
<1> HIDE DEF r, x, y
<1>9. \A m \in Nat : (m + x) % 97 = (m + y) % 97 => x = y
  BY <1>8
<1>10. r * 10 \in Nat /\ r * 100 \in Nat
  BY <1>4 DEF r
<1>11. (r * 10 + x) % 97 = (r * 10 + y) % 97 \/ (r * 100 + x) % 97 = (r * 100 + y) % 97
  BY <1>6 DEF FoldStep, r, x, y
<1> QED BY <1>8, <1>9, <1>10, <1>11

(* Two swapped neighbours of a LEI show, unless they are a digit and the   *)
(* letter of eleven times its value.                                       *)
Multiple(c, e) == Value(c) \in 0..9 /\ Value(e) = 11 * Value(c)

LEMMA TwoSteps ==
  ASSUME NEW r \in 0..96, NEW a \in Alnum, NEW b \in Alnum
  PROVE  LET next == FoldStep(FoldStep(r, a), b)
             x == Value(a)
             y == Value(b)
         IN  /\ a \in Digit /\ b \in Digit => next = (r * 100 + (10 * x + y)) % 97
             /\ a \in Digit /\ b \notin Digit => next = (r * 1000 + (100 * x + y)) % 97
             /\ a \notin Digit /\ b \in Digit => next = (r * 1000 + (10 * x + y)) % 97
             /\ a \notin Digit /\ b \notin Digit => next = (r * 10000 + (100 * x + y)) % 97
<1> DEFINE x == Value(a)
           y == Value(b)
<1>1. x \in Nat /\ y \in Nat
  BY ValuesInRange
<1>2. /\ FoldStep(r, a) = IF a \in Digit THEN (r * 10 + x) % 97 ELSE (r * 100 + x) % 97
      /\ \A q : FoldStep(q, b) = IF b \in Digit THEN (q * 10 + y) % 97 ELSE (q * 100 + y) % 97
  BY DEF FoldStep
<1> HIDE DEF x, y
<1>3. \A z \in Nat : /\ ((z % 97) * 10 + y) % 97 = (z * 10 + y) % 97
                     /\ ((z % 97) * 100 + y) % 97 = (z * 100 + y) % 97
  BY <1>1, Mod97Scale
<1>4. r * 10 + x \in Nat /\ r * 100 + x \in Nat
  BY <1>1
<1>5. /\ (r * 10 + x) * 10 + y = r * 100 + (10 * x + y)
      /\ (r * 10 + x) * 100 + y = r * 1000 + (100 * x + y)
      /\ (r * 100 + x) * 10 + y = r * 1000 + (10 * x + y)
      /\ (r * 100 + x) * 100 + y = r * 10000 + (100 * x + y)
  BY <1>1
<1>6. CASE a \in Digit
  BY <1>2, <1>3, <1>4, <1>5, <1>6 DEF x, y
<1>7. CASE a \notin Digit
  BY <1>2, <1>3, <1>4, <1>5, <1>7 DEF x, y
<1> QED BY <1>6, <1>7


LEMMA TwoStepsApart ==
  ASSUME NEW r \in 0..96, NEW a \in Alnum, NEW b \in Alnum, a # b,
         FoldStep(FoldStep(r, a), b) = FoldStep(FoldStep(r, b), a)
  PROVE  /\ a \in Digit <=> b \notin Digit
         /\ Multiple(a, b) \/ Multiple(b, a)
<1> DEFINE x == Value(a)
           y == Value(b)
<1>1. /\ a \in Digit => x \in 0..9
      /\ a \notin Digit => x \in 10..35
      /\ b \in Digit => y \in 0..9
      /\ b \notin Digit => y \in 10..35
  BY ValuesInRange
<1>2. x # y
  BY DEF Alnum, Digit, Upper, Value
<1> DEFINE ab == FoldStep(FoldStep(r, a), b)
           ba == FoldStep(FoldStep(r, b), a)
<1>3. /\ a \in Digit /\ b \in Digit => /\ ab = (r * 100 + (10 * x + y)) % 97
                                      /\ ba = (r * 100 + (10 * y + x)) % 97
      /\ a \in Digit /\ b \notin Digit => /\ ab = (r * 1000 + (100 * x + y)) % 97
                                         /\ ba = (r * 1000 + (10 * y + x)) % 97
      /\ a \notin Digit /\ b \in Digit => /\ ab = (r * 1000 + (10 * x + y)) % 97
                                         /\ ba = (r * 1000 + (100 * y + x)) % 97
      /\ a \notin Digit /\ b \notin Digit => /\ ab = (r * 10000 + (100 * x + y)) % 97
                                            /\ ba = (r * 10000 + (100 * y + x)) % 97
  BY TwoSteps
<1> HIDE DEF x, y
<1>b. ab = ba
  OBVIOUS
<1> HIDE DEF ab, ba
<1>4. x \in Nat /\ y \in Nat
  BY <1>1
<1>5. CASE a \in Digit /\ b \in Digit
  <2> DEFINE p == r * 100 + (10 * x + y)
             q == r * 100 + (10 * y + x)
  <2>0. ab = p % 97 /\ ba = q % 97
    BY <1>3, <1>5
  <2>1. p \in Nat /\ q \in Nat
    BY <1>4
  <2>2. ((10 * x + y) - (10 * y + x)) % 97 = 0
    <3>1. p - q = ((10 * x + y) - (10 * y + x))
      BY <1>4
    <3> HIDE DEF p, q
    <3>2. p % 97 = q % 97
      BY <1>b, <2>0
    <3>3. (p - q) % 97 = 0
      BY <2>1, <3>2
    <3> QED BY <3>1, <3>3
  <2>3. (10 * x + y) - (10 * y + x) = 9 * (x - y)
    BY <1>4
  <2> QED BY <1>1, <1>2, <1>5, <2>2, <2>3
<1>6. CASE a \notin Digit /\ b \notin Digit
  <2> DEFINE p == r * 10000 + (100 * x + y)
             q == r * 10000 + (100 * y + x)
  <2>0. ab = p % 97 /\ ba = q % 97
    BY <1>3, <1>6
  <2>1. p \in Nat /\ q \in Nat
    BY <1>4
  <2>2. ((100 * x + y) - (100 * y + x)) % 97 = 0
    <3>1. p - q = ((100 * x + y) - (100 * y + x))
      BY <1>4
    <3> HIDE DEF p, q
    <3>2. p % 97 = q % 97
      BY <1>b, <2>0
    <3>3. (p - q) % 97 = 0
      BY <2>1, <3>2
    <3> QED BY <3>1, <3>3
  <2>3. (100 * x + y) - (100 * y + x) = 99 * (x - y)
    BY <1>4
  <2> QED BY <1>1, <1>2, <1>6, <2>2, <2>3
<1>7. CASE a \in Digit /\ b \notin Digit
  <2> DEFINE p == r * 1000 + (100 * x + y)
             q == r * 1000 + (10 * y + x)
  <2>0. ab = p % 97 /\ ba = q % 97
    BY <1>3, <1>7
  <2>1. p \in Nat /\ q \in Nat
    BY <1>4
  <2>2. ((100 * x + y) - (10 * y + x)) % 97 = 0
    <3>1. p - q = ((100 * x + y) - (10 * y + x))
      BY <1>4
    <3> HIDE DEF p, q
    <3>2. p % 97 = q % 97
      BY <1>b, <2>0
    <3>3. (p - q) % 97 = 0
      BY <2>1, <3>2
    <3> QED BY <3>1, <3>3
  <2>3. (100 * x + y) - (10 * y + x) = 9 * (11 * x - y)
    BY <1>4
  <2>4. y = 11 * x
    BY <1>1, <1>7, <2>2, <2>3
  <2> QED BY <1>1, <1>7, <2>4 DEF Multiple, x, y
<1>8. CASE a \notin Digit /\ b \in Digit
  <2> DEFINE p == r * 1000 + (10 * x + y)
             q == r * 1000 + (100 * y + x)
  <2>0. ab = p % 97 /\ ba = q % 97
    BY <1>3, <1>8
  <2>1. p \in Nat /\ q \in Nat
    BY <1>4
  <2>2. ((10 * x + y) - (100 * y + x)) % 97 = 0
    <3>1. p - q = ((10 * x + y) - (100 * y + x))
      BY <1>4
    <3> HIDE DEF p, q
    <3>2. p % 97 = q % 97
      BY <1>b, <2>0
    <3>3. (p - q) % 97 = 0
      BY <2>1, <3>2
    <3> QED BY <3>1, <3>3
  <2>3. (10 * x + y) - (100 * y + x) = 9 * (x - 11 * y)
    BY <1>4
  <2>4. x = 11 * y
    BY <1>1, <1>8, <2>2, <2>3
  <2> QED BY <1>1, <1>8, <2>4 DEF Multiple, x, y
<1> QED BY <1>5, <1>6, <1>7, <1>8

LEMMA LeiExchanged ==
  ASSUME NEW s, NEW t, LeiText(s), LeiText(t), NEW i, Exchanged(s, t, i), t[i] # s[i]
  PROVE  /\ s[i] \in Digit <=> s[i + 1] \notin Digit
         /\ Multiple(s[i], s[i + 1]) \/ Multiple(s[i + 1], s[i])
<1> DEFINE k == i - 1
           a == s[i]
           b == s[i + 1]
<1>1. PICK f : Folds(f, s) /\ f[20] = 1
  BY LeiFolds
<1>2. PICK g : Folds(g, t) /\ g[20] = 1
  BY LeiFolds
<1>3. /\ s \in Seq(Alnum) /\ t \in Seq(Alnum) /\ Len(s) = 20 /\ Len(t) = 20
      /\ i \in 1..20 /\ i + 1 \in 1..20 /\ t[i] = b /\ t[i + 1] = a
      /\ \A n \in 1..20 : n # i /\ n # i + 1 => t[n] = s[n]
  BY DEF Exchanged, LeiText
<1>4. f[k] = g[k] /\ f[k] \in 0..96
  <2>0. i \in 1..20
    BY <1>3
  <2>1. k \in 0..20 /\ \A n \in 1..k : n \in 1..20 /\ n # i /\ n # i + 1
    BY ONLY <2>0
  <2>2. \A n \in 1..k : t[n] = s[n]
    BY <1>3, <2>1
  <2>3. Len(s) = 20 /\ Len(t) = 20 /\ Folds(f, s) /\ Folds(g, t)
    BY <1>1, <1>2, <1>3
  <2> HIDE DEF k
  <2>4. Alike(s, t, f, g, k)
    BY <2>1, <2>2, <2>3 DEF Alike
  <2>5. f[k] = g[k]
    BY <2>4, FoldsAgreeBefore
  <2>6. \A n \in 0..Len(s) : f[n] \in 0..96
    BY <1>3, <2>3, FoldsRange
  <2> QED BY <2>1, <2>3, <2>5, <2>6
<1>5. f[i + 1] = g[i + 1]
  <2> DEFINE m == i + 1
  <2>0. i \in 1..20 /\ i + 1 \in 1..20
    BY <1>3
  <2>1. m \in 0..20 /\ \A n \in 1..20 : n > m => n # i /\ n # i + 1
    BY ONLY <2>0
  <2>2. \A n \in 1..20 : n > m => t[n] = s[n]
    BY <1>3, <2>1
  <2> HIDE DEF m
  <2>3. Apart(s, t, f, g, m)
    BY <1>1, <1>2, <1>3, <2>1, <2>2 DEF Apart
  <2>4. f[m] = g[m]
    BY <1>1, <1>2, <2>3, FoldsStayApart
  <2> QED BY <2>4 DEF m
<1>6. /\ f[i + 1] = FoldStep(FoldStep(f[k], a), b)
      /\ g[i + 1] = FoldStep(FoldStep(f[k], b), a)
  <2>1. i + 1 - 1 = i
    BY <1>3
  <2>2. /\ f[i] = FoldStep(f[k], a) /\ g[i] = FoldStep(g[k], b)
    BY <1>1, <1>2, <1>3 DEF Folds
  <2>3. f[i + 1] = FoldStep(f[i], b) /\ g[i + 1] = FoldStep(g[i], a)
    <3> DEFINE m == i + 1
    <3>1. m \in 1..20 /\ m - 1 = i /\ s[m] = b /\ t[m] = a
      BY <1>3, <2>1
    <3> HIDE DEF m
    <3>2. f[m] = FoldStep(f[m - 1], s[m]) /\ g[m] = FoldStep(g[m - 1], t[m])
      BY <1>1, <1>2, <1>3, <3>1 DEF Folds
    <3> QED BY <3>1, <3>2 DEF m
  <2> QED BY <1>4, <2>2, <2>3
<1>7. a \in Alnum /\ b \in Alnum /\ a # b
  BY <1>3, ElementOfSeq
<1> HIDE DEF k, a, b
<1>8. /\ a \in Digit <=> b \notin Digit
      /\ Multiple(a, b) \/ Multiple(b, a)
  BY <1>4, <1>5, <1>6, <1>7, TwoStepsApart
<1> QED BY <1>8 DEF a, b

(* ISIN.  What a character adds to the sum, its last digit being the at-th *)
(* of top.                                                                 *)
IsinText(s) == s \in Seq(Alnum) /\ Len(s) = 12 /\ IsinReference(s)
Adding(c, top, at) ==
  IF c \in Digit THEN LuhnStep(Value(c), Doubled(top, at))
  ELSE LuhnStep(Value(c) \div 10, Doubled(top, at - 1)) + LuhnStep(Value(c) % 10, Doubled(top, at))

LEMMA IsinAdding ==
  ASSUME NEW s \in Seq(Alnum), NEW d, NEW pos, Spelled(s, d, pos), NEW S, Adds(S, d),
         NEW n \in 1..Len(s)
  PROVE  /\ S[pos[n]] \in Nat /\ S[pos[n - 1]] \in Nat
         /\ Adding(s[n], Len(d), pos[n]) \in Nat
         /\ S[pos[n]] = S[pos[n - 1]] + Adding(s[n], Len(d), pos[n])
<1> DEFINE top == Len(d)
           k == pos[n]
           m == pos[n - 1]
           c == s[n]
<1>1. /\ n - 1 \in 0..Len(s) /\ n \in 0..Len(s) /\ c \in Alnum
      /\ d \in Seq(Decimal) /\ top \in Nat /\ pos \in [0..Len(s) -> 0..top]
  BY ElementOfSeq DEF Spelled
<1>2. k \in 0..top /\ m \in 0..top
  BY <1>1
<1>3. /\ c \in Digit => k = m + 1 /\ d[k] = Value(c)
      /\ c \notin Digit => k = m + 2 /\ d[m + 1] = Value(c) \div 10 /\ d[k] = Value(c) % 10
  BY DEF Spelled
<1>4. /\ S \in [0..top -> Nat]
      /\ \A a \in 1..top : /\ S[a] = S[a - 1] + LuhnStep(d[a], Doubled(top, a))
                           /\ d[a] \in Decimal /\ Doubled(top, a) \in BOOLEAN
  BY <1>1, ElementOfSeq DEF Adds, Doubled
<1> HIDE DEF top, k, m, c
<1>5. \A v \in Decimal, b \in BOOLEAN : LuhnStep(v, b) \in Nat
  BY LuhnStepNatural DEF Decimal
<1>6. CASE c \in Digit
  <2>1. k \in 1..top /\ k - 1 = m
    BY <1>1, <1>2, <1>3, <1>6
  <2>2. S[k] = S[m] + LuhnStep(Value(c), Doubled(top, k)) /\ LuhnStep(Value(c), Doubled(top, k)) \in Nat
    BY <1>3, <1>4, <1>5, <1>6, <2>1
  <2>3. S[k] \in Nat /\ S[m] \in Nat
    BY <1>2, <1>4
  <2> QED BY <1>6, <2>2, <2>3 DEF Adding, top, k, m, c
<1>7. CASE c \notin Digit
  <2>0. m \in Int
    BY <1>2
  <2>1. k \in 1..top /\ m + 1 \in 1..top /\ k - 1 = m + 1 /\ m + 1 - 1 = m
    BY <1>1, <1>2, <1>3, <1>7
  <2> DEFINE u == LuhnStep(Value(c) \div 10, Doubled(top, k - 1))
             v == LuhnStep(Value(c) % 10, Doubled(top, k))
  <2>2. S[k] = S[m + 1] + v /\ v \in Nat
    BY <1>3, <1>4, <1>5, <1>7, <2>1
  <2>3. S[m + 1] = S[m] + u /\ u \in Nat
    <3> DEFINE h == m + 1
    <3>1. h \in 1..top /\ h - 1 = m /\ k - 1 = h
      BY ONLY <1>2, <2>1, <2>0
    <3>0. d[h] = Value(c) \div 10
      BY <1>3, <1>7
    <3> HIDE DEF h
    <3>2. S[h] = S[h - 1] + LuhnStep(d[h], Doubled(top, h)) /\ LuhnStep(d[h], Doubled(top, h)) \in Nat
      BY <1>4, <1>5, <3>1
    <3> QED BY <3>0, <3>1, <3>2 DEF h
  <2>4. S[k] \in Nat /\ S[m] \in Nat
    BY <1>2, <1>4
  <2>5. Adding(c, top, k) = u + v
    BY <1>7 DEF Adding
  <2> HIDE DEF u, v
  <2>6. S[k] = S[m] + (u + v) /\ u + v \in Nat
    BY <2>2, <2>3, <2>4
  <2> QED BY <2>4, <2>5, <2>6 DEF top, k, m, c
<1> QED BY <1>6, <1>7

(* A slip that leaves digits digits leaves every digit in its place.       *)
LEMMA SamePlaces ==
  ASSUME NEW s \in Seq(Alnum), NEW t \in Seq(Alnum), Len(t) = Len(s),
         NEW d, NEW p, Spelled(s, d, p), NEW e, NEW q, Spelled(t, e, q),
         \A n \in 1..Len(s) : s[n] \in Digit <=> t[n] \in Digit
  PROVE  Len(e) = Len(d) /\ \A n \in 0..Len(s) : q[n] = p[n]
<1> DEFINE N == Len(s)
           T == { n \in 0..N : q[n] = p[n] }
<1>1. N \in Nat /\ p[0] = 0 /\ q[0] = 0 /\ p[N] = Len(d) /\ q[N] = Len(e)
  BY DEF Spelled
<1>2. 0 \in T
  BY <1>1
<1>3. ASSUME NEW n \in 1..N, n - 1 \in T PROVE n \in T
  <2>1. /\ s[n] \in Digit => p[n] = p[n - 1] + 1
        /\ s[n] \notin Digit => p[n] = p[n - 1] + 2
    BY DEF Spelled
  <2>2. /\ t[n] \in Digit => q[n] = q[n - 1] + 1
        /\ t[n] \notin Digit => q[n] = q[n - 1] + 2
    BY DEF Spelled
  <2>3. q[n] = p[n]
    BY <1>3, <2>1, <2>2
  <2> QED BY <2>3
<1> HIDE DEF T, N
<1>4. 0..N \subseteq T
  BY <1>1, <1>2, <1>3, Induction
<1>5. \A n \in 0..N : q[n] = p[n]
  BY <1>4 DEF T
<1>6. N \in 0..N
  BY <1>1
<1> QED BY <1>1, <1>5, <1>6 DEF N

(* The sums of two ISINs that differ in digits at i and j only.            *)
Gain(s, t, n, top, pos) ==
  LuhnStep(Value(t[n]), Doubled(top, pos[n])) - LuhnStep(Value(s[n]), Doubled(top, pos[n]))
DigitSlip(s, t, i, j) ==
  /\ IsinText(s) /\ IsinText(t) /\ i \in 1..12 /\ j \in Nat \ {0} /\ i # j
  /\ \A n \in 1..12 : /\ n # i /\ n # j => t[n] = s[n]
                      /\ n = i \/ n = j => s[n] \in Digit /\ t[n] \in Digit

LEMMA IsinGains ==
  ASSUME NEW s, NEW t, NEW i, NEW j, DigitSlip(s, t, i, j)
  PROVE  \E top \in Nat : \E pos \in [0..12 -> 0..top] :
           /\ \A n \in 1..12 : s[n] \in Digit => pos[n] = pos[n - 1] + 1
           /\ (Gain(s, t, i, top, pos) + (IF j <= 12 THEN Gain(s, t, j, top, pos) ELSE 0)) % 10 = 0
<1> DEFINE d == Expanded(s)
           e == Expanded(t)
<1>1. /\ s \in Seq(Alnum) /\ t \in Seq(Alnum) /\ Len(s) = 12 /\ Len(t) = 12
      /\ IsinReference(s) /\ IsinReference(t)
      /\ i \in 1..12 /\ j \in Nat \ {0} /\ i # j
      /\ \A n \in 1..12 : /\ n # i /\ n # j => t[n] = s[n]
                          /\ n = i \/ n = j => s[n] \in Digit /\ t[n] \in Digit
  BY DEF DigitSlip, IsinText
<1>2. PICK pos : Spelled(s, d, pos)
  BY <1>1, ExpandedSpells
<1>3. PICK q : Spelled(t, e, q)
  BY <1>1, ExpandedSpells
<1>4. PICK S : Adds(S, d) /\ S[Len(d)] % 10 = 0
  BY <1>1, IsinReferenceAdds
<1>5. PICK U : Adds(U, e) /\ U[Len(e)] % 10 = 0
  BY <1>1, IsinReferenceAdds
<1> HIDE DEF d, e
<1>6. Len(e) = Len(d) /\ \A n \in 0..12 : q[n] = pos[n]
  <2>1. \A n \in 1..Len(s) : s[n] \in Digit <=> t[n] \in Digit
    BY <1>1
  <2>2. s \in Seq(Alnum) /\ t \in Seq(Alnum) /\ Len(t) = Len(s)
    BY <1>1
  <2>3. Len(e) = Len(d) /\ \A n \in 0..Len(s) : q[n] = pos[n]
    BY ONLY <1>2, <1>3, <2>1, <2>2, SamePlaces
  <2> QED BY <1>1, <2>3
<1> DEFINE top == Len(d)
           f == [n \in 0..12 |-> S[pos[n]]]
           g == [n \in 0..12 |-> U[pos[n]]]
           a == [n \in 1..12 |-> Adding(s[n], top, pos[n])]
           b == [n \in 1..12 |-> Adding(t[n], top, pos[n])]
<1>7. \A n \in 1..12 : a[n] \in Nat /\ f[n] = f[n - 1] + a[n]
  <2> TAKE n \in 1..12
  <2>1. /\ Adding(s[n], top, pos[n]) \in Nat
        /\ S[pos[n]] = S[pos[n - 1]] + Adding(s[n], top, pos[n])
    <3>1. s \in Seq(Alnum) /\ n \in 1..Len(s)
      BY <1>1
    <3> QED BY ONLY <1>2, <1>4, <3>1, IsinAdding
  <2>2. n \in 0..12 /\ n - 1 \in 0..12
    OBVIOUS
  <2> QED BY <2>1, <2>2
<1>8. \A n \in 1..12 : b[n] \in Nat /\ g[n] = g[n - 1] + b[n]
  <2> TAKE n \in 1..12
  <2>1. /\ Adding(t[n], Len(e), q[n]) \in Nat
        /\ U[q[n]] = U[q[n - 1]] + Adding(t[n], Len(e), q[n])
    <3>1. t \in Seq(Alnum) /\ n \in 1..Len(t)
      BY <1>1
    <3> QED BY ONLY <1>3, <1>5, <3>1, IsinAdding
  <2>2. n \in 0..12 /\ n - 1 \in 0..12
    OBVIOUS
  <2> QED BY <1>6, <2>1, <2>2
<1>9. f[0] = 0 /\ g[0] = 0 /\ f[12] % 10 = 0 /\ g[12] % 10 = 0
  <2>1. pos[0] = 0 /\ pos[12] = top /\ S[0] = 0 /\ U[0] = 0
    BY <1>1, <1>2, <1>4, <1>5 DEF Spelled, Adds
  <2> QED BY <1>4, <1>5, <1>6, <2>1
<1>10. \A n \in 1..12 : n # i /\ n # j => a[n] = b[n]
  BY <1>1
<1>11. \A n \in 1..12 : n = i \/ n = j => Gain(s, t, n, top, pos) = b[n] - a[n]
  BY <1>1 DEF Gain, Adding
<1>12. /\ top \in Nat /\ pos \in [0..12 -> 0..top]
       /\ \A n \in 1..12 : s[n] \in Digit => pos[n] = pos[n - 1] + 1
  <2>1. /\ d \in Seq(Decimal) /\ pos \in [0..Len(s) -> 0..top]
        /\ \A n \in 1..Len(s) : s[n] \in Digit => pos[n] = pos[n - 1] + 1
    BY <1>2 DEF Spelled
  <2> HIDE DEF top
  <2> QED BY <1>1, <2>1 DEF top
<1> HIDE DEF top, f, g, a, b
<1>13. /\ f[12] \in Int /\ g[12] \in Int
       /\ g[12] - f[12] = (IF i <= 12 THEN b[i] - a[i] ELSE 0) + (IF j <= 12 THEN b[j] - a[j] ELSE 0)
  <2>0. 12 \in Nat /\ \A n \in 1..12 : a[n] \in Int /\ b[n] \in Int
    BY <1>7, <1>8
  <2>1. Totals(12, f, g, a, b, i, j)
    <3>1. \A n \in 1..12 : /\ a[n] \in Int /\ b[n] \in Int
                           /\ f[n] = f[n - 1] + a[n] /\ g[n] = g[n - 1] + b[n]
                           /\ n # i /\ n # j => a[n] = b[n]
      BY <1>7, <1>8, <1>10, <2>0
    <3>2. i \in Nat \ {0} /\ j \in Nat \ {0} /\ i # j
      BY <1>1
    <3> QED BY ONLY <1>9, <2>0, <3>1, <3>2 DEF Totals
  <2> QED BY ONLY <2>1, SumsDiffer
<1>14. g[12] - f[12] = Gain(s, t, i, top, pos) + (IF j <= 12 THEN Gain(s, t, j, top, pos) ELSE 0)
  <2>1. i <= 12 /\ (j <= 12 => j \in 1..12)
    BY <1>1
  <2> QED BY <1>1, <1>11, <1>13, <2>1
<1>15. (g[12] - f[12]) % 10 = 0
  BY <1>9, <1>13
<1>16. (Gain(s, t, i, top, pos) + (IF j <= 12 THEN Gain(s, t, j, top, pos) ELSE 0)) % 10 = 0
  BY <1>14, <1>15
<1> QED BY <1>12, <1>16

LEMMA GainOne ==
  ASSUME NEW x \in 0..9, NEW y \in 0..9, NEW b \in BOOLEAN, (LuhnStep(y, b) - LuhnStep(x, b)) % 10 = 0
  PROVE  x = y
<1>1. CASE b = TRUE
  <2>1. ((IF 2 * y > 9 THEN 2 * y - 9 ELSE 2 * y) - (IF 2 * x > 9 THEN 2 * x - 9 ELSE 2 * x)) % 10 = 0
    BY <1>1 DEF LuhnStep
  <2> QED BY <2>1
<1>2. CASE b = FALSE
  <2>1. (y - x) % 10 = 0
    BY <1>2 DEF LuhnStep
  <2> QED BY <2>1
<1> QED BY <1>1, <1>2

LEMMA GainTwo ==
  ASSUME NEW x \in 0..9, NEW y \in 0..9, NEW b \in BOOLEAN, x # y,
         ((LuhnStep(y, b) - LuhnStep(x, b)) + (LuhnStep(x, ~b) - LuhnStep(y, ~b))) % 10 = 0
  PROVE  {x, y} = {0, 9}
<1> DEFINE D(v) == IF 2 * v > 9 THEN 2 * v - 9 ELSE 2 * v
<1>1. ((D(y) - D(x)) + (x - y)) % 10 = 0 \/ ((y - x) + (D(x) - D(y))) % 10 = 0
  <2>1. CASE b = TRUE
    BY <2>1 DEF LuhnStep
  <2>2. CASE b = FALSE
    BY <2>2 DEF LuhnStep
  <2> QED BY <2>1, <2>2
<1>2. (x = 0 /\ y = 9) \/ (x = 9 /\ y = 0)
  BY <1>1
<1> QED BY <1>2

LEMMA DigitValue ==
  ASSUME NEW c \in Digit
  PROVE  Value(c) \in 0..9 /\ c = 48 + Value(c)
BY DEF Digit, Value

(* One mistaken digit of an ISIN always shows.                             *)
LEMMA IsinMisread ==
  ASSUME NEW s, NEW t, IsinText(s), IsinText(t), NEW i, Misread(s, t, i),
         s[i] \in Digit, t[i] \in Digit
  PROVE  t[i] = s[i]
<1>1. i \in 1..12 /\ \A n \in 1..12 : n # i => t[n] = s[n]
  BY DEF Misread, IsinText
<1>2. DigitSlip(s, t, i, 13)
  BY <1>1 DEF DigitSlip
<1>3. PICK top \in Nat : \E pos \in [0..12 -> 0..top] :
        (Gain(s, t, i, top, pos) + (IF 13 <= 12 THEN Gain(s, t, 13, top, pos) ELSE 0)) % 10 = 0
  BY ONLY <1>2, IsinGains
<1>a. PICK pos \in [0..12 -> 0..top] : Gain(s, t, i, top, pos) % 10 = 0
  <2>1. ~(13 <= 12)
    OBVIOUS
  <2>2. PICK pos \in [0..12 -> 0..top] : (Gain(s, t, i, top, pos) + 0) % 10 = 0
    BY <1>3, <2>1
  <2>3. Gain(s, t, i, top, pos) \in Int
    <3>1. \A v \in 0..9, e \in BOOLEAN : LuhnStep(v, e) \in Nat
      BY LuhnStepNatural
    <3>2. Doubled(top, pos[i]) \in BOOLEAN
      BY DEF Doubled
    <3>3. Value(s[i]) \in 0..9 /\ Value(t[i]) \in 0..9
      BY DigitValue
    <3>4. /\ LuhnStep(Value(t[i]), Doubled(top, pos[i])) \in Nat
          /\ LuhnStep(Value(s[i]), Doubled(top, pos[i])) \in Nat
      BY <3>1, <3>2, <3>3
    <3> QED BY <3>4 DEF Gain
  <2> QED BY <2>2, <2>3
<1> DEFINE x == Value(s[i])
           y == Value(t[i])
           b == Doubled(top, pos[i])
<1>4. /\ x \in 0..9 /\ y \in 0..9 /\ b \in BOOLEAN /\ s[i] = 48 + x /\ t[i] = 48 + y
  BY DigitValue DEF Doubled
<1>5. Gain(s, t, i, top, pos) = LuhnStep(y, b) - LuhnStep(x, b)
  BY DEF Gain
<1> HIDE DEF x, y, b
<1>6. LuhnStep(y, b) \in Nat /\ LuhnStep(x, b) \in Nat
  BY <1>4, LuhnStepNatural
<1>7. (LuhnStep(y, b) - LuhnStep(x, b)) % 10 = 0
  BY <1>a, <1>5, <1>6
<1>8. x = y
  BY <1>4, <1>7, GainOne
<1> QED BY <1>4, <1>8

(* Two swapped neighbouring digits of an ISIN show, unless they are 0 and  *)
(* 9.                                                                      *)
LEMMA IsinExchanged ==
  ASSUME NEW s, NEW t, IsinText(s), IsinText(t), NEW i, Exchanged(s, t, i),
         s[i] \in Digit, s[i + 1] \in Digit, t[i] # s[i]
  PROVE  {Value(s[i]), Value(s[i + 1])} = {0, 9}
<1>1. /\ i \in 1..12 /\ i + 1 \in 1..12 /\ t[i] = s[i + 1] /\ t[i + 1] = s[i]
      /\ \A n \in 1..12 : n # i /\ n # i + 1 => t[n] = s[n]
  BY DEF Exchanged, IsinText
<1>2. DigitSlip(s, t, i, i + 1)
  <2>1. i + 1 \in Nat \ {0} /\ i # i + 1
    BY <1>1
  <2> QED BY <1>1, <2>1 DEF DigitSlip
<1> DEFINE j == i + 1
<1>a. PICK top \in Nat : \E pos \in [0..12 -> 0..top] :
        /\ \A n \in 1..12 : s[n] \in Digit => pos[n] = pos[n - 1] + 1
        /\ (Gain(s, t, i, top, pos) + (IF j <= 12 THEN Gain(s, t, j, top, pos) ELSE 0)) % 10 = 0
  <2>1. DigitSlip(s, t, i, j)
    BY <1>2
  <2> HIDE DEF j
  <2> QED BY ONLY <2>1, IsinGains
<1>3. PICK pos \in [0..12 -> 0..top] :
        /\ \A n \in 1..12 : s[n] \in Digit => pos[n] = pos[n - 1] + 1
        /\ (Gain(s, t, i, top, pos) + (IF j <= 12 THEN Gain(s, t, j, top, pos) ELSE 0)) % 10 = 0
  BY <1>a
<1> DEFINE x == Value(s[i])
           y == Value(s[j])
           b == Doubled(top, pos[i])
<1>0. top \in Nat
  OBVIOUS
<1>4. x \in 0..9 /\ y \in 0..9 /\ b \in BOOLEAN /\ s[i] = 48 + x /\ s[j] = 48 + y
  BY DigitValue DEF Doubled
<1>5. Doubled(top, pos[j]) = ~b
  <2>1. j \in 1..12 /\ j - 1 = i /\ i \in 0..12 /\ j \in 0..12
    BY <1>1
  <2> HIDE DEF j
  <2>2. pos[j] = pos[i] + 1 /\ pos[j] \in 0..top /\ pos[i] \in 0..top
    BY <1>3, <2>1 DEF j
  <2>3. pos[j] \in 1..top /\ pos[j] - 1 = pos[i]
    BY <2>2
  <2> DEFINE k == pos[j]
  <2>4. k \in 1..top /\ k - 1 = pos[i]
    BY <2>3
  <2> HIDE DEF k, b
  <2>5. Doubled(top, k) \in BOOLEAN /\ Doubled(top, k - 1) = ~Doubled(top, k)
    BY ONLY <1>0, <2>4, DoubledAlternates
  <2>6. b = ~Doubled(top, k)
    BY <2>4, <2>5 DEF b
  <2>7. Doubled(top, k) = ~b
    BY ONLY <1>4, <2>5, <2>6
  <2> QED BY <2>7 DEF k
<1>6. Gain(s, t, i, top, pos) = LuhnStep(y, b) - LuhnStep(x, b)
  BY <1>1 DEF Gain
<1>7. Gain(s, t, j, top, pos) = LuhnStep(x, ~b) - LuhnStep(y, ~b)
  BY <1>1, <1>5 DEF Gain
<1>8. j <= 12
  BY <1>1
<1> HIDE DEF x, y, b, j
<1>9. ((LuhnStep(y, b) - LuhnStep(x, b)) + (LuhnStep(x, ~b) - LuhnStep(y, ~b))) % 10 = 0
  BY <1>3, <1>6, <1>7, <1>8
<1>10. x # y
  BY <1>1, <1>4 DEF j
<1>11. {x, y} = {0, 9}
  BY <1>4, <1>9, <1>10, GainTwo
<1> QED BY <1>11 DEF x, y, j

-----------------------------------------------------------------------------
(* What is issued of the three schemes, and what is read of a slip.        *)
Checked == {"cnpj", "lei", "isin"}
Valid(s) ==
  /\ scheme = "cnpj" => CnpjText(s)
  /\ scheme = "lei" => LeiText(s)
  /\ scheme = "isin" => IsinText(s)

LEMMA ConcatParts ==
  ASSUME NEW a \in Seq(Alnum), NEW d \in Seq(Alnum), Len(a) >= 1, Len(d) >= 1
  PROVE  LET s == a \o d
         IN  /\ s \in Seq(Alnum) /\ Len(s) = Len(a) + Len(d)
             /\ Base(s, Len(a)) = a /\ SubSeq(s, Len(a) + 1, Len(s)) = d
             /\ \A k \in 1..Len(d) : s[Len(a) + k] = d[k]
<1> DEFINE n == Len(a)
           m == Len(d)
           s == a \o d
<1>1. n \in Nat /\ m \in Nat /\ n >= 1 /\ m >= 1
  OBVIOUS
<1>2. s \in Seq(Alnum) /\ Len(s) = n + m /\ \A k \in 1..m : s[n + k] = d[k]
  BY Joined
<1>3. 1 \in 1..n /\ n \in 1..n /\ n + 1 \in n + 1..n + m /\ n + m \in n + 1..n + m
  BY <1>1
<1>4. SubSeq(s, 1, n) = SubSeq(a, 1, n) /\ SubSeq(a, 1, n) = a
  BY <1>3, SubSeqOfConcat1, SubSeqFull
<1>5. SubSeq(s, n + 1, n + m) = SubSeq(d, (n + 1) - n, (n + m) - n)
  BY <1>3, SubSeqOfConcat2
<1>6. (n + 1) - n = 1 /\ (n + m) - n = m
  BY <1>1
<1>7. SubSeq(d, 1, m) = d
  BY SubSeqFull
<1> QED BY <1>2, <1>4, <1>5, <1>6, <1>7 DEF Base

LEMMA BaseOfWhole ==
  ASSUME NEW a \in Seq(Alnum)
  PROVE  Base(a, Len(a)) = a
BY SubSeqFull DEF Base

LEMMA IssuedValid ==
  ASSUME scheme \in Checked, NEW base \in Holdable(scheme)
  PROVE  Valid(base \o CheckDigitsOf(scheme, base))
<1> DEFINE d == CheckDigitsOf(scheme, base)
           s == base \o d
<1>1. base \in Seq(Alnum) /\ Len(base) = BaseLen(scheme) /\ Base(base, Len(base)) = base
  BY BaseOfWhole DEF Holdable, Names, Alnum, Checked
<1>2. CASE scheme = "cnpj"
  <2>1. Len(base) = 12 /\ d = CnpjDigits(base)
    BY <1>1, <1>2 DEF BaseLen, CheckDigitsOf
  <2>2. d \in Seq(Alnum) /\ Len(d) = 2 /\ d[1] \in Digit /\ d[2] \in Digit
    <3> HIDE DEF d
    <3> QED BY <1>1, <2>1, CnpjDigitsText
  <2> HIDE DEF d
  <2>3. /\ s \in Seq(Alnum) /\ Len(s) = 14 /\ Base(s, 12) = base /\ SubSeq(s, 13, Len(s)) = d
        /\ s[13] = d[1] /\ s[14] = d[2]
    <3>1. Len(base) >= 1 /\ Len(d) >= 1 /\ 1 \in 1..Len(d) /\ 2 \in 1..Len(d)
      BY <2>1, <2>2
    <3>2. /\ s \in Seq(Alnum) /\ Len(s) = Len(base) + Len(d)
          /\ Base(s, Len(base)) = base /\ SubSeq(s, Len(base) + 1, Len(s)) = d
          /\ \A k \in 1..Len(d) : s[Len(base) + k] = d[k]
      BY <1>1, <2>2, <3>1, ConcatParts
    <3> HIDE DEF s
    <3>3. s[Len(base) + 1] = d[1] /\ s[Len(base) + 2] = d[2]
      BY <3>1, <3>2
    <3> QED BY <2>1, <2>2, <3>2, <3>3
  <2> HIDE DEF s
  <2>4. CnpjReference(s)
    BY <2>1, <2>2, <2>3, CnpjAgrees
  <2> QED BY <1>2, <2>2, <2>3, <2>4 DEF Valid, CnpjText, d, s
<1>3. CASE scheme = "lei"
  <2>1. Len(base) = 18 /\ d = LeiDigits(base)
    BY <1>1, <1>3 DEF BaseLen, CheckDigitsOf
  <2>2. d \in Seq(Alnum) /\ Len(d) = 2 /\ d[1] \in Digit /\ d[2] \in Digit
    <3> HIDE DEF d
    <3> QED BY <1>1, <2>1, LeiDigitsText
  <2> HIDE DEF d
  <2>3. /\ s \in Seq(Alnum) /\ Len(s) = 20 /\ Base(s, 18) = base /\ SubSeq(s, 19, Len(s)) = d
        /\ s[19] = d[1] /\ s[20] = d[2]
    <3>1. Len(base) >= 1 /\ Len(d) >= 1 /\ 1 \in 1..Len(d) /\ 2 \in 1..Len(d)
      BY <2>1, <2>2
    <3>2. /\ s \in Seq(Alnum) /\ Len(s) = Len(base) + Len(d)
          /\ Base(s, Len(base)) = base /\ SubSeq(s, Len(base) + 1, Len(s)) = d
          /\ \A k \in 1..Len(d) : s[Len(base) + k] = d[k]
      BY <1>1, <2>2, <3>1, ConcatParts
    <3> HIDE DEF s
    <3>3. s[Len(base) + 1] = d[1] /\ s[Len(base) + 2] = d[2]
      BY <3>1, <3>2
    <3> QED BY <2>1, <2>2, <3>2, <3>3
  <2> HIDE DEF s
  <2>4. LeiReference(s)
    BY <2>1, <2>2, <2>3, LeiAgrees
  <2> QED BY <1>3, <2>2, <2>3, <2>4 DEF Valid, LeiText, d, s
<1>4. CASE scheme = "isin"
  <2>1. Len(base) = 11 /\ d = <<IsinDigit(base)>>
    BY <1>1, <1>4 DEF BaseLen, CheckDigitsOf
  <2>2. d \in Seq(Alnum) /\ Len(d) = 1 /\ d[1] \in Digit
    <3> HIDE DEF d
    <3> QED BY <1>1, <2>1, IsinDigitText
  <2> HIDE DEF d
  <2>3. /\ s \in Seq(Alnum) /\ Len(s) = 12 /\ Base(s, 11) = base /\ SubSeq(s, 12, Len(s)) = d
        /\ s[12] = d[1]
    <3>1. Len(base) >= 1 /\ Len(d) >= 1 /\ 1 \in 1..Len(d)
      BY <2>1, <2>2
    <3>2. /\ s \in Seq(Alnum) /\ Len(s) = Len(base) + Len(d)
          /\ Base(s, Len(base)) = base /\ SubSeq(s, Len(base) + 1, Len(s)) = d
          /\ \A k \in 1..Len(d) : s[Len(base) + k] = d[k]
      BY <1>1, <2>2, <3>1, ConcatParts
    <3> HIDE DEF s
    <3>3. s[Len(base) + 1] = d[1]
      BY <3>1, <3>2
    <3> QED BY <2>1, <2>2, <3>2, <3>3
  <2> HIDE DEF s
  <2>4. IsinReference(s)
    BY <2>1, <2>2, <2>3, IsinAgrees
  <2> QED BY <1>4, <2>2, <2>3, <2>4 DEF Valid, IsinText, d, s
<1> QED BY <1>2, <1>3, <1>4 DEF Checked

(* What is taken of a text and is as long as it, is all of it.             *)
LEMMA TrimWhole ==
  ASSUME NEW t \in Seq(Nat), Len(Trim(t)) = Len(t)
  PROVE  Trim(t) = t
<1>1. CASE \A i \in 1..Len(t) : t[i] \in Blank
  <2>1. Trim(t) = <<>>
    BY <1>1, TrimBlank
  <2>2. Len(t) = 0
    BY <2>1
  <2> QED BY <2>1, <2>2, EmptySeq
<1>2. CASE ~(\A i \in 1..Len(t) : t[i] \in Blank)
  <2>1. PICK lo, hi : TrimsTo(t, lo, hi)
    BY <1>2, TrimEnds
  <2>2. Trim(t) = SubSeq(t, lo, hi)
    BY <2>1, TrimBetween
  <2>3. lo \in 1..Len(t) /\ hi \in lo..Len(t) /\ Len(t) \in Nat
    BY <2>1 DEF TrimsTo
  <2>4. \A i \in lo..hi : t[i] \in Nat
    <3>1. \A i \in lo..hi : i \in 1..Len(t)
      BY <2>3
    <3> QED BY <3>1, ElementOfSeq
  <2>5. lo \in Int /\ hi \in Int /\ lo <= hi
    BY <2>3
  <2>6. Len(SubSeq(t, lo, hi)) = hi - lo + 1
    BY <2>4, <2>5, SubSeqProperties
  <2>7. lo = 1 /\ hi = Len(t)
    BY <2>2, <2>3, <2>6
  <2> QED BY <2>2, <2>7, SubSeqFull
<1> QED BY <1>1, <1>2

LEMMA MeaningfulWhole ==
  ASSUME NEW t \in Seq(Nat), Len(Meaningful(t)) = Len(t)
  PROVE  Meaningful(t) = t
<1>1. PICK K : Keeps(K, t) /\ Meaningful(t) = K[Len(t)]
  BY MeaningfulKeeps
<1> DEFINE top == Len(t)
           Begins(x, n) == /\ x \in Seq(Nat) /\ Len(x) \in 0..n
                           /\ Len(x) = n => \A i \in 1..n : x[i] = t[i]
           T == { n \in 0..top : Begins(K[n], n) }
<1>2. top \in Nat /\ \A i \in 1..top : t[i] \in Nat
  BY ElementOfSeq
<1>3. K[0] = <<>> /\ \A n \in 1..top : K[n] \in {K[n - 1], Append(K[n - 1], t[n])}
  BY <1>1 DEF Keeps
<1> HIDE DEF top
<1>4. 0 \in T
  <2>1. Begins(<<>>, 0)
    <3>1. (\A i \in 1..0 : FALSE) /\ <<>> \in Seq(Nat) /\ Len(<<>>) \in 0..0
      OBVIOUS
    <3> QED BY <3>1
  <2>2. 0 \in 0..top /\ Begins(K[0], 0)
    BY <1>2, <1>3, <2>1
  <2> QED BY <2>2
<1>5. ASSUME NEW n \in 1..top, n - 1 \in T PROVE n \in T
  <2> DEFINE x == K[n - 1]
  <2>1. Begins(x, n - 1) /\ t[n] \in Nat /\ n \in 0..top
    BY <1>2, <1>5
  <2>2. K[n] \in {x, Append(x, t[n])}
    BY <1>3
  <2> HIDE DEF x
  <2>3. CASE K[n] = x
    <3>1. Begins(x, n)
      BY <2>1
    <3> QED BY <2>1, <2>3, <3>1
  <2>4. CASE K[n] = Append(x, t[n])
    <3>1. x \in Seq(Nat) /\ t[n] \in Nat
      BY <2>1
    <3>2. /\ Append(x, t[n]) \in Seq(Nat) /\ Len(Append(x, t[n])) = Len(x) + 1
          /\ \A i \in 1..Len(x) : Append(x, t[n])[i] = x[i]
          /\ Append(x, t[n])[Len(x) + 1] = t[n]
      BY ONLY <3>1, AppendProperties
    <3>3. Len(x) + 1 \in 0..n
      BY <2>1
    <3>4. ASSUME Len(x) + 1 = n, NEW i \in 1..n PROVE Append(x, t[n])[i] = t[i]
      <4>1. Len(x) = n - 1 /\ (i = n \/ i \in 1..(n - 1))
        BY <2>1, <3>4
      <4> QED BY <2>1, <3>2, <3>4, <4>1
    <3>5. Begins(K[n], n)
      BY <2>4, <3>2, <3>3, <3>4
    <3> QED BY <2>1, <3>5
  <2> QED BY <2>2, <2>3, <2>4
<1> HIDE DEF T
<1>6. 0..top \subseteq T
  BY <1>2, <1>4, <1>5, Induction
<1>7. Begins(K[top], top)
  BY <1>2, <1>6 DEF T
<1> QED BY <1>1, <1>7, SeqEqual DEF top

LEMMA TakenWhole ==
  ASSUME NEW t \in Seq(Nat), Len(Taken(t)) = Len(t)
  PROVE  Taken(t) = t
BY TrimWhole, MeaningfulWhole DEF Taken

(* A text of the length of its scheme that parses is only raised.          *)
LEMMA ParsedRaised ==
  ASSUME scheme \in Checked, NEW t \in Seq(Nat), Len(t) = Length[scheme], Parse(t).ok
  PROVE  Parse(t).text = Raised(t) /\ Valid(Raised(t))
<1> DEFINE n == Normalize(scheme, t)
           s == n.text
<1>1. scheme \in Identifiers /\ scheme \in Schemes
  BY DEF Identifiers, Checked, Schemes
<1>2. n.ok /\ Parse(t) = FromBytes(s)
  <2>1. Parse(t) = IF n.ok THEN FromBytes(s) ELSE n
    BY <1>1, ParseIs
  <2> QED BY <2>1
<1>3. s \in Seq(Nat) /\ Len(s) = Length[scheme] /\ n = Ok(s)
  BY <1>1, <1>2, NormalizedText
<1>4. s = Raised(t)
  <2> DEFINE r == Taken(t)
  <2>1. n = IF t = <<>> \/ (scheme = "currency" /\ r = <<>>) THEN Err("Empty")
            ELSE IF Len(r) # Length[scheme] THEN Err("InvalidLength")
            ELSE IF \E i \in DOMAIN r : r[i] \notin Ascii THEN Err("InvalidCharacter")
            ELSE Ok(Raised(r))
    BY <1>1, NormalizeIs
  <2> HIDE DEF n, r, Raised
  <2>2. n = Ok(Raised(r)) /\ Len(r) = Length[scheme]
    BY <1>2, <2>1 DEF Err
  <2>3. r = t
    BY <2>2, TakenWhole DEF r
  <2> QED BY <2>2, <2>3 DEF Ok, s
<1> HIDE DEF n, s
<1>5. FromBytes(s) = Ok(s) /\ InClasses(scheme, s)
  BY <1>1, <1>2, FromBytesKeeps
<1>6. Parse(t).text = s
  BY <1>2, <1>5 DEF Ok
<1>7. Reference(scheme, s)
  BY <1>1, <1>6, ParsedAgrees
<1>8. s \in Seq(Alnum) /\ DOMAIN s = 1..Len(s)
  BY <1>1, <1>3, <1>5, InClassesIdentifier
<1>9. Valid(s)
  <2>1. scheme = "cnpj" => CnpjText(s)
    <3> SUFFICES ASSUME scheme = "cnpj" PROVE CnpjText(s)
      OBVIOUS
    <3>1. Len(s) = 14 /\ CnpjReference(s)
      BY <1>3, <1>7 DEF Length, Reference
    <3>2. 13 \in DOMAIN s /\ 14 \in DOMAIN s
      BY <1>8, <3>1
    <3>3. s[13] \in Digit /\ s[14] \in Digit
      BY <1>5, <3>2 DEF InClasses, Class
    <3> QED BY <1>8, <3>1, <3>3 DEF CnpjText
  <2>2. scheme = "lei" => LeiText(s)
    BY <1>3, <1>7, <1>8 DEF Length, Reference, LeiText
  <2>3. scheme = "isin" => IsinText(s)
    BY <1>3, <1>7, <1>8 DEF Length, Reference, IsinText
  <2> QED BY <2>1, <2>2, <2>3 DEF Valid
<1> QED BY <1>4, <1>6, <1>9

(* What a slip of a valid text is read as: one character mistaken, or two  *)
(* neighbours swapped.                                                     *)
Slips(s) ==
  { ReplaceAt(s, i, c) : i \in DOMAIN s, c \in Typos } \union { Swap(s, i) : i \in 1..(Len(s) - 1) }

LEMMA AlnumText ==
  ASSUME NEW s \in Seq(Alnum)
  PROVE  s \in Seq(Nat) /\ \A n \in 1..Len(s) : s[n] \in Nat /\ ToUpper(s[n]) = s[n]
<1>1. \A n \in 1..Len(s) : s[n] \in Nat /\ ToUpper(s[n]) = s[n]
  <2>1. \A c \in Alnum : c \in Nat /\ ToUpper(c) = c
    BY DEF Alnum, Digit, Upper, Lower, ToUpper
  <2> QED BY <2>1, ElementOfSeq
<1>2. s = [n \in 1..Len(s) |-> s[n]] /\ Len(s) \in Nat
  OBVIOUS
<1>3. s \in Seq(Nat)
  BY <1>1, <1>2
<1> QED BY <1>1, <1>3

LEMMA RaisedMistake ==
  ASSUME NEW s \in Seq(Alnum), NEW i \in DOMAIN s, NEW c \in Nat
  PROVE  /\ ReplaceAt(s, i, c) \in Seq(Nat) /\ Len(ReplaceAt(s, i, c)) = Len(s)
         /\ Misread(s, Raised(ReplaceAt(s, i, c)), i)
<1> DEFINE t == ReplaceAt(s, i, c)
<1>1. s \in Seq(Nat) /\ \A n \in 1..Len(s) : s[n] \in Nat /\ ToUpper(s[n]) = s[n]
  BY AlnumText
<1>2. DOMAIN s = 1..Len(s) /\ Len(s) \in Nat
  OBVIOUS
<1>3. t \in Seq(Nat)
  BY <1>1, Slipped
<1>4. Len(t) = Len(s) /\ \A n \in 1..Len(s) : n # i => t[n] = s[n]
  BY <1>1, <1>2 DEF ReplaceAt
<1> HIDE DEF t
<1>5. /\ Raised(t) \in Seq(Nat) /\ Len(Raised(t)) = Len(t)
      /\ \A n \in 1..Len(t) : Raised(t)[n] = ToUpper(t[n])
  BY <1>3, RaisedText
<1>6. Misread(s, Raised(t), i)
  <2>1. \A n \in 1..Len(s) : n # i => Raised(t)[n] = s[n]
    BY <1>1, <1>4, <1>5
  <2> QED BY <1>2, <1>4, <1>5, <2>1 DEF Misread
<1> QED BY <1>3, <1>4, <1>6 DEF t

LEMMA RaisedSwap ==
  ASSUME NEW s \in Seq(Alnum), NEW i \in 1..(Len(s) - 1)
  PROVE  /\ Swap(s, i) \in Seq(Nat) /\ Len(Swap(s, i)) = Len(s)
         /\ Exchanged(s, Raised(Swap(s, i)), i)
<1> DEFINE t == Swap(s, i)
<1>1. s \in Seq(Nat) /\ \A n \in 1..Len(s) : s[n] \in Nat /\ ToUpper(s[n]) = s[n]
  BY AlnumText
<1>2. /\ DOMAIN s = 1..Len(s) /\ Len(s) \in Nat /\ i \in 1..Len(s) /\ i + 1 \in 1..Len(s)
      /\ i # i + 1
  OBVIOUS
<1>3. t \in Seq(Nat)
  BY <1>1, Swapped
<1>4. /\ Len(t) = Len(s) /\ t[i] = s[i + 1] /\ t[i + 1] = s[i]
      /\ \A n \in 1..Len(s) : n # i /\ n # i + 1 => t[n] = s[n]
  <2> DEFINE j == i + 1
  <2>1. j \in 1..Len(s) /\ i # j /\ t = [s EXCEPT ![i] = s[j], ![j] = s[i]]
    BY <1>2 DEF Swap
  <2> HIDE DEF j, t
  <2>2. /\ DOMAIN t = DOMAIN s /\ t[i] = s[j] /\ t[j] = s[i]
        /\ \A n \in DOMAIN s : n # i /\ n # j => t[n] = s[n]
    BY <1>2, <2>1
  <2>3. Len(t) = Len(s)
    <3>1. DOMAIN t = 1..Len(t) /\ Len(t) \in Nat
      BY <1>3
    <3>2. \A m, n \in Nat : 1..m = 1..n => m = n
      <4> SUFFICES ASSUME NEW m \in Nat, NEW n \in Nat, 1..m = 1..n PROVE m = n
        OBVIOUS
      <4>1. (m >= 1 => m \in 1..n) /\ (n >= 1 => n \in 1..m)
        OBVIOUS
      <4> QED BY <4>1
    <3> QED BY <1>2, <2>2, <3>1, <3>2
  <2> QED BY <1>2, <2>2, <2>3 DEF j
<1> HIDE DEF t
<1>5. /\ Raised(t) \in Seq(Nat) /\ Len(Raised(t)) = Len(t)
      /\ \A n \in 1..Len(t) : Raised(t)[n] = ToUpper(t[n])
  BY <1>3, RaisedText
<1>6. Exchanged(s, Raised(t), i)
  <2>1. \A n \in 1..Len(s) : n # i /\ n # i + 1 => Raised(t)[n] = s[n]
    BY <1>1, <1>4, <1>5
  <2>2. Raised(t)[i] = s[i + 1] /\ Raised(t)[i + 1] = s[i]
    BY <1>1, <1>2, <1>4, <1>5
  <2> QED BY <1>2, <1>4, <1>5, <2>1, <2>2 DEF Exchanged
<1> QED BY <1>3, <1>4, <1>6 DEF t

LEMMA ValidText ==
  ASSUME scheme \in Checked, NEW s, Valid(s)
  PROVE  s \in Seq(Alnum) /\ Len(s) = Length[scheme]
<1>1. CASE scheme = "cnpj"  BY <1>1 DEF Valid, CnpjText, Length
<1>2. CASE scheme = "lei"   BY <1>2 DEF Valid, LeiText, Length
<1>3. CASE scheme = "isin"  BY <1>3 DEF Valid, IsinText, Length
<1> QED BY <1>1, <1>2, <1>3 DEF Checked

LEMMA SlipRead ==
  ASSUME scheme \in Checked, NEW s, Valid(s), NEW t \in Slips(s), Parse(t).ok
  PROVE  LET u == Parse(t).text
         IN  Valid(u) /\ \E i : Misread(s, u, i) \/ Exchanged(s, u, i)
<1>1. s \in Seq(Alnum) /\ Len(s) = Length[scheme]
  BY ValidText
<1>2. /\ t \in Seq(Nat) /\ Len(t) = Len(s)
      /\ \E i : Misread(s, Raised(t), i) \/ Exchanged(s, Raised(t), i)
  <2>1. CASE t \in { ReplaceAt(s, i, c) : i \in DOMAIN s, c \in Typos }
    <3>1. PICK i \in DOMAIN s, c \in Typos : t = ReplaceAt(s, i, c)
      BY <2>1
    <3>2. c \in Nat
      BY TextsAssumption
    <3> QED BY <1>1, <3>1, <3>2, RaisedMistake
  <2>2. CASE t \in { Swap(s, i) : i \in 1..(Len(s) - 1) }
    <3>1. PICK i \in 1..(Len(s) - 1) : t = Swap(s, i)
      BY <2>2
    <3> QED BY <1>1, <3>1, RaisedSwap
  <2> QED BY <2>1, <2>2 DEF Slips
<1>3. Parse(t).text = Raised(t) /\ Valid(Raised(t))
  BY <1>1, <1>2, ParsedRaised
<1> QED BY <1>2, <1>3

(* The blind spots of each scheme.                                         *)
Slid(s, u, i) == Misread(s, u, i) \/ Exchanged(s, u, i)

LEMMA PlacesOfSlip ==
  ASSUME issued \in Seq(Alnum), NEW u, NEW i, Slid(issued, u, i)
  PROVE  /\ DOMAIN u = DOMAIN issued => Differ(u) = {} \/
              (/\ u[i] # issued[i] /\ i \in Differ(u)
               /\ Misread(issued, u, i) => Differ(u) = {i}
               /\ Exchanged(issued, u, i) => Differ(u) = {i, i + 1})
<1> SUFFICES ASSUME DOMAIN u = DOMAIN issued
             PROVE  Differ(u) = {} \/
              (/\ u[i] # issued[i] /\ i \in Differ(u)
               /\ Misread(issued, u, i) => Differ(u) = {i}
               /\ Exchanged(issued, u, i) => Differ(u) = {i, i + 1})
  OBVIOUS
<1>1. DOMAIN u = 1..Len(issued)
  OBVIOUS
<1>2. CASE Misread(issued, u, i)
  <2>1. i \in 1..Len(issued) /\ \A n \in 1..Len(issued) : n # i => u[n] = issued[n]
    BY <1>2 DEF Misread
  <2>2. u[i] = issued[i] => Differ(u) = {}
    BY <1>1, <2>1 DEF Differ
  <2>3. u[i] # issued[i] => Differ(u) = {i}
    BY <1>1, <2>1 DEF Differ
  <2>4. Exchanged(issued, u, i) /\ u[i] # issued[i] => Differ(u) = {i, i + 1}
    <3> SUFFICES ASSUME Exchanged(issued, u, i), u[i] # issued[i] PROVE FALSE
      OBVIOUS
    <3>1. i + 1 \in 1..Len(issued) /\ i + 1 # i /\ u[i] = issued[i + 1] /\ u[i + 1] = issued[i]
      BY <2>1 DEF Exchanged
    <3> QED BY <2>1, <3>1
  <2> QED BY <2>2, <2>3, <2>4
<1>3. CASE Exchanged(issued, u, i)
  <2>1. /\ i \in 1..Len(issued) /\ i + 1 \in 1..Len(issued)
        /\ u[i] = issued[i + 1] /\ u[i + 1] = issued[i]
        /\ \A n \in 1..Len(issued) : n # i /\ n # i + 1 => u[n] = issued[n]
    BY <1>3 DEF Exchanged
  <2>2. u[i] = issued[i] => Differ(u) = {}
    BY <1>1, <2>1 DEF Differ
  <2>3. u[i] # issued[i] => Differ(u) = {i, i + 1}
    BY <1>1, <2>1 DEF Differ
  <2>4. Misread(issued, u, i) /\ u[i] # issued[i] => Differ(u) = {i}
    <3> SUFFICES ASSUME Misread(issued, u, i), u[i] # issued[i] PROVE FALSE
      OBVIOUS
    <3>1. i + 1 # i
      BY <2>1
    <3> QED BY <2>1, <3>1 DEF Misread
  <2> QED BY <2>2, <2>3, <2>4
<1> QED BY <1>2, <1>3 DEF Slid

LEMMA CnpjBlind ==
  ASSUME scheme = "cnpj", NEW u, CnpjText(issued), CnpjText(u), NEW i, Slid(issued, u, i)
  PROVE  Differ(u) = {} \/ Blind(u)
<1> SUFFICES ASSUME Differ(u) # {} PROVE Blind(u)
  OBVIOUS
<1>1. issued \in Seq(Alnum) /\ u \in Seq(Alnum) /\ Len(issued) = 14 /\ Len(u) = 14
  BY DEF CnpjText
<1>2. /\ u[i] # issued[i]
      /\ Misread(issued, u, i) => Differ(u) = {i}
      /\ Exchanged(issued, u, i) => Differ(u) = {i, i + 1}
  <2>1. DOMAIN u = DOMAIN issued
    BY <1>1
  <2> QED BY <1>1, <2>1, PlacesOfSlip
<1> DEFINE Gap(n) == CharValue(u[n]) - CharValue(issued[n])
<1>3. CASE Gap(i) % 11 = 0
  <2>1. \A n \in Differ(u) : Gap(n) % 11 = 0
    <3>1. CASE Misread(issued, u, i)
      BY <1>2, <1>3, <3>1
    <3>2. CASE Exchanged(issued, u, i)
      <4>1. /\ i \in 1..14 /\ i + 1 \in 1..14 /\ u[i] = issued[i + 1] /\ u[i + 1] = issued[i]
        BY <1>1, <3>2 DEF Exchanged
      <4>2. \A x, y \in Codes : (x - y) % 11 = 0 => (y - x) % 11 = 0
        BY DEF Codes
      <4>3. CharValue(u[i]) \in Codes /\ CharValue(issued[i]) \in Codes
        BY <4>1, CnpjCloses
      <4>4. Gap(i + 1) % 11 = 0
        BY <1>3, <4>1, <4>2, <4>3
      <4> QED BY <1>2, <1>3, <3>2, <4>4
    <3> QED BY <3>1, <3>2 DEF Slid
  <2> QED BY <2>1 DEF Blind
<1>4. CASE Gap(i) % 11 # 0
  <2>1. (issued[13] = 48 /\ issued[14] = 48) \/ (u[13] = 48 /\ u[14] = 48)
    BY <1>4, CnpjMisread, CnpjExchanged DEF Slid
  <2>2. SubSeq(issued, 13, 14) = <<issued[13], issued[14]>> /\ SubSeq(u, 13, 14) = <<u[13], u[14]>>
    <3>1. ASSUME NEW s \in Seq(Alnum), Len(s) = 14 PROVE SubSeq(s, 13, 14) = <<s[13], s[14]>>
      <4>1. 12 \in Nat /\ Len(s) = 12 + 2
        BY <3>1
      <4>2. SubSeq(s, 12 + 1, Len(s)) = <<s[12 + 1], s[12 + 2]>>
        BY <4>1, LastTwo
      <4> QED BY <3>1, <4>2
    <3> QED BY <1>1, <3>1
  <2>3. <<48, 48>> \in {SubSeq(issued, 13, 14), SubSeq(u, 13, 14)}
    BY <2>1, <2>2
  <2> QED BY <2>3 DEF Blind
<1> QED BY <1>3, <1>4

LEMMA LeiBlind ==
  ASSUME scheme = "lei", NEW u, LeiText(issued), LeiText(u), NEW i, Slid(issued, u, i)
  PROVE  Differ(u) = {} \/ Blind(u)
<1> SUFFICES ASSUME Differ(u) # {} PROVE Blind(u)
  OBVIOUS
<1>1. issued \in Seq(Alnum) /\ u \in Seq(Alnum) /\ Len(issued) = 20 /\ Len(u) = 20
  BY DEF LeiText
<1> DEFINE D == Differ(u)
<1>2. /\ u[i] # issued[i] /\ i \in D
      /\ Misread(issued, u, i) => D = {i}
      /\ Exchanged(issued, u, i) => D = {i, i + 1}
  <2>1. DOMAIN u = DOMAIN issued
    BY <1>1
  <2> QED BY <1>1, <2>1, PlacesOfSlip
<1> HIDE DEF D
<1>3. issued[i] \in Digit <=> u[i] \notin Digit
  <2>1. CASE Misread(issued, u, i)
    BY <1>2, <2>1, LeiMisread
  <2>2. CASE Exchanged(issued, u, i)
    <3>1. u[i] = issued[i + 1]
      BY <2>2 DEF Exchanged
    <3>2. issued[i] \in Digit <=> issued[i + 1] \notin Digit
      BY <1>2, <2>2, LeiExchanged
    <3> QED BY <3>1, <3>2
  <2> QED BY <2>1, <2>2 DEF Slid
<1>4. ~(\A n \in D : {u[n], issued[n]} \subseteq Digit)
  BY <1>2, <1>3
<1>5. ~(\A n \in D : {u[n], issued[n]} \subseteq Upper)
  <2>1. \A c : ~(c \in Digit /\ c \in Upper)
    BY DEF Digit, Upper
  <2> QED BY <1>2, <1>3, <2>1
<1>6. ASSUME Cardinality(D) = 2
      PROVE  \E m, n \in D : Value(issued[m]) \in 0..9 /\ Value(issued[n]) = 11 * Value(issued[m])
  <2>1. ~Misread(issued, u, i)
    <3> SUFFICES ASSUME Misread(issued, u, i) PROVE FALSE
      OBVIOUS
    <3>1. D = {i}
      BY <1>2
    <3>2. Cardinality(D) = 1
      BY <3>1, FS_Singleton
    <3> QED BY <1>6, <3>2
  <2>2. Exchanged(issued, u, i)
    BY <2>1 DEF Slid
  <2>3. Multiple(issued[i], issued[i + 1]) \/ Multiple(issued[i + 1], issued[i])
    BY <1>2, <2>2, LeiExchanged
  <2> QED BY <1>2, <2>2, <2>3 DEF Multiple
<1> QED BY <1>4, <1>5, <1>6 DEF Blind, D

LEMMA IsinBlind ==
  ASSUME scheme = "isin", NEW u, IsinText(issued), IsinText(u), NEW i, Slid(issued, u, i)
  PROVE  Differ(u) = {} \/ Blind(u)
<1> SUFFICES ASSUME Differ(u) # {} PROVE Blind(u)
  OBVIOUS
<1>1. issued \in Seq(Alnum) /\ u \in Seq(Alnum) /\ Len(issued) = 12 /\ Len(u) = 12
  BY DEF IsinText
<1> DEFINE D == Differ(u)
<1>2. /\ u[i] # issued[i] /\ i \in D
      /\ Misread(issued, u, i) => D = {i}
      /\ Exchanged(issued, u, i) => D = {i, i + 1}
  <2>1. DOMAIN u = DOMAIN issued
    BY <1>1
  <2> QED BY <1>1, <2>1, PlacesOfSlip
<1> HIDE DEF D
<1>3. ASSUME \A n \in D : {u[n], issued[n]} \subseteq Digit
      PROVE  { Value(issued[n]) : n \in D } = {0, 9}
  <2>1. issued[i] \in Digit /\ u[i] \in Digit
    BY <1>2, <1>3
  <2>2. ~Misread(issued, u, i)
    BY <1>2, <2>1, IsinMisread
  <2>3. Exchanged(issued, u, i)
    BY <2>2 DEF Slid
  <2>4. D = {i, i + 1} /\ issued[i + 1] \in Digit
    BY <1>2, <1>3, <2>3
  <2>5. {Value(issued[i]), Value(issued[i + 1])} = {0, 9}
    BY <1>2, <2>1, <2>3, <2>4, IsinExchanged
  <2> QED BY <2>4, <2>5
<1> QED BY <1>3 DEF Blind, D

-----------------------------------------------------------------------------
(* A slip is a slip of what was issued.                                    *)
SlipInv ==
  /\ scheme \in Checked /\ stage \in {"issued", "slipped", "mistaken"} => Valid(issued)
  /\ stage \in {"slipped", "mistaken"} => typed \in Slips(issued)

LEMMA SlipInit == Init => SlipInv
BY DEF Init, SlipInv

LEMMA SlipStep == TextInv /\ SlipInv /\ [Next]_vars => SlipInv'
<1> SUFFICES ASSUME TextInv, SlipInv, [Next]_vars PROVE SlipInv'
  OBVIOUS
<1>0. scheme \in Schemes
  BY DEF TextInv
<1>1. CASE Compile
  BY <1>1 DEF Compile, SlipInv
<1>2. CASE Issue
  <2>1. PICK base \in Bases[scheme] : issued' = base \o CheckDigitsOf(scheme, base)
    BY <1>2 DEF Issue
  <2>2. base \in Holdable(scheme)
    BY <1>0, <2>1, TextsAssumption
  <2>3. scheme \in Checked => Valid(issued')
    BY <2>1, <2>2, IssuedValid
  <2>4. stage' = "issued" /\ scheme' = scheme
    BY <1>2 DEF Issue
  <2> QED BY <2>3, <2>4 DEF SlipInv, Valid
<1>3. CASE Present
  BY <1>3 DEF Present, SlipInv
<1>4. CASE Slip
  <2>1. /\ stage = "issued" /\ typed' \in Slips(issued) /\ stage' = "slipped"
        /\ UNCHANGED <<scheme, issued>>
    BY <1>4 DEF Slip, Slips, Swap
  <2> QED BY <2>1 DEF SlipInv, Valid
<1>5. CASE Read
  <2>1. /\ stage' = "mistaken" => stage = "slipped"
        /\ stage' \in {"copied", "mistaken"}
        /\ UNCHANGED <<scheme, issued, typed>>
    BY <1>5 DEF Read
  <2> QED BY <2>1 DEF SlipInv, Valid
<1>6. CASE UNCHANGED vars
  BY <1>6 DEF vars, SlipInv, Valid
<1> QED BY <1>1, <1>2, <1>3, <1>4, <1>5, <1>6 DEF Next

LEMMA SlipsOfIssued == Spec => []SlipInv
BY SlipInit, SlipStep, Texts, PTL DEF Spec

(* A CNPJ, a LEI or an ISIN with one character mistaken, or with two       *)
(* neighbours swapped, is refused (Closed, in the validate of cnpj.rs,     *)
(* lei.rs and isin.rs), whatever was issued and whatever is typed for a    *)
(* character, but for the blind spots that the formulas have.              *)
THEOREM Caught == Spec => []SlipsAreCaught
<1>1. TextInv /\ SlipInv => SlipsAreCaught
  <2> SUFFICES ASSUME TextInv, SlipInv, stage = "mistaken", parsed.ok
               PROVE  Differ(parsed.text) = {} \/ Blind(parsed.text)
    BY DEF SlipsAreCaught
  <2>1. typed \in Slips(issued) /\ parsed = Parse(typed)
    BY DEF TextInv, SlipInv
  <2>2. CASE scheme \in Checked
    <3> DEFINE u == Parse(typed).text
    <3>1. Valid(issued)
      BY <2>2 DEF SlipInv
    <3>2. Valid(u) /\ \E i : Misread(issued, u, i) \/ Exchanged(issued, u, i)
      BY <2>1, <2>2, <3>1, SlipRead
    <3> HIDE DEF u
    <3>3. PICK i : Slid(issued, u, i)
      BY <3>2 DEF Slid
    <3>4. Differ(u) = {} \/ Blind(u)
      <4>1. CASE scheme = "cnpj"
        BY <3>1, <3>2, <3>3, <4>1, CnpjBlind DEF Valid
      <4>2. CASE scheme = "lei"
        BY <3>1, <3>2, <3>3, <4>2, LeiBlind DEF Valid
      <4>3. CASE scheme = "isin"
        BY <3>1, <3>2, <3>3, <4>3, IsinBlind DEF Valid
      <4> QED BY <2>2, <4>1, <4>2, <4>3 DEF Checked
    <3> QED BY <2>1, <3>4 DEF u
  <2>3. CASE scheme \notin Checked
    BY <2>3 DEF Blind, Checked
  <2> QED BY <2>2, <2>3
<1> QED BY <1>1, Texts, SlipsOfIssued, PTL

-----------------------------------------------------------------------------
(* The attempts and the retry budget of a task.  BudgetIsKept is inductive *)
(* with the types alone, because current <= max keeps the counter below    *)
(* saturation.                                                             *)

TaskInv == TypeOK /\ BudgetIsKept

(* What BudgetIsKept says of one value.                                    *)
Kept(t, h) ==
  /\ h.attempts = t.current
  /\ h.failures \in FailuresOf(t)
  /\ t.current <= t.max
  /\ t.status = "pending" => t.current = 0
  /\ t.status = "retrying" => t.current \in 1..(t.max - 1)
  /\ t.status = "failed" => t.current = t.max
  /\ t.status \in {"running", "success"} => t.current > 0

History == [attempts : Nat, failures : Nat]

LEMMA NoTaskIsNone == NoTask \notin Task
BY SMT DEF NoTask, Task, Statuses

LEMMA HeldKept ==
  ASSUME TaskInv, NEW v \in Values, task[v] # NoTask
  PROVE  task[v] \in Task /\ history[v] \in History /\ Kept(task[v], history[v])
BY DEF TaskInv, TypeOK, BudgetIsKept, Held, Kept, History

(* The shape of every action: one place changes, to nothing or to a task   *)
(* that keeps its budget.                                                  *)
LEMMA OnePlace ==
  ASSUME TaskInv, NEW v \in Values, NEW t, NEW h \in History,
         t = NoTask \/ (t \in Task /\ Kept(t, h)),
         task' = [task EXCEPT ![v] = t], history' = [history EXCEPT ![v] = h]
  PROVE  TaskInv'
<1>1. TypeOK'
  BY DEF TaskInv, TypeOK, History
<1>2. ASSUME NEW w \in Values, task'[w] # NoTask
      PROVE  Kept(task'[w], history'[w])
  <2>1. CASE w = v
    BY <1>2, <2>1 DEF TaskInv, TypeOK
  <2>2. CASE w # v
    <3>1. task'[w] = task[w] /\ history'[w] = history[w]
      BY <2>2 DEF TaskInv, TypeOK
    <3> QED BY <1>2, <3>1, HeldKept
  <2> QED BY <2>1, <2>2
<1>3. BudgetIsKept'
  BY <1>2 DEF BudgetIsKept, Held, Kept
<1> QED BY <1>1, <1>3 DEF TaskInv

LEMMA Holds ==
  ASSUME TaskInv, NEW v \in Values, task[v].status \in Statuses
  PROVE  task[v] \in Task
<1>1. NoTask.status \notin Statuses
  BY DEF NoTask, Statuses
<1> QED BY <1>1 DEF TaskInv, TypeOK

LEMMA StartStep ==
  ASSUME TaskInv, NEW v \in Values, Start(v)
  PROVE  TaskInv'
<1> DEFINE t == Started(task[v])
           h == [attempts |-> history[v].attempts + 1, failures |-> history[v].failures]
<1>1. task[v] \in Task /\ task[v] # NoTask
  BY Holds, NoTaskIsNone DEF Start, Statuses
<1>2. history[v] \in History /\ Kept(task[v], history[v])
  BY <1>1, HeldKept
<1>3. task[v].current \in Nat /\ task[v].max \in 1..MaxU32 /\ task[v].current < task[v].max
  BY <1>1, <1>2, MaxU32Assumption DEF Start, Kept, Task
<1>4. SaturatingAdd(task[v].current) = task[v].current + 1
  BY <1>3, MaxU32Assumption DEF SaturatingAdd
<1>5. history[v].attempts = task[v].current /\ history[v].failures = task[v].current
  BY <1>2 DEF Start, Kept, FailuresOf
<1>6. t \in Task
  BY <1>3, <1>4, MaxU32Assumption DEF Started, Task, Statuses
<1>7. h \in History
  BY <1>3, <1>5 DEF History
<1>8. Kept(t, h)
  BY <1>3, <1>4, <1>5 DEF Started, Kept, FailuresOf
<1> HIDE DEF t, h
<1> QED BY <1>6, <1>7, <1>8, OnePlace DEF Start, t, h

(* Complete and Cancel set the status.                                     *)
LEMMA EndStep ==
  ASSUME TaskInv, NEW v \in Values, NEW s \in {"success", "cancelled"},
         task[v].status \in {"pending", "running", "retrying"},
         s = "success" => task[v].status = "running",
         task' = [task EXCEPT ![v] = Becomes(task[v], s)], UNCHANGED history
  PROVE  TaskInv'
<1>1. task[v] \in Task /\ task[v] # NoTask
  BY Holds, NoTaskIsNone DEF Statuses
<1>2. history[v] \in History /\ Kept(task[v], history[v])
  BY <1>1, HeldKept
<1>3. Becomes(task[v], s) \in Task
  BY <1>1 DEF Becomes, Task, Statuses
<1>4. Kept(Becomes(task[v], s), history[v])
  <2>1. task[v].current \in Nat /\ task[v].max \in Nat /\ history[v].failures \in Nat
    BY <1>1, <1>2, MaxU32Assumption DEF Task, History
  <2>2. CASE s = "success"
    BY <1>2, <2>1, <2>2 DEF Becomes, Kept, FailuresOf
  <2>3. CASE s = "cancelled"
    BY <1>2, <2>1, <2>3 DEF Becomes, Kept, FailuresOf
  <2> QED BY <2>2, <2>3
<1>5. history' = [history EXCEPT ![v] = history[v]]
  BY DEF TaskInv, TypeOK
<1> QED BY <1>2, <1>3, <1>4, <1>5, OnePlace

LEMMA FailStep ==
  ASSUME TaskInv, NEW v \in Values, Fail(v)
  PROVE  TaskInv'
<1> DEFINE t == Becomes(task[v], AfterFailure(task[v]))
           h == [attempts |-> history[v].attempts, failures |-> history[v].failures + 1]
<1>1. task[v] \in Task /\ task[v] # NoTask
  BY Holds, NoTaskIsNone DEF Fail, Statuses
<1>2. history[v] \in History /\ Kept(task[v], history[v])
  BY <1>1, HeldKept
<1>3. task[v].current \in Nat /\ task[v].max \in Nat /\ history[v].attempts = task[v].current
  BY <1>1, <1>2, MaxU32Assumption DEF Task, Kept
<1>4. task[v].current > 0 /\ history[v].failures + 1 = task[v].current
  BY <1>2, <1>3 DEF Fail, Kept, FailuresOf, History
<1>5. t \in Task
  BY <1>1 DEF Becomes, AfterFailure, Task, Statuses
<1>6. h \in History
  BY <1>3, <1>4 DEF History
<1>7. Kept(t, h)
  BY <1>2, <1>3, <1>4 DEF Becomes, AfterFailure, Kept, FailuresOf
<1> HIDE DEF t, h
<1> QED BY <1>5, <1>6, <1>7, OnePlace DEF Fail, t, h

(* The strengthening holds initially and every step keeps it.              *)
LEMMA InitHolds == TaskInit => TaskInv
BY DEF TaskInit, TaskInv, TypeOK, BudgetIsKept, Held, NoAttempts

LEMMA NextKeeps == TaskInv /\ [TaskNext]_taskVars => TaskInv'
<1> SUFFICES ASSUME TaskInv, [TaskNext]_taskVars PROVE TaskInv'
  OBVIOUS
<1>1. ASSUME NEW v \in Values, NEW max \in 0..MaxU32, Build(v, max) PROVE TaskInv'
  <2> DEFINE t == [status |-> "pending", max |-> max, current |-> 0]
  <2>1. t \in Task /\ NoAttempts \in History /\ Kept(t, NoAttempts)
    BY <1>1, MaxU32Assumption
    DEF Build, Task, Statuses, NoAttempts, History, Kept, FailuresOf
  <2> QED BY <1>1, <2>1, OnePlace DEF Build
<1>2. ASSUME NEW v \in Values, Drop(v) PROVE TaskInv'
  <2>1. NoAttempts \in History
    BY DEF NoAttempts, History
  <2> QED BY <1>2, <2>1, OnePlace DEF Drop
<1>3. ASSUME NEW v \in Values, NEW w \in Values, Clone(v, w) PROVE TaskInv'
  <2>1. task[v] \in Task /\ history[v] \in History /\ Kept(task[v], history[v])
    BY <1>3, HeldKept DEF Clone, Held
  <2> QED BY <1>3, <2>1, OnePlace DEF Clone
<1>4. ASSUME NEW v \in Values, Complete(v) PROVE TaskInv'
  BY <1>4, EndStep DEF Complete
<1>5. ASSUME NEW v \in Values, Cancel(v) PROVE TaskInv'
  BY <1>5, EndStep DEF Cancel
<1>6. CASE UNCHANGED taskVars
  BY <1>6 DEF taskVars, TaskInv, TypeOK, BudgetIsKept, Held, FailuresOf
<1> QED BY <1>1, <1>2, <1>3, <1>4, <1>5, <1>6, StartStep, FailStep DEF TaskNext

(* The strengthening holds in every reachable state.                       *)
THEOREM TaskInvariance == TaskSpec => []TaskInv
BY InitHolds, NextKeeps, PTL DEF TaskSpec

(* Every place holds nothing or a task, and counts its attempts.           *)
THEOREM TaskTyping == TaskSpec => []TypeOK
<1>1. TaskInv => TypeOK
  BY DEF TaskInv
<1> QED BY <1>1, TaskInvariance, PTL

(* No order of starts, failures, cancellations and copies overruns or cuts *)
(* short the retry budget of a task (start, fail, cancel of tasks.rs).     *)
THEOREM RetryBudget == TaskSpec => []BudgetIsKept
<1>1. TaskInv => BudgetIsKept
  BY DEF TaskInv
<1> QED BY <1>1, TaskInvariance, PTL
=============================================================================
