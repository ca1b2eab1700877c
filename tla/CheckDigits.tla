---------------------------- MODULE CheckDigits -----------------------------
(***************************************************************************)
(* The check digits of CNPJ, LEI and ISIN as the code computes them, with  *)
(* the reference definition of each: the Receita Federal's two modulus 11  *)
(* digits, ISO 7064 MOD 97-10 and the Luhn formula, over the whole         *)
(* identifier with its check digits.                                       *)
(***************************************************************************)
EXTENDS IdentifierText

Base(s, n) == SubSeq(s, 1, n)
ToDigit(n) == 48 + n

-----------------------------------------------------------------------------
(* CNPJ: characters count from '0', so that 'A' is 17. *)
CharValue(c) == c - 48
WeightsDv1 == <<5, 4, 3, 2, 9, 8, 7, 6, 5, 4, 3, 2>>
WeightsDv2 == <<6, 5, 4, 3, 2, 9, 8, 7, 6, 5, 4, 3, 2>>

Weighted(s, w) ==
  LET sum[n \in 0..Len(w)] == IF n = 0 THEN 0 ELSE sum[n - 1] + CharValue(s[n]) * w[n]
  IN  sum[Len(w)]

DigitOf(r) == IF r < 2 THEN 0 ELSE 11 - r
CnpjDigits(base) ==
  LET dv1 == ToDigit(DigitOf(Weighted(base, WeightsDv1) % 11))
  IN  <<dv1, ToDigit(DigitOf(Weighted(Append(base, dv1), WeightsDv2) % 11))>>

(* A digit makes its weighted sum a multiple of 11, except that no digit   *)
(* is written 10: then it is 0 and the sum leaves 1.                       *)
CnpjReference(s) ==
  LET Closes(sum, c) == \/ (sum + CharValue(c)) % 11 = 0
                        \/ CharValue(c) = 0 /\ sum % 11 = 1
  IN  /\ Closes(Weighted(s, WeightsDv1), s[13])
      /\ Closes(Weighted(s, WeightsDv2), s[14])

-----------------------------------------------------------------------------
(* LEI and ISIN: 'A' is 10. *)
Value(c) == IF c \in Digit THEN c - 48 ELSE c - 55

FoldMod97(s) ==
  LET rem[n \in 0..Len(s)] ==
        IF n = 0 THEN 0
        ELSE IF s[n] \in Digit THEN (rem[n - 1] * 10 + Value(s[n])) % 97
        ELSE (rem[n - 1] * 100 + Value(s[n])) % 97
  IN  rem[Len(s)]

LeiDigits(base) ==
  LET check == 98 - ((FoldMod97(base) * 100) % 97)
  IN  <<ToDigit(check \div 10), ToDigit(check % 10)>>

(* A letter stands for its two decimal digits. *)
Expanded(s) ==
  LET digits[n \in 0..Len(s)] ==
        IF n = 0 THEN <<>>
        ELSE digits[n - 1] \o (IF s[n] \in Digit THEN <<Value(s[n])>>
                               ELSE <<Value(s[n]) \div 10, Value(s[n]) % 10>>)
  IN  digits[Len(s)]

LeiReference(s) ==
  LET d == Expanded(s)
      rem[n \in 0..Len(d)] == IF n = 0 THEN 0 ELSE (rem[n - 1] * 10 + d[n]) % 97
  IN  rem[Len(d)] = 1 /\ 10 * Value(s[19]) + Value(s[20]) \in 2..98

-----------------------------------------------------------------------------
(* Seeded bug: the digits of the doubled value are not added up. *)
LuhnStepWhole(v, double) == IF double THEN 2 * v ELSE v

LuhnStep(v, double) ==
  IF double THEN (IF 2 * v > 9 THEN 2 * v - 9 ELSE 2 * v) ELSE v

(* Seeded bug: the tens of a letter are taken before its units. *)
IsinDigitTensFirst(base) ==
  LET luhn[n \in 0..Len(base)] ==
        IF n = 0 THEN [sum |-> 0, double |-> TRUE]
        ELSE LET p == luhn[n - 1]
                 c == base[Len(base) + 1 - n]
                 v == Value(c)
             IN IF c \in Digit
                THEN [sum |-> p.sum + LuhnStep(v, p.double), double |-> ~p.double]
                ELSE [p EXCEPT !.sum = @ + LuhnStep(v \div 10, p.double)
                                         + LuhnStep(v % 10, ~p.double)]
  IN  ToDigit((10 - (luhn[Len(base)].sum % 10)) % 10)

(* From the right; a letter takes two places, its units first. *)
IsinDigit(base) ==
  LET luhn[n \in 0..Len(base)] ==
        IF n = 0 THEN [sum |-> 0, double |-> TRUE]
        ELSE LET p == luhn[n - 1]
                 c == base[Len(base) + 1 - n]
                 v == Value(c)
             IN IF c \in Digit
                THEN [sum |-> p.sum + LuhnStep(v, p.double), double |-> ~p.double]
                ELSE [p EXCEPT !.sum = @ + LuhnStep(v % 10, p.double)
                                         + LuhnStep(v \div 10, ~p.double)]
  IN  ToDigit((10 - (luhn[Len(base)].sum % 10)) % 10)

IsinReference(s) ==
  LET d == Expanded(s)
      Term(n) == LET v == d[n] IN IF (Len(d) - n) % 2 = 0 THEN v ELSE ((2 * v) \div 10) + ((2 * v) % 10)
      sum[n \in 0..Len(d)] == IF n = 0 THEN 0 ELSE sum[n - 1] + Term(n)
  IN  sum[Len(d)] % 10 = 0

-----------------------------------------------------------------------------
CheckDigitsOf(scheme, s) ==
  CASE scheme = "cnpj" -> CnpjDigits(Base(s, 12))
    [] scheme = "lei" -> LeiDigits(Base(s, 18))
    [] scheme = "isin" -> <<IsinDigit(Base(s, 11))>>
    [] OTHER -> <<>>

BaseLen(scheme) ==
  CASE scheme = "cnpj" -> 12 [] scheme = "lei" -> 18 [] scheme = "isin" -> 11
    [] OTHER -> Length[scheme]

Reference(scheme, s) ==
  CASE scheme = "cnpj" -> CnpjReference(s)
    [] scheme = "lei" -> LeiReference(s)
    [] scheme = "isin" -> IsinReference(s)
    [] OTHER -> TRUE
=============================================================================
