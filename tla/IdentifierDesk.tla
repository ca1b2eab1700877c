--------------------------- MODULE IdentifierDesk ---------------------------
(***************************************************************************)
(* The way of one identifier: it is issued, copied by someone who may slip *)
(* or write it another way, parsed (crates/core/src/identifiers), stored   *)
(* and read back.  A market identifier is looked up in the table that      *)
(* generate_mic_table (crates/macros) compiles from a registry file.       *)
(***************************************************************************)
EXTENDS CheckDigits, SequencesExt, FiniteSets

CONSTANTS
  Bases,        (* scheme -> the texts, check digits left out, in question  *)
  Registries,   (* the registry files: sequences of rows, as parse_mic_rows *)
                (* takes them                                               *)
  MaxMarkets,   (* as many as u16 counts                                    *)
  Typos         (* the characters that slips put in                         *)

(* code4: a market is named by four capital letters or digits.             *)
MicText == [1..4 -> Digit \union Upper]
ASSUME MaxMarketsAssumption == MaxMarkets \in Nat
ASSUME RegistriesAssumption == Registries \subseteq Seq([mic : MicText, operating : MicText])

(* What someone may hold of a scheme, as as_str gives it: a name has no    *)
(* blanks around it, an identifier is in upper case and, if it has check   *)
(* digits, complete but for them.                                          *)
Holdable(n) ==
  CASE n \in Names -> { s \in Seq(Nat) \ {<<>>} : s[1] \notin Blank /\ s[Len(s)] \notin Blank }
    [] n \in {"cnpj", "lei", "isin"} -> { s \in Seq(Digit \union Upper) : Len(s) = BaseLen(n) }
    [] OTHER -> Seq(Digit \union Upper \union {Point, Dash}) \ {<<>>}
ASSUME TextsAssumption == Typos \subseteq Nat /\ \A n \in Schemes : Bases[n] \subseteq Holdable(n)

VARIABLES scheme, registry, stage, issued, typed, parsed, reread

vars == <<scheme, registry, stage, issued, typed, parsed, reread>>

Init ==
  /\ scheme \in Schemes
  /\ registry \in IF scheme = "mic" THEN Registries ELSE {<<>>}
  /\ stage = IF scheme = "mic" THEN "compile" ELSE "issue"
  /\ issued = <<>>
  /\ typed = <<>>
  /\ parsed = Err("Empty")
  /\ reread = Err("Empty")

-----------------------------------------------------------------------------
Mics == { registry[i].mic : i \in DOMAIN registry }
Operating(mic) == (CHOOSE r \in Range(registry) : r.mic = mic).operating

(* Seeded bug: one hop fewer than there are markets is already too many.   *)
EndsEarly(mic) ==
  LET current[hops \in 0..Len(registry)] ==
        IF hops = 0 THEN mic
        ELSE IF current[hops - 1] \in Mics THEN Operating(current[hops - 1]) ELSE <<>>
  IN  \E hops \in 0..(Len(registry) - 2) :
        current[hops] \in Mics /\ Operating(current[hops]) = current[hops]

(* The walk of finalize_mic: it follows the operating MICs of a market to  *)
(* one that operates itself, and gives up on a reference that is not in    *)
(* the file, or after more hops than the file has rows.                    *)
Ends(mic) ==
  LET current[hops \in 0..Len(registry)] ==
        IF hops = 0 THEN mic
        ELSE IF current[hops - 1] \in Mics THEN Operating(current[hops - 1]) ELSE <<>>
  IN  \E hops \in 0..Len(registry) :
        current[hops] \in Mics /\ Operating(current[hops]) = current[hops]

(* generate_mic_table, or a build that fails. *)
Compile ==
  /\ stage = "compile"
  /\ stage' = IF /\ registry # <<>>
                 /\ Len(registry) <= MaxMarkets
                 /\ Cardinality(Mics) = Len(registry)
                 /\ \A mic \in Mics : Ends(mic)
              THEN "issue" ELSE "failed"
  /\ UNCHANGED <<scheme, registry, issued, typed, parsed, reread>>

-----------------------------------------------------------------------------
(* What each scheme asks of characters of the right classes (validate);    *)
(* from_bytes, TryFrom, FromStr and Deserialize all lead here.             *)
Closed(s) == SubSeq(s, BaseLen(scheme) + 1, Len(s)) = CheckDigitsOf(scheme, s)
If(condition, s, e) == IF condition THEN Ok(s) ELSE Err(e)

Cnpj(s) == IF \A i \in 2..14 : s[i] = s[1] THEN Err("RepeatedDigits")
           ELSE If(Closed(s), s, "InvalidCheckDigits")
Lei(s) == If(Closed(s), s, "InvalidCheckDigits")
Isin(s) == If(Closed(s), s, "InvalidCheckDigits")
Cfi(s) == If(InTaxonomy(s), s, "Unknown")
Mic(s) == If(s \in Mics, s, "Unregistered")
CountryCode(s) == If(s \in Assigned, s, "Unassigned")

FromBytes(s) ==
  IF ~InClasses(scheme, s) THEN Err("InvalidCharacter")
  ELSE CASE scheme = "cnpj" -> Cnpj(s)
         [] scheme = "lei" -> Lei(s)
         [] scheme = "isin" -> Isin(s)
         [] scheme = "cfi" -> Cfi(s)
         [] scheme = "mic" -> Mic(s)
         [] scheme = "country" -> CountryCode(s)
         [] scheme = "currency" -> Ok(s)

Parse(input) ==
  CASE scheme = "ticker" -> Ticker(input)
    [] scheme = "issuer_name" -> IssuerName(input)
    [] scheme = "security_name" -> SecurityName(input)
    [] scheme = "venue_name" -> VenueName(input)
    [] scheme = "segment" -> MarketSegment(input)
    [] scheme = "task_name" -> BackgroundTaskName(input)
    [] OTHER -> LET n == Normalize(scheme, input) IN IF n.ok THEN FromBytes(n.text) ELSE n

(* Someone holds an identifier: of the texts in question, with the check   *)
(* digits the code computes for them.                                      *)
Issue ==
  /\ stage = "issue"
  /\ \E base \in Bases[scheme] : issued' = base \o CheckDigitsOf(scheme, base)
  /\ stage' = "issued"
  /\ UNCHANGED <<scheme, registry, typed, parsed, reread>>

Lowered(s) == [i \in DOMAIN s |-> IF s[i] \in Upper THEN s[i] + 32 ELSE s[i]]

(* Ways to write the same: between blanks, an identifier in lower case, a  *)
(* CNPJ as FormattedCnpj displays it.                                      *)
Presentations(s) ==
  {s, <<32>> \o s \o <<9, 160>>}
    \union (IF scheme \in Names THEN {} ELSE {Lowered(s)})
    \union (IF scheme = "cnpj" THEN {Formatted(s), <<32>> \o Lowered(Formatted(s))} ELSE {})
Present ==
  /\ stage = "issued"
  /\ typed' \in Presentations(issued)
  /\ stage' = "presented"
  /\ UNCHANGED <<scheme, registry, issued, parsed, reread>>

(* One character mistaken, or two neighbours swapped.  Bound: not in texts *)
(* longer than the longest identifier.                                     *)
LongestSlipped == Length.lei
Slip ==
  /\ stage = "issued" /\ Len(issued) <= LongestSlipped
  /\ typed' \in { ReplaceAt(issued, i, c) : i \in DOMAIN issued, c \in Typos }
       \union { [issued EXCEPT ![i] = issued[i + 1], ![i + 1] = issued[i]]
                  : i \in 1..(Len(issued) - 1) }
  /\ stage' = "slipped"
  /\ UNCHANGED <<scheme, registry, issued, parsed, reread>>

(* as_str is what the column stores, and it is parsed again when the row   *)
(* is read.                                                                *)
Reread(p) == IF p.ok THEN Parse(p.text) ELSE p

(* FromStr, TryFrom and Deserialize are parse.  Serialize gives as_str, as *)
(* Display does but for a CNPJ, which it formats.                          *)
Read ==
  /\ stage \in {"presented", "slipped"}
  /\ parsed' = Parse(typed)
  /\ reread' = Reread(parsed')
  /\ stage' = IF stage = "presented" THEN "copied" ELSE "mistaken"
  /\ UNCHANGED <<scheme, registry, issued, typed>>

Next == Compile \/ Issue \/ Present \/ Slip \/ Read

Spec == Init /\ [][Next]_vars

-----------------------------------------------------------------------------
(* The registry compiles exactly if its markets can be counted, no MIC is  *)
(* in it twice and operating_mic, called again and again, always gets to a *)
(* market that operates itself (mic.rs): no reference dangles and no set   *)
(* of markets that do not operate themselves is closed.                    *)
Resolves ==
  /\ registry # <<>> /\ \A i, j \in DOMAIN registry : registry[i].mic = registry[j].mic => i = j
  /\ \A S \in (SUBSET Mics) \ {{}} :
       \E mic \in S : Operating(mic) \in Mics /\ (Operating(mic) \in S => Operating(mic) \in
         { m \in S : Operating(m) = m })
RegistryResolves ==
  /\ stage = "failed" => ~Resolves \/ Len(registry) > MaxMarkets
  /\ scheme = "mic" /\ stage \notin {"compile", "failed"} =>
       Resolves /\ Len(registry) <= MaxMarkets

(* Every way of writing an identifier or a name gives the identifier or    *)
(* name itself, and the text that is stored of what parses, slips          *)
(* included, parses to itself.                                             *)
WrittenAnyWay ==
  /\ stage = "copied" => parsed = Parse(issued) /\ (parsed.ok => parsed.text = issued)
  /\ stage \in {"copied", "mistaken"} => reread = parsed

(* An identifier that parses satisfies the reference definition of its     *)
(* check digits, and one refused for them does not.                        *)
DigitsAgreeWithReference ==
  stage \in {"copied", "mistaken"} =>
    /\ parsed.ok => Reference(scheme, parsed.text)
    /\ parsed = Err("InvalidCheckDigits") => ~Reference(scheme, Normalize(scheme, typed).text)

(* The check digits catch every single mistaken character and every pair   *)
(* of swapped neighbours, up to the blind spots of the formulas:           *)
(* - CNPJ: characters congruent modulo 11 (such as 6 and A), and          *)
(*   slips from or to an identifier that ends in 00, where two remainders *)
(*   share a digit;                                                        *)
(* - LEI: a digit for a letter, and a digit d beside the letter 11 d;      *)
(* - ISIN: anything with a letter, and 0 beside 9.                         *)
Differ(s) == { i \in DOMAIN s : s[i] # issued[i] }
Blind(s) ==
  LET D == Differ(s)
      Digital == \A i \in D : {s[i], issued[i]} \subseteq Digit
      Letters == \A i \in D : {s[i], issued[i]} \subseteq Upper
  IN  CASE scheme = "cnpj" ->
             \/ \A i \in D : (CharValue(s[i]) - CharValue(issued[i])) % 11 = 0
             \/ <<48, 48>> \in {SubSeq(issued, 13, 14), SubSeq(s, 13, 14)}
        [] scheme = "lei" -> ~Digital /\ ~Letters /\
             (Cardinality(D) = 2 =>
                \E i, j \in D : Value(issued[i]) \in 0..9 /\ Value(issued[j]) = 11 * Value(issued[i]))
        [] scheme = "isin" -> ~Digital \/ { Value(issued[i]) : i \in D } = {0, 9}
        [] OTHER -> TRUE
SlipsAreCaught ==
  stage = "mistaken" /\ parsed.ok => Differ(parsed.text) = {} \/ Blind(parsed.text)
=============================================================================
