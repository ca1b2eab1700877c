--------------------------- MODULE IdentifierText ---------------------------
(***************************************************************************)
(* How identifiers and names are read and written (crates/core/src:        *)
(* identifiers, the texts of domain, tasks.rs).  A text is a sequence of   *)
(* Unicode code points.  Each scheme of identifiers has a length, a class  *)
(* of characters per position and a check of its own; a name is any text   *)
(* that is not too long.                                                   *)
(***************************************************************************)
EXTENDS Naturals, Sequences, FiniteSetsExt

CONSTANTS
  Assigned,   (* the ISO 3166-1 codes of ASSIGNED_CODES                     *)
  CfiSeed     (* data/cfi.json: the category, the group and the values, a   *)
              (* sequence of four sets of letters, of each of its groups    *)

(* parse_cfi_group stops the build at an attribute without values.         *)
ASSUME CfiSeedAssumption == \A g \in CfiSeed : \A i \in 1..4 : g.values[i] # {}

Digit == 48..57
Upper == 65..90
Lower == 97..122
Ascii == 0..127
(* The white space that matters: a blank, a tab and a no-break space.      *)
Blank == {9, 32, 160}
Point == 46
Slash == 47
Dash == 45

ToUpper(c) == IF c \in Lower THEN c - 32 ELSE c

(* str::trim *)
Trim(s) ==
  LET kept == { i \in DOMAIN s : s[i] \notin Blank }
  IN  IF kept = {} THEN <<>> ELSE SubSeq(s, Min(kept), Max(kept))

(* Seeded bug: the punctuation of a formatted CNPJ is not dropped. *)
MeaningfulTrimmed(s) == Trim(s)

(* The characters of a CNPJ that are not formatting. *)
Meaningful(s) ==
  LET kept[n \in 0..Len(s)] ==
        IF n = 0 THEN <<>>
        ELSE IF s[n] \in {Point, Slash, Dash} \union Blank THEN kept[n - 1]
        ELSE Append(kept[n - 1], s[n])
  IN  kept[Len(s)]

-----------------------------------------------------------------------------
(* A Result: the identifier's text, or the error variant. *)
Ok(s) == [ok |-> TRUE, text |-> s]
Err(e) == [ok |-> FALSE, error |-> e]

Names == {"issuer_name", "security_name", "venue_name", "segment", "task_name"}
Schemes == {"cnpj", "lei", "isin", "cfi", "mic", "country", "currency", "ticker"} \union Names
Length == [cnpj |-> 14, lei |-> 20, isin |-> 12, cfi |-> 6, mic |-> 4, country |-> 2,
           currency |-> 3]

(* The class that position i of a scheme has. *)
Class(scheme, i) ==
  CASE scheme = "cnpj" -> IF i <= 12 THEN Digit \union Upper ELSE Digit
    [] scheme = "lei" -> IF i <= 18 THEN Digit \union Upper ELSE Digit
    [] scheme = "isin" -> IF i <= 2 THEN Upper ELSE IF i <= 11 THEN Digit \union Upper ELSE Digit
    [] scheme = "mic" -> Digit \union Upper
    [] OTHER -> Upper

InClasses(scheme, s) == \A i \in DOMAIN s : s[i] \in Class(scheme, i)

(* normalize: every scheme trims, except that a CNPJ drops all formatting. *)
(* Only a currency of nothing but white space is called empty.             *)
Normalize(scheme, input) ==
  LET s == IF scheme = "cnpj" THEN Meaningful(input) ELSE Trim(input)
  IN  IF input = <<>> \/ (scheme = "currency" /\ s = <<>>) THEN Err("Empty")
      ELSE IF Len(s) # Length[scheme] THEN Err("InvalidLength")
      ELSE IF \E i \in DOMAIN s : s[i] \notin Ascii THEN Err("InvalidCharacter")
      ELSE Ok([i \in DOMAIN s |-> ToUpper(s[i])])

(* FormattedCnpj: NN.NNN.NNN/NNNN-NN. *)
Formatted(d) ==
  SubSeq(d, 1, 2) \o <<Point>> \o SubSeq(d, 3, 5) \o <<Point>> \o SubSeq(d, 6, 8)
    \o <<Slash>> \o SubSeq(d, 9, 12) \o <<Dash>> \o SubSeq(d, 13, 14)

-----------------------------------------------------------------------------
(* generate_cfi_table: category -> group -> values; the tables are sorted  *)
(* for the binary searches, and a set of letters is a mask.                *)
Taxonomy ==
  [c \in { g.category : g \in CfiSeed } |->
     LET here == { g \in CfiSeed : g.category = c }
     IN  [k \in { g.group : g \in here } |-> (CHOOSE g \in here : g.group = k).values]]

(* find_category, find_group and attr_allows. *)
InTaxonomy(s) ==
  /\ s[1] \in DOMAIN Taxonomy
  /\ s[2] \in DOMAIN Taxonomy[s[1]]
  /\ \A i \in 1..4 : s[i + 2] \in Taxonomy[s[1]][s[2]][i]

(* TickerSymbol::new: any length up to 12 of letters, digits, '.' and '-'. *)
TickerMaxLen == 12
Ticker(input) ==
  LET s == Trim(input)
      t == [i \in DOMAIN s |-> ToUpper(s[i])]
  IN  IF s = <<>> THEN Err("Empty")
      ELSE IF Len(s) > TickerMaxLen THEN Err("TooLong")
      ELSE IF \E i \in DOMAIN t : t[i] \notin Digit \union Upper \union {Point, Dash}
      THEN Err("InvalidCharacter")
      ELSE Ok(t)

(* The names keep their case; their length is counted in characters.       *)
Name(input, max) ==
  LET s == Trim(input)
  IN  IF s = <<>> THEN Err("Empty") ELSE IF Len(s) > max THEN Err("TooLong") ELSE Ok(s)

IssuerName(input) == Name(input, 200)
SecurityName(input) == Name(input, 200)
VenueName(input) == Name(input, 200)
MarketSegment(input) == Name(input, 100)
BackgroundTaskName(input) == Name(input, 100)
=============================================================================
