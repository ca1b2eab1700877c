------------------------- MODULE ListingDesk_proofs -------------------------
(***************************************************************************)
(* What the registrations of venues and listings keep, for any number of   *)
(* callers, venues, securities and listings.  A step writes one row at     *)
(* most (OneRow); whatever a lookup found (Found) still holds of every row *)
(* that has not been written since.                                        *)
(***************************************************************************)
EXTENDS ListingDesk, FiniteSetTheorems, TLAPS

AllStages == ListingStages \union VenueStages \union {"idle"}
Subjects == Venues \union Listings \union {None}

HandedOver ==
  /\ subject \in [Callers -> Subjects]
  /\ input \in [Callers -> Mics \union Drafts \union {None}]

(* Callers at work have ids of their own. *)
SubjectsDiffer ==
  /\ \A c \in Callers : stage[c] = "idle" => subject[c] = None
  /\ \A c, d \in Callers : subject[c] = subject[d] /\ subject[c] # None => c = d

(* What the lookups of a caller found. *)
Found(c) ==
  /\ stage[c] \in After["security"] =>
       input[c].security \in securities \union since[c]["security"]
  /\ stage[c] \in After["venue"] =>
       \/ input[c].venue \in DOMAIN venues /\ venues[input[c].venue].active
       \/ input[c].venue \in since[c]["venue"]
  /\ \A r \in {"ticker", "pair", "primary"} : stage[c] \in After[r] =>
       \A k \in DOMAIN listings : Clash(r, listings[k], input[c]) => k \in since[c][r]

(* The venues of a MIC and the callers about to add one. *)
FewRacers ==
  \A mic \in Mics : /\ IsFiniteSet(Bearers(mic))
                    /\ Cardinality(Bearers(mic)) + Cardinality(Racers(mic)) <= Cardinality(Callers)

IndInv ==
  /\ TypeOK
  /\ HandedOver
  /\ SubjectsDiffer
  /\ \A c \in Callers : Found(c)
  /\ FewRacers

(* Only row i is written. *)
OneRow(i) ==
  /\ \A s \in securities : s # i => s \in securities'
  /\ \A v \in DOMAIN venues : v # i => v \in DOMAIN venues' /\ venues'[v] = venues[v]
  /\ \A k \in DOMAIN listings' : k # i => k \in DOMAIN listings /\ listings'[k] = listings[k]

TablesOK ==
  /\ securities \subseteq Securities
  /\ DOMAIN venues \subseteq Venues
  /\ \A v \in DOMAIN venues : venues[v] \in Venue
  /\ DOMAIN listings \subseteq Listings
  /\ \A l \in DOMAIN listings : listings[l] \in Listing

-----------------------------------------------------------------------------
LEMMA AfterStages ==
  /\ Lookups = {"security", "venue", "ticker", "pair", "primary"}
  /\ \A r \in Lookups : After[r] \subseteq ListingStages /\ "security" \notin After[r]
  /\ "idle" \notin ListingStages \union VenueStages
  /\ ListingStages \intersect VenueStages = {}
BY DEF Lookups, After, ListingStages, VenueStages

(* The write of a row spares what a lookup found of the others. *)
LEMMA WriteSpares ==
  ASSUME IndInv, NEW i, OneRow(i), NEW d \in Callers,
         DOMAIN listings' \subseteq Listings,
         stage'[d] = stage[d], input'[d] = input[d], since'[d] = SinceWrite(i)[d]
  PROVE  Found(d)'
<1>1. ASSUME NEW r \in Lookups
      PROVE  /\ since[d][r] \subseteq since'[d][r]
             /\ stage[d] \in After[r] /\ i \in About(r, input[d]) => i \in since'[d][r]
  BY DEF SinceWrite
<1>2. Found(d)
  BY DEF IndInv
<1>3. ASSUME stage[d] \in After["security"]
      PROVE  input[d].security \in securities' \union since'[d]["security"]
  <2>1. CASE input[d].security = i
    BY <1>1, <1>3, <2>1, AfterStages DEF About
  <2>2. CASE input[d].security # i
    BY <1>1, <1>2, <1>3, <2>2, AfterStages DEF Found, OneRow
  <2> QED BY <2>1, <2>2
<1>4. ASSUME stage[d] \in After["venue"]
      PROVE  \/ input[d].venue \in DOMAIN venues' /\ venues'[input[d].venue].active
             \/ input[d].venue \in since'[d]["venue"]
  <2>1. CASE input[d].venue = i
    BY <1>1, <1>4, <2>1, AfterStages DEF About
  <2>2. CASE input[d].venue # i
    BY <1>1, <1>2, <1>4, <2>2, AfterStages DEF Found, OneRow
  <2> QED BY <2>1, <2>2
<1>5. ASSUME NEW r \in {"ticker", "pair", "primary"}, stage[d] \in After[r],
             NEW k \in DOMAIN listings', Clash(r, listings'[k], input[d])
      PROVE  k \in since'[d][r]
  <2>1. CASE k = i
    BY <1>1, <1>5, <2>1, AfterStages DEF About
  <2>2. CASE k # i
    BY <1>1, <1>2, <1>5, <2>2, AfterStages DEF Found, OneRow
  <2> QED BY <2>1, <2>2
<1> QED BY <1>3, <1>4, <1>5 DEF Found

(* The history stays what it is, a write of row i noted. *)
LEMMA SinceTyped ==
  ASSUME IndInv, NEW i
  PROVE  /\ SinceWrite(i) \in [Callers -> [Lookups -> SUBSET (Securities \union Venues \union Listings)]]
         /\ \A c \in Callers : stage[c] \notin ListingStages => SinceWrite(i)[c] = NothingSince
<1>1. ASSUME NEW c \in Callers, NEW r \in Lookups, stage[c] \in After[r]
      PROVE  About(r, input[c]) \subseteq Securities \union Venues \union Listings
  <2>1. input[c] \in Listing
    BY <1>1, AfterStages, DraftsAssumption DEF IndInv, TypeOK
  <2> QED BY <2>1 DEF About, Listing
<1>2. ASSUME NEW c \in Callers, stage[c] \notin ListingStages
      PROVE  SinceWrite(i)[c] = NothingSince
  <2>1. since[c] = NothingSince /\ \A r \in Lookups : stage[c] \notin After[r]
    BY <1>2, AfterStages DEF IndInv, TypeOK
  <2> QED BY <2>1 DEF SinceWrite, NothingSince
<1>3. ASSUME NEW c \in Callers, NEW r \in Lookups
      PROVE  SinceWrite(i)[c][r] \in SUBSET (Securities \union Venues \union Listings)
  BY <1>1 DEF SinceWrite, IndInv, TypeOK
<1> QED BY <1>2, <1>3 DEF SinceWrite

LEMMA NothingTyped ==
  NothingSince \in [Lookups -> SUBSET (Securities \union Venues \union Listings)]
BY DEF NothingSince

(* An idle caller has found nothing. *)
LEMMA IdleFinds ==
  ASSUME NEW c, stage[c] \notin ListingStages
  PROVE  Found(c)
BY AfterStages DEF Found

(* The counts when no venue comes and no caller passes exists_by_mic. *)
LEMMA FewerRacers ==
  ASSUME IndInv,
         \A mic \in Mics : Bearers(mic)' \subseteq Bearers(mic) /\ Racers(mic)' \subseteq Racers(mic)
  PROVE  FewRacers'
<1> SUFFICES ASSUME NEW mic \in Mics
             PROVE  /\ IsFiniteSet(Bearers(mic)')
                    /\ Cardinality(Bearers(mic)') + Cardinality(Racers(mic)') <= Cardinality(Callers)
  BY DEF FewRacers
<1>1. IsFiniteSet(Racers(mic)) /\ IsFiniteSet(Bearers(mic))
  BY CallersAssumption, FS_Subset DEF Racers, IndInv, FewRacers
<1>2. /\ IsFiniteSet(Bearers(mic)') /\ IsFiniteSet(Racers(mic)')
      /\ Cardinality(Bearers(mic)') <= Cardinality(Bearers(mic))
      /\ Cardinality(Racers(mic)') <= Cardinality(Racers(mic))
  BY <1>1, FS_Subset
<1>3. /\ Cardinality(Bearers(mic)') \in Nat /\ Cardinality(Racers(mic)') \in Nat
      /\ Cardinality(Bearers(mic)) \in Nat /\ Cardinality(Racers(mic)) \in Nat
      /\ Cardinality(Callers) \in Nat
  BY <1>1, <1>2, CallersAssumption, FS_CardinalityType
<1>4. Cardinality(Bearers(mic)) + Cardinality(Racers(mic)) <= Cardinality(Callers)
  BY DEF IndInv, FewRacers
<1> QED BY <1>2, <1>3, <1>4

(* Whatever stays as it is for one caller keeps what it found. *)
LEMMA UntouchedFinds ==
  ASSUME NEW d, Found(d), UNCHANGED tables,
         stage'[d] = stage[d], input'[d] = input[d], since'[d] = since[d]
  PROVE  Found(d)'
BY DEF Found, tables, Clash

-----------------------------------------------------------------------------
(* A lookup that passes. *)
LEMMA GoesOn ==
  ASSUME IndInv, NEW c \in Callers, UNCHANGED <<tables, subject, input, since>>,
         NEW s \in AllStages \ {"idle"}, stage[c] # "idle",
         s \in ListingStages <=> stage[c] \in ListingStages,
         stage' = [stage EXCEPT ![c] = s],
         Found(c)', FewRacers'
  PROVE  IndInv'
<1> USE DEF IndInv
<1>1. /\ stage' \in [Callers -> AllStages] /\ stage'[c] = s
      /\ \A d \in Callers : d # c => stage'[d] = stage[d]
  BY DEF TypeOK, AllStages
<1>2. HandedOver'
  BY DEF HandedOver
<1>3. SubjectsDiffer'
  BY <1>1 DEF SubjectsDiffer
<1>4. ASSUME NEW d \in Callers
      PROVE  Found(d)'
  BY <1>1, UntouchedFinds
<1>5. s \in VenueStages <=> stage[c] \in VenueStages
  BY AfterStages DEF TypeOK, AllStages
<1>6. ASSUME NEW d \in Callers
      PROVE  /\ stage'[d] \in ListingStages => subject'[d] \in Listings /\ input'[d] \in Drafts
             /\ stage'[d] \in VenueStages => subject'[d] \in Venues /\ input'[d] \in Mics
             /\ stage'[d] \notin ListingStages => since'[d] = NothingSince
  <2>1. CASE d = c
    BY <1>1, <1>5, <2>1 DEF TypeOK
  <2>2. CASE d # c
    BY <1>1, <2>2 DEF TypeOK
  <2> QED BY <2>1, <2>2
<1>7. TypeOK'
  BY <1>1, <1>6 DEF TypeOK, AllStages, tables
<1> QED BY <1>2, <1>3, <1>4, <1>7

(* A caller that returns, with or without having written a row. *)
LEMMA ReturnTypes ==
  ASSUME IndInv, NEW c \in Callers, NEW history, Return(c, history),
         history \in [Callers -> [Lookups -> SUBSET (Securities \union Venues \union Listings)]],
         \A d \in Callers : stage[d] \notin ListingStages => history[d] = NothingSince,
         TablesOK'
  PROVE  TypeOK' /\ HandedOver' /\ SubjectsDiffer' /\ Found(c)'
<1> USE DEF IndInv
<1>1. /\ stage' \in [Callers -> AllStages] /\ stage'[c] = "idle" /\ subject'[c] = None
      /\ since'[c] = NothingSince
      /\ \A d \in Callers : d # c => /\ stage'[d] = stage[d] /\ subject'[d] = subject[d]
                                     /\ input'[d] = input[d] /\ since'[d] = history[d]
  BY DEF Return, TypeOK, AllStages, HandedOver
<1>2. since' \in [Callers -> [Lookups -> SUBSET (Securities \union Venues \union Listings)]]
  BY NothingTyped DEF Return
<1>3. HandedOver'
  BY DEF Return, HandedOver, Subjects
<1>4. SubjectsDiffer'
  BY <1>1 DEF SubjectsDiffer
<1>5. Found(c)'
  BY <1>1, AfterStages DEF Found
<1>6. ASSUME NEW d \in Callers
      PROVE  /\ stage'[d] \in ListingStages => subject'[d] \in Listings /\ input'[d] \in Drafts
             /\ stage'[d] \in VenueStages => subject'[d] \in Venues /\ input'[d] \in Mics
             /\ stage'[d] \notin ListingStages => since'[d] = NothingSince
  <2>1. CASE d = c
    BY <1>1, <2>1, AfterStages
  <2>2. CASE d # c
    BY <1>1, <2>2 DEF TypeOK
  <2> QED BY <2>1, <2>2
<1>7. TypeOK'
  BY <1>1, <1>2, <1>6 DEF TypeOK, AllStages, TablesOK
<1> QED BY <1>3, <1>4, <1>5, <1>7

LEMMA RefusalStep ==
  ASSUME IndInv, NEW c \in Callers, UNCHANGED tables, Return(c, since)
  PROVE  IndInv'
<1>1. TypeOK' /\ HandedOver' /\ SubjectsDiffer' /\ Found(c)'
  BY ReturnTypes DEF IndInv, TypeOK, TablesOK, tables
<1>2. ASSUME NEW d \in Callers
      PROVE  Found(d)'
  <2>1. CASE d = c
    BY <1>1, <2>1
  <2>2. CASE d # c
    <3>1. stage'[d] = stage[d] /\ input'[d] = input[d] /\ since'[d] = since[d]
      BY <2>2 DEF Return, IndInv, TypeOK, HandedOver
    <3> QED BY <3>1, UntouchedFinds DEF IndInv
  <2> QED BY <2>1, <2>2
<1>3. \A mic \in Mics : Bearers(mic)' \subseteq Bearers(mic) /\ Racers(mic)' \subseteq Racers(mic)
  BY DEF Bearers, Racers, tables, Return, IndInv, TypeOK, HandedOver
<1> QED BY <1>1, <1>2, <1>3, FewerRacers DEF IndInv

(* The five checks of a listing: each adds to what was found. *)
LEMMA ListingLookupStep ==
  ASSUME IndInv, NEW c \in Callers,
         CheckSecurity(c) \/ CheckVenue(c) \/ CheckTicker(c) \/ CheckPair(c) \/ CheckPrimary(c)
  PROVE  IndInv'
<1>1. UNCHANGED tables
  BY DEF CheckSecurity, CheckVenue, CheckTicker, CheckPair, CheckPrimary, Lookup
<1>2. CASE Return(c, since)
  BY <1>1, <1>2, RefusalStep
<1>3. ASSUME ~Return(c, since)
      PROVE  IndInv'
  <2>1. UNCHANGED <<tables, subject, input, since>>
    BY <1>1, <1>3 DEF CheckSecurity, CheckVenue, CheckTicker, CheckPair, CheckPrimary, Lookup
  <2>2. Found(c)
    BY DEF IndInv
  <2>3. ASSUME NEW from \in ListingStages, NEW to \in ListingStages,
               stage[c] = from, stage' = [stage EXCEPT ![c] = to], Found(c)'
        PROVE  IndInv'
    <3>1. \A mic \in Mics : Bearers(mic)' \subseteq Bearers(mic) /\ Racers(mic)' \subseteq Racers(mic)
      BY <2>1, <2>3, AfterStages
         DEF Bearers, Racers, tables, IndInv, TypeOK, ListingStages, VenueStages
    <3>2. FewRacers'
      BY <3>1, FewerRacers
    <3>3. from # "idle" /\ to \in AllStages \ {"idle"}
      BY <2>3, AfterStages DEF AllStages
    <3> QED BY <2>1, <2>3, <3>2, <3>3, GoesOn
  <2>4. CASE CheckSecurity(c)
    <3>1. /\ stage[c] = "security" /\ stage' = [stage EXCEPT ![c] = "venue"]
          /\ stage'[c] = "venue" /\ input[c].security \in securities
      BY <1>3, <2>4 DEF CheckSecurity, Lookup, IndInv, TypeOK
    <3>2. Found(c)'
      BY <2>1, <3>1 DEF Found, After, tables
    <3> QED BY <2>3, <3>1, <3>2 DEF ListingStages
  <2>5. CASE CheckVenue(c)
    <3>1. /\ stage[c] = "venue" /\ stage' = [stage EXCEPT ![c] = "ticker"]
          /\ stage'[c] = "ticker" /\ VenueActive(input[c].venue)
      BY <1>3, <2>5 DEF CheckVenue, Lookup, IndInv, TypeOK
    <3>2. Found(c)'
      BY <2>1, <2>2, <3>1 DEF Found, After, tables, VenueActive
    <3> QED BY <2>3, <3>1, <3>2 DEF ListingStages
  <2>6. CASE CheckTicker(c)
    <3>1. /\ stage[c] = "ticker" /\ stage' = [stage EXCEPT ![c] = "pair"]
          /\ stage'[c] = "pair" /\ ~ActiveTicker(input[c].venue, input[c].symbol)
      BY <1>3, <2>6 DEF CheckTicker, Lookup, IndInv, TypeOK
    <3>2. Found(c)'
      BY <2>1, <2>2, <3>1 DEF Found, After, tables, ActiveTicker, Clash
    <3> QED BY <2>3, <3>1, <3>2 DEF ListingStages
  <2>7. CASE CheckPair(c)
    <3>1. /\ stage[c] = "pair" /\ stage' = [stage EXCEPT ![c] = "primary"]
          /\ stage'[c] = "primary" /\ ~ActivePair(input[c].security, input[c].venue)
      BY <1>3, <2>7 DEF CheckPair, Lookup, IndInv, TypeOK
    <3>2. Found(c)'
      BY <2>1, <2>2, <3>1 DEF Found, After, tables, ActivePair, Clash
    <3> QED BY <2>3, <3>1, <3>2 DEF ListingStages
  <2>8. CASE CheckPrimary(c)
    <3>1. /\ stage[c] = "primary" /\ stage' = [stage EXCEPT ![c] = "insert_listing"]
          /\ stage'[c] = "insert_listing"
          /\ input[c].primary => ~ActivePrimary(input[c].security)
      BY <1>3, <2>8 DEF CheckPrimary, Lookup, IndInv, TypeOK
    <3>2. Found(c)'
      BY <2>1, <2>2, <3>1 DEF Found, After, tables, ActivePrimary, Clash
    <3> QED BY <2>3, <3>1, <3>2 DEF ListingStages
  <2> QED BY <2>4, <2>5, <2>6, <2>7, <2>8
<1> QED BY <1>2, <1>3

(* A caller that passes exists_by_mic joins the racers while no venue has  *)
(* the MIC.                                                                *)
LEMMA MicLookupStep ==
  ASSUME IndInv, NEW c \in Callers, CheckMic(c)
  PROVE  IndInv'
<1>1. UNCHANGED tables
  BY DEF CheckMic, Lookup
<1>2. CASE Return(c, since)
  BY <1>1, <1>2, RefusalStep
<1>3. ASSUME ~Return(c, since)
      PROVE  IndInv'
  <2>1. /\ UNCHANGED <<tables, subject, input, since>>
        /\ stage[c] = "mic" /\ stage' = [stage EXCEPT ![c] = "insert_venue"]
        /\ stage'[c] = "insert_venue" /\ ~ExistsByMic(input[c])
    BY <1>1, <1>3 DEF CheckMic, Lookup, IndInv, TypeOK
  <2>2. ASSUME NEW mic \in Mics
        PROVE  /\ IsFiniteSet(Bearers(mic)')
               /\ Cardinality(Bearers(mic)') + Cardinality(Racers(mic)') <= Cardinality(Callers)
    <3>1. Bearers(mic)' = Bearers(mic) /\ IsFiniteSet(Bearers(mic))
      BY <2>1 DEF Bearers, tables, IndInv, FewRacers
    <3>2. Racers(mic)' \subseteq Callers
      BY DEF Racers
    <3>3. /\ IsFiniteSet(Racers(mic)') /\ Cardinality(Racers(mic)') <= Cardinality(Callers)
          /\ Cardinality(Racers(mic)') \in Nat /\ Cardinality(Callers) \in Nat
      BY <3>2, CallersAssumption, FS_Subset, FS_CardinalityType
    <3>4. CASE input[c] = mic
      <4>1. Bearers(mic) = {}
        BY <2>1, <3>4 DEF Bearers, ExistsByMic
      <4>2. Cardinality(Bearers(mic)') = 0
        BY <3>1, <4>1, FS_EmptySet
      <4> QED BY <3>1, <3>3, <4>2
    <3>5. CASE input[c] # mic
      <4>1. Racers(mic)' = Racers(mic)
        BY <2>1, <3>5 DEF Racers, IndInv, TypeOK
      <4> QED BY <3>1, <4>1 DEF IndInv, FewRacers
    <3> QED BY <3>4, <3>5
  <2>3. FewRacers'
    BY <2>2 DEF FewRacers
  <2>4. Found(c)'
    BY <2>1, IdleFinds, AfterStages DEF Found, ListingStages
  <2>5. /\ "insert_venue" \in AllStages \ {"idle"} /\ stage[c] # "idle"
        /\ "insert_venue" \in ListingStages <=> stage[c] \in ListingStages
    BY <2>1 DEF AllStages, ListingStages, VenueStages
  <2> QED BY <2>1, <2>3, <2>4, <2>5, GoesOn
<1> QED BY <1>2, <1>3

(* A registration that begins has an id of its own and has found nothing.  *)
LEMMA BeginStep ==
  ASSUME IndInv, NEW c \in Callers, NEW id, NEW x, NEW first,
         \/ first = "mic" /\ id \in Venues /\ x \in Mics
         \/ first = "security" /\ id \in Listings /\ x \in Drafts,
         Begin(c, first, id, x)
  PROVE  IndInv'
<1> USE DEF IndInv
<1>1. /\ stage' \in [Callers -> AllStages] /\ stage'[c] = first
      /\ subject'[c] = id /\ input'[c] = x
      /\ \A d \in Callers : d # c => /\ stage'[d] = stage[d] /\ subject'[d] = subject[d]
                                     /\ input'[d] = input[d]
  BY DEF Begin, TypeOK, AllStages, HandedOver, ListingStages, VenueStages
<1>2. UNCHANGED <<tables, since>> /\ stage[c] = "idle" /\ \A d \in Callers : subject[d] # id
  BY DEF Begin, Fresh
<1>3. HandedOver'
  BY DEF Begin, HandedOver, Subjects
<1>4. SubjectsDiffer'
  BY <1>1, <1>2 DEF SubjectsDiffer
<1>5. since[c] = NothingSince
  BY <1>2, AfterStages DEF TypeOK
<1>6. ASSUME NEW d \in Callers
      PROVE  Found(d)'
  <2>1. CASE d = c
    <3>1. \A r \in Lookups : first \notin After[r]
      BY AfterStages DEF ListingStages, VenueStages
    <3> QED BY <1>1, <2>1, <3>1, AfterStages DEF Found
  <2>2. CASE d # c
    BY <1>1, <1>2, <2>2, UntouchedFinds
  <2> QED BY <2>1, <2>2
<1>7. ASSUME NEW d \in Callers
      PROVE  /\ stage'[d] \in ListingStages => subject'[d] \in Listings /\ input'[d] \in Drafts
             /\ stage'[d] \in VenueStages => subject'[d] \in Venues /\ input'[d] \in Mics
             /\ stage'[d] \notin ListingStages => since'[d] = NothingSince
  <2>1. CASE d = c
    BY <1>1, <1>2, <1>5, <2>1 DEF ListingStages, VenueStages
  <2>2. CASE d # c
    BY <1>1, <1>2, <2>2 DEF TypeOK
  <2> QED BY <2>1, <2>2
<1>8. TypeOK'
  BY <1>1, <1>2, <1>7 DEF TypeOK, AllStages, tables
<1>9. \A mic \in Mics : Bearers(mic)' \subseteq Bearers(mic) /\ Racers(mic)' \subseteq Racers(mic)
  BY <1>1, <1>2 DEF Bearers, Racers, tables
<1> QED BY <1>3, <1>4, <1>6, <1>8, <1>9, FewerRacers

-----------------------------------------------------------------------------
(* The writes of one row by somebody who registers nothing. *)
LEMMA WriteStep ==
  ASSUME IndInv, NEW i, Write(i), OneRow(i), TablesOK',
         \A mic \in Mics : Bearers(mic)' \subseteq Bearers(mic)
  PROVE  IndInv'
<1> USE DEF IndInv, Write
<1>1. TypeOK'
  BY SinceTyped DEF TypeOK, TablesOK
<1>2. HandedOver' /\ SubjectsDiffer'
  BY DEF HandedOver, SubjectsDiffer
<1>3. ASSUME NEW d \in Callers
      PROVE  Found(d)'
  BY WriteSpares DEF TablesOK
<1>4. \A mic \in Mics : Racers(mic)' \subseteq Racers(mic)
  BY DEF Racers
<1> QED BY <1>1, <1>2, <1>3, <1>4, FewerRacers

LEMMA SecurityStep ==
  ASSUME IndInv, NEW s \in Securities, AddSecurity(s) \/ DeleteSecurity(s)
  PROVE  IndInv'
<1>1. Write(s) /\ OneRow(s) /\ TablesOK'
  BY DEF AddSecurity, DeleteSecurity, OneRow, TablesOK, IndInv, TypeOK
<1>2. \A mic \in Mics : Bearers(mic)' \subseteq Bearers(mic)
  BY DEF AddSecurity, DeleteSecurity, Bearers
<1> QED BY <1>1, <1>2, WriteStep

LEMMA VenueStep ==
  ASSUME IndInv, NEW v \in Venues,
         DeleteVenue(v) \/ \E active \in BOOLEAN : PatchVenue(v, active)
  PROVE  IndInv'
<1>1. CASE DeleteVenue(v)
  <2>1. /\ DOMAIN venues' = DOMAIN venues \ {v}
        /\ \A w \in DOMAIN venues' : venues'[w] = venues[w]
    BY <1>1 DEF DeleteVenue, Without
  <2>2. Write(v) /\ OneRow(v) /\ TablesOK'
    BY <1>1, <2>1 DEF DeleteVenue, OneRow, TablesOK, IndInv, TypeOK
  <2>3. \A mic \in Mics : Bearers(mic)' \subseteq Bearers(mic)
    BY <2>1 DEF Bearers
  <2> QED BY <2>2, <2>3, WriteStep
<1>2. ASSUME NEW active \in BOOLEAN, PatchVenue(v, active)
      PROVE  IndInv'
  <2>1. /\ DOMAIN venues' = DOMAIN venues
        /\ \A w \in DOMAIN venues : w # v => venues'[w] = venues[w]
        /\ v \in DOMAIN venues
        /\ venues'[v] = [venues[v] EXCEPT !.active = active]
    BY <1>2 DEF PatchVenue
  <2>2. venues[v] \in Venue
    BY <2>1 DEF IndInv, TypeOK
  <2>3. venues'[v] \in Venue /\ venues'[v].mic = venues[v].mic
    BY <2>1, <2>2 DEF Venue
  <2>4. \A w \in DOMAIN venues : venues'[w].mic = venues[w].mic
    BY <2>1, <2>3
  <2>5. Write(v) /\ OneRow(v) /\ TablesOK'
    BY <1>2, <2>1, <2>3 DEF PatchVenue, OneRow, TablesOK, IndInv, TypeOK
  <2>6. \A mic \in Mics : Bearers(mic)' \subseteq Bearers(mic)
    BY <2>1, <2>4 DEF Bearers
  <2> QED BY <2>5, <2>6, WriteStep
<1> QED BY <1>1, <1>2

LEMMA ListingStep ==
  ASSUME IndInv, NEW id \in Listings,
         \/ DeleteListing(id)
         \/ \E symbol \in Symbols, primary, active \in BOOLEAN :
              PatchListing(id, symbol, primary, active)
  PROVE  IndInv'
<1>1. Write(id) /\ \A mic \in Mics : Bearers(mic)' \subseteq Bearers(mic)
  BY DEF DeleteListing, PatchListing, Bearers
<1>2. CASE DeleteListing(id)
  <2>1. /\ DOMAIN listings' = DOMAIN listings \ {id}
        /\ \A l \in DOMAIN listings' : listings'[l] = listings[l]
    BY <1>2 DEF DeleteListing, Without
  <2>2. OneRow(id) /\ TablesOK'
    BY <1>2, <2>1 DEF DeleteListing, OneRow, TablesOK, IndInv, TypeOK
  <2> QED BY <1>1, <2>2, WriteStep
<1>3. ASSUME NEW symbol \in Symbols, NEW primary \in BOOLEAN, NEW active \in BOOLEAN,
             PatchListing(id, symbol, primary, active)
      PROVE  IndInv'
  <2>1. /\ DOMAIN listings' = DOMAIN listings
        /\ \A l \in DOMAIN listings : l # id => listings'[l] = listings[l]
        /\ id \in DOMAIN listings
        /\ listings'[id] = [listings[id] EXCEPT !.symbol = symbol, !.primary = primary,
                                                !.active = active]
    BY <1>3 DEF PatchListing
  <2>2. listings[id] \in Listing
    BY <2>1 DEF IndInv, TypeOK
  <2>3. listings'[id] \in Listing
    BY <2>1, <2>2 DEF Listing
  <2>4. OneRow(id) /\ TablesOK'
    BY <1>3, <2>1, <2>3 DEF PatchListing, OneRow, TablesOK, IndInv, TypeOK
  <2> QED BY <1>1, <2>4, WriteStep
<1> QED BY <1>2, <1>3

(* The two inserts: the others' findings are spared, and the caller's go.  *)
LEMMA InsertFinds ==
  ASSUME IndInv, NEW c \in Callers, Return(c, SinceWrite(subject[c])),
         OneRow(subject[c]), TablesOK'
  PROVE  TypeOK' /\ HandedOver' /\ SubjectsDiffer' /\ \A d \in Callers : Found(d)'
<1>1. TypeOK' /\ HandedOver' /\ SubjectsDiffer' /\ Found(c)'
  BY SinceTyped, ReturnTypes
<1>2. ASSUME NEW d \in Callers, d # c
      PROVE  Found(d)'
  <2>1. stage'[d] = stage[d] /\ input'[d] = input[d] /\ since'[d] = SinceWrite(subject[c])[d]
    BY <1>2, SinceTyped DEF Return, IndInv, TypeOK, HandedOver
  <2> QED BY <2>1, WriteSpares DEF TablesOK
<1> QED BY <1>1, <1>2

LEMMA InsertListingStep ==
  ASSUME IndInv, NEW c \in Callers, InsertListing(c)
  PROVE  IndInv'
<1>1. /\ stage[c] = "insert_listing" /\ Return(c, SinceWrite(subject[c]))
      /\ UNCHANGED <<securities, venues>>
  BY DEF InsertListing
<1>2. subject[c] \in Listings /\ input[c] \in Listing
  BY <1>1, DraftsAssumption DEF IndInv, TypeOK, ListingStages
<1>3. /\ DOMAIN listings' = DOMAIN listings \union {subject[c]}
      /\ listings'[subject[c]] = input[c]
      /\ \A l \in DOMAIN listings \ {subject[c]} : listings'[l] = listings[l]
  BY DEF InsertListing, With
<1>4. TablesOK' /\ OneRow(subject[c])
  BY <1>1, <1>2, <1>3 DEF TablesOK, OneRow, IndInv, TypeOK
<1>5. \A mic \in Mics : Bearers(mic)' \subseteq Bearers(mic) /\ Racers(mic)' \subseteq Racers(mic)
  BY <1>1 DEF Bearers, Racers, Return, IndInv, TypeOK, HandedOver
<1> QED BY <1>1, <1>4, <1>5, InsertFinds, FewerRacers DEF IndInv

(* A racer that inserts its venue is a racer no more. *)
LEMMA InsertVenueStep ==
  ASSUME IndInv, NEW c \in Callers, InsertVenue(c)
  PROVE  IndInv'
<1>1. /\ stage[c] = "insert_venue" /\ Return(c, SinceWrite(subject[c]))
      /\ UNCHANGED <<securities, listings>>
  BY DEF InsertVenue
<1>2. subject[c] \in Venues /\ input[c] \in Mics
  BY <1>1 DEF IndInv, TypeOK, VenueStages
<1>0. PICK active \in BOOLEAN :
        venues' = With(venues, subject[c], [mic |-> input[c], active |-> active])
  BY DEF InsertVenue
<1> DEFINE new == [mic |-> input[c], active |-> active]
<1>3. /\ DOMAIN venues' = DOMAIN venues \union {subject[c]}
      /\ venues'[subject[c]] = new
      /\ \A v \in DOMAIN venues \ {subject[c]} : venues'[v] = venues[v]
  BY <1>0 DEF With
<1>4. new \in Venue /\ new.mic = input[c]
  BY <1>2 DEF Venue
<1> HIDE DEF new
<1>5. TablesOK' /\ OneRow(subject[c])
  BY <1>1, <1>2, <1>3, <1>4 DEF TablesOK, OneRow, IndInv, TypeOK
<1>6. ASSUME NEW mic \in Mics
      PROVE  /\ IsFiniteSet(Bearers(mic)')
             /\ Cardinality(Bearers(mic)') + Cardinality(Racers(mic)') <= Cardinality(Callers)
  <2>1. /\ IsFiniteSet(Racers(mic)) /\ IsFiniteSet(Bearers(mic))
        /\ Cardinality(Bearers(mic)) + Cardinality(Racers(mic)) <= Cardinality(Callers)
    BY CallersAssumption, FS_Subset DEF Racers, IndInv, FewRacers
  <2>2. /\ Cardinality(Bearers(mic)) \in Nat /\ Cardinality(Racers(mic)) \in Nat
        /\ Cardinality(Callers) \in Nat
    BY <2>1, CallersAssumption, FS_CardinalityType
  <2>3. Racers(mic)' = Racers(mic) \ {c}
    BY <1>1 DEF Racers, Return, IndInv, TypeOK, HandedOver
  <2>4. CASE input[c] = mic
    <3>1. c \in Racers(mic)
      BY <1>1, <2>4 DEF Racers
    <3>2. Cardinality(Racers(mic)') = Cardinality(Racers(mic)) - 1
      BY <2>1, <2>3, <3>1, FS_RemoveElement
    <3>3. Bearers(mic)' = Bearers(mic) \union {subject[c]}
      BY <1>3, <1>4, <2>4 DEF Bearers
    <3>4. /\ IsFiniteSet(Bearers(mic)')
          /\ \/ Cardinality(Bearers(mic)') = Cardinality(Bearers(mic))
             \/ Cardinality(Bearers(mic)') = Cardinality(Bearers(mic)) + 1
      BY <2>1, <3>3, FS_AddElement
    <3> QED BY <2>1, <2>2, <3>2, <3>4
  <2>5. CASE input[c] # mic
    <3>1. Bearers(mic)' \subseteq Bearers(mic) /\ Racers(mic)' \subseteq Racers(mic)
      BY <1>3, <1>4, <2>3, <2>5 DEF Bearers
    <3>2. /\ IsFiniteSet(Bearers(mic)') /\ IsFiniteSet(Racers(mic)')
          /\ Cardinality(Bearers(mic)') <= Cardinality(Bearers(mic))
          /\ Cardinality(Racers(mic)') <= Cardinality(Racers(mic))
      BY <2>1, <3>1, FS_Subset
    <3>3. Cardinality(Bearers(mic)') \in Nat /\ Cardinality(Racers(mic)') \in Nat
      BY <3>2, FS_CardinalityType
    <3> QED BY <2>1, <2>2, <3>2, <3>3
  <2> QED BY <2>4, <2>5
<1>7. FewRacers'
  BY <1>6 DEF FewRacers
<1> QED BY <1>1, <1>5, <1>7, InsertFinds DEF IndInv

-----------------------------------------------------------------------------
LEMMA InitHolds == Init => IndInv
<1> SUFFICES ASSUME Init PROVE IndInv
  OBVIOUS
<1>1. \A c \in Callers : stage[c] = "idle" /\ since[c] = NothingSince
  BY DEF Init
<1>2. TypeOK /\ HandedOver /\ SubjectsDiffer
  BY <1>1, NothingTyped
     DEF Init, TypeOK, HandedOver, SubjectsDiffer, Subjects, ListingStages, VenueStages
<1>3. \A c \in Callers : Found(c)
  BY <1>1, IdleFinds, AfterStages
<1>4. FewRacers
  <2>1. \A mic \in Mics : Bearers(mic) = {} /\ Racers(mic) = {}
    BY <1>1 DEF Init, Bearers, Racers
  <2>2. Cardinality(Callers) \in Nat
    BY CallersAssumption, FS_CardinalityType
  <2> QED BY <2>1, <2>2, FS_EmptySet DEF FewRacers
<1> QED BY <1>2, <1>3, <1>4 DEF IndInv

LEMMA StutterHolds == IndInv /\ UNCHANGED vars => IndInv'
<1> SUFFICES ASSUME IndInv, UNCHANGED vars PROVE IndInv'
  OBVIOUS
<1> USE DEF IndInv, vars
<1>1. TypeOK' /\ HandedOver' /\ SubjectsDiffer'
  BY DEF TypeOK, HandedOver, SubjectsDiffer
<1>2. \A c \in Callers : Found(c)'
  BY UntouchedFinds DEF tables
<1>3. FewRacers'
  BY FewerRacers DEF Bearers, Racers
<1> QED BY <1>1, <1>2, <1>3

LEMMA NextHolds == IndInv /\ [Next]_vars => IndInv'
<1> SUFFICES ASSUME IndInv, Next PROVE IndInv'
  BY StutterHolds
<1>1. ASSUME NEW c \in Callers, NEW v \in Venues, NEW mic \in Mics, RegisterVenue(c, v, mic)
      PROVE  IndInv'
  BY <1>1, BeginStep DEF RegisterVenue
<1>2. ASSUME NEW c \in Callers, NEW id \in Listings, NEW l \in Drafts, RegisterListing(c, id, l)
      PROVE  IndInv'
  BY <1>2, BeginStep DEF RegisterListing
<1>3. ASSUME NEW c \in Callers, Fault(c)
      PROVE  IndInv'
  BY <1>3, RefusalStep DEF Fault
<1> QED
  BY <1>1, <1>2, <1>3, MicLookupStep, ListingLookupStep, InsertVenueStep, InsertListingStep,
     SecurityStep, VenueStep, ListingStep DEF Next

LEMMA Invariance == Spec => []IndInv
BY InitHolds, NextHolds, PTL DEF Spec

(* The types of the registry of venues and listings.                       *)
THEOREM TypeCorrect == Spec => []TypeOK
<1>1. IndInv => TypeOK
  BY DEF IndInv
<1> QED BY <1>1, Invariance, PTL

(* A MIC names no more venues than callers race for it (register_venue).   *)
THEOREM MicShared == Spec => []MicSharedByRacersOnly
<1>1. IndInv => MicSharedByRacersOnly
  <2> SUFFICES ASSUME IndInv, NEW mic \in Mics
               PROVE  Cardinality(Bearers(mic)) <= Cardinality(Callers)
    BY DEF MicSharedByRacersOnly
  <2>1. /\ IsFiniteSet(Racers(mic)) /\ IsFiniteSet(Bearers(mic))
        /\ Cardinality(Bearers(mic)) + Cardinality(Racers(mic)) <= Cardinality(Callers)
    BY CallersAssumption, FS_Subset DEF Racers, IndInv, FewRacers
  <2>2. /\ Cardinality(Bearers(mic)) \in Nat /\ Cardinality(Racers(mic)) \in Nat
        /\ Cardinality(Callers) \in Nat
    BY <2>1, CallersAssumption, FS_CardinalityType
  <2> QED BY <2>1, <2>2
<1> QED BY <1>1, Invariance, PTL

(* With a single caller that registers, find_by_mic has one answer.        *)
THEOREM OneRegistrarOneVenue ==
  ASSUME Cardinality(Callers) = 1
  PROVE  Spec => [](\A v, w \in DOMAIN venues : venues[v].mic = venues[w].mic => v = w)
<1>1. IndInv => \A v, w \in DOMAIN venues : venues[v].mic = venues[w].mic => v = w
  <2> SUFFICES ASSUME IndInv, NEW v \in DOMAIN venues, NEW w \in DOMAIN venues,
                      venues[v].mic = venues[w].mic, v # w
               PROVE  FALSE
    OBVIOUS
  <2> DEFINE mic == venues[v].mic
  <2>1. mic \in Mics
    BY DEF IndInv, TypeOK, Venue
  <2>2. /\ IsFiniteSet(Racers(mic)) /\ IsFiniteSet(Bearers(mic))
        /\ Cardinality(Bearers(mic)) + Cardinality(Racers(mic)) <= 1
    BY <2>1, CallersAssumption, FS_Subset DEF Racers, IndInv, FewRacers
  <2>3. Cardinality(Bearers(mic)) \in Nat /\ Cardinality(Racers(mic)) \in Nat
    BY <2>2, FS_CardinalityType
  <2>4. {v, w} \subseteq Bearers(mic)
    BY DEF Bearers
  <2>5. Cardinality({v, w}) <= Cardinality(Bearers(mic))
    BY <2>2, <2>4, FS_Subset
  <2>6. Cardinality({v}) = 1 /\ IsFiniteSet({v})
    BY FS_Singleton
  <2>7. Cardinality({v} \union {w}) = Cardinality({v}) + 1
    <3>1. w \notin {v}
      OBVIOUS
    <3> QED BY ONLY <2>6, <3>1, FS_AddElement
  <2>8. {v, w} = {v} \union {w}
    OBVIOUS
  <2>9. Cardinality({v, w}) = 2
    BY ONLY <2>6, <2>7, <2>8
  <2> HIDE DEF mic
  <2> QED BY ONLY <2>2, <2>3, <2>5, <2>9
<1> QED BY <1>1, Invariance, PTL

(* Only the caller that inserts adds its listing.                          *)
LEMMA OnlyInsertAdds ==
  ASSUME IndInv, [Next]_vars, NEW c \in Callers, Inserts(c)
  PROVE  InsertListing(c) /\ listings'[subject[c]] = input[c]
<1>1. listings' # listings
  BY DEF Inserts
<1>2. ASSUME NEW k \in Listings, DeleteListing(k)
      PROVE  FALSE
  BY <1>2 DEF DeleteListing, Without, Inserts
<1>3. ASSUME NEW k \in Listings, NEW symbol, NEW primary, NEW active,
             PatchListing(k, symbol, primary, active)
      PROVE  FALSE
  BY <1>3 DEF PatchListing, Inserts
<1>4. ASSUME NEW d \in Callers, InsertListing(d)
      PROVE  InsertListing(c) /\ listings'[subject[c]] = input[c]
  <2>1. subject[c] = subject[d]
    BY <1>4 DEF InsertListing, With, Inserts
  <2>2. subject[d] # None
    BY <1>4, NoneAssumption DEF InsertListing, IndInv, TypeOK, ListingStages
  <2>3. c = d
    BY <2>1, <2>2 DEF IndInv, SubjectsDiffer
  <2> QED BY <1>4, <2>3 DEF InsertListing, With
<1>5. ASSUME NEW d \in Callers, NEW k \in Listings, NEW l \in Drafts, RegisterListing(d, k, l)
      PROVE  FALSE
  BY <1>1, <1>5 DEF RegisterListing, Begin, tables
<1>6. ASSUME NEW d \in Callers, NEW v \in Venues, NEW mic \in Mics, RegisterVenue(d, v, mic)
      PROVE  FALSE
  BY <1>1, <1>6 DEF RegisterVenue, Begin, tables
<1>7. ASSUME NEW d \in Callers,
             \/ CheckMic(d) \/ CheckSecurity(d) \/ CheckVenue(d)
             \/ CheckTicker(d) \/ CheckPair(d) \/ CheckPrimary(d) \/ Fault(d)
      PROVE  FALSE
  BY <1>1, <1>7 DEF CheckMic, CheckSecurity, CheckVenue, CheckTicker, CheckPair, CheckPrimary,
                    Lookup, Fault, tables
<1>8. ASSUME NEW d \in Callers, InsertVenue(d)
      PROVE  FALSE
  BY <1>1, <1>8 DEF InsertVenue
<1>9. ASSUME NEW s \in Securities, AddSecurity(s) \/ DeleteSecurity(s)
      PROVE  FALSE
  BY <1>1, <1>9 DEF AddSecurity, DeleteSecurity
<1>10. ASSUME NEW v \in Venues, DeleteVenue(v) \/ \E active \in BOOLEAN : PatchVenue(v, active)
       PROVE  FALSE
  BY <1>1, <1>10 DEF DeleteVenue, PatchVenue
<1>11. ~UNCHANGED vars
  BY <1>1 DEF vars
<1> QED
  BY <1>2, <1>3, <1>4, <1>5, <1>6, <1>7, <1>8, <1>9, <1>10, <1>11 DEF Next

(* A listing that is added for a security that is gone, or on a venue that *)
(* is gone or retired, owes it to a write since the lookup of that row.    *)
THEOREM ListingsOpen == Spec => ListedWhereOpenWhenLookedUp
<1> DEFINE Open(c, l) ==
             /\ l.security \in securities \union since[c]["security"]
             /\ \/ l.venue \in DOMAIN venues /\ venues[l.venue].active
                \/ l.venue \in since[c]["venue"]
<1>1. ASSUME IndInv, [Next]_vars, NEW c \in Callers, Inserts(c)
      PROVE  Open(c, listings'[subject[c]])
  <2>1. InsertListing(c) /\ listings'[subject[c]] = input[c]
    BY <1>1, OnlyInsertAdds
  <2>2. stage[c] \in After["security"] /\ stage[c] \in After["venue"] /\ Found(c)
    BY <1>1, <2>1 DEF InsertListing, IndInv, After
  <2> QED BY <2>1, <2>2 DEF Found
<1>2. IndInv /\ [Next]_vars =>
        [\A c \in Callers : Inserts(c) => Open(c, listings'[subject[c]])]_vars
  BY <1>1
<1> QED BY <1>2, Invariance, PTL DEF Spec, ListedWhereOpenWhenLookedUp

(* A registration makes no listing clash, but with one that was written    *)
(* since the lookup for that rule (register_listing).                      *)
THEOREM MarketRules == Spec => ClashesOnlyInBetween
<1> DEFINE Rules == {"ticker", "pair", "primary"}
           Spared(c) == \A k \in DOMAIN listings, r \in Rules :
                          Clash(r, listings[k], listings'[subject[c]]) => k \in since[c][r]
<1>1. ASSUME IndInv, [Next]_vars, NEW c \in Callers, Inserts(c)
      PROVE  Spared(c)
  <2>1. InsertListing(c) /\ listings'[subject[c]] = input[c]
    BY <1>1, OnlyInsertAdds
  <2>2. Found(c) /\ \A r \in Rules : stage[c] \in After[r]
    BY <1>1, <2>1 DEF InsertListing, IndInv, After
  <2> QED BY <2>1, <2>2 DEF Found
<1>2. IndInv /\ [Next]_vars => [\A c \in Callers : Inserts(c) => Spared(c)]_vars
  BY <1>1
<1> QED BY <1>2, Invariance, PTL DEF Spec, ClashesOnlyInBetween

=============================================================================
