---------------------------- MODULE ListingDesk -----------------------------
(***************************************************************************)
(* Venues and the listings of securities on them: register_venue           *)
(* (crates/core/src/domain/venue.rs) and register_listing (listing.rs).    *)
(* Both take shared repositories and make their lookups and their insert   *)
(* in calls of their own, without a lock or a transaction around them, so  *)
(* the steps of one caller interleave with those of the others and with    *)
(* patches, retirements and deletions.  No storage engine implements the   *)
(* two repositories yet: they are the traits of those files over maps.     *)
(***************************************************************************)
EXTENDS Naturals, FiniteSets

CONSTANTS
  Callers,     (* threads that register venues and listings                 *)
  Securities, Venues, Mics, Listings, Symbols,
  None,        (* an absent Option                                          *)
  Drafts       (* the listings that callers build                           *)

ASSUME CallersAssumption == IsFiniteSet(Callers)
ASSUME NoneAssumption == None \notin Venues \union Listings

(* The lookups tell an active listing from the others and a primary one    *)
(* from the others.                                                        *)
Listing == [ security : Securities, venue : Venues, symbol : Symbols,
             primary : BOOLEAN, active : BOOLEAN ]
Venue == [mic : Mics, active : BOOLEAN]
ASSUME DraftsAssumption == Drafts \subseteq Listing

VARIABLES
  securities,  (* the ids in the security table                             *)
  venues,      (* stored venues: id -> Venue                                *)
  listings,    (* stored listings: id -> Listing                            *)
  stage,       (* the next step of each caller                              *)
  subject,     (* the id of the venue or listing it registers               *)
  input,       (* that venue's MIC, or that listing                         *)
  since        (* the rows a lookup of its registration was about that have *)
               (* been written since that lookup (history)                  *)

vars == <<securities, venues, listings, stage, subject, input, since>>
tables == <<securities, venues, listings>>

ListingStages == {"security", "venue", "ticker", "pair", "primary", "insert_listing"}
VenueStages == {"mic", "insert_venue"}

(* The stages that a listing's registration reaches after each lookup.     *)
After ==
  [ security |-> {"venue", "ticker", "pair", "primary", "insert_listing"},
    venue |-> {"ticker", "pair", "primary", "insert_listing"},
    ticker |-> {"pair", "primary", "insert_listing"},
    pair |-> {"primary", "insert_listing"},
    primary |-> {"insert_listing"} ]
Lookups == DOMAIN After
NothingSince == [r \in Lookups |-> {}]

(* The rows that a lookup of a listing's registration is about.            *)
About(r, l) ==
  IF r = "security" THEN {l.security} ELSE IF r = "venue" THEN {l.venue} ELSE Listings

TypeOK ==
  /\ securities \subseteq Securities
  /\ DOMAIN venues \subseteq Venues
  /\ \A v \in DOMAIN venues : venues[v] \in Venue
  /\ DOMAIN listings \subseteq Listings
  /\ \A l \in DOMAIN listings : listings[l] \in Listing
  /\ stage \in [Callers -> ListingStages \union VenueStages \union {"idle"}]
  /\ \A c \in Callers : /\ stage[c] \in ListingStages => subject[c] \in Listings /\ input[c] \in Drafts
                        /\ stage[c] \in VenueStages => subject[c] \in Venues /\ input[c] \in Mics
                        /\ stage[c] \notin ListingStages => since[c] = NothingSince
  /\ since \in [Callers -> [Lookups -> SUBSET (Securities \union Venues \union Listings)]]

Init ==
  /\ securities = {}
  /\ venues = [v \in {} |-> None]
  /\ listings = [l \in {} |-> None]
  /\ stage = [c \in Callers |-> "idle"]
  /\ subject = [c \in Callers |-> None]
  /\ input = [c \in Callers |-> None]
  /\ since = [c \in Callers |-> NothingSince]

(* f with i mapped to x. *)
With(f, i, x) == [j \in DOMAIN f \union {i} |-> IF j = i THEN x ELSE f[j]]

(* f without i. *)
Without(f, i) == [j \in DOMAIN f \ {i} |-> f[j]]

(* since once row i has been written. *)
SinceWrite(i) ==
  [c \in Callers |-> [r \in Lookups |->
     IF stage[c] \in After[r] /\ i \in About(r, input[c]) THEN since[c][r] \union {i}
                                                          ELSE since[c][r]]]

(* An id is a fresh UUIDv7. *)
Fresh(id) == id \notin DOMAIN venues \union DOMAIN listings /\ \A c \in Callers : subject[c] # id

Begin(c, first, id, x) ==
  /\ stage[c] = "idle"
  /\ Fresh(id)
  /\ stage' = [stage EXCEPT ![c] = first]
  /\ subject' = [subject EXCEPT ![c] = id]
  /\ input' = [input EXCEPT ![c] = x]
  /\ UNCHANGED <<tables, since>>

(* The registration has succeeded or is refused; which of the errors of    *)
(* RegisterVenueError and RegisterListingError it returns is left out.     *)
Return(c, history) ==
  /\ stage' = [stage EXCEPT ![c] = "idle"]
  /\ subject' = [subject EXCEPT ![c] = None]
  /\ input' = [input EXCEPT ![c] = None]
  /\ since' = [history EXCEPT ![c] = NothingSince]

(* One lookup: the registration goes on, or is refused. *)
Lookup(c, here, passes, next) ==
  /\ stage[c] = here
  /\ IF passes
     THEN /\ stage' = [stage EXCEPT ![c] = next]
          /\ UNCHANGED <<subject, input, since>>
     ELSE Return(c, since)
  /\ UNCHANGED tables

-----------------------------------------------------------------------------
(* register_venue.  VenueBuilder::build cannot fail. *)
RegisterVenue(c, v, mic) == Begin(c, "mic", v, mic)

(* Seeded bug: a retired venue's MIC is taken to be free. *)
ExistsActiveByMic(mic) == \E v \in DOMAIN venues : venues[v].active /\ venues[v].mic = mic

ExistsByMic(mic) == \E v \in DOMAIN venues : venues[v].mic = mic
CheckMic(c) == Lookup(c, "mic", ~ExistsByMic(input[c]), "insert_venue")

(* The venue's status is what its builder was told.                        *)
InsertVenue(c) ==
  /\ stage[c] = "insert_venue"
  /\ \E active \in BOOLEAN :
       venues' = With(venues, subject[c], [mic |-> input[c], active |-> active])
  /\ Return(c, SinceWrite(subject[c]))
  /\ UNCHANGED <<securities, listings>>

-----------------------------------------------------------------------------
(* register_listing: its five checks, in order. *)
RegisterListing(c, id, l) == Begin(c, "security", id, l)

CheckSecurity(c) ==
  Lookup(c, "security", input[c].security \in securities, "venue")

(* Seeded bug: the venue is only looked for, as the security is. *)
VenueStored(v) == v \in DOMAIN venues

VenueActive(v) == v \in DOMAIN venues /\ venues[v].active
CheckVenue(c) == Lookup(c, "venue", VenueActive(input[c].venue), "ticker")

ActiveTicker(venue, symbol) ==
  \E l \in DOMAIN listings :
    listings[l].active /\ listings[l].venue = venue /\ listings[l].symbol = symbol
CheckTicker(c) ==
  Lookup(c, "ticker", ~ActiveTicker(input[c].venue, input[c].symbol), "pair")

ActivePair(security, venue) ==
  \E l \in DOMAIN listings :
    listings[l].active /\ listings[l].security = security /\ listings[l].venue = venue
CheckPair(c) ==
  Lookup(c, "pair", ~ActivePair(input[c].security, input[c].venue), "primary")

(* Seeded bug: a primary listing is looked for on the same venue only. *)
ActivePrimaryHere(security) ==
  \E l \in DOMAIN listings :
    /\ listings[l].active /\ listings[l].primary /\ listings[l].security = security
    /\ \E c \in Callers : stage[c] = "primary" /\ input[c].venue = listings[l].venue

ActivePrimary(security) ==
  \E l \in DOMAIN listings :
    listings[l].active /\ listings[l].primary /\ listings[l].security = security
CheckPrimary(c) ==
  Lookup(c, "primary", input[c].primary => ~ActivePrimary(input[c].security),
         "insert_listing")

InsertListing(c) ==
  /\ stage[c] = "insert_listing"
  /\ listings' = With(listings, subject[c], input[c])
  /\ Return(c, SinceWrite(subject[c]))
  /\ UNCHANGED <<securities, venues>>

-----------------------------------------------------------------------------
(* The other writes are one guarded statement each; one that is refused    *)
(* for its version changes nothing.  What update of a repository writes, a *)
(* row that is built anew, has no source in the code and is left out.      *)
Write(i) == since' = SinceWrite(i) /\ UNCHANGED <<stage, subject, input>>

AddSecurity(s) ==
  /\ s \notin securities
  /\ securities' = securities \union {s}
  /\ Write(s)
  /\ UNCHANGED <<venues, listings>>

DeleteSecurity(s) ==
  /\ s \in securities
  /\ securities' = securities \ {s}
  /\ Write(s)
  /\ UNCHANGED <<venues, listings>>

(* A venue is retired or taken back into use; VenuePatch has no MIC.       *)
PatchVenue(v, active) ==
  /\ v \in DOMAIN venues
  /\ venues' = [venues EXCEPT ![v].active = active]
  /\ Write(v)
  /\ UNCHANGED <<securities, listings>>

DeleteVenue(v) ==
  /\ v \in DOMAIN venues
  /\ venues' = Without(venues, v)
  /\ Write(v)
  /\ UNCHANGED <<securities, listings>>

(* ListingPatch is applied as it comes: its builder validates nothing and  *)
(* no service looks anything up.                                           *)
PatchListing(id, symbol, primary, active) ==
  /\ id \in DOMAIN listings
  /\ listings' = [listings EXCEPT ![id].symbol = symbol, ![id].primary = primary,
                                  ![id].active = active]
  /\ Write(id)
  /\ UNCHANGED <<securities, venues>>

DeleteListing(id) ==
  /\ id \in DOMAIN listings
  /\ listings' = Without(listings, id)
  /\ Write(id)
  /\ UNCHANGED <<securities, venues>>

(* A lookup or the insert meets a storage fault, a constraint included     *)
(* that an engine may put on its tables.                                   *)
Fault(c) ==
  /\ stage[c] # "idle"
  /\ Return(c, since)
  /\ UNCHANGED tables

Next ==
  \/ \E c \in Callers :
       \/ \E v \in Venues, mic \in Mics : RegisterVenue(c, v, mic)
       \/ CheckMic(c) \/ InsertVenue(c)
       \/ \E id \in Listings, l \in Drafts : RegisterListing(c, id, l)
       \/ CheckSecurity(c) \/ CheckVenue(c) \/ CheckTicker(c) \/ CheckPair(c)
       \/ CheckPrimary(c) \/ InsertListing(c) \/ Fault(c)
  \/ \E s \in Securities : AddSecurity(s) \/ DeleteSecurity(s)
  \/ \E v \in Venues : DeleteVenue(v) \/ \E active \in BOOLEAN : PatchVenue(v, active)
  \/ \E id \in Listings :
       \/ DeleteListing(id)
       \/ \E symbol \in Symbols, primary, active \in BOOLEAN :
            PatchListing(id, symbol, primary, active)

Spec == Init /\ [][Next]_vars

-----------------------------------------------------------------------------
Bearers(mic) == { v \in DOMAIN venues : venues[v].mic = mic }
Racers(mic) == { c \in Callers : stage[c] = "insert_venue" /\ input[c] = mic }

(* A MIC names at most as many venues as there are callers that register   *)
(* venues at the same time: those that share one have raced each other     *)
(* between exists_by_mic and insert, and nobody joins them later, whatever *)
(* is retired or deleted.  With one caller find_by_mic has one answer.     *)
MicSharedByRacersOnly ==
  \A mic \in Mics : Cardinality(Bearers(mic)) <= Cardinality(Callers)

Inserts(c) == subject[c] \notin DOMAIN listings /\ subject[c] \in DOMAIN listings'

(* A listing is registered for a security that exists and on a venue that  *)
(* is active; if not, then the very row has been written after its lookup  *)
(* by register_listing found it so.                                        *)
ListedWhereOpenWhenLookedUp ==
  [][\A c \in Callers : Inserts(c) =>
       LET l == listings'[subject[c]] IN
       /\ l.security \in securities \union since[c]["security"]
       /\ \/ l.venue \in DOMAIN venues /\ venues[l.venue].active
          \/ l.venue \in since[c]["venue"]]_vars

(* The market rules of register_listing's comment, for active listings:    *)
(* one per ticker of a venue, one per security on a venue, one primary per *)
(* security.                                                               *)
Clash(r, k, l) ==
  /\ k.active
  /\ \/ r = "ticker" /\ k.venue = l.venue /\ k.symbol = l.symbol
     \/ r = "pair" /\ k.venue = l.venue /\ k.security = l.security
     \/ r = "primary" /\ k.security = l.security /\ k.primary /\ l.primary

(* A registration makes no two listings clash, but with a listing that has *)
(* been inserted or patched since the lookup for that very rule.           *)
ClashesOnlyInBetween ==
  [][\A c \in Callers : Inserts(c) =>
       \A k \in DOMAIN listings, r \in {"ticker", "pair", "primary"} :
         Clash(r, listings[k], listings'[subject[c]]) => k \in since[c][r]]_vars

(* "Retiring a venue here means we stop accepting listings on it"          *)
(* (venue.rs:98-99): no listing is added on a venue that is retired.       *)
RetiredVenueTakesNoListing ==
  [][\A id \in Listings : id \notin DOMAIN listings /\ id \in DOMAIN listings' =>
       LET v == listings'[id].venue IN v \in DOMAIN venues => venues[v].active]_vars

=============================================================================
