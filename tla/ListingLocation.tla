--------------------------- MODULE ListingLocation ---------------------------
(***************************************************************************)
(* Where a listing is.  Four hands write the address, the coordinates and  *)
(* the distances of a row: the geocoding sweep (runGeoCordTask, every six  *)
(* hours and after a user saved their addresses), the button that looks    *)
(* the coordinates up again, the button that fetches the detail page       *)
(* again, and the user who places the listing by hand.  The first three    *)
(* read the row, wait for somebody else's service, and write what they     *)
(* then believe; a place set by hand is meant to outlast all of them.  A   *)
(* run that stores a row another run has stored before writes distances.   *)
(*                                                                         *)
(* Coordinates stand for the address the geocoder or the portal finds them *)
(* for; a user may put a row's pin anywhere.  Distances stand for the      *)
(* coordinates they were measured from; the owner of the job has an        *)
(* address to measure to.                                                  *)
(***************************************************************************)
EXTENDS FiniteSets

CONSTANTS
  Listing,
  Address,
  NoPlace,       \* -1/-1: looked, found nothing
  None           \* NULL, or no answer

ASSUME LocationAssumption ==
  /\ NoPlace \notin Address
  /\ None \notin Address \cup {NoPlace}

VARIABLES
  stored,        \* "absent", "listed", or "out": hidden or inactive
  address,
  coords,        \* latitude, longitude
  manual,        \* rows with address_is_manual = 1
  distances,     \* the coordinates listings.distances was computed from
  sweep,         \* per row in the sweep's list, the address it was read with
  lookup,        \* per row looked up again, the place about to be answered
  details,       \* per row whose page is fetched again, the row as read
  twice,         \* rows a second run has found new and is still to store
  early,         \* per hand, the rows in it that were placed by hand since
  adrift         \* rows moved by an answer that came too late, or measured
                 \* from where a second run found them

row == <<stored, address, coords, manual, distances>>
hands == <<sweep, lookup, details, twice>>
seen == <<early, adrift>>
vars == <<row, hands, seen>>

Place == Address \cup {NoPlace}
Hand == {"sweep", "lookup", "details"}
Unread == [address |-> None, manual |-> FALSE, busy |-> FALSE]

TypeOK ==
  /\ stored \in [Listing -> {"absent", "listed", "out"}]
  /\ address \in [Listing -> Address \cup {None}]
  /\ coords \in [Listing -> Place \cup {None}]
  /\ manual \subseteq Listing
  /\ distances \in [Listing -> Place \cup {None}]
  /\ sweep \in [Listing -> Address \cup {None}]
  /\ lookup \in [Listing -> Address \cup {None}]
  /\ details \in [Listing -> [address : Address \cup {None}, manual : BOOLEAN, busy : BOOLEAN]]
  /\ twice \subseteq Listing
  /\ early \in [Hand -> SUBSET Listing]
  /\ adrift \subseteq Listing
  /\ \A l \in Listing : stored[l] = "absent" =>
       address[l] = None /\ coords[l] = None /\ l \notin manual /\ distances[l] = None

Init ==
  /\ stored = [l \in Listing |-> "absent"]
  /\ address = [l \in Listing |-> None]
  /\ coords = [l \in Listing |-> None]
  /\ manual = {}
  /\ distances = [l \in Listing |-> None]
  /\ sweep = [l \in Listing |-> None]
  /\ lookup = [l \in Listing |-> None]
  /\ details = [l \in Listing |-> Unread]
  /\ twice = {}
  /\ early = [h \in Hand |-> {}]
  /\ adrift = {}

-----------------------------------------------------------------------------
(* getListingsToGeocode's WHERE.                                            *)
ToGeocode(l) ==
  stored[l] = "listed" /\ address[l] # None /\ l \notin manual /\ coords[l] = None

(* getGeocoordinatesByAddress: the places other rows, or the row itself,    *)
(* have for this address, whoever put them there.                           *)
Known(a) ==
  {coords[m] : m \in {n \in Listing : stored[n] # "absent" /\ address[n] = a}} \cap Address

(* geocodeAddress asked about l at a.  Whether a row answers for another    *)
(* depends on its provider's countries and on its being hidden, and is left *)
(* open; a listed row that is l itself does.                                *)
Answers(l, a) ==
  IF stored[l] = "listed" /\ address[l] = a /\ coords[l] \in Address
  THEN Known(a) ELSE Known(a) \cup {a, NoPlace, None}

(* calculateDistanceForJob, for every job: the located rows without any.    *)
Filled(c) ==
  [l \in Listing |-> IF stored[l] = "listed" /\ c[l] # None /\ distances[l] = None
                     THEN c[l] ELSE distances[l]]

(* runGeoCordTask up to its first await: nothing happens while a sweep is   *)
(* under way; with nothing to look up it is done after the distances.       *)
StartSweep ==
  /\ \A l \in Listing : sweep[l] = None
  /\ sweep' = [l \in Listing |-> IF ToGeocode(l) THEN address[l] ELSE None]
  /\ distances' = IF \E l \in Listing : ToGeocode(l) THEN distances ELSE Filled(coords)
  /\ UNCHANGED <<stored, address, coords, manual, lookup, details, twice, seen>>

(* A bug: that there is no such place is not worth storing.                 *)
SweepKeepsPlaces(l, answer, refused) ==
  LET moved == answer \in Address /\ stored[l] # "absent"
      rest == IF refused THEN [m \in Listing |-> None] ELSE [sweep EXCEPT ![l] = None]
  IN  /\ sweep[l] # None
      /\ answer \in Known(sweep[l]) \cup {sweep[l], NoPlace, None}
      /\ sweep' = rest
      /\ coords' = IF moved THEN [coords EXCEPT ![l] = answer] ELSE coords
      /\ distances' = IF \A m \in Listing : rest[m] = None THEN Filled(coords') ELSE distances
      /\ early' = [early EXCEPT !["sweep"] = {m \in @ : rest[m] # None}]
      /\ adrift' = IF moved /\ distances[l] \notin {answer, None} THEN adrift \cup {l} ELSE adrift
      /\ UNCHANGED <<stored, address, manual, lookup, details, twice>>

(* The answer for the address the sweep read: a place, none, or nothing at  *)
(* all; the rows may have learned or lost it since its turn came.  When     *)
(* the geocoder refuses to go on the rest of the list is left.              *)
SweepAnswer(l, answer, refused) ==
  LET moved == answer # None /\ stored[l] # "absent"
      rest == IF refused THEN [m \in Listing |-> None] ELSE [sweep EXCEPT ![l] = None]
  IN  /\ sweep[l] # None
      /\ answer \in Known(sweep[l]) \cup {sweep[l], NoPlace, None}
      /\ sweep' = rest
      /\ coords' = IF moved THEN [coords EXCEPT ![l] = answer] ELSE coords
      /\ distances' = IF \A m \in Listing : rest[m] = None THEN Filled(coords') ELSE distances
      /\ early' = [early EXCEPT !["sweep"] = {m \in @ : rest[m] # None}]
      /\ adrift' = IF moved /\ distances[l] \notin {answer, None} THEN adrift \cup {l} ELSE adrift
      /\ UNCHANGED <<stored, address, manual, lookup, details, twice>>

Asked(l) == \E answer \in Place \cup {None}, refused \in BOOLEAN : SweepAnswer(l, answer, refused)
Answered(l) == \E answer \in Place : SweepAnswer(l, answer, FALSE)

-----------------------------------------------------------------------------
(* A bug: the button asks for a place set by hand too.                      *)
AskLookupAlways(l, found) ==
  /\ stored[l] # "absent" /\ address[l] # None
  /\ lookup[l] = None
  /\ found \in Answers(l, address[l]) \cap Address
  /\ lookup' = [lookup EXCEPT ![l] = found]
  /\ UNCHANGED <<row, sweep, details, twice, seen>>

(* The geocode route, up to the geocoder; found is the place the rows or    *)
(* the geocoder will give, and a request that ends without one writes       *)
(* nothing.  One request per row at a time is a bound of the model.         *)
AskLookup(l, found) ==
  /\ stored[l] # "absent" /\ address[l] # None /\ l \notin manual
  /\ lookup[l] = None
  /\ found \in Answers(l, address[l]) \cap Address
  /\ lookup' = [lookup EXCEPT ![l] = found]
  /\ UNCHANGED <<row, sweep, details, twice, seen>>

(* A bug: the distances are left to the sweep.                              *)
LookupAnswerOnly(l) ==
  /\ lookup[l] # None
  /\ lookup' = [lookup EXCEPT ![l] = None]
  /\ coords' = IF stored[l] # "absent" THEN [coords EXCEPT ![l] = lookup[l]] ELSE coords
  /\ early' = [early EXCEPT !["lookup"] = @ \ {l}]
  /\ UNCHANGED <<stored, address, manual, distances, sweep, details, twice, adrift>>

(* The place is written, and then the distances from it.                    *)
LookupAnswer(l) ==
  LET at(f) == IF stored[l] # "absent" THEN [f EXCEPT ![l] = lookup[l]] ELSE f
  IN  /\ lookup[l] # None
      /\ lookup' = [lookup EXCEPT ![l] = None]
      /\ coords' = at(coords)
      /\ distances' = at(distances)
      /\ early' = [early EXCEPT !["lookup"] = @ \ {l}]
      /\ adrift' = adrift \ {l}
      /\ UNCHANGED <<stored, address, manual, sweep, details, twice>>

(* refetchListingDetailsOnce: a second one for the row is turned away.      *)
AskDetails(l) ==
  /\ stored[l] # "absent"
  /\ ~details[l].busy
  /\ details' = [details EXCEPT ![l] = [address |-> address[l], manual |-> l \in manual, busy |-> TRUE]]
  /\ UNCHANGED <<row, sweep, lookup, twice, seen>>

(* The page carries an address, or the fetch failed; it is written when it  *)
(* differs from the one that was read and that one was not set by hand.     *)
DetailsArrive(l, found) ==
  /\ details[l].busy
  /\ details' = [details EXCEPT ![l] = Unread]
  /\ address' = IF /\ found \notin {None, details[l].address}
                   /\ ~details[l].manual /\ stored[l] # "absent"
                THEN [address EXCEPT ![l] = found] ELSE address
  /\ early' = [early EXCEPT !["details"] = @ \ {l}]
  /\ UNCHANGED <<stored, coords, manual, distances, sweep, lookup, twice, adrift>>

(* Who has read the row and not yet written.                                *)
HandsOn(l) ==
  {h \in Hand : \/ h = "sweep" /\ sweep[l] # None
                \/ h = "lookup" /\ lookup[l] # None
                \/ h = "details" /\ details[l].busy}

(* setListingAddress.                                                       *)
SetListingAddress(l, a, p) ==
  /\ stored[l] # "absent"
  /\ address' = [address EXCEPT ![l] = a]
  /\ coords' = [coords EXCEPT ![l] = p]
  /\ manual' = manual \cup {l}
  /\ adrift' = adrift \ {l}

(* The address route: the row, then its distances.                          *)
PlaceByHand(l, a, p) ==
  /\ SetListingAddress(l, a, p)
  /\ distances' = [distances EXCEPT ![l] = p]
  /\ early' = [h \in Hand |-> IF h \in HandsOn(l) THEN early[h] \cup {l} ELSE early[h]]
  /\ UNCHANGED <<stored, hands>>

-----------------------------------------------------------------------------
(* A job run stores the advert with the place p of the portal, the rows or  *)
(* the geocoder, if any had one, and then the distances from there.         *)
(* Another run, of the job or of the user's link, may have found it new     *)
(* too; one such run is a bound of the model.                               *)
Insert(l, a, p, more) ==
  /\ stored[l] = "absent"
  /\ a # None => p \in Known(a) \cup {a, None}
  /\ stored' = [stored EXCEPT ![l] = "listed"]
  /\ address' = [address EXCEPT ![l] = a]
  /\ coords' = [coords EXCEPT ![l] = p]
  /\ distances' = [distances EXCEPT ![l] = p]
  /\ twice' = IF more THEN twice \cup {l} ELSE twice
  /\ UNCHANGED <<manual, sweep, lookup, details, seen>>

(* The other run meets the row: address and coordinates stay the row's,     *)
(* and the distances are written from the place p the run found it at.      *)
InsertAgain(l, p) ==
  /\ l \in twice
  /\ twice' = twice \ {l}
  /\ distances' = IF p # None THEN [distances EXCEPT ![l] = p] ELSE distances
  /\ adrift' = IF p = None THEN adrift ELSE IF p = coords[l] THEN adrift \ {l} ELSE adrift \cup {l}
  /\ UNCHANGED <<stored, address, coords, manual, sweep, lookup, details, early>>

(* Soft delete or deactivation, and the way back.                           *)
TakeOut(l) ==
  /\ stored[l] = "listed"
  /\ stored' = [stored EXCEPT ![l] = "out"]
  /\ UNCHANGED <<address, coords, manual, distances, hands, seen>>

PutBack(l) ==
  /\ stored[l] = "out"
  /\ stored' = [stored EXCEPT ![l] = "listed"]
  /\ UNCHANGED <<address, coords, manual, distances, hands, seen>>

(* The row goes; an answer for its id finds nothing to write to, so it is   *)
(* dropped here.                                                            *)
Delete(l) ==
  /\ stored[l] # "absent"
  /\ stored' = [stored EXCEPT ![l] = "absent"]
  /\ address' = [address EXCEPT ![l] = None]
  /\ coords' = [coords EXCEPT ![l] = None]
  /\ manual' = manual \ {l}
  /\ distances' = [distances EXCEPT ![l] = None]
  /\ sweep' = [sweep EXCEPT ![l] = None]
  /\ lookup' = [lookup EXCEPT ![l] = None]
  /\ details' = [details EXCEPT ![l] = Unread]
  /\ twice' = twice \ {l}
  /\ early' = [h \in Hand |-> early[h] \ {l}]
  /\ adrift' = adrift \ {l}

(* updateDistancesForAddressChange: the owner's addresses changed.          *)
SaveAddresses ==
  LET measured == {l \in Listing : stored[l] = "listed" /\ coords[l] # None}
  IN  /\ distances' = [l \in Listing |-> IF l \in measured THEN coords[l] ELSE distances[l]]
      /\ adrift' = adrift \ measured
      /\ UNCHANGED <<stored, address, coords, manual, hands, early>>

(* The process is killed and starts over.                                   *)
LoseHands ==
  /\ sweep' = [l \in Listing |-> None]
  /\ lookup' = [l \in Listing |-> None]
  /\ details' = [l \in Listing |-> Unread]
  /\ twice' = {}
  /\ early' = [h \in Hand |-> {}]

Restart == LoseHands /\ UNCHANGED <<row, adrift>>

(* Killed between the coordinates and the distances, which are two          *)
(* statements: setListingAddress has cleared them, a lookup has not.        *)
PlaceTorn(l, a, p) ==
  /\ SetListingAddress(l, a, p)
  /\ distances' = [distances EXCEPT ![l] = None]
  /\ LoseHands
  /\ UNCHANGED stored

LookupTorn(l) ==
  /\ lookup[l] # None
  /\ coords' = [coords EXCEPT ![l] = lookup[l]]
  /\ adrift' = IF distances[l] \notin {lookup[l], None} THEN adrift \cup {l} ELSE adrift
  /\ LoseHands
  /\ UNCHANGED <<stored, address, manual, distances>>

-----------------------------------------------------------------------------
ServiceStep ==
  \/ StartSweep
  \/ \E l \in Listing : Asked(l) \/ LookupAnswer(l) \/ LookupTorn(l)
  \/ \E l \in Listing, found \in Address \cup {None} : DetailsArrive(l, found)

UserStep ==
  \/ \E l \in Listing, found \in Address : AskLookup(l, found)
  \/ \E l \in Listing : AskDetails(l) \/ TakeOut(l) \/ PutBack(l) \/ Delete(l)
  \/ \E l \in Listing, a, p \in Address : PlaceByHand(l, a, p) \/ PlaceTorn(l, a, p)
  \/ \E l \in Listing, a, p \in Address \cup {None}, more \in BOOLEAN : Insert(l, a, p, more)
  \/ \E l \in Listing, p \in Address \cup {None} : InsertAgain(l, p)
  \/ SaveAddresses

Next == ServiceStep \/ UserStep \/ Restart

Spec == Init /\ [][Next]_vars

(* The cron fires; the geocoder's client gives up after a minute; asked     *)
(* about a row again and again, it answers now and then.                    *)
FairSpec ==
  /\ Spec
  /\ WF_vars(StartSweep)
  /\ \A l \in Listing : WF_vars(Asked(l)) /\ SF_vars(Answered(l))

-----------------------------------------------------------------------------
(***************************************************************************)
(* Properties                                                              *)
(***************************************************************************)

(* The step leaves the place set by hand for l alone, or the user sets it   *)
(* again.                                                                   *)
Placed(l) == \E a, p \in Address : PlaceByHand(l, a, p) \/ PlaceTorn(l, a, p)
KeepsPin(l) == coords'[l] = coords[l] \/ Placed(l)
KeepsAddress(l) == address'[l] = address[l] \/ Placed(l)
Pinned(l) == l \in manual /\ stored'[l] # "absent"

(* What the user placed stands against every question asked afterwards,     *)
(* however the sweep, the two buttons, deletes and kills overtake each      *)
(* other: only a hand that had read the row before can still move it.       *)
PinStands ==
  \A l \in Listing : Pinned(l) =>
    /\ KeepsPin(l) \/ l \in early["sweep"] \cup early["lookup"]
    /\ KeepsAddress(l) \/ l \in early["details"]

(* The distances a listing shows were measured from where it is, unless a   *)
(* late answer of the sweep, or a kill between two statements, moved it     *)
(* afterwards, or a second run that had found it new measured it from       *)
(* elsewhere.                                                               *)
DistancesFromHere ==
  \A l \in Listing \ adrift : distances[l] # None => distances[l] = coords[l]

(* A row without a place is asked about until there is an answer, unless    *)
(* the process keeps being killed during the sweep.                         *)
KilledSweeping == (\E l \in Listing : sweep[l] # None) /\ LoseHands
EveryRowIsAskedAbout ==
  \/ []<><<KilledSweeping>>_vars
  \/ \A l \in Listing : ToGeocode(l) ~> ~ToGeocode(l)
=============================================================================
