---------------------------- MODULE TravelTimes ----------------------------
(***************************************************************************)
(* How long it takes from one listing to the addresses of the job's owner. *)
(* Three kinds of hand store the journeys and say that the listing is done *)
(* for the next month: the sweep, a run that found the listing (the job's, *)
(* or the add by its URL), and the page that shows it.  Each reads where   *)
(* the listing is and what the owner wants, waits for the routing          *)
(* services, and then replaces all journeys by what it believes.           *)
(* Meanwhile the listing may be placed elsewhere, the owner may save other *)
(* addresses, and the services may be out.                                 *)
(*                                                                         *)
(* An origin stands for an address, its mode and its departure, as far as  *)
(* a stored journey is compared with them: Rail is reached with the stops  *)
(* within reach, looked up once per run; Road with a street routing per    *)
(* listing; Nearby is a kind of place, searched for around the listing (a  *)
(* departure that no longer matches makes its journey old, not another).   *)
(***************************************************************************)
EXTENDS Naturals, FiniteSets

CONSTANTS
  Label,          \* the names the owner gives the addresses
  Rail, Road, Nearby,
  Books,          \* the lists of addresses the owner saves
  Spot,           \* places a listing can be at
  NoPlace,        \* -1/-1: looked, found nothing
  None,
  Run,            \* the runs that may find the listing at the same time
  Limit,          \* TRAVEL_TIME_FAILURE_LIMIT
  MaxBusy,        \* hands under way at a time,
  MaxEvents       \* moves of the listing, stores over its row and events of
                  \* the addresses: bounds of the model

Origin == Rail \cup Road \cup Nearby

(* A stored journey: what it claims to start from, the place it was         *)
(* measured from, whether it has a duration, whether it is recent enough.   *)
Journey == [origin : Origin, from : Spot, time : BOOLEAN, fresh : BOOLEAN]

ASSUME TravelAssumption ==
  /\ Limit \in Nat \ {0}
  /\ MaxBusy \in Nat /\ MaxEvents \in Nat
  /\ Books \subseteq [Label -> Origin \cup {None}]
  /\ NoPlace \notin Spot
  /\ None \notin Spot \cup {NoPlace} \cup Origin \cup Journey
  /\ "absent" \notin Spot \cup {NoPlace, None}
  /\ Run \cap {"sweep", "page"} = {}

VARIABLES
  coords,         \* the listing's place, or "absent" when there is no row
  out,            \* hidden by the user or no longer online
  wanted,         \* the owner's addresses
  rows,           \* listing_travel_times
  stamp,          \* travel_times_at: "never", "fresh", "stale"
  failures,       \* travel_times_failures, up to Limit
  hand,           \* what each hand has read, or is about to write
  events,
  unasked,        \* labels with no answer, of a listing that is done: an outage, or switched off
  late,           \* the journeys of a hand that had read other addresses, or that was
                  \* not done while another was, or of a row no edit makes due again
  adrift          \* the journeys may start where the listing was, or where a run
                  \* found it whose row another run had stored

stored == <<rows, stamp, failures>>
history == <<unasked, late, adrift>>
vars == <<coords, out, wanted, stored, hand, events, history>>

Hand == {"sweep", "page"} \cup Run
Rows == [Label -> Journey \cup {None}]
NoRows == [x \in Label |-> None]

(* What a hand is about to write.                                           *)
Verdict == {"nothing", "failure", "more", "done"}
Plan == [rows : Rows, verdict : Verdict, unasked : SUBSET Label]
NoPlan == [rows |-> NoRows, verdict |-> "nothing", unasked |-> {}]

Idle == [at |-> "idle", coords |-> None, wanted |-> [x \in Label |-> None],
         silent |-> {}, plan |-> NoPlan, since |-> {}]

TypeOK ==
  /\ coords \in Spot \cup {NoPlace, None, "absent"}
  /\ out \in BOOLEAN
  /\ wanted \in Books
  /\ rows \in Rows
  /\ stamp \in {"never", "fresh", "stale"}
  /\ failures \in 0 .. Limit
  /\ hand \in [Hand -> [at : {"idle", "found", "new", "asked", "waits"},
                        coords : Spot \cup {NoPlace, None},
                        wanted : [Label -> Origin \cup {None}],
                        silent : SUBSET Rail,
                        plan : Plan,
                        since : SUBSET {"moved", "edited", "written"}]]
  /\ events \in 0 .. MaxEvents
  /\ unasked \subseteq Label
  /\ late \in BOOLEAN /\ adrift \in BOOLEAN

Init ==
  /\ coords = "absent"
  /\ out = FALSE
  /\ wanted \in Books
  /\ rows = NoRows
  /\ stamp = "never"
  /\ failures = 0
  /\ hand = [h \in Hand |-> Idle]
  /\ events = 0
  /\ unasked = {}
  /\ late = FALSE
  /\ adrift = FALSE

(* What the hands under way do not know of.                                 *)
Told(hands, event) ==
  [h \in Hand |-> IF \/ hands[h].at \in {"idle", "found"}
                     \/ hands[h].at = "new" /\ event # "moved"
                     \/ hands[h].at = "asked" /\ event = "written"
                  THEN hands[h]
                  ELSE [hands[h] EXCEPT !.since = @ \cup {event}]]
OneMore == events < MaxEvents /\ events' = events + 1
Busy == Cardinality({h \in Hand : hand[h].at # "idle"})

-----------------------------------------------------------------------------
(* isLocated.                                                               *)
Located(c) == c \in Spot

(* getListingsDueForTravelTimes, for the listing.                           *)
Due == Located(coords) /\ ~out /\ stamp # "fresh" /\ failures < Limit

Chosen(w) == {x \in Label : w[x] # None}

(* stillValid.  Where the listing was is not asked.                         *)
StillValid(row, o) == row # None /\ row.origin = o /\ row.fresh

(* A bug: a journey that found no way is asked for again.                   *)
KeepsReached(p, x) == StillValid(rows[x], p.wanted[x]) /\ rows[x].time

(* What updateListing and updatePlaceTypes look at first.                   *)
Keeps(p, x) == StillValid(rows[x], p.wanted[x])

(* One address of one listing in updateListing and updatePlaceTypes: what   *)
(* is stored for it, what that says, and whether somebody was waited for.   *)
Outcome == [row : Journey \cup {None},
            said : {"answered", "no way", "unavailable", "deferred", "off"},
            waited : BOOLEAN]

Outcomes(p, x) ==
  LET o == p.wanted[x]
      keep(said) == {[row |-> rows[x], said |-> said, waited |-> FALSE]}
      measured(time, said, waited) ==
        {[row |-> [origin |-> o, from |-> p.coords, time |-> time, fresh |-> TRUE],
          said |-> said, waited |-> waited]}
      street == keep("deferred") \cup measured(TRUE, "answered", TRUE)
                \cup measured(FALSE, "no way", TRUE) \cup measured(FALSE, "unavailable", TRUE)
      places == keep("deferred") \cup measured(TRUE, "answered", TRUE)
                \cup measured(FALSE, "answered", TRUE)
                \cup {[row |-> rows[x], said |-> "unavailable", waited |-> TRUE],
                      [row |-> None, said |-> "off", waited |-> FALSE]}
      renamed == {y \in Label : StillValid(rows[y], o)}
  IN  IF Keeps(p, x) THEN keep("answered")
      ELSE IF o \in Nearby THEN places
      ELSE IF renamed # {}
      THEN {[row |-> rows[y], said |-> "answered", waited |-> FALSE] : y \in renamed}
      ELSE IF o \in Road THEN street
      ELSE IF o \in p.silent THEN keep("unavailable")
      ELSE measured(TRUE, "answered", FALSE) \cup street

(* One outcome per address: updateListing up to what it then writes.        *)
Updates(p) ==
  {u \in [Chosen(p.wanted) -> UNION {Outcomes(p, x) : x \in Chosen(p.wanted)}] :
     \A x \in Chosen(p.wanted) : u[x] \in Outcomes(p, x)}

Said(u, what) == {x \in DOMAIN u : u[x].said = what}

Unsaid(u) == Said(u, "unavailable") \cup Said(u, "off")
Nothing(u) == \A x \in DOMAIN u : u[x].row = None
Entries(u) == [x \in Label |-> IF x \in DOMAIN u THEN u[x].row ELSE None]

(* What such a verdict writes.                                              *)
Planned(verdict, u, silent) ==
  [verdict |-> verdict,
   rows |-> IF verdict \in {"more", "done"} THEN Entries(u) ELSE NoRows,
   unasked |-> IF verdict = "done" THEN silent ELSE {}]

PlanOf(u) ==
  LET some == \E x \in DOMAIN u : u[x].row # None /\ u[x].row.time
  IN  Planned(IF DOMAIN u = {} THEN "done"
              ELSE IF Said(u, "deferred") # {}
              THEN IF Nothing(u) THEN "nothing" ELSE "more"
              ELSE IF Said(u, "answered") # {} \/ some THEN "done"
              ELSE IF Said(u, "unavailable") # {} THEN "nothing" ELSE "failure",
              u, Unsaid(u))

(* saveListingTravelTimes and recordTravelTimeFailure: one transaction, the *)
(* stamp left alone when the listing is to stay due.                        *)
Write(h, plan, since) ==
  LET writes == plan.verdict \in {"more", "done"}
      left == [hand EXCEPT ![h] = Idle]
  IN  /\ rows' = IF writes THEN plan.rows ELSE rows
      /\ stamp' = IF plan.verdict \in {"done", "failure"} THEN "fresh" ELSE stamp
      /\ failures' = IF plan.verdict = "done" THEN 0
                     ELSE IF plan.verdict = "failure" /\ failures < Limit THEN failures + 1 ELSE failures
      /\ hand' = IF writes THEN Told(left, "written") ELSE left
      /\ unasked' = IF writes THEN plan.unasked ELSE unasked
      /\ late' = IF plan.verdict = "done" THEN "edited" \in since
                 ELSE IF plan.verdict = "more" THEN stamp = "fresh" ELSE late
      /\ adrift' = IF writes THEN adrift \/ "moved" \in since ELSE adrift

Asking(c, silent) ==
  [Idle EXCEPT !.at = "asked", !.coords = c, !.wanted = wanted, !.silent = silent]

(* runTravelTimeSweep, as far as this listing: it is due, and the owner's   *)
(* addresses are read.  The stops near silent ones cannot be had.           *)
StartSweep(silent) ==
  /\ hand["sweep"].at = "idle" /\ Busy < MaxBusy
  /\ Due
  /\ hand' = [hand EXCEPT !["sweep"] = Asking(coords, silent)]
  /\ UNCHANGED <<coords, out, wanted, stored, events, history>>

(* A run reaches _calculateTravelTimes with the listing as it found it;     *)
(* without an address it goes on without.                                   *)
StartJob(r, silent) ==
  /\ hand[r].at = "new"
  /\ hand' = [hand EXCEPT ![r] =
                IF Chosen(wanted) = {} THEN Idle
                ELSE [Asking(hand[r].coords, silent) EXCEPT !.since = hand[r].since]]
  /\ UNCHANGED <<coords, out, wanted, stored, events, history>>

(* Told to back off, it goes on without, too; or it dropped the listing, or *)
(* threw, before it stored it.                                              *)
JobGoesOn(r) ==
  /\ hand[r].at \in {"found", "new"}
  /\ hand' = [hand EXCEPT ![r] = Idle]
  /\ UNCHANGED <<coords, out, wanted, stored, events, history>>

(* updateListing reads what is stored; with nobody to wait for, it writes   *)
(* in the same turn.                                                        *)
Update(h, u) ==
  LET p == hand[h]
  IN  /\ p.at = "asked"
      /\ IF \E x \in DOMAIN u : u[x].waited
         THEN /\ hand' = [hand EXCEPT ![h] = [Idle EXCEPT !.at = "waits", !.plan = PlanOf(u), !.since = p.since]]
              /\ UNCHANGED <<stored, history>>
         ELSE Write(h, PlanOf(u), p.since)
      /\ UNCHANGED <<coords, out, wanted, events>>

(* The last answer is there.                                                *)
Save(h) ==
  /\ hand[h].at = "waits"
  /\ Write(h, hand[h].plan, hand[h].since)
  /\ UNCHANGED <<coords, out, wanted, events>>

(* What the page makes of a stored journey without asking for it anew: the  *)
(* estimate stays where the planner finds no connection, under the address  *)
(* as it is now; an outage leaves it, but says it is of the mode wanted     *)
(* now, which may make it another origin's; a route to the place found      *)
(* earlier leaves it about the departure of now.                            *)
Reworded(old, o) ==
  IF old = None THEN {}
  ELSE IF o \in Nearby
  THEN IF old.origin = o /\ old.time
       THEN {[row |-> [old EXCEPT !.fresh = TRUE], said |-> "answered"]} ELSE {}
  ELSE (IF old.origin = o THEN {[row |-> old, said |-> "answered"]} ELSE {})
       \cup (IF old.time
             THEN {[row |-> [old EXCEPT !.origin = o, !.fresh = TRUE], said |-> "answered"]} ELSE {})
       \cup (IF old.origin \in Nearby THEN {}
             ELSE {[row |-> [old EXCEPT !.origin = p], said |-> "unavailable"] : p \in Rail \cup Road})

(* One address in refineTravelTimesForListing.                              *)
Refinements(x) ==
  LET o == wanted[x]
      old == rows[x]
      planned(time) ==
        [row |-> [origin |-> o, from |-> coords, time |-> time, fresh |-> TRUE], said |-> "answered"]
  IN  Reworded(old, o) \cup
      IF o \in Nearby
      THEN {[row |-> old, said |-> IF old # None /\ old.origin = o THEN "answered" ELSE "deferred"]}
      ELSE {planned(TRUE), planned(FALSE), [row |-> old, said |-> "unavailable"]}

Refined(u) ==
  Planned(IF Nothing(u) THEN "nothing"
          ELSE IF Said(u, "deferred") # {} THEN "more" ELSE "done",
          u, Said(u, "unavailable"))

RefinedBy ==
  {u \in [Chosen(wanted) -> UNION {Refinements(x) : x \in Chosen(wanted)}] :
     \A x \in Chosen(wanted) : u[x] \in Refinements(x)}

(* The travel-times route, up to its first await.                           *)
OpenPage(u) ==
  /\ hand["page"].at = "idle" /\ Busy < MaxBusy
  /\ Located(coords) /\ Chosen(wanted) # {}
  /\ hand' = [hand EXCEPT !["page"] = [Idle EXCEPT !.at = "waits", !.plan = Refined(u)]]
  /\ UNCHANGED <<coords, out, wanted, stored, events, history>>

-----------------------------------------------------------------------------
(* _findNew, or existingListing: nothing is stored of the listing.          *)
Find(r) ==
  /\ hand[r].at = "idle" /\ Busy < MaxBusy
  /\ coords = "absent"
  /\ hand' = [hand EXCEPT ![r] = [Idle EXCEPT !.at = "found"]]
  /\ UNCHANGED <<coords, out, wanted, stored, events, history>>

(* _save, with the place the portal or the geocoder gave.  When another run *)
(* was faster, storeListings answers with its row and leaves its place; the *)
(* run goes on from the place it found itself.                              *)
Insert(r, c) ==
  /\ hand[r].at = "found"
  /\ coords' = IF coords = "absent" THEN c ELSE coords
  /\ IF coords = "absent" THEN UNCHANGED events ELSE OneMore
  /\ hand' = [hand EXCEPT ![r] =
       IF Located(c)
       THEN [Idle EXCEPT !.at = "new", !.coords = c,
                         !.since = IF coords \in {"absent", c} THEN {} ELSE {"moved"}]
       ELSE Idle]
  /\ UNCHANGED <<out, wanted, stored, history>>

(* A bug: the journeys are left to the sweep.                               *)
PlaceKeepsJourneys(c) ==
  /\ coords # "absent"
  /\ OneMore
  /\ coords' = c
  /\ stamp' = "never" /\ failures' = 0
  /\ hand' = Told(hand, "moved")
  /\ unasked' = {} /\ late' = FALSE /\ adrift' = FALSE
  /\ UNCHANGED <<out, wanted, rows>>

(* setListingAddress: the stamp and the journeys go with the old place.     *)
PlaceByHand(c) ==
  /\ coords # "absent"
  /\ OneMore
  /\ coords' = c
  /\ rows' = NoRows /\ stamp' = "never" /\ failures' = 0
  /\ hand' = Told(hand, "moved")
  /\ unasked' = {} /\ late' = FALSE /\ adrift' = FALSE
  /\ UNCHANGED <<out, wanted>>

(* updateListingGeocoordinates, by the geocoding sweep or the button; the   *)
(* journeys stay.                                                           *)
LookUp(c) ==
  /\ coords # "absent" /\ c # coords
  /\ OneMore
  /\ coords' = c
  /\ hand' = Told(hand, "moved")
  /\ adrift' = (adrift \/ rows # NoRows)
  /\ UNCHANGED <<out, wanted, stored, unasked, late>>

(* The route that saves the addresses, and updateDistancesForAddressChange: *)
(* what is listed and has coordinates is due again.                         *)
EditAddresses(w) ==
  /\ w # wanted
  /\ wanted' = w
  /\ OneMore
  /\ IF coords \notin {"absent", None} /\ ~out
     THEN stamp' = "never" /\ failures' = 0 /\ unasked' = {} /\ late' = FALSE
     ELSE late' = (late \/ coords # "absent") /\ UNCHANGED <<stamp, failures, unasked>>
  /\ hand' = Told(hand, "edited")
  /\ UNCHANGED <<coords, out, rows, adrift>>

(* Hidden or offline, and back.                                             *)
TakeOut == coords # "absent" /\ ~out /\ out' = TRUE /\ UNCHANGED <<coords, wanted, stored, hand, events, history>>
PutBack == out /\ out' = FALSE /\ UNCHANGED <<coords, wanted, stored, hand, events, history>>

(* The row goes and its journeys with it; what the hands still find for its *)
(* id cannot be stored, so it is dropped here.  A run that has not stored   *)
(* it yet still will.                                                       *)
Delete ==
  /\ coords # "absent"
  /\ coords' = "absent" /\ out' = FALSE
  /\ rows' = NoRows /\ stamp' = "never" /\ failures' = 0
  /\ hand' = [h \in Hand |-> IF hand[h].at = "found" THEN hand[h] ELSE Idle]
  /\ unasked' = {} /\ late' = FALSE /\ adrift' = FALSE
  /\ UNCHANGED <<wanted, events>>

(* The refresh window passes: every journey is too old, and the stamp, too, *)
(* unless it is from a later day.  Hands take minutes: none is under way.   *)
Age(younger) ==
  /\ \A h \in Hand : hand[h].at = "idle"
  /\ rows' = [x \in Label |-> IF rows[x] = None THEN None ELSE [rows[x] EXCEPT !.fresh = FALSE]]
  /\ IF stamp = "fresh" /\ ~younger
     THEN stamp' = "stale" /\ unasked' = {} /\ late' = FALSE
     ELSE UNCHANGED <<stamp, unasked, late>>
  /\ UNCHANGED <<coords, out, wanted, failures, hand, events, adrift>>

(* The process is killed and starts over.                                   *)
Restart ==
  /\ \E h \in Hand : hand[h].at # "idle"
  /\ hand' = [h \in Hand |-> Idle]
  /\ UNCHANGED <<coords, out, wanted, stored, events, history>>

-----------------------------------------------------------------------------
Sweep == \E silent \in SUBSET Rail : StartSweep(silent)
Updated(h) == \E u \in Updates(hand[h]) : Update(h, u)

Refinement == \E u \in RefinedBy : OpenPage(u)

ServiceStep ==
  \/ Sweep
  \/ \E r \in Run : JobGoesOn(r) \/ \E silent \in SUBSET Rail : StartJob(r, silent)
  \/ \E h \in {"sweep"} \cup Run : Updated(h)
  \/ \E h \in Hand : Save(h)
  \/ Refinement

UserStep ==
  \/ \E r \in Run : Find(r) \/ \E c \in Spot \cup {NoPlace, None} : Insert(r, c)
  \/ \E c \in Spot : PlaceByHand(c) \/ LookUp(c)
  \/ \E w \in Books : EditAddresses(w)
  \/ TakeOut \/ PutBack \/ Delete

Next == ServiceStep \/ UserStep \/ (\E younger \in BOOLEAN : Age(younger)) \/ Restart

Spec == Init /\ [][Next]_vars

-----------------------------------------------------------------------------
(***************************************************************************)
(* Properties                                                              *)
(***************************************************************************)

(* Every journey starts where the listing is, unless it was looked up       *)
(* again, or a hand that had read where it was wrote late, or a run that    *)
(* found it elsewhere wrote to the row another run had stored.              *)
JourneysFromHere ==
  Located(coords) /\ ~adrift =>
    \A x \in Label : rows[x] # None => rows[x].from = coords

(* A listing that is done for the month has an answer for every address the *)
(* owner has, and for no other, except where nobody could be asked or a     *)
(* hand that had read other addresses wrote late.                           *)
DoneMeansAnswered ==
  stamp = "fresh" /\ failures = 0 /\ ~late =>
    \A x \in Label \ unasked :
      IF wanted[x] = None THEN rows[x] = None
      ELSE rows[x] # None /\ rows[x].origin = wanted[x]

(* However the hands on a listing overlap, what is stored of its journeys   *)
(* is from where it is to where its owner wants to go.                      *)
JourneysStand == TypeOK /\ JourneysFromHere /\ DoneMeansAnswered

(* The sweep and the runs never pay twice for a journey, and never lose     *)
(* one that still holds: only when something else happened after they read  *)
(* it.                                                                      *)
ValidJourneysStay ==
  [][\A h \in {"sweep"} \cup Run, x \in Label :
       /\ hand[h].at # "idle" /\ hand'[h].at = "idle" /\ hand[h].since = {}
       /\ coords' # "absent"
       /\ StillValid(rows[x], wanted[x])
       => rows'[x] = rows[x]]_vars

=============================================================================
