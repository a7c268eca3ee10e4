-------------------------- MODULE TravelTimes_proofs --------------------------
(***************************************************************************)
(* Proofs about TravelTimes, for any labels, addresses and places, and any *)
(* number of hands under way.                                              *)
(*                                                                         *)
(* What is stored stands only if what is about to be stored does: a hand   *)
(* that has read where the listing is, or what its owner wants, either     *)
(* still agrees with both or has been told that they changed (Agrees), and *)
(* the journeys it is about to write are from here, answer what is wanted  *)
(* and keep what still holds (Good), unless it has been told.              *)
(***************************************************************************)
EXTENDS TravelTimes, TLAPS

Event == {"moved", "edited", "written"}
HandRecord == [at : {"idle", "found", "new", "asked", "waits"},
               coords : Spot \cup {NoPlace, None},
               wanted : [Label -> Origin \cup {None}],
               silent : SUBSET Rail,
               plan : Plan,
               since : SUBSET Event]

(* A plan's journeys start where the listing is, but for what is adrift.    *)
FromHere(plan, since) ==
  "moved" \notin since /\ ~adrift =>
    \A x \in Label : plan.rows[x] # None => plan.rows[x].from = coords

(* A plan that says "done" has what the owner wants.                        *)
Answers(plan, since) ==
  "edited" \notin since /\ plan.verdict = "done" =>
    \A x \in Label \ plan.unasked :
      IF wanted[x] = None THEN plan.rows[x] = None
      ELSE plan.rows[x] # None /\ plan.rows[x].origin = wanted[x]

(* A plan that replaces the journeys keeps those that still hold.           *)
KeepsValid(plan, since) ==
  since = {} /\ plan.verdict \in {"more", "done"} =>
    \A x \in Label : StillValid(rows[x], wanted[x]) => plan.rows[x] = rows[x]

Good(h, plan, since) ==
  /\ FromHere(plan, since)
  /\ Answers(plan, since)
  /\ h # "page" => KeepsValid(plan, since)

(* What a hand has read is what is, or it has been told.                    *)
KnowsPlace(q) ==
  q.at \in {"new", "asked"} =>
    q.coords \in Spot /\ ("moved" \notin q.since => q.coords = coords)
KnowsWanted(q) == q.at = "asked" /\ "edited" \notin q.since => q.wanted = wanted

Agrees(h) ==
  /\ KnowsPlace(hand[h])
  /\ KnowsWanted(hand[h])
  /\ hand[h].at = "waits" => Good(h, hand[h].plan, hand[h].since)

(* A listing that is not stored has no journeys, is not done, and is in the *)
(* hands of runs that are about to store it, at most.                       *)
NowhereIsBlank ==
  coords = "absent" =>
    rows = NoRows /\ stamp = "never" /\ \A h \in Hand : hand[h].at \in {"idle", "found"}

TravelInv ==
  /\ TypeOK /\ JourneysFromHere /\ DoneMeansAnswered
  /\ NowhereIsBlank
  /\ \A h \in Hand : Agrees(h)

-----------------------------------------------------------------------------
LEMMA IdleTyped == Idle \in HandRecord
BY DEF Idle, HandRecord, NoPlan, NoRows, Plan, Rows, Verdict

LEMMA WantedTyped == ASSUME NEW w \in Books PROVE w \in [Label -> Origin \cup {None}]
BY TravelAssumption DEF Origin

LEMMA HandsTyped == TypeOK => hand \in [Hand -> HandRecord]
BY DEF TypeOK, HandRecord, Event

LEMMA InitHolds == Init => TravelInv
<1> SUFFICES ASSUME Init PROVE TravelInv
  OBVIOUS
<1>1. hand \in [Hand -> HandRecord] /\ \A h \in Hand : hand[h].at = "idle"
  BY IdleTyped DEF Init, Idle
<1>2. NoRows \in Rows /\ \A x \in Label : NoRows[x] = None
  BY DEF NoRows, Rows
<1>3. TypeOK
  <2>1. /\ coords \in {"absent"} /\ out \in BOOLEAN /\ wanted \in Books /\ rows \in Rows
        /\ stamp \in {"never"} /\ failures \in 0 .. Limit /\ events \in 0 .. MaxEvents
        /\ unasked \subseteq Label /\ late \in BOOLEAN /\ adrift \in BOOLEAN
    <3>1. 0 \in 0 .. Limit /\ 0 \in 0 .. MaxEvents
      BY TravelAssumption
    <3> QED
      BY <1>2, <3>1 DEF Init
  <2> QED
    BY <1>1, <2>1 DEF TypeOK, HandRecord, Event
<1>4. JourneysFromHere /\ DoneMeansAnswered /\ NowhereIsBlank
  BY <1>1, <1>2 DEF Init, JourneysFromHere, DoneMeansAnswered, NowhereIsBlank
<1>5. \A h \in Hand : Agrees(h)
  BY <1>1 DEF Agrees, KnowsPlace, KnowsWanted
<1> QED
  BY <1>3, <1>4, <1>5 DEF TravelInv

-----------------------------------------------------------------------------
LEMMA SinceTyped ==
  ASSUME NEW q \in HandRecord, NEW s \in SUBSET Event
  PROVE  /\ [q EXCEPT !.since = s] \in HandRecord
         /\ [q EXCEPT !.since = s].since = s
         /\ [q EXCEPT !.since = q.since] = q
BY DEF HandRecord

(* What a hand is told, and that it is told nothing else.                   *)
Heard(hands, event, h) ==
  /\ Told(hands, event)[h] = [hands[h] EXCEPT !.since = Told(hands, event)[h].since]
  /\ Told(hands, event)[h].since \in {hands[h].since, hands[h].since \cup {event}}
  /\ hands[h].at = "waits" => event \in Told(hands, event)[h].since
  /\ hands[h].at = "asked" /\ event # "written" => event \in Told(hands, event)[h].since
  /\ hands[h].at = "new" /\ event = "moved" => event \in Told(hands, event)[h].since

LEMMA ToldTyped ==
  ASSUME NEW hands \in [Hand -> HandRecord], NEW event \in Event
  PROVE  /\ Told(hands, event) \in [Hand -> HandRecord]
         /\ \A h \in Hand : Heard(hands, event, h)
<1> DEFINE T == Told(hands, event)
<1>1. ASSUME NEW h \in Hand PROVE T[h] \in HandRecord /\ Heard(hands, event, h)
  <2>1. hands[h] \in HandRecord
    OBVIOUS
  <2>2. T[h] = hands[h] \/ T[h] = [hands[h] EXCEPT !.since = hands[h].since \cup {event}]
    BY DEF Told
  <2>3. T[h] = [hands[h] EXCEPT !.since = T[h].since] /\ T[h] \in HandRecord
        /\ T[h].since \in {hands[h].since, hands[h].since \cup {event}}
    <3>1. hands[h].since \in SUBSET Event /\ hands[h].since \cup {event} \in SUBSET Event
      BY <2>1 DEF HandRecord
    <3>2. CASE T[h] = hands[h]
      BY <2>1, <3>1, <3>2, SinceTyped
    <3>3. CASE T[h] = [hands[h] EXCEPT !.since = hands[h].since \cup {event}]
      BY <2>1, <3>1, <3>3, SinceTyped
    <3> QED
      BY <2>2, <3>2, <3>3
  <2>4. hands[h].at = "waits" \/ (hands[h].at = "asked" /\ event # "written")
        \/ (hands[h].at = "new" /\ event = "moved")
        => event \in T[h].since
    BY <2>1 DEF Told, HandRecord
  <2> QED
    BY <2>3, <2>4 DEF Heard
<1>2. T = [h \in Hand |-> T[h]]
  BY DEF Told
<1> QED
  BY <1>1, <1>2
-----------------------------------------------------------------------------
(* A hand whose record changed in what it was told, at most.                *)
Same(q, p) == /\ p = [q EXCEPT !.since = p.since]
              /\ q.since \subseteq p.since

LEMMA SameFields ==
  ASSUME NEW q \in HandRecord, NEW p \in HandRecord, Same(q, p)
  PROVE  /\ p.at = q.at /\ p.coords = q.coords /\ p.wanted = q.wanted
         /\ p.silent = q.silent /\ p.plan = q.plan
BY DEF HandRecord, Same

LEMMA ToldSame ==
  ASSUME NEW hands \in [Hand -> HandRecord], NEW event \in Event, NEW h \in Hand
  PROVE  Same(hands[h], Told(hands, event)[h])
BY ToldTyped DEF Heard, Same

(* A write leaves the other hands as they were, but tells those that wait.  *)
LEMMA WriteHands ==
  ASSUME TypeOK, NEW h \in Hand, NEW plan, NEW since, Write(h, plan, since)
  PROVE  /\ hand' \in [Hand -> HandRecord]
         /\ hand'[h].at = "idle"
         /\ \A g \in Hand \ {h} : Same(hand[g], hand'[g])
         /\ plan.verdict \in {"more", "done"} =>
              \A g \in Hand \ {h} : hand[g].at = "waits" => "written" \in hand'[g].since
<1> DEFINE left == [hand EXCEPT ![h] = Idle]
<1>1. left \in [Hand -> HandRecord] /\ left[h] = Idle /\ \A g \in Hand \ {h} : left[g] = hand[g]
  BY HandsTyped, IdleTyped
<1>2. Idle.at = "idle"
  BY DEF Idle
<1>3. CASE plan.verdict \in {"more", "done"}
  <2>1. hand' = Told(left, "written")
    BY <1>3 DEF Write
  <2> HIDE DEF left
  <2>2. hand' \in [Hand -> HandRecord]
    BY <1>1, <2>1, ToldTyped DEF Event
  <2>3. hand'[h].at = "idle"
    BY <1>1, <1>2, <2>1 DEF Told
  <2>4. \A g \in Hand \ {h} : Same(hand[g], hand'[g])
    BY <1>1, <2>1, ToldSame DEF Event
  <2>5. \A g \in Hand \ {h} : hand[g].at = "waits" => "written" \in hand'[g].since
    BY <1>1, <2>1, ToldTyped DEF Event, Heard
  <2> QED
    BY <2>2, <2>3, <2>4, <2>5
<1>4. CASE plan.verdict \notin {"more", "done"}
  <2>1. hand' = left
    BY <1>4 DEF Write
  <2>2. \A g \in Hand : hand[g] = [hand[g] EXCEPT !.since = hand[g].since]
    BY HandsTyped, SinceTyped DEF HandRecord
  <2> QED
    BY <1>1, <1>2, <1>4, <2>1, <2>2 DEF Same
<1> QED
  BY <1>3, <1>4

(* The hands that did not write agree as they did before.                   *)
LEMMA OthersAgree ==
  ASSUME TravelInv, NEW h \in Hand, NEW plan, NEW since, Write(h, plan, since),
         UNCHANGED <<coords, wanted>>,
         NEW g \in Hand \ {h}
  PROVE  Agrees(g)'
<1>1. TypeOK /\ Agrees(g) /\ hand[g] \in HandRecord
  BY HandsTyped DEF TravelInv
<1>2. hand'[g] \in HandRecord /\ Same(hand[g], hand'[g])
  BY <1>1, WriteHands
<1>3. /\ hand'[g].at = hand[g].at /\ hand'[g].coords = hand[g].coords
      /\ hand'[g].wanted = hand[g].wanted /\ hand'[g].plan = hand[g].plan
      /\ hand[g].since \subseteq hand'[g].since
  BY <1>1, <1>2, SameFields DEF Same
<1>4. KnowsPlace(hand[g])' /\ KnowsWanted(hand[g])'
  BY <1>1, <1>3 DEF Agrees, KnowsPlace, KnowsWanted
<1>5. ASSUME hand'[g].at = "waits" PROVE Good(g, hand[g].plan, hand[g].since)'
  <2>1. Good(g, hand[g].plan, hand[g].since)
    BY <1>1, <1>3, <1>5 DEF Agrees
  <2>2. ~adrift' => ~adrift
    BY <1>1 DEF Write, TypeOK
  <2>3. FromHere(hand[g].plan, hand[g].since)'
    BY <1>3, <2>1, <2>2 DEF Good, FromHere
  <2>4. Answers(hand[g].plan, hand[g].since)'
    BY <1>3, <2>1 DEF Good, Answers
  <2>5. ASSUME g # "page" PROVE KeepsValid(hand[g].plan, hand[g].since)'
    <3>1. CASE plan.verdict \in {"more", "done"}
      <4>1. "written" \in hand'[g].since
        BY <1>1, <1>3, <1>5, <3>1, WriteHands
      <4> QED
        BY <4>1 DEF KeepsValid
    <3>2. CASE plan.verdict \notin {"more", "done"}
      <4>1. rows' = rows
        BY <3>2 DEF Write
      <4> QED
        BY <1>3, <2>1, <2>5, <4>1 DEF Good, KeepsValid
    <3> QED
      BY <3>1, <3>2
  <2> QED
    BY <2>3, <2>4, <2>5 DEF Good
<1> QED
  BY <1>4, <1>5 DEF Agrees

(* What a good plan stores stands.                                          *)
LEMMA WriteStep ==
  ASSUME TravelInv, NEW h \in Hand, NEW plan \in Plan, NEW since \in SUBSET Event,
         Good(h, plan, since), coords # "absent", Write(h, plan, since),
         UNCHANGED <<coords, out, wanted, events>>
  PROVE  TravelInv'
<1>1. TypeOK
  BY DEF TravelInv
<1>2. hand' \in [Hand -> HandRecord] /\ hand'[h].at = "idle"
  BY <1>1, WriteHands
<1>3. plan.rows \in Rows /\ plan.unasked \in SUBSET Label /\ plan.verdict \in Verdict
  BY DEF Plan
<1>4. TypeOK'
  <2>1. rows' \in Rows /\ unasked' \subseteq Label
    BY <1>1, <1>3 DEF Write, TypeOK
  <2>2. stamp' \in {"never", "fresh", "stale"} /\ failures' \in 0 .. Limit
    BY <1>1, TravelAssumption DEF Write, TypeOK
  <2>3. late' \in BOOLEAN /\ adrift' \in BOOLEAN
    <3>1. late' \in {"edited" \in since, stamp = "fresh", late}
      BY DEF Write
    <3>2. ("edited" \in since) \in BOOLEAN /\ (stamp = "fresh") \in BOOLEAN /\ late \in BOOLEAN
      BY <1>1 DEF TypeOK
    <3>3. adrift' \in BOOLEAN
      BY <1>1 DEF Write, TypeOK
    <3> QED
      BY <3>1, <3>2, <3>3
  <2> QED
    BY <1>1, <1>2, <2>1, <2>2, <2>3 DEF TypeOK, HandRecord, Event
<1>5. JourneysFromHere'
  <2>1. CASE plan.verdict \in {"more", "done"}
    BY <2>1 DEF Good, FromHere, Write, JourneysFromHere
  <2>2. CASE plan.verdict \notin {"more", "done"}
    BY <2>2 DEF Write, JourneysFromHere, TravelInv
  <2> QED
    BY <2>1, <2>2
<1>6. DoneMeansAnswered'
  <2>1. CASE plan.verdict = "done"
    BY <2>1 DEF Good, Answers, Write, DoneMeansAnswered
  <2>2. CASE plan.verdict = "more"
    BY <2>2 DEF Write, DoneMeansAnswered
  <2>3. CASE plan.verdict = "failure"
    <3>1. failures' # 0
      BY <1>1, <2>3, TravelAssumption DEF Write, TypeOK
    <3> QED
      BY <3>1 DEF DoneMeansAnswered
  <2>4. CASE plan.verdict = "nothing"
    BY <2>4 DEF Write, DoneMeansAnswered, TravelInv
  <2> QED
    BY <1>3, <2>1, <2>2, <2>3, <2>4 DEF Verdict
<1>7. \A g \in Hand : Agrees(g)'
  <2>1. Agrees(h)'
    BY <1>2 DEF Agrees, KnowsPlace, KnowsWanted
  <2> QED
    BY <2>1, OthersAgree
<1>8. NowhereIsBlank'
  BY DEF NowhereIsBlank
<1> QED
  BY <1>4, <1>5, <1>6, <1>7, <1>8 DEF TravelInv
-----------------------------------------------------------------------------
(* What one address of one listing may come to: a journey that is stored,   *)
(* or one measured from where the hand believes the listing to be; and one  *)
(* that goes where it is to go, if it counts as an answer.                  *)
Answering == {"answered", "no way", "unavailable", "deferred", "off"}

Sound(o, from, dest) ==
  /\ o.row \in Journey \cup {None}
  /\ o.row # None => o.row.from = from \/ \E y \in Label : rows[y] # None /\ o.row.from = rows[y].from
  /\ o.said \in Answering
  /\ o.said \in {"answered", "no way"} => o.row # None /\ o.row.origin = dest

IsOutcome(o, row, said) == o.row = row /\ o.said = said
MeasuredFrom(from, dest, time) == [origin |-> dest, from |-> from, time |-> time, fresh |-> TRUE]

LEMMA MeasuredSound ==
  ASSUME NEW from \in Spot, NEW dest \in Origin, NEW time \in BOOLEAN,
         NEW said \in Answering, NEW o, IsOutcome(o, MeasuredFrom(from, dest, time), said)
  PROVE  Sound(o, from, dest)
<1>1. MeasuredFrom(from, dest, time) \in Journey
  BY DEF Journey, MeasuredFrom
<1>2. o.row \in Journey /\ o.row # None
  BY <1>1, TravelAssumption DEF IsOutcome
<1>3. o.row.from = from /\ o.row.origin = dest /\ o.said \in Answering
  BY DEF IsOutcome, MeasuredFrom
<1> QED
  BY <1>2, <1>3 DEF Sound

(* A stored journey, or none, is no answer by itself.                       *)
LEMMA KeptSound ==
  ASSUME TypeOK, NEW from, NEW dest, NEW x \in Label, NEW said \in Answering,
         said \notin {"answered", "no way"} \/ (rows[x] # None /\ rows[x].origin = dest),
         NEW o, IsOutcome(o, rows[x], said)
  PROVE  Sound(o, from, dest)
<1>1. rows[x] \in Journey \cup {None}
  BY DEF TypeOK, Rows
<1> QED
  BY <1>1 DEF Sound, IsOutcome

LEMMA NoneSound ==
  ASSUME NEW from, NEW dest, NEW o, IsOutcome(o, None, "off")
  PROVE  Sound(o, from, dest)
BY DEF Sound, IsOutcome, Answering

LEMMA OutcomeSound ==
  ASSUME TypeOK, NEW p \in HandRecord, p.coords \in Spot,
         NEW x \in Chosen(p.wanted), NEW o \in Outcomes(p, x)
  PROVE  Sound(o, p.coords, p.wanted[x]) /\ (Keeps(p, x) => o.row = rows[x])
<1> DEFINE dest == p.wanted[x]
           meas(time, said, waited) ==
             [row |-> MeasuredFrom(p.coords, dest, time), said |-> said, waited |-> waited]
           kept(y, said) == [row |-> rows[y], said |-> said, waited |-> FALSE]
           street == {kept(x, "deferred"), meas(TRUE, "answered", TRUE),
                      meas(FALSE, "no way", TRUE), meas(FALSE, "unavailable", TRUE)}
           places == {kept(x, "deferred"), meas(TRUE, "answered", TRUE), meas(FALSE, "answered", TRUE),
                      [row |-> rows[x], said |-> "unavailable", waited |-> TRUE],
                      [row |-> None, said |-> "off", waited |-> FALSE]}
<1>1. x \in Label /\ dest \in Origin
  BY DEF Chosen, HandRecord
<1>2. \A time \in BOOLEAN, said \in Answering, waited \in BOOLEAN :
        o = meas(time, said, waited) => Sound(o, p.coords, dest)
  BY <1>1, MeasuredSound DEF IsOutcome
<1>3. \A said \in {"deferred", "unavailable"}, waited \in BOOLEAN :
        o = [row |-> rows[x], said |-> said, waited |-> waited] => Sound(o, p.coords, dest)
  BY <1>1, KeptSound DEF IsOutcome, Answering
<1>4. CASE Keeps(p, x)
  <2>1. o = kept(x, "answered")
    BY <1>4 DEF Outcomes
  <2>2. Sound(o, p.coords, dest)
    BY <1>1, <1>4, <2>1, KeptSound DEF Keeps, StillValid, IsOutcome, Answering
  <2> QED
    BY <2>1, <2>2
<1>5. CASE ~Keeps(p, x) /\ dest \in Nearby
  <2>1. o \in places
    BY <1>5 DEF Outcomes, MeasuredFrom
  <2>2. o = [row |-> None, said |-> "off", waited |-> FALSE] => Sound(o, p.coords, dest)
    BY NoneSound DEF IsOutcome
  <2> QED
    BY <1>2, <1>3, <1>5, <2>1, <2>2 DEF Answering
<1>6. CASE ~Keeps(p, x) /\ dest \notin Nearby /\ \E y \in Label : StillValid(rows[y], dest)
  <2>1. PICK y \in Label : StillValid(rows[y], dest) /\ o = kept(y, "answered")
    BY <1>6 DEF Outcomes
  <2> QED
    BY <1>6, <2>1, KeptSound DEF StillValid, IsOutcome, Answering
<1>7. CASE ~Keeps(p, x) /\ dest \notin Nearby /\ ~ \E y \in Label : StillValid(rows[y], dest)
  <2>1. o \in street \cup {kept(x, "unavailable"), meas(TRUE, "answered", FALSE)}
    BY <1>7 DEF Outcomes, MeasuredFrom
  <2> QED
    BY <1>2, <1>3, <1>7, <2>1 DEF Answering
<1> QED
  BY <1>4, <1>5, <1>6, <1>7

-----------------------------------------------------------------------------
(* A plan made of sound outcomes, one for every address that is wanted.     *)
Outfit(u, from, w) ==
  /\ DOMAIN u = Chosen(w)
  /\ \A x \in Chosen(w) : Sound(u[x], from, w[x])

LEMMA UpdatesSound ==
  ASSUME TypeOK, NEW p \in HandRecord, p.coords \in Spot, NEW u \in Updates(p)
  PROVE  /\ Outfit(u, p.coords, p.wanted)
         /\ \A x \in Chosen(p.wanted) : Keeps(p, x) => u[x].row = rows[x]
<1>1. DOMAIN u = Chosen(p.wanted) /\ \A x \in Chosen(p.wanted) : u[x] \in Outcomes(p, x)
  BY DEF Updates
<1> QED
  BY <1>1, OutcomeSound DEF Outfit

LEMMA EntriesSound ==
  ASSUME NEW w \in [Label -> Origin \cup {None}], NEW from, NEW u, Outfit(u, from, w)
  PROVE  /\ Entries(u) \in Rows
         /\ \A x \in Label : Entries(u)[x] = IF w[x] = None THEN None ELSE u[x].row
         /\ Unsaid(u) \subseteq Label /\ Said(u, "unavailable") \subseteq Label
<1>1. \A x \in Label : x \in DOMAIN u <=> w[x] # None
  BY DEF Outfit, Chosen
<1>2. \A x \in Label : Entries(u)[x] = IF w[x] = None THEN None ELSE u[x].row
  BY <1>1 DEF Entries
<1>3. \A x \in Label : w[x] # None => u[x].row \in Journey \cup {None}
  BY DEF Outfit, Chosen, Sound
<1>4. Entries(u) \in Rows
  BY <1>1, <1>3 DEF Entries, Rows
<1>5. Unsaid(u) \subseteq Label /\ Said(u, "unavailable") \subseteq Label
  BY DEF Unsaid, Said, Outfit, Chosen
<1> QED
  BY <1>2, <1>4, <1>5

(* The journeys of a plan start where its hand believes the listing to be,  *)
(* or where a stored one does.                                              *)
LEMMA EntriesFromHere ==
  ASSUME JourneysFromHere, NEW since,
         NEW w \in [Label -> Origin \cup {None}], NEW from, NEW u, Outfit(u, from, w),
         "moved" \notin since => from = coords /\ coords \in Spot,
         NEW plan, plan.rows \in {Entries(u), NoRows}
  PROVE  FromHere(plan, since)
<1> SUFFICES ASSUME "moved" \notin since, ~adrift, NEW x \in Label, plan.rows[x] # None
             PROVE  plan.rows[x].from = coords
  BY DEF FromHere
<1>0. plan.rows = Entries(u)
  BY DEF NoRows
<1>1. w[x] # None /\ plan.rows[x] = u[x].row
  BY <1>0, EntriesSound
<1>2. Sound(u[x], from, w[x])
  BY <1>1 DEF Outfit, Chosen
<1>3. \A y \in Label : rows[y] # None => rows[y].from = coords
  BY DEF JourneysFromHere, Located
<1> QED
  BY <1>1, <1>2, <1>3 DEF Sound

(* A plan that is done answers: whatever is not an answer is named.         *)
Fits(plan, u, w) ==
  plan.verdict = "done" =>
    /\ \A x \in Label : plan.rows[x] = IF w[x] = None THEN None ELSE u[x].row
    /\ \A x \in Chosen(w) : x \in plan.unasked \/ u[x].said \in {"answered", "no way"}

LEMMA EntriesAnswer ==
  ASSUME NEW since, NEW w, NEW from, NEW u, Outfit(u, from, w),
         "edited" \notin since => w = wanted,
         NEW plan, Fits(plan, u, w)
  PROVE  Answers(plan, since)
<1> SUFFICES ASSUME "edited" \notin since, plan.verdict = "done", NEW x \in Label \ plan.unasked
             PROVE  IF wanted[x] = None THEN plan.rows[x] = None
                    ELSE plan.rows[x] # None /\ plan.rows[x].origin = wanted[x]
  BY DEF Answers
<1>1. plan.rows[x] = IF w[x] = None THEN None ELSE u[x].row
  BY DEF Fits
<1>2. w[x] # None => Sound(u[x], from, w[x]) /\ u[x].said \in {"answered", "no way"}
  BY DEF Outfit, Chosen, Fits
<1> QED
  BY <1>1, <1>2 DEF Sound

LEMMA PlannedTyped ==
  ASSUME NEW verdict \in Verdict, NEW u, Entries(u) \in Rows, NEW silent \in SUBSET Label
  PROVE  /\ Planned(verdict, u, silent) \in Plan
         /\ Planned(verdict, u, silent).verdict = verdict
         /\ Planned(verdict, u, silent).rows \in {Entries(u), NoRows}
         /\ verdict \in {"more", "done"} => Planned(verdict, u, silent).rows = Entries(u)
         /\ verdict = "done" => Planned(verdict, u, silent).unasked = silent
<1>1. NoRows \in Rows
  BY DEF NoRows, Rows
<1> QED
  BY <1>1 DEF Planned, Plan

(* The sweep and the runs plan well.                                        *)
LEMMA PlanOfGood ==
  ASSUME TravelInv, NEW h \in Hand, hand[h].at = "asked", NEW u \in Updates(hand[h])
  PROVE  /\ PlanOf(u) \in Plan
         /\ Good(h, PlanOf(u), hand[h].since)
         /\ coords # "absent"
<1> DEFINE p == hand[h]
           plan == PlanOf(u)
<1>1. TypeOK /\ p \in HandRecord /\ Agrees(h)
  BY HandsTyped DEF TravelInv
<1>2. p.coords \in Spot /\ p.wanted \in [Label -> Origin \cup {None}] /\ coords # "absent"
  BY <1>1 DEF Agrees, KnowsPlace, HandRecord, TravelInv, NowhereIsBlank
<1>3. /\ "moved" \notin p.since => p.coords = coords
      /\ "edited" \notin p.since => p.wanted = wanted
  BY <1>1 DEF Agrees, KnowsPlace, KnowsWanted
<1>4. Outfit(u, p.coords, p.wanted) /\ \A x \in Chosen(p.wanted) : Keeps(p, x) => u[x].row = rows[x]
  BY <1>1, <1>2, UpdatesSound
<1>5. /\ Entries(u) \in Rows /\ Unsaid(u) \subseteq Label
      /\ \A x \in Label : Entries(u)[x] = IF p.wanted[x] = None THEN None ELSE u[x].row
  BY <1>2, <1>4, EntriesSound
<1>6. PICK verdict \in Verdict :
        /\ plan = Planned(verdict, u, Unsaid(u))
        /\ verdict = "done" => DOMAIN u = {} \/ Said(u, "deferred") = {}
  BY DEF PlanOf, Verdict
<1>7. /\ plan \in Plan /\ plan.rows \in {Entries(u), NoRows} /\ plan.verdict = verdict
      /\ verdict \in {"more", "done"} => plan.rows = Entries(u)
      /\ verdict = "done" => plan.unasked = Unsaid(u)
  BY <1>5, <1>6, PlannedTyped
<1> HIDE DEF plan
<1>8. FromHere(plan, p.since)
  BY <1>2, <1>3, <1>4, <1>7, EntriesFromHere DEF TravelInv
<1>9. ASSUME plan.verdict = "done", NEW x \in Chosen(p.wanted)
      PROVE  x \in plan.unasked \/ u[x].said \in {"answered", "no way"}
  <2>1. x \in DOMAIN u /\ u[x].said \in Answering
    BY <1>4 DEF Outfit, Sound
  <2>2. Said(u, "deferred") = {}
    BY <1>6, <1>7, <1>9, <2>1
  <2> QED
    BY <1>7, <1>9, <2>1, <2>2 DEF Said, Unsaid, Answering
<1>10. Answers(plan, p.since)
  <2>1. plan.verdict = "done" =>
          \A x \in Chosen(p.wanted) : x \in plan.unasked \/ u[x].said \in {"answered", "no way"}
    BY <1>9
  <2>2. Fits(plan, u, p.wanted)
    BY <1>5, <1>7, <2>1 DEF Fits
  <2> QED
    BY <1>3, <1>4, <2>2, EntriesAnswer
<1>11. KeepsValid(plan, p.since)
  <2> SUFFICES ASSUME p.since = {}, plan.verdict \in {"more", "done"},
                      NEW x \in Label, StillValid(rows[x], wanted[x])
               PROVE  plan.rows[x] = rows[x]
    BY DEF KeepsValid
  <2>1. wanted[x] # None
    <3>1. rows[x] \in Journey /\ rows[x].origin = wanted[x]
      BY <1>1 DEF StillValid, TypeOK, Rows
    <3> QED
      BY <3>1, TravelAssumption DEF Journey
  <2>2. p.wanted = wanted /\ Keeps(p, x) /\ x \in Chosen(p.wanted)
    BY <1>3, <2>1 DEF Keeps, Chosen
  <2> QED
    BY <1>4, <1>5, <1>7, <2>1, <2>2
<1> QED
  BY <1>2, <1>7, <1>8, <1>10, <1>11 DEF Good, plan

(* And so does the page, which keeps what it shows when nobody answers, or  *)
(* says of a journey that it is of another address or of today.             *)
Restated(row, dest, fresh) == [row EXCEPT !.origin = dest, !.fresh = fresh]

LEMMA RestatedTyped ==
  ASSUME NEW row \in Journey, NEW dest \in Origin, NEW fresh \in BOOLEAN
  PROVE  /\ Restated(row, dest, fresh) \in Journey
         /\ Restated(row, dest, fresh).from = row.from /\ Restated(row, dest, fresh).origin = dest
BY DEF Restated, Journey

LEMMA RestatedSame ==
  ASSUME NEW row \in Journey, NEW dest \in Origin
  PROVE  /\ [row EXCEPT !.origin = dest] = Restated(row, dest, row.fresh)
         /\ row.origin = dest => [row EXCEPT !.fresh = TRUE] = Restated(row, dest, TRUE)
BY DEF Restated, Journey

LEMMA RestatedSound ==
  ASSUME TypeOK, NEW from, NEW x \in Label, rows[x] # None,
         NEW dest, NEW p \in Origin, NEW fresh \in BOOLEAN, NEW said \in Answering,
         said \notin {"answered", "no way"} \/ p = dest,
         NEW o, IsOutcome(o, Restated(rows[x], p, fresh), said)
  PROVE  Sound(o, from, dest)
<1>1. rows[x] \in Journey
  BY DEF TypeOK, Rows
<1>2. o.row \in Journey /\ o.row.from = rows[x].from /\ o.row.origin = p /\ o.said = said
  <2>1. o.row = Restated(rows[x], p, fresh) /\ o.said = said
    BY DEF IsOutcome
  <2>2. /\ Restated(rows[x], p, fresh) \in Journey
        /\ Restated(rows[x], p, fresh).from = rows[x].from
        /\ Restated(rows[x], p, fresh).origin = p
    BY <1>1, RestatedTyped
  <2> QED
    BY <2>1, <2>2
<1>3. o.row # None
  BY <1>2, TravelAssumption
<1> QED
  BY <1>2, <1>3 DEF Sound

LEMMA RewordedSound ==
  ASSUME TypeOK, NEW x \in Label, NEW dest \in Origin, NEW from, NEW o \in Reworded(rows[x], dest)
  PROVE  Sound(o, from, dest) /\ o.said \in {"answered", "unavailable"}
<1> DEFINE old == rows[x]
<1>1. old \in Journey /\ old # None /\ old.fresh \in BOOLEAN
  BY DEF Reworded, TypeOK, Rows, Journey
<1>2. CASE dest \in Nearby
  <2>1. old.origin = dest /\ o = [row |-> [old EXCEPT !.fresh = TRUE], said |-> "answered"]
    BY <1>1, <1>2 DEF Reworded
  <2>2. IsOutcome(o, Restated(old, dest, TRUE), "answered")
    BY <1>1, <2>1, RestatedSame DEF IsOutcome
  <2> QED
    BY <1>1, <2>2, RestatedSound DEF Answering, IsOutcome
<1>3. CASE dest \notin Nearby
  <2>1. \/ old.origin = dest /\ o = [row |-> old, said |-> "answered"]
        \/ o = [row |-> Restated(old, dest, TRUE), said |-> "answered"]
        \/ \E p \in Rail \cup Road : o = [row |-> [old EXCEPT !.origin = p], said |-> "unavailable"]
    BY <1>1, <1>3 DEF Reworded, Restated
  <2>2. CASE old.origin = dest /\ o = [row |-> old, said |-> "answered"]
    BY <1>1, <2>2, KeptSound DEF IsOutcome, Answering
  <2>3. CASE o = [row |-> Restated(old, dest, TRUE), said |-> "answered"]
    BY <1>1, <2>3, RestatedSound DEF IsOutcome, Answering
  <2>4. CASE \E p \in Rail \cup Road : o = [row |-> [old EXCEPT !.origin = p], said |-> "unavailable"]
    <3>1. PICK p \in Origin : o = [row |-> [old EXCEPT !.origin = p], said |-> "unavailable"]
      BY <2>4 DEF Origin
    <3>2. IsOutcome(o, Restated(old, p, old.fresh), "unavailable")
      BY <1>1, <3>1, RestatedSame DEF IsOutcome
    <3> QED
      BY <1>1, <3>2, RestatedSound DEF Answering, IsOutcome
  <2> QED
    BY <2>1, <2>2, <2>3, <2>4
<1> QED
  BY <1>2, <1>3

LEMMA RefinementSound ==
  ASSUME TypeOK, coords \in Spot, NEW x \in Chosen(wanted), NEW o \in Refinements(x)
  PROVE  Sound(o, coords, wanted[x]) /\ o.said \in {"answered", "deferred", "unavailable"}
<1> DEFINE dest == wanted[x]
           old == rows[x]
<1>1. x \in Label /\ dest \in Origin
  BY WantedTyped DEF Chosen, TypeOK
<1>2. \/ o \in Reworded(old, dest)
      \/ \E time \in BOOLEAN : o = [row |-> MeasuredFrom(coords, dest, time), said |-> "answered"]
      \/ \E said \in {"deferred", "unavailable"} : o = [row |-> old, said |-> said]
      \/ old # None /\ old.origin = dest /\ o = [row |-> old, said |-> "answered"]
  BY DEF Refinements, MeasuredFrom
<1>3. CASE o \in Reworded(old, dest)
  <2>1. \A from : Sound(o, from, dest) /\ o.said \in {"answered", "unavailable"}
    BY <1>1, <1>3, RewordedSound
  <2> QED
    BY <2>1
<1>4. CASE \E time \in BOOLEAN : o = [row |-> MeasuredFrom(coords, dest, time), said |-> "answered"]
  <2>1. PICK time \in BOOLEAN : o = [row |-> MeasuredFrom(coords, dest, time), said |-> "answered"]
    BY <1>4
  <2>2. IsOutcome(o, MeasuredFrom(coords, dest, time), "answered") /\ o.said = "answered"
    BY <2>1 DEF IsOutcome
  <2>3. Sound(o, coords, dest)
    BY <1>1, <2>2, MeasuredSound DEF Answering
  <2> QED
    BY <2>2, <2>3
<1>5. CASE \E said \in {"deferred", "unavailable"} : o = [row |-> old, said |-> said]
  <2>1. PICK said \in {"deferred", "unavailable"} : o = [row |-> old, said |-> said]
    BY <1>5
  <2>2. IsOutcome(o, old, said) /\ o.said = said
    BY <2>1 DEF IsOutcome
  <2>3. Sound(o, coords, dest)
    BY <1>1, <2>2, KeptSound DEF Answering
  <2> QED
    BY <2>2, <2>3
<1>6. CASE old # None /\ old.origin = dest /\ o = [row |-> old, said |-> "answered"]
  BY <1>1, <1>6, KeptSound DEF IsOutcome, Answering
<1> QED
  BY <1>2, <1>3, <1>4, <1>5, <1>6

LEMMA RefinedGood ==
  ASSUME TravelInv, coords \in Spot,
         NEW u, DOMAIN u = Chosen(wanted), \A x \in Chosen(wanted) : u[x] \in Refinements(x)
  PROVE  Refined(u) \in Plan /\ Good("page", Refined(u), {})
<1> DEFINE plan == Refined(u)
<1>1. TypeOK /\ wanted \in [Label -> Origin \cup {None}]
  BY WantedTyped DEF TravelInv, TypeOK
<1>2. Outfit(u, coords, wanted)
      /\ \A x \in Chosen(wanted) : u[x].said \in {"answered", "deferred", "unavailable"}
  BY <1>1, RefinementSound DEF Outfit
<1>3. /\ Entries(u) \in Rows /\ Said(u, "unavailable") \subseteq Label
      /\ \A x \in Label : Entries(u)[x] = IF wanted[x] = None THEN None ELSE u[x].row
  BY <1>1, <1>2, EntriesSound
<1>0. PICK verdict \in Verdict :
        /\ plan = Planned(verdict, u, Said(u, "unavailable"))
        /\ verdict = "done" => Said(u, "deferred") = {}
  BY DEF Refined, Verdict
<1>4. /\ plan \in Plan /\ plan.verdict = verdict
      /\ verdict = "done" => plan.unasked = Said(u, "unavailable") /\ plan.rows = Entries(u)
  BY <1>0, <1>3, PlannedTyped
<1>5. plan.rows \in {Entries(u), NoRows}
  BY <1>0, <1>3, PlannedTyped
<1> HIDE DEF plan
<1>6. FromHere(plan, {})
  <2>1. JourneysFromHere /\ coords = coords
    BY DEF TravelInv
  <2> QED
    BY <1>1, <1>2, <1>5, <2>1, EntriesFromHere
<1>7. plan.verdict = "done" =>
        \A x \in Chosen(wanted) : x \in plan.unasked \/ u[x].said \in {"answered", "no way"}
  <2> SUFFICES ASSUME plan.verdict = "done", NEW x \in Chosen(wanted)
               PROVE  x \in plan.unasked \/ u[x].said = "answered"
    OBVIOUS
  <2>1. Said(u, "deferred") = {}
    BY <1>0, <1>4
  <2>2. plan.unasked = Said(u, "unavailable")
    BY <1>4
  <2> QED
    BY <1>2, <2>1, <2>2 DEF Said
<1>8. Answers(plan, {})
  <2>1. Fits(plan, u, wanted)
    BY <1>3, <1>4, <1>7 DEF Fits
  <2> QED
    BY <1>2, <2>1, EntriesAnswer
<1> QED
  BY <1>4, <1>6, <1>8 DEF Good, plan

-----------------------------------------------------------------------------
(* A step that moves one hand, and nothing that the invariant speaks of     *)
(* otherwise.                                                               *)
LEMMA HandStep ==
  ASSUME TravelInv, UNCHANGED <<coords, out, wanted, stored, events, history>>,
         NEW h \in Hand, NEW q \in HandRecord, hand' = [hand EXCEPT ![h] = q],
         KnowsPlace(q), KnowsWanted(q), q.at = "waits" => Good(h, q.plan, q.since),
         coords # "absent" \/ q.at \in {"idle", "found"}
  PROVE  TravelInv'
<1> USE DEF stored, history
<1>1. hand \in [Hand -> HandRecord]
  BY HandsTyped DEF TravelInv
<1>2. hand' \in [Hand -> HandRecord] /\ hand'[h] = q /\ \A g \in Hand \ {h} : hand'[g] = hand[g]
  BY <1>1
<1>3. TypeOK'
  BY <1>2 DEF TravelInv, TypeOK, HandRecord, Event
<1>4. JourneysFromHere' /\ DoneMeansAnswered'
  BY DEF TravelInv, JourneysFromHere, DoneMeansAnswered
<1>5. NowhereIsBlank'
  <2>1. coords = "absent" => \A g \in Hand : hand'[g].at \in {"idle", "found"}
    BY <1>2 DEF TravelInv, NowhereIsBlank
  <2> QED
    BY <2>1 DEF TravelInv, NowhereIsBlank
<1>6. ASSUME NEW g \in Hand PROVE Agrees(g)'
  <2>1. CASE g = h
    BY <1>2, <2>1 DEF Agrees, KnowsPlace, KnowsWanted, Good, FromHere, Answers, KeepsValid
  <2>2. CASE g # h
    <3>1. Agrees(g) /\ hand'[g] = hand[g]
      BY <1>2, <2>2 DEF TravelInv
    <3> QED
      BY <3>1 DEF Agrees, KnowsPlace, KnowsWanted, Good, FromHere, Answers, KeepsValid
  <2> QED
    BY <2>1, <2>2
<1> QED
  BY <1>3, <1>4, <1>5, <1>6 DEF TravelInv

LEMMA AskingTyped ==
  ASSUME TypeOK, NEW c \in Spot, NEW silent \in SUBSET Rail
  PROVE  /\ Asking(c, silent) \in HandRecord
         /\ Asking(c, silent).at = "asked" /\ Asking(c, silent).coords = c
         /\ Asking(c, silent).wanted = wanted
<1>1. Idle \in HandRecord /\ wanted \in [Label -> Origin \cup {None}]
  BY IdleTyped, WantedTyped DEF TypeOK
<1> QED
  BY <1>1 DEF Asking, HandRecord

LEMMA StartSweepStep == ASSUME TravelInv, NEW silent \in SUBSET Rail, StartSweep(silent) PROVE TravelInv'
<1> DEFINE q == Asking(coords, silent)
<1>1. TypeOK /\ coords \in Spot /\ coords # "absent"
  BY TravelAssumption DEF TravelInv, StartSweep, Due, Located
<1>2. q \in HandRecord /\ q.at = "asked" /\ q.coords = coords /\ q.wanted = wanted
  BY <1>1, AskingTyped
<1>3. hand' = [hand EXCEPT !["sweep"] = q] /\ UNCHANGED <<coords, out, wanted, stored, events, history>>
  BY DEF StartSweep
<1> HIDE DEF q
<1>4. KnowsPlace(q) /\ KnowsWanted(q)
  BY <1>1, <1>2 DEF KnowsPlace, KnowsWanted
<1> QED
  BY <1>1, <1>2, <1>3, <1>4, HandStep DEF Hand

LEMMA StartJobStep ==
  ASSUME TravelInv, NEW r \in Run, NEW silent \in SUBSET Rail, StartJob(r, silent)
  PROVE  TravelInv'
<1> DEFINE p == hand[r]
           q == IF Chosen(wanted) = {} THEN Idle ELSE [Asking(p.coords, silent) EXCEPT !.since = p.since]
<1>1. TypeOK /\ p \in HandRecord /\ Agrees(r) /\ p.at = "new"
  BY HandsTyped DEF TravelInv, StartJob, Hand
<1>2. p.coords \in Spot /\ ("moved" \notin p.since => p.coords = coords) /\ p.since \in SUBSET Event
  BY <1>1 DEF Agrees, KnowsPlace, HandRecord
<1>3. coords # "absent"
  BY <1>1 DEF TravelInv, NowhereIsBlank, Hand
<1>4. hand' = [hand EXCEPT ![r] = q] /\ UNCHANGED <<coords, out, wanted, stored, events, history>>
  BY DEF StartJob
<1>5. q \in HandRecord /\ KnowsPlace(q) /\ KnowsWanted(q) /\ q.at # "waits"
  <2>1. CASE Chosen(wanted) = {}
    BY <2>1, IdleTyped DEF KnowsPlace, KnowsWanted, Idle
  <2>2. CASE Chosen(wanted) # {}
    <3> DEFINE a == Asking(p.coords, silent)
    <3>1. a \in HandRecord /\ a.at = "asked" /\ a.coords = p.coords /\ a.wanted = wanted
      BY <1>1, <1>2, AskingTyped
    <3>2. q = [a EXCEPT !.since = p.since]
      BY <2>2
    <3> HIDE DEF a, q
    <3>3. q \in HandRecord /\ q.since = p.since
      BY <1>2, <3>1, <3>2, SinceTyped
    <3>4. q.at = "asked" /\ q.coords = p.coords /\ q.wanted = wanted
      BY <3>1, <3>2 DEF HandRecord
    <3> QED
      BY <1>2, <3>3, <3>4 DEF KnowsPlace, KnowsWanted
  <2> QED
    BY <2>1, <2>2
<1> HIDE DEF q
<1> QED
  BY <1>3, <1>4, <1>5, HandStep DEF Hand

LEMMA JobGoesOnStep == ASSUME TravelInv, NEW r \in Run, JobGoesOn(r) PROVE TravelInv'
<1>1. hand' = [hand EXCEPT ![r] = Idle] /\ UNCHANGED <<coords, out, wanted, stored, events, history>>
  BY DEF JobGoesOn
<1>2. Idle \in HandRecord /\ KnowsPlace(Idle) /\ KnowsWanted(Idle) /\ Idle.at = "idle"
  BY IdleTyped DEF KnowsPlace, KnowsWanted, Idle
<1> QED
  BY <1>1, <1>2, HandStep DEF Hand

Waiting(plan, since) == [Idle EXCEPT !.at = "waits", !.plan = plan, !.since = since]
Opened(plan) == [Idle EXCEPT !.at = "waits", !.plan = plan]

LEMMA WaitingTyped ==
  ASSUME NEW plan \in Plan, NEW since \in SUBSET Event, NEW q,
         q = Waiting(plan, since) \/ (q = Opened(plan) /\ since = {})
  PROVE  /\ q \in HandRecord /\ q.at = "waits" /\ q.plan = plan /\ q.since = since
         /\ KnowsPlace(q) /\ KnowsWanted(q)
<1>1. Idle \in HandRecord /\ Idle.since = {}
  BY IdleTyped DEF Idle
<1>2. CASE q = Waiting(plan, since)
  BY <1>1, <1>2 DEF Waiting, HandRecord, KnowsPlace, KnowsWanted
<1>3. CASE q = Opened(plan) /\ since = {}
  BY <1>1, <1>3 DEF Opened, HandRecord, KnowsPlace, KnowsWanted
<1> QED
  BY <1>2, <1>3

LEMMA UpdateStep ==
  ASSUME TravelInv, NEW h \in {"sweep"} \cup Run, NEW u \in Updates(hand[h]), Update(h, u)
  PROVE  TravelInv'
<1> DEFINE p == hand[h]
           plan == PlanOf(u)
<1>1. h \in Hand /\ p.at = "asked" /\ p.since \in SUBSET Event
  <2>1. h \in Hand
    BY DEF Hand
  <2> QED
    BY <2>1, HandsTyped DEF Update, TravelInv, HandRecord
<1>2. plan \in Plan /\ Good(h, plan, p.since) /\ coords # "absent"
  BY <1>1, PlanOfGood
<1>3. CASE \E x \in DOMAIN u : u[x].waited
  <2> DEFINE q == Waiting(plan, p.since)
  <2>1. hand' = [hand EXCEPT ![h] = q] /\ UNCHANGED <<coords, out, wanted, stored, events, history>>
    BY <1>3 DEF Update, Waiting
  <2>0. q = Waiting(plan, p.since)
    OBVIOUS
  <2> HIDE DEF plan, q
  <2>2. q \in HandRecord /\ q.at = "waits" /\ q.plan = plan /\ q.since = p.since
        /\ KnowsPlace(q) /\ KnowsWanted(q)
    BY <1>1, <1>2, <2>0, WaitingTyped
  <2> QED
    BY <1>1, <1>2, <2>1, <2>2, HandStep
<1>4. CASE ~ \E x \in DOMAIN u : u[x].waited
  <2>1. Write(h, plan, p.since) /\ UNCHANGED <<coords, out, wanted, events>>
    BY <1>4 DEF Update
  <2> HIDE DEF plan
  <2> QED
    BY <1>1, <1>2, <2>1, WriteStep
<1> QED
  BY <1>3, <1>4

LEMMA SaveGood ==
  ASSUME TravelInv, NEW h \in Hand, hand[h].at = "waits"
  PROVE  /\ hand[h].plan \in Plan /\ hand[h].since \in SUBSET Event
         /\ Good(h, hand[h].plan, hand[h].since) /\ coords # "absent"
<1>1. hand[h] \in HandRecord /\ Agrees(h)
  BY HandsTyped DEF TravelInv
<1> QED
  BY <1>1 DEF HandRecord, Agrees, TravelInv, NowhereIsBlank

LEMMA SaveStep == ASSUME TravelInv, NEW h \in Hand, Save(h) PROVE TravelInv'
<1>1. hand[h].at = "waits" /\ Write(h, hand[h].plan, hand[h].since)
      /\ UNCHANGED <<coords, out, wanted, events>>
  BY DEF Save
<1> QED
  BY <1>1, SaveGood, WriteStep

LEMMA OpenPageStep == ASSUME TravelInv, NEW u \in RefinedBy, OpenPage(u) PROVE TravelInv'
<1> DEFINE plan == Refined(u)
           q == Opened(plan)
<1>1. /\ coords \in Spot /\ coords # "absent"
      /\ DOMAIN u = Chosen(wanted) /\ \A x \in Chosen(wanted) : u[x] \in Refinements(x)
  BY TravelAssumption DEF OpenPage, Located, RefinedBy
<1>2. plan \in Plan /\ Good("page", plan, {})
  BY <1>1, RefinedGood
<1>3. hand' = [hand EXCEPT !["page"] = q] /\ UNCHANGED <<coords, out, wanted, stored, events, history>>
  BY DEF OpenPage, Opened
<1>4. q = Opened(plan)
  OBVIOUS
<1> HIDE DEF plan, q
<1>5. q \in HandRecord /\ q.at = "waits" /\ q.plan = plan /\ q.since = {}
      /\ KnowsPlace(q) /\ KnowsWanted(q)
  BY <1>2, <1>4, WaitingTyped
<1> QED
  BY <1>1, <1>2, <1>3, <1>5, HandStep DEF Hand

-----------------------------------------------------------------------------
(* A run that has found a listing knows nothing of it yet.                  *)
Found == [Idle EXCEPT !.at = "found"]

LEMMA FindStep == ASSUME TravelInv, NEW r \in Run, Find(r) PROVE TravelInv'
<1>1. hand' = [hand EXCEPT ![r] = Found] /\ UNCHANGED <<coords, out, wanted, stored, events, history>>
  BY DEF Find, Found
<1>2. Found \in HandRecord /\ Found.at = "found" /\ KnowsPlace(Found) /\ KnowsWanted(Found)
  BY IdleTyped DEF Found, HandRecord, KnowsPlace, KnowsWanted, Idle
<1> QED
  BY <1>1, <1>2, HandStep DEF Hand

(* A run goes on from where it found the listing, whoever stored it.        *)
Taken(c, since) == [Idle EXCEPT !.at = "new", !.coords = c, !.since = since]

LEMMA TakenTyped ==
  ASSUME NEW c \in Spot, NEW since \in SUBSET Event
  PROVE  /\ Taken(c, since) \in HandRecord
         /\ Taken(c, since).at = "new" /\ Taken(c, since).coords = c /\ Taken(c, since).since = since
BY IdleTyped DEF Taken, HandRecord, Idle

LEMMA InsertStep ==
  ASSUME TravelInv, NEW r \in Run, NEW c \in Spot \cup {NoPlace, None}, Insert(r, c)
  PROVE  TravelInv'
<1> USE DEF stored, history
<1>1. TypeOK /\ hand \in [Hand -> HandRecord] /\ r \in Hand
  BY HandsTyped DEF TravelInv, Hand
<1>2. PICK q \in HandRecord :
        /\ hand' = [hand EXCEPT ![r] = q]
        /\ q.at \notin {"asked", "waits"} /\ KnowsWanted(q)
        /\ q.at = "new" => q.coords \in Spot /\ ("moved" \notin q.since => q.coords = coords')
  <2>1. CASE c \in Spot
    <3> DEFINE since == IF coords \in {"absent", c} THEN {} ELSE {"moved"}
    <3>1. hand' = [hand EXCEPT ![r] = Taken(c, since)] /\ since \in SUBSET Event
      BY <2>1 DEF Insert, Located, Taken, Event
    <3>2. "moved" \notin since => c = coords'
      BY DEF Insert
    <3> HIDE DEF since
    <3>3. /\ Taken(c, since) \in HandRecord /\ Taken(c, since).at = "new"
          /\ Taken(c, since).coords = c /\ Taken(c, since).since = since
      BY <2>1, <3>1, TakenTyped
    <3> QED
      BY <2>1, <3>1, <3>2, <3>3 DEF KnowsWanted
  <2>2. CASE c \notin Spot
    <3>1. hand' = [hand EXCEPT ![r] = Idle]
      BY <2>2 DEF Insert, Located
    <3>2. Idle.at = "idle"
      BY DEF Idle
    <3> QED
      BY <3>1, <3>2, IdleTyped DEF KnowsWanted
  <2> QED
    BY <2>1, <2>2
<1>3. /\ coords' = IF coords = "absent" THEN c ELSE coords
      /\ UNCHANGED <<out, wanted, rows, stamp, failures, unasked, late, adrift>>
      /\ events' \in 0 .. MaxEvents
  BY <1>1, TravelAssumption DEF Insert, OneMore, TypeOK
<1>4. hand' \in [Hand -> HandRecord] /\ hand'[r] = q /\ \A h \in Hand \ {r} : hand'[h] = hand[h]
  BY <1>1, <1>2
<1>5. TypeOK'
  <2>1. coords' \in Spot \cup {NoPlace, None, "absent"}
    BY <1>1, <1>3 DEF TypeOK
  <2> QED
    BY <1>1, <1>3, <1>4, <2>1 DEF TypeOK, HandRecord, Event
<1>6. coords' # "absent" /\ NowhereIsBlank'
  BY <1>3, TravelAssumption DEF NowhereIsBlank
<1>7. JourneysFromHere' /\ DoneMeansAnswered'
  <2>1. CASE coords = "absent"
    <3>1. stamp' = "never" /\ \A x \in Label : rows'[x] = None
      BY <1>3, <2>1 DEF TravelInv, NowhereIsBlank, NoRows
    <3> QED
      BY <3>1 DEF JourneysFromHere, DoneMeansAnswered
  <2>2. CASE coords # "absent"
    BY <1>3, <2>2 DEF TravelInv, JourneysFromHere, DoneMeansAnswered
  <2> QED
    BY <2>1, <2>2
<1>8. ASSUME NEW h \in Hand PROVE Agrees(h)'
  <2>1. CASE h = r
    <3>1. KnowsPlace(q)' /\ KnowsWanted(q)'
      BY <1>2, <1>3 DEF KnowsPlace, KnowsWanted
    <3> QED
      BY <1>2, <1>4, <2>1, <3>1 DEF Agrees, KnowsPlace, KnowsWanted
  <2>2. CASE h # r /\ coords = "absent"
    <3>1. hand'[h].at \in {"idle", "found"}
      BY <1>4, <2>2 DEF TravelInv, NowhereIsBlank
    <3> QED
      BY <3>1 DEF Agrees, KnowsPlace, KnowsWanted
  <2>3. CASE h # r /\ coords # "absent"
    <3>1. Agrees(h) /\ hand'[h] = hand[h] /\ UNCHANGED <<coords, wanted, rows, adrift>>
      BY <1>3, <1>4, <2>3 DEF TravelInv
    <3> QED
      BY <3>1 DEF Agrees, KnowsPlace, KnowsWanted, Good, FromHere, Answers, KeepsValid
  <2> QED
    BY <2>1, <2>2, <2>3
<1> QED
  BY <1>5, <1>6, <1>7, <1>8 DEF TravelInv

(* Whoever is at work when the listing moves or its owner wants something   *)
(* else is told, unless it has not read what changed.                       *)
LEMMA ToldHands ==
  ASSUME TypeOK, NEW event \in Event, hand' = Told(hand, event), NEW h \in Hand
  PROVE  /\ hand'[h] \in HandRecord
         /\ hand'[h].at = hand[h].at /\ hand'[h].coords = hand[h].coords
         /\ hand'[h].wanted = hand[h].wanted /\ hand'[h].plan = hand[h].plan
         /\ hand[h].since \subseteq hand'[h].since
         /\ hand[h].at = "waits" => event \in hand'[h].since
         /\ hand[h].at = "asked" /\ event # "written" => event \in hand'[h].since
         /\ hand[h].at = "new" /\ event = "moved" => event \in hand'[h].since
<1>1. hand \in [Hand -> HandRecord]
  BY HandsTyped
<1>2. hand'[h] \in HandRecord /\ Heard(hand, event, h)
  BY <1>1, ToldTyped
<1>3. Same(hand[h], hand'[h])
  BY <1>1, ToldSame
<1>4. /\ hand'[h].at = hand[h].at /\ hand'[h].coords = hand[h].coords
      /\ hand'[h].wanted = hand[h].wanted /\ hand'[h].plan = hand[h].plan
  BY <1>1, <1>2, <1>3, SameFields
<1> QED
  BY <1>2, <1>3, <1>4 DEF Heard, Same

LEMMA MovedAgrees ==
  ASSUME TravelInv, hand' = Told(hand, "moved"), UNCHANGED wanted, NEW h \in Hand,
         UNCHANGED rows \/ rows' = NoRows
  PROVE  Agrees(h)'
<1>1. TypeOK /\ Agrees(h)
  BY DEF TravelInv
<1>2. /\ hand'[h].at = hand[h].at /\ hand'[h].coords = hand[h].coords
      /\ hand'[h].wanted = hand[h].wanted /\ hand'[h].plan = hand[h].plan
      /\ hand[h].since \subseteq hand'[h].since
      /\ hand[h].at \in {"waits", "asked", "new"} => "moved" \in hand'[h].since
  BY <1>1, ToldHands DEF Event
<1>3. KnowsPlace(hand[h])' /\ KnowsWanted(hand[h])'
  BY <1>1, <1>2 DEF Agrees, KnowsPlace, KnowsWanted
<1>4. ASSUME hand'[h].at = "waits" PROVE Good(h, hand[h].plan, hand[h].since)'
  <2>1. "moved" \in hand'[h].since /\ Good(h, hand[h].plan, hand[h].since)
    BY <1>1, <1>2, <1>4 DEF Agrees
  <2>2. FromHere(hand[h].plan, hand[h].since)' /\ KeepsValid(hand[h].plan, hand[h].since)'
    BY <2>1 DEF FromHere, KeepsValid
  <2>3. Answers(hand[h].plan, hand[h].since)'
    BY <1>2, <2>1 DEF Good, Answers
  <2> QED
    BY <2>2, <2>3 DEF Good
<1> QED
  BY <1>3, <1>4 DEF Agrees

LEMMA PlaceByHandStep == ASSUME TravelInv, NEW c \in Spot, PlaceByHand(c) PROVE TravelInv'
<1>1. TypeOK
  BY DEF TravelInv
<1>2. /\ coords' = c /\ rows' = NoRows /\ stamp' = "never" /\ failures' = 0 /\ adrift' = FALSE
      /\ hand' = Told(hand, "moved") /\ UNCHANGED <<out, wanted>>
      /\ unasked' = {} /\ late' = FALSE
      /\ events < MaxEvents /\ events' = events + 1
  BY DEF PlaceByHand, OneMore
<1>3. hand' \in [Hand -> HandRecord]
  BY <1>1, <1>2, HandsTyped, ToldTyped DEF Event
<1>4. NoRows \in Rows /\ \A x \in Label : NoRows[x] = None
  BY DEF NoRows, Rows
<1>5. TypeOK'
  <2>1. events' \in 0 .. MaxEvents /\ failures' \in 0 .. Limit
    BY <1>1, <1>2, TravelAssumption DEF TypeOK
  <2> QED
    BY <1>1, <1>2, <1>3, <1>4, <2>1 DEF TypeOK, HandRecord, Event
<1>6. JourneysFromHere' /\ DoneMeansAnswered' /\ NowhereIsBlank'
  BY <1>2, <1>4, TravelAssumption DEF JourneysFromHere, DoneMeansAnswered, NowhereIsBlank
<1>7. \A h \in Hand : Agrees(h)'
  BY <1>2, MovedAgrees
<1> QED
  BY <1>5, <1>6, <1>7 DEF TravelInv

LEMMA LookUpStep == ASSUME TravelInv, NEW c \in Spot, LookUp(c) PROVE TravelInv'
<1> USE DEF stored
<1>1. TypeOK
  BY DEF TravelInv
<1>2. /\ coords' = c /\ adrift' = (adrift \/ rows # NoRows)
      /\ hand' = Told(hand, "moved") /\ UNCHANGED <<out, wanted, rows, stamp, failures, unasked, late>>
      /\ events < MaxEvents /\ events' = events + 1
  BY DEF LookUp, OneMore
<1>3. hand' \in [Hand -> HandRecord]
  BY <1>1, <1>2, HandsTyped, ToldTyped DEF Event
<1>4. TypeOK'
  <2>1. events' \in 0 .. MaxEvents /\ adrift' \in BOOLEAN
    BY <1>1, <1>2, TravelAssumption DEF TypeOK
  <2> QED
    BY <1>1, <1>2, <1>3, <2>1 DEF TypeOK, HandRecord, Event
<1>5. JourneysFromHere' /\ NowhereIsBlank'
  BY <1>2, TravelAssumption DEF JourneysFromHere, NowhereIsBlank, NoRows
<1>6. DoneMeansAnswered'
  BY <1>2 DEF TravelInv, DoneMeansAnswered
<1>7. \A h \in Hand : Agrees(h)'
  BY <1>2, MovedAgrees
<1> QED
  BY <1>4, <1>5, <1>6, <1>7 DEF TravelInv

(* New addresses make the listing due again, unless it is hidden or has no  *)
(* place, which the history notes, or is not stored.                        *)
LEMMA EditAddressesStep == ASSUME TravelInv, NEW w \in Books, EditAddresses(w) PROVE TravelInv'
<1>1. TypeOK
  BY DEF TravelInv
<1>2. /\ wanted' = w /\ hand' = Told(hand, "edited")
      /\ UNCHANGED <<coords, out, rows, adrift>>
      /\ events < MaxEvents /\ events' = events + 1
  BY DEF EditAddresses, OneMore
<1>3. \/ stamp' = "never" /\ failures' = 0 /\ unasked' = {} /\ late' = FALSE
      \/ late' = (late \/ coords # "absent") /\ UNCHANGED <<stamp, failures, unasked>>
  BY DEF EditAddresses
<1>4. hand' \in [Hand -> HandRecord]
  BY <1>1, <1>2, HandsTyped, ToldTyped DEF Event
<1>5. TypeOK'
  <2>1. events' \in 0 .. MaxEvents /\ late' \in BOOLEAN /\ unasked' \subseteq Label
    <3>1. late' \in BOOLEAN
      <4>1. late' \in {FALSE, late \/ coords # "absent"}
        BY <1>3
      <4> QED
        BY <4>1, <1>1 DEF TypeOK
    <3>2. events' \in 0 .. MaxEvents /\ unasked' \subseteq Label
      BY <1>1, <1>2, <1>3, TravelAssumption DEF TypeOK
    <3> QED
      BY <3>1, <3>2
  <2>2. stamp' \in {"never", "fresh", "stale"} /\ failures' \in 0 .. Limit
    BY <1>1, <1>3, TravelAssumption DEF TypeOK
  <2> QED
    BY <1>1, <1>2, <1>4, <2>1, <2>2 DEF TypeOK, HandRecord, Event
<1>6. JourneysFromHere'
  BY <1>2 DEF TravelInv, JourneysFromHere
<1>7. DoneMeansAnswered'
  BY <1>2, <1>3 DEF TravelInv, NowhereIsBlank, DoneMeansAnswered
<1>8. \A h \in Hand :
        /\ hand'[h].at = hand[h].at /\ hand'[h].coords = hand[h].coords
        /\ hand'[h].wanted = hand[h].wanted /\ hand'[h].plan = hand[h].plan
        /\ hand[h].since \subseteq hand'[h].since
        /\ hand[h].at \in {"waits", "asked"} => "edited" \in hand'[h].since
  BY <1>1, <1>2, ToldHands DEF Event
<1>9. NowhereIsBlank'
  BY <1>2, <1>3, <1>8 DEF TravelInv, NowhereIsBlank
<1>10. ASSUME NEW h \in Hand PROVE Agrees(h)'
  <2>1. Agrees(h)
    BY DEF TravelInv
  <2>2. KnowsPlace(hand[h])' /\ KnowsWanted(hand[h])'
    BY <1>2, <1>8, <2>1 DEF Agrees, KnowsPlace, KnowsWanted
  <2>3. ASSUME hand'[h].at = "waits" PROVE Good(h, hand[h].plan, hand[h].since)'
    <3>1. "edited" \in hand'[h].since /\ Good(h, hand[h].plan, hand[h].since)
      BY <1>8, <2>1, <2>3 DEF Agrees
    <3>2. Answers(hand[h].plan, hand[h].since)' /\ KeepsValid(hand[h].plan, hand[h].since)'
      BY <3>1 DEF Answers, KeepsValid
    <3>3. FromHere(hand[h].plan, hand[h].since)'
      BY <1>2, <1>8, <3>1 DEF Good, FromHere
    <3> QED
      BY <3>2, <3>3 DEF Good
  <2> QED
    BY <2>2, <2>3 DEF Agrees
<1> QED
  BY <1>5, <1>6, <1>7, <1>9, <1>10 DEF TravelInv

(* Nobody at work, and what is stored cleared, aged or left alone.          *)
LEMMA RestStep ==
  ASSUME TravelInv, Delete \/ Restart \/ TakeOut \/ PutBack
  PROVE  TravelInv'
<1> USE DEF stored, history
<1>1. TypeOK /\ hand \in [Hand -> HandRecord] /\ Idle \in HandRecord /\ Idle.at = "idle"
  BY HandsTyped, IdleTyped DEF TravelInv, Idle
<1>2. CASE Delete
  <2>1. hand' \in [Hand -> HandRecord] /\ \A h \in Hand : hand'[h].at \in {"idle", "found"}
    BY <1>1, <1>2 DEF Delete
  <2>2. NoRows \in Rows
    BY DEF NoRows, Rows
  <2>3. 0 \in 0 .. Limit
    BY TravelAssumption
  <2>4. TypeOK'
    BY <1>1, <1>2, <2>1, <2>2, <2>3 DEF Delete, TypeOK, HandRecord, Event
  <2>5. JourneysFromHere' /\ DoneMeansAnswered' /\ NowhereIsBlank'
    BY <1>2, <2>1, TravelAssumption DEF Delete, JourneysFromHere, DoneMeansAnswered, NowhereIsBlank, Located
  <2>6. \A h \in Hand : Agrees(h)'
    BY <2>1 DEF Agrees, KnowsPlace, KnowsWanted
  <2> QED
    BY <2>4, <2>5, <2>6 DEF TravelInv
<1>3. CASE Restart
  <2>1. hand' \in [Hand -> HandRecord] /\ \A h \in Hand : hand'[h].at = "idle"
    BY <1>1, <1>3 DEF Restart
  <2>2. TypeOK'
    BY <1>1, <1>3, <2>1 DEF Restart, TypeOK, HandRecord, Event
  <2>3. JourneysFromHere' /\ DoneMeansAnswered' /\ NowhereIsBlank'
    BY <1>3, <2>1 DEF TravelInv, Restart, JourneysFromHere, DoneMeansAnswered, NowhereIsBlank
  <2>4. \A h \in Hand : Agrees(h)'
    BY <2>1 DEF Agrees, KnowsPlace, KnowsWanted
  <2> QED
    BY <2>2, <2>3, <2>4 DEF TravelInv
<1>4. CASE TakeOut \/ PutBack
  <2>1. out' \in BOOLEAN
        /\ UNCHANGED <<coords, wanted, rows, stamp, failures, hand, events, unasked, late, adrift>>
    BY <1>4 DEF TakeOut, PutBack
  <2>2. TypeOK' /\ JourneysFromHere' /\ DoneMeansAnswered' /\ NowhereIsBlank'
    BY <1>1, <2>1 DEF TravelInv, TypeOK, JourneysFromHere, DoneMeansAnswered, NowhereIsBlank
  <2>3. \A h \in Hand : Agrees(h)'
    BY <2>1 DEF TravelInv, Agrees, KnowsPlace, KnowsWanted, Good, FromHere, Answers, KeepsValid
  <2> QED
    BY <2>2, <2>3 DEF TravelInv
<1> QED
  BY <1>2, <1>3, <1>4

LEMMA AgeStep == ASSUME TravelInv, NEW younger \in BOOLEAN, Age(younger) PROVE TravelInv'
<1> USE DEF history
<1>1. TypeOK /\ \A h \in Hand : hand[h].at = "idle"
  BY DEF TravelInv, Age
<1>2. /\ UNCHANGED <<coords, out, wanted, failures, hand, events, adrift>>
      /\ stamp' \in {stamp, "stale"} /\ (stamp # "fresh" => stamp' = stamp)
      /\ stamp' = "fresh" => UNCHANGED <<unasked, late>>
      /\ unasked' \subseteq Label /\ late' \in BOOLEAN
  BY <1>1 DEF Age, TypeOK
<1>3. ASSUME NEW x \in Label
      PROVE  /\ rows'[x] \in Journey \cup {None}
             /\ rows[x] = None <=> rows'[x] = None
             /\ rows[x] # None => rows'[x].from = rows[x].from /\ rows'[x].origin = rows[x].origin
  <2>1. rows[x] \in Journey \cup {None}
    BY <1>1 DEF TypeOK, Rows
  <2>2. rows'[x] = IF rows[x] = None THEN None ELSE [rows[x] EXCEPT !.fresh = FALSE]
    BY DEF Age
  <2>3. CASE rows[x] = None
    BY <2>2, <2>3
  <2>4. CASE rows[x] # None
    <3>1. rows'[x] \in Journey /\ rows'[x].from = rows[x].from /\ rows'[x].origin = rows[x].origin
      BY <2>1, <2>2, <2>4 DEF Journey
    <3> QED
      BY <2>4, <3>1, TravelAssumption
  <2> QED
    BY <2>3, <2>4
<1>4. rows' \in Rows /\ (rows = NoRows => rows' = NoRows)
  <2>1. rows' = [x \in Label |-> rows'[x]] /\ NoRows = [x \in Label |-> None]
    BY DEF Age, NoRows
  <2>2. rows = NoRows => \A x \in Label : rows'[x] = None
    BY <1>3 DEF NoRows
  <2> QED
    BY <1>3, <2>1, <2>2 DEF Rows
<1>5. TypeOK'
  BY <1>1, <1>2, <1>4 DEF TypeOK
<1>6. JourneysFromHere'
  BY <1>2, <1>3 DEF TravelInv, JourneysFromHere
<1>7. DoneMeansAnswered'
  BY <1>2, <1>3 DEF TravelInv, DoneMeansAnswered
<1>8. NowhereIsBlank'
  BY <1>1, <1>2, <1>4 DEF TravelInv, NowhereIsBlank
<1>9. \A h \in Hand : Agrees(h)'
  BY <1>1, <1>2 DEF Agrees, KnowsPlace, KnowsWanted
<1> QED
  BY <1>5, <1>6, <1>7, <1>8, <1>9 DEF TravelInv

-----------------------------------------------------------------------------
LEMMA InvStep == ASSUME TravelInv, [Next]_vars PROVE TravelInv'
<1>1. CASE ServiceStep
  <2>1. CASE Sweep
    BY <2>1, StartSweepStep DEF Sweep
  <2>2. CASE \E r \in Run, silent \in SUBSET Rail : StartJob(r, silent)
    BY <2>2, StartJobStep
  <2>3. CASE \E r \in Run : JobGoesOn(r)
    BY <2>3, JobGoesOnStep
  <2>4. CASE \E h \in {"sweep"} \cup Run : Updated(h)
    BY <2>4, UpdateStep DEF Updated
  <2>5. CASE \E h \in Hand : Save(h)
    BY <2>5, SaveStep
  <2>6. CASE Refinement
    BY <2>6, OpenPageStep DEF Refinement
  <2> QED
    BY <1>1, <2>1, <2>2, <2>3, <2>4, <2>5, <2>6 DEF ServiceStep
<1>2. CASE UserStep
  <2>1. CASE \E r \in Run : Find(r) \/ \E c \in Spot \cup {NoPlace, None} : Insert(r, c)
    BY <2>1, FindStep, InsertStep
  <2>2. CASE \E c \in Spot : PlaceByHand(c) \/ LookUp(c)
    BY <2>2, PlaceByHandStep, LookUpStep
  <2>3. CASE \E w \in Books : EditAddresses(w)
    BY <2>3, EditAddressesStep
  <2>4. CASE TakeOut \/ PutBack \/ Delete
    BY <2>4, RestStep
  <2> QED
    BY <1>2, <2>1, <2>2, <2>3, <2>4 DEF UserStep
<1>3. CASE \E younger \in BOOLEAN : Age(younger)
  BY <1>3, AgeStep
<1>4. CASE Restart
  BY <1>4, RestStep
<1>5. CASE UNCHANGED vars
  <2>1. UNCHANGED <<coords, out, wanted, rows, stamp, failures, hand, events, unasked, late, adrift>>
    BY <1>5 DEF vars, stored, history
  <2>2. TypeOK' /\ JourneysFromHere' /\ DoneMeansAnswered' /\ NowhereIsBlank'
    BY <2>1 DEF TravelInv, TypeOK, JourneysFromHere, DoneMeansAnswered, NowhereIsBlank
  <2>3. \A h \in Hand : Agrees(h)'
    BY <2>1 DEF TravelInv, Agrees, KnowsPlace, KnowsWanted, Good, FromHere, Answers, KeepsValid
  <2> QED
    BY <2>2, <2>3 DEF TravelInv
<1> QED
  BY <1>1, <1>2, <1>3, <1>4, <1>5 DEF Next

LEMMA AlwaysTravelInv == Spec => []TravelInv
<1>1. TravelInv /\ [Next]_vars => TravelInv'
  BY InvStep
<1> QED
  BY InitHolds, <1>1, PTL DEF Spec

(* However the hands on a listing overlap, with the listing moving, its     *)
(* owner editing and the services failing in between, what is stored of its *)
(* journeys is from where it is to where its owner wants to go.             *)
THEOREM JourneysStayStanding == Spec => []JourneysStand
<1>1. TravelInv => JourneysStand
  BY DEF TravelInv, JourneysStand
<1> QED
  BY <1>1, AlwaysTravelInv, PTL

-----------------------------------------------------------------------------
(* A hand that comes to its end has kept what still holds.                  *)
Ends(h) == hand[h].at # "idle" /\ hand'[h].at = "idle" /\ hand[h].since = {} /\ coords' # "absent"

LEMMA WriteKeeps ==
  ASSUME TravelInv, NEW g \in Hand, NEW plan, Write(g, plan, hand[g].since),
         Good(g, plan, hand[g].since),
         NEW h \in {"sweep"} \cup Run, NEW x \in Label, Ends(h), StillValid(rows[x], wanted[x])
  PROVE  rows'[x] = rows[x]
<1>1. TypeOK /\ hand \in [Hand -> HandRecord] /\ h \in Hand
  BY HandsTyped DEF TravelInv, Hand
<1>2. g = h
  <2> SUFFICES ASSUME g # h PROVE FALSE
    OBVIOUS
  <2>1. hand'[h] \in HandRecord /\ Same(hand[h], hand'[h])
    BY <1>1, WriteHands
  <2>2. hand'[h].at = hand[h].at
    BY <1>1, <2>1, SameFields
  <2> QED
    BY <2>2 DEF Ends
<1>3. CASE plan.verdict \in {"more", "done"}
  <2>1. KeepsValid(plan, {}) /\ rows' = plan.rows
    BY <1>2, <1>3, TravelAssumption DEF Good, Ends, Write
  <2> QED
    BY <1>3, <2>1 DEF KeepsValid
<1>4. CASE plan.verdict \notin {"more", "done"}
  BY <1>4 DEF Write
<1> QED
  BY <1>3, <1>4

LEMMA KeepStep ==
  ASSUME TravelInv, [Next]_vars,
         NEW h \in {"sweep"} \cup Run, NEW x \in Label, Ends(h), StillValid(rows[x], wanted[x])
  PROVE  rows'[x] = rows[x]
<1> USE DEF stored
<1>1. ASSUME NEW g \in {"sweep"} \cup Run, NEW u \in Updates(hand[g]), Update(g, u)
      PROVE  rows'[x] = rows[x]
  <2>1. g \in Hand /\ Good(g, PlanOf(u), hand[g].since)
    BY <1>1, PlanOfGood DEF Update, Hand
  <2>2. CASE \E y \in DOMAIN u : u[y].waited
    BY <1>1, <2>2 DEF Update
  <2>3. CASE ~ \E y \in DOMAIN u : u[y].waited
    <3>1. Write(g, PlanOf(u), hand[g].since)
      BY <1>1, <2>3 DEF Update
    <3> QED
      BY <2>1, <3>1, WriteKeeps
  <2> QED
    BY <2>2, <2>3
<1>2. ASSUME NEW g \in Hand, Save(g) PROVE rows'[x] = rows[x]
  <2>1. hand[g].at = "waits" /\ Write(g, hand[g].plan, hand[g].since)
    BY <1>2 DEF Save
  <2>2. Good(g, hand[g].plan, hand[g].since)
    BY <2>1, SaveGood
  <2> QED
    BY <2>1, <2>2, WriteKeeps
<1>3. ASSUME NEW c \in Spot, PlaceByHand(c) PROVE rows'[x] = rows[x]
  <2>1. hand'[h].at = hand[h].at
    BY <1>3, ToldHands DEF PlaceByHand, TravelInv, Event, Hand
  <2> QED
    BY <2>1 DEF Ends
<1>4. CASE Delete \/ \E younger \in BOOLEAN : Age(younger)
  BY <1>4 DEF Delete, Age, Ends, Hand
<1>5. CASE UNCHANGED rows
  BY <1>5
<1>6. CASE ServiceStep
  <2>1. CASE \/ Sweep \/ Refinement
             \/ \E r \in Run : JobGoesOn(r) \/ \E silent \in SUBSET Rail : StartJob(r, silent)
    BY <1>5, <2>1 DEF Sweep, StartSweep, JobGoesOn, Refinement, OpenPage, StartJob
  <2> QED
    BY <1>1, <1>2, <1>6, <2>1 DEF ServiceStep, Updated
<1>7. CASE UserStep
  <2>1. CASE \/ \E r \in Run : Find(r) \/ \E c \in Spot \cup {NoPlace, None} : Insert(r, c)
             \/ \E c \in Spot : LookUp(c)
             \/ \E w \in Books : EditAddresses(w)
             \/ TakeOut \/ PutBack
    BY <1>5, <2>1 DEF Find, Insert, LookUp, EditAddresses, TakeOut, PutBack
  <2> QED
    BY <1>3, <1>4, <1>7, <2>1 DEF UserStep
<1>8. CASE Restart \/ UNCHANGED vars
  BY <1>5, <1>8 DEF Restart, vars
<1> QED
  BY <1>4, <1>6, <1>7, <1>8 DEF Next

(* The sweep and the runs lose no journey that still holds when they        *)
(* come to their end undisturbed, and so never ask for it again.            *)
THEOREM NoValidJourneyIsLost == Spec => ValidJourneysStay
<1>1. TravelInv /\ [Next]_vars =>
        [\A h \in {"sweep"} \cup Run, x \in Label :
           /\ hand[h].at # "idle" /\ hand'[h].at = "idle" /\ hand[h].since = {}
           /\ coords' # "absent"
           /\ StillValid(rows[x], wanted[x])
           => rows'[x] = rows[x]]_vars
  BY KeepStep DEF Ends
<1> QED
  BY <1>1, AlwaysTravelInv, PTL DEF Spec, ValidJourneysStay
=============================================================================
