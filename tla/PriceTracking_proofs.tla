------------------------ MODULE PriceTracking_proofs ------------------------
(***************************************************************************)
(* What the two lanes may write, for every set of adverts and prices, every *)
(* threshold and every number of moves of the portal.  The price and its   *)
(* chart move together because a lane only records for a row that is still *)
(* there: so the invariant says that every row a lane holds and that is    *)
(* gone is known to be gone (Noticed).                                     *)
(***************************************************************************)
EXTENDS PriceTracking, TLAPS

Noticed ==
  /\ tracker.looked \subseteq tracker.todo
  /\ \A a \in (tracker.todo \cup tracker.done) \ tracker.gone : stored[a] # "absent"
  /\ \A a \in scrape.looked \ scrape.gone : stored[a] # "absent"

PriceInv == TypeOK /\ CurrentIsLastPoint /\ Noticed

TrackerPCs == {"idle", "probing", "telling"}
ScrapePCs == {"idle", "read", "compared", "recording", "telling", "saving"}

LEMMA IdleLane == Idle \in LaneState(TrackerPCs) /\ Idle \in LaneState(ScrapePCs)
BY DEF Idle, LaneState, Shown, TrackerPCs, ScrapePCs

LEMMA InitHolds == Init => PriceInv
BY PriceAssumption, IdleLane DEF Init, PriceInv, TypeOK, CurrentIsLastPoint, Noticed, Idle,
   Shown, TrackerPCs, ScrapePCs

(* What a lane holds of rows that are still stored it may record.           *)
LEMMA RecordKeeps ==
  ASSUME TypeOK, CurrentIsLastPoint, NEW PCs, NEW lane \in LaneState(PCs),
         NEW S \in SUBSET Advert, \A a \in S : stored[a] # "absent",
         Record(lane, S), UNCHANGED stored
  PROVE  /\ price' \in [Advert -> Shown] /\ last' \in [Advert -> Shown]
         /\ torn' \subseteq Advert
         /\ \A a \in Advert : stored[a] = "absent" => price'[a] = NoPrice /\ last'[a] = NoPrice
         /\ CurrentIsLastPoint'
BY DEF Record, Chart, LaneState, Shown, TypeOK, CurrentIsLastPoint

LEMMA TrackerSteps ==
  ASSUME PriceInv, TrackerStep
  PROVE  PriceInv'
<1> USE PriceAssumption DEF PriceInv
<1>1. ASSUME NEW batch \in SUBSET Advert, StartTracker(batch) PROVE PriceInv'
  <2>1. tracker' \in LaneState(TrackerPCs)
    BY <1>1 DEF StartTracker, Idle, LaneState, TypeOK, Shown, TrackerPCs
  <2>2. TypeOK' /\ CurrentIsLastPoint'
    BY <1>1, <2>1 DEF StartTracker, TypeOK, CurrentIsLastPoint, TrackerPCs, row, history
  <2>3. Noticed'
    BY <1>1 DEF StartTracker, Noticed, Idle, row, TypeOK
  <2> QED
    BY <2>2, <2>3
<1>2. ASSUME NEW a \in Advert, NEW seen \in Shown, Look(a, seen) PROVE PriceInv'
  <2>1. tracker' \in LaneState(TrackerPCs)
    BY <1>2 DEF Look, LaneState, TypeOK, Shown, TrackerPCs
  <2>2. TypeOK' /\ CurrentIsLastPoint'
    BY <1>2, <2>1 DEF Look, TypeOK, CurrentIsLastPoint, TrackerPCs, row, history
  <2>3. Noticed'
    BY <1>2 DEF Look, Noticed, LaneState, TypeOK, row
  <2> QED
    BY <2>2, <2>3
<1>3. ASSUME NEW a \in Advert, TrackerRecord(a) PROVE PriceInv'
  <2>1. tracker' \in LaneState(TrackerPCs)
    BY <1>3 DEF TrackerRecord, Changes, LaneState, TypeOK, TrackerPCs
  <2>2. \A b \in {a} \ tracker.gone : stored[b] # "absent"
    BY <1>3 DEF TrackerRecord, Noticed
  <2>3. /\ price' \in [Advert -> Shown] /\ last' \in [Advert -> Shown]
        /\ torn' \subseteq Advert
        /\ \A b \in Advert : stored[b] = "absent" => price'[b] = NoPrice /\ last'[b] = NoPrice
        /\ CurrentIsLastPoint'
    BY <1>3, <2>2, RecordKeeps DEF TrackerRecord, TypeOK
  <2>4. TypeOK'
    BY <1>3, <2>1, <2>3 DEF TrackerRecord, TypeOK, TrackerPCs
  <2>5. Noticed'
    BY <1>3 DEF TrackerRecord, Noticed, LaneState, TypeOK
  <2> QED
    BY <2>3, <2>4, <2>5
<1>4. ASSUME FinishTracker PROVE PriceInv'
  <2>1. tracker' \in LaneState(TrackerPCs)
    BY <1>4 DEF FinishTracker, LaneState, TypeOK, TrackerPCs
  <2>2. TypeOK' /\ CurrentIsLastPoint'
    BY <1>4, <2>1 DEF FinishTracker, TypeOK, CurrentIsLastPoint, TrackerPCs, history
  <2>3. Noticed'
    BY <1>4 DEF FinishTracker, Noticed, LaneState, TypeOK
  <2> QED
    BY <2>2, <2>3
<1>5. ASSUME TellTracker PROVE PriceInv'
  BY <1>5, IdleLane DEF TellTracker, TypeOK, CurrentIsLastPoint, Noticed, Idle, TrackerPCs,
     row, history
<1>6. \A a \in Advert : portal[a] \in Shown
  BY DEF TypeOK
<1> QED
  BY <1>1, <1>2, <1>3, <1>4, <1>5, <1>6 DEF TrackerStep, Shown

LEMMA ScrapeSteps ==
  ASSUME PriceInv, ScrapeStep
  PROVE  PriceInv'
<1> USE PriceAssumption DEF PriceInv
<1>1. ASSUME NEW found \in SUBSET Advert, ReadPage(found) PROVE PriceInv'
  <2>1. scrape' \in LaneState(ScrapePCs)
    BY <1>1 DEF ReadPage, Idle, LaneState, TypeOK, Shown, ScrapePCs
  <2>2. TypeOK' /\ CurrentIsLastPoint'
    BY <1>1, <2>1 DEF ReadPage, TypeOK, CurrentIsLastPoint, ScrapePCs, row, history
  <2>3. Noticed'
    BY <1>1 DEF ReadPage, Noticed, Idle, row
  <2> QED
    BY <2>2, <2>3
<1>2. ASSUME Compare PROVE PriceInv'
  <2> DEFINE new == {a \in scrape.todo : stored[a] = "absent" \/ key[a] # scrape.read[a]}
  <2>1. CASE new = {}
    <3>1. scrape' = Idle /\ UNCHANGED <<portal, moves, row, tracker>>
      BY <1>2, <2>1 DEF Compare
    <3> HIDE DEF new
    <3>2. TypeOK' /\ CurrentIsLastPoint'
      BY <3>1, IdleLane DEF TypeOK, CurrentIsLastPoint, ScrapePCs, row, history
    <3>3. Noticed'
      BY <3>1 DEF Noticed, Idle, row
    <3> QED
      BY <3>2, <3>3
  <2>2. CASE new # {}
    <3>1. scrape' = [scrape EXCEPT
                       !.pc = IF \E a \in new : stored[a] # "absent"
                              THEN "compared" ELSE "saving",
                       !.todo = {a \in new : stored[a] = "absent"},
                       !.looked = {a \in new : stored[a] # "absent"},
                       !.hidden = {a \in new : stored[a] = "hidden"},
                       !.rows = price]
      BY <1>2, <2>2 DEF Compare
    <3>2. new \subseteq Advert
      BY DEF TypeOK, LaneState
    <3> HIDE DEF new
    <3>3. scrape' \in LaneState(ScrapePCs)
      BY <3>1, <3>2 DEF LaneState, TypeOK, ScrapePCs
    <3>4. UNCHANGED <<portal, moves, row, tracker>>
      BY <1>2 DEF Compare
    <3>5. scrape'.looked = {a \in new : stored[a] # "absent"}
      BY <3>1 DEF LaneState, TypeOK
    <3>6. TypeOK' /\ CurrentIsLastPoint'
      BY <3>3, <3>4 DEF TypeOK, CurrentIsLastPoint, ScrapePCs, row, history
    <3>7. Noticed'
      BY <3>4, <3>5 DEF Noticed, row
    <3> QED
      BY <3>6, <3>7
  <2> QED
    BY <2>1, <2>2
<1>3. ASSUME NEW a \in Advert, ScrapeRecord(a) PROVE PriceInv'
  <2> DEFINE mine == {a} \ (scrape.gone \cup scrape.hidden)
  <2>1. scrape' \in LaneState(ScrapePCs)
    <3>1. CASE scrape' = Idle
      BY <3>1, IdleLane
    <3>2. CASE scrape' = [scrape EXCEPT !.pc = "recording", !.looked = @ \ {a},
                              !.done = @ \cup {a},
                              !.changes = @ \cup Changes(scrape, mine)]
      BY <3>2 DEF Changes, LaneState, TypeOK, ScrapePCs
    <3> QED
      BY <1>3, <3>1, <3>2 DEF ScrapeRecord
  <2>2. \A b \in mine : stored[b] # "absent"
    BY <1>3 DEF ScrapeRecord, Noticed
  <2>3. /\ price' \in [Advert -> Shown] /\ last' \in [Advert -> Shown]
        /\ torn' \subseteq Advert
        /\ \A b \in Advert : stored[b] = "absent" => price'[b] = NoPrice /\ last'[b] = NoPrice
        /\ CurrentIsLastPoint'
    BY <1>3, <2>2, RecordKeeps DEF ScrapeRecord, TypeOK
  <2>4. /\ key' \in [Advert -> Shown]
        /\ \A b \in Advert : stored[b] = "absent" => key'[b] = NoPrice
    BY <1>3 DEF ScrapeRecord, Noticed, LaneState, TypeOK
  <2>5. TypeOK'
    BY <1>3, <2>1, <2>3, <2>4 DEF ScrapeRecord, TypeOK, ScrapePCs
  <2>6. scrape'.looked \subseteq scrape.looked /\ (scrape'.looked = {} \/ scrape'.gone = scrape.gone)
    BY <1>3 DEF ScrapeRecord, LaneState, TypeOK, Idle
  <2>7. Noticed'
    BY <1>3, <2>6 DEF ScrapeRecord, Noticed
  <2> QED
    BY <2>3, <2>5, <2>7
<1>4. ASSUME FinishRecord PROVE PriceInv'
  <2>1. scrape' \in LaneState(ScrapePCs)
    BY <1>4 DEF FinishRecord, LaneState, TypeOK, ScrapePCs
  <2>2. TypeOK' /\ CurrentIsLastPoint'
    BY <1>4, <2>1 DEF FinishRecord, TypeOK, CurrentIsLastPoint, ScrapePCs, history
  <2>3. Noticed'
    BY <1>4 DEF FinishRecord, Noticed, LaneState, TypeOK
  <2> QED
    BY <2>2, <2>3
<1>5. ASSUME TellScrape PROVE PriceInv'
  <2>1. scrape' \in LaneState(ScrapePCs) /\ scrape'.looked \subseteq scrape.looked
        /\ (scrape'.looked = {} \/ scrape'.gone = scrape.gone)
    BY <1>5, IdleLane DEF TellScrape, Idle, LaneState, TypeOK, ScrapePCs
  <2>2. TypeOK' /\ CurrentIsLastPoint'
    BY <1>5, <2>1 DEF TellScrape, TypeOK, CurrentIsLastPoint, ScrapePCs, row, history
  <2>3. Noticed'
    BY <1>5, <2>1 DEF TellScrape, Noticed, row
  <2> QED
    BY <2>2, <2>3
<1>6. ASSUME NEW S \in SUBSET Advert, SaveNew(S) PROVE PriceInv'
  <2>1. /\ \A a \in Advert : stored'[a] = "absent" =>
             stored[a] = "absent" /\ a \notin S
        /\ \A a \in Advert : stored[a] # "absent" => stored'[a] = stored[a]
        /\ \A a \in Advert : price'[a] = price[a] \/ stored[a] = "absent"
    BY <1>6 DEF SaveNew, TypeOK
  <2>2. TypeOK'
    BY <1>6, IdleLane DEF SaveNew, TypeOK, LaneState, ScrapePCs, Shown, history
  <2>3. CurrentIsLastPoint'
    BY <1>6, <2>1 DEF SaveNew, CurrentIsLastPoint, TypeOK, history
  <2>4. Noticed'
    BY <1>6, <2>1 DEF SaveNew, Noticed, Idle, TypeOK, LaneState
  <2> QED
    BY <2>2, <2>3, <2>4
<1> QED
  BY <1>1, <1>2, <1>3, <1>4, <1>5, <1>6 DEF ScrapeStep

LEMMA OtherSteps ==
  ASSUME PriceInv, OtherStep
  PROVE  PriceInv'
<1> USE PriceAssumption DEF PriceInv
<1>1. ASSUME NEW a \in Advert, NEW p \in Shown, Reprice(a, p) PROVE PriceInv'
  BY <1>1 DEF Reprice, TypeOK, CurrentIsLastPoint, Noticed, row, history
<1>2. ASSUME NEW a \in Advert, SoftDelete(a) \/ Restore(a) \/ Expire(a) PROVE PriceInv'
  BY <1>2 DEF SoftDelete, Restore, Expire, TypeOK, CurrentIsLastPoint, Noticed, LaneState,
     history
<1>3. ASSUME NEW a \in Advert, HardDelete(a) PROVE PriceInv'
  <2>1. tracker' \in LaneState(TrackerPCs) /\ scrape' \in LaneState(ScrapePCs)
    BY <1>3 DEF HardDelete, LaneState, TypeOK, TrackerPCs, ScrapePCs
  <2>2. TypeOK'
    BY <1>3, <2>1 DEF HardDelete, TypeOK, Shown, TrackerPCs, ScrapePCs
  <2>3. CurrentIsLastPoint'
    BY <1>3 DEF HardDelete, CurrentIsLastPoint, TypeOK
  <2>4. Noticed'
    BY <1>3 DEF HardDelete, Noticed, LaneState, TypeOK
  <2> QED
    BY <2>2, <2>3, <2>4
<1>4. ASSUME NEW a \in Advert, RestartTorn(a) PROVE PriceInv'
  <2>1. PICK lane \in {tracker, scrape} :
          KilledIn(lane, a) /\ a \in lane.looked \ lane.gone
          /\ (key' = key \/ key' = [key EXCEPT ![a] = lane.read[a]])
    BY <1>4 DEF RestartTorn, KilledIn
  <2>2. stored[a] # "absent" /\ lane.read \in [Advert -> Shown]
    BY <2>1 DEF Noticed, TypeOK, LaneState
  <2>3. TypeOK'
    BY <2>1, <2>2, IdleLane DEF KilledIn, Chart, TypeOK, TrackerPCs, ScrapePCs
  <2>4. CurrentIsLastPoint'
    BY <2>1 DEF KilledIn, Chart, CurrentIsLastPoint
  <2>5. Noticed'
    BY <2>1 DEF KilledIn, Noticed, Idle
  <2> QED
    BY <2>3, <2>4, <2>5
<1>5. ASSUME Restart PROVE PriceInv'
  BY <1>5, IdleLane DEF Restart, TypeOK, CurrentIsLastPoint, Noticed, Idle, TrackerPCs,
     ScrapePCs, row, history
<1> QED
  BY <1>1, <1>2, <1>3, <1>4, <1>5 DEF OtherStep

LEMMA NextHolds == PriceInv /\ [Next]_vars => PriceInv'
<1> SUFFICES ASSUME PriceInv, [Next]_vars PROVE PriceInv'
  OBVIOUS
<1>1. CASE Next
  BY <1>1, TrackerSteps, ScrapeSteps, OtherSteps DEF Next
<1>2. CASE UNCHANGED vars
  BY <1>2 DEF PriceInv, TypeOK, CurrentIsLastPoint, Noticed, vars, row, history
<1> QED
  BY <1>1, <1>2

LEMMA AlwaysPriceInv == Spec => []PriceInv
BY InitHolds, NextHolds, PTL DEF Spec

(* Rows, lanes and charts are well typed, and no price, hash or chart       *)
(* outlives its row.                                                        *)
THEOREM TypeCorrect == Spec => []TypeOK
<1>1. PriceInv => TypeOK
  BY DEF PriceInv
<1> QED
  BY <1>1, AlwaysPriceInv, PTL

(* The price a row shows is the last point of its chart, unless the process *)
(* was killed between the two statements that write them.                   *)
THEOREM ChartEndsAtPrice == Spec => []CurrentIsLastPoint
<1>1. PriceInv => CurrentIsLastPoint
  BY DEF PriceInv
<1> QED
  BY <1>1, AlwaysPriceInv, PTL

=============================================================================
