--------------------------- MODULE PriceTracking ---------------------------
(***************************************************************************)
(* What an advert costs, as two lanes learn it: the price tracker          *)
(* (runPriceTracker, every other day), which reads the page of each due    *)
(* row, and the job run of a price-tracked provider, which finds an        *)
(* advert it knows under a new hash because the hash includes the price    *)
(* (_splitOffPriceChanges).  Both write through recordPriceChange and      *)
(* announce through notifyPriceChanges; the tracker compares with the row  *)
(* it read when its sweep began, the run with the row it read before it    *)
(* awaited the settings.                                                   *)
(*                                                                         *)
(* An advert stands for its link, price-tracked providers having one row   *)
(* per link.  The link never changes; the portal's price does.             *)
(***************************************************************************)
EXTENDS Integers, FiniteSets

CONSTANTS
  Advert,
  Price,        \* the prices a portal shows
  NoPrice,      \* no price could be read, or the column is NULL
  Threshold,    \* priceChangeThresholdPercent
  MaxMoves      \* bound: how often the portal changes a price

ASSUME PriceAssumption ==
  /\ Price \subseteq Nat \ {0}
  /\ NoPrice \notin Nat
  /\ Threshold \in Nat
  /\ MaxMoves \in Nat

VARIABLES
  portal,      \* what the page of the advert shows
  moves,       \* how often it changed
  stored,      \* the row of the advert: "absent", "visible" or "hidden"
  price,       \* listings.price
  key,         \* the price in the row's hash
  due,         \* rows whose last_price_check_at is old or NULL
  last,        \* the latest point in listing_price_history
  torn,        \* killed between the history row and the price
  tracker,     \* the tracker's sweep in flight
  scrape       \* the job run in flight

history == <<last, torn>>
row == <<stored, price, key, due, history>>
vars == <<portal, moves, row, tracker, scrape>>

Shown == Price \cup {NoPrice}

(* read: the prices in hand; rows: the rows' prices they are compared with. *)
LaneState(PCs) == [pc : PCs, todo : SUBSET Advert, looked : SUBSET Advert,
                   read : [Advert -> Shown], rows : [Advert -> Shown],
                   gone : SUBSET Advert, hidden : SUBSET Advert,
                   done : SUBSET Advert, changes : SUBSET Advert]
Idle == [pc |-> "idle", todo |-> {}, looked |-> {},
         read |-> [a \in Advert |-> NoPrice], rows |-> [a \in Advert |-> NoPrice],
         gone |-> {}, hidden |-> {}, done |-> {}, changes |-> {}]

(* The last conjunct: no price, hash or chart without its row.              *)
TypeOK ==
  /\ portal \in [Advert -> Shown]
  /\ moves \in 0..MaxMoves
  /\ stored \in [Advert -> {"absent", "visible", "hidden"}]
  /\ price \in [Advert -> Shown]
  /\ key \in [Advert -> Shown]
  /\ due \subseteq Advert
  /\ last \in [Advert -> Shown]
  /\ torn \subseteq Advert
  /\ tracker \in LaneState({"idle", "probing", "telling"})
  /\ scrape \in LaneState({"idle", "read", "compared", "recording",
                        "telling", "saving"})
  /\ \A a \in Advert : stored[a] = "absent" =>
       price[a] = NoPrice /\ key[a] = NoPrice /\ last[a] = NoPrice /\ a \notin due

Init ==
  /\ portal \in [Advert -> Price]
  /\ moves = 0
  /\ stored = [a \in Advert |-> "absent"]
  /\ price = [a \in Advert |-> NoPrice]
  /\ key = [a \in Advert |-> NoPrice]
  /\ due = {}
  /\ last = [a \in Advert |-> NoPrice]
  /\ torn = {}
  /\ tracker = Idle
  /\ scrape = Idle

-----------------------------------------------------------------------------
(* recordPriceChange.                                                      *)

(* No reading, or nothing moved against the row the caller read.            *)
Moved(old, new) == new # NoPrice /\ new # old

(* Worth telling: at or above the threshold of a price that was known.      *)
Notable(old, new) ==
  /\ Moved(old, new)
  /\ old # NoPrice
  /\ 100 * (IF new > old THEN new - old ELSE old - new) >= Threshold * old

(* recordPriceObservation.                                                  *)
Chart(lane, S) ==
  last' = [a \in Advert |-> IF a \in S THEN lane.read[a] ELSE last[a]]

(* A bug: only what is worth telling is worth storing.                      *)
RecordNotable(lane, S) ==
  LET moved == {a \in S : Notable(lane.rows[a], lane.read[a])}
  IN  /\ price' = [a \in Advert |-> IF a \in moved THEN lane.read[a] ELSE price[a]]
      /\ Chart(lane, moved)
      /\ torn' = torn \ moved

(* A bug: the point goes to the history, the row keeps its price.           *)
RecordPointOnly(lane, S) ==
  LET moved == {a \in S : Moved(lane.rows[a], lane.read[a])}
  IN  Chart(lane, moved) /\ UNCHANGED <<price, torn>>

(* recordPriceObservation, then applyPriceChange, for the readings of S.    *)
Record(lane, S) ==
  LET moved == {a \in S : Moved(lane.rows[a], lane.read[a])}
  IN  /\ price' = [a \in Advert |-> IF a \in moved THEN lane.read[a] ELSE price[a]]
      /\ Chart(lane, moved)
      /\ torn' = torn \ moved

(* The block of _splitOffPriceChanges runs through without giving way.      *)
LoopFree == scrape.pc # "recording"

Changes(lane, S) == {a \in S : Notable(lane.rows[a], lane.read[a])}

-----------------------------------------------------------------------------
(* The tracker.                                                            *)

(* getListingsDueForPriceCheck, with the price each row has now.            *)
StartTracker(batch) ==
  /\ LoopFree
  /\ tracker.pc = "idle"
  /\ batch # {}
  /\ \A a \in batch : stored[a] = "visible" /\ a \in due
  /\ tracker' = [Idle EXCEPT !.pc = "probing", !.todo = batch, !.rows = price]
  /\ UNCHANGED <<portal, moves, row, scrape>>

(* readPrice: the page was rendered, or was not.                            *)
Look(a, seen) ==
  /\ LoopFree
  /\ tracker.pc = "probing"
  /\ a \in tracker.todo \ tracker.looked
  /\ seen \in {portal[a], NoPrice}
  /\ tracker' = [tracker EXCEPT !.looked = @ \cup {a},
                                !.read = [b \in Advert |-> IF b = a THEN seen ELSE @[b]]]
  /\ UNCHANGED <<portal, moves, row, scrape>>

(* A row deleted meanwhile makes the history insert throw: mapLimit keeps   *)
(* the error as that row's result.                                          *)
TrackerRecord(a) ==
  /\ LoopFree
  /\ tracker.pc = "probing"
  /\ a \in tracker.looked
  /\ Record(tracker, {a} \ tracker.gone)
  /\ tracker' = [tracker EXCEPT !.todo = @ \ {a}, !.looked = @ \ {a},
                                !.done = @ \cup {a},
                                !.changes = @ \cup Changes(tracker, {a} \ tracker.gone)]
  /\ UNCHANGED <<portal, moves, stored, key, due, scrape>>

(* markListingsPriceChecked, for every row attempted.                       *)
FinishTracker ==
  /\ LoopFree
  /\ tracker.pc = "probing"
  /\ tracker.todo = {}
  /\ due' = due \ (tracker.done \ tracker.gone)
  /\ tracker' = [tracker EXCEPT !.pc = "telling"]
  /\ UNCHANGED <<portal, moves, stored, price, key, history, scrape>>

(* notifyPriceChanges, after it awaited the settings; an adapter that       *)
(* fails is logged.                                                         *)
TellTracker ==
  /\ LoopFree
  /\ tracker.pc = "telling"
  /\ tracker' = Idle
  /\ UNCHANGED <<portal, moves, row, scrape>>

-----------------------------------------------------------------------------
(* The job run of the provider.                                            *)

(* The page of the portal, read while everything else moves on.             *)
ReadPage(found) ==
  /\ scrape.pc = "idle"
  /\ found # {}
  /\ scrape' = [Idle EXCEPT !.pc = "read", !.todo = found,
                  !.read = [a \in Advert |-> IF a \in found THEN portal[a] ELSE NoPrice]]
  /\ UNCHANGED <<portal, moves, row, tracker>>

(* _findNew drops the known hashes; of the rest, getListingsByLink... finds *)
(* the rows of the adverts that have one.  No new hash ends the run.        *)
Compare ==
  LET new == {a \in scrape.todo : stored[a] = "absent" \/ key[a] # scrape.read[a]}
  IN  /\ scrape.pc = "read"
      /\ scrape' = IF new = {} THEN Idle
                   ELSE [scrape EXCEPT
                     !.pc = IF \E a \in new : stored[a] # "absent"
                            THEN "compared" ELSE "saving",
                     !.todo = {a \in new : stored[a] = "absent"},
                     !.looked = {a \in new : stored[a] # "absent"},
                     !.hidden = {a \in new : stored[a] = "hidden"},
                     !.rows = price]
      /\ UNCHANGED <<portal, moves, row, tracker>>

(* The settings were awaited (a file is read when one was just saved); then *)
(* one block, advert by advert: setListingHash, and recordPriceChange       *)
(* unless the row was hidden when it was read.  For a row deleted meanwhile *)
(* whose price moved the history insert throws, which ends the run.         *)
ScrapeRecord(a) ==
  /\ scrape.pc \in {"compared", "recording"}
  /\ a \in scrape.looked
  /\ LET mine == {a} \ (scrape.gone \cup scrape.hidden)
         throws == /\ a \in scrape.gone \ scrape.hidden
                   /\ Moved(scrape.rows[a], scrape.read[a])
     IN  /\ key' = IF a \in scrape.gone THEN key ELSE [key EXCEPT ![a] = scrape.read[a]]
         /\ Record(scrape, mine)
         /\ scrape' = IF throws THEN Idle
                      ELSE [scrape EXCEPT !.pc = "recording", !.looked = @ \ {a},
                              !.done = @ \cup {a},
                              !.changes = @ \cup Changes(scrape, mine)]
  /\ UNCHANGED <<portal, moves, stored, due, tracker>>

(* markListingsPriceChecked: the page just showed these prices.             *)
FinishRecord ==
  /\ scrape.pc = "recording"
  /\ scrape.looked = {}
  /\ due' = due \ (scrape.done \ scrape.gone)
  /\ scrape' = [scrape EXCEPT !.pc = "telling"]
  /\ UNCHANGED <<portal, moves, stored, price, key, history, tracker>>

TellScrape ==
  /\ scrape.pc = "telling"
  /\ scrape' = IF scrape.todo = {} THEN Idle
               ELSE [scrape EXCEPT !.pc = "saving", !.changes = {}]
  /\ UNCHANGED <<portal, moves, row, tracker>>

(* The new adverts that pass the filters are stored, or the run throws.     *)
SaveNew(S) ==
  /\ scrape.pc = "saving"
  /\ S \subseteq scrape.todo
  /\ LET inserted == {a \in S : stored[a] = "absent"}
     IN  /\ stored' = [a \in Advert |-> IF a \in inserted THEN "visible" ELSE stored[a]]
         /\ price' = [a \in Advert |-> IF a \in inserted THEN scrape.read[a] ELSE price[a]]
         /\ key' = [a \in Advert |-> IF a \in inserted THEN scrape.read[a] ELSE key[a]]
         /\ due' = due \cup inserted
  /\ scrape' = Idle
  /\ UNCHANGED <<portal, moves, history, tracker>>

-----------------------------------------------------------------------------
(* The portal, the users, time and the process.                            *)

Reprice(a, p) ==
  /\ moves < MaxMoves
  /\ p # portal[a]
  /\ portal' = [portal EXCEPT ![a] = p]
  /\ moves' = moves + 1
  /\ UNCHANGED <<row, tracker, scrape>>

SoftDelete(a) ==
  /\ LoopFree
  /\ stored[a] = "visible"
  /\ stored' = [stored EXCEPT ![a] = "hidden"]
  /\ UNCHANGED <<portal, moves, price, key, due, history, tracker, scrape>>

Restore(a) ==
  /\ LoopFree
  /\ stored[a] = "hidden"
  /\ stored' = [stored EXCEPT ![a] = "visible"]
  /\ UNCHANGED <<portal, moves, price, key, due, history, tracker, scrape>>

(* The history cascades; a lane in flight is left with an id of no row.     *)
HardDelete(a) ==
  /\ LoopFree
  /\ stored[a] # "absent"
  /\ stored' = [stored EXCEPT ![a] = "absent"]
  /\ price' = [price EXCEPT ![a] = NoPrice]
  /\ key' = [key EXCEPT ![a] = NoPrice]
  /\ last' = [last EXCEPT ![a] = NoPrice]
  /\ due' = due \ {a}
  /\ torn' = torn \ {a}
  /\ tracker' = [tracker EXCEPT !.gone = IF a \in tracker.todo \cup tracker.done
                                         THEN @ \cup {a} ELSE @]
  /\ scrape' = [scrape EXCEPT !.gone = IF a \in scrape.looked THEN @ \cup {a} ELSE @]
  /\ UNCHANGED <<portal, moves>>

(* priceCheckIntervalDays went by.                                          *)
Expire(a) ==
  /\ LoopFree
  /\ stored[a] # "absent"
  /\ a \notin due
  /\ due' = due \cup {a}
  /\ UNCHANGED <<portal, moves, stored, price, key, history, tracker, scrape>>

Restart ==
  /\ tracker' = Idle
  /\ scrape' = Idle
  /\ UNCHANGED <<portal, moves, row>>

(* Killed between recordPriceObservation and applyPriceChange.              *)
KilledIn(lane, a) ==
  /\ a \in lane.looked \ (lane.gone \cup lane.hidden)
  /\ Moved(lane.rows[a], lane.read[a])
  /\ Chart(lane, {a})
  /\ torn' = torn \cup {a}
  /\ tracker' = Idle
  /\ scrape' = Idle
  /\ UNCHANGED <<portal, moves, stored, price, due>>

RestartTorn(a) ==
  \/ LoopFree /\ KilledIn(tracker, a) /\ UNCHANGED key
  \/ /\ scrape.pc \in {"compared", "recording"}
     /\ KilledIn(scrape, a)
     /\ key' = [key EXCEPT ![a] = scrape.read[a]]

-----------------------------------------------------------------------------
TrackerStep ==
  \/ \E batch \in SUBSET Advert : StartTracker(batch)
  \/ \E a \in Advert : Look(a, portal[a]) \/ Look(a, NoPrice) \/ TrackerRecord(a)
  \/ FinishTracker
  \/ TellTracker

ScrapeStep ==
  \/ \E found \in SUBSET Advert : ReadPage(found)
  \/ Compare
  \/ \E a \in Advert : ScrapeRecord(a)
  \/ FinishRecord
  \/ TellScrape
  \/ \E S \in SUBSET Advert : SaveNew(S)

OtherStep ==
  \/ \E a \in Advert, p \in Shown : Reprice(a, p)
  \/ \E a \in Advert : \/ SoftDelete(a) \/ Restore(a) \/ HardDelete(a)
                       \/ Expire(a) \/ RestartTorn(a)
  \/ Restart

Next == TrackerStep \/ ScrapeStep \/ OtherStep

Spec == Init /\ [][Next]_vars

(* A page that was read is recorded, and a block that has begun runs to its *)
(* end: the code gives way nowhere in between.  Nothing is assumed of what  *)
(* it waits for, nor of which due rows a sweep takes: its query is limited, *)
(* and rows it cannot read stay in front.                                   *)
Block == scrape.pc = "recording" /\ (FinishRecord \/ \E a \in Advert : ScrapeRecord(a))
FairSpec ==
  /\ Spec
  /\ \A a \in Advert : WF_vars(TrackerRecord(a))
  /\ WF_vars(Block)

-----------------------------------------------------------------------------
(***************************************************************************)
(* Properties                                                              *)
(***************************************************************************)

(* The price a row shows is the last point of its chart, whichever lane     *)
(* wrote it and however stale the row it compared with, unless the process  *)
(* was killed between the two statements and no reading came since.         *)
CurrentIsLastPoint ==
  \A a \in Advert \ torn : last[a] # NoPrice => price[a] = last[a]

(* However the two lanes, deletes and restores overtake each other, a row   *)
(* that stays visible and whose page the tracker goes on reading shows in   *)
(* the end what its portal shows, small moves included, unless the process  *)
(* is killed again and again while it records.                              *)
KilledRecording == (Restart /\ tracker.pc = "probing") \/ \E a \in Advert : RestartTorn(a)
KeepsReading(a) == []<><<Look(a, portal[a])>>_vars
StaysShown(a) == <>[](stored[a] = "visible" /\ portal[a] # NoPrice)
PriceCatchesUp ==
  \/ []<><<KilledRecording>>_vars
  \/ \A a \in Advert :
       StaysShown(a) /\ KeepsReading(a) => <>[](price[a] = portal[a])

(* A portal that leaves its prices alone stops being announced: stale rows  *)
(* and stale pages can repeat an announcement, never keep one going.        *)
Announce ==
  \/ TellTracker /\ tracker.changes # {}
  \/ TellScrape /\ scrape.changes # {}
QuietPortalQuietFredy == ~ []<><<Announce>>_vars

=============================================================================
