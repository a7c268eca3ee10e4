-------------------------- MODULE ListingLifecycle --------------------------
(***************************************************************************)
(* Is the advert still online?  The alive check (runActiveChecker, every   *)
(* four hours), the statements it writes its answers with, the correction  *)
(* a user makes (reactivateListings), the nightly retention purge, and     *)
(* what users do to the rows meanwhile.                                    *)
(*                                                                         *)
(* A check reads the due rows, probes them while everything else moves,    *)
(* and writes what it learned in one block of three statements             *)
(* (recordActiveCheckFailures, deactivateListings, markListingsChecked).   *)
(* The block gives nobody else a turn (LoopFree), yet each statement       *)
(* commits on its own and the process may be killed between two of them.   *)
(*                                                                         *)
(* Time is counted in days, each age up to the window it is compared with. *)
(***************************************************************************)
EXTENDS Integers, FiniteSets

CONSTANTS
  Listing,
  Unprobed,      \* rows of providers without an activityProbe (Flatfox)
  Tended,        \* a bound: the rows users delete, restore, correct or watch
  Limit,         \* rows a check probes at most: 500 in the code
  FailureLimit,  \* ACTIVE_CHECK_FAILURE_LIMIT: 10
  Stale,         \* days until an answered row is due again: 7
  Retry,         \* days until a row with a failure streak is: 1
  Retention,     \* listingRetentionDays: 14 unless configured
  None           \* NULL

ASSUME LifecycleAssumption ==
  /\ IsFiniteSet(Listing)
  /\ Unprobed \subseteq Listing /\ Tended \subseteq Listing
  /\ {Limit, Stale, Retry, Retention} \subseteq Nat \ {0}
  /\ FailureLimit \in Nat /\ FailureLimit > 1
  /\ Retry <= Stale
  /\ None \notin Nat

VARIABLES
  stored,       \* the row of each advert: "absent", "visible" or "hidden"
  active,       \* is_active = 1
  manual,       \* activity_is_manual = 1
  failures,     \* active_check_failures
  checkedAge,   \* days since last_checked_at, None when it is NULL
  inactiveAge,  \* days since inactive_since, None when it is NULL
  cared,        \* rows on a watch list or with documents attached
  ahead,        \* the rows whose last_checked_at is before each row's
  check,        \* the alive check in flight
  misses,       \* unanswered probes since the last recorded answer,
                \* counted up to FailureLimit
  offline,      \* days the row has been shown as gone without a break
  raced         \* rows corrected by hand while this check was in flight

row == <<stored, active, manual, failures, checkedAge, inactiveAge, cared, ahead>>
seen == <<misses, offline, raced>>
vars == <<row, check, seen>>

CheckState == [pc : {"idle", "probing", "counted", "deactivated"},
               batch : SUBSET Listing, silent : SUBSET Listing,
               gone : SUBSET Listing, answered : SUBSET Listing, hung : BOOLEAN]
IdleCheck == [pc |-> "idle", batch |-> {}, silent |-> {}, gone |-> {}, answered |-> {},
              hung |-> FALSE]

(* Between rows that were ever checked, ahead is a strict order, and those  *)
(* who are ahead are not the younger.                                       *)
OrderOfChecks ==
  \A l \in Listing : \A m \in ahead[l] :
    /\ checkedAge[l] # None /\ checkedAge[m] # None
    /\ checkedAge[m] >= checkedAge[l]
    /\ l \notin ahead[m]
    /\ ahead[m] \subseteq ahead[l]

TypeOK ==
  /\ stored \in [Listing -> {"absent", "visible", "hidden"}]
  /\ active \in [Listing -> BOOLEAN]
  /\ manual \in [Listing -> BOOLEAN]
  /\ failures \in [Listing -> 0..FailureLimit]
  /\ checkedAge \in [Listing -> (0..Stale) \cup {None}]
  /\ inactiveAge \in [Listing -> (0..Retention) \cup {None}]
  /\ cared \subseteq Listing
  /\ ahead \in [Listing -> SUBSET Listing]
  /\ OrderOfChecks
  /\ check \in CheckState
  /\ misses \in [Listing -> 0..FailureLimit]
  /\ offline \in [Listing -> 0..Retention]
  /\ raced \subseteq Listing

(* An UPDATE ... WHERE id IN S: only rows that still exist are touched.     *)
Set(f, S, v) == [l \in Listing |-> IF l \in S /\ stored[l] # "absent" THEN v ELSE f[l]]
Older(age, cap) == IF age = None THEN None ELSE IF age < cap THEN age + 1 ELSE age

-----------------------------------------------------------------------------
Init ==
  /\ stored = [l \in Listing |-> "absent"]
  /\ active = [l \in Listing |-> FALSE]
  /\ manual = [l \in Listing |-> FALSE]
  /\ failures = [l \in Listing |-> 0]
  /\ checkedAge = [l \in Listing |-> None]
  /\ inactiveAge = [l \in Listing |-> None]
  /\ cared = {}
  /\ ahead = [l \in Listing |-> {}]
  /\ check = IdleCheck
  /\ misses = [l \in Listing |-> 0]
  /\ offline = [l \in Listing |-> 0]
  /\ raced = {}

LoopFree == check.pc \in {"idle", "probing"}

-----------------------------------------------------------------------------
(* The alive check.                                                        *)

(* A bug: the correction by hand does not take the row out of the pool.     *)
DueCorrected(l) ==
  /\ stored[l] = "visible" /\ active[l]
  /\ \/ checkedAge[l] = None
     \/ failures[l] = 0 /\ checkedAge[l] = Stale
     \/ failures[l] \in 1..(FailureLimit - 1) /\ checkedAge[l] >= Retry

(* A bug: the BETWEEN includes the limit itself.                            *)
DueUpToLimit(l) ==
  /\ stored[l] = "visible" /\ active[l] /\ ~manual[l]
  /\ \/ checkedAge[l] = None
     \/ failures[l] = 0 /\ checkedAge[l] = Stale
     \/ failures[l] \in 1..FailureLimit /\ checkedAge[l] >= Retry

(* getListingsDueForActiveCheck's WHERE.                                    *)
Due(l) ==
  /\ stored[l] = "visible" /\ active[l] /\ ~manual[l]
  /\ \/ checkedAge[l] = None
     \/ failures[l] = 0 /\ checkedAge[l] = Stale
     \/ failures[l] \in 1..(FailureLimit - 1) /\ checkedAge[l] >= Retry

(* A bug: the most recently checked row first.                              *)
NewestFirst(l, m) ==
  \/ checkedAge[l] = None /\ checkedAge[m] # None
  \/ m \in ahead[l]

(* Its ORDER BY: never checked first, then the least recently checked.      *)
Before(l, m) ==
  \/ checkedAge[l] = None /\ checkedAge[m] # None
  \/ l \in ahead[m]

(* Its LIMIT.                                                               *)
Batches ==
  LET due == {l \in Listing : Due(l)}
      size == IF Cardinality(due) < Limit THEN Cardinality(due) ELSE Limit
  IN  {S \in SUBSET due : /\ Cardinality(S) = size
                          /\ \A l \in S, m \in due \ S : ~Before(m, l)}

(* No row due ends the check at once.  mapLimit's concurrency bounds how    *)
(* many probes are out together, not which rows are asked; a row whose      *)
(* provider has no probe is passed over and nothing is written about it.    *)
StartCheck(batch) ==
  /\ check.pc = "idle"
  /\ batch # {}
  /\ check' = [IdleCheck EXCEPT !.pc = "probing", !.batch = batch \ Unprobed]
  /\ raced' = {}
  /\ UNCHANGED <<row, misses, offline>>

(* A probe returns 1, 0, or -1 (which a throwing probe is too).             *)
Answer(l, verdict) ==
  /\ check.pc = "probing"
  /\ l \in check.batch
  /\ check' = [check EXCEPT
       !.batch = @ \ {l},
       !.silent = IF verdict = "silent" THEN @ \cup {l} ELSE @,
       !.gone = IF verdict = "gone" THEN @ \cup {l} ELSE @,
       !.answered = IF verdict # "silent" THEN @ \cup {l} ELSE @]
  /\ misses' = IF verdict = "silent" /\ misses[l] < FailureLimit
               THEN [misses EXCEPT ![l] = @ + 1] ELSE misses
  /\ UNCHANGED <<row, offline, raced>>

(* The portal takes the request and never answers: node-fetch is called     *)
(* without a signal, so the probe never settles, whatever becomes of its    *)
(* row, and the running guard drops every later tick.                       *)
Hang(l) ==
  /\ check.pc = "probing"
  /\ l \in check.batch
  /\ check' = [check EXCEPT !.batch = @ \ {l}, !.hung = TRUE]
  /\ UNCHANGED <<row, seen>>

(* last_checked_at = now: the rows go to the back, side by side.            *)
Checked(S) ==
  /\ checkedAge' = Set(checkedAge, S, 0)
  /\ ahead' = [l \in Listing |-> IF l \in S THEN {m \in Listing \ S : checkedAge[m] # None}
                                  ELSE ahead[l] \ S]

(* recordActiveCheckFailures counts and reports who has had enough.         *)
RecordFailures ==
  /\ check.pc = "probing"
  /\ check.batch = {} /\ ~check.hung
  /\ failures' = [l \in Listing |-> IF l \in check.silent THEN failures[l] + 1 ELSE failures[l]]
  /\ Checked(check.silent)
  /\ check' = [check EXCEPT !.pc = "counted",
       !.gone = @ \cup {l \in check.silent : failures[l] + 1 >= FailureLimit}]
  /\ UNCHANGED <<stored, active, manual, inactiveAge, cared, seen>>

(* COALESCE(inactive_since, now) keeps the first date.                      *)
DeactivateListings ==
  /\ check.pc = "counted"
  /\ active' = Set(active, check.gone, FALSE)
  /\ inactiveAge' = [l \in Listing |-> IF l \in check.gone /\ inactiveAge[l] = None
                                       THEN 0 ELSE inactiveAge[l]]
  /\ failures' = Set(failures, check.gone, 0)
  /\ check' = [check EXCEPT !.pc = "deactivated"]
  /\ UNCHANGED <<stored, manual, checkedAge, cared, ahead, seen>>

(* A bug: a definitive answer does not end the failure streak.              *)
MarkKeepingStreak ==
  /\ check.pc = "deactivated"
  /\ Checked(check.answered)
  /\ misses' = Set(misses, check.answered, 0)
  /\ check' = IdleCheck
  /\ raced' = {}
  /\ UNCHANGED <<stored, active, manual, failures, inactiveAge, cared, offline>>

MarkListingsChecked ==
  /\ check.pc = "deactivated"
  /\ Checked(check.answered)
  /\ failures' = Set(failures, check.answered, 0)
  /\ misses' = Set(misses, check.answered, 0)
  /\ check' = IdleCheck
  /\ raced' = {}
  /\ UNCHANGED <<stored, active, manual, inactiveAge, cared, offline>>

-----------------------------------------------------------------------------
(* The rows.                                                               *)

(* storeListings inserts the advert; a known row it leaves alone.           *)
Insert(l) ==
  /\ LoopFree
  /\ stored[l] = "absent"
  /\ stored' = [stored EXCEPT ![l] = "visible"]
  /\ active' = [active EXCEPT ![l] = TRUE]
  /\ UNCHANGED <<manual, failures, checkedAge, inactiveAge, cared, ahead, check, seen>>

(* The row goes, and with it what only its id led to: the watch list and    *)
(* the documents cascade, an answer for the id finds no row.                *)
Delete(S) ==
  /\ stored' = [l \in Listing |-> IF l \in S THEN "absent" ELSE stored[l]]
  /\ active' = [l \in Listing |-> active[l] /\ l \notin S]
  /\ manual' = [l \in Listing |-> manual[l] /\ l \notin S]
  /\ failures' = [l \in Listing |-> IF l \in S THEN 0 ELSE failures[l]]
  /\ checkedAge' = [l \in Listing |-> IF l \in S THEN None ELSE checkedAge[l]]
  /\ inactiveAge' = [l \in Listing |-> IF l \in S THEN None ELSE inactiveAge[l]]
  /\ cared' = cared \ S
  /\ ahead' = [l \in Listing |-> IF l \in S THEN {} ELSE ahead[l] \ S]
  /\ check' = [check EXCEPT !.batch = @ \ S, !.silent = @ \ S,
                            !.gone = @ \ S, !.answered = @ \ S]
  /\ misses' = [l \in Listing |-> IF l \in S THEN 0 ELSE misses[l]]
  /\ offline' = [l \in Listing |-> IF l \in S THEN 0 ELSE offline[l]]
  /\ raced' = raced \ S

(* The API's hard delete.                                                   *)
HardDelete(l) ==
  /\ LoopFree
  /\ stored[l] # "absent"
  /\ Delete({l})

(* The API's soft delete and restore.                                       *)
SoftDelete(l) ==
  /\ LoopFree
  /\ stored[l] = "visible"
  /\ stored' = [stored EXCEPT ![l] = "hidden"]
  /\ UNCHANGED <<active, manual, failures, checkedAge, inactiveAge, cared, ahead, check, seen>>

Restore(l) ==
  /\ LoopFree
  /\ stored[l] = "hidden"
  /\ stored' = [stored EXCEPT ![l] = "visible"]
  /\ UNCHANGED <<active, manual, failures, checkedAge, inactiveAge, cared, ahead, check, seen>>

(* A bug: the retention clock keeps running.                                *)
ReactivateOnly(l) ==
  /\ LoopFree
  /\ stored[l] = "visible"
  /\ active' = [active EXCEPT ![l] = TRUE]
  /\ manual' = [manual EXCEPT ![l] = TRUE]
  /\ failures' = [failures EXCEPT ![l] = 0]
  /\ misses' = [misses EXCEPT ![l] = 0]
  /\ offline' = [offline EXCEPT ![l] = 0]
  /\ raced' = IF check.pc = "probing" THEN raced \cup {l} ELSE raced
  /\ UNCHANGED <<stored, inactiveAge, checkedAge, cared, ahead, check>>

(* reactivateListings: four columns move together; hidden rows are skipped. *)
Reactivate(l) ==
  /\ LoopFree
  /\ stored[l] = "visible"
  /\ active' = [active EXCEPT ![l] = TRUE]
  /\ manual' = [manual EXCEPT ![l] = TRUE]
  /\ failures' = [failures EXCEPT ![l] = 0]
  /\ inactiveAge' = [inactiveAge EXCEPT ![l] = None]
  /\ misses' = [misses EXCEPT ![l] = 0]
  /\ offline' = [offline EXCEPT ![l] = 0]
  /\ raced' = IF check.pc = "probing" THEN raced \cup {l} ELSE raced
  /\ UNCHANGED <<stored, checkedAge, cared, ahead, check>>

(* toggleWatch, or a document attached or removed.                          *)
ToggleCare(l) ==
  /\ LoopFree
  /\ stored[l] # "absent"
  /\ cared' = IF l \in cared THEN cared \ {l} ELSE cared \cup {l}
  /\ UNCHANGED <<stored, active, manual, failures, checkedAge, inactiveAge, ahead, check, seen>>

(* purgeExpiredInactiveListings' WHERE.                                     *)
Expired(l) ==
  /\ stored[l] # "absent" /\ ~active[l]
  /\ inactiveAge[l] # None /\ inactiveAge[l] >= Retention
  /\ l \notin cared

(* Reading and deleting are one block; the similarity cache, told about each *)
(* row too, is ListingDedup's.                                              *)
Purge ==
  /\ LoopFree
  /\ \E l \in Listing : Expired(l)
  /\ Delete({l \in Listing : Expired(l)})

Tick ==
  /\ LoopFree
  /\ checkedAge' = [l \in Listing |-> Older(checkedAge[l], Stale)]
  /\ inactiveAge' = [l \in Listing |-> Older(inactiveAge[l], Retention)]
  /\ offline' = [l \in Listing |-> IF stored[l] # "absent" /\ ~active[l]
                                   THEN Older(offline[l], Retention) ELSE 0]
  /\ UNCHANGED <<stored, active, manual, failures, cared, ahead, check, misses, raced>>

(* The process is killed, between two statements too, and starts over.      *)
Restart ==
  /\ check.pc # "idle"
  /\ check' = IdleCheck
  /\ raced' = {}
  /\ UNCHANGED <<row, misses, offline>>

-----------------------------------------------------------------------------
Probe == \E l \in Listing, verdict \in {"online", "gone", "silent"} : Answer(l, verdict)

CheckStep ==
  \/ \E batch \in Batches : StartCheck(batch)
  \/ Probe
  \/ RecordFailures
  \/ DeactivateListings
  \/ MarkListingsChecked

RowStep ==
  \/ \E l \in Listing : Insert(l)
  \/ \E l \in Tended : \/ HardDelete(l) \/ SoftDelete(l) \/ Restore(l)
                       \/ Reactivate(l) \/ ToggleCare(l)
  \/ Purge
  \/ Tick

Next ==
  \/ CheckStep
  \/ \E l \in Listing : Hang(l)
  \/ RowStep
  \/ Restart

Spec == Init /\ [][Next]_vars

(* The cron fires every four hours, a probe the portal does answer ends     *)
(* (its attempts are counted), a block runs to its end, days pass.  Nothing *)
(* says that a request settles: Hang may happen to any probe.               *)
FairSpec ==
  /\ Spec
  /\ WF_vars(CheckStep)
  /\ WF_vars(Tick)

-----------------------------------------------------------------------------
(***************************************************************************)
(* Properties                                                              *)
(***************************************************************************)

(* A row goes offline only when a probe of this check said it is gone, or   *)
(* after FailureLimit probes nobody answered with no answer written in      *)
(* between: recordActiveCheckFailures, markListingsChecked and              *)
(* reactivateListings never let an old streak count again.                  *)
DeactivatedForCause ==
  [][\A l \in Listing :
       (active[l] /\ stored'[l] # "absent" /\ ~active'[l])
         => (l \in check.answered \/ misses[l] >= FailureLimit)]_vars

(* The clock of the retention purge never runs ahead of the days the row    *)
(* was shown as gone: a correction by hand stops it, a second deactivation  *)
(* starts it anew, deactivating twice does not reset it.                    *)
RetentionClockHonest ==
  \A l \in Listing :
    /\ inactiveAge[l] # None <=> (stored[l] # "absent" /\ ~active[l])
    /\ inactiveAge[l] # None => inactiveAge[l] = offline[l]

(* What a user corrected, no later check undoes: only the check that was    *)
(* already in flight when the correction was made can.                      *)
LaterChecksRespectCorrection ==
  [][\A l \in Listing :
       (manual[l] /\ active[l] /\ stored'[l] # "absent" /\ ~active'[l])
         => l \in raced]_vars

(* Nothing is starved by the limit per run while the rows nobody can probe  *)
(* are fewer than it: a row that is due is probed, or leaves the pool,      *)
(* unless rows keep being inserted, or users keep taking rows out and       *)
(* putting them back, or the process keeps being killed before a check has  *)
(* written its answers, or one probe is never answered: then no check ever  *)
(* starts again in this process.                                            *)
LosesAnswers == Restart /\ (check.pc # "deactivated" \/ check.answered # {})
Disturbed ==
  \/ []<><<\E l \in Listing : Insert(l) \/ Restore(l)>>_vars
  \/ []<><<LosesAnswers>>_vars
Stuck == <>[](check.hung)
Served(l) == Due(l) ~> ~Due(l)
NothingStarved ==
  Cardinality(Unprobed) < Limit =>
    (Disturbed \/ Stuck \/ \A l \in Listing \ Unprobed : Served(l))

(* What listingsStorage.js:552 says of the order, "so nothing is starved",  *)
(* of a row that has been checked before, with nobody disturbing the check  *)
(* and every request answered.  The code writes nothing about a row it      *)
(* cannot probe, which therefore stays in front of the order for good.      *)
OrderStarvesNothing ==
  Disturbed \/ Stuck \/ \A l \in Listing \ Unprobed :
    Due(l) /\ checkedAge[l] # None ~> ~Due(l)
=============================================================================
