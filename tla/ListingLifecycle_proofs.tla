---------------------- MODULE ListingLifecycle_proofs ----------------------
(***************************************************************************)
(* What the alive check may do to a row, for every set of rows and every   *)
(* limit and window.  Three parts of the invariant carry the theorems:     *)
(*   Clock: a row is on the retention clock exactly while it is offline;   *)
(*   Streaks: a failure streak counts only unanswered probes, and what a   *)
(*     check is about to deactivate has been answered for or has enough;   *)
(*   Corrected: a check only holds a corrected row if it was under way     *)
(*     when the user spoke.                                                *)
(* They need of the types only what Types says; TypeCorrect adds the bounds *)
(* of the counters and the order of the checks, which rest on Streaks.     *)
(***************************************************************************)
EXTENDS ListingLifecycle, TLAPS

Types ==
  /\ stored \in [Listing -> {"absent", "visible", "hidden"}]
  /\ active \in [Listing -> BOOLEAN]
  /\ manual \in [Listing -> BOOLEAN]
  /\ failures \in [Listing -> Nat]
  /\ checkedAge \in [Listing -> Nat \cup {None}]
  /\ inactiveAge \in [Listing -> Nat \cup {None}]
  /\ misses \in [Listing -> 0..FailureLimit]
  /\ offline \in [Listing -> Nat]
  /\ check \in CheckState
  /\ raced \subseteq Listing

InCheck == check.batch \cup check.silent \cup check.gone \cup check.answered

Held ==
  /\ check.pc = "idle" => check = IdleCheck
  /\ \A l \in InCheck : stored[l] # "absent"

Clock ==
  /\ RetentionClockHonest
  /\ \A l \in Listing : stored[l] = "absent" \/ active[l] => offline[l] = 0

Streaks ==
  \A l \in Listing :
    /\ checkedAge[l] = None => failures[l] = 0
    /\ ~manual[l] => failures[l] <= misses[l]
    /\ check.pc = "probing" =>
         /\ l \in check.silent /\ ~manual[l] => failures[l] < misses[l]
         /\ l \in check.batch => failures[l] < FailureLimit
         /\ l \in raced => failures[l] = 0
         /\ l \in check.gone => l \in check.answered
    /\ check.pc = "counted" /\ l \in check.gone =>
         l \in check.answered \/ misses[l] >= FailureLimit

Corrected == \A l \in InCheck : manual[l] => l \in raced

CheckInv == Types /\ Held /\ Clock /\ Streaks /\ Corrected

LEMMA InitHolds == Init => CheckInv
BY LifecycleAssumption DEF Init, CheckInv, Types, Held, Clock, Streaks, Corrected,
   RetentionClockHonest, InCheck, IdleCheck, CheckState

(* A check takes up its batch.                                              *)
LEMMA StartStep ==
  ASSUME CheckInv, NEW batch \in Batches, StartCheck(batch)
  PROVE  CheckInv'
<1> USE LifecycleAssumption DEF CheckInv
<1>1. \A l \in batch : l \in Listing /\ Due(l)
  BY DEF Batches
<1>2. /\ check' = [pc |-> "probing", batch |-> batch \ Unprobed, silent |-> {},
                   gone |-> {}, answered |-> {}, hung |-> FALSE]
      /\ raced' = {}
      /\ UNCHANGED <<stored, active, manual, failures, checkedAge, inactiveAge, misses, offline>>
  BY DEF StartCheck, IdleCheck, row
<1>3. Types'
  BY <1>1, <1>2 DEF Types, CheckState
<1>4. Held' /\ Corrected'
  BY <1>1, <1>2 DEF Held, Corrected, InCheck, Due
<1>5. Clock'
  BY <1>2 DEF Clock, RetentionClockHonest
<1>6. Streaks'
  <2>1. \A l \in batch : failures[l] < FailureLimit
    BY <1>1 DEF Due, Streaks, Types
  <2> QED
    BY <1>2, <2>1 DEF Streaks
<1> QED
  BY <1>3, <1>4, <1>5, <1>6

LEMMA AnswerStep ==
  ASSUME CheckInv, NEW l \in Listing, NEW verdict \in {"online", "gone", "silent"},
         Answer(l, verdict)
  PROVE  CheckInv'
<1> USE LifecycleAssumption DEF CheckInv
<1>1. /\ check.pc = "probing" /\ check'.pc = "probing"
      /\ l \in check.batch
      /\ check'.batch = check.batch \ {l}
      /\ check'.silent = IF verdict = "silent" THEN check.silent \cup {l} ELSE check.silent
      /\ check'.gone = IF verdict = "gone" THEN check.gone \cup {l} ELSE check.gone
      /\ check'.answered = IF verdict # "silent" THEN check.answered \cup {l}
                                                 ELSE check.answered
      /\ check' \in CheckState
      /\ UNCHANGED <<stored, active, manual, failures, checkedAge, inactiveAge, offline, raced>>
  BY DEF Answer, Types, CheckState, row
<1>2. /\ misses' \in [Listing -> 0..FailureLimit]
      /\ \A m \in Listing : misses[m] <= misses'[m]
      /\ verdict = "silent" => misses'[l] = IF misses[l] < FailureLimit THEN misses[l] + 1
                                                                       ELSE misses[l]
  BY DEF Answer, Types
<1>3. Types'
  BY <1>1, <1>2 DEF Types
<1>4. InCheck' = InCheck
  BY <1>1 DEF InCheck
<1>5. Held' /\ Corrected'
  BY <1>1, <1>4 DEF Held, Corrected
<1>6. Clock'
  BY <1>1 DEF Clock, RetentionClockHonest
<1>7. Streaks'
  <2> SUFFICES ASSUME NEW m \in Listing
               PROVE  /\ checkedAge[m] = None => failures[m] = 0
                      /\ ~manual[m] => failures[m] <= misses'[m]
                      /\ m \in check'.silent /\ ~manual[m] => failures[m] < misses'[m]
                      /\ m \in check'.batch => failures[m] < FailureLimit
                      /\ m \in raced => failures[m] = 0
                      /\ m \in check'.gone => m \in check'.answered
    BY <1>1 DEF Streaks
  <2>1. /\ failures[m] \in Nat /\ misses[m] \in 0..FailureLimit /\ misses'[m] \in 0..FailureLimit
    BY <1>2 DEF Types
  <2>2. m \in check'.silent /\ ~manual[m] => failures[m] < misses'[m]
    <3>1. CASE m \in check.silent
      BY <1>1, <1>2, <2>1, <3>1 DEF Streaks
    <3>2. CASE m = l /\ verdict = "silent"
      BY <1>1, <1>2, <2>1, <3>2 DEF Streaks
    <3> QED
      BY <1>1, <3>1, <3>2
  <2> QED
    BY <1>1, <1>2, <2>1, <2>2 DEF Streaks
<1> QED
  BY <1>3, <1>5, <1>6, <1>7

(* A probe that is never answered leaves everything but the check alone.    *)
LEMMA HangStep ==
  ASSUME CheckInv, NEW l \in Listing, Hang(l)
  PROVE  CheckInv'
<1> USE LifecycleAssumption DEF CheckInv
<1>1. /\ check.pc = "probing" /\ check'.pc = "probing"
      /\ check'.batch = check.batch \ {l}
      /\ check'.silent = check.silent /\ check'.gone = check.gone
      /\ check'.answered = check.answered
      /\ check' \in CheckState
      /\ UNCHANGED <<stored, active, manual, failures, checkedAge, inactiveAge,
                     misses, offline, raced>>
  BY DEF Hang, Types, CheckState, row, seen
<1>2. Types'
  BY <1>1 DEF Types
<1>3. Held' /\ Corrected'
  BY <1>1 DEF Held, Corrected, InCheck
<1>4. Clock'
  BY <1>1 DEF Clock, RetentionClockHonest
<1>5. Streaks'
  BY <1>1 DEF Streaks
<1> QED
  BY <1>2, <1>3, <1>4, <1>5

(* The three statements a check ends with.                                  *)
LEMMA RecordStep == ASSUME CheckInv, RecordFailures PROVE CheckInv'
<1> USE LifecycleAssumption DEF CheckInv
<1> DEFINE enough == {l \in check.silent : failures[l] + 1 >= FailureLimit}
<1>1. /\ check.pc = "probing" /\ check.batch = {} /\ check' \in CheckState
      /\ check'.pc = "counted"
      /\ check'.batch = check.batch
      /\ check'.silent = check.silent
      /\ check'.gone = check.gone \cup enough
      /\ check'.answered = check.answered
      /\ failures' = [l \in Listing |-> IF l \in check.silent THEN failures[l] + 1
                                                              ELSE failures[l]]
      /\ checkedAge' = Set(checkedAge, check.silent, 0)
      /\ UNCHANGED <<stored, active, manual, inactiveAge, misses, offline, raced>>
  BY DEF RecordFailures, Checked, Types, CheckState, seen
<1>2. check.silent \subseteq Listing /\ \A l \in check.silent : stored[l] # "absent"
  BY DEF Types, CheckState, Held, InCheck
<1>3. /\ checkedAge' \in [Listing -> Nat \cup {None}]
      /\ \A l \in Listing : checkedAge'[l] = IF l \in check.silent THEN 0 ELSE checkedAge[l]
  BY <1>1, <1>2 DEF Set, Types
<1>4. Types'
  BY <1>1, <1>3 DEF Types
<1>5. InCheck' = InCheck
  BY <1>1 DEF InCheck
<1>6. Held' /\ Corrected'
  BY <1>1, <1>5 DEF Held, Corrected
<1>7. Clock'
  BY <1>1 DEF Clock, RetentionClockHonest
<1>8. Streaks'
  <2> SUFFICES ASSUME NEW l \in Listing
               PROVE  /\ checkedAge'[l] = None => failures'[l] = 0
                      /\ ~manual[l] => failures'[l] <= misses[l]
                      /\ l \in check'.gone => l \in check.answered \/ misses[l] >= FailureLimit
    BY <1>1 DEF Streaks
  <2>1. failures[l] \in Nat /\ misses[l] \in 0..FailureLimit
    BY DEF Types
  <2>2. checkedAge'[l] = None => failures'[l] = 0
    BY <1>1, <1>3 DEF Streaks
  <2>3. ~manual[l] => failures'[l] <= misses[l]
    BY <1>1, <2>1 DEF Streaks
  <2>4. ASSUME l \in enough PROVE misses[l] >= FailureLimit
    <3>1. ~manual[l]
      <4> SUFFICES ASSUME manual[l] PROVE FALSE
        OBVIOUS
      <4>1. l \in raced
        BY <2>4 DEF Corrected, InCheck
      <4> QED
        BY <1>1, <2>4, <4>1 DEF Streaks
    <3> QED
      BY <1>1, <2>1, <2>4, <3>1 DEF Streaks
  <2> QED
    BY <1>1, <2>2, <2>3, <2>4 DEF Streaks
<1> QED
  BY <1>4, <1>6, <1>7, <1>8

LEMMA DeactivateStep == ASSUME CheckInv, DeactivateListings PROVE CheckInv'
<1> USE LifecycleAssumption DEF CheckInv
<1>1. /\ check.pc = "counted" /\ check' \in CheckState
      /\ check'.pc = "deactivated"
      /\ check'.batch = check.batch /\ check'.silent = check.silent
      /\ check'.gone = check.gone /\ check'.answered = check.answered
      /\ active' = Set(active, check.gone, FALSE)
      /\ inactiveAge' = [l \in Listing |-> IF l \in check.gone /\ inactiveAge[l] = None
                                           THEN 0 ELSE inactiveAge[l]]
      /\ failures' = Set(failures, check.gone, 0)
      /\ UNCHANGED <<stored, manual, checkedAge, misses, offline, raced>>
  BY DEF DeactivateListings, Types, CheckState, seen
<1>2. \A l \in check.gone : l \in Listing /\ stored[l] # "absent"
  BY DEF Types, CheckState, Held, InCheck
<1>3. /\ \A l \in check.gone : ~active'[l]
      /\ \A l \in Listing \ check.gone : active'[l] = active[l]
  BY <1>1, <1>2 DEF Set
<1>4. active' \in [Listing -> BOOLEAN]
  BY <1>1 DEF Set, Types
<1>5. /\ failures' \in [Listing -> Nat]
      /\ \A l \in Listing : failures'[l] = IF l \in check.gone THEN 0 ELSE failures[l]
  BY <1>1, <1>2 DEF Set, Types
<1>6. /\ inactiveAge' \in [Listing -> Nat \cup {None}]
      /\ \A l \in Listing : inactiveAge'[l] = IF l \in check.gone /\ inactiveAge[l] = None
                                              THEN 0 ELSE inactiveAge[l]
  BY <1>1 DEF Types
<1>7. Types'
  BY <1>1, <1>4, <1>5, <1>6 DEF Types
<1>8. InCheck' = InCheck
  BY <1>1 DEF InCheck
<1>9. Held' /\ Corrected'
  BY <1>1, <1>8 DEF Held, Corrected
<1>10. Clock'
  <2> SUFFICES ASSUME NEW l \in Listing
               PROVE  /\ inactiveAge'[l] # None <=> (stored[l] # "absent" /\ ~active'[l])
                      /\ inactiveAge'[l] # None => inactiveAge'[l] = offline[l]
                      /\ stored[l] = "absent" \/ active'[l] => offline[l] = 0
    BY <1>1 DEF Clock, RetentionClockHonest
  <2>1. CASE l \in check.gone
    BY <1>2, <1>3, <1>6, <2>1 DEF Clock, RetentionClockHonest
  <2>2. CASE l \notin check.gone
    BY <1>3, <1>6, <2>2 DEF Clock, RetentionClockHonest
  <2> QED
    BY <2>1, <2>2
<1>11. Streaks'
  BY <1>1, <1>5 DEF Streaks, Types
<1> QED
  BY <1>7, <1>9, <1>10, <1>11

LEMMA MarkStep == ASSUME CheckInv, MarkListingsChecked PROVE CheckInv'
<1> USE LifecycleAssumption DEF CheckInv
<1>1. /\ check' = IdleCheck /\ raced' = {}
      /\ checkedAge' = Set(checkedAge, check.answered, 0)
      /\ failures' = Set(failures, check.answered, 0)
      /\ misses' = Set(misses, check.answered, 0)
      /\ UNCHANGED <<stored, active, manual, inactiveAge, offline>>
  BY DEF MarkListingsChecked, Checked
<1>2. \A l \in check.answered : stored[l] # "absent"
  BY DEF Held, InCheck
<1>3. /\ checkedAge' \in [Listing -> Nat \cup {None}]
      /\ failures' \in [Listing -> Nat]
      /\ misses' \in [Listing -> 0..FailureLimit]
      /\ \A l \in check.answered \cap Listing :
           checkedAge'[l] = 0 /\ failures'[l] = 0 /\ misses'[l] = 0
      /\ \A l \in Listing \ check.answered :
           /\ checkedAge'[l] = checkedAge[l]
           /\ failures'[l] = failures[l]
           /\ misses'[l] = misses[l]
  BY <1>1, <1>2 DEF Set, Types
<1>4. Types'
  BY <1>1, <1>3 DEF Types, CheckState, IdleCheck
<1>5. Held' /\ Corrected'
  BY <1>1 DEF Held, Corrected, InCheck, IdleCheck
<1>6. Clock'
  BY <1>1 DEF Clock, RetentionClockHonest
<1>7. Streaks'
  BY <1>1, <1>3 DEF Streaks, IdleCheck
<1> QED
  BY <1>4, <1>5, <1>6, <1>7

LEMMA RestartStep == ASSUME CheckInv, Restart PROVE CheckInv'
<1> USE LifecycleAssumption DEF CheckInv
<1>1. /\ check' = IdleCheck /\ raced' = {}
      /\ UNCHANGED <<stored, active, manual, failures, checkedAge, inactiveAge, misses, offline>>
  BY DEF Restart, row
<1>2. Types'
  BY <1>1 DEF Types, CheckState, IdleCheck
<1>3. Held' /\ Corrected' /\ Streaks' /\ Clock'
  BY <1>1 DEF Held, Corrected, InCheck, IdleCheck, Streaks, Clock, RetentionClockHonest
<1> QED
  BY <1>2, <1>3

(* What users do to a row, one by one.                                      *)
LEMMA InsertStep == ASSUME CheckInv, NEW l \in Listing, Insert(l) PROVE CheckInv'
<1> USE LifecycleAssumption DEF CheckInv
<1>1. /\ stored[l] = "absent" /\ stored'[l] = "visible" /\ active'[l]
      /\ \A m \in Listing \ {l} : stored'[m] = stored[m] /\ active'[m] = active[m]
      /\ UNCHANGED <<manual, failures, checkedAge, inactiveAge, misses, offline, raced, check>>
  BY DEF Insert, Types, seen
<1>2. Types'
  BY DEF Insert, Types, seen
<1>3. InCheck' = InCheck /\ InCheck \subseteq Listing
  BY <1>1 DEF InCheck, Types, CheckState
<1>4. Held' /\ Corrected' /\ Streaks'
  BY <1>1, <1>3 DEF Held, Corrected, Streaks
<1>5. Clock'
  BY <1>1 DEF Clock, RetentionClockHonest
<1> QED
  BY <1>2, <1>4, <1>5

LEMMA VisibilityStep ==
  ASSUME CheckInv, NEW l \in Listing, SoftDelete(l) \/ Restore(l) \/ ToggleCare(l)
  PROVE  CheckInv'
<1> USE LifecycleAssumption DEF CheckInv
<1>1. /\ stored' \in [Listing -> {"absent", "visible", "hidden"}]
      /\ \A m \in Listing : stored'[m] = "absent" <=> stored[m] = "absent"
      /\ UNCHANGED <<active, manual, failures, checkedAge, inactiveAge, misses, offline,
                     raced, check>>
  BY DEF SoftDelete, Restore, ToggleCare, Types, seen
<1>2. Types'
  BY <1>1 DEF Types
<1>3. InCheck' = InCheck /\ InCheck \subseteq Listing
  BY <1>1 DEF InCheck, Types, CheckState
<1>4. Held' /\ Corrected' /\ Streaks'
  BY <1>1, <1>3 DEF Held, Corrected, Streaks
<1>5. Clock'
  BY <1>1 DEF Clock, RetentionClockHonest
<1> QED
  BY <1>2, <1>4, <1>5

LEMMA ReactivateStep == ASSUME CheckInv, NEW l \in Listing, Reactivate(l) PROVE CheckInv'
<1> USE LifecycleAssumption DEF CheckInv
<1>1. /\ LoopFree /\ stored[l] = "visible"
      /\ active'[l] /\ manual'[l] /\ failures'[l] = 0 /\ inactiveAge'[l] = None
      /\ misses'[l] = 0 /\ offline'[l] = 0
      /\ \A m \in Listing \ {l} :
           /\ active'[m] = active[m] /\ manual'[m] = manual[m]
           /\ failures'[m] = failures[m] /\ inactiveAge'[m] = inactiveAge[m]
           /\ misses'[m] = misses[m] /\ offline'[m] = offline[m]
      /\ raced' = IF check.pc = "probing" THEN raced \cup {l} ELSE raced
      /\ UNCHANGED <<stored, checkedAge, check>>
  BY DEF Reactivate, Types
<1>2. Types'
  BY DEF Reactivate, Types
<1>3. InCheck' = InCheck /\ InCheck \subseteq Listing
  BY <1>1 DEF InCheck, Types, CheckState
<1>4. Held'
  BY <1>1, <1>3 DEF Held
<1>5. Corrected'
  <2>1. CASE check.pc = "probing"
    BY <1>1, <1>3, <2>1 DEF Corrected
  <2>2. CASE check.pc = "idle"
    BY <1>1, <1>3, <2>2 DEF Corrected, Held, InCheck, IdleCheck
  <2> QED
    BY <1>1, <2>1, <2>2 DEF LoopFree
<1>6. Streaks'
  <2> SUFFICES ASSUME NEW m \in Listing
               PROVE  /\ checkedAge[m] = None => failures'[m] = 0
                      /\ ~manual'[m] => failures'[m] <= misses'[m]
                      /\ check.pc = "probing" =>
                           /\ m \in check.silent /\ ~manual'[m] => failures'[m] < misses'[m]
                           /\ m \in check.batch => failures'[m] < FailureLimit
                           /\ m \in raced' => failures'[m] = 0
                           /\ m \in check.gone => m \in check.answered
                      /\ check.pc # "counted"
    BY <1>1 DEF Streaks
  <2>1. check.pc # "counted"
    BY <1>1 DEF LoopFree
  <2>2. CASE m = l
    BY <1>1, <2>1, <2>2 DEF Streaks
  <2>3. CASE m # l
    BY <1>1, <2>1, <2>3 DEF Streaks
  <2> QED
    BY <2>2, <2>3
<1>7. Clock'
  BY <1>1 DEF Clock, RetentionClockHonest
<1> QED
  BY <1>2, <1>4, <1>5, <1>6, <1>7

(* The rows of S are gone, from the table and from the check.               *)
LEMMA DeleteStep ==
  ASSUME CheckInv, NEW S \in SUBSET Listing, LoopFree, Delete(S)
  PROVE  CheckInv'
<1> USE LifecycleAssumption DEF CheckInv
<1>1. /\ check'.pc = check.pc /\ check' \in CheckState
      /\ check'.batch = check.batch \ S /\ check'.silent = check.silent \ S
      /\ check'.gone = check.gone \ S /\ check'.answered = check.answered \ S
      /\ raced' = raced \ S
      /\ check = IdleCheck => check' = IdleCheck
  <2>1. /\ check'.pc = check.pc /\ check' \in CheckState
        /\ check'.batch = check.batch \ S /\ check'.silent = check.silent \ S
        /\ check'.gone = check.gone \ S /\ check'.answered = check.answered \ S
        /\ raced' = raced \ S
    BY DEF Delete, Types, CheckState
  <2>2. ASSUME check = IdleCheck PROVE check' = IdleCheck
    <3>1. check' = [IdleCheck EXCEPT !.batch = {}, !.silent = {}, !.gone = {}, !.answered = {}]
      BY <2>2 DEF Delete, IdleCheck
    <3> QED
      BY <3>1 DEF IdleCheck
  <2> QED
    BY <2>1, <2>2
<1>2. \A l \in Listing \ S :
        /\ stored'[l] = stored[l] /\ active'[l] = active[l] /\ manual'[l] = manual[l]
        /\ failures'[l] = failures[l] /\ checkedAge'[l] = checkedAge[l]
        /\ inactiveAge'[l] = inactiveAge[l] /\ misses'[l] = misses[l]
        /\ offline'[l] = offline[l]
  <2>1. \A l \in Listing \ S : active'[l] = active[l] /\ manual'[l] = manual[l]
    BY ZenonT(30) DEF Delete, Types
  <2> QED
    BY <2>1 DEF Delete
<1>3. \A l \in S :
        /\ stored'[l] = "absent" /\ ~active'[l] /\ ~manual'[l] /\ failures'[l] = 0
        /\ checkedAge'[l] = None /\ inactiveAge'[l] = None /\ misses'[l] = 0
        /\ offline'[l] = 0
  BY DEF Delete
<1>4. Types'
  <2>1. active' \in [Listing -> BOOLEAN] /\ manual' \in [Listing -> BOOLEAN]
    BY DEF Delete
  <2>2. /\ stored' \in [Listing -> {"absent", "visible", "hidden"}]
        /\ failures' \in [Listing -> Nat]
        /\ checkedAge' \in [Listing -> Nat \cup {None}]
        /\ inactiveAge' \in [Listing -> Nat \cup {None}]
        /\ misses' \in [Listing -> 0..FailureLimit]
        /\ offline' \in [Listing -> Nat]
    BY DEF Delete, Types
  <2> QED
    BY <1>1, <2>1, <2>2 DEF Types
<1>5. InCheck' = InCheck \ S /\ InCheck \subseteq Listing
  BY <1>1 DEF InCheck, Types, CheckState
<1>6. Held' /\ Corrected'
  BY <1>1, <1>2, <1>5 DEF Held, Corrected
<1>7. Clock'
  <2> SUFFICES ASSUME NEW l \in Listing
               PROVE  /\ inactiveAge'[l] # None <=> (stored'[l] # "absent" /\ ~active'[l])
                      /\ inactiveAge'[l] # None => inactiveAge'[l] = offline'[l]
                      /\ stored'[l] = "absent" \/ active'[l] => offline'[l] = 0
    BY DEF Clock, RetentionClockHonest
  <2> QED
    BY <1>2, <1>3 DEF Clock, RetentionClockHonest
<1>8. Streaks'
  BY <1>1, <1>2, <1>3 DEF Streaks
<1> QED
  BY <1>4, <1>6, <1>7, <1>8

(* A day passes.                                                            *)
LEMMA TickStep == ASSUME CheckInv, Tick PROVE CheckInv'
<1> USE LifecycleAssumption DEF CheckInv
<1>1. UNCHANGED <<stored, active, manual, failures, misses, raced, check>>
  BY DEF Tick
<1>2. /\ checkedAge' \in [Listing -> Nat \cup {None}]
      /\ \A l \in Listing : checkedAge'[l] = None <=> checkedAge[l] = None
  BY DEF Tick, Older, Types
<1>3. /\ inactiveAge' \in [Listing -> Nat \cup {None}]
      /\ \A l \in Listing : inactiveAge'[l] = None <=> inactiveAge[l] = None
      /\ \A l \in Listing : inactiveAge[l] # None => inactiveAge'[l] = Older(inactiveAge[l], Retention)
  BY DEF Tick, Older, Types
<1>4. /\ offline' \in [Listing -> Nat]
      /\ \A l \in Listing : stored[l] = "absent" \/ active[l] => offline'[l] = 0
      /\ \A l \in Listing : stored[l] # "absent" /\ ~active[l] =>
           offline'[l] = Older(offline[l], Retention)
  BY DEF Tick, Older, Types
<1>5. Types'
  BY <1>1, <1>2, <1>3, <1>4 DEF Types
<1>6. Held' /\ Corrected' /\ Streaks'
  BY <1>1, <1>2 DEF Held, Corrected, Streaks, InCheck
<1>7. Clock'
  BY <1>1, <1>3, <1>4 DEF Clock, RetentionClockHonest
<1> QED
  BY <1>5, <1>6, <1>7

LEMMA NextHolds == CheckInv /\ [Next]_vars => CheckInv'
<1> SUFFICES ASSUME CheckInv, [Next]_vars PROVE CheckInv'
  OBVIOUS
<1>1. CASE \E batch \in Batches : StartCheck(batch)
  BY <1>1, StartStep
<1>2. CASE Probe \/ \E l \in Listing : Hang(l)
  BY <1>2, AnswerStep, HangStep DEF Probe
<1>3. CASE RecordFailures \/ DeactivateListings \/ MarkListingsChecked
  BY <1>3, RecordStep, DeactivateStep, MarkStep
<1>4. CASE \E l \in Listing : Insert(l) \/ SoftDelete(l) \/ Restore(l)
                              \/ Reactivate(l) \/ ToggleCare(l)
  BY <1>4, InsertStep, VisibilityStep, ReactivateStep
<1>5. CASE \E l \in Listing : HardDelete(l)
  BY <1>5, DeleteStep DEF HardDelete
<1>6. CASE Purge
  BY <1>6, DeleteStep DEF Purge
<1>7. CASE Tick
  BY <1>7, TickStep
<1>8. CASE Restart
  BY <1>8, RestartStep
<1>9. CASE UNCHANGED vars
  BY <1>9 DEF CheckInv, Types, Held, Clock, Streaks, Corrected, RetentionClockHonest,
     InCheck, vars, row, seen
<1> QED
  BY LifecycleAssumption, <1>1, <1>2, <1>3, <1>4, <1>5, <1>6, <1>7, <1>8, <1>9 DEF Next, CheckStep, RowStep

LEMMA AlwaysCheckInv == Spec => []CheckInv
BY InitHolds, NextHolds, PTL DEF Spec

-----------------------------------------------------------------------------
(* S has been checked now: everybody else who ever was is ahead of S.       *)
LEMMA CheckedNow ==
  ASSUME TypeOK, NEW S \in SUBSET Listing, \A l \in S : stored[l] # "absent", Checked(S)
  PROVE  /\ checkedAge' \in [Listing -> (0..Stale) \cup {None}]
         /\ ahead' \in [Listing -> SUBSET Listing]
         /\ OrderOfChecks'
<1> USE LifecycleAssumption DEF TypeOK
<1>1. /\ checkedAge' \in [Listing -> (0..Stale) \cup {None}]
      /\ \A l \in Listing : checkedAge'[l] = IF l \in S THEN 0 ELSE checkedAge[l]
  BY DEF Checked, Set
<1>2. /\ ahead' \in [Listing -> SUBSET Listing]
      /\ \A l \in S : ahead'[l] = {m \in Listing \ S : checkedAge[m] # None}
      /\ \A l \in Listing \ S : ahead'[l] = ahead[l] \ S
  BY DEF Checked
<1>3. OrderOfChecks'
  <2> SUFFICES ASSUME NEW l \in Listing, NEW m \in ahead'[l]
               PROVE  /\ checkedAge'[l] # None /\ checkedAge'[m] # None
                      /\ checkedAge'[m] >= checkedAge'[l]
                      /\ l \notin ahead'[m]
                      /\ ahead'[m] \subseteq ahead'[l]
    BY DEF OrderOfChecks
  <2>1. m \in Listing \ S /\ ahead'[m] = ahead[m] \ S /\ checkedAge[m] # None
    BY <1>2 DEF OrderOfChecks
  <2>2. \A n \in ahead[m] : checkedAge[n] # None
    BY <2>1 DEF OrderOfChecks
  <2>3. CASE l \in S
    BY <1>1, <1>2, <2>1, <2>2, <2>3
  <2>4. CASE l \notin S
    BY <1>1, <1>2, <2>1, <2>4 DEF OrderOfChecks
  <2> QED
    BY <2>3, <2>4
<1> QED
  BY <1>1, <1>2, <1>3

(* The order outlives a step that checks nobody: rows of S are gone, the    *)
(* others grow older together.                                              *)
LEMMA OrderStands ==
  ASSUME TypeOK, NEW S \in SUBSET Listing,
         ahead' = [l \in Listing |-> IF l \in S THEN {} ELSE ahead[l] \ S],
         \A l \in Listing \ S : checkedAge'[l] = checkedAge[l]
  PROVE  ahead' \in [Listing -> SUBSET Listing] /\ OrderOfChecks'
<1> USE DEF TypeOK
<1>1. /\ ahead' \in [Listing -> SUBSET Listing]
      /\ \A l \in S : ahead'[l] = {}
      /\ \A l \in Listing \ S : ahead'[l] = ahead[l] \ S
  OBVIOUS
<1>2. ASSUME NEW l \in Listing, NEW m \in ahead'[l]
      PROVE  /\ checkedAge'[l] # None /\ checkedAge'[m] # None
             /\ checkedAge'[m] >= checkedAge'[l]
             /\ l \notin ahead'[m]
             /\ ahead'[m] \subseteq ahead'[l]
  <2>1. l \in Listing \ S /\ m \in ahead[l] /\ m \in Listing \ S
    BY <1>1, <1>2
  <2>2. ahead'[l] = ahead[l] \ S /\ ahead'[m] = ahead[m] \ S
    BY <1>1, <2>1
  <2>3. checkedAge'[l] = checkedAge[l] /\ checkedAge'[m] = checkedAge[m]
    BY <2>1
  <2> QED
    BY <2>1, <2>2, <2>3 DEF OrderOfChecks
<1> QED
  BY <1>1, <1>2 DEF OrderOfChecks

(* What the check holds are rows, and a probe leaves the counter in bounds. *)
LEMMA SilentBelowLimit ==
  ASSUME CheckInv, check.pc = "probing", NEW l \in check.silent
  PROVE  l \in Listing /\ failures[l] < FailureLimit
<1> USE LifecycleAssumption DEF CheckInv
<1>1. l \in Listing /\ failures[l] \in Nat /\ misses[l] \in 0..FailureLimit
  BY DEF Types, CheckState
<1>2. CASE manual[l]
  <2>1. l \in raced
    BY <1>2 DEF Corrected, InCheck
  <2> QED
    BY <1>1, <2>1 DEF Streaks
<1>3. CASE ~manual[l]
  BY <1>1, <1>3 DEF Streaks
<1> QED
  BY <1>1, <1>2, <1>3

LEMMA TypeInit == Init => TypeOK
BY LifecycleAssumption DEF Init, TypeOK, OrderOfChecks, CheckState, IdleCheck

(* The statements of a check.                                               *)
LEMMA CheckTypes ==
  ASSUME CheckInv, TypeOK, RecordFailures \/ DeactivateListings \/ MarkListingsChecked,
         Types'
  PROVE  TypeOK'
<1> USE LifecycleAssumption DEF CheckInv
<1>0. /\ check.silent \subseteq Listing /\ check.answered \subseteq Listing
      /\ \A l \in check.silent \cup check.answered : stored[l] # "absent"
  BY DEF Types, CheckState, Held, InCheck
<1>1. CASE RecordFailures
  <2>1. failures' \in [Listing -> 0..FailureLimit]
    <3>1. \A l \in check.silent : failures[l] + 1 <= FailureLimit
      BY <1>1, SilentBelowLimit DEF RecordFailures, Types
    <3> QED
      BY <1>1, <3>1 DEF RecordFailures, TypeOK
  <2>2. Checked(check.silent) /\ UNCHANGED <<inactiveAge, cared, offline>>
    BY <1>1 DEF RecordFailures, seen
  <2>3. /\ checkedAge' \in [Listing -> (0..Stale) \cup {None}]
        /\ ahead' \in [Listing -> SUBSET Listing]
        /\ OrderOfChecks'
    BY <1>0, <2>2, CheckedNow
  <2> QED
    BY <2>1, <2>2, <2>3 DEF TypeOK, Types
<1>2. CASE DeactivateListings
  <2>1. /\ failures' \in [Listing -> 0..FailureLimit]
        /\ inactiveAge' \in [Listing -> (0..Retention) \cup {None}]
    BY <1>2 DEF DeactivateListings, Set, TypeOK
  <2>2. UNCHANGED <<checkedAge, ahead, cared, offline>>
    BY <1>2 DEF DeactivateListings, seen
  <2> QED
    BY <2>1, <2>2 DEF TypeOK, Types, OrderOfChecks
<1>3. CASE MarkListingsChecked
  <2>1. failures' \in [Listing -> 0..FailureLimit]
    BY <1>3 DEF MarkListingsChecked, Set, TypeOK
  <2>2. Checked(check.answered) /\ UNCHANGED <<inactiveAge, cared, offline>>
    BY <1>3 DEF MarkListingsChecked
  <2>3. /\ checkedAge' \in [Listing -> (0..Stale) \cup {None}]
        /\ ahead' \in [Listing -> SUBSET Listing]
        /\ OrderOfChecks'
    BY <1>0, <2>2, CheckedNow
  <2> QED
    BY <2>1, <2>2, <2>3 DEF TypeOK, Types
<1> QED
  BY <1>1, <1>2, <1>3

LEMMA DeleteTypes ==
  ASSUME TypeOK, NEW S \in SUBSET Listing, Delete(S), Types'
  PROVE  TypeOK'
<1> USE LifecycleAssumption
<1>1. /\ failures' \in [Listing -> 0..FailureLimit]
      /\ checkedAge' \in [Listing -> (0..Stale) \cup {None}]
      /\ inactiveAge' \in [Listing -> (0..Retention) \cup {None}]
      /\ offline' \in [Listing -> 0..Retention]
      /\ cared' \subseteq Listing
  BY DEF Delete, TypeOK
<1>2. ahead' \in [Listing -> SUBSET Listing] /\ OrderOfChecks'
  <2>1. \A l \in Listing \ S : checkedAge'[l] = checkedAge[l]
    BY DEF Delete, TypeOK
  <2> QED
    BY <2>1, OrderStands DEF Delete
<1> QED
  BY <1>1, <1>2 DEF TypeOK, Types

(* Ages grow together, each up to its window.                               *)
LEMMA TickTypes ==
  ASSUME TypeOK, Tick, Types'
  PROVE  TypeOK'
<1> USE LifecycleAssumption
<1>1. /\ checkedAge' \in [Listing -> (0..Stale) \cup {None}]
      /\ inactiveAge' \in [Listing -> (0..Retention) \cup {None}]
      /\ offline' \in [Listing -> 0..Retention]
      /\ UNCHANGED <<failures, cared, ahead>>
  BY DEF Tick, Older, TypeOK
<1>2. /\ \A l \in Listing : checkedAge[l] # None => checkedAge'[l] # None
      /\ \A l, m \in Listing : /\ checkedAge[l] # None /\ checkedAge[m] # None
                               /\ checkedAge[m] >= checkedAge[l]
                               => checkedAge'[m] >= checkedAge'[l]
  BY DEF Tick, Older, TypeOK
<1>3. OrderOfChecks'
  <2> SUFFICES ASSUME NEW l \in Listing, NEW m \in ahead[l]
               PROVE  /\ checkedAge'[l] # None /\ checkedAge'[m] # None
                      /\ checkedAge'[m] >= checkedAge'[l]
                      /\ l \notin ahead[m]
                      /\ ahead[m] \subseteq ahead[l]
    BY <1>1 DEF OrderOfChecks
  <2>1. m \in Listing
    BY DEF TypeOK
  <2> QED
    BY <1>2, <2>1 DEF OrderOfChecks, TypeOK
<1> QED
  BY <1>1, <1>3 DEF TypeOK, Types

LEMMA TypeStep ==
  ASSUME CheckInv, TypeOK, [Next]_vars
  PROVE  TypeOK'
<1> USE LifecycleAssumption
<1>0. Types'
  BY NextHolds DEF CheckInv
<1>1. CASE RecordFailures \/ DeactivateListings \/ MarkListingsChecked
  BY <1>0, <1>1, CheckTypes
<1>2. CASE \/ \E batch \in Batches : StartCheck(batch)
           \/ Probe \/ (\E l \in Listing : Hang(l)) \/ Restart \/ UNCHANGED vars
  <2>1. UNCHANGED <<failures, checkedAge, inactiveAge, cared, ahead, offline>>
    BY <1>2 DEF StartCheck, Probe, Answer, Hang, Restart, vars, row, seen
  <2> QED
    BY <1>0, <2>1 DEF TypeOK, Types, OrderOfChecks
<1>3. CASE \E l \in Listing : Insert(l) \/ SoftDelete(l) \/ Restore(l) \/ ToggleCare(l)
  <2>1. UNCHANGED <<failures, checkedAge, inactiveAge, ahead, offline>> /\ cared' \subseteq Listing
    BY <1>3 DEF Insert, SoftDelete, Restore, ToggleCare, seen, TypeOK
  <2> QED
    BY <1>0, <2>1 DEF TypeOK, Types, OrderOfChecks
<1>4. CASE \E l \in Listing : Reactivate(l)
  <2>1. /\ failures' \in [Listing -> 0..FailureLimit]
        /\ inactiveAge' \in [Listing -> (0..Retention) \cup {None}]
        /\ offline' \in [Listing -> 0..Retention]
        /\ UNCHANGED <<checkedAge, cared, ahead>>
    BY <1>4 DEF Reactivate, TypeOK
  <2> QED
    BY <1>0, <2>1 DEF TypeOK, Types, OrderOfChecks
<1>5. CASE Purge \/ \E l \in Listing : HardDelete(l)
  BY <1>0, <1>5, DeleteTypes DEF Purge, HardDelete
<1>6. CASE Tick
  BY <1>0, <1>6, TickTypes
<1> QED
  BY LifecycleAssumption, <1>1, <1>2, <1>3, <1>4, <1>5, <1>6 DEF Next, CheckStep, RowStep

(* The counters stay in their bounds, and the order the next check takes    *)
(* its rows in is a strict one that agrees with their ages.                 *)
THEOREM TypeCorrect == Spec => []TypeOK
<1>1. CheckInv /\ TypeOK /\ [Next]_vars => (CheckInv /\ TypeOK)'
  BY NextHolds, TypeStep
<1> QED
  BY InitHolds, TypeInit, <1>1, PTL DEF Spec

-----------------------------------------------------------------------------
(* The clock of the retention purge never runs ahead of the days a row was  *)
(* shown as gone.                                                           *)
THEOREM ClockIsHonest == Spec => []RetentionClockHonest
<1>1. CheckInv => RetentionClockHonest
  BY DEF CheckInv, Clock
<1> QED
  BY <1>1, AlwaysCheckInv, PTL

(* Only DeactivateListings takes a row offline that stays stored.           *)
LEMMA OnlyDeactivation ==
  ASSUME CheckInv, [Next]_vars, NEW l \in Listing,
         active[l], stored'[l] # "absent", ~active'[l]
  PROVE  check.pc = "counted" /\ l \in check.gone
<1> USE DEF CheckInv
<1>1. CASE DeactivateListings
  BY <1>1 DEF DeactivateListings, Set
<1>2. CASE \/ \E batch \in Batches : StartCheck(batch)
           \/ Probe \/ (\E m \in Listing : Hang(m)) \/ RecordFailures
           \/ MarkListingsChecked \/ Tick \/ Restart \/ UNCHANGED vars
  BY <1>2 DEF StartCheck, Probe, Answer, Hang, RecordFailures, MarkListingsChecked, Tick, Restart,
     vars, row
<1>3. CASE \E m \in Listing : SoftDelete(m) \/ Restore(m) \/ ToggleCare(m)
  BY <1>3 DEF SoftDelete, Restore, ToggleCare
<1>4. CASE \E m \in Listing : Insert(m) \/ Reactivate(m)
  BY <1>4 DEF Insert, Reactivate, Types
<1>5. ASSUME NEW S \in SUBSET Listing, Delete(S) PROVE FALSE
  <2>1. l \notin S
    BY <1>5 DEF Delete
  <2> QED
    BY <1>5, <2>1 DEF Delete
<1>6. CASE Purge \/ \E m \in Listing : HardDelete(m)
  BY <1>5, <1>6 DEF Purge, HardDelete
<1> QED
  BY LifecycleAssumption, <1>1, <1>2, <1>3, <1>4, <1>6 DEF Next, CheckStep, RowStep

(* A row goes offline only when a probe of this check said it is gone, or   *)
(* after FailureLimit probes nobody answered.                               *)
THEOREM OfflineForCause == Spec => DeactivatedForCause
<1>1. CheckInv /\ [Next]_vars =>
        [\A l \in Listing :
           (active[l] /\ stored'[l] # "absent" /\ ~active'[l])
             => (l \in check.answered \/ misses[l] >= FailureLimit)]_vars
  BY OnlyDeactivation DEF CheckInv, Streaks
<1> QED
  BY <1>1, AlwaysCheckInv, PTL DEF Spec, DeactivatedForCause

(* What a user corrected, no later check undoes.                            *)
THEOREM CorrectionRespected == Spec => LaterChecksRespectCorrection
<1>1. CheckInv /\ [Next]_vars =>
        [\A l \in Listing :
           (manual[l] /\ active[l] /\ stored'[l] # "absent" /\ ~active'[l])
             => l \in raced]_vars
  BY OnlyDeactivation DEF CheckInv, Corrected, InCheck
<1> QED
  BY <1>1, AlwaysCheckInv, PTL DEF Spec, LaterChecksRespectCorrection

=============================================================================
