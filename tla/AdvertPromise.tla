---------------------------- MODULE AdvertPromise ----------------------------
(***************************************************************************)
(* What a search job promises about the adverts of its portals, seen from  *)
(* the outside: an advert is unknown, then stored, then perhaps announced  *)
(* as new.  It is announced at most once for each time it was stored, and  *)
(* only deleting its row for good makes it unknown again.                  *)
(***************************************************************************)
CONSTANT Advert

VARIABLE stage

Stage == {"unknown", "stored", "announced"}

Init == stage = [a \in Advert |-> "unknown"]

(* A job run or a user puts adverts nobody had stored into the database.   *)
Discover(S) ==
  /\ \A a \in S : stage[a] = "unknown"
  /\ stage' = [a \in Advert |-> IF a \in S THEN "stored" ELSE stage[a]]

(* One notification goes out for adverts that were stored, never announced. *)
Announce(S) ==
  /\ \A a \in S : stage[a] = "stored"
  /\ stage' = [a \in Advert |-> IF a \in S THEN "announced" ELSE stage[a]]

(* The row is deleted for good; the advert may be found again.             *)
Forget(a) ==
  /\ stage[a] # "unknown"
  /\ stage' = [stage EXCEPT ![a] = "unknown"]

Next ==
  \/ \E S \in SUBSET Advert : Discover(S) \/ Announce(S)
  \/ \E a \in Advert : Forget(a)

Spec == Init /\ [][Next]_stage
=============================================================================
