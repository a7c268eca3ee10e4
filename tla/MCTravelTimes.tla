--------------------------- MODULE MCTravelTimes ----------------------------
(***************************************************************************)
(* Small instances of TravelTimes.                                         *)
(***************************************************************************)
EXTENDS TravelTimes, TLC

CONSTANTS home, work, office, shop

Symmetry == Permutations(Spot) \cup Permutations(Run)

BooksMC == {(home :> office @@ work :> None), (home :> shop @@ work :> office)}
=============================================================================
