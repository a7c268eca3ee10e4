------------------------------ MODULE MCServices ------------------------------
(***************************************************************************)
(* A small instance of Services: two of everything that can meet another   *)
(* of its kind.  Within a part the values of User, Id and Call are         *)
(* interchangeable.                                                        *)
(*                                                                         *)
(* The households' ceilings fall between prices of the instance: 35        *)
(* percent of 4000 euros carry a loan of 280000, and leave nothing beside  *)
(* an old debt of 1400 a month, or less than what is left to live on; the  *)
(* prices lie on, just below and just above the ceilings, for a rent, a    *)
(* purchase and neither.  What lies on one is rounded differently from     *)
(* household to household, down or up on either side of a comparison.      *)
(***************************************************************************)
EXTENDS Services, TLC

Symmetry == Permutations(User) \cup Permutations(Id) \cup Permutations(Call)

HouseholdsMC == {[income |-> 0, costs |-> 13, debt |-> 0], [income |-> 40, costs |-> 13, debt |-> 0],
                 [income |-> 40, costs |-> 25, debt |-> 0], [income |-> 40, costs |-> 13, debt |-> 14],
                 [income |-> 40, costs |-> 26, debt |-> 14]}
RoundedMC ==
  [h \in HouseholdsMC |->
     CASE h.debt = 0 /\ h.costs = 13  -> {<<"ceiling", 35>>}
       [] h.debt = 0 /\ h.costs = 25  -> {<<"share", 35>>, <<"cash", 100>>}
       [] h.debt = 14 /\ h.costs = 13 -> {<<"nothing", 35>>, <<"nothing", 40>>}
       [] h.debt = 14 /\ h.costs = 26 -> {<<"ceiling", 35>>, <<"ceiling", 40>>, <<"nothing", 40>>}]
TermsMC == {<<4, 2>>, <<4, 0>>, <<0, 0>>}
DiscountMC == [r \in {4} |-> 136]
PricesMC == {0, 1, 2, 11, 12, 14, 15, 16, 200, 500, 2545, 2546, 2909, 3091, 9000}
=============================================================================
