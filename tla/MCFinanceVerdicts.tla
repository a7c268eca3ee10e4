------------------------- MODULE MCFinanceVerdicts -------------------------
(* Households whose ceilings fall between prices of the instance: 35        *)
(* percent of 4000 euros carry a loan of 280000, and leave nothing beside   *)
(* an old debt of 1400 a month; the prices lie on, just below and just      *)
(* above the ceilings, for a rent, a purchase and neither.  No comparison   *)
(* is turned by rounding.                                                   *)
EXTENDS FinanceVerdicts
MCHouseholds == {[income |-> 0, costs |-> 13, debt |-> 0], [income |-> 40, costs |-> 13, debt |-> 0],
                 [income |-> 40, costs |-> 25, debt |-> 0], [income |-> 40, costs |-> 13, debt |-> 14],
                 [income |-> 40, costs |-> 26, debt |-> 14]}
MCTerms == {<<4, 2>>, <<4, 0>>, <<0, 0>>}
MCDiscount == [r \in {4} |-> 136]
MCRounded == [h \in MCHouseholds |-> {}]
MCPrices == {0, 1, 2, 11, 12, 14, 15, 16, 200, 500, 2545, 2546, 2909, 3091, 9000}
=============================================================================
