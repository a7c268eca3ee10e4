--------------------------- MODULE MCPriceTracking ---------------------------
(***************************************************************************)
(* Small instances of PriceTracking: 100 and 102 are less than Threshold   *)
(* (5 percent) apart, 120 is a notable move from both.                     *)
(***************************************************************************)
EXTENDS PriceTracking, TLC

=============================================================================
