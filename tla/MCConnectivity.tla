---------------------------- MODULE MCConnectivity ----------------------------
(***************************************************************************)
(* A small instance of Connectivity: two listings; a building with a       *)
(* German register that knows its connection, one of which it knows        *)
(* nothing, and one in a country without a register.                       *)
(***************************************************************************)
EXTENDS Connectivity, TLC
CONSTANTS de, l1, l2, b1, b2, b3
RegisterMC == b1 :> de @@ b2 :> Nobody @@ b3 :> de
TruthMC == b1 :> "full" @@ b2 :> "empty" @@ b3 :> "empty"
NewestMC == <<l1, l2>>
=============================================================================
