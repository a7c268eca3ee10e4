------------------------- MODULE MCListingLocation --------------------------
(***************************************************************************)
(* Small instances of ListingLocation: one row and two addresses, each of  *)
(* which stands for the place the geocoder finds for it.                   *)
(***************************************************************************)
EXTENDS ListingLocation, TLC

=============================================================================
