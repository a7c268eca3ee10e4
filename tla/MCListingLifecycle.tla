------------------------- MODULE MCListingLifecycle -------------------------
(***************************************************************************)
(* Small instances of ListingLifecycle: rows that are probed beside one of *)
(* a provider without a probe, which never leaves the front of the order:  *)
(* with a place of the batch to spare, and without.                        *)
(***************************************************************************)
EXTENDS ListingLifecycle, TLC

=============================================================================
