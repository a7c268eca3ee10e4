--------------------------- MODULE MCListingDedup ---------------------------
(***************************************************************************)
(* Three adverts of one job: `a` and `b` are the same flat on two portals  *)
(* with the same text, so they share the exact hash; `c` is that flat on   *)
(* the first portal under another headline.  `a` and `b` fall into one     *)
(* bucket, which holds MaxBucket fingerprints.                             *)
(***************************************************************************)
EXTENDS ListingDedup, TLC

CONSTANTS a, b, c

MCAdvert == {a, b, c}
MCProviderOf == (a :> "p1") @@ (b :> "p2") @@ (c :> "p1")
MCKeyOf == (a :> "k1") @@ (b :> "k1") @@ (c :> "k2")
MCFlatOf == (a :> "f1") @@ (b :> "f1") @@ (c :> "f1")
MCBlockOf == (a :> "m1") @@ (b :> "m1") @@ (c :> "m1")
=============================================================================
