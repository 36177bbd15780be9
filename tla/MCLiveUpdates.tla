--------------------------- MODULE MCLiveUpdates ---------------------------
(* Small instances of LiveUpdates: subscriptions are model values. *)
EXTENDS LiveUpdates

CONSTANTS s1, s2, s3
=============================================================================
