----------------------------- MODULE MCKickChat -----------------------------
(* Small instances of KickChat. *)
EXTENDS KickChat, TLC

CONSTANTS a1, a2, b1, A, B

\* A single split
OneChannel == a1 :> A

\* Two objects for the same slug, one after or beside the other
TwoOfOneSlug == a1 :> A @@ a2 :> A

\* Two slugs on the one socket
TwoSlugs == a1 :> A @@ b1 :> B

\* A slug that is closed and opened again next to another slug
ThreeChannels == a1 :> A @@ a2 :> A @@ b1 :> B
=============================================================================
