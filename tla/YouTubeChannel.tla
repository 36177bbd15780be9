--------------------------- MODULE YouTubeChannel ---------------------------
(***************************************************************************)
(* What the two sides of a YouTubeChannel share: the broadcast it has      *)
(* found, which YouTubeChat reads and YouTubeSends posts to.               *)
(***************************************************************************)
EXTENDS Naturals

CONSTANT MaxBroadcasts    \* bound: broadcasts of the target

VARIABLE videoId    \* videoId_, 0 when empty
=============================================================================
