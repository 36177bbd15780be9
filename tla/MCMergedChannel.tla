--------------------------- MODULE MCMergedChannel ---------------------------
(* Small instances of MergedChannel: platforms and texts are model values. *)
EXTENDS MergedChannel, TLC

CONSTANTS Twitch, Kick, YouTube, hi, yo

\* No platform and no text is special.
Symmetry == Permutations(Platform) \cup Permutations(Text)
=============================================================================
