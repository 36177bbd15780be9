----------------------- MODULE MCTwitchReadConnection -----------------------
(* Small instances of TwitchReadConnection. *)
EXTENDS TwitchReadConnection

CONSTANTS v1, h1, h2
=============================================================================
