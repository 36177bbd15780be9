-------------------------- MODULE MCChannelHistory --------------------------
(* Small instances of ChannelHistory. *)
EXTENDS ChannelHistory
=============================================================================
