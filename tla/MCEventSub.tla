----------------------------- MODULE MCEventSub -----------------------------
(* Small instances of EventSub: one request of each of two users, or two of one. *)
EXTENDS EventSub, TLC

CONSTANTS r1, r2, ann, bob

OneUser == r1 :> ann @@ r2 :> ann
TwoUsers == r1 :> ann @@ r2 :> bob
=============================================================================
