---------------------------- MODULE SocketPromise ----------------------------
(***************************************************************************)
(* What a websocket promises its owner, as WebSocketPool.hpp describes the *)
(* listener: at most one onOpen, messages after it, and one onClose that   *)
(* ends everything.  What the owner sends is written in the order it was   *)
(* asked for, each message once.                                           *)
(***************************************************************************)
EXTENDS Naturals, Sequences

VARIABLES
    calls,      \* the calls of the listener so far, oldest first
    asked,      \* messages the owner asked to send; the nth is n
    written     \* messages the transport took, oldest first

vars == <<calls, asked, written>>

Init ==
    /\ calls = << >>
    /\ asked = 0
    /\ written = << >>

Ended == calls # << >> /\ calls[Len(calls)] = "onClose"

OnOpen ==
    /\ calls = << >>
    /\ calls' = <<"onOpen">>
    /\ UNCHANGED <<asked, written>>

OnMessage ==
    /\ calls # << >> /\ ~Ended
    /\ calls' = Append(calls, "onMessage")
    /\ UNCHANGED <<asked, written>>

OnClose ==
    /\ ~Ended
    /\ calls' = Append(calls, "onClose")
    /\ UNCHANGED <<asked, written>>

Ask ==
    /\ asked' = asked + 1
    /\ UNCHANGED <<calls, written>>

Write ==
    /\ Len(written) < asked
    /\ written' = Append(written, Len(written) + 1)
    /\ UNCHANGED <<calls, asked>>

Next == OnOpen \/ OnMessage \/ OnClose \/ Ask \/ Write

Spec == Init /\ [][Next]_vars
=============================================================================
