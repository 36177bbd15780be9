----------------------- MODULE MCWebSocketConnection -----------------------
(* Small instances of WebSocketConnection. *)
EXTENDS WebSocketConnection
=============================================================================
