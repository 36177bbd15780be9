------------------------- MODULE WebSocketConnection -------------------------
(***************************************************************************)
(* One connection of a WebSocketPool: the chain of asynchronous operations *)
(* from resolving the host to reading messages, the queue of messages to   *)
(* send, and the ways it ends: an operation fails, the owner closes it or  *)
(* drops its handle, or the pool shuts down.                               *)
(*                                                                         *)
(* The handlers run in the pool's thread, one at a time.  The owner's      *)
(* thread posts tasks to it, which run in the order they were posted.      *)
(* Boost.Asio and Beast are external: an operation completes once, with    *)
(* or without an error, also when it was cancelled after its completion    *)
(* was queued; an error of a read or a write leaves the stream closed.     *)
(***************************************************************************)
EXTENDS Naturals, Sequences, FiniteSets

CONSTANTS
    TlsModes,        \* a TlsWebSocketConnection (TRUE) or a TcpWebSocketConnection
    MaxEndpoints,    \* bound: addresses the host resolves to
    MaxSends,        \* bound: messages the owner sends
    MaxReads,        \* bound: messages that arrive
    MaxCloses        \* bound: calls of close() by the owner

ASSUME SocketAssumption ==
    /\ TlsModes \subseteq BOOLEAN
    /\ MaxEndpoints \in Nat \ {0}
    /\ {MaxSends, MaxReads, MaxCloses} \subseteq Nat

VARIABLES
    conn,        \* the members of the connection, and what it has under way
    posted,      \* tasks posted to the thread of the pool
    handle,      \* the owner has its WebSocketHandle
    closing,     \* the pool is shutting down
    calls,       \* history: the calls of the listener
    sent,        \* history: messages the owner asked to send; the nth is n
    written,     \* history: messages the transport took
    closes       \* bound: calls of close() so far

vars == <<conn, posted, handle, closing, calls, sent, written, closes>>

\* The operation of the chain that is under way.
Operation == {"none", "resolve", "connect", "tls", "handshake", "read"}

\* createSocket()
Init ==
    /\ \E tls \in TlsModes : conn =
              [tls |-> tls,
               op |-> "none",
               endpoints |-> 0,            \* resolvedEndpoints left to try
               isOpen |-> FALSE,           \* stream.is_open()
               queuedMessages |-> << >>,
               isSending |-> FALSE,        \* async_write is under way
               isClosing |-> FALSE,
               closeOp |-> FALSE,          \* async_close is under way
               listener |-> TRUE]          \* and with it pool
    /\ posted = <<"run">>
    /\ handle = TRUE
    /\ closing = FALSE
    /\ calls = << >>
    /\ sent = 0
    /\ written = << >>
    /\ closes = 0

\* Something that will call the connection again is under way; without it the
\* last reference to the connection is gone.
Pending ==
    posted # << >> \/ conn.op # "none" \/ conn.isSending \/ conn.closeOp

\* The weak pointer of the handle can be locked: the pool still has the
\* connection, or something that is under way does.
Alive == conn.listener \/ Pending
-----------------------------------------------------------------------------
(* What the handlers call. *)

\* Faulty variant: the messages are dropped when the connection ends.
DetachClears(r) == [r EXCEPT !.listener = FALSE, !.queuedMessages = << >>]

Detach(r) == [r EXCEPT !.listener = FALSE]

\* Faulty variant: a stream that is not open is not closed.
CloseImplOpenOnly(r) ==
    IF r.isClosing THEN r ELSE [r EXCEPT !.isClosing = TRUE, !.closeOp = r.isOpen]

\* closeImpl(): cancel what is under way, then async_close.
CloseImpl(r) ==
    IF r.isClosing THEN r ELSE [r EXCEPT !.isClosing = TRUE, !.closeOp = TRUE]

Fail(r) == Detach(IF r.isOpen THEN CloseImpl(r) ELSE r)

TrySend(r) ==
    IF r.queuedMessages = << >> \/ r.isSending \/ ~r.isOpen THEN r
    ELSE [r EXCEPT !.isSending = TRUE]

\* tryConnect() with n endpoints left
TryConnect(r, n) ==
    IF n = 0 THEN Fail([r EXCEPT !.op = "none", !.endpoints = 0])
    ELSE [r EXCEPT !.op = "connect", !.endpoints = n]

\* The connection becomes r; detach() tells the listener if there is one.
Become(r) ==
    /\ conn' = r
    /\ calls' = IF conn.listener /\ ~r.listener THEN Append(calls, "onClose") ELSE calls
-----------------------------------------------------------------------------
(* The thread of the owner. *)

Post(task) == posted' = IF Alive THEN Append(posted, task) ELSE posted

\* WebSocketHandle::sendText() and sendBinary()
Send ==
    /\ handle /\ Alive /\ sent < MaxSends
    /\ sent' = sent + 1
    /\ Post("send")
    /\ UNCHANGED <<conn, handle, closing, calls, written, closes>>

\* WebSocketHandle::close(), which its destructor calls as well
Close(dropped) ==
    /\ handle
    /\ dropped \/ closes < MaxCloses
    /\ closes' = IF dropped THEN closes ELSE closes + 1
    /\ handle' = ~dropped
    /\ Post("close")
    /\ UNCHANGED <<conn, closing, calls, sent, written>>

\* WebSocketPoolImpl::tryShutdown()
Shutdown ==
    /\ ~closing
    /\ closing' = TRUE
    /\ posted' = IF conn.listener THEN Append(posted, "close") ELSE posted
    /\ UNCHANGED <<conn, handle, calls, sent, written, closes>>
-----------------------------------------------------------------------------
(* Posted tasks. *)

Unposted == posted' = Tail(posted) /\ UNCHANGED <<handle, closing, sent, written, closes>>

\* run(); setupStream() of a TLS connection can fail.
Run ==
    /\ posted # << >> /\ Head(posted) = "run"
    /\ Unposted
    /\ \/ Become([conn EXCEPT !.op = "resolve"])
       \/ conn.tls /\ Become(Fail(conn))

\* The tasks of s that enqueue a message
SendTasks(s) == {i \in 1..Len(s) : s[i] = "send"}

\* The tasks run in the order of the calls, so the first of those that are left
\* holds the oldest message that is not enqueued yet.
Enqueue ==
    /\ posted # << >> /\ Head(posted) = "send"
    /\ Unposted
    /\ LET number == sent - Cardinality(SendTasks(posted)) + 1
       IN  Become(TrySend([conn EXCEPT !.queuedMessages = Append(@, number)]))

RunClose ==
    /\ posted # << >> /\ Head(posted) = "close"
    /\ Unposted
    /\ Become(CloseImpl(conn))
-----------------------------------------------------------------------------
(* Completions. *)

Unrelated == UNCHANGED <<posted, handle, closing, sent, closes>>

OnResolve ==
    /\ conn.op = "resolve"
    /\ \/ Become(Fail([conn EXCEPT !.op = "none"]))
       \/ \E n \in 1..MaxEndpoints : Become(TryConnect(conn, n))
    /\ Unrelated /\ UNCHANGED written

OnTcpHandshake ==
    /\ conn.op = "connect"
    /\ \/ Become(TryConnect(conn, conn.endpoints - 1))
       \/ Become([conn EXCEPT !.op = IF conn.tls THEN "tls" ELSE "handshake", !.endpoints = 0])
    /\ Unrelated /\ UNCHANGED written

OnTlsHandshake ==
    /\ conn.op = "tls"
    /\ \/ Become(Fail([conn EXCEPT !.op = "none"]))
       \/ Become([conn EXCEPT !.op = "handshake"])
    /\ Unrelated /\ UNCHANGED written

\* Faulty variants: a connection that is closing or closed is opened; what was
\* sent before is not written.
OnWsHandshakeUnguarded ==
    /\ conn.op = "handshake"
    /\ \/ Become(Fail([conn EXCEPT !.op = "none"]))
       \/ /\ conn' = TrySend([conn EXCEPT !.op = "read", !.isOpen = TRUE])
          /\ calls' = Append(calls, "onOpen")
    /\ Unrelated /\ UNCHANGED written

OnWsHandshakeIdle ==
    /\ conn.op = "handshake"
    /\ LET heard == conn.listener /\ ~conn.isClosing
       IN  \/ /\ ~heard
              /\ \E ok \in BOOLEAN : Become([conn EXCEPT !.op = "none", !.isOpen = ok])
           \/ heard /\ Become(Fail([conn EXCEPT !.op = "none"]))
           \/ /\ heard
              /\ conn' = [conn EXCEPT !.op = "read", !.isOpen = TRUE]
              /\ calls' = Append(calls, "onOpen")
    /\ Unrelated /\ UNCHANGED written

OnWsHandshake ==
    /\ conn.op = "handshake"
    /\ LET heard == conn.listener /\ ~conn.isClosing
       IN  \/ /\ ~heard
              /\ \E ok \in BOOLEAN : Become([conn EXCEPT !.op = "none", !.isOpen = ok])
           \/ heard /\ Become(Fail([conn EXCEPT !.op = "none"]))
           \/ /\ heard
              /\ conn' = TrySend([conn EXCEPT !.op = "read", !.isOpen = TRUE])
              /\ calls' = Append(calls, "onOpen")
    /\ Unrelated /\ UNCHANGED written

\* onReadDone() with an error
ReadFails ==
    LET failed == [conn EXCEPT !.op = "none", !.isOpen = FALSE] IN
    /\ conn.op = "read"
    /\ Become(IF conn.listener /\ ~conn.isClosing THEN Fail(failed) ELSE failed)
    /\ Unrelated /\ UNCHANGED written

\* onReadDone() with a message
ReadSucceeds ==
    /\ conn.op = "read" /\ conn.isOpen
    /\ \/ /\ conn.listener /\ ~conn.isClosing
          /\ Len(calls) <= MaxReads
          /\ calls' = Append(calls, "onMessage")
          /\ UNCHANGED conn
       \/ /\ ~conn.listener \/ conn.isClosing
          /\ Become([conn EXCEPT !.op = "none"])
    /\ Unrelated /\ UNCHANGED written

OnWriteDone ==
    LET rest == IF conn.queuedMessages = << >> THEN << >> ELSE Tail(conn.queuedMessages)
        done == [conn EXCEPT !.queuedMessages = rest, !.isSending = FALSE]
    IN  /\ conn.isSending
        /\ \/ /\ Become(Fail([done EXCEPT !.isOpen = FALSE]))
              /\ UNCHANGED written
           \/ /\ Become(TrySend(done))
              /\ written' = Append(written, Head(conn.queuedMessages))
        /\ Unrelated

\* The handler of async_close, with or without an error
CloseDone ==
    /\ conn.closeOp
    /\ Become(Detach([conn EXCEPT !.closeOp = FALSE, !.isOpen = FALSE]))
    /\ Unrelated /\ UNCHANGED written

\* The stream stops being open: the peer closes it, or async_close goes ahead.
StreamEnds ==
    /\ conn.isOpen
    /\ Become([conn EXCEPT !.isOpen = FALSE])
    /\ Unrelated /\ UNCHANGED written
-----------------------------------------------------------------------------
Next ==
    \/ Send
    \/ \E dropped \in BOOLEAN : Close(dropped)
    \/ Shutdown
    \/ Run \/ Enqueue \/ RunClose
    \/ OnResolve \/ OnTcpHandshake \/ OnTlsHandshake \/ OnWsHandshake
    \/ ReadFails \/ ReadSucceeds \/ OnWriteDone
    \/ CloseDone
    \/ StreamEnds

Spec == Init /\ [][Next]_vars

\* The thread runs what is posted; the steps of connecting and async_close end,
\* by their timeouts if nothing else; TCP takes a message or fails; a read on a
\* stream that is no longer open ends.
Fairness ==
    /\ WF_vars(Run \/ Enqueue \/ RunClose)
    /\ WF_vars(OnResolve) /\ WF_vars(OnTcpHandshake)
    /\ WF_vars(OnTlsHandshake) /\ WF_vars(OnWsHandshake)
    /\ WF_vars(CloseDone)
    /\ WF_vars(OnWriteDone)
    /\ WF_vars(~conn.isOpen /\ ReadFails)

FairSpec == Spec /\ Fairness
-----------------------------------------------------------------------------
(* Properties. *)

\* Every variable has its type.
TypeOK ==
    /\ conn \in [tls : BOOLEAN, op : Operation, endpoints : 0..MaxEndpoints, isOpen : BOOLEAN,
                 queuedMessages : Seq(1..MaxSends), isSending : BOOLEAN,
                 isClosing : BOOLEAN, closeOp : BOOLEAN, listener : BOOLEAN]
    /\ posted \in Seq({"run", "send", "close"})
    /\ handle \in BOOLEAN /\ closing \in BOOLEAN
    /\ calls \in Seq({"onOpen", "onMessage", "onClose"})
    /\ sent \in 0..MaxSends
    /\ written \in Seq(1..MaxSends)
    /\ closes \in 0..MaxCloses

\* WebSocketConnectionImpl.cpp:289 and WebSocketConnection.cpp:25: the queue is
\* not empty when a write completes, and a connection for which nothing is under
\* way, so that the pool can go, has told its listener.  However closing,
\* failing and completing interleave, the assertions hold.
NeverAsserts ==
    /\ conn.isSending => conn.queuedMessages # << >>
    /\ ~Pending => ~conn.listener

\* The listener is called and messages are written as SocketPromise says.
Promise == INSTANCE SocketPromise WITH asked <- sent

Implements == Promise!Spec

\* Whoever closes the connection (the owner, its handle, the pool) is told of
\* the end, at whatever step of connecting or sending the call finds it.
CloseIsTold == (~handle \/ closing \/ closes > 0) ~> ~conn.listener

\* What was sent before or after the connection opened is written, or the
\* connection ends.
SendsAreWritten ==
    \A n \in 1..MaxSends :
        (sent >= n /\ calls # << >>) ~> (n <= Len(written) \/ ~conn.listener)
=============================================================================
