------------------------------ MODULE KickChat ------------------------------
(***************************************************************************)
(* The Kick chat connection: KickChatServer owns one Pusher socket         *)
(* (KickWebSocket) shared by every KickChannel.  A channel is found by its *)
(* slug (bySlug_), resolves that slug to a chatroom over HTTP, and is then *)
(* reached through its chatroom (byChatroom_).  Both registries hold weak  *)
(* pointers, so an entry can outlive its channel.                          *)
(*                                                                         *)
(* Everything runs in the GUI thread, one handler at a time; what is       *)
(* concurrent is the order in which socket events, HTTP answers, timers    *)
(* and user requests arrive.  One action is one handler, with everything   *)
(* it calls.                                                               *)
(***************************************************************************)
EXTENDS Naturals, FiniteSets

CONSTANTS
    Channel,                  \* the KickChannel objects the process can create
    Slug,                     \* channel slugs; a slug stands for its chatroom too
    SlugOf,                   \* the slug a KickChannel object is created for
    None,                     \* "no entry" in a registry
    MAX_RECONNECT_ATTEMPTS,   \* KickChannel.hpp
    LoginModes,               \* may a Kick account be logged in when a split opens
    EnabledModes,             \* the values the setting enableKickIntegration can have
    MaxUserActions,           \* bound: reconnect requests and re-opened splits
    MaxInFlight               \* bound: unanswered resolves or unfired timers of one channel

ASSUME KickAssumption ==
    /\ SlugOf \in [Channel -> Slug]
    /\ None \notin Channel
    /\ MAX_RECONNECT_ATTEMPTS \in Nat
    /\ LoginModes \subseteq BOOLEAN
    /\ EnabledModes \subseteq BOOLEAN
    /\ MaxUserActions \in Nat
    /\ MaxInFlight \in Nat

VARIABLES
    chan,          \* the KickChannel objects
    bySlug,        \* KickChatServer::bySlug_
    byChatroom,    \* KickChatServer::byChatroom_
    socket,        \* KickWebSocket: "up" is isConnected_
    serverSubs,    \* external: rooms the Pusher server streams on this connection
    doubled,       \* history: slugs that had two live channels at once
    userActions    \* bound: reconnect requests and re-opened splits so far

vars == <<chan, bySlug, byChatroom, socket, serverSubs, doubled, userActions>>

KickConnectionState ==
    {"Disconnected", "Connecting", "Connected", "Reconnecting", "Failed"}

\* "none": no KickWebSocket yet; "opening": opened, the Pusher handshake is
\* not complete; "closing": close() was called, disconnected() is still due.
SocketState == {"none", "idle", "opening", "up", "closing"}

ChannelRecord ==
    [life     : {"unborn", "live", "dead"},
     state    : KickConnectionState,
     resolved : BOOLEAN,                     \* chatroomId_ # 0
     attempts : 0..MAX_RECONNECT_ATTEMPTS,   \* reconnectAttempts_
     resolves : 0..MaxInFlight,              \* resolves that will call back
     retries  : 0..MaxInFlight,              \* scheduleReconnect() timers
     manuals  : 0..MaxInFlight]              \* reconnect() timers

\* The members as KickChannel.hpp initialises them.
ChannelMembers(l) ==
    [life |-> l, state |-> "Disconnected", resolved |-> FALSE,
     attempts |-> 0, resolves |-> 0, retries |-> 0, manuals |-> 0]

Live(c) == chan[c].life = "live"

\* findBySlug(): what weak_ptr::lock() returns is the object or nothing.
Registered(c) == Live(c) /\ bySlug[SlugOf[c]] = c

Init ==
    /\ chan = [c \in Channel |-> ChannelMembers("unborn")]
    /\ bySlug = [s \in Slug |-> None]
    /\ byChatroom = [s \in Slug |-> None]
    /\ socket = "none"
    /\ serverSubs = {}
    /\ doubled = {}
    /\ userActions = 0
-----------------------------------------------------------------------------
(* What a handler does to one channel. *)

\* resolveAndSubscribe(): ask for the chatroom; the answer is ResolveAnswer.
ResolveAndSubscribe(r) == [r EXCEPT !.resolves = @ + 1]

\* Faulty variant: a failed request leaves the channel as it is.
ResolveFailureIgnored(r) == [r EXCEPT !.resolves = @ - 1]

\* The callback given to resolveChannelInfo()
ResolveFailure(r) == [r EXCEPT !.resolves = @ - 1, !.state = "Failed"]

ResolveSuccess(r, isConnected) ==
    [r EXCEPT !.resolves = @ - 1,
              !.resolved = TRUE,
              !.state = IF isConnected THEN "Connected" ELSE "Failed"]

OnServerDisconnected(r) == [r EXCEPT !.state = "Disconnected"]

\* Faulty variants of OnServerError: no limit on the attempts; waiting although
\* no attempt is left.
OnServerErrorUnlimited(r) ==
    IF r.state = "Reconnecting" THEN r
    ELSE [r EXCEPT !.state = "Reconnecting", !.attempts = @ + 1, !.retries = @ + 1]

OnServerErrorWaits(r) ==
    IF r.state = "Reconnecting" THEN r
    ELSE IF r.attempts >= MAX_RECONNECT_ATTEMPTS
         THEN [r EXCEPT !.state = "Reconnecting"]
         ELSE [r EXCEPT !.state = "Reconnecting", !.attempts = @ + 1, !.retries = @ + 1]

\* handleConnectionError() and scheduleReconnect()
OnServerError(r) ==
    CASE r.state = "Reconnecting" -> r
      [] r.state # "Reconnecting" /\ r.attempts >= MAX_RECONNECT_ATTEMPTS ->
            [r EXCEPT !.state = "Failed"]
      [] OTHER ->
            [r EXCEPT !.state = "Reconnecting",
                      !.attempts = @ + 1,
                      !.retries = @ + 1]

WillConnect(r, enabled) ==
    enabled /\ r.state \notin {"Connected", "Connecting"}

\* KickChannel::connect() with the shared socket in state sock
Connect(r, enabled, sock) ==
    IF ~WillConnect(r, enabled)
    THEN r
    ELSE LET connecting == [r EXCEPT !.state = "Connecting"]
         IN  IF sock = "up" THEN ResolveAndSubscribe(connecting) ELSE connecting

\* KickChatServer::ensureConnected() and KickWebSocket::connect().  open()
\* on a socket that is opening or closing discards the old transport, and its
\* disconnected() with it.
EnsureConnected(r, enabled, sock) ==
    IF WillConnect(r, enabled) /\ sock # "up" THEN "opening" ELSE sock

\* Faulty variant: the KickApi is replaced even when nobody is logged in.
SetApiAlways(r, loggedIn) == [r EXCEPT !.resolves = 0]

\* setApi(): the KickApi that is replaced is the context object of the
\* answers it waits for, so they are never delivered.
SetApi(r, loggedIn) == IF loggedIn THEN [r EXCEPT !.resolves = 0] ELSE r

\* KickWebSocket::disconnect()
SocketDisconnect(sock) == IF sock \in {"opening", "up"} THEN "closing" ELSE sock

Subscriptions(sock, subs) == IF sock = "up" THEN subs ELSE {}

\* The bounds: a step may not pass MaxInFlight.
WithinBounds(r) ==
    r.resolves <= MaxInFlight /\ r.retries <= MaxInFlight /\ r.manuals <= MaxInFlight
-----------------------------------------------------------------------------
(* KickChatServer::leave() on behalf of a live channel c. *)

HoldsRoom(c) == chan[c].resolved /\ byChatroom[SlugOf[c]] = c

RoomsAfterLeave(c) ==
    IF HoldsRoom(c) THEN [byChatroom EXCEPT ![SlugOf[c]] = None] ELSE byChatroom

SubsAfterLeave(c) ==
    IF HoldsRoom(c) THEN serverSubs \ {SlugOf[c]} ELSE serverSubs

SlugsAfterLeave(c) ==
    IF bySlug[SlugOf[c]] = c THEN [bySlug EXCEPT ![SlugOf[c]] = None] ELSE bySlug

\* Faulty variant: any channel that leaves takes the connection down.
SocketAfterLeaveAlways(rooms) == SocketDisconnect(socket)

\* "nothing left to listen to, so drop the connection"
SocketAfterLeave(rooms) ==
    IF \A s \in Slug : rooms[s] = None THEN SocketDisconnect(socket) ELSE socket

\* pruneExpired()
Unexpired(registry) ==
    [s \in Slug |-> IF registry[s] # None /\ Live(registry[s])
                    THEN registry[s] ELSE None]

Prune == bySlug' = Unexpired(bySlug) /\ byChatroom' = Unexpired(byChatroom)

\* The loops of onConnectionStateChanged() and onError() over bySlug_.
Notified(Handler(_)) ==
    [c \in Channel |-> IF Registered(c) THEN Handler(chan[c]) ELSE chan[c]]
-----------------------------------------------------------------------------
(* Requests of the user. *)

\* A split is opened for a slug without a channel: getOrCreate(), setApi()
\* when an account is logged in, connect().
CreateChannel(c, loggedIn, enabled) ==
    LET s == SlugOf[c]
        fresh == ChannelMembers("live")
        sock == EnsureConnected(fresh, enabled, socket)
        made == SetApi(Connect(fresh, enabled, socket), loggedIn)
    IN  /\ chan[c].life = "unborn"
        /\ bySlug[s] # None => ~Live(bySlug[s])
        /\ chan' = [chan EXCEPT ![c] = Connect(made, enabled, sock)]
        /\ bySlug' = [bySlug EXCEPT ![s] = c]
        /\ socket' = sock
        /\ doubled' = IF \E d \in Channel : Live(d) /\ SlugOf[d] = s
                      THEN doubled \cup {s} ELSE doubled
        /\ WithinBounds(chan'[c])
        /\ UNCHANGED <<byChatroom, serverSubs, userActions>>

\* A split is opened for a slug whose channel exists: getOrCreate() returns
\* it, then setApi() and connect() as for a new one.
ReopenChannel(c, loggedIn, enabled) ==
    /\ Registered(c)
    /\ userActions < MaxUserActions
    /\ chan' = [chan EXCEPT ![c] = Connect(SetApi(@, loggedIn), enabled, socket)]
    /\ socket' = EnsureConnected(chan[c], enabled, socket)
    /\ userActions' = userActions + 1
    /\ WithinBounds(chan'[c])
    /\ UNCHANGED <<bySlug, byChatroom, serverSubs, doubled>>

\* The last split lets go of the channel: ~KickChannel() calls leave(), but
\* the weak pointers no longer lock, so leave() finds nothing to erase.  The
\* KickApi dies with the channel and the timers find no object.
DestroyChannel(c) ==
    /\ Live(c)
    /\ chan' = [chan EXCEPT ![c] = ChannelMembers("dead")]
    /\ socket' = SocketAfterLeave(byChatroom)
    /\ serverSubs' = Subscriptions(socket', serverSubs)
    /\ UNCHANGED <<bySlug, byChatroom, doubled, userActions>>

\* KickChannel::reconnect(): leave(), and connect() when the timer fires.
ManualReconnect(r) ==
    [r EXCEPT !.state = "Disconnected", !.attempts = 0, !.manuals = @ + 1]

Reconnect(c) ==
    /\ Live(c)
    /\ userActions < MaxUserActions
    /\ chan[c].manuals < MaxInFlight
    /\ chan' = [chan EXCEPT ![c] = ManualReconnect(chan[c])]
    /\ bySlug' = SlugsAfterLeave(c)
    /\ byChatroom' = RoomsAfterLeave(c)
    /\ socket' = SocketAfterLeave(byChatroom')
    /\ serverSubs' = Subscriptions(socket', SubsAfterLeave(c))
    /\ userActions' = userActions + 1
    /\ UNCHANGED doubled
-----------------------------------------------------------------------------
(* Timers and answers. *)

\* The timer of reconnect()
ManualTimer(c, enabled) ==
    /\ Live(c) /\ chan[c].manuals > 0
    /\ chan' = [chan EXCEPT ![c] =
                   Connect([chan[c] EXCEPT !.manuals = @ - 1], enabled, socket)]
    /\ socket' = EnsureConnected(chan[c], enabled, socket)
    /\ WithinBounds(chan'[c])
    /\ UNCHANGED <<bySlug, byChatroom, serverSubs, doubled, userActions>>

\* The timer of scheduleReconnect(): disconnect() and connect() if the channel
\* is still waiting for it.
RetryTimer(c, enabled) ==
    LET fired == [chan[c] EXCEPT !.retries = @ - 1]
        off   == [fired EXCEPT !.state = "Disconnected"]
        sock  == SocketAfterLeave(RoomsAfterLeave(c))
    IN  /\ Live(c) /\ chan[c].retries > 0
        /\ \/ /\ chan[c].state = "Reconnecting"
              /\ chan' = [chan EXCEPT ![c] = Connect(off, enabled, sock)]
              /\ bySlug' = SlugsAfterLeave(c)
              /\ byChatroom' = RoomsAfterLeave(c)
              /\ socket' = EnsureConnected(off, enabled, sock)
              /\ serverSubs' = Subscriptions(socket', SubsAfterLeave(c))
           \/ /\ chan[c].state # "Reconnecting"
              /\ chan' = [chan EXCEPT ![c] = fired]
              /\ UNCHANGED <<bySlug, byChatroom, socket, serverSubs>>
        /\ WithinBounds(chan'[c])
        /\ UNCHANGED <<doubled, userActions>>

\* The callback of resolveChannelInfo(): the request failed
ResolveFails(c) ==
    /\ Live(c) /\ chan[c].resolves > 0
    /\ chan' = [chan EXCEPT ![c] = ResolveFailure(chan[c])]
    /\ UNCHANGED <<bySlug, byChatroom, socket, serverSubs, doubled, userActions>>

\* The callback of resolveChannelInfo(): the chatroom is known; subscribe if
\* the socket is still up, whatever state the channel is in.
ResolveSucceeds(c) ==
    LET s == SlugOf[c] IN
    /\ Live(c) /\ chan[c].resolves > 0
    /\ chan' = [chan EXCEPT ![c] = ResolveSuccess(chan[c], socket = "up")]
    /\ byChatroom' = IF socket = "up" THEN [byChatroom EXCEPT ![s] = c] ELSE byChatroom
    /\ serverSubs' = IF socket = "up" THEN serverSubs \cup {s} ELSE serverSubs
    /\ UNCHANGED <<bySlug, socket, doubled, userActions>>
-----------------------------------------------------------------------------
(* The socket. *)

\* pusher:connection_established, then onConnectionStateChanged(true): every
\* registered channel resolves again.
ConnectionEstablished ==
    /\ socket = "opening"
    /\ socket' = "up"
    /\ serverSubs' = {}
    /\ Prune
    /\ chan' = Notified(ResolveAndSubscribe)
    /\ \A c \in Channel : WithinBounds(chan'[c])
    /\ UNCHANGED <<doubled, userActions>>

\* disconnected() after a close() of our own
CloseCompletes ==
    /\ socket = "closing"
    /\ socket' = "idle"
    /\ Prune
    /\ chan' = Notified(OnServerDisconnected)
    /\ UNCHANGED <<serverSubs, doubled, userActions>>

\* The transport ends by itself.  QWebSocket emits disconnected() alone when
\* the server closed it, and error() before or after it otherwise.
ConnectionLost ==
    /\ socket \in {"opening", "up"}
    /\ socket' = "idle"
    /\ serverSubs' = {}
    /\ Prune
    /\ LET ErrorThenClosed(r) == OnServerDisconnected(OnServerError(r))
           ClosedThenError(r) == OnServerError(OnServerDisconnected(r))
       IN  \/ chan' = Notified(OnServerDisconnected)
           \/ chan' = Notified(ErrorThenClosed)
           \/ chan' = Notified(ClosedThenError)
    /\ \A c \in Channel : WithinBounds(chan'[c])
    /\ UNCHANGED <<doubled, userActions>>

\* pusher:error; codes 4100, 4200 and 4300 make KickWebSocket disconnect.
PusherError(reconnectable) ==
    /\ socket \in {"opening", "up"}
    /\ socket' = IF reconnectable THEN SocketDisconnect(socket) ELSE socket
    /\ serverSubs' = Subscriptions(socket', serverSubs)
    /\ Prune
    /\ chan' = Notified(OnServerError)
    /\ \A c \in Channel : WithinBounds(chan'[c])
    /\ UNCHANGED <<doubled, userActions>>

\* A chat message for a room whose channel is gone: give up the room.  A
\* message for a live channel changes nothing modelled here.
MessageForExpired(s) ==
    /\ socket = "up" /\ s \in serverSubs
    /\ byChatroom[s] # None /\ ~Live(byChatroom[s])
    /\ byChatroom' = [byChatroom EXCEPT ![s] = None]
    /\ serverSubs' = serverSubs \ {s}
    /\ UNCHANGED <<chan, bySlug, socket, doubled, userActions>>
-----------------------------------------------------------------------------
Next ==
    \/ \E c \in Channel, loggedIn \in LoginModes, enabled \in EnabledModes :
          CreateChannel(c, loggedIn, enabled) \/ ReopenChannel(c, loggedIn, enabled)
    \/ \E c \in Channel, enabled \in EnabledModes :
          ManualTimer(c, enabled) \/ RetryTimer(c, enabled)
    \/ \E c \in Channel :
          \/ DestroyChannel(c) \/ Reconnect(c)
          \/ ResolveFails(c) \/ ResolveSucceeds(c)
    \/ ConnectionEstablished
    \/ CloseCompletes
    \/ ConnectionLost
    \/ \E reconnectable \in BOOLEAN : PusherError(reconnectable)
    \/ \E s \in Slug : MessageForExpired(s)

Spec == Init /\ [][Next]_vars

(***************************************************************************)
(* Timers fire, a request is answered or fails, and an attempt to open or  *)
(* to close the transport ends.  Nothing is assumed of the user.           *)
(***************************************************************************)
Fairness ==
    /\ \A c \in Channel :
          /\ WF_vars(\E enabled \in EnabledModes : RetryTimer(c, enabled))
          /\ WF_vars(\E enabled \in EnabledModes : ManualTimer(c, enabled))
          /\ WF_vars(ResolveFails(c) \/ ResolveSucceeds(c))
    /\ WF_vars(ConnectionEstablished \/ (socket = "opening" /\ ConnectionLost))
    /\ WF_vars(CloseCompletes)

FairSpec == Spec /\ Fairness
-----------------------------------------------------------------------------
(* Properties. *)

\* Every variable has its type; in particular a channel never schedules more
\* than MAX_RECONNECT_ATTEMPTS automatic reconnects between two requests of
\* the user (scheduleReconnect(), reconnect()).
TypeOK ==
    /\ chan \in [Channel -> ChannelRecord]
    /\ bySlug \in [Slug -> Channel \cup {None}]
    /\ byChatroom \in [Slug -> Channel \cup {None}]
    /\ socket \in SocketState
    /\ serverSubs \subseteq Slug
    /\ doubled \subseteq Slug
    /\ userActions \in 0..MaxUserActions

\* A channel that can be found by its slug and says "Connected" really is: the
\* shared socket is up, the server streams its chatroom, and messages of the
\* room are routed to it.  Other channels leaving, failing or reconnecting on
\* the same socket never take that away without telling it.  Slugs that once
\* had two live channels are excepted (see OneChannelPerSlug).
ConnectedIsSubscribed ==
    \A c \in Channel :
        Registered(c) /\ chan[c].state = "Connected" /\ SlugOf[c] \notin doubled
        => /\ socket = "up"
           /\ SlugOf[c] \in serverSubs
           /\ byChatroom[SlugOf[c]] = c

\* "Reconnecting" is never a dead end: a timer of scheduleReconnect() that
\* will take the channel out of it is pending.
ReconnectingHasTimer ==
    \A c \in Channel : chan[c].state = "Reconnecting" => chan[c].retries > 0

\* "Connecting" is never a dead end for a channel that can be found by its
\* slug: the socket has yet to open or close, which the channel is told of,
\* or the answer that tells its chatroom is still to come.  This is so while nobody
\* logs in (LoginModes = {FALSE}): with an account setApi() drops that answer.
ConnectingHasCause ==
    \A c \in Channel :
        Registered(c) /\ chan[c].state = "Connecting"
        => socket \in {"opening", "closing"} \/ chan[c].resolves > 0

\* A registered channel does not stay in "Connecting" (connect() until
\* resolveAndSubscribe() ends in Connected or Failed), and one that waits for a
\* reconnect makes the attempt or is told otherwise (scheduleReconnect()).  This
\* too is of channels that open while nobody is logged in.
AttemptsEnd ==
    \A c \in Channel :
        /\ (Registered(c) /\ chan[c].state = "Connecting")
           ~> (~Registered(c) \/ chan[c].state # "Connecting")
        /\ chan[c].state = "Reconnecting" ~> chan[c].state # "Reconnecting"

-----------------------------------------------------------------------------
(* What comments and documents say and the code does not do. *)

\* KickChatServer.hpp:19: "keeps one KickChannel per slug, so the same channel
\* in two splits is the same object".
OneChannelPerSlug ==
    \A c, d \in Channel : Live(c) /\ Live(d) /\ SlugOf[c] = SlugOf[d] => c = d

\* KickChatServer.cpp:154: "a fresh socket has no subscriptions, so every
\* channel re-announces".  Once the socket is up, a live channel that says it is
\* connecting or connected has its room on this connection or is asking for it.
EveryChannelReannounces ==
    \A c \in Channel :
        socket = "up" /\ Live(c) /\ chan[c].state \in {"Connecting", "Connected"}
        => SlugOf[c] \in serverSubs \/ chan[c].resolves > 0

\* data-model.md:106 and 112: an error leads to Reconnecting and from there
\* to a retry.  Without a request of the user, a live channel leaves
\* Reconnecting only towards Connecting or Failed.
ReconnectingRetries ==
    [][\A c \in Channel :
          /\ Live(c) /\ chan'[c].life = "live"
          /\ chan[c].state = "Reconnecting"
          /\ chan'[c].manuals <= chan[c].manuals
          => chan'[c].state # "Disconnected"]_vars

\* data-model.md:103: "connect() --> [Connecting] --success--> [Connected]", or
\* Failed when the chatroom cannot be fetched.  While the socket is up, a
\* registered channel in Connecting has an answer on the way that takes it there.
ConnectLeadsSomewhere ==
    \A c \in Channel :
        Registered(c) /\ chan[c].state = "Connecting" /\ socket = "up"
        => chan[c].resolves > 0

\* KickChatServer.hpp:48, of leave(): "Drops channel's subscription and its
\* registry entries."  The destructor calls it, so a room is streamed only
\* while a live channel holds it.
SubscriptionsAreHeld ==
    \A s \in serverSubs : byChatroom[s] # None /\ Live(byChatroom[s])

\* KickChatServer.cpp:114: "nothing left to listen to, so drop the connection".
\* A split that closes does not drop the connection under another channel that
\* is waiting on it for its chatroom.
DropsOnlyAnIdleConnection ==
    [][\A c, d \in Channel :
          DestroyChannel(c) /\ socket = "up" /\ socket' # "up" /\ d # c /\ Live(d)
          => chan[d].state # "Connecting"]_vars
=============================================================================
