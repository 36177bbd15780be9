--------------------------- MODULE KickChat_proofs ---------------------------
(***************************************************************************)
(* Invariance proofs for KickChat, for every set of channels and slugs,    *)
(* every setting and every bound.                                          *)
(***************************************************************************)
EXTENDS KickChat, TLAPS

\* A channel record before the bounds of the model are applied.
LooseRecord ==
    [life : {"unborn", "live", "dead"}, state : KickConnectionState,
     resolved : BOOLEAN, attempts : 0..MAX_RECONNECT_ATTEMPTS,
     resolves : Nat, retries : Nat, manuals : Nat]

\* The registries never map a slug or a room to a channel of another slug.
RegistriesFit ==
    \A s \in Slug : /\ bySlug[s] # None => SlugOf[bySlug[s]] = s
                    /\ byChatroom[s] # None => SlugOf[byChatroom[s]] = s

\* Only a slug recorded in doubled has two live channels.
DoubledRecorded ==
    \A c, d \in Channel :
        Live(c) /\ Live(d) /\ SlugOf[c] = SlugOf[d] /\ c # d => SlugOf[c] \in doubled

\* The inductive invariant.
Inv ==
    /\ TypeOK
    /\ ReconnectingHasTimer
    /\ RegistriesFit
    /\ DoubledRecorded
    /\ ConnectedIsSubscribed
-----------------------------------------------------------------------------
\* A record within the bounds is a ChannelRecord.
LEMMA Bounded ==
    ASSUME NEW r \in LooseRecord, WithinBounds(r)
    PROVE  r \in ChannelRecord
  BY KickAssumption DEF LooseRecord, ChannelRecord, WithinBounds

LEMMA Loosened ==
    ASSUME NEW r \in ChannelRecord
    PROVE  r \in LooseRecord
  BY KickAssumption DEF LooseRecord, ChannelRecord

\* resolveAndSubscribe() changes neither the life nor the state of a channel.
LEMMA ResolveEffect ==
    ASSUME NEW r \in LooseRecord
    PROVE  /\ ResolveAndSubscribe(r) \in LooseRecord
           /\ ResolveAndSubscribe(r).life = r.life
           /\ ResolveAndSubscribe(r).state = r.state
           /\ ResolveAndSubscribe(r).retries = r.retries
  BY DEF LooseRecord, ResolveAndSubscribe

\* After a disconnect a channel is Disconnected.
LEMMA DisconnectEffect ==
    ASSUME NEW r \in LooseRecord
    PROVE  /\ OnServerDisconnected(r) \in LooseRecord
           /\ OnServerDisconnected(r).life = r.life
           /\ OnServerDisconnected(r).state = "Disconnected"
           /\ OnServerDisconnected(r).retries = r.retries
  BY DEF LooseRecord, OnServerDisconnected, KickConnectionState

\* After an error a channel is Reconnecting, with a timer if it was not
\* Reconnecting before, or Failed.
LEMMA ErrorEffect ==
    ASSUME NEW r \in LooseRecord, r.state = "Reconnecting" => r.retries > 0
    PROVE  /\ OnServerError(r) \in LooseRecord
           /\ OnServerError(r).life = r.life
           /\ OnServerError(r).state \in {"Reconnecting", "Failed"}
           /\ OnServerError(r).state = "Reconnecting" => OnServerError(r).retries > 0
  <1>1. CASE r.state = "Reconnecting"
    BY <1>1 DEF OnServerError
  <1>2. CASE r.state # "Reconnecting" /\ r.attempts >= MAX_RECONNECT_ATTEMPTS
    BY <1>2 DEF OnServerError, LooseRecord, KickConnectionState
  <1>3. CASE r.state # "Reconnecting" /\ ~(r.attempts >= MAX_RECONNECT_ATTEMPTS)
    <2>1. OnServerError(r) = [r EXCEPT !.state = "Reconnecting",
                                       !.attempts = @ + 1, !.retries = @ + 1]
      BY <1>3 DEF OnServerError
    <2>2. r.attempts + 1 \in 0..MAX_RECONNECT_ATTEMPTS
      BY <1>3, KickAssumption DEF LooseRecord
    <2>3. /\ OnServerError(r).life = r.life
          /\ OnServerError(r).state = "Reconnecting"
          /\ OnServerError(r).retries = r.retries + 1
      BY <2>1 DEF LooseRecord
    <2>4. OnServerError(r) \in LooseRecord
      <3> DEFINE waiting == [r EXCEPT !.state = "Reconnecting"]
                 counted == [waiting EXCEPT !.attempts = r.attempts + 1]
                 timed == [counted EXCEPT !.retries = r.retries + 1]
      <3>1. waiting \in LooseRecord
        BY DEF LooseRecord, KickConnectionState
      <3>2. r.retries + 1 \in Nat
        BY DEF LooseRecord
      <3>3. OnServerError(r) = timed
        BY <2>1 DEF LooseRecord
      <3>4. QED
        <4> HIDE DEF waiting
        <4>1. counted \in LooseRecord
          BY <2>2, <3>1 DEF LooseRecord
        <4> HIDE DEF counted
        <4>2. timed \in LooseRecord
          BY <3>2, <4>1 DEF LooseRecord
        <4>3. QED
          BY <3>3, <4>2
    <2>5. QED
      BY <2>3, <2>4 DEF LooseRecord
  <1>4. QED
    BY <1>1, <1>2, <1>3

\* connect() leaves a channel in the state it had or in Connecting.
LEMMA ConnectEffect ==
    ASSUME NEW r \in LooseRecord, NEW enabled, NEW sock
    PROVE  /\ Connect(r, enabled, sock) \in LooseRecord
           /\ Connect(r, enabled, sock).life = r.life
           /\ Connect(r, enabled, sock).state \in {r.state, "Connecting"}
           /\ Connect(r, enabled, sock).retries = r.retries
  <1> DEFINE connecting == [r EXCEPT !.state = "Connecting"]
  <1>1. /\ connecting \in LooseRecord
        /\ connecting.life = r.life
        /\ connecting.state = "Connecting"
        /\ connecting.retries = r.retries
    BY DEF LooseRecord, KickConnectionState
  <1>2. Connect(r, enabled, sock) \in {r, connecting, ResolveAndSubscribe(connecting)}
    BY DEF Connect
  <1>3. QED
    <2> HIDE DEF connecting
    <2>1. QED
      BY <1>1, <1>2, ResolveEffect

\* setApi() only forgets answers.
LEMMA SetApiEffect ==
    ASSUME NEW r \in LooseRecord, NEW loggedIn
    PROVE  /\ SetApi(r, loggedIn) \in LooseRecord
           /\ SetApi(r, loggedIn).life = r.life
           /\ SetApi(r, loggedIn).state = r.state
           /\ SetApi(r, loggedIn).retries = r.retries
  BY DEF LooseRecord, SetApi

\* The socket operations stay within the socket's states; connecting never
\* takes down a socket that is up.
LEMMA SocketEffect ==
    ASSUME NEW sock \in SocketState, NEW r, NEW enabled
    PROVE  /\ EnsureConnected(r, enabled, sock) \in SocketState
           /\ sock = "up" => EnsureConnected(r, enabled, sock) = "up"
           /\ SocketDisconnect(sock) \in SocketState
           /\ SocketDisconnect(sock) # "up"
  BY DEF SocketState, EnsureConnected, SocketDisconnect

\* The record of a channel that was just created or destroyed.
LEMMA NewEffect ==
    ASSUME NEW l \in {"live", "dead"}
    PROVE  /\ ChannelMembers(l) \in ChannelRecord
           /\ ChannelMembers(l).life = l
           /\ ChannelMembers(l).state = "Disconnected"
  <1>1. 0 \in 0..MaxInFlight /\ 0 \in 0..MAX_RECONNECT_ATTEMPTS
    BY KickAssumption
  <1>2. QED
    BY <1>1 DEF ChannelMembers, ChannelRecord, KickConnectionState
-----------------------------------------------------------------------------
\* The initial state satisfies the invariant.
LEMMA InitInv == Init => Inv
  <1> SUFFICES ASSUME Init PROVE Inv
    OBVIOUS
  <1>1. TypeOK
    BY KickAssumption DEF Init, TypeOK, ChannelMembers, ChannelRecord,
       KickConnectionState, SocketState
  <1>2. QED
    BY <1>1 DEF Init, Inv, ReconnectingHasTimer, RegistriesFit, DoubledRecorded,
       ConnectedIsSubscribed, Registered, Live, ChannelMembers
-----------------------------------------------------------------------------
\* Pruning keeps every entry of a live channel and nothing else.
LEMMA PruneEffect ==
    ASSUME Inv, Prune, UNCHANGED doubled,
           \A c \in Channel : chan'[c].life = chan[c].life
    PROVE  /\ bySlug' \in [Slug -> Channel \cup {None}]
           /\ byChatroom' \in [Slug -> Channel \cup {None}]
           /\ RegistriesFit'
           /\ DoubledRecorded'
           /\ \A c \in Channel : Registered(c)' <=> Registered(c)
           /\ \A c \in Channel : Live(c) /\ byChatroom[SlugOf[c]] = c
                                => byChatroom'[SlugOf[c]] = c
  <1>1. bySlug \in [Slug -> Channel \cup {None}] /\ byChatroom \in [Slug -> Channel \cup {None}]
    BY DEF Inv, TypeOK
  <1>2. bySlug' = Unexpired(bySlug) /\ byChatroom' = Unexpired(byChatroom)
    BY DEF Prune
  <1>3. \A s \in Slug : bySlug'[s] \in {bySlug[s], None} /\ byChatroom'[s] \in {byChatroom[s], None}
    BY <1>1, <1>2 DEF Unexpired
  <1>4. bySlug' \in [Slug -> Channel \cup {None}] /\ byChatroom' \in [Slug -> Channel \cup {None}]
    BY <1>1, <1>2 DEF Unexpired
  <1>5. RegistriesFit'
    BY <1>3 DEF Inv, RegistriesFit
  <1>6. DoubledRecorded'
    BY DEF Inv, DoubledRecorded, Live
  <1>7. ASSUME NEW c \in Channel
        PROVE  /\ Registered(c)' <=> Registered(c)
               /\ Live(c) /\ byChatroom[SlugOf[c]] = c => byChatroom'[SlugOf[c]] = c
    <2>1. SlugOf[c] \in Slug /\ c # None
      BY KickAssumption
    <2>2. QED
      BY <1>1, <1>2, <2>1 DEF Unexpired, Registered, Live
  <1>8. QED
    BY <1>4, <1>5, <1>6, <1>7

\* pusher:connection_established: no registered channel was Connected before.
LEMMA EstablishedInv == Inv /\ ConnectionEstablished => Inv'
  <1> SUFFICES ASSUME Inv, ConnectionEstablished PROVE Inv'
    OBVIOUS
  <1>1. \A c \in Channel : chan[c] \in ChannelRecord /\ chan[c] \in LooseRecord
    BY Loosened DEF Inv, TypeOK
  <1>2. chan' = [c \in Channel |-> IF Registered(c) THEN ResolveAndSubscribe(chan[c])
                                                   ELSE chan[c]]
    BY DEF ConnectionEstablished, Notified
  <1>3. ASSUME NEW c \in Channel
        PROVE  /\ chan'[c] \in LooseRecord
               /\ chan'[c].life = chan[c].life
               /\ chan'[c].state = chan[c].state
               /\ chan'[c].retries = chan[c].retries
    BY <1>1, <1>2, ResolveEffect
  <1>4. chan' \in [Channel -> ChannelRecord]
    BY <1>2, <1>3, Bounded DEF ConnectionEstablished
  <1>5. Prune /\ UNCHANGED <<doubled, userActions>> /\ socket = "opening"
        /\ socket' = "up" /\ serverSubs' = {}
    BY DEF ConnectionEstablished
  <1>6. TypeOK'
    BY <1>3, <1>4, <1>5, PruneEffect DEF Inv, TypeOK, SocketState
  <1>7. ReconnectingHasTimer'
    BY <1>3 DEF Inv, ReconnectingHasTimer
  <1>8. ConnectedIsSubscribed'
    BY <1>3, <1>5, PruneEffect DEF Inv, ConnectedIsSubscribed
  <1>9. QED
    BY <1>3, <1>5, <1>6, <1>7, <1>8, PruneEffect DEF Inv

\* disconnected(): no registered channel is Connected before or after.
LEMMA CloseInv == Inv /\ CloseCompletes => Inv'
  <1> SUFFICES ASSUME Inv, CloseCompletes PROVE Inv'
    OBVIOUS
  <1>1. \A c \in Channel : chan[c] \in ChannelRecord /\ chan[c] \in LooseRecord
    BY Loosened DEF Inv, TypeOK
  <1>2. chan' = [c \in Channel |-> IF Registered(c) THEN OnServerDisconnected(chan[c])
                                                   ELSE chan[c]]
    BY DEF CloseCompletes, Notified
  <1>3. ASSUME NEW c \in Channel
        PROVE  /\ chan'[c] \in ChannelRecord
               /\ chan'[c].life = chan[c].life
               /\ Registered(c) => chan'[c].state = "Disconnected"
               /\ ~Registered(c) => chan'[c] = chan[c]
    BY <1>1, <1>2, DisconnectEffect DEF OnServerDisconnected, ChannelRecord, KickConnectionState
  <1>4. Prune /\ UNCHANGED <<serverSubs, doubled, userActions>> /\ socket' = "idle"
    BY DEF CloseCompletes
  <1>5. TypeOK'
    BY <1>2, <1>3, <1>4, PruneEffect DEF Inv, TypeOK, SocketState
  <1>6. ReconnectingHasTimer'
    BY <1>3 DEF Inv, ReconnectingHasTimer
  <1>7. ConnectedIsSubscribed'
    BY <1>3, <1>4, PruneEffect DEF Inv, ConnectedIsSubscribed
  <1>8. QED
    BY <1>3, <1>4, <1>5, <1>6, <1>7, PruneEffect DEF Inv

\* Whatever order error() and disconnected() come in, no registered channel
\* stays Connected.
LEMMA LostInv == Inv /\ ConnectionLost => Inv'
  <1> SUFFICES ASSUME Inv, ConnectionLost PROVE Inv'
    OBVIOUS
  <1>1. \A c \in Channel : /\ chan[c] \in ChannelRecord /\ chan[c] \in LooseRecord
                           /\ chan[c].state = "Reconnecting" => chan[c].retries > 0
    BY Loosened DEF Inv, TypeOK, ReconnectingHasTimer
  <1>2. \/ chan' = [c \in Channel |-> IF Registered(c)
                     THEN OnServerDisconnected(chan[c]) ELSE chan[c]]
        \/ chan' = [c \in Channel |-> IF Registered(c)
                     THEN OnServerDisconnected(OnServerError(chan[c])) ELSE chan[c]]
        \/ chan' = [c \in Channel |-> IF Registered(c)
                     THEN OnServerError(OnServerDisconnected(chan[c])) ELSE chan[c]]
    BY DEF ConnectionLost, Notified
  <1>3. ASSUME NEW c \in Channel
        PROVE  /\ chan'[c] \in LooseRecord
               /\ chan'[c].life = chan[c].life
               /\ Registered(c) => chan'[c].state # "Connected"
               /\ chan'[c].state = "Reconnecting" => chan'[c].retries > 0
               /\ ~Registered(c) => chan'[c] = chan[c]
    <2>1. CASE ~Registered(c)
      BY <1>1, <1>2, <2>1
    <2>2. CASE Registered(c)
      <3>1. \/ chan'[c] = OnServerDisconnected(chan[c])
            \/ chan'[c] = OnServerDisconnected(OnServerError(chan[c]))
            \/ chan'[c] = OnServerError(OnServerDisconnected(chan[c]))
        BY <1>2, <2>2
      <3>2. QED
        BY <1>1, <2>2, <3>1, DisconnectEffect, ErrorEffect
    <2>3. QED
      BY <2>1, <2>2
  <1>4. chan' \in [Channel -> ChannelRecord]
    BY <1>2, <1>3, Bounded DEF ConnectionLost
  <1>5. Prune /\ UNCHANGED <<doubled, userActions>> /\ socket' = "idle" /\ serverSubs' = {}
    BY DEF ConnectionLost
  <1>6. TypeOK'
    BY <1>3, <1>4, <1>5, PruneEffect DEF Inv, TypeOK, SocketState
  <1>7. ReconnectingHasTimer'
    BY <1>3 DEF Inv, ReconnectingHasTimer
  <1>8. ConnectedIsSubscribed'
    BY <1>3, <1>5, PruneEffect DEF Inv, ConnectedIsSubscribed
  <1>9. QED
    BY <1>3, <1>5, <1>6, <1>7, <1>8, PruneEffect DEF Inv

\* An error message takes every registered channel out of Connected.
LEMMA ErrorInv ==
    ASSUME NEW reconnectable \in BOOLEAN, Inv, PusherError(reconnectable)
    PROVE  Inv'
  <1>1. \A c \in Channel : /\ chan[c] \in ChannelRecord /\ chan[c] \in LooseRecord
                           /\ chan[c].state = "Reconnecting" => chan[c].retries > 0
    BY Loosened DEF Inv, TypeOK, ReconnectingHasTimer
  <1>2. chan' = [c \in Channel |-> IF Registered(c) THEN OnServerError(chan[c]) ELSE chan[c]]
    BY DEF PusherError, Notified
  <1>3. ASSUME NEW c \in Channel
        PROVE  /\ chan'[c] \in LooseRecord
               /\ chan'[c].life = chan[c].life
               /\ Registered(c) => chan'[c].state # "Connected"
               /\ chan'[c].state = "Reconnecting" => chan'[c].retries > 0
    BY <1>1, <1>2, ErrorEffect
  <1>4. chan' \in [Channel -> ChannelRecord]
    BY <1>2, <1>3, Bounded DEF PusherError
  <1>5. /\ Prune /\ UNCHANGED <<doubled, userActions>>
        /\ socket' \in SocketState /\ serverSubs' \subseteq Slug
    BY SocketEffect DEF PusherError, Inv, TypeOK, Subscriptions
  <1>6. TypeOK'
    BY <1>3, <1>4, <1>5, PruneEffect DEF Inv, TypeOK
  <1>7. ReconnectingHasTimer'
    BY <1>3 DEF ReconnectingHasTimer
  <1>8. ConnectedIsSubscribed'
    BY <1>3, <1>5, PruneEffect DEF ConnectedIsSubscribed
  <1>9. QED
    BY <1>3, <1>5, <1>6, <1>7, <1>8, PruneEffect DEF Inv
-----------------------------------------------------------------------------
\* Steps that change one channel c and keep it alive, without taking the
\* socket or a registry entry from any other channel.
LEMMA OneChannelStep ==
    ASSUME Inv, NEW c \in Channel, NEW r,
           chan' = [chan EXCEPT ![c] = r],
           r \in ChannelRecord, r.life = chan[c].life,
           r.state = "Reconnecting" => r.retries > 0,
           bySlug' \in [Slug -> Channel \cup {None}],
           byChatroom' \in [Slug -> Channel \cup {None}],
           socket' \in SocketState, serverSubs' \subseteq Slug,
           userActions' \in 0..MaxUserActions, UNCHANGED doubled,
           \A s \in Slug : bySlug'[s] = bySlug[s] \/ bySlug'[s] = None,
           \A s \in Slug : byChatroom'[s] \in {byChatroom[s], None}
                          \/ (byChatroom'[s] = c /\ SlugOf[c] = s),
           \A d \in Channel :
              d # c /\ Registered(d) /\ chan[d].state = "Connected"
                   /\ SlugOf[d] \notin doubled
              => socket' = "up" /\ SlugOf[d] \in serverSubs'
                 /\ byChatroom'[SlugOf[d]] = d,
           Registered(c)' /\ r.state = "Connected" /\ SlugOf[c] \notin doubled
              => socket' = "up" /\ SlugOf[c] \in serverSubs'
                 /\ byChatroom'[SlugOf[c]] = c
    PROVE  Inv'
  <1>1. chan \in [Channel -> ChannelRecord] /\ SlugOf \in [Channel -> Slug] /\ None \notin Channel
    BY KickAssumption DEF Inv, TypeOK
  <1>2. /\ chan'[c] = r
        /\ \A d \in Channel : d # c => chan'[d] = chan[d]
        /\ \A d \in Channel : Live(d)' <=> Live(d)
    BY <1>1 DEF Live
  <1>3. TypeOK'
    BY <1>1 DEF Inv, TypeOK
  <1>4. ReconnectingHasTimer'
    BY <1>2 DEF Inv, ReconnectingHasTimer
  <1>5. RegistriesFit'
    BY <1>1 DEF Inv, RegistriesFit
  <1>6. DoubledRecorded'
    BY <1>2 DEF Inv, DoubledRecorded
  <1>7. ASSUME NEW d \in Channel, Registered(d)', chan'[d].state = "Connected",
               SlugOf[d] \notin doubled'
        PROVE  socket' = "up" /\ SlugOf[d] \in serverSubs' /\ byChatroom'[SlugOf[d]] = d
    <2>1. CASE d = c
      BY <1>2, <1>7, <2>1
    <2>2. CASE d # c
      <3>1. SlugOf[d] \in Slug /\ d # None
        BY <1>1
      <3>2. bySlug'[SlugOf[d]] = d /\ Live(d)
        BY <1>2, <1>7 DEF Registered
      <3>3. Registered(d) /\ chan[d].state = "Connected"
        BY <1>2, <1>7, <2>2, <3>1, <3>2 DEF Registered
      <3>4. QED
        BY <1>7, <2>2, <3>3
    <2>3. QED
      BY <2>1, <2>2
  <1>8. QED
    BY <1>3, <1>4, <1>5, <1>6, <1>7 DEF Inv, ConnectedIsSubscribed

\* What leave() takes away, it takes from the leaving channel only: another
\* registered and connected channel keeps its room and the socket.
LEMMA LeaveEffect ==
    ASSUME Inv, NEW c \in Channel
    PROVE  /\ RoomsAfterLeave(c) \in [Slug -> Channel \cup {None}]
           /\ SlugsAfterLeave(c) \in [Slug -> Channel \cup {None}]
           /\ SubsAfterLeave(c) \subseteq Slug
           /\ SocketAfterLeave(RoomsAfterLeave(c)) \in SocketState
           /\ \A s \in Slug : RoomsAfterLeave(c)[s] \in {byChatroom[s], None}
           /\ \A s \in Slug : SlugsAfterLeave(c)[s] \in {bySlug[s], None}
           /\ \A d \in Channel :
                 d # c /\ Live(c) /\ Registered(d) /\ chan[d].state = "Connected"
                 /\ SlugOf[d] \notin doubled
                 => /\ SocketAfterLeave(RoomsAfterLeave(c)) = "up"
                    /\ SlugOf[d] \in SubsAfterLeave(c)
                    /\ RoomsAfterLeave(c)[SlugOf[d]] = d
           /\ SlugsAfterLeave(c)[SlugOf[c]] # c
  <1>1. /\ byChatroom \in [Slug -> Channel \cup {None}] /\ bySlug \in [Slug -> Channel \cup {None}]
        /\ serverSubs \subseteq Slug /\ socket \in SocketState
        /\ SlugOf \in [Channel -> Slug] /\ None \notin Channel
    BY KickAssumption DEF Inv, TypeOK
  <1>2. /\ RoomsAfterLeave(c) \in [Slug -> Channel \cup {None}]
        /\ SlugsAfterLeave(c) \in [Slug -> Channel \cup {None}]
        /\ SubsAfterLeave(c) \subseteq Slug
        /\ \A s \in Slug : RoomsAfterLeave(c)[s] \in {byChatroom[s], None}
        /\ \A s \in Slug : SlugsAfterLeave(c)[s] \in {bySlug[s], None}
        /\ SlugsAfterLeave(c)[SlugOf[c]] # c
    BY <1>1 DEF RoomsAfterLeave, SlugsAfterLeave, SubsAfterLeave
  <1>3. SocketAfterLeave(RoomsAfterLeave(c)) \in SocketState
    BY <1>1, SocketEffect DEF SocketAfterLeave
  <1>4. ASSUME NEW d \in Channel, d # c, Live(c), Registered(d),
               chan[d].state = "Connected", SlugOf[d] \notin doubled
        PROVE  /\ SocketAfterLeave(RoomsAfterLeave(c)) = "up"
               /\ SlugOf[d] \in SubsAfterLeave(c)
               /\ RoomsAfterLeave(c)[SlugOf[d]] = d
    <2>1. socket = "up" /\ SlugOf[d] \in serverSubs /\ byChatroom[SlugOf[d]] = d
      BY <1>4 DEF Inv, ConnectedIsSubscribed
    <2>2. SlugOf[c] # SlugOf[d]
      BY <1>4 DEF Inv, DoubledRecorded, Registered
    <2>3. RoomsAfterLeave(c)[SlugOf[d]] = d /\ SlugOf[d] \in SubsAfterLeave(c)
      BY <1>1, <2>1, <2>2 DEF RoomsAfterLeave, SubsAfterLeave
    <2>4. SocketAfterLeave(RoomsAfterLeave(c)) = "up"
      BY <1>1, <2>1, <2>3 DEF SocketAfterLeave
    <2>5. QED
      BY <2>1, <2>3, <2>4
  <1>5. QED
    BY <1>2, <1>3, <1>4

\* A channel may only join a slug that has no other live channel unnoticed.
LEMMA CreateInv ==
    ASSUME NEW c \in Channel, NEW loggedIn, NEW enabled, Inv,
           CreateChannel(c, loggedIn, enabled)
    PROVE  Inv'
  <1> DEFINE s == SlugOf[c]
             fresh == ChannelMembers("live")
             sock == EnsureConnected(fresh, enabled, socket)
             first == Connect(fresh, enabled, socket)
             made == SetApi(first, loggedIn)
             r == Connect(made, enabled, sock)
  <1>1. /\ fresh \in LooseRecord /\ fresh.life = "live" /\ fresh.state = "Disconnected"
    BY NewEffect, Loosened
  <1>2. r \in LooseRecord /\ r.life = "live" /\ r.state \in {"Disconnected", "Connecting"}
    <2> HIDE DEF fresh, sock
    <2>1. first \in LooseRecord /\ first.life = "live" /\ first.state \in {"Disconnected", "Connecting"}
      BY <1>1, ConnectEffect
    <2> HIDE DEF first
    <2>2. made \in LooseRecord /\ made.life = "live" /\ made.state \in {"Disconnected", "Connecting"}
      BY <2>1, SetApiEffect
    <2> HIDE DEF made
    <2>3. QED
      BY <2>2, ConnectEffect
  <1>3. /\ chan' = [chan EXCEPT ![c] = r]
        /\ bySlug' = [bySlug EXCEPT ![s] = c]
        /\ socket' = sock
        /\ doubled' = IF \E d \in Channel : Live(d) /\ SlugOf[d] = s
                      THEN doubled \cup {s} ELSE doubled
        /\ UNCHANGED <<byChatroom, serverSubs, userActions>>
        /\ WithinBounds(chan'[c])
        /\ chan[c].life = "unborn"
    BY DEF CreateChannel
  <1> HIDE DEF r
  <1>4. chan \in [Channel -> ChannelRecord] /\ SlugOf \in [Channel -> Slug] /\ None \notin Channel
        /\ s \in Slug
    BY KickAssumption DEF Inv, TypeOK
  <1>5. chan'[c] = r /\ \A d \in Channel : d # c => chan'[d] = chan[d]
    BY <1>3, <1>4
  <1>6. chan' \in [Channel -> ChannelRecord]
    BY <1>2, <1>3, <1>4, <1>5, Bounded
  <1>7. socket' \in SocketState /\ (socket = "up" => socket' = "up")
    BY <1>3, SocketEffect DEF Inv, TypeOK
  <1>8. TypeOK'
    BY <1>3, <1>4, <1>6, <1>7 DEF Inv, TypeOK
  <1>9. ReconnectingHasTimer'
    BY <1>2, <1>5 DEF Inv, ReconnectingHasTimer
  <1>10. RegistriesFit'
    BY <1>3, <1>4 DEF Inv, TypeOK, RegistriesFit
  <1>11. DoubledRecorded'
    <2> SUFFICES ASSUME NEW d \in Channel, NEW e \in Channel, Live(d)', Live(e)',
                        SlugOf[d] = SlugOf[e], d # e
                 PROVE  SlugOf[d] \in doubled'
      BY DEF DoubledRecorded
    <2>1. CASE d = c
      BY <1>3, <1>5, <2>1 DEF Live
    <2>2. CASE e = c
      BY <1>3, <1>5, <2>2 DEF Live
    <2>3. CASE d # c /\ e # c
      BY <1>3, <1>5, <2>3 DEF Live, Inv, DoubledRecorded
    <2>4. QED
      BY <2>1, <2>2, <2>3
  <1>12. ConnectedIsSubscribed'
    <2> SUFFICES ASSUME NEW d \in Channel, Registered(d)', chan'[d].state = "Connected",
                        SlugOf[d] \notin doubled'
                 PROVE  socket' = "up" /\ SlugOf[d] \in serverSubs' /\ byChatroom'[SlugOf[d]] = d
      BY DEF ConnectedIsSubscribed
    <2>1. d # c
      BY <1>2, <1>5
    <2>2. SlugOf[d] \in Slug /\ bySlug \in [Slug -> Channel \cup {None}]
      BY <1>4 DEF Inv, TypeOK
    <2>3. Registered(d) /\ chan[d].state = "Connected"
      BY <1>3, <1>5, <2>1, <2>2 DEF Registered, Live
    <2>4. QED
      BY <1>3, <1>7, <2>3 DEF Inv, ConnectedIsSubscribed
  <1>13. QED
    BY <1>8, <1>9, <1>10, <1>11, <1>12 DEF Inv

\* A dying channel takes the socket down only when no room is registered.
LEMMA DestroyInv ==
    ASSUME NEW c \in Channel, Inv, DestroyChannel(c)
    PROVE  Inv'
  <1>1. chan \in [Channel -> ChannelRecord] /\ SlugOf \in [Channel -> Slug] /\ None \notin Channel
    BY KickAssumption DEF Inv, TypeOK
  <1>2. /\ chan' \in [Channel -> ChannelRecord]
        /\ chan'[c].life = "dead" /\ chan'[c].state = "Disconnected"
        /\ \A d \in Channel : d # c => chan'[d] = chan[d]
    <2> DEFINE r == ChannelMembers("dead")
    <2>3. r \in ChannelRecord /\ r.life = "dead" /\ r.state = "Disconnected"
      BY NewEffect
    <2>4. chan' = [chan EXCEPT ![c] = r]
      BY <1>1 DEF DestroyChannel
    <2> HIDE DEF r
    <2>5. QED
      BY <1>1, <2>3, <2>4
  <1>3. /\ UNCHANGED <<bySlug, byChatroom, doubled, userActions>>
        /\ socket' = SocketAfterLeave(byChatroom)
        /\ serverSubs' = Subscriptions(socket', serverSubs)
    BY DEF DestroyChannel
  <1>4. socket' \in SocketState /\ serverSubs' \subseteq Slug
    BY <1>3, SocketEffect DEF SocketAfterLeave, Subscriptions, Inv, TypeOK
  <1>5. TypeOK'
    BY <1>2, <1>3, <1>4 DEF Inv, TypeOK
  <1>6. ReconnectingHasTimer'
    BY <1>2 DEF Inv, ReconnectingHasTimer
  <1>7. RegistriesFit' /\ DoubledRecorded'
    BY <1>2, <1>3 DEF Inv, RegistriesFit, DoubledRecorded, Live
  <1>8. ConnectedIsSubscribed'
    <2> SUFFICES ASSUME NEW d \in Channel, Registered(d)', chan'[d].state = "Connected",
                        SlugOf[d] \notin doubled'
                 PROVE  socket' = "up" /\ SlugOf[d] \in serverSubs' /\ byChatroom'[SlugOf[d]] = d
      BY DEF ConnectedIsSubscribed
    <2>1. d # c
      BY <1>2
    <2>2. Registered(d) /\ chan[d].state = "Connected" /\ SlugOf[d] \in Slug /\ d # None
      BY <1>1, <1>2, <1>3, <2>1 DEF Registered, Live
    <2>3. socket = "up" /\ SlugOf[d] \in serverSubs /\ byChatroom[SlugOf[d]] = d
      BY <1>3, <2>2 DEF Inv, ConnectedIsSubscribed
    <2>4. QED
      BY <1>3, <2>2, <2>3 DEF SocketAfterLeave, Subscriptions
  <1>9. QED
    BY <1>5, <1>6, <1>7, <1>8 DEF Inv
-----------------------------------------------------------------------------
\* The facts about the old state that the one-channel steps share.
LEMMA OldState ==
    ASSUME Inv, NEW c \in Channel
    PROVE  /\ chan \in [Channel -> ChannelRecord]
           /\ chan[c] \in ChannelRecord /\ chan[c] \in LooseRecord
           /\ chan[c].state = "Reconnecting" => chan[c].retries > 0
           /\ bySlug \in [Slug -> Channel \cup {None}]
           /\ byChatroom \in [Slug -> Channel \cup {None}]
           /\ socket \in SocketState /\ serverSubs \subseteq Slug
           /\ userActions \in 0..MaxUserActions
           /\ SlugOf[c] \in Slug /\ c # None
           /\ Registered(c) /\ chan[c].state = "Connected" /\ SlugOf[c] \notin doubled
              => /\ socket = "up" /\ SlugOf[c] \in serverSubs
                 /\ byChatroom[SlugOf[c]] = c
  <1>1. chan \in [Channel -> ChannelRecord] /\ SlugOf \in [Channel -> Slug] /\ None \notin Channel
    BY KickAssumption DEF Inv, TypeOK
  <1>2. chan[c] \in ChannelRecord
    BY <1>1
  <1>3. chan[c] \in LooseRecord
    BY <1>2, Loosened
  <1>4. QED
    BY <1>1, <1>2, <1>3 DEF Inv, TypeOK, ReconnectingHasTimer, ConnectedIsSubscribed

\* A reopened split can only start a connection, never end one.
LEMMA ReopenInv ==
    ASSUME NEW c \in Channel, NEW loggedIn, NEW enabled, Inv,
           ReopenChannel(c, loggedIn, enabled)
    PROVE  Inv'
  <1> DEFINE reset == SetApi(chan[c], loggedIn)
             r == Connect(reset, enabled, socket)
  <1>1. /\ r \in LooseRecord /\ r.life = chan[c].life /\ r.retries = chan[c].retries
        /\ r.state \in {chan[c].state, "Connecting"}
    <2>1. /\ reset \in LooseRecord /\ reset.life = chan[c].life
          /\ reset.state = chan[c].state /\ reset.retries = chan[c].retries
      BY OldState, SetApiEffect
    <2> HIDE DEF reset
    <2>2. QED
      BY <2>1, ConnectEffect
  <1>2. /\ chan' = [chan EXCEPT ![c] = r]
        /\ socket' = EnsureConnected(chan[c], enabled, socket)
        /\ userActions' = userActions + 1 /\ userActions < MaxUserActions
        /\ WithinBounds(chan'[c])
        /\ UNCHANGED <<bySlug, byChatroom, serverSubs, doubled>>
    BY DEF ReopenChannel
  <1> HIDE DEF r
  <1>3. r \in ChannelRecord
    BY <1>1, <1>2, OldState, Bounded
  <1>4. socket' \in SocketState /\ (socket = "up" => socket' = "up")
        /\ userActions' \in 0..MaxUserActions
    <2>1. socket' \in SocketState /\ (socket = "up" => socket' = "up")
      BY <1>2, OldState, SocketEffect
    <2>2. userActions' \in 0..MaxUserActions
      BY <1>2, OldState, KickAssumption
    <2> QED
      BY <2>1, <2>2
  <1>5. Registered(c)' => Registered(c)
    BY <1>1, <1>2, OldState DEF Registered, Live
  <1>6. QED
    BY <1>1, <1>2, <1>3, <1>4, <1>5, OldState, OneChannelStep

\* The timer of reconnect() can only start a connection.
LEMMA ManualInv ==
    ASSUME NEW c \in Channel, NEW enabled, Inv, ManualTimer(c, enabled)
    PROVE  Inv'
  <1> DEFINE fired == [chan[c] EXCEPT !.manuals = @ - 1]
             r == Connect(fired, enabled, socket)
  <1>1. /\ r \in LooseRecord /\ r.life = chan[c].life /\ r.retries = chan[c].retries
        /\ r.state \in {chan[c].state, "Connecting"}
    <2>1. /\ fired \in LooseRecord /\ fired.life = chan[c].life
          /\ fired.state = chan[c].state /\ fired.retries = chan[c].retries
      BY OldState DEF ManualTimer, LooseRecord
    <2> HIDE DEF fired
    <2>2. QED
      BY <2>1, ConnectEffect
  <1>2. /\ chan' = [chan EXCEPT ![c] = r]
        /\ socket' = EnsureConnected(chan[c], enabled, socket)
        /\ WithinBounds(chan'[c])
        /\ UNCHANGED <<bySlug, byChatroom, serverSubs, doubled, userActions>>
    BY OldState DEF ManualTimer
  <1> HIDE DEF r
  <1>3. r \in ChannelRecord
    BY <1>1, <1>2, OldState, Bounded
  <1>4. socket' \in SocketState /\ (socket = "up" => socket' = "up")
    BY <1>2, OldState, SocketEffect
  <1>5. Registered(c)' => Registered(c)
    BY <1>1, <1>2, OldState DEF Registered, Live
  <1>6. QED
    BY <1>1, <1>2, <1>3, <1>4, <1>5, OldState, OneChannelStep

\* reconnect() leaves; the channel is no longer found by its slug.
LEMMA ReconnectInv ==
    ASSUME NEW c \in Channel, Inv, Reconnect(c)
    PROVE  Inv'
  <1> DEFINE off == [chan[c] EXCEPT !.state = "Disconnected"]
             cleared == [off EXCEPT !.attempts = 0]
             r == [cleared EXCEPT !.manuals = chan[c].manuals + 1]
  <1>1. r \in ChannelRecord /\ r.life = chan[c].life /\ r.state = "Disconnected"
    <2>1. off \in ChannelRecord /\ off.life = chan[c].life /\ off.state = "Disconnected"
      BY OldState DEF ChannelRecord, KickConnectionState
    <2> HIDE DEF off
    <2>2. cleared \in ChannelRecord /\ cleared.life = chan[c].life /\ cleared.state = "Disconnected"
      BY <2>1, KickAssumption DEF ChannelRecord
    <2>3. chan[c].manuals + 1 \in 0..MaxInFlight
      BY OldState, KickAssumption DEF Reconnect, ChannelRecord
    <2> HIDE DEF cleared
    <2>4. QED
      BY <2>2, <2>3 DEF ChannelRecord
  <1>2. chan' = [chan EXCEPT ![c] = r]
    <2>1. ManualReconnect(chan[c]) = r
      BY OldState DEF ManualReconnect, ChannelRecord
    <2>2. QED
      BY <2>1 DEF Reconnect
  <1> HIDE DEF r
  <1>3. /\ bySlug' = SlugsAfterLeave(c) /\ byChatroom' = RoomsAfterLeave(c)
        /\ socket' = SocketAfterLeave(RoomsAfterLeave(c))
        /\ serverSubs' = Subscriptions(socket', SubsAfterLeave(c))
        /\ userActions' = userActions + 1 /\ userActions < MaxUserActions
        /\ UNCHANGED doubled /\ Live(c)
    BY DEF Reconnect
  <1>4. serverSubs' \subseteq Slug /\ userActions' \in 0..MaxUserActions
    BY <1>3, LeaveEffect, OldState, KickAssumption DEF Subscriptions
  <1>5. \A d \in Channel :
           d # c /\ Registered(d) /\ chan[d].state = "Connected" /\ SlugOf[d] \notin doubled
           => socket' = "up" /\ SlugOf[d] \in serverSubs' /\ byChatroom'[SlugOf[d]] = d
    BY <1>3, LeaveEffect DEF Subscriptions
  <1>6. /\ bySlug' \in [Slug -> Channel \cup {None}]
        /\ byChatroom' \in [Slug -> Channel \cup {None}]
        /\ socket' \in SocketState
        /\ \A s \in Slug : bySlug'[s] = bySlug[s] \/ bySlug'[s] = None
        /\ \A s \in Slug : byChatroom'[s] \in {byChatroom[s], None}
    BY <1>3, LeaveEffect
  <1>7. r.state # "Reconnecting" /\ r.state # "Connected" /\ UNCHANGED doubled
    BY <1>1, <1>3
  <1>8. QED
    BY <1>1, <1>2, <1>4, <1>5, <1>6, <1>7, OneChannelStep

\* The timer of scheduleReconnect(): a channel that still waits leaves and
\* connects again; otherwise the timer does nothing.
LEMMA RetryInv ==
    ASSUME NEW c \in Channel, NEW enabled, Inv, RetryTimer(c, enabled)
    PROVE  Inv'
  <1> DEFINE fired == [chan[c] EXCEPT !.retries = @ - 1]
             off == [fired EXCEPT !.state = "Disconnected"]
             sock == SocketAfterLeave(RoomsAfterLeave(c))
  <1>1. /\ fired \in LooseRecord /\ fired.life = chan[c].life /\ fired.state = chan[c].state
    BY OldState DEF RetryTimer, LooseRecord
  <1>2. CASE chan[c].state = "Reconnecting"
    <2> DEFINE r == Connect(off, enabled, sock)
    <2>1. r \in LooseRecord /\ r.life = chan[c].life /\ r.state \in {"Disconnected", "Connecting"}
      <3> HIDE DEF fired, sock
      <3>1. off \in LooseRecord /\ off.life = chan[c].life /\ off.state = "Disconnected"
        BY <1>1 DEF LooseRecord, KickConnectionState
      <3> HIDE DEF off
      <3>2. QED
        BY <3>1, ConnectEffect
    <2>2. /\ chan' = [chan EXCEPT ![c] = r] /\ WithinBounds(chan'[c])
          /\ bySlug' = SlugsAfterLeave(c) /\ byChatroom' = RoomsAfterLeave(c)
          /\ socket' = EnsureConnected(off, enabled, sock)
          /\ serverSubs' = Subscriptions(socket', SubsAfterLeave(c))
          /\ UNCHANGED <<doubled, userActions>>
      BY <1>2 DEF RetryTimer
    <2> HIDE DEF r
    <2>3. r \in ChannelRecord
      BY <2>1, <2>2, OldState, Bounded
    <2>4. /\ bySlug' \in [Slug -> Channel \cup {None}]
          /\ byChatroom' \in [Slug -> Channel \cup {None}]
          /\ \A s \in Slug : bySlug'[s] = bySlug[s] \/ bySlug'[s] = None
          /\ \A s \in Slug : byChatroom'[s] \in {byChatroom[s], None}
      BY <2>2, LeaveEffect
    <2>5. /\ socket' \in SocketState /\ serverSubs' \subseteq Slug
          /\ sock = "up" => socket' = "up"
      BY <2>2, LeaveEffect, SocketEffect DEF Subscriptions
    <2>6. \A d \in Channel :
             d # c /\ Registered(d) /\ chan[d].state = "Connected" /\ SlugOf[d] \notin doubled
             => socket' = "up" /\ SlugOf[d] \in serverSubs' /\ byChatroom'[SlugOf[d]] = d
      <3>1. Live(c)
        BY DEF RetryTimer
      <3>2. QED
        BY <2>2, <2>5, <3>1, LeaveEffect DEF Subscriptions
    <2>7. r.state # "Reconnecting" /\ r.state # "Connected" /\ UNCHANGED doubled
          /\ userActions' \in 0..MaxUserActions
      BY <2>1, <2>2, OldState
    <2>8. QED
      BY <2>1, <2>2, <2>3, <2>4, <2>5, <2>6, <2>7, OneChannelStep
  <1>3. CASE chan[c].state # "Reconnecting"
    <2>1. /\ chan' = [chan EXCEPT ![c] = fired] /\ WithinBounds(chan'[c])
          /\ UNCHANGED <<bySlug, byChatroom, socket, serverSubs, doubled, userActions>>
      BY <1>3 DEF RetryTimer
    <2> HIDE DEF fired
    <2>2. fired \in ChannelRecord
      BY <1>1, <2>1, OldState, Bounded
    <2>3. Registered(c)' => Registered(c)
      BY <1>1, <2>1, OldState DEF Registered, Live
    <2>4. QED
      BY <1>1, <1>3, <2>1, <2>2, <2>3, OldState, OneChannelStep
  <1>4. QED
    BY <1>2, <1>3

\* An answer for a failed resolve leaves no claim to be connected.
LEMMA ResolveFailsInv ==
    ASSUME NEW c \in Channel, Inv, ResolveFails(c)
    PROVE  Inv'
  <1> DEFINE fewer == [chan[c] EXCEPT !.resolves = @ - 1]
             r == [fewer EXCEPT !.state = "Failed"]
  <1>1. r \in ChannelRecord /\ r.life = chan[c].life /\ r.state = "Failed"
    <2>1. chan[c].resolves - 1 \in 0..MaxInFlight
      BY OldState, KickAssumption DEF ResolveFails, ChannelRecord
    <2>2. fewer \in ChannelRecord /\ fewer.life = chan[c].life
      BY <2>1, OldState DEF ChannelRecord
    <2> HIDE DEF fewer
    <2>3. QED
      BY <2>2 DEF ChannelRecord, KickConnectionState
  <1>2. /\ chan' = [chan EXCEPT ![c] = r]
        /\ UNCHANGED <<bySlug, byChatroom, socket, serverSubs, doubled, userActions>>
    BY OldState DEF ResolveFails, ResolveFailure
  <1> HIDE DEF r
  <1>3. r.state # "Reconnecting" /\ r.state # "Connected"
    BY <1>1
  <1>4. \A d \in Channel :
           d # c /\ Registered(d) /\ chan[d].state = "Connected" /\ SlugOf[d] \notin doubled
           => socket' = "up" /\ SlugOf[d] \in serverSubs' /\ byChatroom'[SlugOf[d]] = d
    BY <1>2, OldState
  <1>5. QED
    BY <1>1, <1>2, <1>3, <1>4, OldState, OneChannelStep

\* An answer takes the room only for its own slug: the sole live channel of
\* another slug keeps its own.
LEMMA ResolveSucceedsInv ==
    ASSUME NEW c \in Channel, Inv, ResolveSucceeds(c)
    PROVE  Inv'
  <1> DEFINE fewer == [chan[c] EXCEPT !.resolves = @ - 1]
             known == [fewer EXCEPT !.resolved = TRUE]
             r == [known EXCEPT !.state = IF socket = "up" THEN "Connected" ELSE "Failed"]
  <1>1. /\ r \in ChannelRecord /\ r.life = chan[c].life
        /\ r.state = IF socket = "up" THEN "Connected" ELSE "Failed"
    <2>1. chan[c].resolves - 1 \in 0..MaxInFlight
      BY OldState, KickAssumption DEF ResolveSucceeds, ChannelRecord
    <2>2. fewer \in ChannelRecord /\ fewer.life = chan[c].life
      BY <2>1, OldState DEF ChannelRecord
    <2> HIDE DEF fewer
    <2>3. known \in ChannelRecord /\ known.life = chan[c].life
      BY <2>2 DEF ChannelRecord
    <2> HIDE DEF known
    <2>4. QED
      BY <2>3 DEF ChannelRecord, KickConnectionState
  <1>2. /\ chan' = [chan EXCEPT ![c] = r] /\ Live(c)
        /\ byChatroom' = IF socket = "up" THEN [byChatroom EXCEPT ![SlugOf[c]] = c] ELSE byChatroom
        /\ serverSubs' = IF socket = "up" THEN serverSubs \cup {SlugOf[c]} ELSE serverSubs
        /\ UNCHANGED <<bySlug, socket, doubled, userActions>>
    BY OldState DEF ResolveSucceeds, ResolveSuccess
  <1> HIDE DEF r
  <1>3. /\ byChatroom' \in [Slug -> Channel \cup {None}] /\ serverSubs' \subseteq Slug
        /\ \A s \in Slug : byChatroom'[s] \in {byChatroom[s], None}
                          \/ (byChatroom'[s] = c /\ SlugOf[c] = s)
    BY <1>2, OldState
  <1>4. ASSUME NEW d \in Channel, d # c, Registered(d), chan[d].state = "Connected",
               SlugOf[d] \notin doubled
        PROVE  socket' = "up" /\ SlugOf[d] \in serverSubs' /\ byChatroom'[SlugOf[d]] = d
    <2>1. socket = "up" /\ SlugOf[d] \in serverSubs /\ byChatroom[SlugOf[d]] = d
          /\ SlugOf[d] \in Slug
      BY <1>4, OldState
    <2>2. SlugOf[d] # SlugOf[c]
      BY <1>2, <1>4 DEF Inv, DoubledRecorded, Registered
    <2>3. QED
      BY <1>2, <2>1, <2>2, OldState
  <1>5. /\ r.state # "Reconnecting"
        /\ r.state = "Connected" => socket' = "up" /\ SlugOf[c] \in serverSubs'
                                    /\ byChatroom'[SlugOf[c]] = c
    BY <1>1, <1>2, OldState
  <1>6. QED
    BY <1>1, <1>2, <1>3, <1>4, <1>5, OldState, OneChannelStep

\* Giving up a room whose channel is dead touches no live channel.
LEMMA ExpiredInv ==
    ASSUME NEW s \in Slug, Inv, MessageForExpired(s)
    PROVE  Inv'
  <1>1. /\ byChatroom' = [byChatroom EXCEPT ![s] = None] /\ serverSubs' = serverSubs \ {s}
        /\ byChatroom[s] # None /\ ~Live(byChatroom[s])
        /\ UNCHANGED <<chan, bySlug, socket, doubled, userActions>>
    BY DEF MessageForExpired
  <1>2. TypeOK'
    BY <1>1 DEF Inv, TypeOK
  <1>3. ReconnectingHasTimer' /\ RegistriesFit' /\ DoubledRecorded'
    BY <1>1 DEF Inv, TypeOK, ReconnectingHasTimer, RegistriesFit, DoubledRecorded, Live
  <1>4. ASSUME NEW d \in Channel, Registered(d)', chan'[d].state = "Connected",
               SlugOf[d] \notin doubled'
        PROVE  socket' = "up" /\ SlugOf[d] \in serverSubs' /\ byChatroom'[SlugOf[d]] = d
    <2>1. Registered(d) /\ Live(d)
      BY <1>1, <1>4 DEF Registered, Live
    <2>2. socket = "up" /\ SlugOf[d] \in serverSubs /\ byChatroom[SlugOf[d]] = d
      BY <1>1, <1>4, <2>1 DEF Inv, ConnectedIsSubscribed
    <2>3. s # SlugOf[d]
      BY <1>1, <2>1, <2>2
    <2>4. QED
      BY <1>1, <2>2, <2>3, OldState
  <1>5. QED
    BY <1>2, <1>3, <1>4 DEF Inv, ConnectedIsSubscribed
-----------------------------------------------------------------------------
\* Every step preserves the invariant.
LEMMA NextInv == Inv /\ [Next]_vars => Inv'
  <1> SUFFICES ASSUME Inv, [Next]_vars PROVE Inv'
    OBVIOUS
  <1>1. ASSUME NEW c \in Channel, NEW loggedIn \in LoginModes, NEW enabled \in EnabledModes,
               CreateChannel(c, loggedIn, enabled) \/ ReopenChannel(c, loggedIn, enabled)
        PROVE  Inv'
    BY <1>1, CreateInv, ReopenInv
  <1>2. ASSUME NEW c \in Channel, NEW enabled \in EnabledModes,
               ManualTimer(c, enabled) \/ RetryTimer(c, enabled)
        PROVE  Inv'
    BY <1>2, ManualInv, RetryInv
  <1>3. ASSUME NEW c \in Channel,
               DestroyChannel(c) \/ Reconnect(c) \/ ResolveFails(c) \/ ResolveSucceeds(c)
        PROVE  Inv'
    BY <1>3, DestroyInv, ReconnectInv, ResolveFailsInv, ResolveSucceedsInv
  <1>4. CASE ConnectionEstablished
    BY <1>4, EstablishedInv
  <1>5. CASE CloseCompletes
    BY <1>5, CloseInv
  <1>6. CASE ConnectionLost
    BY <1>6, LostInv
  <1>7. ASSUME NEW reconnectable \in BOOLEAN, PusherError(reconnectable)
        PROVE  Inv'
    BY <1>7, ErrorInv
  <1>8. ASSUME NEW s \in Slug, MessageForExpired(s)
        PROVE  Inv'
    BY <1>8, ExpiredInv
  <1>9. CASE UNCHANGED vars
    BY <1>9 DEF vars, Inv, TypeOK, ReconnectingHasTimer, RegistriesFit, DoubledRecorded,
       ConnectedIsSubscribed, Registered, Live
  <1>10. QED
    BY <1>1, <1>2, <1>3, <1>4, <1>5, <1>6, <1>7, <1>8, <1>9 DEF Next

LEMMA InvHolds == Spec => []Inv
  <1>1. Init => Inv
    BY InitInv
  <1>2. Inv /\ [Next]_vars => Inv'
    BY NextInv
  <1>3. QED
    BY <1>1, <1>2, PTL DEF Spec

\* KickChat is type correct; no channel makes more than MAX_RECONNECT_ATTEMPTS
\* automatic attempts (KickChannel::scheduleReconnect()).
THEOREM TypeCorrect == Spec => []TypeOK
  <1>1. Inv => TypeOK
    BY DEF Inv
  <1>2. QED
    BY <1>1, InvHolds, PTL

\* A channel found by its slug that says "Connected" has the socket, the
\* subscription and the routing entry (KickChatServer::leave(),
\* subscribeChatroom(), onConnectionStateChanged()).
THEOREM ConnectedChannelsAreSubscribed == Spec => []ConnectedIsSubscribed
  <1>1. Inv => ConnectedIsSubscribed
    BY DEF Inv
  <1>2. QED
    BY <1>1, InvHolds, PTL

\* A channel that waits for a reconnect has a timer pending
\* (KickChannel::handleConnectionError(), scheduleReconnect()).
THEOREM ReconnectIsScheduled == Spec => []ReconnectingHasTimer
  <1>1. Inv => ReconnectingHasTimer
    BY DEF Inv
  <1>2. QED
    BY <1>1, InvHolds, PTL
-----------------------------------------------------------------------------
(***************************************************************************)
(* ConnectingHasCause.  It needs that no Kick account is logged in: the    *)
(* setApi() of a split that opens then leaves the KickApi of the channel   *)
(* alone, and the answers that it waits for keep coming.                   *)
(***************************************************************************)
NobodyLogsIn == LoginModes \subseteq {FALSE}

\* What ConnectingHasCause says of a channel with record r, on the socket sock
Caused(r, sock) ==
    r.state = "Connecting" => sock \in {"opening", "closing"} \/ r.resolves > 0

\* connect() of a channel that is not connected yet either asks for the
\* chatroom or opens the socket.
LEMMA ConnectIsCaused ==
    ASSUME NEW r \in LooseRecord, NEW enabled, NEW sock, Caused(r, sock)
    PROVE  Caused(Connect(r, enabled, sock), EnsureConnected(r, enabled, sock))
  <1> DEFINE connecting == [r EXCEPT !.state = "Connecting"]
  <1>1. CASE ~WillConnect(r, enabled)
    BY <1>1 DEF Connect, EnsureConnected
  <1>2. CASE WillConnect(r, enabled) /\ sock # "up"
    BY <1>2 DEF EnsureConnected, Caused
  <1>3. CASE WillConnect(r, enabled) /\ sock = "up"
    <2>1. Connect(r, enabled, sock) = ResolveAndSubscribe(connecting)
      BY <1>3 DEF Connect
    <2>2. ResolveAndSubscribe(connecting).resolves > 0
      BY DEF ResolveAndSubscribe, LooseRecord
    <2>3. QED
      BY <2>1, <2>2 DEF Caused
  <1>4. QED
    BY <1>1, <1>2, <1>3

\* A socket that is about to open or to close stays so when it is asked for or
\* given up.
LEMMA SocketStaysBusy ==
    ASSUME NEW sock \in {"opening", "closing"}, NEW r, NEW enabled
    PROVE  /\ EnsureConnected(r, enabled, sock) \in {"opening", "closing"}
           /\ SocketDisconnect(sock) \in {"opening", "closing"}
  BY DEF EnsureConnected, SocketDisconnect

\* A step that changes one channel c takes the cause from no other channel,
\* unless it takes the socket from opening or closing to something else.
LEMMA OneChannelCaused ==
    ASSUME Inv, ConnectingHasCause, NEW c \in Channel, NEW r,
           chan' = [chan EXCEPT ![c] = r],
           \A s \in Slug : bySlug'[s] \in {bySlug[s], None, c},
           socket \in {"opening", "closing"} => socket' \in {"opening", "closing"},
           Registered(c)' => Caused(r, socket')
    PROVE  ConnectingHasCause'
  <1> SUFFICES ASSUME NEW d \in Channel, Registered(d)', chan'[d].state = "Connecting"
               PROVE  socket' \in {"opening", "closing"} \/ chan'[d].resolves > 0
    BY DEF ConnectingHasCause
  <1>1. chan \in [Channel -> ChannelRecord] /\ SlugOf[d] \in Slug /\ d # None
    BY KickAssumption DEF Inv, TypeOK
  <1>2. CASE d = c
    <2>1. chan'[d] = r
      BY <1>1, <1>2
    <2>2. QED
      BY <1>2, <2>1 DEF Caused
  <1>3. CASE d # c
    <2>1. chan'[d] = chan[d]
      BY <1>1, <1>3
    <2>2. Registered(d)
      BY <1>1, <1>3, <2>1 DEF Registered, Live
    <2>3. socket \in {"opening", "closing"} \/ chan[d].resolves > 0
      BY <2>1, <2>2 DEF ConnectingHasCause
    <2>4. QED
      BY <2>1, <2>3
  <1>4. QED
    BY <1>2, <1>3

\* connect() twice on a new channel; without a login setApi() does nothing in
\* between, and the second connect() finds the channel Connecting.
LEMMA CreateCaused ==
    ASSUME NEW c \in Channel, NEW enabled, Inv, ConnectingHasCause,
           CreateChannel(c, FALSE, enabled)
    PROVE  ConnectingHasCause'
  <1> DEFINE fresh == ChannelMembers("live")
             sock == EnsureConnected(fresh, enabled, socket)
             first == Connect(fresh, enabled, socket)
             r == Connect(first, enabled, sock)
  <1>1. fresh \in LooseRecord /\ fresh.state = "Disconnected"
    BY NewEffect, Loosened
  <1>2. first \in LooseRecord /\ first.state \in {"Disconnected", "Connecting"}
    BY <1>1, ConnectEffect
  <1>3. Caused(first, sock)
    BY <1>1, ConnectIsCaused DEF Caused
  <1>4. Caused(r, sock)
    <2> HIDE DEF fresh
    <2>1. CASE WillConnect(fresh, enabled)
      <3>1. first.state = "Connecting"
        BY <1>1, <2>1 DEF Connect, ResolveAndSubscribe, LooseRecord
      <3>2. r = first
        BY <3>1 DEF Connect, WillConnect
      <3>3. QED
        BY <1>3, <3>2
    <2>2. CASE ~WillConnect(fresh, enabled)
      <3>1. first = fresh
        BY <2>2 DEF Connect
      <3>2. r = fresh
        BY <2>2, <3>1 DEF Connect
      <3>3. QED
        BY <1>1, <3>2 DEF Caused
    <2>3. QED
      BY <2>1, <2>2
  <1>5. chan' = [chan EXCEPT ![c] = r] /\ bySlug' = [bySlug EXCEPT ![SlugOf[c]] = c]
        /\ socket' = sock
    BY DEF CreateChannel, SetApi
  <1>6. \A s \in Slug : bySlug'[s] \in {bySlug[s], None, c}
    BY <1>5, OldState
  <1>7. socket \in {"opening", "closing"} => socket' \in {"opening", "closing"}
    BY <1>5, SocketStaysBusy
  <1> HIDE DEF r, sock
  <1>8. QED
    BY <1>4, <1>5, <1>6, <1>7, OneChannelCaused

\* A channel that exists keeps its cause when it is opened once more.
LEMMA ReopenCaused ==
    ASSUME NEW c \in Channel, NEW enabled, Inv, ConnectingHasCause,
           ReopenChannel(c, FALSE, enabled)
    PROVE  ConnectingHasCause'
  <1> DEFINE r == Connect(chan[c], enabled, socket)
  <1>1. /\ chan' = [chan EXCEPT ![c] = r] /\ bySlug' = bySlug
        /\ socket' = EnsureConnected(chan[c], enabled, socket)
        /\ Registered(c)
    BY OldState DEF ReopenChannel, SetApi
  <1>2. Caused(chan[c], socket)
    BY <1>1 DEF ConnectingHasCause, Caused
  <1>3. Caused(r, socket')
    BY <1>1, <1>2, OldState, ConnectIsCaused
  <1>4. socket \in {"opening", "closing"} => socket' \in {"opening", "closing"}
    BY <1>1, SocketStaysBusy
  <1> HIDE DEF r
  <1>5. QED
    BY <1>1, <1>3, <1>4, OneChannelCaused

\* A channel that dies is not registered any more.
LEMMA DestroyCaused ==
    ASSUME NEW c \in Channel, Inv, ConnectingHasCause, DestroyChannel(c)
    PROVE  ConnectingHasCause'
  <1> DEFINE r == ChannelMembers("dead")
  <1>1. chan' = [chan EXCEPT ![c] = r] /\ bySlug' = bySlug
        /\ socket' = SocketAfterLeave(byChatroom)
    BY DEF DestroyChannel
  <1>2. r.state = "Disconnected"
    BY NewEffect
  <1>3. socket \in {"opening", "closing"} => socket' \in {"opening", "closing"}
    BY <1>1, SocketStaysBusy DEF SocketAfterLeave
  <1> HIDE DEF r
  <1>4. QED
    BY <1>1, <1>2, <1>3, OneChannelCaused DEF Caused

\* leave() erases the channel's entry: it is not registered any more.
LEMMA ReconnectCaused ==
    ASSUME NEW c \in Channel, Inv, ConnectingHasCause, Reconnect(c)
    PROVE  ConnectingHasCause'
  <1>1. /\ chan' = [chan EXCEPT ![c] = ManualReconnect(chan[c])]
        /\ bySlug' = SlugsAfterLeave(c)
        /\ socket' = SocketAfterLeave(RoomsAfterLeave(c))
    BY DEF Reconnect
  <1>2. ~Registered(c)'
    BY <1>1, LeaveEffect DEF Registered
  <1>3. \A s \in Slug : bySlug'[s] \in {bySlug[s], None, c}
    BY <1>1, LeaveEffect
  <1>4. socket \in {"opening", "closing"} => socket' \in {"opening", "closing"}
    BY <1>1, SocketStaysBusy DEF SocketAfterLeave
  <1>5. QED
    BY <1>1, <1>2, <1>3, <1>4, OneChannelCaused

\* The connect() of the timer of reconnect()
LEMMA ManualCaused ==
    ASSUME NEW c \in Channel, NEW enabled, Inv, ConnectingHasCause,
           ManualTimer(c, enabled)
    PROVE  ConnectingHasCause'
  <1> DEFINE fired == [chan[c] EXCEPT !.manuals = @ - 1]
             r == Connect(fired, enabled, socket)
  <1>1. /\ chan' = [chan EXCEPT ![c] = r] /\ bySlug' = bySlug
        /\ socket' = EnsureConnected(chan[c], enabled, socket)
        /\ chan[c].manuals > 0 /\ Live(c)
    BY OldState DEF ManualTimer
  <1>2. /\ fired \in LooseRecord /\ fired.state = chan[c].state
        /\ fired.resolves = chan[c].resolves
    BY <1>1, OldState DEF LooseRecord
  <1>3. socket' = EnsureConnected(fired, enabled, socket)
    BY <1>1, <1>2 DEF EnsureConnected, WillConnect
  <1>4. ASSUME Registered(c)' PROVE Caused(r, socket')
    <2>1. Registered(c)
      BY <1>1, <1>4 DEF Registered
    <2>2. Caused(fired, socket)
      BY <1>2, <2>1 DEF ConnectingHasCause, Caused
    <2> HIDE DEF fired
    <2>3. QED
      BY <1>2, <1>3, <2>2, ConnectIsCaused
  <1>5. socket \in {"opening", "closing"} => socket' \in {"opening", "closing"}
    BY <1>1, SocketStaysBusy
  <1> HIDE DEF r
  <1>6. QED
    BY <1>1, <1>4, <1>5, OneChannelCaused

\* The timer of scheduleReconnect(): either the channel leaves first and is not
\* registered any more, or nothing but the timer changes.
LEMMA RetryCaused ==
    ASSUME NEW c \in Channel, NEW enabled, Inv, ConnectingHasCause,
           RetryTimer(c, enabled)
    PROVE  ConnectingHasCause'
  <1> DEFINE fired == [chan[c] EXCEPT !.retries = @ - 1]
             off == [fired EXCEPT !.state = "Disconnected"]
             sock == SocketAfterLeave(RoomsAfterLeave(c))
             r == Connect(off, enabled, sock)
  <1>1. CASE chan[c].state = "Reconnecting"
    <2>1. /\ chan' = [chan EXCEPT ![c] = r] /\ bySlug' = SlugsAfterLeave(c)
          /\ socket' = EnsureConnected(off, enabled, sock)
      BY <1>1 DEF RetryTimer
    <2> HIDE DEF r, off
    <2>2. ~Registered(c)'
      BY <2>1, LeaveEffect DEF Registered
    <2>3. \A s \in Slug : bySlug'[s] \in {bySlug[s], None, c}
      BY <2>1, LeaveEffect
    <2>4. socket \in {"opening", "closing"} => sock \in {"opening", "closing"}
      BY SocketStaysBusy DEF SocketAfterLeave
    <2> HIDE DEF sock
    <2>5. socket \in {"opening", "closing"} => socket' \in {"opening", "closing"}
      BY <2>1, <2>4, SocketStaysBusy
    <2>6. QED
      BY <2>1, <2>2, <2>3, <2>5, OneChannelCaused
  <1>2. CASE chan[c].state # "Reconnecting"
    <2>1. chan' = [chan EXCEPT ![c] = fired] /\ UNCHANGED <<bySlug, socket>> /\ Live(c)
      BY <1>2 DEF RetryTimer
    <2>2. fired.state = chan[c].state /\ fired.resolves = chan[c].resolves
      BY OldState DEF ChannelRecord
    <2>3. Registered(c)' => Caused(fired, socket')
      BY <2>1, <2>2 DEF Registered, ConnectingHasCause, Caused
    <2> HIDE DEF fired
    <2>4. QED
      BY <2>1, <2>3, OneChannelCaused
  <1>3. QED
    BY <1>1, <1>2

\* An answer takes the channel out of Connecting.
LEMMA AnswerCaused ==
    ASSUME NEW c \in Channel, Inv, ConnectingHasCause,
           ResolveFails(c) \/ ResolveSucceeds(c)
    PROVE  ConnectingHasCause'
  <1>1. CASE ResolveFails(c)
    <2> DEFINE r == ResolveFailure(chan[c])
    <2>1. chan' = [chan EXCEPT ![c] = r] /\ UNCHANGED <<bySlug, socket>>
      BY <1>1 DEF ResolveFails
    <2>2. r.state = "Failed"
      BY OldState DEF ResolveFailure, ChannelRecord
    <2> HIDE DEF r
    <2>3. QED
      BY <2>1, <2>2, OneChannelCaused DEF Caused
  <1>2. CASE ResolveSucceeds(c)
    <2> DEFINE r == ResolveSuccess(chan[c], socket = "up")
    <2>1. chan' = [chan EXCEPT ![c] = r] /\ UNCHANGED <<bySlug, socket>>
      BY <1>2 DEF ResolveSucceeds
    <2>2. r.state \in {"Connected", "Failed"}
      BY OldState DEF ResolveSuccess, ChannelRecord
    <2> HIDE DEF r
    <2>3. QED
      BY <2>1, <2>2, OneChannelCaused DEF Caused
  <1>3. QED
    BY <1>1, <1>2

\* Every event of the socket reaches every registered channel: after a loss or
\* an error none is Connecting, and when the socket is up all of them ask.
LEMMA SocketCaused ==
    ASSUME Inv, ConnectingHasCause,
           \/ ConnectionEstablished \/ CloseCompletes \/ ConnectionLost
           \/ \E reconnectable \in BOOLEAN : PusherError(reconnectable)
    PROVE  ConnectingHasCause'
  <1>1. /\ Prune /\ UNCHANGED doubled
        /\ \/ chan' = Notified(ResolveAndSubscribe)
           \/ chan' = Notified(OnServerDisconnected)
           \/ chan' = Notified(OnServerError)
           \/ chan' = [c \in Channel |-> IF Registered(c)
                        THEN OnServerDisconnected(OnServerError(chan[c])) ELSE chan[c]]
           \/ chan' = [c \in Channel |-> IF Registered(c)
                        THEN OnServerError(OnServerDisconnected(chan[c])) ELSE chan[c]]
    BY DEF ConnectionEstablished, CloseCompletes, ConnectionLost, PusherError, Notified
  <1>2. ASSUME NEW c \in Channel
        PROVE  /\ chan'[c].life = chan[c].life
               /\ Registered(c) /\ chan'[c].state = "Connecting" => chan'[c].resolves > 0
    <2>1. /\ chan[c] \in LooseRecord
          /\ chan[c].state = "Reconnecting" => chan[c].retries > 0
      BY OldState
    <2>2. CASE ~Registered(c)
      <3>1. chan'[c] = chan[c]
        BY <1>1, <2>2 DEF Notified
      <3>2. QED
        BY <2>2, <3>1
    <2>3. CASE Registered(c)
      <3>1. chan'[c] \in {ResolveAndSubscribe(chan[c]), OnServerDisconnected(chan[c]),
                          OnServerError(chan[c]),
                          OnServerDisconnected(OnServerError(chan[c])),
                          OnServerError(OnServerDisconnected(chan[c]))}
        BY <1>1, <2>3 DEF Notified
      <3>2. /\ ResolveAndSubscribe(chan[c]).life = chan[c].life
            /\ ResolveAndSubscribe(chan[c]).resolves > 0
        BY <2>1 DEF ResolveAndSubscribe, LooseRecord
      <3>3. QED
        BY <2>1, <3>1, <3>2, DisconnectEffect, ErrorEffect
    <2>4. QED
      BY <2>2, <2>3
  <1>3. \A c \in Channel : Registered(c)' <=> Registered(c)
    BY <1>1, <1>2, PruneEffect
  <1>4. QED
    BY <1>2, <1>3 DEF ConnectingHasCause

\* Every step preserves ConnectingHasCause while nobody logs in.
LEMMA NextCaused ==
    ASSUME NobodyLogsIn, Inv, ConnectingHasCause, [Next]_vars
    PROVE  ConnectingHasCause'
  <1>1. ASSUME NEW c \in Channel, NEW loggedIn \in LoginModes, NEW enabled \in EnabledModes,
               CreateChannel(c, loggedIn, enabled) \/ ReopenChannel(c, loggedIn, enabled)
        PROVE  ConnectingHasCause'
    <2>1. loggedIn = FALSE
      BY DEF NobodyLogsIn
    <2>2. QED
      BY <1>1, <2>1, CreateCaused, ReopenCaused
  <1>2. ASSUME NEW c \in Channel, NEW enabled \in EnabledModes,
               ManualTimer(c, enabled) \/ RetryTimer(c, enabled)
        PROVE  ConnectingHasCause'
    BY <1>2, ManualCaused, RetryCaused
  <1>3. ASSUME NEW c \in Channel,
               DestroyChannel(c) \/ Reconnect(c) \/ ResolveFails(c) \/ ResolveSucceeds(c)
        PROVE  ConnectingHasCause'
    BY <1>3, DestroyCaused, ReconnectCaused, AnswerCaused
  <1>4. ASSUME \/ ConnectionEstablished \/ CloseCompletes \/ ConnectionLost
               \/ \E reconnectable \in BOOLEAN : PusherError(reconnectable)
        PROVE  ConnectingHasCause'
    BY <1>4, SocketCaused
  <1>5. ASSUME NEW s \in Slug, MessageForExpired(s)
        PROVE  ConnectingHasCause'
    BY <1>5 DEF MessageForExpired, ConnectingHasCause, Registered, Live
  <1>6. CASE UNCHANGED vars
    BY <1>6 DEF vars, ConnectingHasCause, Registered, Live
  <1>7. QED
    BY <1>1, <1>2, <1>3, <1>4, <1>5, <1>6 DEF Next

\* As long as no Kick account is logged in, "Connecting" is never a dead end
\* for a registered channel: the socket is about to open or to close, or the
\* chatroom is on its way (KickChannel::connect(), resolveAndSubscribe(),
\* KickChatServer::onConnectionStateChanged(), onError()).
THEOREM ConnectingIsCaused ==
    ASSUME NobodyLogsIn
    PROVE  Spec => []ConnectingHasCause
  <1>1. Init => ConnectingHasCause
    BY DEF Init, ConnectingHasCause, Registered, Live, ChannelMembers
  <1>2. Inv /\ ConnectingHasCause /\ [Next]_vars => ConnectingHasCause'
    BY NextCaused
  <1>3. QED
    BY <1>1, <1>2, InvHolds, PTL DEF Spec
=============================================================================
