------------------------ MODULE TwitchReadConnection ------------------------
(***************************************************************************)
(* The read connection of TwitchIrcServer: one IrcConnection that notices  *)
(* by itself that it is lost and reconnects with a backoff, the channels   *)
(* that are open, and joinBucket_, the RatelimitBucket every JOIN passes.  *)
(*                                                                         *)
(* All of it runs in the GUI thread.  Twitch and the TCP connection are    *)
(* external: the connection registers, fails, or goes silent without the   *)
(* socket noticing.                                                        *)
(***************************************************************************)
EXTENDS Naturals, Sequences, FiniteSets

CONSTANTS
    Channel,                 \* names of Twitch channels
    Visible,                 \* the ones getVisibleChannelNames() returns
    JOIN_RATELIMIT_BUDGET,   \* TwitchIrcServer.cpp
    MaxLosses,               \* bound: connections that fail, go silent or answer too late
    MaxConnects,             \* bound: calls of connect() after the first
    MaxOpens                 \* bound: channels opened

ASSUME ConnectionAssumption ==
    /\ IsFiniteSet(Channel)
    /\ Visible \subseteq Channel
    /\ JOIN_RATELIMIT_BUDGET \in Nat \ {0}
    /\ {MaxLosses, MaxConnects, MaxOpens} \subseteq Nat

VARIABLES
    link,                      \* status of the Communi connection
    silent,                    \* external: the peer is gone, the socket does not know
    expectConnectionLoss,      \* expectConnectionLoss_
    waitingForPong,            \* waitingForPong_
    recentlyReceivedMessage,   \* recentlyReceivedMessage_
    pingTimer,                 \* pingTimer_ is active
    reconnectTimer,            \* reconnectTimer_ is active
    channels,                  \* TwitchIrcServer::channels
    budget,                    \* RatelimitBucket::budget_
    queue,                     \* RatelimitBucket::queue_
    cooldowns,                 \* timers of the bucket that have yet to fire
    joined,                    \* history: JOINed and not PARTed on this connection
    quiet,                     \* history: ticks of pingTimer_ since a message, up to 2
    losses, connects, opens    \* bounds: what happened so far

irc == <<link, silent, expectConnectionLoss, waitingForPong, recentlyReceivedMessage,
         pingTimer, reconnectTimer, quiet>>
bucket == <<budget, queue, cooldowns>>
vars == <<irc, bucket, channels, joined, losses, connects, opens>>

\* After initialize() and the first connect()
Init ==
    /\ link = "connecting"
    /\ silent = FALSE
    /\ expectConnectionLoss = FALSE
    /\ waitingForPong = FALSE
    /\ recentlyReceivedMessage = FALSE
    /\ pingTimer = TRUE
    /\ reconnectTimer = FALSE
    /\ quiet = 0
    /\ channels = {}
    /\ budget = JOIN_RATELIMIT_BUDGET
    /\ queue = << >>
    /\ cooldowns = 0
    /\ joined = {}
    /\ losses = 0 /\ connects = 0 /\ opens = 0
-----------------------------------------------------------------------------
(* RatelimitBucket. *)

Entries(q) == {q[i] : i \in 1..Len(q)}

\* actuallyJoin(): JOIN for names that still have a channel; what is sent
\* while the connection is not up is lost.
JoinNames(names) ==
    IF link' = "connected" THEN names \cap channels' ELSE {}

\* send() for each of a sequence of names: each call appends its name and, with
\* budget left, handleOne() takes the first of the queue.  "before" is what is
\* joined so far on this connection.
Send(names, before) ==
    LET all == queue \o names
        taken == IF budget < Len(names) THEN budget ELSE Len(names)
    IN  /\ queue' = SubSeq(all, taken + 1, Len(all))
        /\ budget' = budget - taken
        /\ cooldowns' = cooldowns + taken
        /\ joined' = before \cup JoinNames({all[i] : i \in 1..taken})

\* Faulty variants: the timer does not run the next entry; it forgets the
\* token when nothing waits.
CooldownIdle ==
    /\ cooldowns > 0
    /\ cooldowns' = cooldowns - 1
    /\ budget' = budget + 1
    /\ UNCHANGED <<irc, queue, channels, joined, losses, connects, opens>>

CooldownForgets ==
    /\ cooldowns > 0
    /\ UNCHANGED <<irc, channels, losses, connects, opens>>
    /\ \/ /\ queue = << >>
          /\ cooldowns' = cooldowns - 1
          /\ UNCHANGED <<budget, queue, joined>>
       \/ /\ queue # << >>
          /\ queue' = Tail(queue)
          /\ joined' = joined \cup JoinNames({Head(queue)})
          /\ UNCHANGED <<budget, cooldowns>>

\* The timer of handleOne(): a token comes back, and the next entry uses it.
Cooldown ==
    /\ cooldowns > 0
    /\ UNCHANGED <<irc, channels, losses, connects, opens>>
    /\ \/ /\ queue = << >>
          /\ budget' = budget + 1
          /\ cooldowns' = cooldowns - 1
          /\ UNCHANGED <<queue, joined>>
       \/ /\ queue # << >>
          /\ queue' = Tail(queue)
          /\ joined' = joined \cup JoinNames({Head(queue)})
          /\ UNCHANGED <<budget, cooldowns>>
-----------------------------------------------------------------------------
(* IrcConnection. *)

\* open(); the socket of an attempt that is under way is left alone.
Open ==
    /\ link' = "connecting"
    /\ silent' = FALSE
    /\ expectConnectionLoss' = FALSE
    /\ waitingForPong' = FALSE
    /\ recentlyReceivedMessage' = FALSE

\* connect() of the server: close() and open()
Connect ==
    /\ connects < MaxConnects
    /\ connects' = connects + 1
    /\ Open
    /\ pingTimer' = (pingTimer /\ link = "closed")
    /\ joined' = {}
    /\ UNCHANGED <<reconnectTimer, quiet, bucket, channels, losses, opens>>

\* The connection is registered, then onReadConnected(): every channel is
\* sent to the bucket, the visible ones first.
JoinOrders ==
    {order \in [1..Cardinality(channels) -> channels] :
        /\ \A c \in channels : \E i \in DOMAIN order : order[i] = c
        /\ \A i, j \in DOMAIN order :
              order[i] \in Visible /\ order[j] \notin Visible => i < j}

\* Faulty variants: only channels that wait in the bucket already are joined;
\* the ping timer is not started again.
RegisteredWithoutJoin ==
    /\ link = "connecting"
    /\ link' = "connected"
    /\ recentlyReceivedMessage' = TRUE
    /\ pingTimer' = TRUE
    /\ quiet' = 0
    /\ UNCHANGED <<silent, expectConnectionLoss, waitingForPong, reconnectTimer,
                   bucket, channels, joined, losses, connects, opens>>

RegisteredWithoutPing ==
    /\ link = "connecting"
    /\ link' = "connected"
    /\ recentlyReceivedMessage' = TRUE
    /\ quiet' = 0
    /\ UNCHANGED <<pingTimer, channels>>
    /\ \E order \in JoinOrders : Send(order, {})
    /\ UNCHANGED <<silent, expectConnectionLoss, waitingForPong, reconnectTimer,
                   losses, connects, opens>>

Registered ==
    /\ link = "connecting"
    /\ link' = "connected"
    /\ recentlyReceivedMessage' = TRUE
    /\ pingTimer' = TRUE
    /\ quiet' = 0
    /\ UNCHANGED channels
    /\ \E order \in JoinOrders : Send(order, {})
    /\ UNCHANGED <<silent, expectConnectionLoss, waitingForPong, reconnectTimer,
                   losses, connects, opens>>

\* Faulty variant: every loss is taken for an expected one.
LinkFailsExpected ==
    /\ link # "closed"
    /\ losses < MaxLosses
    /\ losses' = losses + 1
    /\ link' = "closed"
    /\ silent' = FALSE
    /\ pingTimer' = FALSE
    /\ joined' = {}
    /\ UNCHANGED <<expectConnectionLoss, waitingForPong, recentlyReceivedMessage,
                   reconnectTimer, quiet, bucket, channels, connects, opens>>

\* The socket enters UnconnectedState by itself: connectionLost, and with it
\* smartReconnect(), unless close() was called.
LinkFails ==
    /\ link # "closed"
    /\ losses < MaxLosses
    /\ losses' = losses + 1
    /\ link' = "closed"
    /\ silent' = FALSE
    /\ pingTimer' = FALSE
    /\ reconnectTimer' = (reconnectTimer \/ ~expectConnectionLoss)
    /\ joined' = {}
    /\ UNCHANGED <<expectConnectionLoss, waitingForPong, recentlyReceivedMessage,
                   quiet, bucket, channels, connects, opens>>

ReconnectTimer ==
    /\ reconnectTimer
    /\ reconnectTimer' = FALSE
    /\ \/ /\ link = "connected"
          /\ UNCHANGED <<link, silent, expectConnectionLoss, waitingForPong,
                         recentlyReceivedMessage>>
       \/ /\ link # "connected"
          /\ Open
    /\ UNCHANGED <<pingTimer, quiet, bucket, channels, joined, losses, connects, opens>>

\* Faulty variant: a message does not end the wait for the PONG.
PingTickImpatient ==
    /\ pingTimer /\ link = "connected"
    /\ quiet' = IF quiet < 2 THEN quiet + 1 ELSE quiet
    /\ \/ /\ recentlyReceivedMessage
          /\ recentlyReceivedMessage' = FALSE
          /\ UNCHANGED <<link, silent, expectConnectionLoss, waitingForPong, pingTimer,
                         reconnectTimer, joined, losses>>
       \/ /\ ~recentlyReceivedMessage /\ ~waitingForPong
          /\ waitingForPong' = TRUE
          /\ UNCHANGED <<link, silent, expectConnectionLoss, recentlyReceivedMessage,
                         pingTimer, reconnectTimer, joined, losses>>
       \/ /\ ~recentlyReceivedMessage /\ waitingForPong
          /\ silent \/ losses < MaxLosses
          /\ losses' = IF silent THEN losses ELSE losses + 1
          /\ link' = "closed"
          /\ silent' = FALSE
          /\ expectConnectionLoss' = TRUE
          /\ pingTimer' = FALSE
          /\ reconnectTimer' = TRUE
          /\ joined' = {}
          /\ UNCHANGED <<waitingForPong, recentlyReceivedMessage>>
    /\ UNCHANGED <<bucket, channels, connects, opens>>

\* pingTimer_: all is well; or PING; or, with the PONG missing, close() and
\* connectionLost.  A PONG that comes too late counts as a loss.
PingTick ==
    /\ pingTimer /\ link = "connected"
    /\ quiet' = IF quiet < 2 THEN quiet + 1 ELSE quiet
    /\ \/ /\ recentlyReceivedMessage
          /\ recentlyReceivedMessage' = FALSE
          /\ waitingForPong' = FALSE
          /\ UNCHANGED <<link, silent, expectConnectionLoss, pingTimer,
                         reconnectTimer, joined, losses>>
       \/ /\ ~recentlyReceivedMessage /\ ~waitingForPong
          /\ waitingForPong' = TRUE
          /\ UNCHANGED <<link, silent, expectConnectionLoss, recentlyReceivedMessage,
                         pingTimer, reconnectTimer, joined, losses>>
       \/ /\ ~recentlyReceivedMessage /\ waitingForPong
          /\ silent \/ losses < MaxLosses
          /\ losses' = IF silent THEN losses ELSE losses + 1
          /\ link' = "closed"
          /\ silent' = FALSE
          /\ expectConnectionLoss' = TRUE
          /\ pingTimer' = FALSE
          /\ reconnectTimer' = TRUE
          /\ joined' = {}
          /\ UNCHANGED <<waitingForPong, recentlyReceivedMessage>>
    /\ UNCHANGED <<bucket, channels, connects, opens>>

\* messageReceived, and pongMessageReceived for the answer to our PING
MessageReceived(isPong) ==
    /\ link = "connected" /\ ~silent
    /\ recentlyReceivedMessage' = TRUE
    /\ waitingForPong' = (waitingForPong /\ ~isPong)
    /\ quiet' = 0
    /\ UNCHANGED <<link, silent, expectConnectionLoss, pingTimer, reconnectTimer,
                   bucket, channels, joined, losses, connects, opens>>

\* The peer disappears: nothing arrives any more, and the socket stays open.
GoesSilent ==
    /\ link = "connected" /\ ~silent
    /\ losses < MaxLosses
    /\ losses' = losses + 1
    /\ silent' = TRUE
    /\ UNCHANGED <<link, expectConnectionLoss, waitingForPong, recentlyReceivedMessage,
                   pingTimer, reconnectTimer, quiet, bucket, channels, joined,
                   connects, opens>>
-----------------------------------------------------------------------------
(* Channels. *)

\* getOrAddChannel() for a name that has no channel
AddChannel(c) ==
    /\ c \notin channels
    /\ opens < MaxOpens
    /\ opens' = opens + 1
    /\ channels' = channels \cup {c}
    /\ UNCHANGED irc
    /\ \/ link = "connected" /\ Send(<<c>>, joined)
       \/ link # "connected" /\ UNCHANGED <<bucket, joined>>
    /\ UNCHANGED <<losses, connects>>

\* Faulty variant: no PART is sent.
ChannelDestroyedQuietly(c) ==
    /\ c \in channels
    /\ channels' = channels \ {c}
    /\ UNCHANGED <<irc, bucket, joined, losses, connects, opens>>

\* The last reference to the channel is dropped: PART.  A JOIN that waits in
\* the bucket stays there.
ChannelDestroyed(c) ==
    /\ c \in channels
    /\ channels' = channels \ {c}
    /\ joined' = joined \ {c}
    /\ UNCHANGED <<irc, bucket, losses, connects, opens>>
-----------------------------------------------------------------------------
Next ==
    \/ \E c \in Channel : AddChannel(c) \/ ChannelDestroyed(c)
    \/ Cooldown
    \/ Connect
    \/ Registered
    \/ LinkFails
    \/ GoesSilent
    \/ ReconnectTimer
    \/ PingTick
    \/ \E isPong \in BOOLEAN : MessageReceived(isPong)

Spec == Init /\ [][Next]_vars

\* Timers fire, and an attempt to connect registers or fails.  Nothing is
\* assumed of users and messages.
Fairness ==
    /\ WF_vars(Cooldown)
    /\ WF_vars(ReconnectTimer)
    /\ WF_vars(PingTick)
    /\ WF_vars(Registered \/ (link = "connecting" /\ LinkFails))

FairSpec == Spec /\ Fairness
-----------------------------------------------------------------------------
(* Properties. *)

\* Every variable has its type.
TypeOK ==
    /\ link \in {"closed", "connecting", "connected"}
    /\ silent \in BOOLEAN /\ expectConnectionLoss \in BOOLEAN
    /\ waitingForPong \in BOOLEAN /\ recentlyReceivedMessage \in BOOLEAN
    /\ pingTimer \in BOOLEAN /\ reconnectTimer \in BOOLEAN
    /\ quiet \in 0..2
    /\ channels \subseteq Channel
    /\ budget \in Nat /\ cooldowns \in Nat
    /\ queue \in Seq(Channel)
    /\ joined \subseteq Channel
    /\ losses \in Nat /\ connects \in Nat /\ opens \in Nat

\* No more than JOIN_RATELIMIT_BUDGET JOINs are sent within one cooldown, and no
\* token is lost: every one that is out comes back.
JoinsAreLimited == budget + cooldowns = JOIN_RATELIMIT_BUDGET

\* A JOIN never waits while the bucket has budget, and never for nothing: a
\* cooldown that will take it is running (handleOne()).
JoinWaitsForCooldown == queue # << >> => budget = 0 /\ cooldowns > 0

\* While the connection is up, every open channel is joined on it or waits in
\* the bucket, whenever it was opened, closed and opened again.
OpenChannelsAreJoined ==
    link = "connected" => channels \subseteq joined \cup Entries(queue)

\* No channel stays joined after it is closed, even when it is closed while its
\* JOIN waits in the bucket.
ClosedChannelsAreParted == joined \subseteq channels

\* A connection that is not up comes back: it is being opened, or a timer that
\* will open it runs.  close() and open() never leave it to nobody.
ClosedLinkReconnects == link = "closed" => reconnectTimer

\* A connection that still delivers messages is not given up: the ping timer
\* closes one only after two ticks without any message.
TimesOutOnlyWhenQuiet == [][PingTick /\ link' = "closed" => quiet = 2]_vars

\* A peer that disappeared is noticed, although the socket never says so.
SilenceIsNoticed == silent ~> ~silent

\* Once connections stop breaking, every open channel is joined.
ChannelsGetJoined ==
    \A c \in Channel : c \in channels ~> (c \in joined \/ c \notin channels)

-----------------------------------------------------------------------------
(* What comments and documents say and the code does not do. *)

\* TwitchIrcServer.cpp:515: "put the visible channels first".  After a
\* (re)connect no other channel is joined before a visible one.
VisibleChannelsFirst ==
    [][link # "connected" /\ link' = "connected"
       => \A c \in (channels \cap Visible) \ joined', d \in channels \ Visible :
             /\ d \notin joined'
             /\ \E i \in 1..Len(queue') :
                   queue'[i] = c /\ \A j \in 1..Len(queue') : queue'[j] = d => i < j]_vars
=============================================================================
