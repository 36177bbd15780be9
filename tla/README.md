# A specification of Chatterino's connections and chat

Chatterino (`src/`) is a desktop client for live chat; this fork adds Kick and
YouTube next to Twitch, and *merged* channels that show and write several
platforms at once. Almost all of its state lives in one GUI thread. What is
concurrent is the order of events: socket signals, HTTP answers, timers, other
threads' posted calls and the user interleave freely, and handlers act on state
that an earlier handler left behind. The modules here model that core: the
connections, who is subscribed on them, and which messages a channel shows.

All paths below are relative to the repository's `src/src/`.

## Contents

| module | models | checked by | proved in |
| --- | --- | --- | --- |
| `KickChat` | the shared Kick socket, its registries, every channel's connection state | `MCKickChat` | `KickChat_proofs` |
| `TwitchReadConnection` | the Twitch read connection, reconnects, the JOIN bucket | `MCTwitchReadConnection` | `TwitchReadConnection_proofs` |
| `MergedChannel` | sources, sending and echo recognition of merged channels | `MCMergedChannel` | `Channel_proofs` |
| `LiveUpdates` | the pool of websocket clients behind 7TV and BTTV live updates | `MCLiveUpdates` | `LiveUpdates_proofs` |
| `ChannelHistory` | the messages of a Twitch channel across reconnects | `MCChannelHistory` | `Channel_proofs` |
| `EventSub` | the handles, subscriptions, requests and sessions of Twitch EventSub | `MCEventSub` | `EventSub_proofs` |
| `KickAccounts` | logins of Kick, the refresh of tokens, what is saved, requests that wait | `KickAccounts` | `KickAccounts_proofs` |
| `YouTubeChat` | how a YouTube channel finds, reads and follows broadcasts | `YouTubeChat` | `YouTube_proofs` |
| `YouTubeSends` | the YouTube account and the messages that are sent | `YouTubeSends` | `YouTube_proofs` |
| `YouTubeChannel` | the broadcast that both of them know | through `YouTubeChat`, `YouTubeSends` | `YouTube_proofs` |
| `SocketPromise` | what a websocket promises its owner (abstract) | through `WebSocketConnection` | `WebSocketConnection_proofs` |
| `WebSocketConnection` | one websocket connection, its send queue and its ends | `MCWebSocketConnection` | `WebSocketConnection_proofs` |

Every run is described under *Runs*, every theorem under *Proofs*. A definition
named "Faulty variant" in a module is a plausible slip in the definition after
it; replacing the definition by it makes a property fail.

## Inventory

### Modelled

**Kick chat connection** (`providers/kick/KickChatServer`, `KickWebSocket`,
`KickChannel`). `KickChatServer` owns one Pusher socket and two registries of
weak pointers: `bySlug_`, filled by `getOrCreate()`, and `byChatroom_`, filled
when a channel has resolved its slug over HTTP and subscribes. A `KickChannel`
keeps a connection state (Disconnected, Connecting, Connected, Reconnecting,
Failed), its chatroom id and a count of automatic reconnects.
*Operations*: opening, reopening and closing a split, the user's reconnect, the
answers of the resolve request, two kinds of timers, and the socket's
connected, disconnected, error and message events.
*Hard*: one socket is shared by channels that come and go; `error()` and
`disconnected()` come in either order; answers and timers arrive after the
state they were meant for; weak pointers outlive channels.
*Correct when*: a channel that says Connected is streamed and routed; no channel
is stuck in Connecting or Reconnecting; a slug has one channel; subscriptions
are dropped with their channel.

**Twitch read connection and JOIN bucket** (`providers/irc/IrcConnection2`,
`providers/twitch/TwitchIrcServer`, `util/RatelimitBucket`). An `IrcConnection`
pings when it hears nothing, gives up when no PONG comes, and reconnects after a
delay. On every registration the server sends all open channels through a token
bucket that limits JOINs. *Operations*: `connect()`, channels opened and
closed, the timers of ping, reconnect and bucket, registration, loss, silence,
and messages. *Hard*: an expected loss (`close()`) and an unexpected one look
the same on the wire; names wait in the bucket while their channel is closed and
opened again or the connection is replaced; a PONG races the tick.
*Correct when*: the rate limit holds and no token is lost; every open channel is
joined or queued; no closed channel stays joined; a lost connection always comes
back; a live one is never given up.

**Merged channels** (`channels/MergedChannel`). A list of sources with a signal
connection each, a platform selection for sending, and
`pendingSentMessages_`, the own messages sent to several platforms whose echoes
are recognised by their text for ten seconds. *Operations*: sending, selecting a
platform, adding and removing sources, unmerging, and every message a source
appends. *Hard*: echoes arrive once per platform, late, or never, interleaved
with other users' messages of the same text; a source can go while its messages
are on the way. *Correct when*: an own message is shown exactly once, other
users' messages are not dropped, an unmerged channel is silent.

**Live-update subscriptions** (`providers/liveupdates/BasicPubSubManager`,
`BasicPubSubClient`, used by `providers/seventv/SeventvEventAPI` and
`providers/bttv/BttvLiveUpdates`). A pool of websocket clients, each with at most
`maxSubscriptions`; what has no client waits in `pendingSubscriptions_` for the
next one to open. *Operations*: subscribe, unsubscribe, stop, a client opening or
closing, the backoff timer. *Hard*: clients fail before and after they open,
subscriptions move between them, and one flag, `addingClient_`, decides whether
a client is added. *Correct when*: no client is overfull, nothing is subscribed
twice, and what is wanted is in the end sent.

**Channel history** (`providers/twitch/TwitchChannel`, `common/Channel`,
`messages/LimitedQueue`, `providers/recentmessages`). A bounded buffer of messages;
the recent-messages service fills what was sent before the first join and during
every gap, from `lastConnectedAt_` to the moment of the new JOIN.
*Operations*: live messages, heartbeats, losses and reconnects, the JOIN and
ROOMSTATE of the channel, the answer or failure of a load. *Hard*: loads overlap
with live messages, with what was received before, and with further gaps; the
buffer may be full. *Correct when*: a gap is filled, without doubles, in the
order of the chat, and never at the cost of newer messages.

**Websocket connections** (`common/websockets`). A `WebSocketConnection` runs a
chain of asynchronous operations (resolve, connect to one endpoint after the
other, TLS, handshake, read, read, ...) in the thread of its pool, keeps a queue
of messages of which one is being written, and tells its listener `onOpen`,
messages and `onClose`. Its owner keeps a `WebSocketHandle` with a weak pointer and
sends and closes from another thread, by posting tasks. *Operations*: the tasks,
the completions, `fail()`, `closeImpl()`, `detach()`, `tryShutdown()`. *Hard*:
closing meets every step of connecting, and what it cancels completes all the
same, sometimes with success; a read, a write and a close fail for the same
reason at different times; messages are sent before the connection is open.
*Correct when*: `onClose` comes exactly once and last, whoever closes is told,
messages are written once and in order, and the pool can end.

**Twitch EventSub** (`providers/twitch/eventsub`, `lib/twitch-eventsub-ws`). A
`Controller` counts the `SubscriptionHandle`s of every request, asks Helix to
subscribe it on a connection that is ready, makes a connection when there is none,
retries with a timer, and unsubscribes after the last handle. Its connections are
welcomed, moved to a new session by Twitch, or lost. *Operations*: taking, renewing
and dropping handles, posted calls and retry timers, the answers to requests that
create and delete subscriptions, and the events of sessions. *Hard*: two threads
under one mutex that is not held while Helix answers; a handle dropped and taken
again before an answer; a session lost between request and answer; several
requests that want a connection at once. *Correct when*: references are counted;
what says Subscribed is heard; what is wanted is subscribed or on its way; no more
connections than needed.

**Kick accounts** (`providers/kick/KickAccountManager`, `KickOAuthFlow`,
`KickAccount`, `KickApi`). A login goes through the browser, the exchange of a code
and a look-up of the user; the account then renews its tokens with a refresh token
that Kick takes once, retries transient errors with a delay, and is saved after
every change. Requests that are refused with 401 wait for the renewal.
*Operations*: login, cancel, logout, restart of the program, expiry, renewal and its
failures, calls of the API. *Hard*: several requests refused at once; a retry after an
answer that was lost; the end of the program during a renewal; logins that
overlap. *Correct when*: an account has one refresh at a time; no refresh token is
used twice; what was saved is what is current; whoever waits is told.

**YouTube chat** (`providers/youtube`). A `YouTubeChannel` follows a streamer or a
pinned video: it asks the live page for the broadcast, opens its chat, polls it with
continuations, counts failures, and looks again after the end. `YouTubeAccount` and
`YouTubeApi` keep tokens and post messages to the live chat, whose id they ask for
once. *Operations*: connect, reconnect, the answers and failures of the three kinds of
request, two timers; sending, signing in and out, expiry and renewal. *Hard*: nothing
cancels a request, so answers from before a reconnect meet the state after it;
broadcasts begin and end at any time. *Correct when*: no state is a dead end; no
message of a session is skipped; a streamer is followed; every message is sent or
the user is told.

### How they interact

`TwitchReadConnection` tells each `TwitchChannel` of heartbeats, losses and joins;
that is the connection `ChannelHistory` sees as its environment. Twitch, Kick and
YouTube channels are sources of a `MergedChannel` through their
`messageAppended` signal. `TwitchChannel` subscribes its live updates when its
room id or its emote set changes. The websocket clients of the pool run in a thread of their
own and post their events to the GUI thread: what `LiveUpdates` takes from them, an
open event at most once and then one close event, is what `SocketPromise` says and
`WebSocketConnection` implements. `EventSub` has websocket sessions of its own.
`KickChat` makes one request of `KickApi`, which needs no account; `KickAccounts`
has those that do. `YouTubeSends` takes from `YouTubeChat` the broadcast that is read.

### Not modelled

| component | why |
| --- | --- |
| Replacing and timing out messages (`Channel::replaceMessage`, `util/ChannelHelpers.hpp`) | remains in the plan as `ChannelMessages` |
| Twitch PubSub (`PubSubManager`, `PubSubClient`) | remains in the plan as a second client of the pool in `LiveUpdates` |
| Live status and notifications (`controllers/twitch/LiveController`, `controllers/notifications`) | remains in the plan |
| 7TV cosmetics and personal emotes | tables updated by single messages under a lock |
| Network requests (`common/network`), image cache (`messages/Image`), streamer mode, settings models (`SignalVectorModel`) | candidates for small modules; each has a little state of its own and no part in the connections |
| Commands, filters, highlights, ignores | pure functions of a message and the settings, over free text |
| Plugins | runs Lua code; its own state is a table of loaded plugins |
| Message building and layout, windows, splits, dialogs | text processing and drawing; the dialogs' calls are the user requests of the modelled components |
| Chat logs, updates, crash handling, native messaging | file and process I/O |
| Message handlers of `KickChannel` and `TwitchChannel` (emotes, room modes, moderation) | each is one assignment to state that no other handler relies on |
| EventSub: what notifications do; `setQuitting()` | the first builds messages; the second ends the program |
| Kick: rate limits of the API, the local web server of the login, delays of the keychain, destroyed account objects | the first refuses a request at once; the second is a local form of the browser's answer; the third is taken to happen in order; the last is undefined behaviour of the code, listed as a hazard |
| YouTube: deleted messages, the registry of channels, `disconnect()` | drawing; a table that only `getOrCreate()` touches; nothing calls it |
| The Twitch write connection and its message queue | the same `IrcConnection` without channels |

Most of the code is not of a kind a state machine says much about: of some 155,000
lines of implementation, by far the larger part are widgets, dialogs, settings
pages, message building, wrappers of each Helix request, and generated parsers of
payloads. The modules cover the parts in which events of several actors meet.

## How the modules correspond to the code

In every module an action is one handler run to its end in its thread (the GUI
thread, or the pool's in `WebSocketConnection`), with all it calls; what another object of the same thread does synchronously is part of
it. Variables have the members' names. Variables marked *history* record what a
property speaks of and guard nothing; those marked *bound* only keep the state
space finite.

**KickChat.** `chan[c]` is one `KickChannel` object: its life, `state`, whether
`chatroomId_` is set, `reconnectAttempts_`, and how many answers, retry timers
and reconnect timers are due. `bySlug` and `byChatroom` are the registries; an
entry whose channel is dead stands for an expired weak pointer. `socket` is the
`KickWebSocket` and `serverSubs` what the Pusher server streams (external).
`CreateChannel` is `getOrCreate()`, `setApi()` when an account is logged in and
`connect()`, as the dialogs call them; `DestroyChannel` is the destructor, whose
`leave()` finds no weak pointer that locks. `ConnectionLost` runs the handlers
of `error()` and `disconnected()` in both orders, or of `disconnected()` alone.
`open()` on a `QWebSocket` that is opening or closing discards the old transport
without its signals; that is external and taken from the library's behaviour.

**TwitchReadConnection.** `link`, the flags and timers are the members of
`IrcConnection`; `budget`, `queue`, `cooldowns` those of `RatelimitBucket`;
`Send` is a sequence of its `send()` calls. `joined` is what Twitch has on this
connection. Closing a Communi connection emits its status change at once; a JOIN
sent while it is not up is lost; an `open()` on a connection under way does
nothing to its socket (all external). `GoesSilent` is a peer that disappears
without the socket noticing.

**MergedChannel.** A message carries the id of the send it echoes (`None` for
other users), which the code cannot see and the properties need. `Deliver` runs
`onSourceMessageReceived()` once per signal connection. Time is in steps of the
echo window: `Window = 1` step is the ten seconds. A merge starts with two
sources, as the dialogs make it. `others` and `removed` are histories: of each message
of another user, whether the user sent its text shortly before and whether its source
was in the merge, or had been removed from it, when it came. `UnrelatedMessagesShown`
counts: one that repeats nothing is shown exactly once by a merge that has its source,
and by a merge that never had it not at all. A source that was removed keeps its
connection, and has two when it is added again, so its messages are shown at least once
while it is in the merge, and nothing is said of them while it is not
(`RemovedIsSilent` below).

**LiveUpdates.** A client is `[open, subs]`; the functions of the manager are
operators on the pool as one record, or on the set of possible pools where the
code iterates over an unordered map. `missed` are the subscriptions that waited when a
client turned out full and that it did not take. The websockets are external: `Opened` at most
once and `Closed` once per client, in that order.

**ChannelHistory.** A message is its place in the chat, which also orders the
server's times; `clock` is the last one. `request` is the load that
`loadingRecentMessages_` says is running. `PushFront`, `InsertBefore` and
`PushBack` are the queue's functions with the overwriting of
`boost::circular_buffer`. The chat, the connection and the service, which
delivers the newest messages of what it is asked for or fails, are external. When
a peer disappears without a sign (`GoesSilent`), the heartbeat notes a time at which
messages are missed already (listed as a hazard); `late` collects them.
`Filled` is the loop of `fillInMissingMessages()`, a function of the round.
`loadTwitchMessageHistoryOnConnect` is on; that the number asked for also
depends on the length of the gap is folded into `historyLimit`.

**EventSub.** `subs[r]` is the entry of `subscriptions` (`listed` when there is one),
`sessions` the connections in the order they were made, one position per websocket
session; a position whose listener has gone is `Dead`. A subscription id names the
session id it was made for. `tasks` is what is posted to the `io_context`, `retry`
and `subscribe` by callbacks, `timer` by a timer whose wait is over;
`resubscribe` is the rest of the loop in `reconnectConnection()`, which runs in the
controller's thread with the mutex free between its calls, so that handles and
answers interleave. `creating` and `deleting` are the Helix requests under way.
All handles that exist at a time are of one user, as `refreshPubSub()` makes them
for the current account; `Owner` tells the requests of different users apart.
Sessions end (`SessionLost`) by an error, by Twitch or by `checkKeepalive()`.
Twitch is external: a request succeeds only for a session that is there, and
Twitch forgets a session's subscriptions with it.

**KickAccounts.** `accounts` are the account objects made so far, which channels may
go on to use after a logout; `current` is `currentUser_`. A grant is what one login
gives, and stands for its user too; `Tokens` are a grant and how often it was
renewed, so that two pairs of tokens differ as Kick's do. `kick[g]` is how far Kick
is (external): it renews for the newest pair only, and its answer may name no new refresh
token, which leaves the old one in use. `bare` are the logins for which Kick gave no
refresh token: `refreshAccessToken()` fails at once for their accounts. `refreshes` are the requests and
retry timers of `doRefreshAccessToken()`. `saved` is what settings and keychain hold,
`Restart` loads it and forgets everything else; an answer that was due is lost.
`AnswerLost` is an error after which Kick may or may not have renewed.

**YouTubeChat.** `videoId`, `session`, `failures` and the timers are the members;
`resolving`, `opening` and `polls` count the requests under way, which nothing
cancels. A poll request knows whether the chat was on air when it was asked: its answer
may be made at any time before it is handled, so it may succeed after the end and hold
messages up to any place of the chat. The content of a chat page is that of the moment
it is handled. A continuation is a chat and the place it goes on from; a new session
replays `Backlog` messages. Broadcasts are numbered; `Stray` is a video of somebody
else that the page of a streamer who is not live may name, when `StrayOnAir`.

**YouTubeSends.** Each message of `sends` is at one of the requests it needs:
`refresh` of the tokens, `find` the live chat, `post`; `watched` is the broadcast
that was read when it was written, and the chat that is found is the one of that
broadcast, which may still be active when the channel has gone on. `consent` says whether Google still takes the
refresh token (external). `NextBroadcast` stands for what `YouTubeChat` does to
`videoId_`.

**WebSocketConnection.** `conn` holds the members of the connection and what it has
under way: `op` is the operation of the chain whose completion is due, `isSending`
and `closeOp` stand for `async_write` and `async_close`. `posted` is the queue of
tasks of the pool's thread; `Post` posts one when the weak pointer of the handle
can be locked, which `Alive` says. The messages are numbered in the order of the
calls of `sendText()`; `Enqueue` takes the oldest that is still posted, whatever was
queued and written before, so a message lost or moved on the way shows as a wrong
number. `Become` makes the connection what the
handler's functions return and calls `onClose` if one of them detached it.
`OnTcpHandshake` with an error tries the next endpoint also while the connection
closes, as the code does; a handshake that succeeds after that is dropped.
Asio and Beast are external: an operation completes once, with success or an
error, also after it was cancelled; `async_close` on a stream that never opened
ends at once with an error. `SocketPromise` has the three histories alone; the
refinement maps `asked` to `sent`.

## Runs

`CHECK_DEADLOCK FALSE` is set in every configuration: the bounds stop each model,
and an idle program with no split open really does nothing.

### Passing

| run | instance | what it shows |
| --- | --- | --- |
| `KickChat_sockets` | two objects of one slug and one of another, one request, socket and timer of each under way, nobody logged in, with and without the Kick integration | `ConnectedIsSubscribed`, `ReconnectingHasTimer`, `ConnectingHasCause`: channels that share the socket never lose it unawares, also when a slug is closed and opened again so that expired pointers are met; `TypeOK` bounds the automatic reconnects |
| `KickChat_live` | two channels under fairness | `AttemptsEnd`: neither Connecting nor Reconnecting lasts |
| `MergedChannel_echo` | two platforms that come and go, two sends of one text, a message of another user, time for an entry to expire | `OwnMessageShownOnce`, `UnrelatedMessagesShown`, `SuppressedTextWasShown` |
| `LiveUpdates_sent` | three subscriptions, clients that hold two, two broken connections, one subscription given back, stop, under fairness | `TypeOK` (no client overfull), `SubscribedOnce`, `WantedIsOnItsWay`, `WantedIsSent` |
| `TwitchReadConnection_joins` | three channels, one visible, two tokens, two losses, under fairness | `JoinsAreLimited`, `OpenChannelsAreJoined`, `ClosedChannelsAreParted`, `ClosedLinkReconnects`, `TimesOutOnlyWhenQuiet`; `SilenceIsNoticed`, `ChannelsGetJoined` |
| `WebSocketConnection_ends` | one connection with and without TLS, two endpoints, three messages to send and two to read, two calls of `close()`, the handle dropped, the pool shut down | `Implements` (it refines `SocketPromise`), `NeverAsserts`, `CloseIsTold`, `SendsAreWritten` |
| `ChannelHistory_gaps` | four messages, three losses, a scrollback of seven with system messages | `GapsAreFilled`, `InOrder` (and without doubles), `NewestAreKept` |
| `EventSub_handles` | one request of each of two users, two sessions that end or move, one failure of Helix, three handles, under fairness | `HandlesAreCounted`, `SubscribedIsHeard`, `WantedIsPursued`, `OneConnectionAtATime`; `WantedIsSubscribed` |
| `YouTubeChat_follows` | a streamer with two broadcasts or a pinned video, two messages each of which one is replayed, two failures of which the second is the last in a row, two calls of `connect()` or `reconnect()`, under fairness | `NeverStuck`, `NothingSkipped`; `FollowsTheStreamer` |
| `YouTubeSends_end` | two messages, two broadcasts, two logins at once, expiry, sign-out and revocation at any time, under fairness | `RefreshTokenIsKept`; `EveryMessageEnds` |
| `KickAccounts_tokens` | two logins, two requests, two renewals of each grant, one retry, three lost answers or errors, one restart, under fairness | `WaitersHaveOneRefresh`, `RefreshTokensAreUsedOnce`, `SavedIsCurrent`; `WaitingEnds` |

A `TypeOK` is an invariant of a run where it says more than types, as above.
Elsewhere it is proved with the inductive invariants (*Proofs*) and is no run's.

Some properties except what the code gives up knowingly or what a disagreement
below explains, and say so: `WantedIsOnItsWay` and `WantedIsSent` leave out the
subscriptions in `missed`, which waited when `onConnectionOpen()` met a full client
and which that client did not take; `OwnMessageShownOnce` speaks of messages sent to several platforms and of the
echo window; `InOrder` excepts the first load where it repeats live messages, since it
is put in front of whatever arrived; `GapsAreFilled` leaves out what the service did
not deliver (`excused`), the gaps that found a load running (`skipped`) and what was sent
between the disappearance of the peer and the heartbeat after it (`late`); `WantedIsPursued` and `WantedIsSubscribed` leave out
`givenUp`, requests whose pursuit ends without a word (a Forbidden answer, a session
that ended before the answer, a retry cancelled with the last handle);
`RefreshTokensAreUsedOnce` leaves out grants whose answer was lost, where nothing else
can be done; `SavedIsCurrent` speaks of logins, logouts and renewals that do not
overlap.

### Disagreements between the code and what is said of it

One run checks a statement of a comment and ends in a counterexample of what the
code does.

| run | statement | what happens |
| --- | --- | --- |
| `KickAccounts_expired` | "Check if token needs refresh" (`KickApi.cpp:317`), `ExpiredTokensAreRenewed` | the check comes after `isAuthenticated()`, which an expired token fails: a message is refused although the tokens could be renewed |

The modules state more of what comments and documents say, in a section of their
own before the end. TLC refutes each of these on a small instance; no run is kept
for them.

| definition | statement | what happens |
| --- | --- | --- |
| `KickChat!OneChannelPerSlug` | one `KickChannel` per slug (`KickChatServer.hpp:19`) | `leave()` of a channel that only reconnects frees its slug for a second object |
| `KickChat!ReconnectingRetries` | an error leads to a retry (`data-model.md:106, 112`) | the `disconnected()` that follows `error()` makes the retry timer do nothing |
| `KickChat!EveryChannelReannounces` | every channel re-announces on a fresh socket (`KickChatServer.cpp:154`) | a reconnected channel is not in `bySlug_` any more and is not told |
| `KickChat!ConnectLeadsSomewhere` (with `LoginModes = {TRUE}`, under `FairSpec`) | `connect()` ends in Connected (`data-model.md:103`) | `setApi()` after `connect()` destroys the object that waits for the answer |
| `KickChat!SubscriptionsAreHeld` | `leave()` drops the subscription (`KickChatServer.hpp:48`) | called from the destructor it finds no weak pointer to lock |
| `KickChat!DropsOnlyAnIdleConnection` | the connection is dropped when nothing listens (`KickChatServer.cpp:114`) | it is dropped under a channel that still waits for its chatroom |
| `MergedChannel!OwnMessageDisplayed` | an own message is displayed (`spec.md` FR-019) | the same text sent twice is shown once |
| `MergedChannel!OnlyEchoesSuppressed` | only own messages are duplicates (`MergedChannel.cpp:341`) | another user's equal text is dropped |
| `MergedChannel!Chronological` (with `MaxDelay = 1`) | messages are added chronologically (`MergedChannel.cpp:469`) | they are appended as they arrive |
| `MergedChannel!BothBadgeMeansEveryPlatform` | the combined badge means every platform (`MergedChannel.hpp:98`) | it is given whatever the message was sent to |
| `MergedChannel!RemovedIsSilent` | a source can be removed (`MergedChannel.hpp:53`) | its connection stays |
| `LiveUpdates!SubscribesWhatIsAsked` | `subscribeUser()` subscribes (`SeventvEventAPI.hpp:46`) | more pending subscriptions than a client holds: one is popped and lost |
| `LiveUpdates!UnsubscribesWhatIsAsked` | `unsubscribeUser()` unsubscribes (`SeventvEventAPI.hpp:62`) | a pending subscription is not looked for and is made later |
| `TwitchReadConnection!VisibleChannelsFirst` | visible channels first (`TwitchIrcServer.cpp:515`) | names that wait from the connection before go first |
| `ChannelHistory!MissedMessagesAreLoaded` | missed messages are loaded (`CHANGELOG.md:883`) | a gap that ends during a load is never asked for |
| `EventSub!HandlesArePursued` | `subscribe()` adds the subscription or queues it to run again (`Controller.hpp:42`) | dropping the last handle cancels the retry and leaves the entry Retrying, which a later handle takes for a retry under way |
| `EventSub!MarkedOnlyWhileSubscribing` | a subscription is marked from Subscribing or Retrying (`Controller.cpp:732`) | a second answer, or one after the handle was dropped, marks it from other states |
| `EventSub!OneUserPerConnection` | another user's subscription on a connection is asserted not to happen (`Connection.cpp:423`) | requests of both users may be under way before the first is marked |
| `EventSub!UnwantedIsGivenUp` | we unsubscribe after all references were released (`Controller.hpp:122`) | an answer that comes after the last handle was dropped leaves the subscription with Twitch |
| `KickAccounts!EveryCallIsAnswered` (under `FairSpec`) | the callback is called with the result (`KickApi.hpp:129`) | `refreshAndRetry()` forgets it when the tokens cannot be renewed |
| `KickAccounts!LoggedOutStaysOut` | saved credentials are cleared (`KickAccount.hpp:56`) | a renewal that ends after the logout saves them again |
| `KickAccounts!TokensAreTheUsers` | the tokens are kept while the user is asked for (`KickAccountManager.cpp:151`) | a second login meanwhile overwrites `pendingTokens_` |
| `YouTubeChat!FollowsTheStreamer` (with `StrayOnAir = TRUE`) | a handle follows the streamer (`YouTubeChannel.hpp:36`) | a page of a streamer who is not live may name another video, whose chat is opened and kept |
| `YouTubeSends!SendsFollowTheStreamer` | the same | `liveChatId_` is never cleared: messages go to the chat of the broadcast before |
| `YouTubeSends!SignedOutStaysSignedOut` | "Sign out" (`PlatformsPage.cpp:219`) | the answer to a renewal gives tokens after the sign-out |

### Bounds

`MaxUserActions`, `MaxInFlight`, `MaxLosses`, `MaxConnects`, `MaxOpens`,
`MaxCloses`, `MaxUnsubscribes`, `MaxMessages`, `MaxSends`, `MaxReads`, `MaxOthers`
`MaxTime`, `MaxSessions`, `MaxErrors`, `MaxAsks`, `MaxBroadcasts`, `MaxGrants`,
`MaxRenewals` and `MaxRestarts` bound how often the environment does something, `MaxEndpoints` what a
host resolves to, `MaxDelay` how late a message may be. The hazards need few
repetitions: one event that leaves state behind and one that meets it. Two channels
are enough to disturb each other on a shared socket, and three objects to have an
expired entry beside a live neighbour. Two tokens and three channels fill the
bucket, so that names wait across a reconnect. Three subscriptions with two places
per client need two clients, and each can break while the other connects. Three
messages are one written, one behind it and one posted; two endpoints are one to
fail and one to go on to. Four messages and three losses allow a gap before,
during and after a load; with their system messages they fill a scrollback of seven. One step more
than `Window` lets a pending echo expire, and two sends of one text let the
search meet an expired and a fresh entry; texts that differ do not meet in the code.
In `EventSub` two sessions that end allow one to end before and one after an answer,
and three handles allow one to be dropped and taken again beside another; five sessions
are more than two losses and the requests need, so that bound is not met. In
`YouTubeChat` two broadcasts are one to end and one to find, and two failures one that
is retried and one that gives up; `Backlog = 1` of two messages lets a session begin
behind the first. In `KickAccounts` two grants let a login meet another, three errors
are a lost answer, its retry and one more.
`MayRemove`, `MayStop`, `StrayOnAir`, `LoginModes`, `EnabledModes` and `TlsModes` switch
behaviour on and off. `LoginModes = {FALSE}` in the passing Kick runs because
`ConnectingHasCause` and `AttemptsEnd` fail with an account logged in
(`ConnectLeadsSomewhere` above); the invariants that are proved hold with both.

### Fairness

Weak fairness only, and none for users, messages or failures.

- *KickChat*: `QTimer::singleShot` fires; a request is answered or fails (the
  request has no timeout in the code, so this rests on the network stack); an
  attempt to open or close the socket ends.
- *TwitchReadConnection*: the timers of bucket, reconnect and ping fire; an attempt
  to connect registers or fails. The code has no timeout for a connection that
  TCP accepts and that never registers; this is listed as a hazard.
- *LiveUpdates*: the attempts to connect settle (the websocket connection has timeouts for
  connect and handshake), backoff timers fire.
- *EventSub*: the `io_context` runs what is posted and its timers; Helix answers or the
  request fails; a session that is not lost is welcomed (Twitch closes it otherwise,
  which is a loss).
- *YouTubeChat*, *YouTubeSends*, *KickAccounts*: timers fire, and a request is answered
  or fails. The polls of YouTube have no timeout in the code, so this rests on the
  network stack. `FollowsTheStreamer` speaks of a streamer who stays on air in the end.
- *WebSocketConnection*: the thread of the pool runs what is posted; resolving ends;
  connecting and TLS end by `expires_after` of 30 seconds, the handshake and
  `async_close` by Beast's suggested timeouts; TCP takes a message or fails; a read
  on a stream that is closed ends. No fairness for the peer or the owner.

Failures are bounded, so the liveness properties read: once connections stop
breaking, the state is reached.

## Proofs

The theorems hold for every value of the constants that satisfies `KickAssumption`,
`ConnectionAssumption`, `MergedAssumption`, `LiveUpdatesAssumption`, `SocketAssumption`,
`HistoryAssumption`, `EventSubAssumption`, `YouTubeAssumption`, `SendsAssumption` or
`AccountsAssumption`; the runs evaluate these assumptions on their instances. Every
invariant and every property of steps that a run checks has a theorem, and so has the
refinement.

Loops of the code are recursive functions of the round (`Filled`, `Taken`, `Recent`,
`Handled`).
What they compute is proved by induction over the rounds: `Least` gives a set of
numbers a least element, from the order of finite sets by inclusion, and `Induction`
follows from it. That such a function exists is shown by building it round by round
(`FilledRound`, `TakenRound`).

**KickChat_proofs.** `TypeCorrect`, `ConnectedChannelsAreSubscribed` and
`ReconnectIsScheduled` follow from one inductive invariant, `Inv`. Of itself
`ConnectedIsSubscribed` is not inductive:

- `RegistriesFit`: when a channel leaves, only the room of its own slug is given up;
  this needs every entry to belong to its slug.
- `DoubledRecorded`: two live objects of one slug may take the room from each
  other; the property excepts slugs that had them, so the invariant says that
  `doubled` knows them all.
- `ReconnectingHasTimer` is inductive with the type: the timer is started in the
  step that sets the state, and its own firing leaves it.

The records' updates are lemmas of their own (`ErrorEffect`, `ConnectEffect`,
...), stated for a record without the model's bounds (`LooseRecord`); there is a
lemma per action, and `NextInv` puts them together.

`ConnectingIsCaused` (`ConnectingHasCause`) has the further assumption `NobodyLogsIn`
on `LoginModes`: with an account logged in, `setApi()` drops the answer a channel waits for and the
statement is false. The property is inductive beside `Inv`: `ConnectIsCaused` says that
`connect()` asks for the chatroom or opens the socket, `SocketStaysBusy` that
no other channel takes a socket out of opening or closing unnoticed, and `SocketCaused`
that every event of the socket reaches all registered channels.

**TwitchReadConnection_proofs.** `Inv` is the conjunction of all safety invariants
with two more: `ExpectsNoLoss` (only a closed connection expects its loss, without
which a failure might start no timer, so `ClosedLinkReconnects` would not be
inductive) and `FlagsTellQuiet` (the two flags of the ping timer tell how many
ticks passed without a message), from which `TimeoutMeansQuiet`, a property of
steps, follows. `SendEffect` says what a sequence of `send()` does to the bucket:
tokens are kept, nothing waits while there is budget, and every name is sent or
queued. `OrdersCoverChannels` says that an order of the channels names each.

**WebSocketConnection_proofs.** `AssertionsHold` (`NeverAsserts`) and `KeepsPromise`
(the refinement of `SocketPromise`) follow from `IInv`, one named part per idea:

- `HasCause` and `ClosingEnds`: a connection that has a listener is being run or
  closed, and a closing one has its `async_close`; with them nothing is left
  behind. `RunIsFirst` gives the first step: until `run()` the connection is new.
- `CallsFit`: `onClose` was called last if and only if the listener is gone, so a
  second `detach()` is silent; no call comes before the handshake is done.
- `SendingFront`, `ChainIsClosed`, `QueueContinues`, `CountsFit`, `CountsExact`: what
  is being written is the front of the queue, the queue continues what was written
  unless nothing will be written any more, no more is written, queued and posted
  than was sent, and no less while there is a listener or something may be written:
  the number of the next message is then the one the queue needs. The count of posted messages is a cardinality, with lemmas for
  a task that is appended or taken (`SendTasksAppend`, `SendTasksTail`).

`BecomeStep` says what the record that a handler makes must satisfy, `QuietStep`
specialises it to completions that touch no message; there is a lemma per action.
`StepPromises` maps every step to a step of `SocketPromise` or to a stutter.

**EventSub_proofs.** `CountsAreRight`, `SubscribedHeard` and `ConnectsOnce` follow from
`Inv`, `WantedPursued` from `Inv` and `Pursued`:

- `SubscribedAreHeard` is `SubscribedIsHeard` for every request: a handle may be
  taken again of an entry that nobody held.
- `Connections`: at most one connection is not ready, stated without counting; a
  session has its own id or that of a dead one it took over (`IdsFit`), and no two have
  the same (`IdsDiffer`), so that losing a session takes nothing from another.
- `RequestsHaveSession`: a request that is answered late names a session that was
  ready, so what it marks on a live one has an id.
- `Pursued` is `WantedIsPursued` for every request, held or not, for the same reason as
  the first; one that nobody holds may also say Unsubscribed.

`Continued` and `Kept` say of two states what no step undoes in the connections; there
is a lemma for each way in which the sessions change, and one per action.

**LiveUpdates_proofs.** `TypeCorrect`, `InOnePlace` and `WantedIsNotForgotten` follow
from `Inv`, of the pool as one value:

- `PoolOK`: a manager that says it adds a client has one that connects; otherwise
  `addClient()` would be a call that does nothing, and what waits would wait for ever.
- `OnItsWay` is `WantedIsOnItsWay`: what waits has a client that connects, or a backoff
  timer that will make one. It leaves out `missed`, as the property does.
- `Placed`: before the first `unsubscribe()` a subscription is in one place (`Once`, which
  is `SubscribedOnce` without counting), and only what is wanted is anywhere; without
  the second part a new subscription could meet an old copy of itself.

`Served` says what a loop over the subscriptions of a broken client does in whatever
order (`ServedOneMore` is its round), `TakenOK` what the loop of `onConnectionOpen()`
has moved from the queue to the client after each round.

**Channel_proofs**, of `MergedChannel`. `TypeCorrect`, `ShownAtMostOnce`, `NothingLost` and
`OthersAreHeard` follow from `Inv`. Its part `Good` speaks of the pending entries, what
was shown and dropped, what was sent, and the time:

- `PendingIsSent`, `PendingOnce` and `Tracked`: the entries are messages sent to several
  platforms, one each, and none is given up within the window: `Recent`, the pruning of
  `sendMessage()`, uses the same window as the search.
- `ReceivedWasShown` and `ShownIsCounted` tie `received` to what was shown, both ways: a
  dropped message has one like it that was shown, and a second echo finds it counted.
- `ConnectionsOK` and `OthersShown`: a source that was never removed has one connection
  while it is in the merge and none otherwise, a source in the merge has one at least; the
  rest is `UnrelatedMessagesShown` without counting, of the messages that came so far.
- `ShownOnce` is `OwnMessageShownOnce` without a cardinality, `Explained` is
  `SuppressedTextWasShown`.

`Handled` runs once per signal connection of the source, so each part is kept by one
round, and by any number of them.

**Channel_proofs**, of `ChannelHistory`. `GapsFilled` and `OrderKept` follow from
`HistoryInv`, and `NewestKept` from what it says of a load (`LoadedQueue`):

- `Queue`, of the messages alone: what the first load brought comes first and the rest
  follows the chat (`Sorted`, `FirstsLead`); what is left of the first load has no hole
  (`FirstsTogether`), and while there is space all of it is left, which is either all
  there was or `historyLimit` messages (`FirstsComplete`); no reload repeats it (`NoTwin`).
  The last three are needed since `fillInMissingMessages()` looks for the first message
  that is later, and would otherwise insert between those of the first load.
- `RequestKept`: the first load meets nothing that a load brought; a later one asks for
  what was sent, and not for less than the first load reaches.
- `LinkKept`: the flags and the time of the channel fit the connection.
- `GapsKept` is `GapsAreFilled` in every state: a message that is not there is excepted,
  in the range asked for, or later than `lastConnectedAt_` on a channel that is not
  joined, so that the next load asks for it.

`Filling` is the invariant of the loop that fills in: the snapshot loses its oldest
messages only, and what is not there is older than what was added. It holds although a
full buffer overwrites its first item in the middle of the loop; `CanFill` says what
this needs of the load: what it adds is later than all of the first load, or there is no
space and it is earlier than all that is left of it (`NotBeforeFirsts`).

**YouTube_proofs**, of `YouTubeChat`. `ChannelNeverStuck` and `ChannelSkipsNothing` follow from `Inv`,
for every number of broadcasts, messages and failures. `PollsContinue` says of every
poll under way, those of older sessions included, what `NothingSkipped` says of the
session: any of them may become the session by its answer, however much of the chat that
answer holds. `SessionsMoveOn` says that a
new session does not begin before the last one of its broadcast, so that `start` only
shrinks the range. `LiveIsNumbered`, `PollingHasSession` and `FailuresFit` are what
the guards need.

**YouTube_proofs**, of `YouTubeSends`. `RefreshTokenKept` is a property of steps and needs the type
alone.

**KickAccounts_proofs.** `OneRefresh`, `TokensUsedOnce` and `SavedCurrent` follow from
`Inv`:

- `Refreshes`: a refresh is of an account whose flag is set and carries the tokens
  that account has (`RefreshesFit`), no account has two (`OneEach`), no flag is set
  without one (`FlagIsTrue`), and who sent a request had tokens (`RequestsFit`), which
  is what a refresh needs. `WaitersHaveOneRefresh` counts; these four do not.
- `Holders`: no two accounts have tokens of one grant (`HeldOnce`), and all tokens that
  are held or saved are the newest of their grant unless an answer was lost
  (`AllAreNewest`). The tokens of a login whose user is asked for are nobody's yet
  (`PendingIsNew`), without which two accounts could come to hold the same.
- `InTurn`: while nothing overlapped, only the current account refreshes, only the
  pending login looks up its user, and no account is without tokens; with it
  `SavedIsCurrent` is kept by renewals and restarts.

`OneEnds` and `OthersStay` say what is left of a sequence that is cut in the middle;
`HoldersStay`, `HoldersRenewed` and `TurnsStay` carry the parts of the invariant over
the steps that do not concern them.

### Only model-checked

Liveness, which is out of the prover's reach: `AttemptsEnd`, `WantedIsSent`,
`SilenceIsNoticed`, `ChannelsGetJoined`, `CloseIsTold`, `SendsAreWritten`,
`WantedIsSubscribed`, `FollowsTheStreamer`, `EveryMessageEnds` and `WaitingEnds`. What they
rest on is proved where it is safety: that every state which promises something has a
timer, a request or a place in a queue (`ReconnectIsScheduled`, `ConnectingIsCaused`,
`WantedIsNotForgotten`, `WantedPursued`, `ChannelNeverStuck`).
`DropsOnlyAnIdleConnection` and the other statements under *Disagreements* are
false and have no theorem.

## Hazards without a property

Some hazards of the code have no property, since what they would say is a
disagreement above, outside the models' reach, or a matter of time: no PONG of the Kick
socket is waited for (`KickWebSocket.cpp:208`); a Twitch connection that never
registers is not noticed (`IrcConnection2.cpp:32`); a poll of YouTube has no timeout
(`YouTubeInnerTube.cpp:615`); a message is replaced by a position found before others
were dropped (`Channel.cpp:320`); a message that fills a gap is not told to the merged
channel (`MergedChannel.cpp:330`), and sources deliver with different delays
(`MergedChannel.cpp:471`); the first load may repeat what arrived live
(`TwitchChannel.cpp:1448`).

## Plan

Done: the modules above, with the most shared and most interleaved state first. What
is left, in this order:

1. The pool of websocket connections: several connections, the thread that ends when
   the last of them has nothing under way, the pool that is leaked after a second.
2. An abstract specification of a subscription service (asked for, sent, given
   back) that `LiveUpdates` implements while subscriptions fit one client, and `EventSub`
   while nothing is given up; the PubSub client with its nonces and pongs.
3. `ChannelMessages`: replacing, timing out and removing messages.
4. Live status and notifications; network requests and their cache.
5. A composition of `TwitchReadConnection` with `ChannelHistory`.
