--------------------------- MODULE ChannelHistory ---------------------------
(***************************************************************************)
(* The messages of one TwitchChannel across the connections of the read    *)
(* connection: messages_ is a LimitedQueue that live messages are pushed   *)
(* to; what was sent before the first join and while the channel was not   *)
(* joined is loaded from the recent-messages service and put in its place. *)
(* The state lastConnectedAt_, disconnected_ and loadingRecentMessages_    *)
(* decides which messages are asked for.                                   *)
(*                                                                         *)
(* Everything runs in the GUI thread; the service answers late.  The chat, *)
(* the connection and the service are external.  A message is named by its *)
(* place in the chat, which also stands for its serverReceivedTime: clock  *)
(* is the last one.  The setting loadTwitchMessageHistoryOnConnect is on.  *)
(***************************************************************************)
EXTENDS Naturals, Sequences, FiniteSets

CONSTANTS
    scrollbackSplitLimit,   \* the limit of messages_
    historyLimit,           \* twitchMessageHistoryLimit, and the 10 per second
    MaxMessages,            \* bound: messages sent in the chat
    MaxLosses               \* bound: connections that end

ASSUME HistoryAssumption ==
    /\ {scrollbackSplitLimit, historyLimit} \subseteq Nat \ {0}
    /\ {MaxMessages, MaxLosses} \subseteq Nat

VARIABLES
    clock,             \* external: messages sent in the chat so far
    link,              \* "down"; "up"; "joined"; "silent": the peer is gone
    heard,             \* recentlyReceivedMessage_ of a connection gone silent
    roomKnown,         \* roomID_ is set
    disconnected,      \* disconnected_
    lastConnectedAt,   \* lastConnectedAt_
    request,           \* what loadingRecentMessages_ stands for
    messages,          \* messages_, oldest first
    since,             \* history: clock when the room became known
    excused,           \* history: messages the service did not deliver
    skipped,           \* history: messages of gaps that found a load running
    gone,              \* history: clock when the peer last disappeared
    late,              \* history: messages sent after that, before a heartbeat
    losses             \* bound: connections that ended so far

channel == <<roomKnown, disconnected, lastConnectedAt, request>>
history == <<since, excused, skipped, gone, late>>
historyVars == <<clock, link, heard, channel, messages, history, losses>>

\* No time, and no request
Never == [time |-> 0, set |-> FALSE]
At(time) == [time |-> time, set |-> TRUE]
Idle == [kind |-> "none", after |-> 0, before |-> 0]

\* System messages have no id; the others are named by their place in the chat.
SystemMessage(kind) == [id |-> 0, from |-> kind]
ChatMessage(n, from) == [id |-> n, from |-> from]

HistoryInit ==
    /\ clock = 0
    /\ link = "down"
    /\ heard = FALSE
    /\ roomKnown = FALSE
    /\ disconnected = FALSE
    /\ lastConnectedAt = Never
    /\ request = Idle
    /\ messages = << >>
    /\ since = 0 /\ excused = {} /\ skipped = {}
    /\ gone = 0 /\ late = {}
    /\ losses = 0
-----------------------------------------------------------------------------
(* LimitedQueue. *)

Space(queue) == scrollbackSplitLimit - Len(queue)

PushBack(queue, m) ==
    IF Space(queue) > 0 THEN Append(queue, m) ELSE Append(Tail(queue), m)

\* Faulty variant: the oldest of the items are pushed.
PushFrontOldest(queue, items) ==
    IF Len(items) <= Space(queue) THEN items \o queue
    ELSE SubSeq(items, 1, Space(queue)) \o queue

\* The newest of the items that fit
PushFront(queue, items) ==
    IF Len(items) <= Space(queue) THEN items \o queue
    ELSE SubSeq(items, Len(items) - Space(queue) + 1, Len(items)) \o queue

\* m in front of what is at place i
Inserted(queue, i, m) ==
    [k \in 1..(Len(queue) + 1) |->
        IF k < i THEN queue[k] ELSE IF k = i THEN m ELSE queue[k - 1]]

\* insertBefore(): a full circular buffer overwrites its first item, and does
\* not insert in front of it.
InsertBefore(queue, needle, m) ==
    LET found == {i \in 1..Len(queue) : queue[i] = needle}
        i == CHOOSE j \in found : \A k \in found : j <= k
    IN  CASE found = {} -> queue
          [] found # {} /\ Space(queue) > 0 -> Inserted(queue, i, m)
          [] found # {} /\ Space(queue) = 0 /\ i = 1 -> queue
          [] OTHER -> Tail(Inserted(queue, i, m))
-----------------------------------------------------------------------------
(* Channel::fillInMissingMessages() *)

Ids(queue) == {queue[i].id : i \in 1..Len(queue)} \ {0}

Later(snapshot, m) == {i \in 1..Len(snapshot) : snapshot[i].id > m.id}

FillOne(snapshot, queue, m) ==
    LET first == CHOOSE i \in Later(snapshot, m) : \A j \in Later(snapshot, m) : i <= j
    IN  CASE m.id \in Ids(snapshot) -> queue
          [] m.id \notin Ids(snapshot) /\ Later(snapshot, m) # {} ->
                InsertBefore(queue, snapshot[first], m)
          [] OTHER -> PushBack(queue, m)

\* Faulty variant: what is missing is pushed to the end.
FillInAtEnd(queue, loaded) ==
    LET filled[k \in 0..Len(loaded)] ==
            IF k = 0 THEN queue
            ELSE IF loaded[k].id \in Ids(queue) THEN filled[k - 1]
            ELSE PushBack(filled[k - 1], loaded[k])
    IN  filled[Len(loaded)]

\* What is loaded is filled in one after the other, each compared with the
\* snapshot taken before the first.
Filled(queue, loaded) ==
    LET filled[k \in 0..Len(loaded)] ==
            IF k = 0 THEN queue ELSE FillOne(queue, filled[k - 1], loaded[k])
    IN  filled[Len(loaded)]

FillInMissing(queue, loaded) ==
    IF queue = << >> THEN PushFront(queue, loaded) ELSE Filled(queue, loaded)
-----------------------------------------------------------------------------
(* The chat and the connection. *)

\* A message is sent in the chat; whoever is joined receives it.
Say ==
    /\ clock < MaxMessages
    /\ clock' = clock + 1
    /\ \/ /\ link = "joined"
          /\ messages' = PushBack(messages, ChatMessage(clock', "live"))
       \/ /\ link # "joined"
          /\ UNCHANGED messages
    /\ UNCHANGED <<link, heard, channel, history, losses>>

\* Faulty variant: markConnected() also moves the time of a channel that waits
\* to be joined again.
MarkConnectedAlways == IF lastConnectedAt.set THEN At(clock) ELSE lastConnectedAt

MarkConnected ==
    IF lastConnectedAt.set /\ ~disconnected THEN At(clock) ELSE lastConnectedAt

\* heartbeat, and markChannelsConnected() with it: something was received,
\* in any channel, since the last tick of the ping timer.
Heartbeat ==
    /\ \/ link \in {"up", "joined"}
       \/ link = "silent" /\ heard
    /\ heard' = FALSE
    /\ lastConnectedAt' = MarkConnected
    /\ late' = IF link = "silent" THEN late \cup (gone + 1 .. clock) ELSE late
    /\ UNCHANGED <<clock, link, roomKnown, disconnected, request, messages,
                   since, excused, skipped, gone, losses>>

GoesSilent ==
    /\ link = "joined"
    /\ link' = "silent"
    /\ heard' = TRUE
    /\ gone' = clock
    /\ UNCHANGED <<clock, channel, messages, since, excused, skipped, late,
                   losses>>

\* onDisconnected(), with markDisconnected()
Disconnected ==
    /\ link # "down" /\ losses < MaxLosses
    /\ losses' = losses + 1
    /\ link' = "down"
    /\ heard' = FALSE
    /\ messages' = PushBack(messages, SystemMessage("disconnected"))
    /\ disconnected' = (disconnected \/ roomKnown)
    /\ UNCHANGED <<clock, roomKnown, request, history>>

LinkLost == Disconnected /\ UNCHANGED lastConnectedAt

\* Twitch sends RECONNECT: markChannelsConnected() and connect().
ServerReconnects ==
    /\ link \in {"up", "joined"}
    /\ lastConnectedAt' = MarkConnected
    /\ Disconnected

\* onReadConnected(): "reconnected" takes the place of "disconnected".
Registered ==
    /\ link = "down"
    /\ link' = "up"
    /\ messages' = IF Len(messages) > 0 /\ messages[Len(messages)].from = "disconnected"
                   THEN [messages EXCEPT ![Len(messages)] = SystemMessage("system")]
                   ELSE PushBack(messages, SystemMessage("system"))
    /\ UNCHANGED <<clock, heard, channel, history, losses>>
-----------------------------------------------------------------------------
(* Joining. *)

Gap == [kind |-> "gap", after |-> lastConnectedAt.time, before |-> clock]

\* The JOIN of the own user: what was missed is loaded, from lastConnectedAt_
\* to now, unless a load is running.
Joined ==
    /\ link = "up"
    /\ link' = "joined"
    /\ messages' = PushBack(messages, SystemMessage("system"))
    /\ disconnected' = FALSE
    /\ \/ /\ ~disconnected
          /\ UNCHANGED <<lastConnectedAt, request, skipped>>
       \/ /\ disconnected /\ request = Idle
          /\ request' = Gap
          /\ lastConnectedAt' = At(clock)
          /\ UNCHANGED skipped
       \/ /\ disconnected /\ request # Idle
          /\ lastConnectedAt' = At(clock)
          /\ skipped' = skipped \cup (lastConnectedAt.time + 1)..clock
          /\ UNCHANGED request
    /\ UNCHANGED <<clock, heard, roomKnown, since, excused, gone, late, losses>>

\* ROOMSTATE tells the room id: setRoomId() loads what was sent before.
RoomState ==
    /\ link = "joined" /\ ~roomKnown
    /\ roomKnown' = TRUE
    /\ request' = [kind |-> "first", after |-> 0, before |-> 0]
    /\ disconnected' = FALSE
    /\ lastConnectedAt' = At(clock)
    /\ since' = clock
    /\ UNCHANGED <<clock, link, heard, messages, excused, skipped, gone, late, losses>>
-----------------------------------------------------------------------------
(* The answer of the service. *)

\* The time asked for; a first load has no end.
Until == IF request.kind = "first" THEN clock ELSE request.before

Asked == request.after + 1 .. Until

\* The service delivers the newest messages of it, the oldest first.
Skips == IF Until - request.after > historyLimit THEN Until - historyLimit ELSE request.after

Answer == Skips + 1 .. Until

Loaded == [i \in 1..(Until - Skips) |-> ChatMessage(Skips + i, request.kind)]

LoadSucceeds ==
    /\ request # Idle
    /\ request' = Idle
    /\ messages' = IF request.kind = "first" THEN PushFront(messages, Loaded)
                   ELSE FillInMissing(messages, Loaded)
    /\ excused' = excused \cup (Asked \ Answer)
    /\ UNCHANGED <<clock, link, heard, roomKnown, disconnected, lastConnectedAt,
                   since, skipped, gone, late, losses>>

LoadFails ==
    /\ request # Idle
    /\ request' = Idle
    /\ excused' = excused \cup Asked
    /\ UNCHANGED <<clock, link, heard, roomKnown, disconnected, lastConnectedAt,
                   messages, since, skipped, gone, late, losses>>
-----------------------------------------------------------------------------
HistoryNext ==
    \/ Say
    \/ Heartbeat
    \/ GoesSilent
    \/ LinkLost
    \/ ServerReconnects
    \/ Registered
    \/ Joined
    \/ RoomState
    \/ LoadSucceeds
    \/ LoadFails

HistorySpec == HistoryInit /\ [][HistoryNext]_historyVars
-----------------------------------------------------------------------------
(* Properties. *)

\* Every variable has its type, and messages_ never exceeds its limit.
HistoryTypeOK ==
    /\ clock \in 0..MaxMessages
    /\ link \in {"down", "up", "joined", "silent"}
    /\ heard \in BOOLEAN /\ roomKnown \in BOOLEAN /\ disconnected \in BOOLEAN
    /\ lastConnectedAt \in [time : 0..MaxMessages, set : BOOLEAN]
    /\ request \in [kind : {"none", "first", "gap"},
                    after : 0..MaxMessages, before : 0..MaxMessages]
    /\ \A i \in 1..Len(messages) :
          messages[i] \in [id : 0..MaxMessages,
                           from : {"live", "first", "gap", "system", "disconnected"}]
    /\ Len(messages) <= scrollbackSplitLimit

Present(n) == n \in Ids(messages)

\* While the channel is joined and nothing is being loaded, every message sent
\* since the room became known is there, unless the service failed to deliver
\* it, the scrollback is full, its gap ended while another load was running
\* (loadRecentMessagesReconnect()), or it was sent between the disappearance of
\* the peer and the heartbeat after it.
GapsAreFilled ==
    link = "joined" /\ request = Idle /\ roomKnown
        /\ Len(messages) < scrollbackSplitLimit
    => \A n \in since + 1 .. clock : Present(n) \/ n \in excused \cup skipped \cup late

\* However the times asked for overlap with what was received, a reload adds no
\* message that is there, and puts what it adds between the live messages in the
\* order of the chat (fillInMissingMessages()).  The first load puts what it finds
\* in front of everything, also of live messages it repeats.
InOrder ==
    \A i, j \in 1..Len(messages) : i < j =>
        /\ {messages[i].from, messages[j].from} \subseteq {"live", "gap"}
           => messages[i].id < messages[j].id
        /\ messages[i].id # 0 /\ messages[i].id = messages[j].id
           => messages[i].from = "first" /\ messages[j].from = "live"

\* A load into a full scrollback gives up the oldest messages: what it adds never
\* costs a newer message its place (pushFront(), insertBefore()).
NewestAreKept ==
    [][LoadSucceeds =>
          \A n \in (Ids(messages) \cup Answer) \ Ids(messages') :
             \A k \in Ids(messages') \ Ids(messages) : n < k]_historyVars

-----------------------------------------------------------------------------
(* What comments and documents say and the code does not do. *)

\* CHANGELOG.md:883: "Load missing messages from Recent Messages API upon
\* reconnecting".  Messages missed in a gap are not given up because another load
\* runs, while the service delivers what it is asked for.
MissedMessagesAreLoaded ==
    link = "joined" /\ request = Idle /\ roomKnown
        /\ Len(messages) < scrollbackSplitLimit
    => \A n \in since + 1 .. clock : Present(n) \/ n \in excused \cup late
=============================================================================
