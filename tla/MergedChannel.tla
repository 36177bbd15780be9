---------------------------- MODULE MergedChannel ----------------------------
(***************************************************************************)
(* A MergedChannel shows the messages of several source channels, at most  *)
(* one per platform (the merge dialog offers the missing platforms only),  *)
(* and sends to the platforms the user selected.  A message sent to more   *)
(* than one platform comes back once per platform; pendingSentMessages_    *)
(* recognises these echoes by their text for Window seconds.               *)
(*                                                                         *)
(* The platforms are external: they echo or lose what is sent, and deliver *)
(* messages of other users, both possibly late.                            *)
(***************************************************************************)
EXTENDS Naturals, Sequences, FiniteSets

CONSTANTS
    Platform,       \* the platforms, one source channel each
    Text,           \* message texts
    Window,         \* the 10 seconds of the echo search
    MaxDelay,       \* bound: how long after serverReceivedTime a message arrives
    MaxTime,        \* bound: seconds modelled
    MaxSends,       \* bound: messages the user sends
    MaxOthers,      \* bound: messages of other users
    MayRemove       \* may removeSourceChannel() be called; nothing in src/ does yet

ASSUME MergedAssumption ==
    /\ {Window, MaxDelay, MaxTime, MaxSends, MaxOthers} \subseteq Nat
    /\ MayRemove \in BOOLEAN

\* PlatformSelection: Both, or one platform only
Both == "Both"

VARIABLES
    sourceChannels,      \* sourceChannels_
    connections,         \* signalHolder_: live connections to each channel's messageAppended
    platformSelection,   \* platformSelection_
    pending,             \* pendingSentMessages_
    shown,               \* the messages of the merged channel, oldest first
    echoes,              \* external: own messages a platform has yet to deliver
    sends,               \* history: what the user sent through the merge
    suppressed,          \* history: messages onSourceMessageReceived() did not show
    unmerged,            \* history: unmerge() was called; the channel is not used afterwards
    others,              \* history: the messages of other users: does one repeat what
                         \* the user sent shortly before, was its channel in the
                         \* merge when it arrived, had it been removed before
    removed,             \* history: platforms whose channel was removed from the merge
    now                  \* seconds

vars == <<sourceChannels, connections, platformSelection, pending, shown, echoes,
          sends, suppressed, unmerged, others, removed, now>>

None == 0     \* no send, and no message of another user

Init ==
    /\ \E p, q \in Platform :
          /\ p # q
          /\ sourceChannels = {p, q}
          /\ connections = [r \in Platform |-> IF r \in {p, q} THEN 1 ELSE 0]
    /\ platformSelection = Both
    /\ pending = << >>
    /\ shown = << >>
    /\ echoes = {}
    /\ sends = << >>
    /\ suppressed = {}
    /\ unmerged = FALSE
    /\ others = << >>
    /\ removed = {}
    /\ now = 0
-----------------------------------------------------------------------------
(* Sending. *)

Selected == {p \in sourceChannels : platformSelection \in {Both, p}}

\* The pruning of sendMessage(); it is not done anywhere else.
Recent(queue) ==
    LET recent[k \in 0..Len(queue)] ==
            IF k = 0 THEN << >>
            ELSE IF now - queue[k].sentTime <= Window THEN Append(recent[k - 1], queue[k])
            ELSE recent[k - 1]
    IN  recent[Len(queue)]

\* Faulty variant: the message counts as received when it is sent.
TrackReceived(queue, text, id) ==
    Recent(Append(queue, [text |-> text, sentTime |-> now, received |-> 1, id |-> id]))

Track(queue, text, id) ==
    Recent(Append(queue, [text |-> text, sentTime |-> now, received |-> 0, id |-> id]))

\* sendMessage(): to every selected source that can send now.  With none,
\* only a system message is shown.
SendMessage(text, canSend) ==
    LET sentTo == Selected \cap canSend
        id == Len(sends) + 1
    IN  /\ Len(sends) < MaxSends
        /\ sentTo # {}
        /\ pending' = IF Cardinality(sentTo) > 1 THEN Track(pending, text, id) ELSE pending
        /\ echoes' = echoes \cup {[id |-> id, text |-> text, platform |-> p] : p \in sentTo}
        /\ sends' = Append(sends, [text |-> text, sentTo |-> sentTo,
                                   merge |-> sourceChannels, sentTime |-> now])
        /\ UNCHANGED <<sourceChannels, connections, platformSelection, shown,
                       suppressed, others, removed, now, unmerged>>

SetPlatformSelection(selection) ==
    /\ platformSelection # selection
    /\ platformSelection' = selection
    /\ UNCHANGED <<sourceChannels, connections, pending, shown, echoes, sends,
                   suppressed, others, removed, now, unmerged>>
-----------------------------------------------------------------------------
(* Receiving. *)

\* Faulty variants: the window is one second short; there is no window.
MatchesShort(p, m) == now - p.sentTime < Window /\ p.text = m.text
MatchesAlways(p, m) == p.text = m.text

Matches(p, m) == now - p.sentTime <= Window /\ p.text = m.text

\* onSourceMessageReceived(): st holds what the handler changes.  The first
\* pending message that matches counts the echo; its first echo is shown with
\* the badge of all platforms, the others are dropped.
Handle(st, m) ==
    LET hit == {i \in 1..Len(st.pending) : Matches(st.pending[i], m)}
        first == CHOOSE i \in hit : \A j \in hit : i <= j
        echo == hit # {}
        count == st.pending[first].received + 1
        show == ~echo \/ count = 1
    IN  [pending |-> IF echo THEN [st.pending EXCEPT ![first].received = count]
                     ELSE st.pending,
         shown |-> IF show
                   THEN Append(st.shown, [m EXCEPT !.both = echo])
                   ELSE st.shown,
         suppressed |-> IF show THEN st.suppressed ELSE st.suppressed \cup {m}]

\* The handler runs once per connection.
Handled(m, times) ==
    LET after[k \in 0..times] ==
            IF k = 0 THEN [pending |-> pending, shown |-> shown, suppressed |-> suppressed]
            ELSE Handle(after[k - 1], m)
    IN  after[times]

\* A source appends a message: an echo of a send, or the message of another user.
Deliver(p, id, other, text, stamp) ==
    LET m == [id |-> id, other |-> other, text |-> text, platform |-> p, stamp |-> stamp,
              at |-> now, both |-> FALSE]
        handled == Handled(m, connections[p])
    IN  /\ now - stamp <= MaxDelay
        /\ pending' = handled.pending
        /\ shown' = handled.shown
        /\ suppressed' = handled.suppressed

EchoArrives(e, stamp) ==
    /\ Deliver(e.platform, e.id, None, e.text, stamp)
    /\ echoes' = echoes \ {e}
    /\ UNCHANGED <<sourceChannels, connections, platformSelection, sends, others, removed, now,
                   unmerged>>

\* The platform rejects the message, or its echo is lost with a connection.
EchoLost(e) ==
    /\ echoes' = echoes \ {e}
    /\ UNCHANGED <<sourceChannels, connections, platformSelection, pending, shown,
                   sends, suppressed, others, removed, now, unmerged>>

\* The user sent the text to several platforms within the window.
SentShortlyBefore(text) ==
    \E id \in 1..Len(sends) :
        /\ sends[id].text = text
        /\ Cardinality(sends[id].sentTo) > 1
        /\ now - sends[id].sentTime \in 0..Window

OtherMessage(p, text, stamp) ==
    /\ Len(others) < MaxOthers
    /\ others' = Append(others, [repeats |-> SentShortlyBefore(text),
                                 merged |-> p \in sourceChannels,
                                 removed |-> p \in removed])
    /\ Deliver(p, None, Len(others) + 1, text, stamp)
    /\ UNCHANGED <<sourceChannels, connections, platformSelection, echoes, sends, removed,
                   now, unmerged>>
-----------------------------------------------------------------------------
(* Sources. *)

\* addSourceChannel()
AddSourceChannel(p) ==
    /\ ~unmerged /\ p \notin sourceChannels
    /\ sourceChannels' = sourceChannels \cup {p}
    /\ connections' = [connections EXCEPT ![p] = @ + 1]
    /\ UNCHANGED <<platformSelection, pending, shown, echoes, sends, suppressed,
                   others, removed, now, unmerged>>

\* removeSourceChannel(): the connection stays in signalHolder_.
RemoveSourceChannel(p) ==
    /\ MayRemove /\ connections[p] < 2
    /\ p \in sourceChannels
    /\ sourceChannels' = sourceChannels \ {p}
    /\ removed' = removed \cup {p}
    /\ UNCHANGED <<connections, platformSelection, pending, shown, echoes, sends,
                   suppressed, others, now, unmerged>>

\* unmerge()
Unmerge ==
    /\ ~unmerged
    /\ unmerged' = TRUE
    /\ sourceChannels' = {}
    /\ connections' = [p \in Platform |-> 0]
    /\ removed' = {}
    /\ UNCHANGED <<platformSelection, pending, shown, echoes, sends, suppressed,
                   others, now>>

Tick ==
    /\ now < MaxTime
    /\ now' = now + 1
    /\ UNCHANGED <<sourceChannels, connections, platformSelection, pending, shown,
                   echoes, sends, suppressed, others, removed, unmerged>>

Next ==
    \/ \E text \in Text, canSend \in SUBSET Platform : SendMessage(text, canSend)
    \/ \E selection \in Platform \cup {Both} : SetPlatformSelection(selection)
    \/ \E e \in echoes : EchoLost(e) \/ \E stamp \in 0..now : EchoArrives(e, stamp)
    \/ \E p \in Platform, text \in Text, stamp \in 0..now : OtherMessage(p, text, stamp)
    \/ \E p \in Platform : AddSourceChannel(p) \/ RemoveSourceChannel(p)
    \/ Unmerge
    \/ Tick

Spec == Init /\ [][Next]_vars
-----------------------------------------------------------------------------
(* Properties. *)

Shown == {shown[i] : i \in 1..Len(shown)}

Copies(id) == {i \in 1..Len(shown) : shown[i].id = id}

TypeOK ==
    /\ sourceChannels \subseteq Platform
    /\ connections \in [Platform -> 0..2]
    /\ platformSelection \in Platform \cup {Both}
    /\ \A i \in 1..Len(pending) :
          pending[i] \in [text : Text, sentTime : 0..MaxTime, id : 1..MaxSends, received : Nat]
    /\ \A m \in Shown : m.id \in 0..MaxSends /\ m.text \in Text /\ m.platform \in Platform
    /\ removed \subseteq Platform

\* A message the user sent once, to several platforms of a merge, is shown at
\* most once, however many of its echoes arrive within the window and in
\* whatever order (the deduplication of onSourceMessageReceived()).
OwnMessageShownOnce ==
    \A id \in 1..Len(sends) :
        /\ Cardinality(sends[id].sentTo) > 1
        /\ \A other \in 1..Len(sends) : other # id => sends[other].text # sends[id].text
        => Cardinality({i \in Copies(id) : shown[i].at - sends[id].sentTime <= Window}) <= 1

\* Nothing is dropped unless a message with the same text was shown shortly
\* before: the user always sees the text of a suppressed message once.
SuppressedTextWasShown ==
    \A m \in suppressed :
        \E i \in 1..Len(shown) :
            shown[i].text = m.text /\ shown[i].at <= m.at /\ m.at - shown[i].at <= Window

\* A message of another user that does not have the text of what the user sent shortly
\* before is shown exactly once when its channel is in the merge, and not at all when
\* its channel never was: each source is connected to once, whatever the order of merges
\* and messages (subscribeToChannel()).  Of a channel that was removed and added again,
\* whose old connection is still there, it is shown at least once.
UnrelatedMessagesShown ==
    \A k \in 1..Len(others) :
        LET message == others[k]
            copies == {i \in 1..Len(shown) : shown[i].other = k}
        IN  ~message.repeats =>
                /\ message.merged => copies # {}
                /\ ~message.removed => Cardinality(copies) = IF message.merged THEN 1 ELSE 0
-----------------------------------------------------------------------------
(* What comments and documents say and the code does not do. *)

\* MergedChannel.cpp:341: "Check if this is a duplicate of our own sent message
\* (sent to both platforms)".  Only echoes of own messages are dropped.
OnlyEchoesSuppressed == \A m \in suppressed : m.id # None

\* MergedChannel.cpp:469: "Add message chronologically based on
\* serverReceivedTime".  Messages of two platforms appear in that order.
Chronological ==
    \A i, j \in 1..Len(shown) :
        i < j /\ shown[i].platform # shown[j].platform => shown[i].stamp <= shown[j].stamp

\* MergedChannel.hpp:98: the combined badge is "for a message the user sent to
\* every platform in the merge".
BothBadgeMeansEveryPlatform ==
    \A m \in Shown :
        m.both => m.id # None /\ sends[m.id].sentTo = sends[m.id].merge

\* spec.md:92 (FR-019): the system must "display the message in the merged
\* view".  When every platform delivered a message in time, it is shown.
OwnMessageDisplayed ==
    \A id \in 1..Len(sends) :
        LET dropped == {m \in suppressed : m.id = id}
        IN  Cardinality(dropped) = Cardinality(sends[id].sentTo)
            => \E m \in Shown : m.id = id

\* MergedChannel.hpp:53: "Remove a source channel from the merge".  A removed
\* channel is no longer heard.
RemovedIsSilent == \A p \in Platform : p \notin sourceChannels => connections[p] = 0
=============================================================================
