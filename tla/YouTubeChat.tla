----------------------------- MODULE YouTubeChat -----------------------------
(***************************************************************************)
(* One YouTubeChannel: it looks for the broadcast of its target, opens the *)
(* chat, polls it, and looks for the next broadcast when one ends.         *)
(*                                                                         *)
(* All of it runs in the GUI thread, and every request is answered late:   *)
(* nothing cancels one, so answers to what was asked before a reconnect    *)
(* meet the state after it.  Broadcasts, their chats and the answers are   *)
(* external.  A message is named by its place in the chat of a broadcast.  *)
(***************************************************************************)
EXTENDS YouTubeChannel

CONSTANTS
    MaxConsecutiveFailures,  \* MAX_CONSECUTIVE_FAILURES
    Backlog,                 \* messages that a new session replays
    StrayOnAir,              \* external: a video that is not the target's has a live chat
    MaxMessages,             \* bound: messages in the chat of a broadcast
    MaxErrors,               \* bound: requests that fail for no reason of the chat
    MaxAsks                  \* bound: calls of connect() and reconnect()

ASSUME YouTubeAssumption ==
    /\ {MaxConsecutiveFailures, Backlog, MaxBroadcasts} \subseteq Nat \ {0}
    /\ {MaxMessages, MaxErrors, MaxAsks} \subseteq Nat
    /\ StrayOnAir \in BOOLEAN

\* The broadcasts of the target, and a video that a page about no broadcast mentions
Stray == MaxBroadcasts + 1
Video == 1..Stray

\* A continuation: the chat it is for, and the next message it yields
Continuation == [video : Video, next : 1..(MaxMessages + 1)]
NoSession == [video |-> 0, next |-> 0]

\* A poll request: the continuation it names, and whether that chat was on air when
\* it was asked, so that its answer may say so later.
PollRequest == [video : Video, next : 1..(MaxMessages + 1), onAir : BOOLEAN]

VARIABLES
    broadcast,         \* external: the last broadcast of the target, 0 for none
    live,              \* external: it goes on
    chat,              \* external: messages in the chat of each broadcast
    targetIsChannel,   \* targetIsChannel_; a pinned target is broadcast 1
    connectionState,   \* connectionState_
    session,           \* session_.continuation
    failures,          \* consecutiveFailures_
    pollTimer,         \* pollTimer_ is active
    rediscoverTimer,   \* rediscoverTimer_ is active
    resolving,         \* requests of the /live page under way
    opening,           \* requests of a chat page under way, by video
    polls,             \* poll requests under way
    shown,             \* messages of each broadcast that were added
    start,             \* history: where the last session of a broadcast began
    errors, asks       \* bounds: what happened so far

world == <<broadcast, live, chat>>
channel == <<connectionState, videoId, session, failures, pollTimer, rediscoverTimer,
             resolving, opening, polls, shown, start>>
bounds == <<errors, asks>>
vars == <<world, targetIsChannel, channel, bounds>>

State == {"Disconnected", "Resolving", "Connected", "Reconnecting", "Ended", "Failed"}

Init ==
    /\ broadcast = 0 /\ live = FALSE
    /\ chat = [v \in Video |-> 0]
    /\ targetIsChannel \in BOOLEAN
    /\ connectionState = "Disconnected"
    /\ videoId = 0
    /\ session = NoSession
    /\ failures = 0
    /\ pollTimer = FALSE /\ rediscoverTimer = FALSE
    /\ resolving = 0
    /\ opening = [v \in Video |-> 0]
    /\ polls = [q \in PollRequest |-> 0]
    /\ shown = [v \in Video |-> {}]
    /\ start = [v \in Video |-> 0]
    /\ errors = 0 /\ asks = 0
-----------------------------------------------------------------------------
(* The streamer and the chat. *)

StreamStarts ==
    /\ ~live /\ broadcast < MaxBroadcasts
    /\ broadcast' = broadcast + 1
    /\ live' = TRUE
    /\ UNCHANGED <<chat, targetIsChannel, channel, bounds>>

StreamEnds ==
    /\ live /\ live' = FALSE
    /\ UNCHANGED <<broadcast, chat, targetIsChannel, channel, bounds>>

SomebodyWrites ==
    /\ live /\ chat[broadcast] < MaxMessages
    /\ chat' = [chat EXCEPT ![broadcast] = @ + 1]
    /\ UNCHANGED <<broadcast, live, targetIsChannel, channel, bounds>>

OnAir(v) == (live /\ v = broadcast) \/ (StrayOnAir /\ v = Stray)

\* A request may fail although the chat is there.
Error == errors < MaxErrors /\ errors' = errors + 1 /\ UNCHANGED asks
-----------------------------------------------------------------------------
(* Looking for the broadcast. *)

\* resolveAndOpen(); a pinned video is not looked for, its chat is opened at once.
ResolveAndOpen ==
    /\ connectionState' = "Resolving"
    /\ \/ /\ targetIsChannel
          /\ resolving' = resolving + 1
          /\ UNCHANGED <<videoId, opening>>
       \/ /\ ~targetIsChannel
          /\ videoId' = 1
          /\ opening' = [opening EXCEPT ![1] = @ + 1]
          /\ UNCHANGED resolving

Asked == asks < MaxAsks /\ asks' = asks + 1 /\ UNCHANGED errors

\* Every split that is opened for the target calls connect().
Connect ==
    /\ Asked
    /\ connectionState \notin {"Connected", "Resolving"}
    /\ ResolveAndOpen
    /\ UNCHANGED <<world, targetIsChannel, session, failures, pollTimer, rediscoverTimer,
                   polls, shown, start>>

Reconnect ==
    /\ Asked
    /\ connectionState # "Disconnected"
    /\ pollTimer' = FALSE /\ rediscoverTimer' = FALSE
    /\ failures' = 0
    /\ ResolveAndOpen
    /\ UNCHANGED <<world, targetIsChannel, session, polls, shown, start>>

RediscoverTimeout ==
    /\ rediscoverTimer /\ rediscoverTimer' = FALSE
    /\ ResolveAndOpen
    /\ UNCHANGED <<world, targetIsChannel, session, failures, pollTimer, polls, shown,
                   start, bounds>>

\* scheduleRediscovery()
ScheduleRediscovery == rediscoverTimer' = (rediscoverTimer \/ targetIsChannel)

\* Faulty variant: only the end of a chat makes the channel look for the next one.
GiveUpForGood == connectionState' = "Failed" /\ UNCHANGED rediscoverTimer

\* Whatever ends in an error says Failed.
GiveUp ==
    /\ connectionState' = "Failed"
    /\ ScheduleRediscovery

\* fetchLiveVideoIdForChannel(): the page names the broadcast, also for a while after
\* it ended; a page without one may mention another video, which is taken instead.
Found(v) == (v = broadcast) \/ (v = Stray /\ ~live)

ResolveSucceeds(v) ==
    /\ resolving > 0 /\ resolving' = resolving - 1
    /\ Found(v)
    /\ videoId' = v
    /\ opening' = [opening EXCEPT ![v] = @ + 1]
    /\ UNCHANGED <<world, targetIsChannel, connectionState, session, failures, pollTimer,
                   rediscoverTimer, polls, shown, start, bounds>>

ResolveFails ==
    /\ resolving > 0 /\ resolving' = resolving - 1
    /\ \/ ~live /\ UNCHANGED bounds
       \/ live /\ Error
    /\ GiveUp
    /\ UNCHANGED <<world, targetIsChannel, videoId, session, failures, pollTimer, opening,
                   polls, shown, start>>
-----------------------------------------------------------------------------
(* The session and its polls. *)

\* The reload token of a chat page
Reload(v) == [video |-> v, next |-> IF chat[v] > Backlog THEN chat[v] - Backlog + 1 ELSE 1]

Request(c) == [video |-> c.video, next |-> c.next, onAir |-> OnAir(c.video)]

Poll(c) == polls' = [polls EXCEPT ![Request(c)] = @ + 1]

OpenAnswered(v) == opening[v] > 0 /\ opening' = [opening EXCEPT ![v] = @ - 1]

OpenSucceeds(v) ==
    /\ OpenAnswered(v)
    /\ OnAir(v)
    /\ session' = Reload(v)
    /\ start' = [start EXCEPT ![v] = Reload(v).next]
    /\ failures' = 0
    /\ connectionState' = "Connected"
    /\ Poll(Reload(v))
    /\ UNCHANGED <<world, targetIsChannel, videoId, pollTimer, rediscoverTimer, resolving,
                   shown, bounds>>

OpenFails(v) ==
    /\ OpenAnswered(v)
    /\ \/ ~OnAir(v) /\ UNCHANGED bounds
       \/ OnAir(v) /\ Error
    /\ GiveUp
    /\ UNCHANGED <<world, targetIsChannel, videoId, session, failures, pollTimer, resolving,
                   polls, shown, start>>

\* pollOnce(), when the timer fires
PollTimeout ==
    /\ pollTimer /\ pollTimer' = FALSE
    /\ session # NoSession
    /\ Poll(session)
    /\ UNCHANGED <<world, targetIsChannel, connectionState, videoId, session, failures,
                   rediscoverTimer, resolving, opening, shown, start, bounds>>

PollAnswered(q) == polls[q] > 0 /\ polls' = [polls EXCEPT ![q] = @ - 1]

\* Faulty variant: the message after those of the answer is left out.
NextContinuationSkips(q, upTo) ==
    [video |-> q.video, next |-> IF upTo < MaxMessages THEN upTo + 2 ELSE upTo + 1]

NextContinuation(q, upTo) == [video |-> q.video, next |-> upTo + 1]

\* The answer may be older than its handling: it holds messages up to a place the
\* chat has passed by now, and the chat may have ended since.
PollSucceeds(q) ==
    /\ PollAnswered(q)
    /\ q.onAir
    /\ failures' = 0
    /\ connectionState' = "Connected"
    /\ \E upTo \in (q.next - 1)..chat[q.video] :
           /\ shown' = [shown EXCEPT ![q.video] = @ \cup q.next..upTo]
           /\ session' = NextContinuation(q, upTo)
    /\ pollTimer' = TRUE
    /\ UNCHANGED <<world, targetIsChannel, videoId, rediscoverTimer, resolving, opening,
                   start, bounds>>

\* A fatal answer: the chat has ended, or the continuation is refused.
PollEnds(q) ==
    /\ PollAnswered(q)
    /\ \/ ~OnAir(q.video) /\ UNCHANGED bounds
       \/ OnAir(q.video) /\ Error
    /\ connectionState' = "Ended"
    /\ ScheduleRediscovery
    /\ UNCHANGED <<world, targetIsChannel, videoId, session, failures, pollTimer, resolving,
                   opening, shown, start>>

\* Faulty variant: the last failure counts as one more.
AfterFailureQuietly ==
    IF failures' >= MaxConsecutiveFailures
    THEN connectionState' = "Reconnecting" /\ UNCHANGED <<pollTimer, rediscoverTimer>>
    ELSE connectionState' = "Reconnecting" /\ pollTimer' = TRUE /\ UNCHANGED rediscoverTimer

AfterFailure ==
    IF failures' >= MaxConsecutiveFailures
    THEN GiveUp /\ UNCHANGED pollTimer
    ELSE connectionState' = "Reconnecting" /\ pollTimer' = TRUE /\ UNCHANGED rediscoverTimer

PollFails(q) ==
    /\ PollAnswered(q)
    /\ Error
    /\ failures' = failures + 1
    /\ AfterFailure
    /\ UNCHANGED <<world, targetIsChannel, videoId, session, resolving, opening, shown,
                   start>>
-----------------------------------------------------------------------------
Resolved == ResolveFails \/ \E v \in Video : ResolveSucceeds(v)
Opened(v) == OpenSucceeds(v) \/ OpenFails(v)
Polled(q) == PollSucceeds(q) \/ PollEnds(q) \/ PollFails(q)

Next ==
    \/ StreamStarts \/ StreamEnds \/ SomebodyWrites
    \/ Connect \/ Reconnect \/ RediscoverTimeout \/ PollTimeout
    \/ Resolved
    \/ \E v \in Video : Opened(v)
    \/ \E q \in PollRequest : Polled(q)

Spec == Init /\ [][Next]_vars

\* Timers fire, and every request is answered or fails.
FairSpec ==
    /\ Spec
    /\ WF_vars(RediscoverTimeout) /\ WF_vars(PollTimeout)
    /\ WF_vars(Resolved)
    /\ \A v \in Video : WF_vars(Opened(v))
    /\ \A q \in PollRequest : WF_vars(Polled(q))
-----------------------------------------------------------------------------
(* Correctness. *)

TypeOK ==
    /\ broadcast \in 0..MaxBroadcasts /\ live \in BOOLEAN
    /\ chat \in [Video -> 0..MaxMessages]
    /\ targetIsChannel \in BOOLEAN
    /\ connectionState \in State
    /\ videoId \in Video \cup {0}
    /\ session \in Continuation \cup {NoSession}
    /\ failures \in 0..MaxErrors
    /\ pollTimer \in BOOLEAN /\ rediscoverTimer \in BOOLEAN
    /\ resolving \in Nat
    /\ opening \in [Video -> Nat]
    /\ polls \in [PollRequest -> Nat]
    /\ shown \in [Video -> SUBSET (1..MaxMessages)]
    /\ start \in [Video -> 0..(MaxMessages + 1)]
    /\ errors \in 0..MaxErrors /\ asks \in 0..MaxAsks

\* A state that promises something has a request or a timer that will bring it: a
\* channel that says it is connected polls, one that says it looks has asked, and one
\* that follows a streamer looks again, whatever answers come from before a reconnect.
NeverStuck ==
    /\ connectionState \in {"Connected", "Reconnecting"} =>
           pollTimer \/ \E q \in PollRequest : polls[q] > 0
    /\ connectionState = "Resolving" => resolving > 0 \/ \E v \in Video : opening[v] > 0
    /\ connectionState \in {"Ended", "Failed"} /\ targetIsChannel => rediscoverTimer

\* From where the session of a broadcast began up to its continuation every message
\* was shown: neither failures, nor polls of an older session that answer late, nor
\* the next broadcast leave one out.
NothingSkipped ==
    session # NoSession =>
        start[session.video]..(session.next - 1) \subseteq shown[session.video]

\* A handle "follows the streamer across broadcasts" (YouTubeChannel.hpp:36): when the
\* streamer stays on air, the channel ends up reading that broadcast and stays with it.
FollowsTheStreamer ==
    (targetIsChannel /\ asks > 0 /\ <>[]live)
        ~> [](connectionState = "Connected" /\ session.video = broadcast)
=============================================================================
