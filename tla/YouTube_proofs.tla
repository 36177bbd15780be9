--------------------------- MODULE YouTube_proofs ---------------------------
(***************************************************************************)
(* Proofs for the two sides of a YouTubeChannel: the invariants of         *)
(* YouTubeChat, for every number of broadcasts, messages, failures and     *)
(* reconnects, and those of YouTubeSends, for every set of messages.       *)
(***************************************************************************)
EXTENDS YouTubeChat, YouTubeSends, TLAPS

\* Failures in a row are failures.
FailuresFit == failures <= errors

\* What is on air is a broadcast.
LiveIsNumbered == live => broadcast \in Video

\* A new session of a broadcast begins no earlier than the last one.
SessionsMoveOn == \A v \in Video : start[v] <= Reload(v).next

\* From where the last session of a broadcast began up to a continuation, every
\* message was shown.
ShownUpTo(c) == start[c.video]..(c.next - 1) \subseteq shown[c.video]

\* So is it for every poll under way, whichever session it is of: when it is
\* answered, its continuation becomes that of the channel.
PollsContinue == \A q \in PollRequest : polls[q] > 0 => ShownUpTo(q)

\* Whoever polls, or will, has a session.
PollingHasSession ==
    pollTimer \/ (\E q \in PollRequest : polls[q] > 0) => session # NoSession

\* The inductive invariant.
Inv ==
    /\ TypeOK
    /\ FailuresFit
    /\ LiveIsNumbered
    /\ NeverStuck
    /\ PollingHasSession
    /\ SessionsMoveOn
    /\ PollsContinue
    /\ NothingSkipped
-----------------------------------------------------------------------------
\* The bounds are numbers, and there is a first video.
LEMMA Bounds ==
    /\ MaxConsecutiveFailures \in Nat /\ Backlog \in Nat /\ MaxBroadcasts \in Nat
    /\ Backlog > 0 /\ MaxBroadcasts > 0
    /\ MaxMessages \in Nat /\ MaxErrors \in Nat /\ MaxAsks \in Nat
    /\ 1 \in Video
    /\ Video \subseteq Nat /\ 0 \notin Video
    /\ 0..MaxBroadcasts \subseteq Video \cup {0}
  <1>1. /\ MaxConsecutiveFailures \in Nat /\ Backlog \in Nat /\ MaxBroadcasts \in Nat
        /\ Backlog > 0 /\ MaxBroadcasts > 0
        /\ MaxMessages \in Nat /\ MaxErrors \in Nat /\ MaxAsks \in Nat
    BY YouTubeAssumption
  <1> QED
    BY <1>1 DEF Video, Stray

\* A reload token continues the chat of its video.
LEMMA ReloadContinues ==
    ASSUME TypeOK, NEW v \in Video
    PROVE  /\ Reload(v) \in Continuation
           /\ Reload(v).video = v
           /\ Reload(v).next \in 1..(MaxMessages + 1)
           /\ Reload(v) # NoSession
  BY Bounds DEF TypeOK, Reload, Continuation, NoSession

\* Asking once more is a poll under way.
LEMMA PollEffect ==
    ASSUME TypeOK, NEW c \in Continuation, Poll(c)
    PROVE  \E r \in PollRequest :
               /\ r.video = c.video /\ r.next = c.next
               /\ polls' \in [PollRequest -> Nat]
               /\ polls'[r] > 0
               /\ \A q \in PollRequest : polls'[q] > 0 => q = r \/ polls[q] > 0
  <1>1. OnAir(c.video) \in BOOLEAN
    BY DEF OnAir
  <1>2. PICK r : r = Request(c)
    OBVIOUS
  <1>3. r \in PollRequest /\ r.video = c.video /\ r.next = c.next
    <2>1. c.video \in Video /\ c.next \in 1..(MaxMessages + 1)
      BY DEF Continuation
    <2>2. ASSUME NEW onAir \in BOOLEAN, r = [video |-> c.video, next |-> c.next, onAir |-> onAir]
          PROVE  r \in PollRequest /\ r.video = c.video /\ r.next = c.next
      BY <2>1, <2>2 DEF PollRequest
    <2> QED
      BY <1>1, <1>2, <2>2 DEF Request
  <1>4. polls' = [polls EXCEPT ![r] = @ + 1]
    BY <1>2 DEF Poll
  <1>5. /\ polls' \in [PollRequest -> Nat] /\ polls'[r] > 0
        /\ \A q \in PollRequest : polls'[q] > 0 => q = r \/ polls[q] > 0
    BY <1>3, <1>4 DEF TypeOK
  <1> QED
    BY <1>3, <1>5

\* An answer takes the poll it is for.
LEMMA PollAnsweredEffect ==
    ASSUME TypeOK, NEW q \in PollRequest, PollAnswered(q)
    PROVE  /\ polls' \in [PollRequest -> Nat]
           /\ polls[q] > 0
           /\ \A d \in PollRequest : polls'[d] > 0 => polls[d] > 0
  BY DEF TypeOK, PollAnswered

\* Looking for the broadcast has a request under way.
LEMMA ResolveEffect ==
    ASSUME TypeOK, ResolveAndOpen
    PROVE  /\ connectionState' = "Resolving"
           /\ videoId' \in Video \cup {0}
           /\ resolving' \in Nat
           /\ opening' \in [Video -> Nat]
           /\ resolving' > 0 \/ \E v \in Video : opening'[v] > 0
  BY Bounds DEF TypeOK, ResolveAndOpen

\* Whatever ends in an error looks again, when the channel follows a streamer.
LEMMA GiveUpEffect ==
    ASSUME TypeOK, GiveUp
    PROVE  /\ connectionState' = "Failed"
           /\ rediscoverTimer' \in BOOLEAN
           /\ targetIsChannel => rediscoverTimer'
  BY DEF TypeOK, GiveUp, ScheduleRediscovery

\* What may not change while the session, the polls and the chat stay.
Reading == <<session, polls, shown, start, chat>>

\* A step that leaves the reading of the chat alone leaves its part of the invariant.
LEMMA ReadingStays ==
    ASSUME Inv, UNCHANGED Reading
    PROVE  SessionsMoveOn' /\ PollsContinue' /\ NothingSkipped'
  BY DEF Inv, Reading, SessionsMoveOn, PollsContinue, NothingSkipped, ShownUpTo, Reload
-----------------------------------------------------------------------------
LEMMA InitInv == Init => Inv
  <1> SUFFICES ASSUME Init
               PROVE  Inv
    OBVIOUS
  <1>1. TypeOK
    <2>1. /\ broadcast \in 0..MaxBroadcasts /\ videoId \in Video \cup {0}
          /\ session \in Continuation \cup {NoSession}
          /\ failures \in 0..MaxErrors /\ resolving \in Nat
          /\ errors \in 0..MaxErrors /\ asks \in 0..MaxAsks
      BY Bounds DEF Init
    <2>2. /\ live \in BOOLEAN /\ targetIsChannel \in BOOLEAN
          /\ pollTimer \in BOOLEAN /\ rediscoverTimer \in BOOLEAN
      BY DEF Init
    <2>3. /\ chat \in [Video -> 0..MaxMessages]
          /\ opening \in [Video -> Nat] /\ polls \in [PollRequest -> Nat]
          /\ start \in [Video -> 0..(MaxMessages + 1)]
      BY Bounds DEF Init
    <2>4. connectionState \in State /\ shown \in [Video -> SUBSET (1..MaxMessages)]
      BY DEF Init, State
    <2> QED
      BY <2>1, <2>2, <2>3, <2>4 DEF TypeOK
  <1>2. NeverStuck
    BY DEF Init, NeverStuck
  <1>3. SessionsMoveOn
    BY Bounds DEF Init, SessionsMoveOn, Reload
  <1>4. PollsContinue
    BY DEF Init, PollsContinue
  <1>5. FailuresFit /\ LiveIsNumbered /\ PollingHasSession /\ NothingSkipped
    BY DEF Init, FailuresFit, LiveIsNumbered, PollingHasSession, NothingSkipped
  <1> QED
    BY <1>1, <1>2, <1>3, <1>4, <1>5 DEF Inv

\* The streamer and the chat: a message that is written is not shown yet, and
\* only moves the next reload token on.
LEMMA WorldInv ==
    ASSUME Inv, StreamStarts \/ StreamEnds \/ SomebodyWrites
    PROVE  Inv'
  <1>1. CASE StreamStarts \/ StreamEnds
    <2>1. UNCHANGED <<chat, targetIsChannel, channel, bounds>>
      BY <1>1 DEF StreamStarts, StreamEnds
    <2>2. TypeOK'
      <3>1. broadcast' \in 0..MaxBroadcasts
        BY <1>1, Bounds DEF Inv, TypeOK, StreamStarts, StreamEnds
      <3>2. live' \in BOOLEAN
        BY <1>1 DEF StreamStarts, StreamEnds
      <3> QED
        BY <2>1, <3>1, <3>2 DEF Inv, TypeOK, channel, bounds
    <2>3. SessionsMoveOn' /\ PollsContinue' /\ NothingSkipped'
      BY <2>1, ReadingStays DEF Reading, channel
    <2>4. FailuresFit' /\ NeverStuck' /\ PollingHasSession'
      BY <2>1 DEF Inv, FailuresFit, NeverStuck, PollingHasSession, channel, bounds
    <2>5. LiveIsNumbered'
      BY <1>1, Bounds DEF StreamStarts, StreamEnds, Inv, TypeOK, LiveIsNumbered, Video, Stray
    <2> QED
      BY <2>2, <2>3, <2>4, <2>5 DEF Inv
  <1>2. CASE SomebodyWrites
    <2>1. broadcast \in Video
      BY <1>2 DEF SomebodyWrites, Inv, LiveIsNumbered
    <2>2. TypeOK'
      <3>1. chat' \in [Video -> 0..MaxMessages]
        BY <1>2, <2>1, Bounds DEF SomebodyWrites, Inv, TypeOK
      <3>2. UNCHANGED <<broadcast, live, targetIsChannel, channel, bounds>>
        BY <1>2 DEF SomebodyWrites
      <3>3. broadcast' \in 0..MaxBroadcasts /\ live' \in BOOLEAN
        BY <3>2 DEF Inv, TypeOK
      <3> QED
        BY <3>1, <3>2, <3>3 DEF Inv, TypeOK, channel, bounds
    <2>3. SessionsMoveOn'
      <3> SUFFICES ASSUME NEW v \in Video
                   PROVE  start'[v] <= Reload(v)'.next
        BY DEF SessionsMoveOn
      <3>1. chat[v] \in 0..MaxMessages /\ chat'[v] \in Nat /\ chat[v] <= chat'[v]
        BY <1>2, <2>1, Bounds DEF SomebodyWrites, Inv, TypeOK
      <3>2. Reload(v).next <= Reload(v)'.next
        BY <3>1, Bounds DEF Reload
      <3>3. start'[v] = start[v] /\ start[v] <= Reload(v).next
        BY <1>2 DEF SomebodyWrites, Inv, SessionsMoveOn, channel
      <3>4. start[v] \in Nat /\ Reload(v).next \in Nat /\ Reload(v)'.next \in Nat
        BY <3>1, Bounds DEF Inv, TypeOK, Reload
      <3> QED
        BY <3>2, <3>3, <3>4
    <2>4. PollsContinue' /\ NothingSkipped'
      BY <1>2 DEF SomebodyWrites, Inv, PollsContinue, NothingSkipped, ShownUpTo, channel
    <2>5. FailuresFit' /\ LiveIsNumbered' /\ NeverStuck' /\ PollingHasSession'
      BY <1>2 DEF SomebodyWrites, Inv, FailuresFit, LiveIsNumbered, NeverStuck,
                  PollingHasSession, channel, bounds
    <2> QED
      BY <2>2, <2>3, <2>4, <2>5 DEF Inv
  <1> QED
    BY <1>1, <1>2
-----------------------------------------------------------------------------
(* Looking for the broadcast. *)

\* Whoever makes the channel look has a request under way, and touches no session.
LEMMA LookInv ==
    ASSUME Inv, Connect \/ Reconnect \/ RediscoverTimeout
    PROVE  Inv'
  <1>1. ResolveAndOpen
    BY DEF Connect, Reconnect, RediscoverTimeout
  <1>2. UNCHANGED <<world, targetIsChannel, session, polls, shown, start>>
    BY DEF Connect, Reconnect, RediscoverTimeout
  <1>3. TypeOK'
    <2>1. failures' \in 0..MaxErrors /\ errors' \in 0..MaxErrors /\ asks' \in 0..MaxAsks
      BY Bounds DEF Connect, Reconnect, RediscoverTimeout, Asked, bounds, Inv, TypeOK
    <2>2. pollTimer' \in BOOLEAN /\ rediscoverTimer' \in BOOLEAN
      BY DEF Connect, Reconnect, RediscoverTimeout, Inv, TypeOK
    <2>3. connectionState' \in State
      BY <1>1 DEF ResolveAndOpen, State
    <2> QED
      BY <1>1, <1>2, <2>1, <2>2, <2>3, ResolveEffect DEF Inv, TypeOK, world
  <1>4. NeverStuck'
    BY <1>1, ResolveEffect DEF NeverStuck, Inv
  <1>5. SessionsMoveOn' /\ PollsContinue' /\ NothingSkipped'
    BY <1>2, ReadingStays DEF Reading, world
  <1>6. FailuresFit'
    BY Bounds DEF Connect, Reconnect, RediscoverTimeout, Asked, bounds, Inv, TypeOK,
                  FailuresFit
  <1>7. PollingHasSession' /\ LiveIsNumbered'
    BY <1>2 DEF Connect, Reconnect, RediscoverTimeout, Inv, PollingHasSession,
                LiveIsNumbered, world
  <1> QED
    BY <1>3, <1>4, <1>5, <1>6, <1>7 DEF Inv

\* A request of the page is followed by one of the chat, or by another look later.
LEMMA ResolvedInv ==
    ASSUME Inv, Resolved
    PROVE  Inv'
  <1>1. ASSUME NEW v \in Video, ResolveSucceeds(v)
        PROVE  Inv'
    <2>1. UNCHANGED <<world, targetIsChannel, connectionState, session, failures, pollTimer,
                      rediscoverTimer, polls, shown, start, bounds>>
      BY <1>1 DEF ResolveSucceeds
    <2>2. /\ resolving' \in Nat /\ videoId' \in Video
          /\ opening' \in [Video -> Nat] /\ opening'[v] > 0
      BY <1>1 DEF ResolveSucceeds, Inv, TypeOK
    <2>3. TypeOK'
      BY <2>1, <2>2 DEF Inv, TypeOK, world, bounds
    <2>4. NeverStuck'
      BY <2>1, <2>2 DEF Inv, NeverStuck
    <2>5. SessionsMoveOn' /\ PollsContinue' /\ NothingSkipped'
      BY <2>1, ReadingStays DEF Reading, world
    <2>6. FailuresFit' /\ PollingHasSession' /\ LiveIsNumbered'
      BY <2>1 DEF Inv, FailuresFit, PollingHasSession, LiveIsNumbered, world, bounds
    <2> QED
      BY <2>3, <2>4, <2>5, <2>6 DEF Inv
  <1>2. CASE ResolveFails
    <2>1. UNCHANGED <<world, targetIsChannel, videoId, session, failures, pollTimer,
                      opening, polls, shown, start>>
      BY <1>2 DEF ResolveFails
    <2>2. /\ connectionState' = "Failed" /\ rediscoverTimer' \in BOOLEAN
          /\ targetIsChannel => rediscoverTimer'
      BY <1>2, GiveUpEffect DEF ResolveFails, Inv
    <2>3. /\ resolving' \in Nat /\ errors' \in 0..MaxErrors /\ asks' \in 0..MaxAsks
          /\ errors <= errors'
      BY <1>2, Bounds DEF ResolveFails, Error, bounds, Inv, TypeOK
    <2>4. TypeOK'
      BY <2>1, <2>2, <2>3 DEF Inv, TypeOK, State, world
    <2>5. NeverStuck'
      BY <2>1, <2>2 DEF NeverStuck
    <2>6. SessionsMoveOn' /\ PollsContinue' /\ NothingSkipped'
      BY <2>1, ReadingStays DEF Reading, world
    <2>7. FailuresFit' /\ PollingHasSession' /\ LiveIsNumbered'
      BY <2>1, <2>3, Bounds DEF Inv, TypeOK, FailuresFit, PollingHasSession, LiveIsNumbered, world
    <2> QED
      BY <2>4, <2>5, <2>6, <2>7 DEF Inv
  <1> QED
    BY <1>1, <1>2 DEF Resolved
-----------------------------------------------------------------------------
(* The session and its polls. *)

\* A new session begins with a poll of its own; polls of the one before show what
\* lies before it, or less.
LEMMA OpenSucceedsInv ==
    ASSUME Inv, NEW v \in Video, OpenSucceeds(v)
    PROVE  Inv'
  <1>0. PICK c \in Continuation : c = Reload(v)
    BY ReloadContinues DEF Inv
  <1>1. /\ c \in Continuation /\ c.video = v /\ c.next \in 1..(MaxMessages + 1)
        /\ c # NoSession
    BY <1>0, ReloadContinues DEF Inv
  <1>2. /\ session' = c /\ start' = [start EXCEPT ![v] = c.next]
        /\ failures' = 0 /\ connectionState' = "Connected" /\ Poll(c)
        /\ UNCHANGED <<world, targetIsChannel, videoId, pollTimer, rediscoverTimer,
                       resolving, shown, bounds>>
    BY <1>0 DEF OpenSucceeds
  <1>3. PICK r \in PollRequest :
           /\ r.video = v /\ r.next = c.next
           /\ polls' \in [PollRequest -> Nat] /\ polls'[r] > 0
           /\ \A q \in PollRequest : polls'[q] > 0 => q = r \/ polls[q] > 0
    BY <1>1, <1>2, PollEffect DEF Inv
  <1>4. TypeOK'
    <2>1. opening' \in [Video -> Nat]
      BY DEF OpenSucceeds, OpenAnswered, Inv, TypeOK
    <2>2. start' \in [Video -> 0..(MaxMessages + 1)]
      BY <1>1, <1>2, Bounds DEF Inv, TypeOK
    <2>3. failures' \in 0..MaxErrors /\ connectionState' \in State
      BY <1>2, Bounds DEF State
    <2> QED
      BY <1>1, <1>2, <1>3, <2>1, <2>2, <2>3 DEF Inv, TypeOK, world, bounds
  <1>5. NeverStuck'
    BY <1>1, <1>2, <1>3 DEF NeverStuck
  <1>6. SessionsMoveOn'
    <2> SUFFICES ASSUME NEW w \in Video
                 PROVE  start'[w] <= Reload(w).next
      BY <1>2 DEF SessionsMoveOn, Reload, world
    <2>1. start[w] <= Reload(w).next /\ Reload(w).next \in Nat
      BY ReloadContinues, Bounds DEF Inv, SessionsMoveOn
    <2>2. start'[w] = IF w = v THEN c.next ELSE start[w]
      BY <1>2 DEF Inv, TypeOK
    <2> QED
      BY <1>0, <1>1, <2>1, <2>2
  <1>7. \A d \in PollRequest : ShownUpTo(d) => ShownUpTo(d)'
    <2> SUFFICES ASSUME NEW d \in PollRequest, ShownUpTo(d)
                 PROVE  ShownUpTo(d)'
      OBVIOUS
    <2>1. d.video \in Video /\ d.next \in Nat
      BY Bounds DEF PollRequest
    <2>2. start'[d.video] = IF d.video = v THEN c.next ELSE start[d.video]
      <3>1. start \in [Video -> 0..(MaxMessages + 1)]
        BY DEF Inv, TypeOK
      <3> QED
        BY <1>2, <2>1, <3>1
    <2>3. start[v] <= c.next
      BY <1>0 DEF Inv, SessionsMoveOn
    <2>4. start[d.video] \in Nat /\ c.next \in Nat
      <3>1. start \in [Video -> 0..(MaxMessages + 1)]
        BY DEF Inv, TypeOK
      <3>2. start[d.video] \in 0..(MaxMessages + 1)
        BY <2>1, <3>1
      <3> QED
        BY <1>1, <3>2, Bounds
    <2>5. start'[d.video] \in Nat /\ start[d.video] <= start'[d.video]
      BY <2>2, <2>3, <2>4
    <2> QED
      BY <1>2, <2>1, <2>4, <2>5 DEF ShownUpTo
  <1>8. ShownUpTo(c)'
    <2>1. start'[v] = c.next
      BY <1>2 DEF Inv, TypeOK
    <2> QED
      BY <1>1, <2>1, Bounds DEF ShownUpTo
  <1>9. PollsContinue' /\ NothingSkipped'
    <2>1. PollsContinue'
      <3>1. ShownUpTo(r)'
        BY <1>1, <1>3, <1>8 DEF ShownUpTo
      <3> QED
        BY <1>3, <1>7, <3>1 DEF Inv, PollsContinue
    <2>2. NothingSkipped'
      BY <1>2, <1>8 DEF NothingSkipped, ShownUpTo
    <2> QED
      BY <2>1, <2>2
  <1>10. FailuresFit' /\ PollingHasSession' /\ LiveIsNumbered'
    BY <1>1, <1>2, Bounds DEF Inv, TypeOK, FailuresFit, PollingHasSession, LiveIsNumbered,
                              world, bounds
  <1> QED
    BY <1>4, <1>5, <1>6, <1>9, <1>10 DEF Inv

\* A chat page that fails leaves the session as it is.
LEMMA OpenFailsInv ==
    ASSUME Inv, NEW v \in Video, OpenFails(v)
    PROVE  Inv'
  <1>1. UNCHANGED <<world, targetIsChannel, videoId, session, failures, pollTimer,
                    resolving, polls, shown, start>>
    BY DEF OpenFails
  <1>2. /\ connectionState' = "Failed" /\ rediscoverTimer' \in BOOLEAN
        /\ targetIsChannel => rediscoverTimer'
    BY GiveUpEffect DEF OpenFails, Inv
  <1>3. /\ opening' \in [Video -> Nat] /\ errors' \in 0..MaxErrors /\ asks' \in 0..MaxAsks
        /\ errors <= errors'
    <2>1. opening' \in [Video -> Nat]
      BY DEF OpenFails, OpenAnswered, Inv, TypeOK
    <2>2. errors' \in 0..MaxErrors /\ asks' \in 0..MaxAsks /\ errors <= errors'
      BY Bounds DEF OpenFails, Error, bounds, Inv, TypeOK
    <2> QED
      BY <2>1, <2>2
  <1>4. TypeOK'
    BY <1>1, <1>2, <1>3 DEF Inv, TypeOK, State, world
  <1>5. NeverStuck'
    BY <1>1, <1>2 DEF NeverStuck
  <1>6. SessionsMoveOn' /\ PollsContinue' /\ NothingSkipped'
    BY <1>1, ReadingStays DEF Reading, world
  <1>7. FailuresFit' /\ PollingHasSession' /\ LiveIsNumbered'
    BY <1>1, <1>3, Bounds DEF Inv, TypeOK, FailuresFit, PollingHasSession, LiveIsNumbered, world
  <1> QED
    BY <1>4, <1>5, <1>6, <1>7 DEF Inv

\* The timer asks with the continuation the session has.
LEMMA PollTimeoutInv ==
    ASSUME Inv, PollTimeout
    PROVE  Inv'
  <1>1. /\ pollTimer' = FALSE /\ session \in Continuation /\ Poll(session)
        /\ UNCHANGED <<world, targetIsChannel, connectionState, videoId, session, failures,
                       rediscoverTimer, resolving, opening, shown, start, bounds>>
    BY DEF PollTimeout, Inv, TypeOK
  <1>2. PICK r \in PollRequest :
           /\ r.video = session.video /\ r.next = session.next
           /\ polls' \in [PollRequest -> Nat] /\ polls'[r] > 0
           /\ \A q \in PollRequest : polls'[q] > 0 => q = r \/ polls[q] > 0
    BY <1>1, PollEffect DEF Inv
  <1>3. TypeOK'
    BY <1>1, <1>2 DEF Inv, TypeOK, world, bounds
  <1>4. NeverStuck'
    BY <1>1, <1>2 DEF Inv, NeverStuck
  <1>5. ShownUpTo(r)
    BY <1>2 DEF PollTimeout, Inv, NothingSkipped, ShownUpTo
  <1>6. PollsContinue'
    BY <1>1, <1>2, <1>5 DEF Inv, PollsContinue, ShownUpTo
  <1>7. SessionsMoveOn' /\ NothingSkipped'
    BY <1>1 DEF Inv, SessionsMoveOn, NothingSkipped, Reload, world
  <1>8. FailuresFit' /\ PollingHasSession' /\ LiveIsNumbered'
    BY <1>1 DEF PollTimeout, Inv, FailuresFit, PollingHasSession, LiveIsNumbered, world,
                bounds
  <1> QED
    BY <1>3, <1>4, <1>6, <1>7, <1>8 DEF Inv

\* An answer, also one to a poll of an older session, continues where every message
\* was shown.
LEMMA PollSucceedsInv ==
    ASSUME Inv, NEW c \in PollRequest, PollSucceeds(c)
    PROVE  Inv'
  <1>0. PICK upTo \in (c.next - 1)..chat[c.video] :
           /\ shown' = [shown EXCEPT ![c.video] = @ \cup c.next..upTo]
           /\ session' = NextContinuation(c, upTo)
    BY DEF PollSucceeds
  <1>1. /\ failures' = 0 /\ connectionState' = "Connected" /\ pollTimer' = TRUE
        /\ UNCHANGED <<world, targetIsChannel, videoId, rediscoverTimer, resolving,
                       opening, start, bounds>>
    BY DEF PollSucceeds
  <1>2. /\ polls' \in [PollRequest -> Nat] /\ polls[c] > 0
        /\ \A d \in PollRequest : polls'[d] > 0 => polls[d] > 0
    BY PollAnsweredEffect DEF PollSucceeds, Inv
  <1>3. c.video \in Video /\ c.next \in 1..(MaxMessages + 1)
    BY DEF PollRequest
  <1>4. upTo \in 0..MaxMessages
    <2>1. chat[c.video] \in 0..MaxMessages
      BY <1>3 DEF Inv, TypeOK
    <2> QED
      BY <1>3, <2>1, Bounds
  <1>5. /\ session' \in Continuation
        /\ session'.video = c.video /\ session'.next = upTo + 1
        /\ session' # NoSession
    BY <1>0, <1>3, <1>4, Bounds DEF NextContinuation, Continuation, NoSession
  <1>6. TypeOK'
    <2>1. c.next..upTo \subseteq 1..MaxMessages
      BY <1>3, <1>4, Bounds
    <2>2. shown' \in [Video -> SUBSET (1..MaxMessages)]
      BY <1>0, <1>3, <2>1 DEF Inv, TypeOK
    <2>3. connectionState' \in State /\ failures' \in 0..MaxErrors /\ pollTimer' \in BOOLEAN
      BY <1>1, Bounds DEF State
    <2> QED
      BY <1>1, <1>2, <1>5, <2>2, <2>3 DEF Inv, TypeOK, world, bounds
  <1>7. NeverStuck'
    BY <1>1 DEF NeverStuck
  <1>8. \A d \in PollRequest : ShownUpTo(d) => ShownUpTo(d)'
    <2> SUFFICES ASSUME NEW d \in PollRequest, ShownUpTo(d)
                 PROVE  ShownUpTo(d)'
      OBVIOUS
    <2>1. shown[d.video] \subseteq shown'[d.video]
      BY <1>0, <1>3 DEF Inv, TypeOK, PollRequest
    <2> QED
      BY <1>1, <2>1 DEF ShownUpTo
  <1>9. PollsContinue'
    BY <1>2, <1>8 DEF Inv, PollsContinue
  <1>10. NothingSkipped'
    <2>1. start[c.video]..(c.next - 1) \subseteq shown[c.video]
      BY <1>2 DEF Inv, PollsContinue, ShownUpTo
    <2>2. shown'[c.video] = shown[c.video] \cup c.next..upTo
      BY <1>0, <1>3 DEF Inv, TypeOK
    <2>3. start[c.video] \in Nat
      <3>1. start \in [Video -> 0..(MaxMessages + 1)]
        BY DEF Inv, TypeOK
      <3>2. start[c.video] \in 0..(MaxMessages + 1)
        BY <1>3, <3>1
      <3> QED
        BY <3>2, Bounds
    <2>4. start[c.video]..upTo \subseteq shown'[c.video]
      BY <1>3, <1>4, <2>1, <2>2, <2>3, Bounds
    <2>5. session'.video = c.video /\ session'.next - 1 = upTo
      BY <1>4, <1>5
    <2> QED
      BY <1>1, <2>4, <2>5 DEF NothingSkipped
  <1>11. SessionsMoveOn'
    BY <1>1 DEF Inv, SessionsMoveOn, Reload, world
  <1>12. FailuresFit' /\ PollingHasSession' /\ LiveIsNumbered'
    BY <1>1, <1>5, Bounds DEF Inv, TypeOK, FailuresFit, PollingHasSession, LiveIsNumbered,
                              world, bounds
  <1> QED
    BY <1>6, <1>7, <1>9, <1>10, <1>11, <1>12 DEF Inv

\* A chat that ended leaves the timer that looks for the next broadcast; a failure
\* leaves one that polls or looks.
LEMMA PollLostInv ==
    ASSUME Inv, NEW c \in PollRequest, PollEnds(c) \/ PollFails(c)
    PROVE  Inv'
  <1>1. UNCHANGED <<world, targetIsChannel, videoId, session, resolving, opening, shown,
                    start>>
    BY DEF PollEnds, PollFails
  <1>2. /\ polls' \in [PollRequest -> Nat] /\ polls[c] > 0
        /\ \A d \in PollRequest : polls'[d] > 0 => polls[d] > 0
    BY PollAnsweredEffect DEF PollEnds, PollFails, Inv
  <1>3. /\ failures' \in Nat /\ failures' <= errors'
        /\ errors' \in 0..MaxErrors /\ asks' \in 0..MaxAsks
    <2>1. CASE PollEnds(c)
      BY <2>1, Bounds DEF PollEnds, Error, bounds, Inv, TypeOK, FailuresFit
    <2>2. CASE PollFails(c)
      BY <2>2, Bounds DEF PollFails, Error, Inv, TypeOK, FailuresFit
    <2> QED
      BY <2>1, <2>2
  <1>4. /\ connectionState' \in {"Ended", "Failed", "Reconnecting"}
        /\ connectionState' = "Reconnecting" => pollTimer'
        /\ connectionState' # "Reconnecting" /\ targetIsChannel => rediscoverTimer'
        /\ pollTimer' \in BOOLEAN /\ rediscoverTimer' \in BOOLEAN
    <2>1. CASE PollEnds(c)
      BY <2>1 DEF PollEnds, ScheduleRediscovery, Inv, TypeOK
    <2>2. CASE PollFails(c)
      BY <2>2, GiveUpEffect DEF PollFails, AfterFailure, Inv, TypeOK
    <2> QED
      BY <2>1, <2>2
  <1>5. TypeOK'
    <2>1. failures' \in 0..MaxErrors /\ connectionState' \in State
      BY <1>3, <1>4, Bounds DEF State
    <2> QED
      BY <1>1, <1>2, <1>3, <1>4, <2>1 DEF Inv, TypeOK, world
  <1>6. NeverStuck'
    BY <1>1, <1>4 DEF NeverStuck
  <1>7. PollsContinue'
    BY <1>1, <1>2 DEF Inv, PollsContinue, ShownUpTo
  <1>8. SessionsMoveOn' /\ NothingSkipped'
    BY <1>1 DEF Inv, SessionsMoveOn, NothingSkipped, Reload, world
  <1>9. session # NoSession
    BY <1>2 DEF Inv, PollingHasSession
  <1>10. FailuresFit' /\ PollingHasSession' /\ LiveIsNumbered'
    BY <1>1, <1>3, <1>9 DEF Inv, FailuresFit, PollingHasSession, LiveIsNumbered, world
  <1> QED
    BY <1>5, <1>6, <1>7, <1>8, <1>10 DEF Inv
-----------------------------------------------------------------------------
LEMMA NextInv == Inv /\ [Next]_vars => Inv'
  <1> SUFFICES ASSUME Inv, [Next]_vars
               PROVE  Inv'
    OBVIOUS
  <1>1. CASE StreamStarts \/ StreamEnds \/ SomebodyWrites
    BY <1>1, WorldInv
  <1>2. CASE Connect \/ Reconnect \/ RediscoverTimeout
    BY <1>2, LookInv
  <1>3. CASE Resolved
    BY <1>3, ResolvedInv
  <1>4. ASSUME NEW v \in Video, Opened(v)
        PROVE  Inv'
    BY <1>4, OpenSucceedsInv, OpenFailsInv DEF Opened
  <1>5. CASE PollTimeout
    BY <1>5, PollTimeoutInv
  <1>6. ASSUME NEW q \in PollRequest, Polled(q)
        PROVE  Inv'
    BY <1>6, PollSucceedsInv, PollLostInv DEF Polled
  <1>7. CASE UNCHANGED vars
    BY <1>7 DEF vars, world, channel, bounds, Inv, TypeOK, FailuresFit, LiveIsNumbered,
                NeverStuck, PollingHasSession, SessionsMoveOn, PollsContinue, ShownUpTo,
                NothingSkipped, Reload
  <1> QED
    BY <1>1, <1>2, <1>3, <1>4, <1>5, <1>6, <1>7 DEF Next

LEMMA InvIsInvariant == Spec => []Inv
  BY InitInv, NextInv, PTL DEF Spec

\* The channel keeps its types; failures in a row never exceed those that happened.
THEOREM TypeCorrect == Spec => []TypeOK
  <1>1. Inv => TypeOK
    BY DEF Inv
  <1> QED
    BY <1>1, InvIsInvariant, PTL

\* However reconnects, failures and late answers interleave, a channel that promises
\* something has a request or a timer that brings it.
THEOREM ChannelNeverStuck == Spec => []NeverStuck
  <1>1. Inv => NeverStuck
    BY DEF Inv
  <1> QED
    BY <1>1, InvIsInvariant, PTL

\* No message between the start of a session and its continuation is left out,
\* whichever session the poll that is answered belongs to.
THEOREM ChannelSkipsNothing == Spec => []NothingSkipped
  <1>1. Inv => NothingSkipped
    BY DEF Inv
  <1> QED
    BY <1>1, InvIsInvariant, PTL
-----------------------------------------------------------------------------
(* YouTubeSends. *)

\* Moving a message on leaves it a message.
LEMMA MessageMoves ==
    ASSUME NEW s \in Send, sends \in [Send -> Message], NEW m \in Message,
           sends' = [sends EXCEPT ![s] = m]
    PROVE  sends' \in [Send -> Message]
  OBVIOUS

\* withFreshToken() changes the stage and what comes after it.
LEMMA WithFreshTokenIsMessage ==
    ASSUME NEW m \in Message, NEW next \in {"find", "post"}
    PROVE  WithFreshToken(m, next) \in Message
  BY DEF WithFreshToken, Message

\* A broadcast number is a number.
LEMMA BroadcastsCount == MaxBroadcasts \in Nat
  BY SendsAssumption

\* New tokens never replace a refresh token by none.
LEMMA SetTokensKeeps ==
    ASSUME account \in Account, NEW given \in BOOLEAN, SetTokens(given)
    PROVE  /\ account' \in Account
           /\ account.refreshToken => account'.refreshToken
  BY DEF SetTokens, Account
-----------------------------------------------------------------------------
LEMMA SendsInitTypeOK == SendsInit => SendsTypeOK
  <1> SUFFICES ASSUME SendsInit
               PROVE  SendsTypeOK
    OBVIOUS
  <1>1. Unsent \in Message
    BY BroadcastsCount DEF Unsent, Message
  <1>2. sends \in [Send -> Message]
    BY <1>1 DEF SendsInit
  <1>3. account \in Account
    BY DEF SendsInit, SignedOut, Account
  <1>4. consent \in BOOLEAN
    BY DEF SendsInit
  <1> QED
    BY <1>2, <1>3, <1>4, BroadcastsCount DEF SendsInit, SendsTypeOK

\* Signing in and out, expiry and the next broadcast leave every message alone.
LEMMA AccountStepTypeOK ==
    ASSUME SendsTypeOK,
           \/ StartSignIn \/ ExchangeSucceeds \/ ExchangeFails \/ SignOut
           \/ TokenExpires \/ Revoke \/ NextBroadcast
    PROVE  SendsTypeOK'
  <1>1. CASE StartSignIn
    BY <1>1 DEF StartSignIn, SendsTypeOK
  <1>2. CASE ExchangeSucceeds
    <2>1. account' \in Account
      BY <1>2, SetTokensKeeps DEF ExchangeSucceeds, SendsTypeOK
    <2>2. consent' \in BOOLEAN
      BY <1>2 DEF ExchangeSucceeds
    <2> QED
      BY <1>2, <2>1, <2>2 DEF ExchangeSucceeds, SendsTypeOK
  <1>3. CASE ExchangeFails
    BY <1>3 DEF ExchangeFails, SendsTypeOK
  <1>4. CASE SignOut
    BY <1>4 DEF SignOut, SendsTypeOK, SignedOut, Account
  <1>5. CASE TokenExpires
    BY <1>5 DEF TokenExpires, SendsTypeOK, Account
  <1>6. CASE Revoke
    BY <1>6 DEF Revoke, SendsTypeOK
  <1>7. CASE NextBroadcast
    BY <1>7, BroadcastsCount DEF NextBroadcast, SendsTypeOK
  <1> QED
    BY <1>1, <1>2, <1>3, <1>4, <1>5, <1>6, <1>7

\* A message that is written starts with what the channel knows.
LEMMA SendMessageTypeOK ==
    ASSUME SendsTypeOK, NEW s \in Send, SendMessage(s)
    PROVE  SendsTypeOK'
  <1> DEFINE m == [Unsent EXCEPT !.watched = videoId, !.chat = liveChatId]
             n == IF ~isAuthenticated \/ videoId = 0 THEN [m EXCEPT !.stage = "failed"]
                  ELSE WithFreshToken(m, IF liveChatId # 0 THEN "post" ELSE "find")
  <1>1. m \in Message
    BY DEF SendsTypeOK, Unsent, Message
  <1>2. n \in Message
    <2>1. [m EXCEPT !.stage = "failed"] \in Message
      BY <1>1 DEF Message
    <2>2. WithFreshToken(m, IF liveChatId # 0 THEN "post" ELSE "find") \in Message
      BY <1>1, WithFreshTokenIsMessage
    <2> QED
      BY <2>1, <2>2
  <1>3. sends' = [sends EXCEPT ![s] = n]
    BY DEF SendMessage
  <1>4. sends' \in [Send -> Message]
    <2> HIDE DEF n
    <2> QED
      BY <1>2, <1>3, MessageMoves DEF SendsTypeOK
  <1> QED
    BY <1>4 DEF SendMessage, SendsTypeOK

\* So does every answer.
LEMMA AnswerTypeOK ==
    ASSUME SendsTypeOK, NEW s \in Send, Answered(s)
    PROVE  SendsTypeOK'
  <1> USE DEF SendsTypeOK
  <1>0. sends[s] \in Message
    OBVIOUS
  <1>1. CASE RefreshAnswered(s)
    <2>1. \A ok \in BOOLEAN : AfterRefresh(sends[s], ok) \in Message
      BY <1>0 DEF AfterRefresh, Message
    <2>2. sends' \in [Send -> Message]
      BY <1>1, <2>1, MessageMoves DEF RefreshAnswered
    <2>3. account' \in Account
      BY <1>1, SetTokensKeeps DEF RefreshAnswered
    <2> QED
      BY <1>1, <2>2, <2>3 DEF RefreshAnswered
  <1>2. CASE FindAnswered(s)
    <2> DEFINE found == sends[s].watched
    <2>1. found \in 0..MaxBroadcasts /\ [sends[s] EXCEPT !.chat = found] \in Message
      BY <1>0 DEF Message
    <2>2. WithFreshToken([sends[s] EXCEPT !.chat = found], "post") \in Message
      BY <2>1, WithFreshTokenIsMessage
    <2>3. [sends[s] EXCEPT !.stage = "failed"] \in Message
      BY <1>0 DEF Message
    <2>4. sends' \in [Send -> Message]
      BY <1>2, <2>2, <2>3, MessageMoves DEF FindAnswered
    <2> QED
      BY <1>2, <2>1, <2>4 DEF FindAnswered
  <1>3. CASE PostAnswered(s)
    <2>1. \A outcome \in {"sent", "failed"} : [sends[s] EXCEPT !.stage = outcome] \in Message
      BY <1>0 DEF Message
    <2>2. sends' \in [Send -> Message]
      BY <1>3, <2>1, MessageMoves DEF PostAnswered
    <2> QED
      BY <1>3, <2>2 DEF PostAnswered
  <1> QED
    BY <1>1, <1>2, <1>3 DEF Answered

\* Messages and tokens keep their types, whatever happens to them.
THEOREM SendsTypeCorrect == SendsSpec => []SendsTypeOK
  <1>1. SendsTypeOK /\ [SendsNext]_sendsVars => SendsTypeOK'
    <2> SUFFICES ASSUME SendsTypeOK, [SendsNext]_sendsVars
                 PROVE  SendsTypeOK'
      OBVIOUS
    <2>1. CASE \/ StartSignIn \/ ExchangeSucceeds \/ ExchangeFails \/ SignOut
               \/ TokenExpires \/ Revoke \/ NextBroadcast
      BY <2>1, AccountStepTypeOK
    <2>2. ASSUME NEW s \in Send, SendMessage(s) \/ Answered(s)
          PROVE  SendsTypeOK'
      BY <2>2, SendMessageTypeOK, AnswerTypeOK
    <2>3. CASE UNCHANGED sendsVars
      BY <2>3 DEF SendsTypeOK, sendsVars
    <2> QED
      BY <2>1, <2>2, <2>3 DEF SendsNext
  <1> QED
    BY <1>1, SendsInitTypeOK, PTL DEF SendsSpec

\* Nothing but signing out takes a refresh token away: an answer that names none
\* keeps the one that is stored.
LEMMA OnlySignOutForgets ==
    ASSUME SendsTypeOK, [SendsNext]_sendsVars, account.refreshToken, ~account'.refreshToken
    PROVE  account' = SignedOut
  <1> SUFFICES ASSUME account' # account, ~SignOut
               PROVE  account'.refreshToken
    BY DEF SignOut
  <1>1. CASE ExchangeSucceeds
    BY <1>1, SetTokensKeeps DEF ExchangeSucceeds, SendsTypeOK
  <1>2. CASE TokenExpires
    BY <1>2 DEF TokenExpires, SendsTypeOK, Account
  <1>3. ASSUME NEW s \in Send, RefreshAnswered(s)
        PROVE  account'.refreshToken
    BY <1>3, SetTokensKeeps DEF RefreshAnswered, SendsTypeOK
  <1>4. \/ ExchangeSucceeds \/ TokenExpires
        \/ \E s \in Send : RefreshAnswered(s)
    BY DEF SendsNext, sendsVars, StartSignIn, ExchangeFails, Revoke, NextBroadcast, SendMessage,
           Answered, FindAnswered, PostAnswered
  <1> QED
    BY <1>1, <1>2, <1>3, <1>4

\* Who signed in can renew the tokens until they sign out.
THEOREM RefreshTokenKept == SendsSpec => RefreshTokenIsKept
  <1>1. SendsTypeOK /\ [SendsNext]_sendsVars =>
            [account.refreshToken /\ ~account'.refreshToken => account' = SignedOut]_sendsVars
    BY OnlySignOutForgets
  <1> QED
    BY <1>1, SendsTypeCorrect, PTL DEF SendsSpec, RefreshTokenIsKept
=============================================================================
