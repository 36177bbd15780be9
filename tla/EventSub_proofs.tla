--------------------------- MODULE EventSub_proofs ---------------------------
(***************************************************************************)
(* Invariance proofs for EventSub, for every set of requests and users and *)
(* every bound.                                                            *)
(***************************************************************************)
EXTENDS EventSub, SequenceTheorems, FiniteSetTheorems, WellFoundedInduction, TLAPS

\* What says Subscribed has an entry.
SubscribedIsListed == \A r \in Request : subs[r].state = "Subscribed" => subs[r].listed

\* SubscribedIsHeard, also for what nobody holds: a handle may be taken again.
Heard(r) ==
    subs[r].state = "Subscribed" =>
        \E s \in DOMAIN sessions :
            /\ r \in sessions[s].subscriptions
            /\ [req |-> r, id |-> sessions[s].sessionID] \in server

SubscribedAreHeard == \A r \in Request : Heard(r)

\* A connection without a listener has nothing.
DeadHasNothing == \A s \in DOMAIN sessions : ~sessions[s].alive => sessions[s] = Dead

\* OneConnectionAtATime without counting
OneIsNotReady == \A s, t \in NotReady : s = t

\* A session has the id it was welcomed with, or that of a session that moved to it.
IdsFit ==
    \A s \in DOMAIN sessions : sessions[s].sessionID \notin {0, s} =>
        /\ sessions[s].sessionID \in DOMAIN sessions
        /\ ~sessions[sessions[s].sessionID].alive

\* No two sessions have the same id, so that losing one takes nothing from another.
IdsDiffer ==
    \A s, t \in DOMAIN sessions :
        sessions[s].sessionID # 0 /\ sessions[s].sessionID = sessions[t].sessionID => s = t

Connections == DeadHasNothing /\ OneIsNotReady /\ IdsFit /\ IdsDiffer

\* A Helix request under way names a session that was ready when it was sent.
RequestsHaveSession ==
    \A r \in Request, s \in Session : creating[r][s] > 0 =>
        /\ s \in DOMAIN sessions
        /\ sessions[s].alive => sessions[s].sessionID # 0

\* The inductive invariant.
Inv ==
    /\ TypeOK
    /\ HandlesAreCounted
    /\ SubscribedIsListed
    /\ SubscribedAreHeard
    /\ Connections
    /\ RequestsHaveSession
-----------------------------------------------------------------------------
(* Connections. *)

LEMMA Bounds ==
    /\ MaxSessions \in Nat /\ MaxLosses \in Nat /\ MaxErrors \in Nat /\ MaxAsks \in Nat
    /\ Session = 1..MaxSessions
    /\ NoUser \notin User
    /\ \A r \in Request : Owner[r] \in User
  <1>1. {MaxSessions, MaxLosses, MaxErrors, MaxAsks} \subseteq Nat
    BY EventSubAssumption
  <1> QED
    BY <1>1, EventSubAssumption DEF Session

\* The sessions are a function of their numbers.
LEMMA SessionsAre ==
    ASSUME TypeOK
    PROVE  /\ sessions \in Seq(Connection)
           /\ Len(sessions) \in Nat /\ Len(sessions) <= MaxSessions
           /\ DOMAIN sessions = 1..Len(sessions)
           /\ DOMAIN sessions \subseteq Session
           /\ \A s \in DOMAIN sessions : sessions[s] \in Connection
  <1>1. sessions \in Seq(Connection) /\ Len(sessions) <= MaxSessions
    BY DEF TypeOK
  <1>2. Len(sessions) \in Nat /\ DOMAIN sessions = 1..Len(sessions)
    BY <1>1, LenProperties
  <1>3. \A s \in 1..Len(sessions) : sessions[s] \in Connection
    BY <1>1, ElementOfSeq
  <1> QED
    BY <1>1, <1>2, <1>3, Bounds

LEMMA DeadIsConnection ==
    /\ Dead \in Connection /\ ~Dead.alive /\ Dead.sessionID = 0 /\ Dead.subscriptions = {}
    /\ NewConnection \in Connection /\ NewConnection.alive /\ NewConnection.sessionID = 0
  BY DEF Dead, NewConnection, Connection

\* No connection comes back to life or loses its id alone, which is what a request
\* under way needs.
Continued ==
    \A s \in DOMAIN sessions :
        /\ s \in DOMAIN sessions'
        /\ sessions'[s].alive =>
               /\ sessions[s].alive
               /\ sessions[s].sessionID # 0 => sessions'[s].sessionID # 0

\* No connection loses what it is subscribed to.
Kept ==
    \A s \in DOMAIN sessions :
        /\ s \in DOMAIN sessions'
        /\ sessions[s].subscriptions \subseteq sessions'[s].subscriptions
        /\ sessions[s].sessionID # 0 => sessions'[s].sessionID = sessions[s].sessionID

\* createConnection(), when none is on its way
LEMMA ConnectionMade ==
    ASSUME TypeOK, Connections, NotReady = {}, Len(sessions) + 1 <= MaxSessions,
           sessions' = Append(sessions, NewConnection)
    PROVE  /\ sessions' \in Seq(Connection) /\ Len(sessions') <= MaxSessions
           /\ Connections' /\ Continued /\ Kept
  <1>1. /\ sessions' \in Seq(Connection) /\ Len(sessions') = Len(sessions) + 1
        /\ \A s \in 1..Len(sessions) : sessions'[s] = sessions[s]
        /\ sessions'[Len(sessions) + 1] = NewConnection
    BY SessionsAre, DeadIsConnection, AppendProperties
  <1>2. DOMAIN sessions' = 1..(Len(sessions) + 1)
    BY <1>1, LenProperties
  <1>3. /\ DOMAIN sessions' = DOMAIN sessions \cup {Len(sessions) + 1}
        /\ Len(sessions) + 1 \notin DOMAIN sessions
        /\ \A s \in DOMAIN sessions : sessions'[s] = sessions[s]
    BY <1>1, <1>2, SessionsAre
  <1>4. DeadHasNothing'
    BY <1>1, <1>3, DeadIsConnection DEF Connections, DeadHasNothing
  <1>5. OneIsNotReady'
    BY <1>3 DEF OneIsNotReady, NotReady, Alive
  <1>6. IdsFit' /\ IdsDiffer'
    BY <1>1, <1>3, DeadIsConnection DEF Connections, IdsFit, IdsDiffer
  <1> QED
    BY <1>1, <1>3, <1>4, <1>5, <1>6 DEF Connections, Continued, Kept

\* Changing one connection leaves the others.
LEMMA OneChanges ==
    ASSUME TypeOK, NEW s \in DOMAIN sessions, NEW c \in Connection,
           sessions' = [sessions EXCEPT ![s] = c]
    PROVE  /\ sessions' \in Seq(Connection) /\ Len(sessions') = Len(sessions)
           /\ DOMAIN sessions' = DOMAIN sessions
           /\ sessions'[s] = c
           /\ \A t \in DOMAIN sessions : t # s => sessions'[t] = sessions[t]
  <1>1. s \in 1..Len(sessions) /\ sessions \in Seq(Connection)
    BY SessionsAre
  <1>2. /\ sessions' \in Seq(Connection) /\ Len(sessions') = Len(sessions)
        /\ \A j \in 1..Len(sessions) : sessions'[j] = IF j = s THEN c ELSE sessions[j]
    BY <1>1, ExceptSeq
  <1> QED
    BY <1>2, SessionsAre, LenProperties

\* What a live connection is subscribed to has no part in its identity.
LEMMA ConnectionChanged ==
    ASSUME TypeOK, Connections, NEW s \in DOMAIN sessions, NEW c \in Connection,
           sessions[s].alive, c.alive, c.sessionID = sessions[s].sessionID,
           sessions' = [sessions EXCEPT ![s] = c]
    PROVE  /\ sessions' \in Seq(Connection) /\ Len(sessions') <= MaxSessions
           /\ Connections' /\ Continued
  <1>1. /\ sessions' \in Seq(Connection) /\ Len(sessions') = Len(sessions)
        /\ DOMAIN sessions' = DOMAIN sessions
        /\ sessions'[s] = c
        /\ \A t \in DOMAIN sessions : t # s => sessions'[t] = sessions[t]
    BY OneChanges
  <1>2. \A t \in DOMAIN sessions : /\ sessions'[t].alive = sessions[t].alive
                                   /\ sessions'[t].sessionID = sessions[t].sessionID
    BY <1>1
  <1>3. DeadHasNothing'
    BY <1>1 DEF Connections, DeadHasNothing
  <1>4. OneIsNotReady' /\ IdsFit' /\ IdsDiffer'
    BY <1>1, <1>2 DEF Connections, OneIsNotReady, NotReady, Alive, IdsFit, IdsDiffer
  <1> QED
    BY <1>1, <1>2, <1>3, <1>4, SessionsAre DEF Connections, Continued

\* The id of a welcome is its own: whoever had it before is dead.
LEMMA ConnectionWelcomed ==
    ASSUME TypeOK, Connections, NEW s \in NotReady,
           sessions' = [sessions EXCEPT ![s].sessionID = s]
    PROVE  /\ sessions' \in Seq(Connection) /\ Len(sessions') <= MaxSessions
           /\ Connections' /\ Continued /\ Kept
  <1>1. s \in DOMAIN sessions /\ sessions[s].alive /\ sessions[s].sessionID = 0
    BY DEF NotReady, Alive
  <1>2. PICK c \in Connection : c = [sessions[s] EXCEPT !.sessionID = s]
    BY <1>1, SessionsAre DEF Connection
  <1>3. /\ c.alive /\ c.sessionID = s /\ c.subscriptions = sessions[s].subscriptions
        /\ sessions' = [sessions EXCEPT ![s] = c]
    BY <1>1, <1>2, SessionsAre DEF Connection
  <1>4. /\ sessions' \in Seq(Connection) /\ Len(sessions') = Len(sessions)
        /\ DOMAIN sessions' = DOMAIN sessions
        /\ sessions'[s] = c
        /\ \A t \in DOMAIN sessions : t # s => sessions'[t] = sessions[t]
    BY <1>1, <1>3, OneChanges
  <1>5. DeadHasNothing'
    BY <1>3, <1>4 DEF Connections, DeadHasNothing
  <1>6. OneIsNotReady'
    BY <1>1, <1>3, <1>4, SessionsAre, Bounds
       DEF Connections, OneIsNotReady, NotReady, Alive
  <1>7. IdsFit'
    BY <1>1, <1>3, <1>4 DEF Connections, IdsFit
  <1>8. IdsDiffer'
    <2>1. \A t \in DOMAIN sessions : t # s => sessions[t].sessionID # s
      BY <1>1, SessionsAre, Bounds DEF Connections, IdsFit
    <2> QED
      BY <1>3, <1>4, <2>1 DEF Connections, IdsDiffer
  <1> QED
    BY <1>1, <1>3, <1>4, <1>5, <1>6, <1>7, <1>8, SessionsAre DEF Connections, Continued, Kept

\* Losing a connection leaves the others and their ids.
LEMMA ConnectionLost ==
    ASSUME TypeOK, Connections, NEW s \in DOMAIN sessions,
           sessions' = [sessions EXCEPT ![s] = Dead]
    PROVE  /\ sessions' \in Seq(Connection) /\ Len(sessions') <= MaxSessions
           /\ Connections' /\ Continued
           /\ DOMAIN sessions' = DOMAIN sessions
           /\ \A t \in DOMAIN sessions : t # s => sessions'[t] = sessions[t]
  <1>1. /\ sessions' \in Seq(Connection) /\ Len(sessions') = Len(sessions)
        /\ DOMAIN sessions' = DOMAIN sessions
        /\ sessions'[s] = Dead
        /\ \A t \in DOMAIN sessions : t # s => sessions'[t] = sessions[t]
    BY DeadIsConnection, OneChanges
  <1>2. DeadHasNothing' /\ OneIsNotReady'
    BY <1>1, DeadIsConnection DEF Connections, DeadHasNothing, OneIsNotReady, NotReady, Alive
  <1>3. IdsFit' /\ IdsDiffer'
    BY <1>1, DeadIsConnection DEF Connections, IdsFit, IdsDiffer
  <1> QED
    BY <1>1, <1>2, <1>3, DeadIsConnection, SessionsAre DEF Connections, Continued

\* A session that moves takes its id with it; the old one is dead.
LEMMA ConnectionMoved ==
    ASSUME TypeOK, Connections, NEW s \in DOMAIN sessions,
           sessions[s].alive, sessions[s].sessionID # 0,
           Len(sessions) < MaxSessions,
           sessions' = Append([sessions EXCEPT ![s] = Dead], sessions[s])
    PROVE  /\ sessions' \in Seq(Connection) /\ Len(sessions') <= MaxSessions
           /\ Connections' /\ Continued
           /\ DOMAIN sessions' = DOMAIN sessions \cup {Len(sessions) + 1}
           /\ sessions'[Len(sessions) + 1] = sessions[s]
           /\ \A t \in DOMAIN sessions : t # s => sessions'[t] = sessions[t]
  <1> DEFINE n == Len(sessions) + 1
  <1>1. PICK other \in Seq(Connection) : other = [sessions EXCEPT ![s] = Dead]
    BY SessionsAre, DeadIsConnection, ExceptSeq
  <1>2. /\ Len(other) = Len(sessions) /\ other[s] = Dead
        /\ \A t \in 1..Len(sessions) : t # s => other[t] = sessions[t]
    BY <1>1, SessionsAre, DeadIsConnection, ExceptSeq
  <1>3. sessions' = Append(other, sessions[s]) /\ sessions[s] \in Connection
    BY <1>1, SessionsAre
  <1>4. /\ sessions' \in Seq(Connection) /\ Len(sessions') = n
        /\ \A t \in 1..Len(sessions) : sessions'[t] = other[t]
        /\ sessions'[n] = sessions[s]
    <2>1. /\ Append(other, sessions[s]) \in Seq(Connection)
          /\ Len(Append(other, sessions[s])) = Len(other) + 1
          /\ \A t \in 1..Len(other) : Append(other, sessions[s])[t] = other[t]
          /\ Append(other, sessions[s])[Len(other) + 1] = sessions[s]
      BY <1>3, AppendProperties
    <2> QED
      BY <1>2, <1>3, <2>1
  <1>5. DOMAIN sessions' = 1..n
    BY <1>4, LenProperties
  <1>6. /\ DOMAIN sessions' = DOMAIN sessions \cup {n} /\ n \notin DOMAIN sessions
        /\ sessions'[s] = Dead
        /\ \A t \in DOMAIN sessions : t # s => sessions'[t] = sessions[t]
    BY <1>2, <1>4, <1>5, SessionsAre
  <1>7. Len(sessions') <= MaxSessions
    BY <1>4, SessionsAre, Bounds
  <1> HIDE DEF n
  <1>8. DeadHasNothing' /\ OneIsNotReady'
    <2>1. DeadHasNothing'
      BY <1>4, <1>6, DeadIsConnection DEF Connections, DeadHasNothing
    <2>2. NotReady' \subseteq NotReady
      BY <1>4, <1>6, DeadIsConnection DEF NotReady, Alive
    <2> QED
      BY <2>1, <2>2 DEF Connections, OneIsNotReady
  <1>9. IdsFit'
    <2>1. sessions[s].sessionID \in DOMAIN sessions
      BY DEF Connections, IdsFit
    <2>2. ~sessions'[sessions[s].sessionID].alive
      BY <1>6, <2>1, DeadIsConnection DEF Connections, IdsFit
    <2> QED
      BY <1>4, <1>6, <2>1, <2>2, DeadIsConnection DEF Connections, IdsFit
  <1>10. IdsDiffer'
    BY <1>4, <1>6, DeadIsConnection DEF Connections, IdsDiffer
  <1>11. Continued
    BY <1>6, DeadIsConnection DEF Continued
  <1> QED
    BY <1>4, <1>6, <1>7, <1>8, <1>9, <1>10, <1>11 DEF Connections, n
-----------------------------------------------------------------------------
(* Entries and requests. *)

\* What an entry must keep when it changes while the handles stay
EntryMay(r, e) ==
    /\ e \in Subscription
    /\ e.refCount = subs[r].refCount
    /\ e.state = "Subscribed" => e.listed

LEMMA EntryChanges ==
    ASSUME TypeOK, HandlesAreCounted, SubscribedIsListed, NEW r \in Request,
           NEW e, EntryMay(r, e), subs' = [subs EXCEPT ![r] = e], UNCHANGED held
    PROVE  /\ subs' \in [Request -> Subscription]
           /\ HandlesAreCounted' /\ SubscribedIsListed'
           /\ subs'[r] = e
           /\ \A q \in Request : q # r => subs'[q] = subs[q]
  BY DEF TypeOK, EntryMay, HandlesAreCounted, SubscribedIsListed

\* While connections keep what they have, what was heard is heard.
LEMMA StaysHeard ==
    ASSUME Inv, Kept, server \subseteq server', NEW r \in Request,
           subs'[r].state = "Subscribed" => subs[r].state = "Subscribed"
    PROVE  Heard(r)'
  <1> SUFFICES ASSUME subs[r].state = "Subscribed"
               PROVE  \E s \in DOMAIN sessions' :
                          /\ r \in sessions'[s].subscriptions
                          /\ [req |-> r, id |-> sessions'[s].sessionID] \in server'
    BY DEF Heard
  <1>1. PICK s \in DOMAIN sessions :
            /\ r \in sessions[s].subscriptions
            /\ [req |-> r, id |-> sessions[s].sessionID] \in server
    BY DEF Inv, SubscribedAreHeard, Heard
  <1>2. sessions[s].sessionID # 0
    BY <1>1, Bounds DEF Inv, TypeOK
  <1> QED
    BY <1>1, <1>2 DEF Kept

\* Connections that stay as they are keep everything.
LEMMA UnchangedKeeps ==
    ASSUME Inv, UNCHANGED sessions
    PROVE  /\ sessions' \in Seq(Connection) /\ Len(sessions') <= MaxSessions
           /\ Connections' /\ Continued /\ Kept
  BY DEF Inv, TypeOK, Connections, DeadHasNothing, OneIsNotReady, NotReady, Alive, IdsFit,
         IdsDiffer, Continued, Kept

\* Requests keep their sessions as long as no more are under way.
LEMMA RequestsContinue ==
    ASSUME Inv, Continued,
           \A r \in Request, s \in Session : creating'[r][s] > 0 => creating[r][s] > 0
    PROVE  RequestsHaveSession'
  BY DEF Inv, RequestsHaveSession, Continued

\* retrySubscription() erases only entries that nobody refers to.
LEMMA RetryMay ==
    ASSUME TypeOK, NEW r \in Request, NEW e \in Subscription,
           e.refCount = subs[r].refCount
    PROVE  EntryMay(r, RetrySubscription(e)) /\ RetrySubscription(e).state # "Subscribed"
  BY Bounds DEF EntryMay, RetrySubscription, Absent, Subscription, State

\* The entry that subscriptions[request] finds or makes
LEMMA EntryIs ==
    ASSUME TypeOK, NEW r \in Request
    PROVE  /\ subs[r] \in Subscription
           /\ Entry(r) \in Subscription
           /\ Entry(r).refCount = subs[r].refCount
           /\ Entry(r).state = subs[r].state
           /\ Entry(r).listed
  BY DEF TypeOK, Entry, Subscription
-----------------------------------------------------------------------------
(* Subscribing. *)

\* The parts of the invariant that subscribe() can disturb
SubscribingFits ==
    /\ subs \in [Request -> Subscription]
    /\ sessions \in Seq(Connection) /\ Len(sessions) <= MaxSessions
    /\ creating \in [Request -> [Session -> Nat]]
    /\ HandlesAreCounted
    /\ SubscribedIsListed
    /\ SubscribedAreHeard
    /\ Connections
    /\ RequestsHaveSession

\* A nonempty set of numbers has a least one.
LEMMA LeastExists ==
    ASSUME NEW S, S \subseteq Nat, S # {}
    PROVE  \E s \in S : \A t \in S : s <= t
  <1> DEFINE R == {ss \in Nat \X Nat : ss[1] < ss[2]}
  <1>1. IsWellFoundedOn(R, Nat)
    BY NatLessThanWellFounded DEF OpToRel
  <1>2. PICK s \in S : \A t \in S : <<t, s>> \notin R
    <2> HIDE DEF R
    <2> QED
      BY <1>1, WFMin
  <1>3. ASSUME NEW t \in S
        PROVE  s <= t
    <2>1. s \in Nat /\ t \in Nat
      OBVIOUS
    <2>2. ~(t < s)
      BY <1>2, <2>1
    <2> HIDE DEF R
    <2> QED
      BY <2>1, <2>2
  <1> QED
    BY <1>3

\* One entry changes and says Subscribed only if it did.
LEMMA EntryOnly ==
    ASSUME Inv, NEW r \in Request, NEW e, EntryMay(r, e),
           e.state = "Subscribed" => subs[r].state = "Subscribed",
           subs' = [subs EXCEPT ![r] = e], UNCHANGED <<held, server>>, Kept
    PROVE  /\ subs' \in [Request -> Subscription]
           /\ HandlesAreCounted' /\ SubscribedIsListed' /\ SubscribedAreHeard'
  <1>1. /\ subs' \in [Request -> Subscription]
        /\ HandlesAreCounted' /\ SubscribedIsListed'
        /\ subs'[r] = e
        /\ \A q \in Request : q # r => subs'[q] = subs[q]
    BY EntryChanges DEF Inv
  <1>2. ASSUME NEW q \in Request
        PROVE  Heard(q)'
    BY <1>1, StaysHeard
  <1> QED
    BY <1>1, <1>2 DEF SubscribedAreHeard

\* subscribe() asks a connection that is ready, or makes one and retries later.
LEMMA SubscribeOnFits ==
    ASSUME Inv, NEW r \in Request, SubscribeOn(r), UNCHANGED <<held, server>>
    PROVE  SubscribingFits'
  <1> DEFINE e == [Entry(r) EXCEPT !.retryTimer = "none"]
  <1>1. /\ e \in Subscription /\ e.refCount = subs[r].refCount
        /\ e.state = subs[r].state /\ e.listed
    BY EntryIs DEF Inv, Subscription
  <1> HIDE DEF e
  <1>2. CASE /\ Viable(r) # {}
             /\ subs' = [subs EXCEPT ![r] = e]
             /\ creating' = [creating EXCEPT ![r][First(Viable(r))] = @ + 1]
             /\ UNCHANGED sessions
    <2>1. First(Viable(r)) \in Viable(r)
      <3>1. Viable(r) \subseteq Nat
        BY SessionsAre DEF Inv, Viable
      <3>2. PICK s \in Viable(r) : \A t \in Viable(r) : s <= t
        BY <1>2, <3>1, LeastExists
      <3> QED
        BY <3>2 DEF First
    <2>2. /\ First(Viable(r)) \in DOMAIN sessions /\ First(Viable(r)) \in Session
          /\ sessions[First(Viable(r))].sessionID # 0
      BY <2>1, SessionsAre DEF Inv, Viable
    <2>3. PICK s \in Session : s = First(Viable(r))
      BY <2>2
    <2>4. creating' = [creating EXCEPT ![r][s] = @ + 1]
      BY <1>2, <2>3
    <2>5. /\ creating' \in [Request -> [Session -> Nat]]
          /\ \A q \in Request, t \in Session :
                 creating'[q][t] > 0 => creating[q][t] > 0 \/ t = s
      BY <2>4 DEF Inv, TypeOK
    <2>6. RequestsHaveSession'
      BY <1>2, <2>2, <2>3, <2>5 DEF Inv, RequestsHaveSession
    <2>7. EntryMay(r, e)
      BY <1>1 DEF EntryMay
    <2>8. /\ sessions' \in Seq(Connection) /\ Len(sessions') <= MaxSessions
          /\ Connections' /\ Kept
      BY <1>2, UnchangedKeeps
    <2>9. /\ subs' \in [Request -> Subscription]
          /\ HandlesAreCounted' /\ SubscribedIsListed' /\ SubscribedAreHeard'
      BY <1>1, <1>2, <2>7, <2>8, EntryOnly
    <2> QED
      BY <2>5, <2>6, <2>8, <2>9 DEF SubscribingFits
  <1>3. CASE /\ Len(WithConnection) <= MaxSessions
             /\ sessions' = WithConnection
             /\ subs' = [subs EXCEPT ![r] = RetrySubscription(e)]
             /\ UNCHANGED creating
    <2>1. /\ sessions' \in Seq(Connection) /\ Len(sessions') <= MaxSessions
          /\ Connections' /\ Continued /\ Kept
      <3>1. CASE NotReady = {}
        <4>1. sessions' = Append(sessions, NewConnection) /\ Len(sessions') <= MaxSessions
          BY <1>3, <3>1 DEF WithConnection
        <4>2. Len(sessions') = Len(sessions) + 1
          BY <4>1, SessionsAre, DeadIsConnection, AppendProperties DEF Inv
        <4> QED
          BY <3>1, <4>1, <4>2, ConnectionMade DEF Inv
      <3>2. CASE NotReady # {}
        <4>1. UNCHANGED sessions
          BY <1>3, <3>2 DEF WithConnection
        <4> QED
          BY <4>1, UnchangedKeeps
      <3> QED
        BY <3>1, <3>2
    <2>2. EntryMay(r, RetrySubscription(e)) /\ RetrySubscription(e).state # "Subscribed"
      BY <1>1, RetryMay DEF Inv
    <2>3. /\ subs' \in [Request -> Subscription]
          /\ HandlesAreCounted' /\ SubscribedIsListed' /\ SubscribedAreHeard'
      BY <1>3, <2>1, <2>2, EntryOnly
    <2>4. RequestsHaveSession' /\ creating' \in [Request -> [Session -> Nat]]
      BY <1>3, <2>1, RequestsContinue DEF Inv, TypeOK
    <2> QED
      BY <2>1, <2>3, <2>4 DEF SubscribingFits
  <1> QED
    BY <1>2, <1>3 DEF SubscribeOn, e

\* A task that is posted or taken leaves a queue of tasks.
LEMMA Queues ==
    ASSUME TypeOK
    PROVE  /\ \A kind \in {"subscribe", "retry", "timer"}, r \in Request :
                 Post(kind, r) => tasks' \in Seq([kind : {"subscribe", "retry", "timer"},
                                                  req : Request])
           /\ tasks # << >> =>
                  /\ Tail(tasks) \in Seq([kind : {"subscribe", "retry", "timer"},
                                           req : Request])
                  /\ Head(tasks).req \in Request
  <1> DEFINE Task == [kind : {"subscribe", "retry", "timer"}, req : Request]
  <1>1. tasks \in Seq(Task)
    BY DEF TypeOK
  <1>2. ASSUME NEW kind \in {"subscribe", "retry", "timer"}, NEW r \in Request, Post(kind, r)
        PROVE  tasks' \in Seq(Task)
    <2>1. [kind |-> kind, req |-> r] \in Task
      OBVIOUS
    <2> QED
      BY <1>1, <1>2, <2>1, AppendProperties DEF Post
  <1>3. ASSUME tasks # << >>
        PROVE  Tail(tasks) \in Seq(Task) /\ Head(tasks) \in Task
    BY <1>1, <1>3, HeadTailProperties
  <1> QED
    BY <1>2, <1>3

LEMMA RunTaskInv ==
    ASSUME Inv, RunTask
    PROVE  Inv'
  <1>1. UNCHANGED <<held, resubscribe, deleting, server, givenUp, losses, errors, asks>>
    BY DEF RunTask
  <1>2. PICK r \in Request : r = Head(tasks).req
    BY Queues DEF RunTask, Inv
  <1>3. tasks' \in Seq([kind : {"subscribe", "retry", "timer"}, req : Request])
    BY Queues DEF RunTask, Inv
  <1>4. SubscribingFits'
    <2>1. CASE SubscribeOn(r)
      BY <1>1, <2>1, SubscribeOnFits
    <2>2. CASE /\ subs' = [subs EXCEPT ![r] = RetrySubscription(Entry(r))]
               /\ UNCHANGED <<sessions, creating>>
      <3>1. /\ EntryMay(r, RetrySubscription(Entry(r)))
            /\ RetrySubscription(Entry(r)).state # "Subscribed"
        BY EntryIs, RetryMay DEF Inv
      <3>2. /\ sessions' \in Seq(Connection) /\ Len(sessions') <= MaxSessions
            /\ Connections' /\ Continued /\ Kept
        BY <2>2, UnchangedKeeps
      <3>3. /\ subs' \in [Request -> Subscription]
            /\ HandlesAreCounted' /\ SubscribedIsListed' /\ SubscribedAreHeard'
        BY <1>1, <2>2, <3>1, <3>2, EntryOnly
      <3>4. RequestsHaveSession' /\ creating' \in [Request -> [Session -> Nat]]
        BY <2>2, <3>2, RequestsContinue DEF Inv, TypeOK
      <3> QED
        BY <3>2, <3>3, <3>4 DEF SubscribingFits
    <2> QED
      BY <1>2, <2>1, <2>2 DEF RunTask
  <1> QED
    BY <1>1, <1>3, <1>4 DEF Inv, TypeOK, SubscribingFits

LEMMA ResubscribeInv ==
    ASSUME Inv, NEW r \in Request, Resubscribe(r)
    PROVE  Inv'
  <1>1. /\ UNCHANGED <<held, tasks, deleting, server, givenUp, losses, errors, asks>>
        /\ resubscribe' \subseteq resubscribe
    BY DEF Resubscribe
  <1>2. SubscribingFits'
    BY <1>1, SubscribeOnFits DEF Resubscribe
  <1> QED
    BY <1>1, <1>2 DEF Inv, TypeOK, SubscribingFits
-----------------------------------------------------------------------------
(* Handles and timers: connections and requests to Helix stay. *)

\* What is left to show when only entries, handles and tasks change
LEMMA ConnectionsStay ==
    ASSUME Inv, UNCHANGED <<sessions, creating, server>>,
           \A r \in Request : subs'[r].state = "Subscribed" => subs[r].state = "Subscribed"
    PROVE  SubscribedAreHeard' /\ Connections' /\ RequestsHaveSession'
  <1>1. Connections' /\ Continued /\ Kept
    BY UnchangedKeeps
  <1>2. RequestsHaveSession'
    BY <1>1, RequestsContinue
  <1>3. ASSUME NEW r \in Request
        PROVE  Heard(r)'
    BY <1>1, <1>3, StaysHeard
  <1> QED
    BY <1>1, <1>2, <1>3 DEF SubscribedAreHeard

LEMMA TimerExpiresInv ==
    ASSUME Inv, NEW r \in Request, TimerExpires(r)
    PROVE  Inv'
  <1>1. UNCHANGED <<held, sessions, resubscribe, creating, deleting, server, givenUp, losses,
                    errors, asks>>
    BY DEF TimerExpires
  <1>2. PICK e \in Subscription : e = [subs[r] EXCEPT !.retryTimer = "fired"]
    BY EntryIs DEF Inv, Subscription
  <1>3. subs' = [subs EXCEPT ![r] = e]
    BY <1>2 DEF TimerExpires
  <1>4. EntryMay(r, e) /\ e.state = subs[r].state
    BY <1>2, EntryIs DEF Inv, Subscription, EntryMay, SubscribedIsListed
  <1>5. /\ subs' \in [Request -> Subscription]
        /\ HandlesAreCounted' /\ SubscribedIsListed'
        /\ subs'[r] = e /\ \A q \in Request : q # r => subs'[q] = subs[q]
    BY <1>1, <1>3, <1>4, EntryChanges DEF Inv
  <1>6. SubscribedAreHeard' /\ Connections' /\ RequestsHaveSession'
    BY <1>1, <1>4, <1>5, ConnectionsStay
  <1>7. tasks' \in Seq([kind : {"subscribe", "retry", "timer"}, req : Request])
    BY Queues DEF TimerExpires, Inv
  <1> QED
    BY <1>1, <1>5, <1>6, <1>7 DEF Inv, TypeOK

\* The first handle counts one; what is Subscribed for nobody was heard already.
LEMMA TakeHandleInv ==
    ASSUME Inv, NEW r \in Request, TakeHandle(r)
    PROVE  Inv'
  <1>1. /\ r \notin held /\ held' = held \cup {r}
        /\ UNCHANGED <<sessions, resubscribe, creating, deleting, server, losses, errors>>
    BY DEF TakeHandle
  <1>2. PICK e : e = [Entry(r) EXCEPT !.refCount = @ + 1,
                          !.state = IF NeedToSubscribe(r) THEN "Subscribing" ELSE @]
    OBVIOUS
  <1>3. subs' = [subs EXCEPT ![r] = e]
    BY <1>2 DEF TakeHandle
  <1>4. /\ e \in Subscription /\ e.refCount = subs[r].refCount + 1 /\ e.listed
        /\ e.state = "Subscribed" => subs[r].state = "Subscribed"
    <2>1. PICK d \in Subscription :
              d = Entry(r) /\ d.refCount = subs[r].refCount /\ d.state = subs[r].state /\ d.listed
      BY EntryIs DEF Inv
    <2>2. PICK state \in State :
              /\ state = (IF NeedToSubscribe(r) THEN "Subscribing" ELSE d.state)
              /\ state = "Subscribed" => d.state = "Subscribed"
      BY <2>1 DEF Subscription, State
    <2>3. e = [d EXCEPT !.refCount = d.refCount + 1, !.state = state]
      BY <1>2, <2>1, <2>2
    <2>4. d.refCount + 1 \in Nat
      BY <2>1 DEF Subscription
    <2>5. e \in Subscription /\ e.refCount = d.refCount + 1 /\ e.state = state
      BY <2>2, <2>3, <2>4 DEF Subscription
    <2>6. e.listed = d.listed
      BY <2>3 DEF Subscription
    <2> QED
      BY <2>1, <2>2, <2>5, <2>6
  <1>5. /\ subs' \in [Request -> Subscription] /\ subs'[r] = e
        /\ \A q \in Request : q # r => subs'[q] = subs[q]
    BY <1>3, <1>4 DEF Inv, TypeOK
  <1>6. HandlesAreCounted' /\ SubscribedIsListed'
    BY <1>1, <1>4, <1>5 DEF Inv, HandlesAreCounted, SubscribedIsListed
  <1>7. SubscribedAreHeard' /\ Connections' /\ RequestsHaveSession'
    BY <1>1, <1>4, <1>5, ConnectionsStay
  <1>8. tasks' \in Seq([kind : {"subscribe", "retry", "timer"}, req : Request])
    BY Queues DEF TakeHandle, Inv, TypeOK
  <1>9. givenUp' \subseteq Request /\ asks' \in 0..MaxAsks
    BY Bounds DEF TakeHandle, Inv, TypeOK
  <1> QED
    BY <1>1, <1>5, <1>6, <1>7, <1>8, <1>9 DEF Inv, TypeOK

LEMMA RenewHandleInv ==
    ASSUME Inv, NEW r \in Request, RenewHandle(r)
    PROVE  Inv'
  <1>1. UNCHANGED <<held, sessions, resubscribe, creating, deleting, server, losses, errors>>
    BY DEF RenewHandle
  <1>2. PICK e \in Subscription : e = [subs[r] EXCEPT !.state = "Subscribing"]
    BY EntryIs DEF Inv, Subscription, State
  <1>3. subs' = [subs EXCEPT ![r] = e]
    BY <1>2 DEF RenewHandle
  <1>4. EntryMay(r, e) /\ e.state # "Subscribed"
    BY <1>2, EntryIs DEF Inv, Subscription, EntryMay
  <1>5. /\ subs' \in [Request -> Subscription]
        /\ HandlesAreCounted' /\ SubscribedIsListed'
        /\ subs'[r] = e /\ \A q \in Request : q # r => subs'[q] = subs[q]
    BY <1>1, <1>3, <1>4, EntryChanges DEF Inv
  <1>6. SubscribedAreHeard' /\ Connections' /\ RequestsHaveSession'
    BY <1>1, <1>4, <1>5, ConnectionsStay
  <1>7. tasks' \in Seq([kind : {"subscribe", "retry", "timer"}, req : Request])
    BY Queues DEF RenewHandle, Inv
  <1>8. givenUp' \subseteq Request /\ asks' \in 0..MaxAsks
    BY Bounds DEF RenewHandle, Inv, TypeOK
  <1> QED
    BY <1>1, <1>5, <1>6, <1>7, <1>8 DEF Inv, TypeOK

\* The only handle goes: its count is one, and none remains.
LEMMA DropHandleInv ==
    ASSUME Inv, NEW r \in Request, DropHandle(r)
    PROVE  Inv'
  <1>1. /\ r \in held /\ held' = held \ {r}
        /\ UNCHANGED <<sessions, tasks, resubscribe, creating, server, losses, errors, asks>>
    BY DEF DropHandle
  <1>2. subs[r] \in Subscription /\ subs[r].refCount = 1
    BY <1>1, EntryIs DEF Inv, HandlesAreCounted
  <1>3. PICK e : e = [subs[r] EXCEPT !.refCount = @ - 1]
    OBVIOUS
  <1>4. /\ e \in Subscription /\ e.refCount = 0 /\ e.state = subs[r].state
        /\ e.listed = subs[r].listed /\ e.id = subs[r].id
    BY <1>2, <1>3 DEF Subscription
  <1>5. /\ deleting' \subseteq [req : Request, id : Session]
        /\ \E x \in Subscription :
               /\ subs' = [subs EXCEPT ![r] = x]
               /\ x.refCount = 0 /\ x.listed = subs[r].listed
               /\ x.state = "Subscribed" => subs[r].state = "Subscribed"
    <2>1. CASE e.id = 0
      <3>1. subs' = [subs EXCEPT ![r] = [e EXCEPT !.retryTimer = "none"]] /\ UNCHANGED deleting
        BY <1>3, <1>4, <2>1 DEF DropHandle
      <3>2. PICK x : x = [e EXCEPT !.retryTimer = "none"]
        OBVIOUS
      <3>3. /\ x \in Subscription /\ x.refCount = 0 /\ x.listed = e.listed
            /\ x.state = e.state
        BY <1>4, <3>2 DEF Subscription
      <3>4. deleting' \subseteq [req : Request, id : Session]
        BY <3>1 DEF Inv, TypeOK
      <3> QED
        BY <1>4, <3>1, <3>2, <3>3, <3>4
    <2>2. CASE e.id # 0
      <3>1. /\ subs' = [subs EXCEPT ![r] = [e EXCEPT !.retryTimer = "none",
                            !.state = "Unsubscribing", !.id = 0]]
            /\ deleting' = deleting \cup {[req |-> r, id |-> e.id]}
        BY <1>3, <1>4, <2>2 DEF DropHandle
      <3>2. e.id \in Session
        BY <1>4, <2>2 DEF Subscription
      <3>3. PICK x : x = [e EXCEPT !.retryTimer = "none", !.state = "Unsubscribing", !.id = 0]
        OBVIOUS
      <3>4. /\ x \in Subscription /\ x.refCount = 0 /\ x.listed = e.listed
            /\ x.state # "Subscribed"
        BY <1>4, <3>3 DEF Subscription, State
      <3>5. deleting' \subseteq [req : Request, id : Session]
        BY <3>1, <3>2 DEF Inv, TypeOK
      <3> QED
        BY <1>4, <3>1, <3>3, <3>4, <3>5
    <2> QED
      BY <2>1, <2>2
  <1>6. PICK x \in Subscription :
            /\ subs' = [subs EXCEPT ![r] = x]
            /\ x.refCount = 0 /\ x.listed = subs[r].listed
            /\ x.state = "Subscribed" => subs[r].state = "Subscribed"
    BY <1>5
  <1>7. /\ subs' \in [Request -> Subscription] /\ subs'[r] = x
        /\ \A q \in Request : q # r => subs'[q] = subs[q]
    BY <1>6 DEF Inv, TypeOK
  <1>8. HandlesAreCounted' /\ SubscribedIsListed'
    BY <1>1, <1>6, <1>7 DEF Inv, HandlesAreCounted, SubscribedIsListed
  <1>9. SubscribedAreHeard' /\ Connections' /\ RequestsHaveSession'
    BY <1>1, <1>6, <1>7, ConnectionsStay
  <1>10. givenUp' \subseteq Request
    BY DEF DropHandle, Inv, TypeOK
  <1> QED
    BY <1>1, <1>5, <1>7, <1>8, <1>9, <1>10 DEF Inv, TypeOK
-----------------------------------------------------------------------------
(* Answers. *)

LEMMA AnsweredEffect ==
    ASSUME Inv, NEW r \in Request, NEW s \in Session, Answered(r, s)
    PROVE  /\ creating' \in [Request -> [Session -> Nat]]
           /\ \A q \in Request, t \in Session : creating'[q][t] > 0 => creating[q][t] > 0
           /\ s \in DOMAIN sessions
           /\ sessions[s].alive => sessions[s].sessionID \in Session
  <1>1. creating \in [Request -> [Session -> Nat]] /\ creating[r][s] > 0
        /\ creating' = [creating EXCEPT ![r][s] = @ - 1]
    BY DEF Answered, Inv, TypeOK
  <1>2. /\ creating' \in [Request -> [Session -> Nat]]
        /\ \A q \in Request, t \in Session : creating'[q][t] > 0 => creating[q][t] > 0
    BY <1>1
  <1>3. s \in DOMAIN sessions /\ (sessions[s].alive => sessions[s].sessionID # 0)
    BY <1>1 DEF Inv, RequestsHaveSession
  <1> QED
    BY <1>2, <1>3, SessionsAre DEF Inv, Connection

\* Twitch's answer makes the connection one that hears the request.
LEMMA CreateSucceedsInv ==
    ASSUME Inv, NEW r \in Request, NEW s \in Session, CreateSucceeds(r, s)
    PROVE  Inv'
  <1>1. /\ creating' \in [Request -> [Session -> Nat]]
        /\ \A q \in Request, t \in Session : creating'[q][t] > 0 => creating[q][t] > 0
        /\ s \in DOMAIN sessions
        /\ sessions[s].alive => sessions[s].sessionID \in Session
    BY AnsweredEffect DEF CreateSucceeds
  <1>2. UNCHANGED <<held, tasks, resubscribe, deleting, losses, errors, asks>>
    BY DEF CreateSucceeds
  <1>3. CASE ~Alive(s)
    <2>1. UNCHANGED <<server, sessions, subs>> /\ givenUp' = givenUp \cup {r}
      BY <1>3 DEF CreateSucceeds
    <2>2. Connections' /\ Continued /\ Kept
      BY <2>1, UnchangedKeeps
    <2>3. RequestsHaveSession'
      BY <1>1, <2>2, RequestsContinue
    <2>4. HandlesAreCounted' /\ SubscribedIsListed' /\ SubscribedAreHeard'
      BY <1>2, <2>1 DEF Inv, HandlesAreCounted, SubscribedIsListed, SubscribedAreHeard, Heard
    <2> QED
      BY <1>1, <1>2, <2>1, <2>2, <2>3, <2>4 DEF Inv, TypeOK
  <1>4. CASE Alive(s)
    <2>1. sessions[s].alive /\ sessions[s] \in Connection
      BY <1>1, <1>4, SessionsAre DEF Alive, Inv
    <2>2. PICK c \in Connection :
              c = [sessions[s] EXCEPT !.twitchUserID = Owner[r], !.subscriptions = @ \cup {r}]
      BY <2>1, Bounds DEF Connection
    <2>3. /\ c.alive /\ c.sessionID = sessions[s].sessionID
          /\ c.subscriptions = sessions[s].subscriptions \cup {r}
      BY <2>1, <2>2 DEF Connection
    <2>4. /\ sessions' = [sessions EXCEPT ![s] = c]
          /\ server' = server \cup {[req |-> r, id |-> sessions[s].sessionID]}
          /\ subs' = [subs EXCEPT ![r] = [Entry(r) EXCEPT !.connection = s,
                          !.id = sessions[s].sessionID, !.state = "Subscribed"]]
          /\ UNCHANGED givenUp
      <3>1. sessions' = [sessions EXCEPT ![s].twitchUserID = Owner[r],
                                         ![s].subscriptions = @ \cup {r}]
        BY <1>4 DEF CreateSucceeds
      <3>2. sessions' = [sessions EXCEPT ![s] = c]
        BY <1>1, <2>2, <3>1, SessionsAre DEF Inv
      <3> QED
        BY <1>4, <3>2 DEF CreateSucceeds
    <2>5. /\ sessions' \in Seq(Connection) /\ Len(sessions') <= MaxSessions
          /\ Connections' /\ Continued
      BY <1>1, <2>1, <2>3, <2>4, ConnectionChanged DEF Inv
    <2>6. /\ DOMAIN sessions' = DOMAIN sessions /\ sessions'[s] = c
          /\ \A t \in DOMAIN sessions : t # s => sessions'[t] = sessions[t]
      BY <1>1, <2>4, OneChanges DEF Inv
    <2>7. Kept
      BY <2>3, <2>6 DEF Kept
    <2>8. PICK e : e = [Entry(r) EXCEPT !.connection = s,
                            !.id = sessions[s].sessionID, !.state = "Subscribed"]
      OBVIOUS
    <2>9. EntryMay(r, e)
      <3>1. e \in Subscription /\ e.refCount = Entry(r).refCount /\ e.listed = Entry(r).listed
        BY <1>1, <2>1, <2>8, EntryIs DEF Inv, Subscription, State
      <3> QED
        BY <3>1, EntryIs DEF Inv, EntryMay
    <2>10. /\ subs' \in [Request -> Subscription]
           /\ HandlesAreCounted' /\ SubscribedIsListed'
           /\ \A q \in Request : q # r => subs'[q] = subs[q]
      BY <1>2, <2>4, <2>8, <2>9, EntryChanges DEF Inv
    <2>11. SubscribedAreHeard'
      <3>1. Heard(r)'
        BY <1>1, <2>3, <2>4, <2>6 DEF Heard
      <3>2. \A q \in Request : q # r => Heard(q)'
        BY <2>4, <2>7, <2>10, StaysHeard
      <3> QED
        BY <3>1, <3>2 DEF SubscribedAreHeard
    <2>12. RequestsHaveSession'
      BY <1>1, <2>5, RequestsContinue
    <2>13. server' \subseteq [req : Request, id : Session]
      BY <1>1, <2>1, <2>4 DEF Inv, TypeOK
    <2> QED
      BY <1>1, <1>2, <2>4, <2>5, <2>10, <2>11, <2>12, <2>13 DEF Inv, TypeOK
  <1> QED
    BY <1>3, <1>4

\* Errors leave the connections, and no entry says Subscribed that did not.
LEMMA CreateErrorInv ==
    ASSUME Inv, NEW r \in Request, NEW s \in Session,
           CreateRetries(r, s) \/ CreateFails(r, s) \/ CreateForbidden(r, s)
    PROVE  Inv'
  <1>1. Answered(r, s)
        /\ UNCHANGED <<held, sessions, resubscribe, deleting, server, losses, asks>>
    BY DEF CreateRetries, CreateFails, CreateForbidden
  <1>2. /\ creating' \in [Request -> [Session -> Nat]]
        /\ \A q \in Request, t \in Session : creating'[q][t] > 0 => creating[q][t] > 0
    BY <1>1, AnsweredEffect
  <1>3. /\ sessions' \in Seq(Connection) /\ Len(sessions') <= MaxSessions
        /\ Connections' /\ Continued /\ Kept
    BY <1>1, UnchangedKeeps
  <1>4. RequestsHaveSession'
    BY <1>2, <1>3, RequestsContinue
  <1>5. errors' \in 0..MaxErrors
    BY Bounds DEF CreateRetries, CreateFails, CreateForbidden, Inv, TypeOK
  <1>6. tasks' \in Seq([kind : {"subscribe", "retry", "timer"}, req : Request])
    BY Queues DEF CreateRetries, CreateFails, CreateForbidden, Inv, TypeOK
  <1>7. givenUp' \subseteq Request
    BY DEF CreateRetries, CreateFails, CreateForbidden, Inv, TypeOK
  <1>8. PICK e \in Subscription : e = [Entry(r) EXCEPT !.state = "Failed"]
    BY EntryIs DEF Inv, Subscription, State
  <1>9. EntryMay(r, e) /\ e.state # "Subscribed"
    BY <1>8, EntryIs DEF Inv, Subscription, EntryMay
  <1>10. /\ subs' \in [Request -> Subscription]
         /\ HandlesAreCounted' /\ SubscribedIsListed' /\ SubscribedAreHeard'
    <2>1. CASE CreateFails(r, s)
      <3>1. subs' = [subs EXCEPT ![r] = e]
        BY <1>8, <2>1 DEF CreateFails
      <3> QED
        BY <1>1, <1>3, <1>9, <3>1, EntryOnly
    <2>2. CASE UNCHANGED subs
      BY <1>1, <2>2 DEF Inv, TypeOK, HandlesAreCounted, SubscribedIsListed,
                        SubscribedAreHeard, Heard
    <2> QED
      BY <2>1, <2>2 DEF CreateRetries, CreateForbidden
  <1> QED
    BY <1>1, <1>2, <1>3, <1>4, <1>5, <1>6, <1>7, <1>10 DEF Inv, TypeOK

\* A deletion that is answered takes this request from its connection and nothing else.
LEMMA DeleteAnsweredInv ==
    ASSUME Inv, NEW d \in deleting, DeleteAnswered(d)
    PROVE  Inv'
  <1>1. PICK r \in Request : r = d.req
    BY DEF Inv, TypeOK
  <1>2. /\ deleting' = deleting \ {d} /\ MarkRequestUnsubscribed(r)
        /\ server' = server \ {d} \/ server' = server
        /\ UNCHANGED <<held, resubscribe, creating, givenUp, losses, asks>>
    BY <1>1 DEF DeleteAnswered
  <1>3. errors' \in 0..MaxErrors
    BY Bounds DEF DeleteAnswered, Inv, TypeOK
  <1>4. tasks' \in Seq([kind : {"subscribe", "retry", "timer"}, req : Request])
    BY <1>2, Queues DEF MarkRequestUnsubscribed, Inv, TypeOK
  <1>5. PICK e : EntryMay(r, e) /\ e.state # "Subscribed" /\ subs' = [subs EXCEPT ![r] = e]
    <2>1. CASE subs[r].refCount = 0 /\ subs' = [subs EXCEPT ![r] = Absent]
      <3>1. EntryMay(r, Absent) /\ Absent.state # "Subscribed"
        BY <2>1 DEF EntryMay, Absent, Subscription, State
      <3> QED
        BY <2>1, <3>1
    <2>2. CASE subs' = [subs EXCEPT ![r] = [Entry(r) EXCEPT !.state = "Subscribing",
                                                            !.connection = 0]]
      <3>1. PICK e : e = [Entry(r) EXCEPT !.state = "Subscribing", !.connection = 0]
        OBVIOUS
      <3>2. e \in Subscription /\ e.refCount = Entry(r).refCount /\ e.state = "Subscribing"
        BY <3>1, EntryIs DEF Inv, Subscription, State
      <3> QED
        BY <2>2, <3>1, <3>2, EntryIs DEF Inv, EntryMay
    <2> QED
      BY <1>2, <2>1, <2>2 DEF MarkRequestUnsubscribed
  <1>6. /\ subs' \in [Request -> Subscription]
        /\ HandlesAreCounted' /\ SubscribedIsListed'
        /\ subs'[r] = e /\ \A q \in Request : q # r => subs'[q] = subs[q]
    BY <1>2, <1>5, EntryChanges DEF Inv
  <1>7. /\ sessions' \in Seq(Connection) /\ Len(sessions') <= MaxSessions
        /\ Connections' /\ Continued
        /\ \A t \in DOMAIN sessions :
              /\ t \in DOMAIN sessions'
              /\ sessions'[t].sessionID = sessions[t].sessionID
              /\ sessions[t].subscriptions \ {r} \subseteq sessions'[t].subscriptions
    <2>1. PICK s \in Session \cup {0} : s = subs[r].connection
      BY EntryIs DEF Inv, Subscription
    <2>2. CASE s # 0 /\ Alive(s)
      <3>1. sessions[s].alive /\ sessions[s] \in Connection /\ s \in DOMAIN sessions
        BY <2>2, SessionsAre DEF Alive, Inv
      <3>2. PICK c \in Connection : c = WithoutRequest(sessions[s], r)
        <4>1. sessions[s].subscriptions \ {r} \subseteq Request
          BY <3>1 DEF Connection
        <4> QED
          BY <3>1, <4>1 DEF WithoutRequest, Connection
      <3>3. /\ c.alive /\ c.sessionID = sessions[s].sessionID
            /\ c.subscriptions = sessions[s].subscriptions \ {r}
        BY <3>1, <3>2 DEF WithoutRequest, Connection
      <3>4. sessions' = [sessions EXCEPT ![s] = c]
        BY <1>1, <2>1, <2>2, <3>2 DEF DeleteAnswered
      <3>5. /\ sessions' \in Seq(Connection) /\ Len(sessions') <= MaxSessions
            /\ Connections' /\ Continued
        BY <3>1, <3>3, <3>4, ConnectionChanged DEF Inv
      <3>6. /\ DOMAIN sessions' = DOMAIN sessions /\ sessions'[s] = c
            /\ \A t \in DOMAIN sessions : t # s => sessions'[t] = sessions[t]
        BY <3>1, <3>4, OneChanges DEF Inv
      <3> QED
        BY <3>3, <3>5, <3>6
    <2>3. CASE ~(s # 0 /\ Alive(s))
      <3>1. UNCHANGED sessions
        BY <1>1, <2>1, <2>3 DEF DeleteAnswered
      <3> QED
        BY <3>1, UnchangedKeeps
    <2> QED
      BY <2>2, <2>3
  <1>8. SubscribedAreHeard'
    <2> SUFFICES ASSUME NEW q \in Request
                 PROVE  Heard(q)'
      BY DEF SubscribedAreHeard
    <2>1. CASE q = r
      BY <1>5, <1>6, <2>1 DEF Heard
    <2>2. CASE q # r
      <3> SUFFICES ASSUME subs[q].state = "Subscribed"
                   PROVE  \E s \in DOMAIN sessions' :
                              /\ q \in sessions'[s].subscriptions
                              /\ [req |-> q, id |-> sessions'[s].sessionID] \in server'
        BY <1>6, <2>2 DEF Heard
      <3>1. PICK s \in DOMAIN sessions :
                /\ q \in sessions[s].subscriptions
                /\ [req |-> q, id |-> sessions[s].sessionID] \in server
        BY DEF Inv, SubscribedAreHeard, Heard
      <3>2. [req |-> q, id |-> sessions[s].sessionID] # d
        BY <1>1, <2>2
      <3> QED
        BY <1>2, <1>7, <2>2, <3>1, <3>2
    <2> QED
      BY <2>1, <2>2
  <1>9. RequestsHaveSession'
    BY <1>2, <1>7, RequestsContinue
  <1> QED
    BY <1>2, <1>3, <1>4, <1>6, <1>7, <1>8, <1>9 DEF Inv, TypeOK
-----------------------------------------------------------------------------
(* Sessions. *)

LEMMA WelcomeInv ==
    ASSUME Inv, NEW s \in Session, Welcome(s)
    PROVE  Inv'
  <1>1. /\ s \in NotReady /\ sessions' = [sessions EXCEPT ![s].sessionID = s]
        /\ UNCHANGED <<subs, held, tasks, resubscribe, creating, deleting, server, givenUp,
                       losses, errors, asks>>
    BY DEF Welcome
  <1>2. /\ sessions' \in Seq(Connection) /\ Len(sessions') <= MaxSessions
        /\ Connections' /\ Continued /\ Kept
    BY <1>1, ConnectionWelcomed DEF Inv
  <1>3. SubscribedAreHeard'
    BY <1>1, <1>2, StaysHeard DEF SubscribedAreHeard
  <1>4. RequestsHaveSession'
    BY <1>1, <1>2, RequestsContinue
  <1>5. HandlesAreCounted' /\ SubscribedIsListed'
    BY <1>1 DEF Inv, HandlesAreCounted, SubscribedIsListed
  <1> QED
    BY <1>1, <1>2, <1>3, <1>4, <1>5 DEF Inv, TypeOK

\* What was subscribed on the lost connection stops saying so; the others are on
\* connections with other ids.
LEMMA SessionLostInv ==
    ASSUME Inv, NEW s \in Session, SessionLost(s)
    PROVE  Inv'
  <1> DEFINE lost == sessions[s].subscriptions
  <1>1. /\ s \in DOMAIN sessions /\ sessions' = [sessions EXCEPT ![s] = Dead]
        /\ Forget(sessions[s].sessionID)
        /\ subs' = LostEntries(lost) /\ resubscribe' = lost
        /\ UNCHANGED <<held, tasks, creating, deleting, givenUp, errors, asks>>
    BY DEF SessionLost, Alive
  <1>2. losses' \in 0..MaxLosses
    BY Bounds DEF SessionLost, Inv, TypeOK
  <1>3. lost \subseteq Request
    BY <1>1, SessionsAre DEF Inv, Connection
  <1> HIDE DEF lost
  <1>4. /\ sessions' \in Seq(Connection) /\ Len(sessions') <= MaxSessions
        /\ Connections' /\ Continued
        /\ DOMAIN sessions' = DOMAIN sessions
        /\ \A t \in DOMAIN sessions : t # s => sessions'[t] = sessions[t]
    BY <1>1, ConnectionLost DEF Inv
  <1>5. \A r \in Request :
            /\ subs'[r] \in Subscription
            /\ subs'[r].refCount = subs[r].refCount
            /\ subs'[r].state = "Subscribed" =>
                   r \notin lost /\ subs[r].state = "Subscribed" /\ subs'[r].listed
    <2> SUFFICES ASSUME NEW r \in Request
                 PROVE  /\ subs'[r] \in Subscription
                        /\ subs'[r].refCount = subs[r].refCount
                        /\ subs'[r].state = "Subscribed" =>
                              r \notin lost /\ subs[r].state = "Subscribed" /\ subs'[r].listed
      OBVIOUS
    <2>1. CASE r \in lost /\ subs[r].listed
      <3>1. subs'[r] = [subs[r] EXCEPT !.connection = 0, !.state = "Subscribing"]
        BY <1>1, <2>1 DEF LostEntries
      <3> QED
        BY <3>1, EntryIs DEF Inv, Subscription, State
    <2>2. CASE ~(r \in lost /\ subs[r].listed)
      <3>1. subs'[r] = subs[r]
        BY <1>1, <2>2 DEF LostEntries
      <3> QED
        BY <2>2, <3>1, EntryIs DEF Inv, SubscribedIsListed
    <2> QED
      BY <2>1, <2>2
  <1>6. subs' \in [Request -> Subscription]
    BY <1>1, <1>5 DEF LostEntries
  <1>7. HandlesAreCounted' /\ SubscribedIsListed'
    BY <1>1, <1>5 DEF Inv, HandlesAreCounted, SubscribedIsListed
  <1>8. SubscribedAreHeard'
    <2> SUFFICES ASSUME NEW r \in Request, subs'[r].state = "Subscribed"
                 PROVE  \E t \in DOMAIN sessions' :
                            /\ r \in sessions'[t].subscriptions
                            /\ [req |-> r, id |-> sessions'[t].sessionID] \in server'
      BY DEF SubscribedAreHeard, Heard
    <2>1. PICK t \in DOMAIN sessions :
              /\ r \in sessions[t].subscriptions
              /\ [req |-> r, id |-> sessions[t].sessionID] \in server
      BY <1>5 DEF Inv, SubscribedAreHeard, Heard
    <2>2. t # s
      BY <1>5, <2>1 DEF lost
    <2>3. sessions[t].sessionID # 0
      BY <2>1, Bounds DEF Inv, TypeOK
    <2>4. sessions[t].sessionID # sessions[s].sessionID
      BY <1>1, <2>2, <2>3 DEF Inv, Connections, IdsDiffer
    <2>5. [req |-> r, id |-> sessions[t].sessionID] \in server'
      BY <1>1, <2>1, <2>4 DEF Forget
    <2> QED
      BY <1>4, <2>1, <2>2, <2>5
  <1>9. RequestsHaveSession'
    BY <1>1, <1>4, RequestsContinue
  <1>10. server' \subseteq server
    BY <1>1 DEF Forget
  <1> QED
    BY <1>1, <1>2, <1>3, <1>4, <1>6, <1>7, <1>8, <1>9, <1>10 DEF Inv, TypeOK

\* A session that moves keeps its id, so what was heard is heard from its successor.
LEMMA SessionReconnectsInv ==
    ASSUME Inv, NEW s \in Session, SessionReconnects(s)
    PROVE  Inv'
  <1>1. /\ s \in DOMAIN sessions /\ sessions[s].alive /\ sessions[s].sessionID # 0
        /\ UNCHANGED <<subs, held, tasks, resubscribe, creating, deleting, givenUp, errors, asks>>
    BY DEF SessionReconnects, Alive
  <1>2. losses' \in 0..MaxLosses
    BY Bounds DEF SessionReconnects, Inv, TypeOK
  <1>3. /\ sessions' \in Seq(Connection) /\ Len(sessions') <= MaxSessions
        /\ Connections' /\ Continued
        /\ server' \subseteq server
        /\ \A r \in Request : \A t \in DOMAIN sessions :
              r \in sessions[t].subscriptions
              /\ [req |-> r, id |-> sessions[t].sessionID] \in server
              => \E u \in DOMAIN sessions' :
                    /\ r \in sessions'[u].subscriptions
                    /\ [req |-> r, id |-> sessions'[u].sessionID] \in server'
    <2>1. CASE /\ sessions[s].subscriptions = {}
               /\ sessions' = [sessions EXCEPT ![s] = Dead]
               /\ Forget(sessions[s].sessionID)
      <3>1. /\ sessions' \in Seq(Connection) /\ Len(sessions') <= MaxSessions
            /\ Connections' /\ Continued
            /\ DOMAIN sessions' = DOMAIN sessions
            /\ \A t \in DOMAIN sessions : t # s => sessions'[t] = sessions[t]
        BY <1>1, <2>1, ConnectionLost DEF Inv
      <3>2. server' \subseteq server
        BY <2>1 DEF Forget
      <3>3. ASSUME NEW r \in Request, NEW t \in DOMAIN sessions,
                   r \in sessions[t].subscriptions,
                   [req |-> r, id |-> sessions[t].sessionID] \in server
            PROVE  /\ r \in sessions'[t].subscriptions
                   /\ [req |-> r, id |-> sessions'[t].sessionID] \in server'
        <4>1. t # s
          BY <2>1, <3>3
        <4>2. sessions[t].sessionID # sessions[s].sessionID
          BY <1>1, <4>1 DEF Inv, Connections, IdsDiffer
        <4>3. [req |-> r, id |-> sessions[t].sessionID] \in server'
          BY <2>1, <3>3, <4>2 DEF Forget
        <4> QED
          BY <3>1, <3>3, <4>1, <4>3
      <3> QED
        BY <3>1, <3>2, <3>3
    <2>2. CASE /\ Len(sessions) < MaxSessions
               /\ sessions' = Append([sessions EXCEPT ![s] = Dead], sessions[s])
               /\ UNCHANGED server
      <3>1. /\ sessions' \in Seq(Connection) /\ Len(sessions') <= MaxSessions
            /\ Connections' /\ Continued
            /\ DOMAIN sessions' = DOMAIN sessions \cup {Len(sessions) + 1}
            /\ sessions'[Len(sessions) + 1] = sessions[s]
            /\ \A t \in DOMAIN sessions : t # s => sessions'[t] = sessions[t]
        BY <1>1, <2>2, ConnectionMoved DEF Inv
      <3>2. ASSUME NEW r \in Request, NEW t \in DOMAIN sessions,
                   r \in sessions[t].subscriptions,
                   [req |-> r, id |-> sessions[t].sessionID] \in server
            PROVE  \E u \in DOMAIN sessions' :
                      /\ r \in sessions'[u].subscriptions
                      /\ [req |-> r, id |-> sessions'[u].sessionID] \in server'
        <4>1. CASE t = s
          BY <2>2, <3>1, <3>2, <4>1
        <4>2. CASE t # s
          BY <2>2, <3>1, <3>2, <4>2
        <4> QED
          BY <4>1, <4>2
      <3> QED
        BY <2>2, <3>1, <3>2
    <2> QED
      BY <2>1, <2>2 DEF SessionReconnects
  <1>4. SubscribedAreHeard'
    BY <1>1, <1>3 DEF Inv, SubscribedAreHeard, Heard
  <1>5. RequestsHaveSession'
    BY <1>1, <1>3, RequestsContinue
  <1>6. HandlesAreCounted' /\ SubscribedIsListed'
    BY <1>1 DEF Inv, HandlesAreCounted, SubscribedIsListed
  <1> QED
    BY <1>1, <1>2, <1>3, <1>4, <1>5, <1>6 DEF Inv, TypeOK
-----------------------------------------------------------------------------
LEMMA InitInv == Init => Inv
  <1> SUFFICES ASSUME Init
               PROVE  Inv
    OBVIOUS
  <1>1. Absent \in Subscription /\ Absent.refCount = 0 /\ Absent.state = "Unsubscribed"
    BY DEF Absent, Subscription, State
  <1>2. TypeOK
    <2>1. subs \in [Request -> Subscription] /\ creating \in [Request -> [Session -> Nat]]
      BY <1>1 DEF Init
    <2>2. sessions \in Seq(Connection) /\ Len(sessions) <= MaxSessions
      BY Bounds, EmptySeq DEF Init
    <2>3. tasks \in Seq([kind : {"subscribe", "retry", "timer"}, req : Request])
      BY EmptySeq DEF Init
    <2> QED
      BY <2>1, <2>2, <2>3, Bounds DEF Init, TypeOK
  <1>3. HandlesAreCounted /\ SubscribedIsListed /\ SubscribedAreHeard
    BY <1>1 DEF Init, HandlesAreCounted, SubscribedIsListed, SubscribedAreHeard, Heard
  <1>4. DOMAIN sessions = {}
    BY <1>2, SessionsAre, EmptySeq DEF Init
  <1>5. Connections
    BY <1>4 DEF Connections, DeadHasNothing, OneIsNotReady, NotReady, IdsFit, IdsDiffer
  <1>6. RequestsHaveSession
    BY DEF Init, RequestsHaveSession
  <1> QED
    BY <1>2, <1>3, <1>5, <1>6 DEF Inv

LEMMA NextInv == Inv /\ [Next]_vars => Inv'
  <1> SUFFICES ASSUME Inv, [Next]_vars
               PROVE  Inv'
    OBVIOUS
  <1>1. CASE RunTask
    BY <1>1, RunTaskInv
  <1>2. ASSUME NEW r \in Request,
               TakeHandle(r) \/ RenewHandle(r) \/ DropHandle(r) \/ TimerExpires(r) \/ Resubscribe(r)
        PROVE  Inv'
    BY <1>2, TakeHandleInv, RenewHandleInv, DropHandleInv, TimerExpiresInv, ResubscribeInv
  <1>3. ASSUME NEW r \in Request, NEW s \in Session, Answer(r, s)
        PROVE  Inv'
    BY <1>3, CreateSucceedsInv, CreateErrorInv DEF Answer
  <1>4. ASSUME NEW d \in deleting, DeleteAnswered(d)
        PROVE  Inv'
    BY <1>4, DeleteAnsweredInv
  <1>5. ASSUME NEW s \in Session, Welcome(s) \/ SessionLost(s) \/ SessionReconnects(s)
        PROVE  Inv'
    BY <1>5, WelcomeInv, SessionLostInv, SessionReconnectsInv
  <1>6. CASE UNCHANGED vars
    <2>1. UNCHANGED <<subs, held, sessions, tasks, resubscribe, creating, deleting, server,
                      givenUp, losses, errors, asks>>
      BY <1>6 DEF vars
    <2>2. SubscribedAreHeard' /\ Connections' /\ RequestsHaveSession'
      BY <2>1, ConnectionsStay
    <2> QED
      BY <2>1, <2>2 DEF Inv, TypeOK, HandlesAreCounted, SubscribedIsListed
  <1> QED
    BY <1>1, <1>2, <1>3, <1>4, <1>5, <1>6 DEF Next

LEMMA InvIsInvariant == Spec => []Inv
  BY InitInv, NextInv, PTL DEF Spec

\* Entries, sessions and tasks keep their types.
THEOREM TypeCorrect == Spec => []TypeOK
  <1>1. Inv => TypeOK
    BY DEF Inv
  <1> QED
    BY <1>1, InvIsInvariant, PTL

\* Callbacks that erase entries and make them again never lose count of the handles.
THEOREM CountsAreRight == Spec => []HandlesAreCounted
  <1>1. Inv => HandlesAreCounted
    BY DEF Inv
  <1> QED
    BY <1>1, InvIsInvariant, PTL

\* However sessions end, move and are answered late, what is held and says
\* Subscribed is on a live connection under an id that Twitch knows.
THEOREM SubscribedHeard == Spec => []SubscribedIsHeard
  <1>1. Inv => SubscribedIsHeard
    BY DEF Inv, TypeOK, SubscribedAreHeard, Heard, SubscribedIsHeard
  <1> QED
    BY <1>1, InvIsInvariant, PTL

\* However many requests want one at once, at most one connection is on its way.
THEOREM ConnectsOnce == Spec => []OneConnectionAtATime
  <1>1. Inv => OneConnectionAtATime
    <2> SUFFICES ASSUME Inv
                 PROVE  OneConnectionAtATime
      OBVIOUS
    <2>1. CASE NotReady = {}
      <3>1. Cardinality(NotReady) = 0
        BY <2>1, FS_EmptySet
      <3> QED
        BY <3>1 DEF OneConnectionAtATime
    <2>2. CASE NotReady # {}
      <3>1. PICK s \in NotReady : NotReady = {s}
        BY <2>2 DEF Inv, Connections, OneIsNotReady
      <3>2. Cardinality(NotReady) = 1
        BY <3>1, FS_Singleton
      <3> QED
        BY <3>2 DEF OneConnectionAtATime
    <2> QED
      BY <2>1, <2>2
  <1> QED
    BY <1>1, InvIsInvariant, PTL
-----------------------------------------------------------------------------
(* WantedIsPursued.  A handle may be taken at any time, so what nobody holds must be   *)
(* pursued as well, or say that it is not.                                             *)

Posted(r) == \E i \in DOMAIN tasks : tasks[i].req = r

Pursuing(r) ==
    r \notin givenUp =>
        \/ OnItsWay(r)
        \/ subs[r].state \in {"Subscribed", "Failed"}
        \/ subs[r].state = "Unsubscribed" /\ r \notin held

Pursued == \A r \in Request : Pursuing(r)

\* Posting adds to the queue; taking removes its first task only.
LEMMA QueueKeeps ==
    ASSUME TypeOK, NEW r \in Request
    PROVE  /\ \A kind \in {"subscribe", "retry", "timer"}, q \in Request :
                 Post(kind, q) => Posted(q)' /\ (Posted(r) => Posted(r)')
           /\ tasks # << >> /\ tasks' = Tail(tasks) /\ Head(tasks).req # r =>
                 (Posted(r) => Posted(r)')
  <1> DEFINE Task == [kind : {"subscribe", "retry", "timer"}, req : Request]
  <1>1. tasks \in Seq(Task) /\ Len(tasks) \in Nat /\ DOMAIN tasks = 1..Len(tasks)
    BY LenProperties DEF TypeOK
  <1>2. ASSUME NEW kind \in {"subscribe", "retry", "timer"}, NEW q \in Request, Post(kind, q)
        PROVE  Posted(q)' /\ (Posted(r) => Posted(r)')
    <2>1. PICK task \in Task : task = [kind |-> kind, req |-> q]
      OBVIOUS
    <2>2. tasks' = Append(tasks, task)
      BY <1>2, <2>1 DEF Post
    <2>3. /\ tasks' \in Seq(Task) /\ Len(tasks') = Len(tasks) + 1
          /\ \A i \in 1..Len(tasks) : tasks'[i] = tasks[i]
          /\ tasks'[Len(tasks) + 1] = task
      BY <1>1, <2>2, AppendProperties
    <2>4. DOMAIN tasks' = 1..(Len(tasks) + 1)
      BY <2>3, LenProperties
    <2>5. Posted(q)'
      BY <1>1, <2>1, <2>3, <2>4 DEF Posted
    <2>6. Posted(r) => Posted(r)'
      BY <1>1, <2>3, <2>4 DEF Posted
    <2> QED
      BY <2>5, <2>6
  <1>3. ASSUME tasks # << >>, tasks' = Tail(tasks), Head(tasks).req # r, Posted(r)
        PROVE  Posted(r)'
    <2>1. PICK i \in 1..Len(tasks) : tasks[i].req = r
      BY <1>1, <1>3 DEF Posted
    <2>2. i # 1
      BY <1>1, <1>3, <2>1
    <2>3. /\ tasks' \in Seq(Task) /\ Len(tasks') = Len(tasks) - 1
          /\ \A j \in 1..Len(tasks') : tasks'[j] = tasks[j + 1]
      BY <1>1, <1>3, HeadTailProperties
    <2>4. DOMAIN tasks' = 1..(Len(tasks) - 1)
      BY <2>3, LenProperties
    <2>5. i - 1 \in DOMAIN tasks' /\ tasks'[i - 1] = tasks[i]
      BY <1>1, <2>1, <2>2, <2>3, <2>4
    <2> QED
      BY <2>1, <2>5 DEF Posted
  <1> QED
    BY <1>2, <1>3

\* A request whose entry, timer and callbacks stay is pursued as before.
LEMMA StaysPursued ==
    ASSUME Pursued, NEW r \in Request,
           r \notin givenUp' => r \notin givenUp,
           UNCHANGED subs[r], r \in held' <=> r \in held,
           \A s \in Session : creating[r][s] > 0 => creating'[r][s] > 0,
           Posted(r) => Posted(r)',
           r \in resubscribe => r \in resubscribe',
           \A d \in deleting : d.req = r => d \in deleting'
    PROVE  Pursuing(r)'
  BY DEF Pursued, Pursuing, OnItsWay, Posted

\* subscribe() ends in a request or in a timer, or erases what nobody holds.
LEMMA SubscribeOnPursues ==
    ASSUME Inv, NEW r \in Request, SubscribeOn(r), UNCHANGED held
    PROVE  /\ Pursuing(r)'
           /\ \A q \in Request : q # r =>
                 /\ subs'[q] = subs[q]
                 /\ \A s \in Session : creating[q][s] > 0 => creating'[q][s] > 0
  <1> DEFINE e == [Entry(r) EXCEPT !.retryTimer = "none"]
  <1>1. e \in Subscription /\ e.refCount = subs[r].refCount
    BY EntryIs DEF Inv, Subscription
  <1> HIDE DEF e
  <1>2. CASE /\ Viable(r) # {}
             /\ subs' = [subs EXCEPT ![r] = e]
             /\ creating' = [creating EXCEPT ![r][First(Viable(r))] = @ + 1]
    <2>1. PICK s \in Session : s = First(Viable(r))
      <3>1. Viable(r) \subseteq Nat /\ Viable(r) \subseteq Session
        BY SessionsAre DEF Inv, Viable
      <3>2. PICK s \in Viable(r) : \A t \in Viable(r) : s <= t
        BY <1>2, <3>1, LeastExists
      <3> QED
        BY <3>1, <3>2 DEF First
    <2>2. creating' = [creating EXCEPT ![r][s] = @ + 1]
      BY <1>2, <2>1
    <2>3. creating'[r][s] > 0
      BY <2>2 DEF Inv, TypeOK
    <2>4. \A q \in Request : q # r => creating'[q] = creating[q] /\ subs'[q] = subs[q]
      BY <1>2, <2>2 DEF Inv, TypeOK
    <2> QED
      BY <2>3, <2>4 DEF Pursuing, OnItsWay
  <1>3. CASE subs' = [subs EXCEPT ![r] = RetrySubscription(e)] /\ UNCHANGED creating
    <2>1. subs'[r] = RetrySubscription(e) /\ \A q \in Request : q # r => subs'[q] = subs[q]
      BY <1>3 DEF Inv, TypeOK
    <2>2. Pursuing(r)'
      <3>1. CASE e.refCount = 0
        <4>1. subs'[r].state = "Unsubscribed"
          BY <2>1, <3>1 DEF RetrySubscription, Absent
        <4>2. r \notin held'
          <5>1. subs[r].refCount = IF r \in held THEN 1 ELSE 0
            BY DEF Inv, HandlesAreCounted
          <5>2. subs[r].refCount = 0
            BY <1>1, <3>1
          <5> QED
            BY <5>1, <5>2
        <4> QED
          BY <4>1, <4>2 DEF Pursuing
      <3>2. CASE e.refCount # 0
        <4>1. subs'[r] = [e EXCEPT !.state = "Retrying", !.retryTimer = "armed"]
          BY <2>1, <3>2 DEF RetrySubscription
        <4>2. subs'[r].retryTimer = "armed"
          BY <1>1, <4>1 DEF Subscription
        <4> QED
          BY <4>2 DEF Pursuing, OnItsWay
      <3> QED
        BY <3>1, <3>2
    <2> QED
      BY <1>3, <2>1, <2>2
  <1> QED
    BY <1>2, <1>3 DEF SubscribeOn, e

\* The thread of the controller: tasks and lost connections
LEMMA SubscribingPursued ==
    ASSUME Inv, Pursued, RunTask \/ \E q \in Request : Resubscribe(q)
    PROVE  Pursued'
  <1> SUFFICES ASSUME NEW r \in Request
               PROVE  Pursuing(r)'
    BY DEF Pursued
  <1>1. CASE RunTask
    <2>1. /\ tasks # << >> /\ tasks' = Tail(tasks)
          /\ UNCHANGED <<held, resubscribe, deleting, givenUp>>
      BY <1>1 DEF RunTask
    <2>2. PICK q \in Request : q = Head(tasks).req
      BY <2>1, Queues DEF Inv
    <2>3. CASE SubscribeOn(q)
      <3>1. CASE r = q
        BY <2>1, <2>3, <3>1, SubscribeOnPursues
      <3>2. CASE r # q
        <4>1. /\ UNCHANGED subs[r]
              /\ \A s \in Session : creating[r][s] > 0 => creating'[r][s] > 0
          BY <2>1, <2>3, <3>2, SubscribeOnPursues
        <4>2. Posted(r) => Posted(r)'
          BY <2>1, <2>2, <3>2, QueueKeeps DEF Inv
        <4> QED
          BY <2>1, <4>1, <4>2, StaysPursued
      <3> QED
        BY <3>1, <3>2
    <2>4. CASE /\ subs' = [subs EXCEPT ![q] = RetrySubscription(Entry(q))]
               /\ UNCHANGED creating
      <3>1. CASE r # q
        <4>1. UNCHANGED subs[r]
          BY <2>4, <3>1 DEF Inv, TypeOK
        <4>2. Posted(r) => Posted(r)'
          BY <2>1, <2>2, <3>1, QueueKeeps DEF Inv
        <4> QED
          BY <2>1, <2>4, <4>1, <4>2, StaysPursued
      <3>2. CASE r = q
        <4>1. subs'[r] = RetrySubscription(Entry(r)) /\ Entry(r).refCount = subs[r].refCount
          BY <2>4, <3>2, EntryIs DEF Inv, TypeOK
        <4>2. CASE r \in held
          <5>1. Entry(r).refCount = 1
            BY <4>1, <4>2 DEF Inv, HandlesAreCounted
          <5>2. subs'[r] = [Entry(r) EXCEPT !.state = "Retrying", !.retryTimer = "armed"]
            BY <4>1, <5>1 DEF RetrySubscription
          <5>3. subs'[r].retryTimer = "armed"
            BY <5>2, EntryIs DEF Inv, Subscription
          <5> QED
            BY <5>3 DEF Pursuing, OnItsWay
        <4>3. CASE r \notin held
          <5>1. Entry(r).refCount = 0
            BY <4>1, <4>3 DEF Inv, HandlesAreCounted
          <5>2. subs'[r].state = "Unsubscribed"
            BY <4>1, <5>1 DEF RetrySubscription, Absent
          <5> QED
            BY <2>1, <4>3, <5>2 DEF Pursuing
        <4> QED
          BY <4>2, <4>3
      <3> QED
        BY <3>1, <3>2
    <2> QED
      BY <1>1, <2>2, <2>3, <2>4 DEF RunTask
  <1>2. ASSUME NEW q \in Request, Resubscribe(q)
        PROVE  Pursuing(r)'
    <2>1. /\ SubscribeOn(q) /\ resubscribe' = resubscribe \ {q}
          /\ UNCHANGED <<held, tasks, deleting, givenUp>>
      BY <1>2 DEF Resubscribe
    <2>2. CASE r = q
      BY <2>1, <2>2, SubscribeOnPursues
    <2>3. CASE r # q
      <3>1. /\ UNCHANGED subs[r]
            /\ \A s \in Session : creating[r][s] > 0 => creating'[r][s] > 0
        BY <2>1, <2>3, SubscribeOnPursues
      <3> QED
        BY <2>1, <2>3, <3>1, StaysPursued DEF Posted
    <2> QED
      BY <2>2, <2>3
  <1> QED
    BY <1>1, <1>2

\* Handles and timers: who takes a handle of what nobody pursues posts a call, and
\* who drops the last one while a timer waits gives the request up.
LEMMA HandlesPursued ==
    ASSUME Inv, Pursued, NEW q \in Request,
           TakeHandle(q) \/ RenewHandle(q) \/ DropHandle(q) \/ TimerExpires(q)
    PROVE  Pursued'
  <1> SUFFICES ASSUME NEW r \in Request
               PROVE  Pursuing(r)'
    BY DEF Pursued
  <1>1. /\ UNCHANGED <<resubscribe, creating>>
        /\ deleting \subseteq deleting'
    BY DEF TakeHandle, RenewHandle, DropHandle, TimerExpires
  <1>2. Posted(r) => Posted(r)'
    BY QueueKeeps DEF TakeHandle, RenewHandle, DropHandle, TimerExpires, Inv, Posted
  <1>3. CASE r # q
    <2>1. UNCHANGED subs[r] /\ (r \in held' <=> r \in held)
      BY <1>3 DEF TakeHandle, RenewHandle, DropHandle, TimerExpires, Inv, TypeOK
    <2>2. r \notin givenUp' => r \notin givenUp
      BY <1>3 DEF TakeHandle, RenewHandle, DropHandle, TimerExpires
    <2> QED
      BY <1>1, <1>2, <2>1, <2>2, StaysPursued
  <1>4. CASE r = q
    <2>1. CASE TimerExpires(r)
      <3>1. Post("timer", r)
        BY <2>1 DEF TimerExpires
      <3>2. Posted(r)'
        BY <3>1, QueueKeeps DEF Inv
      <3> QED
        BY <3>2 DEF Pursuing, OnItsWay, Posted
    <2>2. CASE (TakeHandle(r) \/ RenewHandle(r)) /\ NeedToSubscribe(r)
      <3>1. Post("subscribe", r)
        BY <2>2 DEF TakeHandle, RenewHandle
      <3>2. Posted(r)'
        BY <3>1, QueueKeeps DEF Inv
      <3> QED
        BY <3>2 DEF Pursuing, OnItsWay, Posted
    <2>3. CASE TakeHandle(r) /\ ~NeedToSubscribe(r)
      <3>1. /\ UNCHANGED <<tasks, deleting, resubscribe, creating>> /\ givenUp' = givenUp
            /\ subs' = [subs EXCEPT ![r] = [Entry(r) EXCEPT !.refCount = @ + 1, !.state = @]]
        BY <2>3 DEF TakeHandle
      <3>2. subs'[r] = [Entry(r) EXCEPT !.refCount = @ + 1, !.state = @]
        BY <3>1 DEF Inv, TypeOK
      <3>3. Entry(r).state = subs[r].state /\ Entry(r).retryTimer = subs[r].retryTimer
            /\ Entry(r) \in Subscription
        BY EntryIs DEF Inv, Entry, Subscription
      <3>4. subs'[r].state = subs[r].state /\ subs'[r].retryTimer = subs[r].retryTimer
        BY <3>2, <3>3 DEF Subscription
      <3>5. OnItsWay(r) => OnItsWay(r)'
        BY <3>1, <3>4 DEF OnItsWay
      <3>6. subs[r].state \notin {"Unsubscribed", "Failed"}
        BY <2>3 DEF NeedToSubscribe
      <3> QED
        BY <3>1, <3>4, <3>5, <3>6 DEF Pursued, Pursuing
    <2>4. CASE DropHandle(r)
      <3>1. /\ r \notin held' /\ r \in held
            /\ givenUp' = IF OnItsWay(r) /\ ~OnItsWay(r)' THEN givenUp \cup {r} ELSE givenUp
        BY <2>4 DEF DropHandle
      <3>2. CASE OnItsWay(r)
        BY <3>1, <3>2 DEF Pursuing
      <3>3. CASE ~OnItsWay(r)
        <4> SUFFICES ASSUME r \notin givenUp
                     PROVE  OnItsWay(r)' \/ subs'[r].state \in {"Subscribed", "Failed"}
          BY <3>1 DEF Pursuing
        <4>1. subs[r].state \in {"Subscribed", "Failed"}
          BY <3>1, <3>3 DEF Pursued, Pursuing
        <4>2. PICK e : e = [subs[r] EXCEPT !.refCount = @ - 1]
          OBVIOUS
        <4>3. e \in [listed : BOOLEAN, state : State, refCount : Int,
                     connection : Session \cup {0}, id : Session \cup {0},
                     retryTimer : {"none", "armed", "fired"}]
              /\ e.state = subs[r].state
          <5>1. subs[r] \in Subscription /\ subs[r].refCount - 1 \in Int
            BY EntryIs DEF Inv, Subscription
          <5> QED
            BY <4>2, <5>1 DEF Subscription
        <4>4. \/ subs' = [subs EXCEPT ![r] = e]
              \/ subs' = [subs EXCEPT ![r] = [e EXCEPT !.retryTimer = "none"]]
              \/ deleting' = deleting \cup {[req |-> r, id |-> e.id]}
          BY <2>4, <4>2 DEF DropHandle
        <4>5. CASE \/ subs' = [subs EXCEPT ![r] = e]
                   \/ subs' = [subs EXCEPT ![r] = [e EXCEPT !.retryTimer = "none"]]
          <5>1. subs'[r] = e \/ subs'[r] = [e EXCEPT !.retryTimer = "none"]
            BY <4>5 DEF Inv, TypeOK
          <5>2. subs'[r].state = e.state
            BY <4>3, <5>1
          <5> QED
            BY <4>1, <4>3, <5>2
        <4>6. CASE deleting' = deleting \cup {[req |-> r, id |-> e.id]}
          <5>1. [req |-> r, id |-> e.id] \in deleting' /\ [req |-> r, id |-> e.id].req = r
            BY <4>6
          <5>2. \E d \in deleting' : d.req = r
            BY <5>1
          <5> QED
            BY <5>2 DEF OnItsWay
        <4> QED
          BY <4>4, <4>5, <4>6
      <3> QED
        BY <3>2, <3>3
    <2> QED
      BY <1>4, <2>1, <2>2, <2>3, <2>4 DEF RenewHandle
  <1> QED
    BY <1>3, <1>4

\* An answer says what became of the request, posts a retry, or gives it up.
LEMMA AnswersPursued ==
    ASSUME Inv, Pursued, NEW q \in Request, NEW s \in Session, Answer(q, s)
    PROVE  Pursued'
  <1> SUFFICES ASSUME NEW r \in Request
               PROVE  Pursuing(r)'
    BY DEF Pursued
  <1>1. Answered(q, s) /\ UNCHANGED <<held, resubscribe, deleting>>
        /\ (r \notin givenUp' => r \notin givenUp)
    BY DEF Answer, CreateSucceeds, CreateRetries, CreateFails, CreateForbidden
  <1>2. Posted(r) => Posted(r)'
    BY QueueKeeps
       DEF Answer, CreateSucceeds, CreateRetries, CreateFails, CreateForbidden, Inv, Posted
  <1>3. CASE r # q
    <2>1. UNCHANGED subs[r]
      BY <1>3 DEF Answer, CreateSucceeds, CreateRetries, CreateFails, CreateForbidden, Inv, TypeOK
    <2>2. \A t \in Session : creating[r][t] > 0 => creating'[r][t] > 0
      BY <1>1, <1>3 DEF Answered, Inv, TypeOK
    <2> QED
      BY <1>1, <1>2, <2>1, <2>2, StaysPursued
  <1>4. CASE r = q
    <2>1. CASE CreateSucceeds(r, s)
      <3>1. CASE r \in givenUp'
        BY <3>1 DEF Pursuing
      <3>2. CASE subs' = [subs EXCEPT ![r] = [Entry(r) EXCEPT !.connection = s,
                              !.id = sessions[s].sessionID, !.state = "Subscribed"]]
        <4>1. subs'[r] = [Entry(r) EXCEPT !.connection = s,
                              !.id = sessions[s].sessionID, !.state = "Subscribed"]
          BY <3>2 DEF Inv, TypeOK
        <4>2. subs'[r].state = "Subscribed"
          BY <4>1, EntryIs DEF Inv, Subscription
        <4> QED
          BY <4>2 DEF Pursuing
      <3> QED
        BY <2>1, <3>1, <3>2 DEF CreateSucceeds
    <2>2. CASE CreateRetries(r, s)
      <3>1. Post("retry", r)
        BY <2>2 DEF CreateRetries
      <3>2. Posted(r)'
        BY <3>1, QueueKeeps DEF Inv
      <3> QED
        BY <3>2 DEF Pursuing, OnItsWay, Posted
    <2>3. CASE CreateFails(r, s)
      <3>1. subs'[r] = [Entry(r) EXCEPT !.state = "Failed"]
        BY <2>3 DEF CreateFails, Inv, TypeOK
      <3>2. subs'[r].state = "Failed"
        BY <3>1, EntryIs DEF Inv, Subscription
      <3> QED
        BY <3>2 DEF Pursuing
    <2>4. CASE CreateForbidden(r, s)
      BY <2>4 DEF CreateForbidden, Pursuing
    <2> QED
      BY <1>4, <2>1, <2>2, <2>3, <2>4 DEF Answer
  <1> QED
    BY <1>3, <1>4

\* Who came while the subscription was deleted gets a new one.
LEMMA DeletionsPursued ==
    ASSUME Inv, Pursued, NEW d \in deleting, DeleteAnswered(d)
    PROVE  Pursued'
  <1> SUFFICES ASSUME NEW r \in Request
               PROVE  Pursuing(r)'
    BY DEF Pursued
  <1>1. /\ deleting' = deleting \ {d} /\ MarkRequestUnsubscribed(d.req)
        /\ UNCHANGED <<held, resubscribe, creating, givenUp>>
        /\ d.req \in Request
    BY DEF DeleteAnswered, Inv, TypeOK
  <1>2. CASE r # d.req
    <2>1. UNCHANGED subs[r]
      BY <1>1, <1>2 DEF MarkRequestUnsubscribed, Inv, TypeOK
    <2>2. Posted(r) => Posted(r)'
      BY <1>1, QueueKeeps DEF MarkRequestUnsubscribed, Inv, Posted
    <2> QED
      BY <1>1, <1>2, <2>1, <2>2, StaysPursued
  <1>3. CASE r = d.req
    <2>1. CASE subs[r].refCount = 0 /\ subs' = [subs EXCEPT ![r] = Absent]
      <3>1. subs'[r].state = "Unsubscribed"
        BY <2>1 DEF Inv, TypeOK, Absent
      <3>2. r \notin held'
        <4>1. subs[r].refCount = IF r \in held THEN 1 ELSE 0
          BY DEF Inv, HandlesAreCounted
        <4> QED
          BY <1>1, <2>1, <4>1
      <3> QED
        BY <3>1, <3>2 DEF Pursuing
    <2>2. CASE Post("subscribe", r)
      <3>1. Posted(r)'
        BY <2>2, QueueKeeps DEF Inv
      <3> QED
        BY <3>1 DEF Pursuing, OnItsWay, Posted
    <2> QED
      BY <1>1, <1>3, <2>1, <2>2 DEF MarkRequestUnsubscribed
  <1> QED
    BY <1>2, <1>3

\* What a lost connection had is made again.
LEMMA SessionsPursued ==
    ASSUME Inv, Pursued, NEW s \in Session,
           Welcome(s) \/ SessionLost(s) \/ SessionReconnects(s)
    PROVE  Pursued'
  <1> SUFFICES ASSUME NEW r \in Request
               PROVE  Pursuing(r)'
    BY DEF Pursued
  <1>1. /\ UNCHANGED <<held, tasks, creating, deleting, givenUp>> /\ resubscribe = {}
    BY DEF Welcome, SessionLost, SessionReconnects
  <1>2. CASE UNCHANGED subs[r]
    BY <1>1, <1>2, StaysPursued DEF Posted
  <1>3. CASE SessionLost(s) /\ r \in sessions[s].subscriptions
    <2>1. r \in resubscribe'
      BY <1>3 DEF SessionLost
    <2> QED
      BY <2>1 DEF Pursuing, OnItsWay
  <1>4. CASE SessionLost(s) /\ r \notin sessions[s].subscriptions
    <2>1. UNCHANGED subs[r]
      BY <1>4 DEF SessionLost, LostEntries
    <2> QED
      BY <1>2, <2>1
  <1>5. UNCHANGED subs \/ SessionLost(s)
    BY DEF Welcome, SessionReconnects
  <1> QED
    BY <1>2, <1>3, <1>4, <1>5

\* What is held and not given up is on its way, is subscribed, or has failed.
THEOREM WantedPursued == Spec => []WantedIsPursued
  <1>1. Init => Pursued
    BY DEF Init, Absent, Pursued, Pursuing
  <1>2. Inv /\ Pursued /\ [Next]_vars => Pursued'
    <2> SUFFICES ASSUME Inv, Pursued, [Next]_vars
                 PROVE  Pursued'
      OBVIOUS
    <2>1. CASE RunTask \/ \E q \in Request : Resubscribe(q)
      BY <2>1, SubscribingPursued
    <2>2. ASSUME NEW q \in Request,
                 TakeHandle(q) \/ RenewHandle(q) \/ DropHandle(q) \/ TimerExpires(q)
          PROVE  Pursued'
      BY <2>2, HandlesPursued
    <2>3. ASSUME NEW q \in Request, NEW s \in Session, Answer(q, s)
          PROVE  Pursued'
      BY <2>3, AnswersPursued
    <2>4. ASSUME NEW d \in deleting, DeleteAnswered(d)
          PROVE  Pursued'
      BY <2>4, DeletionsPursued
    <2>5. ASSUME NEW s \in Session, Welcome(s) \/ SessionLost(s) \/ SessionReconnects(s)
          PROVE  Pursued'
      BY <2>5, SessionsPursued
    <2>6. CASE UNCHANGED vars
      BY <2>6 DEF vars, Pursued, Pursuing, OnItsWay
    <2> QED
      BY <2>1, <2>2, <2>3, <2>4, <2>5, <2>6 DEF Next
  <1>3. Inv /\ Pursued => WantedIsPursued
    BY DEF Inv, TypeOK, Pursued, Pursuing, WantedIsPursued
  <1> QED
    BY <1>1, <1>2, <1>3, InvIsInvariant, PTL DEF Spec
=============================================================================
