------------------------------ MODULE EventSub ------------------------------
(***************************************************************************)
(* The EventSub Controller, its Connections and their Sessions.            *)
(*                                                                         *)
(* Two threads meet here.  The GUI thread takes and drops handles and runs *)
(* the callbacks of Helix requests; the controller's own thread runs what  *)
(* is posted to its io_context, the retry timers and the sessions.  Every  *)
(* action is what one of them does under subscriptionsMutex, or a handler  *)
(* of the controller's thread.  Twitch is external.                        *)
(***************************************************************************)
EXTENDS Integers, Sequences, FiniteSets

CONSTANTS
    Request,       \* SubscriptionRequests
    User,          \* Twitch users
    Owner,         \* ownerTwitchUserID of each request
    NoUser,        \* an empty twitchUserID
    MaxSessions,   \* sessions that may be made; more than the bounds below need
    MaxLosses,     \* bound: sessions that end or are told to reconnect
    MaxErrors,     \* bound: Helix requests that fail although the session is there
    MaxAsks        \* bound: handles taken

ASSUME EventSubAssumption ==
    /\ IsFiniteSet(Request)
    /\ Owner \in [Request -> User]
    /\ NoUser \notin User
    /\ {MaxSessions, MaxLosses, MaxErrors, MaxAsks} \subseteq Nat

Session == 1..MaxSessions

VARIABLES
    subs,        \* Controller::subscriptions
    held,        \* requests for which a channel holds a SubscriptionHandle
    sessions,    \* Controller::connections in order, with their listeners
    tasks,       \* what is posted to the io_context
    resubscribe, \* requests that reconnectConnection() has still to subscribe to
    creating,    \* Helix requests under way, by request and session
    deleting,    \* Helix requests under way, by request and subscription id
    server,      \* external: subscriptions Twitch has, by request and session id
    givenUp,     \* history: requests whose pursuit ended without an entry saying so
    losses, errors, asks   \* bounds: what happened so far

vars == <<subs, held, sessions, tasks, resubscribe, creating, deleting, server,
          givenUp, losses, errors, asks>>

State == {"Unsubscribed", "Failed", "Subscribing", "Retrying", "Subscribed", "Unsubscribing"}

\* A subscriptionID names the session id it was made for; 0 is an empty one.
\* "retryTimer" is "fired" when the wait is over and its handler is posted.
Subscription == [listed : BOOLEAN, state : State, refCount : Nat, connection : Session \cup {0},
                 id : Session \cup {0}, retryTimer : {"none", "armed", "fired"}]

Absent == [listed |-> FALSE, state |-> "Unsubscribed", refCount |-> 0, connection |-> 0,
           id |-> 0, retryTimer |-> "none"]

\* subscriptions[request], which makes the entry
Entry(r) == [subs[r] EXCEPT !.listed = TRUE]

\* A session whose listener is gone is dead to the controller.
Connection == [alive : BOOLEAN, sessionID : Session \cup {0}, twitchUserID : User \cup {NoUser},
               subscriptions : SUBSET Request]

Dead == [alive |-> FALSE, sessionID |-> 0, twitchUserID |-> NoUser, subscriptions |-> {}]
NewConnection == [Dead EXCEPT !.alive = TRUE]

Alive(s) == s \in DOMAIN sessions /\ sessions[s].alive

Init ==
    /\ subs = [r \in Request |-> Absent]
    /\ held = {}
    /\ sessions = << >>
    /\ tasks = << >>
    /\ resubscribe = {}
    /\ creating = [r \in Request |-> [s \in Session |-> 0]]
    /\ deleting = {}
    /\ server = {}
    /\ givenUp = {}
    /\ losses = 0 /\ errors = 0 /\ asks = 0
-----------------------------------------------------------------------------
(* Subscribing, in the controller's thread. *)

\* getViableConnection()
Viable(r) ==
    {s \in DOMAIN sessions : /\ Alive(s)
                             /\ sessions[s].sessionID # 0
                             /\ sessions[s].twitchUserID \in {NoUser, Owner[r]}}

First(S) == CHOOSE s \in S : \A t \in S : s <= t

\* openButNotReadyConnections
NotReady == {s \in DOMAIN sessions : Alive(s) /\ sessions[s].sessionID = 0}

\* Faulty variants: a connection that is not ready does not count; one that is
\* dead does.
WithConnectionAlways == Append(sessions, NewConnection)

WithConnectionOnce == IF sessions = << >> THEN <<NewConnection>> ELSE sessions

\* createConnection(), unless a connection is on its way
WithConnection ==
    IF NotReady = {} THEN Append(sessions, NewConnection) ELSE sessions

\* retrySubscription(); setting the timer anew cancels the one that is there.
RetrySubscription(e) ==
    IF e.refCount = 0 THEN Absent
    ELSE [e EXCEPT !.state = "Retrying", !.retryTimer = "armed"]

\* subscribe(request, isRetry)
SubscribeOn(r) ==
    LET e == [Entry(r) EXCEPT !.retryTimer = "none"]
    IN  \/ /\ Viable(r) # {}
           /\ subs' = [subs EXCEPT ![r] = e]
           /\ creating' = [creating EXCEPT ![r][First(Viable(r))] = @ + 1]
           /\ UNCHANGED sessions
        \/ /\ Viable(r) = {}
           /\ Len(WithConnection) <= MaxSessions
           /\ sessions' = WithConnection
           /\ subs' = [subs EXCEPT ![r] = RetrySubscription(e)]
           /\ UNCHANGED creating

\* The controller's thread takes what was posted; reconnectConnection() ends first.
RunTask ==
    /\ resubscribe = {}
    /\ tasks # << >>
    /\ LET task == Head(tasks)
       IN  \/ /\ task.kind \in {"subscribe", "timer"}
              /\ SubscribeOn(task.req)
           \/ /\ task.kind = "retry"
              /\ subs' = [subs EXCEPT ![task.req] = RetrySubscription(Entry(task.req))]
              /\ UNCHANGED <<sessions, creating>>
    /\ tasks' = Tail(tasks)
    /\ UNCHANGED <<held, resubscribe, deleting, server, givenUp, losses, errors, asks>>

\* reconnectConnection(): subscribe() for each request of the lost connection
Resubscribe(r) ==
    /\ r \in resubscribe
    /\ SubscribeOn(r)
    /\ resubscribe' = resubscribe \ {r}
    /\ UNCHANGED <<held, tasks, deleting, server, givenUp, losses, errors, asks>>

Post(kind, r) == tasks' = Append(tasks, [kind |-> kind, req |-> r])

\* The wait of a retry timer ends, and its handler is queued.
TimerExpires(r) ==
    /\ subs[r].retryTimer = "armed"
    /\ subs' = [subs EXCEPT ![r].retryTimer = "fired"]
    /\ Post("timer", r)
    /\ UNCHANGED <<held, sessions, resubscribe, creating, deleting, server, givenUp,
                   losses, errors, asks>>
-----------------------------------------------------------------------------
(* Handles, in the GUI thread. *)

\* subscribe(request) makes an entry that nobody pursues Subscribing.
NeedToSubscribe(r) == subs[r].state \in {"Unsubscribed", "Failed"}

\* A channel takes a handle; all handles are of one user, who is signed in.
TakeHandle(r) ==
    /\ r \notin held
    /\ \A q \in held : Owner[q] = Owner[r]
    /\ asks < MaxAsks
    /\ asks' = asks + 1
    /\ held' = held \cup {r}
    /\ subs' = [subs EXCEPT ![r] = [Entry(r) EXCEPT
                    !.refCount = @ + 1,
                    !.state = IF NeedToSubscribe(r) THEN "Subscribing" ELSE @]]
    /\ IF NeedToSubscribe(r) THEN Post("subscribe", r) ELSE UNCHANGED tasks
    /\ givenUp' = givenUp \ (IF NeedToSubscribe(r) THEN {r} ELSE {})
    /\ UNCHANGED <<sessions, resubscribe, creating, deleting, server, losses, errors>>

\* refreshPubSub() replaces a handle by a new one for the same request, which
\* starts anew after a failure and changes nothing otherwise.
RenewHandle(r) ==
    /\ r \in held
    /\ NeedToSubscribe(r)
    /\ asks < MaxAsks
    /\ asks' = asks + 1
    /\ subs' = [subs EXCEPT ![r].state = "Subscribing"]
    /\ Post("subscribe", r)
    /\ givenUp' = givenUp \ {r}
    /\ UNCHANGED <<held, sessions, resubscribe, creating, deleting, server, losses, errors>>

\* Is anything under way that ends with a state of the entry that can be trusted?
OnItsWay(r) ==
    \/ subs[r].retryTimer # "none"
    \/ \E i \in DOMAIN tasks : tasks[i].req = r
    \/ r \in resubscribe
    \/ \E s \in Session : creating[r][s] > 0
    \/ \E d \in deleting : d.req = r

\* removeRef(), called by the destructor of the handle
DropHandle(r) ==
    /\ r \in held
    /\ held' = held \ {r}
    /\ LET e == [subs[r] EXCEPT !.refCount = @ - 1]
       IN  \/ /\ e.refCount > 0
              /\ subs' = [subs EXCEPT ![r] = e]
              /\ UNCHANGED deleting
           \/ /\ e.refCount <= 0
              /\ e.id = 0
              /\ subs' = [subs EXCEPT ![r] = [e EXCEPT !.retryTimer = "none"]]
              /\ UNCHANGED deleting
           \/ /\ e.refCount <= 0
              /\ e.id # 0
              /\ subs' = [subs EXCEPT ![r] = [e EXCEPT !.retryTimer = "none",
                              !.state = "Unsubscribing", !.id = 0]]
              /\ deleting' = deleting \cup {[req |-> r, id |-> e.id]}
    /\ UNCHANGED <<sessions, tasks, resubscribe, creating, server, losses, errors, asks>>
    \* the wait that is cancelled here may be all that pursued the request
    /\ givenUp' = IF OnItsWay(r) /\ ~OnItsWay(r)' THEN givenUp \cup {r} ELSE givenUp
-----------------------------------------------------------------------------
(* Answers of Helix, in the GUI thread. *)

Answered(r, s) ==
    /\ creating[r][s] > 0
    /\ creating' = [creating EXCEPT ![r][s] = @ - 1]

\* Twitch has one user's subscriptions in a session, and each of them once.
Accepted(r, id) == \A t \in server : t.id = id => t.req # r /\ Owner[t.req] = Owner[r]

\* markRequestSubscribed(); Connection::markRequestSubscribed()
CreateSucceeds(r, s) ==
    /\ Answered(r, s)
    /\ \/ /\ Alive(s)
          /\ Accepted(r, sessions[s].sessionID)
          /\ server' = server \cup {[req |-> r, id |-> sessions[s].sessionID]}
          /\ sessions' = [sessions EXCEPT ![s].twitchUserID = Owner[r],
                                          ![s].subscriptions = @ \cup {r}]
          /\ subs' = [subs EXCEPT ![r] = [Entry(r) EXCEPT !.connection = s,
                          !.id = sessions[s].sessionID, !.state = "Subscribed"]]
          /\ UNCHANGED givenUp
       \/ \* the session ended after Twitch had answered
          /\ ~Alive(s)
          /\ givenUp' = givenUp \cup {r}
          /\ UNCHANGED <<server, sessions, subs>>
    /\ UNCHANGED <<held, tasks, resubscribe, deleting, losses, errors, asks>>

\* NoSession, and errors the code knows nothing about
CreateRetries(r, s) ==
    /\ Answered(r, s)
    /\ Post("retry", r)
    /\ \/ ~Alive(s) /\ UNCHANGED errors
       \/ errors < MaxErrors /\ errors' = errors + 1
    /\ UNCHANGED <<subs, held, sessions, resubscribe, deleting, server, givenUp, losses, asks>>

\* markRequestFailed(): the request is bad, or Twitch will not have it twice or
\* with another user's
CreateFails(r, s) ==
    /\ Answered(r, s)
    /\ subs' = [subs EXCEPT ![r] = [Entry(r) EXCEPT !.state = "Failed"]]
    /\ \/ Alive(s) /\ ~Accepted(r, sessions[s].sessionID) /\ UNCHANGED errors
       \/ errors < MaxErrors /\ errors' = errors + 1
    /\ UNCHANGED <<held, sessions, tasks, resubscribe, deleting, server, givenUp, losses, asks>>

\* Error::Forbidden returns before anything is marked.
CreateForbidden(r, s) ==
    /\ Answered(r, s)
    /\ errors < MaxErrors
    /\ errors' = errors + 1
    /\ givenUp' = givenUp \cup {r}
    /\ UNCHANGED <<subs, held, sessions, tasks, resubscribe, deleting, server, losses, asks>>

\* Connection::markRequestUnsubscribed()
WithoutRequest(c, r) ==
    [c EXCEPT !.subscriptions = @ \ {r},
              !.twitchUserID = IF c.subscriptions \subseteq {r} THEN NoUser ELSE @]

\* Faulty variants: who came meanwhile is not looked at, or gets no subscription.
MarkRequestUnsubscribedErases(r) ==
    /\ subs' = [subs EXCEPT ![r] = Absent]
    /\ UNCHANGED tasks

MarkRequestUnsubscribedQuietly(r) ==
    /\ subs' = [subs EXCEPT ![r] = IF @.refCount = 0 THEN Absent
                                   ELSE [Entry(r) EXCEPT !.state = "Subscribing",
                                                         !.connection = 0]]
    /\ UNCHANGED tasks

\* The entry after markRequestUnsubscribed(), which subscribes again for
\* someone who took a handle meanwhile
MarkRequestUnsubscribed(r) ==
    \/ /\ subs[r].refCount = 0
       /\ subs' = [subs EXCEPT ![r] = Absent]
       /\ UNCHANGED tasks
    \/ /\ subs[r].refCount > 0
       /\ subs' = [subs EXCEPT ![r] = [Entry(r) EXCEPT !.state = "Subscribing",
                                                       !.connection = 0]]
       /\ Post("subscribe", r)

\* Both callbacks of the DELETE request do the same; Twitch may have kept the
\* subscription after an error.
DeleteAnswered(d) ==
    /\ d \in deleting
    /\ deleting' = deleting \ {d}
    /\ \/ server' = server \ {d} /\ UNCHANGED errors
       \/ errors < MaxErrors /\ errors' = errors + 1 /\ UNCHANGED server
    /\ MarkRequestUnsubscribed(d.req)
    /\ LET s == subs[d.req].connection
       IN  sessions' = IF s # 0 /\ Alive(s)
                       THEN [sessions EXCEPT ![s] = WithoutRequest(@, d.req)]
                       ELSE sessions
    /\ UNCHANGED <<held, resubscribe, creating, givenUp, losses, asks>>
-----------------------------------------------------------------------------
(* Sessions, in the controller's thread. *)

\* Twitch forgets a session id with the last session that has it.
Forget(id) == server' = {t \in server : t.id # id}

\* Connection::onSessionWelcome(); after a reconnect the id stays the same.
Welcome(s) ==
    /\ resubscribe = {}
    /\ s \in NotReady
    /\ sessions' = [sessions EXCEPT ![s].sessionID = s]
    /\ UNCHANGED <<subs, held, tasks, resubscribe, creating, deleting, server, givenUp,
                   losses, errors, asks>>

\* Faulty variant: the entries keep the state they have.
LostEntriesKept(rs) == subs

\* reconnectConnection() without a URL: what the connection had is to be made again.
LostEntries(rs) ==
    [r \in Request |-> IF r \in rs /\ subs[r].listed
                       THEN [subs[r] EXCEPT !.connection = 0, !.state = "Subscribing"]
                       ELSE subs[r]]

\* A session that fails, is closed by Twitch, or is silent for too long
\* (checkKeepalive()) gives its listener to reconnectConnection().
SessionLost(s) ==
    /\ resubscribe = {}
    /\ Alive(s)
    /\ losses < MaxLosses
    /\ losses' = losses + 1
    /\ Forget(sessions[s].sessionID)
    /\ sessions' = [sessions EXCEPT ![s] = Dead]
    /\ subs' = LostEntries(sessions[s].subscriptions)
    /\ resubscribe' = sessions[s].subscriptions
    /\ UNCHANGED <<held, tasks, creating, deleting, givenUp, errors, asks>>

\* session_reconnect: the listener moves to a new session with what it has, or
\* is dropped when it has nothing.
SessionReconnects(s) ==
    /\ resubscribe = {}
    /\ Alive(s)
    /\ sessions[s].sessionID # 0
    /\ losses < MaxLosses
    /\ losses' = losses + 1
    /\ \/ /\ sessions[s].subscriptions = {}
          /\ sessions' = [sessions EXCEPT ![s] = Dead]
          /\ Forget(sessions[s].sessionID)
       \/ /\ sessions[s].subscriptions # {}
          /\ Len(sessions) < MaxSessions
          /\ sessions' = Append([sessions EXCEPT ![s] = Dead], sessions[s])
          /\ UNCHANGED server
    /\ UNCHANGED <<subs, held, tasks, resubscribe, creating, deleting, givenUp, errors, asks>>
-----------------------------------------------------------------------------
Answer(r, s) ==
    CreateSucceeds(r, s) \/ CreateRetries(r, s) \/ CreateFails(r, s) \/ CreateForbidden(r, s)

Next ==
    \/ RunTask
    \/ \E r \in Request :
        \/ TakeHandle(r) \/ RenewHandle(r) \/ DropHandle(r)
        \/ TimerExpires(r) \/ Resubscribe(r)
        \/ \E s \in Session : Answer(r, s)
    \/ \E d \in deleting : DeleteAnswered(d)
    \/ \E s \in Session : Welcome(s) \/ SessionLost(s) \/ SessionReconnects(s)

Spec == Init /\ [][Next]_vars

\* The io_context runs what is posted, timers expire, requests are answered or
\* fail, and a session that is not lost is welcomed.
FairSpec ==
    /\ Spec
    /\ WF_vars(RunTask)
    /\ \A r \in Request :
        /\ WF_vars(TimerExpires(r))
        /\ WF_vars(Resubscribe(r))
        /\ \A s \in Session : WF_vars(Answer(r, s))
        /\ \A id \in Session : WF_vars(DeleteAnswered([req |-> r, id |-> id]))
    /\ \A s \in Session : WF_vars(Welcome(s))
-----------------------------------------------------------------------------
(* Correctness. *)

TypeOK ==
    /\ subs \in [Request -> Subscription]
    /\ held \subseteq Request
    /\ sessions \in Seq(Connection) /\ Len(sessions) <= MaxSessions
    /\ tasks \in Seq([kind : {"subscribe", "retry", "timer"}, req : Request])
    /\ resubscribe \subseteq Request
    /\ creating \in [Request -> [Session -> Nat]]
    /\ deleting \subseteq [req : Request, id : Session]
    /\ server \subseteq [req : Request, id : Session]
    /\ givenUp \subseteq Request
    /\ losses \in 0..MaxLosses /\ errors \in 0..MaxErrors /\ asks \in 0..MaxAsks

\* The references of an entry are the handles that are held, also after the entry
\* was erased and made again by a callback that came late (Controller.cpp:189).
HandlesAreCounted ==
    \A r \in Request : subs[r].refCount = IF r \in held THEN 1 ELSE 0

\* A request that is held and says Subscribed has a live connection whose listener
\* will make it again when the connection fails, and Twitch has it under the id of
\* that connection: no loss, reconnect or late answer leaves it saying so in vain.
SubscribedIsHeard ==
    \A r \in held : subs[r].state = "Subscribed" =>
        \E s \in DOMAIN sessions :
            /\ r \in sessions[s].subscriptions
            /\ [req |-> r, id |-> sessions[s].sessionID] \in server

\* What somebody holds is subscribed, has failed, or is on its way there: by a
\* timer, a posted call or a request that will be answered.  Excepted are the
\* requests the controller stops pursuing without saying so (givenUp): Forbidden
\* ones, those whose session ended before the answer came, and those whose retry
\* was cancelled with the last handle, which a later handle does not start again.
WantedIsPursued ==
    \A r \in held \ givenUp : OnItsWay(r) \/ subs[r].state \in {"Subscribed", "Failed"}

\* At most one connection is open but not ready ("There should only ever be 0 or
\* 1", Controller.cpp:534), however many requests ask for one meanwhile.
OneConnectionAtATime == Cardinality(NotReady) <= 1

\* Once sessions stop ending and Helix stops failing, a request that stays held is
\* subscribed or has failed; excepted as above.
WantedIsSubscribed ==
    \A r \in Request :
        r \in held ~> \/ r \notin held \/ r \in givenUp
                      \/ subs[r].state \in {"Subscribed", "Failed"}
-----------------------------------------------------------------------------
(* Said of the controller, and not so. *)

\* subscribe() asks an open connection to add the subscription, or queues it to run
\* again (Controller.hpp:42): so a handle has a request that is made or under way.
HandlesArePursued ==
    \A r \in held : OnItsWay(r) \/ subs[r].state \in {"Subscribed", "Failed"}

\* "A subscription can only be marked subscribed from the Subscribing or Retrying
\* state" (Controller.cpp:732)
MarkedOnlyWhileSubscribing ==
    [][\A r \in Request :
        subs'[r].state = "Subscribed" =>
            subs[r].state \in {"Subscribed", "Subscribing", "Retrying"}]_vars

\* "A subscription was made when another user's subscriptions were still active"
\* is asserted not to happen (Connection.cpp:423).
OneUserPerConnection ==
    \A s \in DOMAIN sessions :
        {Owner[r] : r \in sessions[s].subscriptions} \subseteq {sessions[s].twitchUserID}

\* We unsubscribe "after all references were released" (Controller.hpp:122): what
\* Twitch has and nobody holds is on its way to be deleted.
UnwantedIsGivenUp ==
    \A t \in server : t.req \notin held => OnItsWay(t.req)
=============================================================================
