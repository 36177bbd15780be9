---------------------------- MODULE LiveUpdates ----------------------------
(***************************************************************************)
(* BasicPubSubManager: the pool of websocket clients that carries the      *)
(* subscriptions of the 7TV and BTTV live updates.  A subscription goes to *)
(* a client with room for it, connecting or open; when there is none it    *)
(* waits in pendingSubscriptions_ for the next client that opens.          *)
(*                                                                         *)
(* The manager runs in the GUI thread.  The websocket threads post         *)
(* onConnectionOpen and onConnectionClose to it, in this order and the     *)
(* close exactly once, at any time.  The caller is SeventvEventAPI (and    *)
(* BttvLiveUpdates), which remembers what it subscribed to.                *)
(***************************************************************************)
EXTENDS Naturals, Sequences, FiniteSets, SequencesExt, Functions

CONSTANTS
    Sub,                \* the subscriptions, of any kind
    maxSubscriptions,   \* of one client
    MaxCloses,          \* bound: connections that fail or break
    MaxUnsubscribes,    \* bound: calls of unsubscribe()
    MayStop             \* may stop() be called

ASSUME LiveUpdatesAssumption ==
    /\ maxSubscriptions \in Nat \ {0}
    /\ MaxCloses \in Nat /\ MaxUnsubscribes \in Nat
    /\ MayStop \in BOOLEAN

VARIABLES
    clients,        \* clients_: id -> [open |-> open_, subs |-> subscriptions_]
    pending,        \* pendingSubscriptions_, taken from the back
    addingClient,   \* addingClient_
    nextId,         \* nextId_
    timers,         \* backoff timers that will call addClient()
    stopping,       \* stopping_; stop() resets pool_ too
    wanted,         \* subscribedUsers, subscribedEmoteSets, ... of SeventvEventAPI
    missed,         \* history: subscriptions a client that was full did not take, and
                    \* that no client took or was added for since then
    closes,         \* bound: connections that failed or broke so far
    unsubscribes    \* bound: calls of unsubscribe() so far

pool == <<clients, pending, addingClient, nextId>>
vars == <<clients, pending, addingClient, nextId, timers, stopping, wanted,
          missed, closes, unsubscribes>>

\* The part of the state the manager's own functions change, as one value
Pool == [clients |-> clients, pending |-> pending, adding |-> addingClient,
         nextId |-> nextId]

SetPool(p) ==
    /\ clients' = p.clients
    /\ pending' = p.pending
    /\ addingClient' = p.adding
    /\ nextId' = p.nextId

Init ==
    /\ clients = [id \in {} |-> {}]
    /\ pending = << >>
    /\ addingClient = FALSE
    /\ nextId = 0
    /\ timers = 0
    /\ stopping = FALSE
    /\ wanted = {}
    /\ missed = {}
    /\ closes = 0
    /\ unsubscribes = 0
-----------------------------------------------------------------------------
(* The private functions of the manager. *)

\* addClient()
AddClient(p) ==
    IF p.adding \/ stopping THEN p
    ELSE [clients |-> [id \in DOMAIN p.clients \cup {p.nextId} |->
                          IF id = p.nextId THEN [open |-> FALSE, subs |-> {}]
                          ELSE p.clients[id]],
          pending |-> p.pending,
          adding |-> TRUE,
          nextId |-> p.nextId + 1]

\* Faulty variant: BasicPubSubClient::subscribe() allows one too many.
HasRoomPlusOne(client) == Cardinality(client.subs) <= maxSubscriptions

\* BasicPubSubClient::subscribe() refuses when the client is full, even a
\* subscription it has.
HasRoom(client) == Cardinality(client.subs) < maxSubscriptions

Accepting(p) == {id \in DOMAIN p.clients : HasRoom(p.clients[id])}

Accepted(p, s) == {[p EXCEPT !.clients[id].subs = @ \cup {s}] : id \in Accepting(p)}

SubscribeWithoutReturn(p, s) ==
    IF Accepting(p) # {} THEN {[q EXCEPT !.pending = Append(@, s)] : q \in Accepted(p, s)}
    ELSE {[AddClient(p) EXCEPT !.pending = Append(@, s)]}

\* subscribe(): the possible results, since trySubscribe() asks the clients in
\* the unspecified order of an unordered_map.
SubscribeTo(p, s) ==
    IF Accepting(p) # {} THEN Accepted(p, s)
    ELSE {[AddClient(p) EXCEPT !.pending = Append(@, s)]}

\* subscribe() for one subscription after the other: the possible results
SubscribeEach(p, order) ==
    LET results[k \in 0..Len(order)] ==
            IF k = 0 THEN {p}
            ELSE UNION {SubscribeTo(q, order[k]) : q \in results[k - 1]}
    IN  results[Len(order)]

\* subscribe() for each of a set, in any order
SubscribeAll(p, subs) == UNION {SubscribeEach(p, order) : order \in SetToSeqs(subs)}

\* One round of the loop of onConnectionOpen(): the last pending subscription
\* is taken off; the round that finds the client full has lost it.
TakeLast(t) ==
    CASE t.full -> t
      [] ~t.full /\ ~HasRoom(t.client) ->
             [client |-> t.client, pending |-> Front(t.pending), full |-> TRUE]
      [] OTHER ->
             [client |-> [t.client EXCEPT !.subs = @ \cup {Last(t.pending)}],
              pending |-> Front(t.pending), full |-> FALSE]

\* Faulty variant: the client is not told that it is open.
OpenClientForgotten(client) == client

\* BasicPubSubClient::onOpen()
OpenClient(client) == [client EXCEPT !.open = TRUE]

\* The loop: what the client that opens takes of what waits
Taken(p, id) ==
    LET rounds == IF Len(p.pending) < maxSubscriptions THEN Len(p.pending)
                  ELSE maxSubscriptions
        taken[k \in 0..rounds] ==
            IF k = 0 THEN [client |-> OpenClient(p.clients[id]),
                           pending |-> p.pending, full |-> FALSE]
            ELSE TakeLast(taken[k - 1])
    IN  taken[rounds]

\* onConnectionOpen(): the pool after it.  What is left for another client
\* has one added, unless a subscription was lost.
OpenedPool(p, id) ==
    LET taken == Taken(p, id)
        result == [clients |-> [p.clients EXCEPT ![id] = taken.client],
                   pending |-> taken.pending,
                   adding |-> FALSE,
                   nextId |-> p.nextId]
    IN  IF taken.full \/ taken.pending = << >> THEN result ELSE AddClient(result)

\* Faulty variant: addingClient_ is only reset when a client opens.
ErasedStillAdding(p, id) == [p EXCEPT !.clients = Restrict(@, DOMAIN @ \ {id})]

Erased(p, id) ==
    [clients |-> Restrict(p.clients, DOMAIN p.clients \ {id}),
     pending |-> p.pending,
     adding |-> FALSE,
     nextId |-> p.nextId]

\* The subscriptions of an open client move on at once, those of a client that
\* never opened wait for the backoff.
ClosedPool(p, id) ==
    LET client == p.clients[id]
    IN  CASE stopping -> {Erased(p, id)}
          [] ~stopping /\ client.open -> SubscribeAll(Erased(p, id), client.subs)
          [] OTHER -> {[Erased(p, id) EXCEPT !.pending = @ \o order] :
                          order \in SetToSeqs(client.subs)}
-----------------------------------------------------------------------------
(* Calls of SeventvEventAPI, which asks only for what it does not have yet
   and gives back only what it has. *)

Subscribe(s) ==
    /\ s \notin wanted
    /\ wanted' = wanted \cup {s}
    /\ missed' = missed \ {s}
    /\ \E p \in SubscribeTo(Pool, s) : SetPool(p)
    /\ UNCHANGED <<timers, stopping, closes, unsubscribes>>

\* unsubscribe(): the first client that has the subscription drops it; the
\* subscriptions that wait for a client are not searched.
Unsubscribe(s) ==
    LET holders == {id \in DOMAIN clients : s \in clients[id].subs} IN
    /\ unsubscribes < MaxUnsubscribes
    /\ s \in wanted
    /\ wanted' = wanted \ {s}
    /\ unsubscribes' = unsubscribes + 1
    /\ \/ /\ holders = {}
          /\ clients' = clients
       \/ \E id \in holders : clients' = [clients EXCEPT ![id].subs = @ \ {s}]
    /\ UNCHANGED <<pending, addingClient, nextId, timers, stopping, missed, closes>>

Stop ==
    /\ MayStop /\ ~stopping
    /\ stopping' = TRUE
    /\ UNCHANGED <<pool, timers, wanted, missed, closes, unsubscribes>>
-----------------------------------------------------------------------------
(* Events of the websockets and timers. *)

\* onConnectionOpen(): what waits is taken, or has a client added to wait for, unless
\* this one turns out to be full.
Opened(id) ==
    LET taken == Taken(Pool, id) IN
    /\ id \in DOMAIN clients /\ ~clients[id].open
    /\ SetPool(OpenedPool(Pool, id))
    /\ missed' = IF taken.full THEN (missed \cup Range(pending)) \ taken.client.subs
                 ELSE missed \ Range(pending)
    /\ UNCHANGED <<timers, stopping, wanted, closes, unsubscribes>>

\* onConnectionClose()
Closed(id) ==
    /\ id \in DOMAIN clients
    /\ closes < MaxCloses \/ stopping
    /\ closes' = IF stopping THEN closes ELSE closes + 1
    /\ \E p \in ClosedPool(Pool, id) : SetPool(p)
    /\ timers' = IF stopping \/ clients[id].open THEN timers ELSE timers + 1
    /\ UNCHANGED <<stopping, wanted, missed, unsubscribes>>

BackoffTimer ==
    /\ timers > 0
    /\ timers' = timers - 1
    /\ SetPool(AddClient(Pool))
    /\ UNCHANGED <<stopping, wanted, missed, closes, unsubscribes>>
-----------------------------------------------------------------------------
Next ==
    \/ \E s \in Sub : Subscribe(s) \/ Unsubscribe(s)
    \/ \E id \in DOMAIN clients : Opened(id) \/ Closed(id)
    \/ BackoffTimer
    \/ Stop

Spec == Init /\ [][Next]_vars

\* An attempt to connect ends one way or the other, and timers fire.
Settles(id) == ~clients[id].open /\ (Opened(id) \/ Closed(id))

Fairness ==
    /\ WF_vars(\E id \in DOMAIN clients : Settles(id))
    /\ WF_vars(BackoffTimer)

FairSpec == Spec /\ Fairness
-----------------------------------------------------------------------------
(* Properties. *)

Holders(s) == {id \in DOMAIN clients : s \in clients[id].subs}

Waiting(s) == {i \in 1..Len(pending) : pending[i] = s}

Connecting == {id \in DOMAIN clients : ~clients[id].open}

\* Every variable has its type, and no client exceeds maxSubscriptions
\* (BasicPubSubClient::subscribe()).
TypeOK ==
    /\ DOMAIN clients \subseteq 0..(nextId - 1)
    /\ clients \in [DOMAIN clients -> [open : BOOLEAN, subs : SUBSET Sub]]
    /\ \A id \in DOMAIN clients : Cardinality(clients[id].subs) <= maxSubscriptions
    /\ pending \in Seq(Sub)
    /\ addingClient \in BOOLEAN
    /\ nextId \in Nat /\ timers \in Nat
    /\ stopping \in BOOLEAN
    /\ wanted \subseteq Sub

\* As long as nothing was unsubscribed, a subscription is in one place: with
\* one client or waiting once, however connections open and break.  Its updates
\* are never received twice.
SubscribedOnce ==
    unsubscribes = 0 =>
        \A s \in Sub : Cardinality(Holders(s)) + Cardinality(Waiting(s)) <= 1

\* What the application subscribed to is with a client, or waits while a client
\* is connecting or about to, except what a client that turned out to be full did not
\* take, as long as no other client takes it (see SubscribesWhatIsAsked).
WantedIsOnItsWay ==
    ~stopping =>
        \A s \in wanted \ missed :
            \/ Holders(s) # {}
            \/ Waiting(s) # {} /\ (Connecting # {} \/ timers > 0)

\* Once connections stop breaking, what the application subscribes to is sent
\* on an open connection.
WantedIsSent ==
    \A s \in Sub :
        s \in wanted ~> (\/ s \notin wanted \/ s \in missed
                         \/ stopping
                         \/ \E id \in Holders(s) : clients[id].open)

-----------------------------------------------------------------------------
(* What comments and documents say and the code does not do. *)

\* SeventvEventAPI.hpp:46: subscribeUser() "Subscribes to a user and emote-set
\* if not already subscribed".  What was asked for is with a client or waits.
SubscribesWhatIsAsked ==
    ~stopping => \A s \in wanted : Holders(s) # {} \/ Waiting(s) # {}

\* SeventvEventAPI.hpp:62: "Unsubscribes from a user by its 7TV user id".  An
\* open connection carries no subscription that was given back.
UnsubscribesWhatIsAsked ==
    \A id \in DOMAIN clients : clients[id].open => clients[id].subs \subseteq wanted
=============================================================================
