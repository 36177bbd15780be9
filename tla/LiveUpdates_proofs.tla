------------------------- MODULE LiveUpdates_proofs -------------------------
(***************************************************************************)
(* Invariance proofs for LiveUpdates, for every set of subscriptions and   *)
(* every bound.  What the loops of the manager do is proved by induction   *)
(* over their rounds.                                                      *)
(***************************************************************************)
EXTENDS LiveUpdates, Integers, SequenceTheorems, FiniteSetTheorems, TLAPS

(* Induction over the naturals. *)

\* A nonempty set of naturals has a least element: the initial segments 1..n are
\* finite sets, which strict inclusion orders well.
LEMMA Least ==
    ASSUME NEW T \in SUBSET Nat, T # {}
    PROVE  \E n \in T : \A m \in T : n <= m
  <1> DEFINE B == {1..n : n \in T}
  <1>1. B # {}
    OBVIOUS
  <1>2. B \subseteq FiniteSubsetsOf(Nat)
    <2>1. ASSUME NEW n \in T PROVE 1..n \in FiniteSubsetsOf(Nat)
      <3>1. 1..n \subseteq Nat /\ n \in Int /\ 1 \in Int
        OBVIOUS
      <3>2. IsFiniteSet(1..n)
        BY <3>1, FS_Interval
      <3> QED
        BY <3>1, <3>2 DEF FiniteSubsetsOf
    <2> QED
      BY <2>1
  <1>3. IsWellFoundedOn(StrictSubsetOrdering(Nat), FiniteSubsetsOf(Nat))
    BY FS_StrictSubsetOrderingWellFounded
  <1>4. PICK x \in B : \A y \in B : ~(<<y, x>> \in StrictSubsetOrdering(Nat))
    <2> HIDE DEF B
    <2> QED
      BY <1>1, <1>2, <1>3, WFMin
  <1>5. PICK n \in T : x = 1..n
    BY <1>4
  <1>6. \A m \in T : ~(m < n)
    <2> SUFFICES ASSUME NEW m \in T, m < n PROVE FALSE
      OBVIOUS
    <2>1. n \in 1..n /\ n \notin 1..m
      OBVIOUS
    <2>2. 1..m \subseteq 1..n /\ 1..m # 1..n
      BY <2>1
    <2>3. <<1..m, x>> \in StrictSubsetOrdering(Nat)
      BY <2>2, <1>5 DEF StrictSubsetOrdering
    <2> QED
      BY <1>4, <2>3
  <1> QED
    BY <1>6

LEMMA Induction ==
    ASSUME NEW T, 0 \in T, \A k \in Nat : k \in T => k + 1 \in T
    PROVE  Nat \subseteq T
  <1> DEFINE U == Nat \ T
  <1> SUFFICES ASSUME U # {} PROVE FALSE
    OBVIOUS
  <1>1. U \in SUBSET Nat
    OBVIOUS
  <1>2. PICK n \in U : \A m \in U : n <= m
    <2> HIDE DEF U
    <2> QED
      BY <1>1, Least
  <1>3. n \in Nat /\ n # 0
    BY <1>2
  <1>4. n - 1 \in Nat /\ n - 1 \notin U
    <2>1. n - 1 \in Nat /\ ~(n <= n - 1)
      BY <1>3
    <2> HIDE DEF U
    <2> QED
      BY <2>1, <1>2
  <1>5. (n - 1) + 1 = n
    BY <1>3
  <1> QED
    BY <1>2, <1>4, <1>5
-----------------------------------------------------------------------------
(* The pool, whichever step it is in. *)

Client ==
    [open : BOOLEAN,
     subs : {S \in SUBSET Sub : IsFiniteSet(S) /\ Cardinality(S) <= maxSubscriptions}]

Connects(p) == \E id \in DOMAIN p.clients : ~p.clients[id].open

Held(p, s) == \E id \in DOMAIN p.clients : s \in p.clients[id].subs

Queued(p, s) == \E i \in 1..Len(p.pending) : p.pending[i] = s

Free(p, s) == ~Held(p, s) /\ ~Queued(p, s)

\* SubscribedOnce without counting
Once(p, s) ==
    /\ \A i, j \in DOMAIN p.clients :
           s \in p.clients[i].subs /\ s \in p.clients[j].subs => i = j
    /\ Held(p, s) => ~Queued(p, s)
    /\ \A i, j \in 1..Len(p.pending) : p.pending[i] = s /\ p.pending[j] = s => i = j

\* An attempt to connect is under way, or none will be waited for.
PoolOK(p) ==
    /\ p = [clients |-> p.clients, pending |-> p.pending, adding |-> p.adding,
            nextId |-> p.nextId]
    /\ p.nextId \in Nat
    /\ DOMAIN p.clients \subseteq 0..(p.nextId - 1)
    /\ p.clients \in [DOMAIN p.clients -> Client]
    /\ p.pending \in Seq(Sub)
    /\ p.adding \in BOOLEAN
    /\ p.adding => Connects(p)

LEMMA MaxSubscriptions == maxSubscriptions \in Nat /\ maxSubscriptions > 0
  BY LiveUpdatesAssumption

LEMMA EmptyFits == [open |-> FALSE, subs |-> {}] \in Client
  BY FS_EmptySet, MaxSubscriptions DEF Client

\* addClient() changes no client and nothing that waits.
LEMMA ClientAdded ==
    ASSUME NEW p, PoolOK(p)
    PROVE  /\ PoolOK(AddClient(p))
           /\ AddClient(p).pending = p.pending
           /\ stopping \/ Connects(AddClient(p))
           /\ Connects(p) => Connects(AddClient(p))
           /\ \A id \in DOMAIN p.clients :
                  /\ id \in DOMAIN AddClient(p).clients
                  /\ AddClient(p).clients[id] = p.clients[id]
           /\ \A id \in DOMAIN AddClient(p).clients \ DOMAIN p.clients :
                  AddClient(p).clients[id].subs = {}
  <1>1. CASE p.adding \/ stopping
    BY <1>1 DEF AddClient, PoolOK
  <1>2. CASE ~p.adding /\ ~stopping
    <2> DEFINE C == [id \in DOMAIN p.clients \cup {p.nextId} |->
                        IF id = p.nextId THEN [open |-> FALSE, subs |-> {}]
                        ELSE p.clients[id]]
    <2>1. AddClient(p) = [clients |-> C, pending |-> p.pending, adding |-> TRUE,
                          nextId |-> p.nextId + 1]
      BY <1>2 DEF AddClient
    <2>2. DOMAIN C = DOMAIN p.clients \cup {p.nextId}
      OBVIOUS
    <2>3. p.nextId \in Nat /\ p.nextId \notin DOMAIN p.clients
      BY DEF PoolOK
    <2>4. /\ C[p.nextId] = [open |-> FALSE, subs |-> {}]
          /\ \A id \in DOMAIN p.clients : C[id] = p.clients[id]
      BY <2>3
    <2> HIDE DEF C
    <2>5. Connects(AddClient(p))
      BY <2>1, <2>2, <2>4 DEF Connects
    <2>6. \A id \in DOMAIN C : C[id] \in Client
      BY <2>2, <2>4, EmptyFits DEF PoolOK
    <2>7. C \in [DOMAIN C -> Client]
      BY <2>6 DEF C
    <2>8. DOMAIN C \subseteq 0..((p.nextId + 1) - 1)
      BY <2>2, <2>3 DEF PoolOK
    <2>9. PoolOK(AddClient(p))
      BY <2>1, <2>3, <2>5, <2>7, <2>8 DEF PoolOK
    <2> QED
      BY <2>1, <2>2, <2>4, <2>5, <2>9
  <1> QED
    BY <1>1, <1>2

\* r is q with the subscription s added in one place.
Added(q, r, s) ==
    /\ PoolOK(r)
    /\ Connects(q) => Connects(r)
    /\ Held(r, s) \/ (Queued(r, s) /\ (stopping \/ Connects(r)))
    /\ Free(q, s) => Once(r, s)
    /\ Held(q, s) => Held(r, s)
    /\ Queued(q, s) => Queued(r, s)
    /\ \A d \in Sub \ {s} :
           /\ Held(q, d) <=> Held(r, d)
           /\ Queued(q, d) <=> Queued(r, d)
           /\ Once(q, d) => Once(r, d)

\* trySubscribe() finds a client.
LEMMA AcceptedAdds ==
    ASSUME NEW q, PoolOK(q), NEW s \in Sub, NEW r \in Accepted(q, s)
    PROVE  Added(q, r, s)
  <1>1. PICK id \in Accepting(q) : r = [q EXCEPT !.clients[id].subs = @ \cup {s}]
    BY DEF Accepted
  <1>2. id \in DOMAIN q.clients /\ HasRoom(q.clients[id]) /\ q.clients[id] \in Client
    BY <1>1 DEF Accepting, PoolOK
  <1> DEFINE c == [q.clients[id] EXCEPT !.subs = @ \cup {s}]
             C == [q.clients EXCEPT ![id] = c]
  <1>3. r = [clients |-> C, pending |-> q.pending, adding |-> q.adding,
             nextId |-> q.nextId]
    BY <1>1, <1>2 DEF PoolOK
  <1>4. c \in Client /\ c.open = q.clients[id].open /\ c.subs = q.clients[id].subs \cup {s}
    <2> DEFINE S == q.clients[id].subs
    <2>1. S \subseteq Sub /\ IsFiniteSet(S) /\ Cardinality(S) < maxSubscriptions
      BY <1>2 DEF Client, HasRoom
    <2>2. /\ IsFiniteSet(S \cup {s}) /\ Cardinality(S) \in Nat
          /\ Cardinality(S \cup {s}) = IF s \in S THEN Cardinality(S) ELSE Cardinality(S) + 1
      <3> HIDE DEF S
      <3> QED
        BY <2>1, FS_AddElement, FS_CardinalityType
    <2>3. Cardinality(S \cup {s}) <= maxSubscriptions
      BY <2>1, <2>2, MaxSubscriptions
    <2> QED
      BY <1>2, <2>1, <2>2, <2>3 DEF Client
  <1>5. /\ DOMAIN C = DOMAIN q.clients
        /\ C[id] = c
        /\ \A j \in DOMAIN q.clients : j # id => C[j] = q.clients[j]
    BY <1>2
  <1> HIDE DEF C, c
  <1>6. C \in [DOMAIN C -> Client]
    <2>1. \A j \in DOMAIN C : C[j] \in Client
      BY <1>4, <1>5 DEF PoolOK
    <2> QED
      BY <2>1 DEF C
  <1>7. r.clients = C /\ r.pending = q.pending /\ r.adding = q.adding /\ r.nextId = q.nextId
    BY <1>3
  <1>8. Connects(q) <=> Connects(r)
    BY <1>4, <1>5, <1>7 DEF Connects
  <1>9. PoolOK(r)
    BY <1>3, <1>5, <1>6, <1>7, <1>8 DEF PoolOK
  <1>10. Held(r, s)
    BY <1>2, <1>4, <1>5, <1>7 DEF Held
  <1>11. \A d \in Sub : Queued(q, d) <=> Queued(r, d)
    BY <1>7 DEF Queued
  <1>12. ASSUME Free(q, s) PROVE Once(r, s)
    <2>1. \A j \in DOMAIN C : s \in C[j].subs => j = id
      BY <1>5, <1>12 DEF Free, Held
    <2> QED
      BY <1>7, <1>11, <1>12, <2>1 DEF Once, Free, Queued
  <1>13. \A d \in Sub \ {s} : \A j \in DOMAIN C : d \in C[j].subs <=> d \in q.clients[j].subs
    BY <1>4, <1>5
  <1>14. \A d \in Sub \ {s} : /\ Held(q, d) <=> Held(r, d)
                              /\ Once(q, d) => Once(r, d)
    BY <1>5, <1>7, <1>11, <1>13 DEF Held, Once
  <1> QED
    BY <1>8, <1>9, <1>10, <1>11, <1>12, <1>14 DEF Added

\* There is no room: the subscription waits behind the others.
LEMMA AppendedAdds ==
    ASSUME NEW q, PoolOK(q), NEW s \in Sub,
           NEW r, r = [AddClient(q) EXCEPT !.pending = Append(@, s)]
    PROVE  Added(q, r, s)
  <1> DEFINE a == AddClient(q)
  <1>1. /\ PoolOK(a) /\ a.pending = q.pending
        /\ stopping \/ Connects(a)
        /\ Connects(q) => Connects(a)
        /\ \A id \in DOMAIN q.clients : id \in DOMAIN a.clients /\ a.clients[id] = q.clients[id]
        /\ \A id \in DOMAIN a.clients \ DOMAIN q.clients : a.clients[id].subs = {}
    BY ClientAdded
  <1> HIDE DEF a
  <1>2. r = [clients |-> a.clients, pending |-> Append(q.pending, s), adding |-> a.adding,
             nextId |-> a.nextId]
    BY <1>1 DEF PoolOK, a
  <1>3. /\ r.clients = a.clients /\ r.pending = Append(q.pending, s)
        /\ r.adding = a.adding /\ r.nextId = a.nextId
    BY <1>2
  <1>4. /\ q.pending \in Seq(Sub) /\ Len(q.pending) \in Nat
        /\ r.pending \in Seq(Sub)
        /\ Len(r.pending) = Len(q.pending) + 1
        /\ \A i \in 1..Len(q.pending) : r.pending[i] = q.pending[i]
        /\ r.pending[Len(q.pending) + 1] = s
    <2>1. q.pending \in Seq(Sub)
      BY DEF PoolOK
    <2>2. Len(q.pending) \in Nat
      BY <2>1, LenProperties
    <2> DEFINE P == Append(q.pending, s)
    <2>3. /\ P \in Seq(Sub)
          /\ Len(P) = Len(q.pending) + 1
          /\ \A i \in 1..Len(q.pending) : P[i] = q.pending[i]
          /\ P[Len(q.pending) + 1] = s
      BY <2>1, AppendProperties
    <2>4. r.pending = P
      BY <1>3
    <2> HIDE DEF P
    <2> QED
      BY <2>1, <2>2, <2>3, <2>4
  <1>5. Connects(a) <=> Connects(r)
    BY <1>3 DEF Connects
  <1>6. PoolOK(r)
    BY <1>1, <1>2, <1>3, <1>4, <1>5 DEF PoolOK
  <1>7. \A d \in Sub : Held(q, d) <=> Held(r, d)
    BY <1>1, <1>3 DEF Held
  <1>8. Queued(r, s)
    BY <1>4 DEF Queued
  <1>9. \A d \in Sub \ {s} : Queued(q, d) <=> Queued(r, d)
    BY <1>4 DEF Queued
  <1>10. ASSUME NEW d \in Sub,
                \A i, j \in DOMAIN q.clients :
                    d \in q.clients[i].subs /\ d \in q.clients[j].subs => i = j
         PROVE  \A i, j \in DOMAIN r.clients :
                    d \in r.clients[i].subs /\ d \in r.clients[j].subs => i = j
    BY <1>1, <1>3, <1>10
  <1>11. ASSUME Free(q, s) PROVE Once(r, s)
    <2>1. ~Held(r, s)
      BY <1>7, <1>11 DEF Free
    <2>2. \A i \in 1..Len(r.pending) : r.pending[i] = s => i = Len(q.pending) + 1
      BY <1>4, <1>11 DEF Free, Queued
    <2> QED
      BY <2>1, <2>2 DEF Once, Held
  <1>12. ASSUME NEW d \in Sub \ {s}, Once(q, d) PROVE Once(r, d)
    <2>1. \A i \in 1..Len(r.pending) : r.pending[i] = d =>
              i \in 1..Len(q.pending) /\ q.pending[i] = d
      BY <1>4
    <2>2. \A i, j \in 1..Len(r.pending) : r.pending[i] = d /\ r.pending[j] = d => i = j
      BY <1>12, <2>1 DEF Once
    <2>3. Held(r, d) => ~Queued(r, d)
      BY <1>7, <1>9, <1>12 DEF Once
    <2> QED
      BY <1>10, <1>12, <2>2, <2>3 DEF Once
  <1>13. Queued(q, s) => Queued(r, s)
    BY <1>8
  <1> QED
    BY <1>1, <1>5, <1>6, <1>7, <1>8, <1>9, <1>11, <1>12, <1>13 DEF Added

\* subscribe() finds one place for what has none.
LEMMA SubscribeAdds ==
    ASSUME NEW q, PoolOK(q), NEW s \in Sub, NEW r \in SubscribeTo(q, s)
    PROVE  Added(q, r, s)
  BY AcceptedAdds, AppendedAdds DEF SubscribeTo
-----------------------------------------------------------------------------
(* subscribe() for one after the other. *)

\* The recursive function of SubscribeEach exists: it is built round by round.
LEMMA EachRound ==
    ASSUME NEW p, NEW order, Len(order) \in Nat
    PROVE  \E results :
               /\ results[0] = {p}
               /\ \A k \in 1..Len(order) :
                      results[k] = UNION {SubscribeTo(q, order[k]) : q \in results[k - 1]}
               /\ SubscribeEach(p, order) = results[Len(order)]
  <1> DEFINE Value(f, k) == IF k = 0 THEN {p}
                            ELSE UNION {SubscribeTo(q, order[k]) : q \in f[k - 1]}
             Is(f, n) == f = [k \in 0..n |-> Value(f, k)]
             T == {n \in Nat : \E f : Is(f, n)}
  <1>1. 0 \in T
    <2>1. Is([k \in 0..0 |-> {p}], 0)
      OBVIOUS
    <2> QED
      BY <2>1
  <1>2. ASSUME NEW n \in Nat, n \in T PROVE n + 1 \in T
    <2>1. PICK f : Is(f, n)
      BY <1>2
    <2> DEFINE g == [k \in 0..(n + 1) |-> IF k = n + 1 THEN Value(f, n + 1) ELSE f[k]]
    <2>2. \A k \in 0..n : f[k] = Value(f, k)
      <3> HIDE DEF Value
      <3> QED
        BY <2>1
    <2>3. \A k \in 0..(n + 1) : Value(g, k) = Value(f, k)
      <3> TAKE k \in 0..(n + 1)
      <3>1. CASE k = 0
        BY <3>1
      <3>2. CASE k # 0
        <4>1. k - 1 \in 0..(n + 1) /\ k - 1 # n + 1
          BY <3>2
        <4>2. g[k - 1] = f[k - 1]
          BY <4>1
        <4> HIDE DEF g
        <4> QED
          BY <3>2, <4>2
      <3> QED
        BY <3>1, <3>2
    <2>4. \A k \in 0..(n + 1) : g[k] = Value(f, k)
      <3> HIDE DEF Value
      <3> TAKE k \in 0..(n + 1)
      <3>1. k = n + 1 \/ k \in 0..n
        OBVIOUS
      <3> QED
        BY <2>2, <3>1
    <2>5. \A k \in 0..(n + 1) : g[k] = Value(g, k)
      <3> HIDE DEF Value, g
      <3> QED
        BY <2>3, <2>4
    <2>6. g = [k \in 0..(n + 1) |-> g[k]]
      OBVIOUS
    <2>7. Is(g, n + 1)
      <3> HIDE DEF Value, g
      <3> QED
        BY <2>5, <2>6
    <2> HIDE DEF Is
    <2> QED
      BY <2>7
  <1>3. Nat \subseteq T
    <2> HIDE DEF T
    <2> QED
      BY <1>1, <1>2, Induction
  <1> DEFINE results == CHOOSE f : Is(f, Len(order))
  <1>4. Is(results, Len(order))
    <2>1. \E f : Is(f, Len(order))
      <3> HIDE DEF Is
      <3> QED
        BY <1>3
    <2> QED
      BY <2>1
  <1>5. SubscribeEach(p, order) = results[Len(order)]
    BY DEF SubscribeEach
  <1>6. \A k \in 0..Len(order) : results[k] = Value(results, k)
    <2> HIDE DEF results, Value
    <2> QED
      BY <1>4
  <1>7. results[0] = {p}
    <2>1. 0 \in 0..Len(order)
      OBVIOUS
    <2> HIDE DEF results
    <2> QED
      BY <1>6, <2>1
  <1>8. ASSUME NEW k \in 1..Len(order)
        PROVE  results[k] = UNION {SubscribeTo(q, order[k]) : q \in results[k - 1]}
    <2>1. k \in 0..Len(order) /\ k # 0
      OBVIOUS
    <2> HIDE DEF results
    <2> QED
      BY <1>6, <2>1
  <1> HIDE DEF results
  <1> QED
    BY <1>5, <1>7, <1>8

\* q is p with the subscriptions T added, each in one place.
Served(p, q, T) ==
    /\ PoolOK(q)
    /\ Connects(p) => Connects(q)
    /\ \A d \in Sub :
           /\ Held(p, d) => Held(q, d)
           /\ Queued(p, d) => Queued(q, d)
    /\ \A d \in T :
           /\ Held(q, d) \/ (Queued(q, d) /\ (stopping \/ Connects(q)))
           /\ Free(p, d) => Once(q, d)
    /\ \A d \in Sub \ T :
           /\ Free(p, d) => Free(q, d)
           /\ Once(p, d) => Once(q, d)

LEMMA ServedOneMore ==
    ASSUME NEW p, NEW q, NEW r, NEW T \in SUBSET Sub, NEW s \in Sub \ T,
           Served(p, q, T), r \in SubscribeTo(q, s)
    PROVE  Served(p, r, T \cup {s})
  <1>1. Added(q, r, s)
    BY SubscribeAdds DEF Served
  <1>2. PoolOK(r) /\ (Connects(q) => Connects(r)) /\ (Connects(p) => Connects(q))
    BY <1>1 DEF Added, Served
  <1>3. \A d \in Sub : /\ Held(q, d) => Held(r, d)
                       /\ Queued(q, d) => Queued(r, d)
    BY <1>1 DEF Added
  <1>4. ASSUME NEW d \in T
        PROVE  /\ Held(r, d) \/ (Queued(r, d) /\ (stopping \/ Connects(r)))
               /\ Free(p, d) => Once(r, d)
    <2>1. d \in Sub \ {s}
      OBVIOUS
    <2>2. /\ Held(q, d) \/ (Queued(q, d) /\ (stopping \/ Connects(q)))
          /\ Free(p, d) => Once(q, d)
      BY DEF Served
    <2>3. Once(q, d) => Once(r, d)
      BY <1>1, <2>1 DEF Added
    <2> QED
      BY <1>2, <1>3, <2>1, <2>2, <2>3
  <1>5. /\ Held(r, s) \/ (Queued(r, s) /\ (stopping \/ Connects(r)))
        /\ Free(p, s) => Once(r, s)
    <2>1. Free(p, s) => Free(q, s)
      BY DEF Served
    <2> QED
      BY <1>1, <2>1 DEF Added
  <1>6. ASSUME NEW d \in Sub \ (T \cup {s})
        PROVE  /\ Free(p, d) => Free(r, d)
               /\ Once(p, d) => Once(r, d)
    <2>1. d \in Sub \ {s} /\ d \in Sub \ T
      OBVIOUS
    <2>2. (Free(p, d) => Free(q, d)) /\ (Once(p, d) => Once(q, d))
      BY <2>1 DEF Served
    <2>3. (Free(q, d) => Free(r, d)) /\ (Once(q, d) => Once(r, d))
      BY <1>1, <2>1 DEF Added, Free
    <2> QED
      BY <2>2, <2>3
  <1>7. \A d \in Sub : /\ Held(p, d) => Held(r, d)
                       /\ Queued(p, d) => Queued(r, d)
    BY <1>3 DEF Served
  <1> QED
    BY <1>2, <1>4, <1>5, <1>6, <1>7 DEF Served

\* A permutation of a finite set names each of its elements once.
LEMMA OrderIs ==
    ASSUME NEW S, IsFiniteSet(S), NEW order \in SetToSeqs(S)
    PROVE  /\ Len(order) = Cardinality(S) /\ Len(order) \in Nat
           /\ order \in Seq(S)
           /\ \A i, j \in 1..Len(order) : order[i] = order[j] => i = j
           /\ \A d \in S : \E i \in 1..Len(order) : order[i] = d
  <1> DEFINE n == Cardinality(S)
  <1>1. n \in Nat /\ 1 \in Int /\ n \in Int
    BY FS_CardinalityType
  <1>2. /\ order \in [1..n -> S]
        /\ \A i, j \in 1..n : order[i] = order[j] => i = j
    BY DEF SetToSeqs
  <1>3. IsFiniteSet(1..n) /\ Cardinality(1..n) = n
    <2> HIDE DEF n
    <2>1. IsFiniteSet(1..n) /\ Cardinality(1..n) = IF 1 > n THEN 0 ELSE n - 1 + 1
      BY <1>1, FS_Interval
    <2> QED
      BY <1>1, <2>1
  <1>4. order \in Injection(1..n, S)
    <2> HIDE DEF n
    <2> QED
      BY <1>2 DEF Injection, IsInjective
  <1>5. order \in Surjection(1..n, S)
    BY <1>3, <1>4, FS_Injection
  <1>6. \A d \in S : \E i \in 1..n : order[i] = d
    <2> HIDE DEF n
    <2> QED
      BY <1>5 DEF Surjection
  <1>7. order \in Seq(S) /\ Len(order) = n
    <2> HIDE DEF n
    <2> QED
      BY <1>1, <1>2
  <1>8. n = Cardinality(S)
    OBVIOUS
  <1> HIDE DEF n
  <1> QED
    BY <1>1, <1>2, <1>6, <1>7, <1>8

\* subscribe() for each of a set finds one place for each of them.
LEMMA AllServed ==
    ASSUME NEW p, PoolOK(p), NEW S \in SUBSET Sub, IsFiniteSet(S),
           NEW r \in SubscribeAll(p, S)
    PROVE  Served(p, r, S)
  <1>1. PICK order \in SetToSeqs(S) : r \in SubscribeEach(p, order)
    BY DEF SubscribeAll
  <1> DEFINE n == Len(order)
  <1>2. /\ n \in Nat
        /\ \A i \in 1..n : order[i] \in S
        /\ \A i, j \in 1..n : order[i] = order[j] => i = j
        /\ \A d \in S : \E i \in 1..n : order[i] = d
    <2>1. order \in Seq(S)
      BY OrderIs
    <2> QED
      BY <2>1, OrderIs, ElementOfSeq
  <1>3. PICK results :
            /\ results[0] = {p}
            /\ \A k \in 1..n : results[k] = UNION {SubscribeTo(q, order[k]) : q \in results[k - 1]}
            /\ SubscribeEach(p, order) = results[n]
    BY <1>2, EachRound
  <1> HIDE DEF n
  <1> DEFINE Done(k) == {order[i] : i \in 1..k}
             T == {k \in Nat : k <= n => \A q \in results[k] : Served(p, q, Done(k))}
  <1>4. 0 \in T
    <2>1. Served(p, p, {})
      BY DEF Served
    <2>2. Done(0) = {}
      OBVIOUS
    <2>3. \A q \in results[0] : Served(p, q, Done(0))
      BY <1>3, <2>1, <2>2
    <2> QED
      BY <2>3
  <1>5. ASSUME NEW k \in Nat, k \in T PROVE k + 1 \in T
    <2> SUFFICES ASSUME k + 1 <= n, NEW q \in results[k + 1] PROVE Served(p, q, Done(k + 1))
      OBVIOUS
    <2>1. k <= n /\ k + 1 \in 1..n /\ (k + 1) - 1 = k
      BY <1>2
    <2>2. results[k + 1] = UNION {SubscribeTo(u, order[k + 1]) : u \in results[(k + 1) - 1]}
      BY <1>3, <2>1
    <2>3. PICK u \in results[k] : q \in SubscribeTo(u, order[k + 1])
      BY <2>1, <2>2
    <2>4. Served(p, u, Done(k))
      BY <1>5, <2>1, <2>3
    <2>5. \A i \in 1..k : i \in 1..n /\ i # k + 1
      BY <1>2, <2>1
    <2>6. order[k + 1] \in Sub \ Done(k) /\ Done(k) \in SUBSET Sub
      BY <1>2, <2>1, <2>5
    <2>7. Served(p, q, Done(k) \cup {order[k + 1]})
      <3> HIDE DEF Done
      <3> QED
        BY <2>3, <2>4, <2>6, ServedOneMore
    <2>8. 1..(k + 1) = 1..k \cup {k + 1}
      BY <1>5
    <2>9. Done(k + 1) = Done(k) \cup {order[k + 1]}
      BY <2>8
    <2> QED
      BY <2>7, <2>9
  <1>6. n \in T
    <2>1. Nat \subseteq T
      <3> HIDE DEF T
      <3> QED
        BY <1>4, <1>5, Induction
    <2> QED
      BY <1>2, <2>1
  <1>7. Done(n) = S
    BY <1>2
  <1>8. Served(p, r, Done(n))
    BY <1>1, <1>2, <1>3, <1>6
  <1> QED
    BY <1>7, <1>8
-----------------------------------------------------------------------------
(* onConnectionOpen(). *)

\* The recursive function of Taken exists: it is built round by round.
LEMMA TakenRound ==
    ASSUME NEW p, NEW id, Len(p.pending) \in Nat
    PROVE  \E rounds \in Nat : \E taken :
               /\ rounds <= Len(p.pending)
               /\ taken[0] = [client |-> OpenClient(p.clients[id]),
                              pending |-> p.pending, full |-> FALSE]
               /\ \A k \in 1..rounds : taken[k] = TakeLast(taken[k - 1])
               /\ Taken(p, id) = taken[rounds]
  <1> DEFINE start == [client |-> OpenClient(p.clients[id]),
                       pending |-> p.pending, full |-> FALSE]
             rounds == IF Len(p.pending) < maxSubscriptions THEN Len(p.pending)
                       ELSE maxSubscriptions
             Value(f, k) == IF k = 0 THEN start ELSE TakeLast(f[k - 1])
             Is(f, n) == f = [k \in 0..n |-> Value(f, k)]
             T == {n \in Nat : \E f : Is(f, n)}
  <1>1. 0 \in T
    <2>1. Is([k \in 0..0 |-> start], 0)
      OBVIOUS
    <2> QED
      BY <2>1
  <1>2. ASSUME NEW n \in Nat, n \in T PROVE n + 1 \in T
    <2>1. PICK f : Is(f, n)
      BY <1>2
    <2> DEFINE g == [k \in 0..(n + 1) |-> IF k = n + 1 THEN Value(f, n + 1) ELSE f[k]]
    <2>2. \A k \in 0..n : f[k] = Value(f, k)
      <3> HIDE DEF Value
      <3> QED
        BY <2>1
    <2>3. \A k \in 0..(n + 1) : Value(g, k) = Value(f, k)
      <3> TAKE k \in 0..(n + 1)
      <3>1. CASE k = 0
        BY <3>1
      <3>2. CASE k # 0
        <4>1. k - 1 \in 0..(n + 1) /\ k - 1 # n + 1
          BY <3>2
        <4>2. g[k - 1] = f[k - 1]
          BY <4>1
        <4> HIDE DEF g
        <4> QED
          BY <3>2, <4>2
      <3> QED
        BY <3>1, <3>2
    <2>4. \A k \in 0..(n + 1) : g[k] = Value(f, k)
      <3> HIDE DEF Value
      <3> TAKE k \in 0..(n + 1)
      <3>1. k = n + 1 \/ k \in 0..n
        OBVIOUS
      <3> QED
        BY <2>2, <3>1
    <2>5. \A k \in 0..(n + 1) : g[k] = Value(g, k)
      <3> HIDE DEF Value, g
      <3> QED
        BY <2>3, <2>4
    <2>6. g = [k \in 0..(n + 1) |-> g[k]]
      OBVIOUS
    <2>7. Is(g, n + 1)
      <3> HIDE DEF Value, g
      <3> QED
        BY <2>5, <2>6
    <2> HIDE DEF Is
    <2> QED
      BY <2>7
  <1>3. Nat \subseteq T
    <2> HIDE DEF T
    <2> QED
      BY <1>1, <1>2, Induction
  <1>4. rounds \in Nat /\ rounds <= Len(p.pending)
    BY MaxSubscriptions
  <1> DEFINE taken == CHOOSE f : Is(f, rounds)
  <1>5. Is(taken, rounds)
    <2>1. \E f : Is(f, rounds)
      <3> HIDE DEF Is, rounds
      <3> QED
        BY <1>3, <1>4
    <2> QED
      BY <2>1
  <1>6. Taken(p, id) = taken[rounds]
    BY DEF Taken
  <1> HIDE DEF rounds
  <1>7. \A k \in 0..rounds : taken[k] = Value(taken, k)
    <2> HIDE DEF taken, Value
    <2> QED
      BY <1>5
  <1>8. taken[0] = start
    <2>1. 0 \in 0..rounds
      BY <1>4
    <2> HIDE DEF taken
    <2> QED
      BY <1>7, <2>1
  <1>9. ASSUME NEW k \in 1..rounds PROVE taken[k] = TakeLast(taken[k - 1])
    <2>1. k \in 0..rounds /\ k # 0
      BY <1>4
    <2> HIDE DEF taken
    <2> QED
      BY <1>7, <2>1
  <1> HIDE DEF taken
  <1> QED
    BY <1>4, <1>6, <1>8, <1>9

\* What the client c has taken of the queue P after so many rounds.
TakenOK(c, P, t, k) ==
    /\ t = [client |-> t.client, pending |-> t.pending, full |-> t.full]
    /\ t.full \in BOOLEAN
    /\ t.client \in Client /\ t.client.open
    /\ t.pending \in Seq(Sub) /\ Len(t.pending) <= Len(P)
    /\ \A i \in 1..Len(t.pending) : t.pending[i] = P[i]
    /\ c.subs \subseteq t.client.subs
    /\ \A d \in t.client.subs :
           d \in c.subs \/ \E i \in (Len(t.pending) + 1)..Len(P) : P[i] = d
    /\ ~t.full => /\ Len(t.pending) = Len(P) - k
                  /\ \A i \in (Len(t.pending) + 1)..Len(P) : P[i] \in t.client.subs

LEMMA FrontIs ==
    ASSUME NEW s \in Seq(Sub), Len(s) > 0
    PROVE  /\ Front(s) \in Seq(Sub) /\ Len(Front(s)) = Len(s) - 1
           /\ \A i \in 1..(Len(s) - 1) : Front(s)[i] = s[i]
           /\ Last(s) \in Sub /\ Last(s) = s[Len(s)]
  <1> DEFINE n == Len(s)
  <1>1. n \in Nat /\ n > 0
    BY LenProperties
  <1>2. \A i \in 1..n : s[i] \in Sub
    BY ElementOfSeq
  <1> HIDE DEF n
  <1>3. 1 \in Int /\ n - 1 \in Int /\ \A i \in 1..(n - 1) : s[i] \in Sub
    BY <1>1, <1>2
  <1>4. /\ SubSeq(s, 1, n - 1) \in Seq(Sub)
        /\ Len(SubSeq(s, 1, n - 1)) = IF 1 <= n - 1 THEN n - 1 - 1 + 1 ELSE 0
        /\ \A i \in 1..(n - 1 - 1 + 1) : SubSeq(s, 1, n - 1)[i] = s[1 + i - 1]
    BY <1>3, SubSeqProperties
  <1>5. Len(SubSeq(s, 1, n - 1)) = n - 1
    BY <1>1, <1>4
  <1>6. ASSUME NEW i \in 1..(n - 1) PROVE SubSeq(s, 1, n - 1)[i] = s[i]
    <2>1. i \in 1..(n - 1 - 1 + 1) /\ 1 + i - 1 = i
      BY <1>1
    <2> QED
      BY <1>4, <2>1
  <1>7. s[n] \in Sub
    BY <1>1, <1>2
  <1> QED
    BY <1>4, <1>5, <1>6, <1>7 DEF Front, Last, n

LEMMA ClientTakes ==
    ASSUME NEW x \in Client, NEW s
    PROVE  [x EXCEPT !.subs = @ \cup {s}] = [open |-> x.open, subs |-> x.subs \cup {s}]
  BY DEF Client

LEMMA LastTaken ==
    ASSUME NEW c, NEW P \in Seq(Sub), NEW t, NEW k \in Nat, k < Len(P), TakenOK(c, P, t, k)
    PROVE  TakenOK(c, P, TakeLast(t), k + 1)
  <1>0. Len(P) \in Nat
    BY LenProperties
  <1>1. CASE t.full
    BY <1>1 DEF TakenOK, TakeLast
  <1>2. CASE ~t.full
    <2> DEFINE m == Len(t.pending)
               F == Front(t.pending)
               S == t.client.subs
    <2>1. /\ t.pending \in Seq(Sub) /\ m = Len(P) - k /\ m \in Nat /\ m > 0
          /\ t.client \in Client
      BY <1>0, <1>2 DEF TakenOK
    <2>2. /\ F \in Seq(Sub) /\ Len(F) = m - 1
          /\ \A i \in 1..(m - 1) : F[i] = t.pending[i]
          /\ Last(t.pending) \in Sub /\ Last(t.pending) = t.pending[m]
      BY <2>1, FrontIs
    <2>3. /\ \A i \in 1..m : t.pending[i] = P[i]
          /\ c.subs \subseteq S
          /\ \A d \in S : d \in c.subs \/ \E i \in (m + 1)..Len(P) : P[i] = d
          /\ \A i \in (m + 1)..Len(P) : P[i] \in S
      BY <1>2 DEF TakenOK
    <2>4. Last(t.pending) = P[m]
      <3>1. m \in 1..m
        BY <2>1
      <3> HIDE DEF m
      <3> QED
        BY <2>2, <2>3, <3>1
    <2>5. CASE ~HasRoom(t.client)
      <3> DEFINE u == TakeLast(t)
      <3>1. TakeLast(t) = u
        OBVIOUS
      <3>2. u = [client |-> t.client, pending |-> F, full |-> TRUE]
        BY <1>2, <2>5 DEF TakeLast
      <3> HIDE DEF u, F, m, S
      <3>3. u.client = t.client /\ u.pending = F /\ u.full = TRUE
        BY <3>2
      <3>4. \A i \in 1..Len(F) : F[i] = P[i]
        BY <2>1, <2>2, <2>3
      <3>5. \A d \in S : d \in c.subs \/ \E i \in (Len(F) + 1)..Len(P) : P[i] = d
        BY <1>0, <2>1, <2>2, <2>3
      <3>6. Len(F) <= Len(P)
        BY <1>0, <2>1, <2>2
      <3>7. TakenOK(c, P, u, k + 1)
        BY <2>1, <2>2, <2>3, <3>2, <3>3, <3>4, <3>5, <3>6 DEF TakenOK, S
      <3> QED
        BY <3>1, <3>7
    <2>6. CASE HasRoom(t.client)
      <3> DEFINE u == TakeLast(t)
                 e == [open |-> t.client.open, subs |-> S \cup {P[m]}]
      <3>1. TakeLast(t) = u
        OBVIOUS
      <3>2. t.client = [open |-> t.client.open, subs |-> S]
        BY <2>1 DEF Client
      <3>3. [t.client EXCEPT !.subs = @ \cup {Last(t.pending)}] = e
        BY <2>1, <2>4, ClientTakes
      <3>4. u = [client |-> e, pending |-> F, full |-> FALSE]
        BY <1>2, <2>6, <3>3 DEF TakeLast
      <3>5. S \in SUBSET Sub /\ IsFiniteSet(S) /\ Cardinality(S) < maxSubscriptions
        BY <2>1, <2>6 DEF Client, HasRoom
      <3>6. /\ IsFiniteSet(S \cup {P[m]}) /\ Cardinality(S) \in Nat
            /\ Cardinality(S \cup {P[m]}) = IF P[m] \in S THEN Cardinality(S)
                                             ELSE Cardinality(S) + 1
        <4> HIDE DEF S
        <4> QED
          BY <3>5, FS_AddElement, FS_CardinalityType
      <3>7. Cardinality(S \cup {P[m]}) <= maxSubscriptions
        BY <3>5, <3>6, MaxSubscriptions
      <3>8. e \in Client /\ e.open /\ e.subs = S \cup {P[m]}
        <4>1. t.client.open \in BOOLEAN /\ t.client.open
          BY <2>1 DEF TakenOK, Client
        <4>2. P[m] \in Sub
          BY <2>2, <2>4
        <4> QED
          BY <3>5, <3>6, <3>7, <4>1, <4>2 DEF Client
      <3> HIDE DEF u, F, m, S, e
      <3>9. u.client = e /\ u.pending = F /\ u.full = FALSE
        BY <3>4
      <3>10. \A i \in 1..Len(F) : F[i] = P[i]
        BY <2>1, <2>2, <2>3
      <3>11. (Len(F) + 1)..Len(P) = ((m + 1)..Len(P)) \cup {m}
        BY <1>0, <2>1, <2>2
      <3>12. /\ \A d \in e.subs : d \in c.subs \/ \E i \in (Len(F) + 1)..Len(P) : P[i] = d
             /\ \A i \in (Len(F) + 1)..Len(P) : P[i] \in e.subs
             /\ c.subs \subseteq e.subs
        BY <2>3, <3>8, <3>11
      <3>13. Len(F) <= Len(P) /\ Len(F) = Len(P) - (k + 1)
        BY <1>0, <2>1, <2>2
      <3>14. TakenOK(c, P, u, k + 1)
        BY <2>2, <3>4, <3>8, <3>9, <3>10, <3>12, <3>13 DEF TakenOK
      <3> QED
        BY <3>1, <3>14
    <2> QED
      BY <2>5, <2>6
  <1> QED
    BY <1>1, <1>2 DEF TakenOK

\* addClient() moves no subscription.
LEMMA AddClientMovesNothing ==
    ASSUME NEW p, PoolOK(p), NEW d
    PROVE  /\ Held(p, d) <=> Held(AddClient(p), d)
           /\ Queued(p, d) <=> Queued(AddClient(p), d)
           /\ Once(p, d) => Once(AddClient(p), d)
  <1> DEFINE a == AddClient(p)
  <1>1. /\ a.pending = p.pending
        /\ \A id \in DOMAIN p.clients : id \in DOMAIN a.clients /\ a.clients[id] = p.clients[id]
        /\ \A id \in DOMAIN a.clients \ DOMAIN p.clients : a.clients[id].subs = {}
    BY ClientAdded
  <1> HIDE DEF a
  <1>2. \A id \in DOMAIN a.clients : d \in a.clients[id].subs =>
            id \in DOMAIN p.clients /\ d \in p.clients[id].subs
    BY <1>1
  <1>3. (Held(p, d) <=> Held(a, d)) /\ (Queued(p, d) <=> Queued(a, d))
    BY <1>1, <1>2 DEF Held, Queued
  <1>4. Once(p, d) => Once(a, d)
    BY <1>1, <1>2, <1>3 DEF Once
  <1> QED
    BY <1>3, <1>4 DEF a

LEMMA TakenIs ==
    ASSUME NEW p, PoolOK(p), NEW id \in DOMAIN p.clients
    PROVE  \E k \in Nat : TakenOK(p.clients[id], p.pending, Taken(p, id), k)
  <1> DEFINE c == p.clients[id]
             P == p.pending
  <1>1. P \in Seq(Sub) /\ Len(P) \in Nat /\ c \in Client
    BY LenProperties DEF PoolOK
  <1>0. PICK rounds \in Nat : \E taken :
            /\ rounds <= Len(P)
            /\ taken[0] = [client |-> OpenClient(c), pending |-> P, full |-> FALSE]
            /\ \A k \in 1..rounds : taken[k] = TakeLast(taken[k - 1])
            /\ Taken(p, id) = taken[rounds]
    BY <1>1, TakenRound
  <1>2. PICK taken :
            /\ rounds <= Len(P)
            /\ taken[0] = [client |-> OpenClient(c), pending |-> P, full |-> FALSE]
            /\ \A k \in 1..rounds : taken[k] = TakeLast(taken[k - 1])
            /\ Taken(p, id) = taken[rounds]
    BY <1>0
  <1> HIDE DEF c, P
  <1> DEFINE T == {k \in Nat : k <= rounds => TakenOK(c, P, taken[k], k)}
  <1>3. 0 \in T
    <2>1. OpenClient(c) \in Client /\ OpenClient(c).open /\ OpenClient(c).subs = c.subs
      BY <1>1 DEF OpenClient, Client
    <2>2. (Len(P) + 1)..Len(P) = {} /\ Len(P) = Len(P) - 0
      BY <1>1
    <2>3. TakenOK(c, P, taken[0], 0)
      BY <1>1, <1>2, <2>1, <2>2 DEF TakenOK
    <2> QED
      BY <2>3
  <1>4. ASSUME NEW k \in Nat, k \in T PROVE k + 1 \in T
    <2> SUFFICES ASSUME k + 1 <= rounds PROVE TakenOK(c, P, taken[k + 1], k + 1)
      OBVIOUS
    <2>1. k <= rounds /\ k < Len(P) /\ k + 1 \in 1..rounds /\ (k + 1) - 1 = k
      BY <1>1, <1>2
    <2>2. taken[k + 1] = TakeLast(taken[k])
      BY <1>2, <2>1
    <2>3. TakenOK(c, P, taken[k], k)
      BY <1>4, <2>1
    <2> QED
      BY <1>1, <2>1, <2>2, <2>3, LastTaken
  <1>5. rounds \in T
    <2>1. Nat \subseteq T
      <3> HIDE DEF T
      <3> QED
        BY <1>3, <1>4, Induction
    <2> QED
      BY <2>1
  <1> QED
    BY <1>2, <1>5 DEF c, P

\* The client that opens takes subscriptions from the back of the queue, and unless
\* it is full what is left has a client to wait for.
LEMMA OpenedMoves ==
    ASSUME NEW p, PoolOK(p), NEW id \in DOMAIN p.clients, NEW d
    PROVE  LET r == OpenedPool(p, id) IN
           /\ PoolOK(r)
           /\ Held(p, d) => Held(r, d)
           /\ d \in Taken(p, id).client.subs => Held(r, d)
           /\ Free(p, d) => Free(r, d)
           /\ Once(p, d) => Once(r, d)
           /\ ~Taken(p, id).full /\ Queued(p, d) =>
                  Held(r, d) \/ (Queued(r, d) /\ (stopping \/ Connects(r)))
  <1> DEFINE c == p.clients[id]
             P == p.pending
             t == Taken(p, id)
             C == [p.clients EXCEPT ![id] = t.client]
             b == [clients |-> C, pending |-> t.pending, adding |-> FALSE,
                   nextId |-> p.nextId]
  <1>1. PICK k \in Nat : TakenOK(c, P, t, k)
    BY TakenIs
  <1>2. OpenedPool(p, id) = IF t.full \/ t.pending = << >> THEN b ELSE AddClient(b)
    BY DEF OpenedPool
  <1>3. P \in Seq(Sub) /\ Len(P) \in Nat
    BY LenProperties DEF PoolOK
  <1> HIDE DEF t
  <1>4. t.pending \in Seq(Sub) /\ Len(t.pending) \in Nat /\ Len(t.pending) <= Len(P)
    BY <1>1, LenProperties DEF TakenOK
  <1>5. /\ DOMAIN C = DOMAIN p.clients
        /\ C[id] = t.client
        /\ \A j \in DOMAIN p.clients : j # id => C[j] = p.clients[j]
    BY DEF PoolOK
  <1>6. C \in [DOMAIN C -> Client]
    <2>1. \A j \in DOMAIN C : C[j] \in Client
      BY <1>1, <1>5 DEF PoolOK, TakenOK
    <2> QED
      BY <2>1
  <1> HIDE DEF C, P
  <1>7. /\ b.clients = C /\ b.pending = t.pending /\ b.adding = FALSE
        /\ b.nextId = p.nextId
        /\ b = [clients |-> b.clients, pending |-> b.pending, adding |-> b.adding,
                nextId |-> b.nextId]
    OBVIOUS
  <1> HIDE DEF b, c
  <1>8. PoolOK(b)
    BY <1>4, <1>5, <1>6, <1>7 DEF PoolOK
  <1>9. /\ c.subs \subseteq t.client.subs
        /\ \A s \in t.client.subs :
               s \in c.subs \/ \E i \in (Len(t.pending) + 1)..Len(P) : P[i] = s
        /\ \A i \in 1..Len(t.pending) : t.pending[i] = P[i]
        /\ ~t.full => \A i \in (Len(t.pending) + 1)..Len(P) : P[i] \in t.client.subs
    BY <1>1 DEF TakenOK
  <1>10. /\ Held(p, d) => Held(b, d)
         /\ d \in t.client.subs => Held(b, d)
    BY <1>5, <1>7, <1>9 DEF Held, c
  <1>11. Queued(b, d) => Queued(p, d)
    BY <1>3, <1>4, <1>7, <1>9 DEF Queued, P
  <1>12. \A j \in DOMAIN C : d \in C[j].subs =>
             \/ d \in p.clients[j].subs
             \/ j = id /\ \E i \in (Len(t.pending) + 1)..Len(P) : P[i] = d
    BY <1>5, <1>9 DEF c
  <1>13. Held(b, d) => Held(p, d) \/ Queued(p, d)
    BY <1>3, <1>4, <1>5, <1>7, <1>12 DEF Held, Queued, P
  <1>14. ASSUME Once(p, d) PROVE Once(b, d)
    <2>1. \A i, j \in DOMAIN C : d \in C[i].subs /\ d \in C[j].subs => i = j
      <3>1. CASE Held(p, d)
        <4>1. \A i \in 1..Len(P) : P[i] # d
          BY <1>14, <3>1 DEF Once, Queued, P
        <4>2. \A j \in DOMAIN C : d \in C[j].subs => d \in p.clients[j].subs
          BY <1>3, <1>4, <1>12, <4>1
        <4> QED
          BY <1>5, <1>14, <4>2 DEF Once
      <3>2. CASE ~Held(p, d)
        <4>1. \A j \in DOMAIN C : d \in C[j].subs => j = id
          BY <1>5, <1>12, <3>2 DEF Held
        <4> QED
          BY <4>1
      <3> QED
        BY <3>1, <3>2
    <2>2. ASSUME Held(b, d) PROVE ~Queued(b, d)
      <3> SUFFICES ASSUME NEW i \in 1..Len(t.pending), P[i] = d PROVE FALSE
        BY <1>7, <1>9 DEF Queued
      <3>1. i \in 1..Len(P)
        BY <1>3, <1>4
      <3>2. ~Held(p, d)
        BY <1>14, <3>1 DEF Once, Queued, P
      <3>3. PICK j \in (Len(t.pending) + 1)..Len(P) : P[j] = d
        BY <1>5, <1>7, <1>12, <2>2, <3>2 DEF Held
      <3>4. j \in 1..Len(P) /\ j # i
        BY <1>3, <1>4
      <3> QED
        BY <1>14, <3>1, <3>3, <3>4 DEF Once, P
    <2>3. \A i, j \in 1..Len(t.pending) : t.pending[i] = d /\ t.pending[j] = d => i = j
      <3>1. \A i \in 1..Len(t.pending) : i \in 1..Len(P) /\ t.pending[i] = P[i]
        BY <1>3, <1>4, <1>9
      <3> QED
        BY <1>14, <3>1 DEF Once, P
    <2> QED
      BY <1>7, <2>1, <2>2, <2>3 DEF Once
  <1>15. ASSUME ~t.full, Queued(p, d) PROVE Held(b, d) \/ Queued(b, d)
    <2>1. PICK i \in 1..Len(P) : P[i] = d
      BY <1>15 DEF Queued, P
    <2>2. CASE i \in 1..Len(t.pending)
      BY <1>7, <1>9, <2>1, <2>2 DEF Queued
    <2>3. CASE i \in (Len(t.pending) + 1)..Len(P)
      <3>1. d \in C[id].subs /\ id \in DOMAIN C
        BY <1>5, <1>9, <1>15, <2>1, <2>3
      <3> QED
        BY <1>7, <3>1 DEF Held
    <2> QED
      BY <1>3, <1>4, <2>2, <2>3
  <1>16. CASE t.full \/ t.pending = << >>
    <2>1. OpenedPool(p, id) = b
      BY <1>2, <1>16
    <2>2. t.pending = << >> => ~Queued(b, d)
      BY <1>7, EmptySeq DEF Queued
    <2> QED
      BY <1>8, <1>10, <1>11, <1>13, <1>14, <1>15, <1>16, <2>1, <2>2 DEF Free, t
  <1>17. CASE ~(t.full \/ t.pending = << >>)
    <2>1. OpenedPool(p, id) = AddClient(b)
      BY <1>2, <1>17
    <2> DEFINE a == AddClient(b)
    <2>2. PoolOK(a) /\ (stopping \/ Connects(a))
      BY <1>8, ClientAdded
    <2>3. /\ Held(b, d) <=> Held(a, d)
          /\ Queued(b, d) <=> Queued(a, d)
          /\ Once(b, d) => Once(a, d)
      BY <1>8, AddClientMovesNothing
    <2> HIDE DEF a
    <2>4. OpenedPool(p, id) = a
      BY <2>1 DEF a
    <2> QED
      BY <1>10, <1>11, <1>13, <1>14, <1>15, <2>2, <2>3, <2>4 DEF Free, t
  <1> QED
    BY <1>16, <1>17
-----------------------------------------------------------------------------
(* onConnectionClose(). *)

\* A client that goes takes nothing but its own subscriptions with it.
LEMMA ErasedKeeps ==
    ASSUME NEW p, PoolOK(p), NEW id \in DOMAIN p.clients
    PROVE  LET e == Erased(p, id)
               S == p.clients[id].subs IN
           /\ PoolOK(e) /\ e.pending = p.pending
           /\ p.clients[id].open /\ Connects(p) => Connects(e)
           /\ \A d \in Sub :
                  /\ Queued(e, d) <=> Queued(p, d)
                  /\ Held(e, d) => Held(p, d)
                  /\ Held(p, d) => d \in S \/ Held(e, d)
                  /\ Once(p, d) => Once(e, d)
                  /\ d \in S /\ Once(p, d) => Free(e, d)
  <1> DEFINE e == Erased(p, id)
             C == Restrict(p.clients, DOMAIN p.clients \ {id})
  <1>1. /\ DOMAIN C = DOMAIN p.clients \ {id}
        /\ \A j \in DOMAIN p.clients : j # id => C[j] = p.clients[j]
    BY DEF Restrict
  <1>2. C \in [DOMAIN C -> Client]
    <2>1. \A j \in DOMAIN C : C[j] \in Client
      BY <1>1 DEF PoolOK
    <2> QED
      BY <2>1 DEF Restrict
  <1> HIDE DEF C
  <1>3. e = [clients |-> C, pending |-> p.pending, adding |-> FALSE, nextId |-> p.nextId]
    BY DEF Erased, C
  <1> HIDE DEF e
  <1>4. /\ e.clients = C /\ e.pending = p.pending /\ e.adding = FALSE
        /\ e.nextId = p.nextId
    BY <1>3
  <1>5. PoolOK(e)
    BY <1>1, <1>2, <1>3, <1>4 DEF PoolOK
  <1>6. p.clients[id].open /\ Connects(p) => Connects(e)
    BY <1>1, <1>4 DEF Connects
  <1>7. ASSUME NEW d \in Sub
        PROVE  /\ Queued(e, d) <=> Queued(p, d)
               /\ Held(e, d) => Held(p, d)
               /\ Held(p, d) => d \in p.clients[id].subs \/ Held(e, d)
    BY <1>1, <1>4 DEF Queued, Held
  <1>8. ASSUME NEW d \in Sub, Once(p, d) PROVE Once(e, d)
    BY <1>1, <1>4, <1>7, <1>8 DEF Once
  <1>9. ASSUME NEW d \in Sub, Once(p, d), d \in p.clients[id].subs PROVE Free(e, d)
    <2>1. ~Queued(p, d)
      BY <1>9 DEF Once, Held
    <2>2. ~Held(e, d)
      BY <1>1, <1>4, <1>9 DEF Once, Held
    <2> QED
      BY <1>7, <2>1, <2>2 DEF Free
  <1> QED
    BY <1>4, <1>5, <1>6, <1>7, <1>8, <1>9 DEF e

\* Nothing is lost with a connection: what it had is with others, or waits.
LEMMA ClosedMoves ==
    ASSUME NEW p, PoolOK(p), NEW id \in DOMAIN p.clients, NEW r \in ClosedPool(p, id)
    PROVE  /\ PoolOK(r)
           /\ \A d \in Sub : /\ Once(p, d) => Once(r, d)
                             /\ Free(p, d) => Free(r, d)
           /\ ~stopping =>
                  /\ p.clients[id].open /\ Connects(p) => Connects(r)
                  /\ \A d \in Sub :
                         /\ Queued(p, d) => Queued(r, d)
                         /\ Held(p, d) =>
                                \/ Held(r, d)
                                \/ Queued(r, d) /\ (p.clients[id].open => Connects(r))
  <1> DEFINE e == Erased(p, id)
             S == p.clients[id].subs
  <1>1. /\ PoolOK(e) /\ e.pending = p.pending
        /\ p.clients[id].open /\ Connects(p) => Connects(e)
        /\ \A d \in Sub :
               /\ Queued(e, d) <=> Queued(p, d)
               /\ Held(e, d) => Held(p, d)
               /\ Held(p, d) => d \in S \/ Held(e, d)
               /\ Once(p, d) => Once(e, d)
               /\ d \in S /\ Once(p, d) => Free(e, d)
    BY ErasedKeeps
  <1>2. S \in SUBSET Sub /\ IsFiniteSet(S)
    BY DEF PoolOK, Client
  <1>3. S \subseteq {d \in Sub : Held(p, d)}
    BY <1>2 DEF Held
  <1>4. p.clients[id].open \in BOOLEAN
    BY DEF PoolOK, Client
  <1>5. CASE stopping
    <2>1. r = e
      BY <1>5 DEF ClosedPool
    <2> HIDE DEF e
    <2> QED
      BY <1>1, <1>5, <2>1 DEF Free
  <1>6. CASE ~stopping /\ p.clients[id].open
    <2>1. r \in SubscribeAll(e, S)
      BY <1>6 DEF ClosedPool
    <2> HIDE DEF e, S
    <2>2. Served(e, r, S)
      BY <1>1, <1>2, <2>1, AllServed
    <2>3. /\ PoolOK(r)
          /\ Connects(e) => Connects(r)
          /\ \A d \in Sub : (Held(e, d) => Held(r, d)) /\ (Queued(e, d) => Queued(r, d))
          /\ \A d \in S : /\ Held(r, d) \/ (Queued(r, d) /\ Connects(r))
                          /\ Free(e, d) => Once(r, d)
          /\ \A d \in Sub \ S : /\ Free(e, d) => Free(r, d)
                                /\ Once(e, d) => Once(r, d)
      BY <1>6, <2>2 DEF Served
    <2>4. ASSUME NEW d \in Sub
          PROVE  /\ Once(p, d) => Once(r, d)
                 /\ Free(p, d) => Free(r, d)
                 /\ Queued(p, d) => Queued(r, d)
                 /\ Held(p, d) => Held(r, d) \/ (Queued(r, d) /\ Connects(r))
      <3>1. CASE d \in S
        BY <1>1, <1>3, <2>3, <3>1 DEF Free
      <3>2. CASE d \notin S
        BY <1>1, <2>3, <3>2 DEF Free
      <3> QED
        BY <3>1, <3>2
    <2> QED
      BY <1>1, <1>6, <2>3, <2>4
  <1>7. CASE ~stopping /\ ~p.clients[id].open
    <2>1. PICK order \in SetToSeqs(S) : r = [e EXCEPT !.pending = @ \o order]
      BY <1>7 DEF ClosedPool
    <2> HIDE DEF e, S
    <2>2. r = [clients |-> e.clients, pending |-> p.pending \o order,
               adding |-> e.adding, nextId |-> e.nextId]
      BY <1>1, <2>1 DEF PoolOK
    <2>3. /\ r.clients = e.clients /\ r.pending = p.pending \o order
          /\ r.adding = e.adding /\ r.nextId = e.nextId
      BY <2>2
    <2>4. /\ Len(order) \in Nat
          /\ order \in Seq(Sub)
          /\ \A i, j \in 1..Len(order) : order[i] = order[j] => i = j
          /\ \A d \in S : \E i \in 1..Len(order) : order[i] = d
          /\ \A i \in 1..Len(order) : order[i] \in S
      <3>1. order \in Seq(S)
        BY <1>2, OrderIs
      <3>2. order \in Seq(Sub)
        BY <1>2, <3>1, SeqMonotonic
      <3>3. \A i \in 1..Len(order) : order[i] \in S
        BY <3>1, ElementOfSeq
      <3> QED
        BY <1>2, <3>2, <3>3, OrderIs
    <2> DEFINE n == Len(p.pending)
               m == Len(order)
    <2>5. p.pending \in Seq(Sub) /\ n \in Nat
      BY LenProperties DEF PoolOK
    <2>6. /\ r.pending \in Seq(Sub) /\ Len(r.pending) = n + m
          /\ \A i \in 1..(n + m) : r.pending[i] = IF i <= n THEN p.pending[i]
                                                  ELSE order[i - n]
      BY <2>3, <2>4, <2>5, ConcatProperties
    <2>7. /\ \A i \in 1..n : i \in 1..(n + m) /\ r.pending[i] = p.pending[i]
          /\ \A i \in 1..m : i + n \in 1..(n + m) /\ r.pending[i + n] = order[i]
          /\ \A i \in 1..(n + m) : i \in 1..n \/ (i > n /\ i - n \in 1..m /\ r.pending[i] = order[i - n])
      <3> HIDE DEF n, m
      <3>1. m \in Nat
        BY <2>4 DEF m
      <3>2. \A i \in 1..n : i \in 1..(n + m) /\ i <= n
        BY <2>5, <3>1
      <3>3. \A i \in 1..m : i + n \in 1..(n + m) /\ ~(i + n <= n) /\ (i + n) - n = i
        BY <2>5, <3>1
      <3>4. \A i \in 1..(n + m) : i \in 1..n \/ (~(i <= n) /\ i > n /\ i - n \in 1..m)
        BY <2>5, <3>1
      <3> QED
        BY <2>6, <3>2, <3>3, <3>4
    <2> HIDE DEF n, m
    <2>8. Connects(r) <=> Connects(e)
      BY <2>3 DEF Connects
    <2>9. PoolOK(r)
      BY <1>1, <2>2, <2>3, <2>6, <2>8 DEF PoolOK
    <2>10. \A d \in Sub : Held(r, d) <=> Held(e, d)
      BY <2>3 DEF Held
    <2>11. ASSUME NEW d \in Sub
           PROVE  /\ Queued(p, d) => Queued(r, d)
                  /\ d \in S => Queued(r, d)
                  /\ Queued(r, d) => Queued(p, d) \/ d \in S
      <3>1. Queued(p, d) => Queued(r, d)
        BY <2>6, <2>7 DEF Queued, n
      <3>2. d \in S => Queued(r, d)
        BY <2>4, <2>6, <2>7 DEF Queued, m
      <3>3. ASSUME Queued(r, d), ~Queued(p, d) PROVE d \in S
        <4>1. PICK i \in 1..(n + m) : r.pending[i] = d
          BY <2>6, <3>3 DEF Queued
        <4>2. i \notin 1..n
          BY <2>7, <3>3, <4>1 DEF Queued, n
        <4>3. i - n \in 1..m /\ order[i - n] = d
          BY <2>7, <4>1, <4>2
        <4> QED
          BY <2>4, <4>3 DEF m
      <3> QED
        BY <3>1, <3>2, <3>3
    <2>12. ASSUME NEW d \in Sub, Once(p, d) PROVE Once(r, d)
      <3>1. Once(e, d)
        BY <1>1, <2>12
      <3>2. \A i, j \in DOMAIN r.clients :
                d \in r.clients[i].subs /\ d \in r.clients[j].subs => i = j
        BY <2>3, <3>1 DEF Once
      <3>3. Held(r, d) => ~Queued(r, d)
        BY <1>1, <2>10, <2>11, <2>12, <3>1 DEF Once, Free
      <3>4. \A i \in 1..n, j \in 1..n :
                r.pending[i] = d /\ r.pending[j] = d => i = j
        BY <2>7, <2>12 DEF Once, n
      <3>5. d \in S => \A i \in 1..n : p.pending[i] # d
        BY <1>3, <2>12 DEF Once, Queued, n
      <3>6. ASSUME NEW i \in 1..(n + m), NEW j \in 1..(n + m),
                   r.pending[i] = d, r.pending[j] = d
            PROVE  i = j
        <4>1. CASE i \in 1..n /\ j \in 1..n
          BY <3>4, <3>6, <4>1
        <4>2. CASE i \notin 1..n /\ j \notin 1..n
          <5>1. i - n \in 1..m /\ j - n \in 1..m /\ order[i - n] = d /\ order[j - n] = d
            BY <2>7, <3>6, <4>2
          <5>2. i - n = j - n
            BY <2>4, <5>1 DEF m
          <5>3. m \in Nat
            BY <2>4 DEF m
          <5> QED
            BY <2>5, <5>2, <5>3
        <4>3. CASE (i \in 1..n) # (j \in 1..n)
          <5>1. \A k \in 1..(n + m) : k \notin 1..n /\ r.pending[k] = d => d \in S
            BY <2>4, <2>7 DEF m
          <5>2. d \in S
            BY <3>6, <4>3, <5>1
          <5> QED
            BY <2>7, <3>5, <3>6, <4>3, <5>2
        <4> QED
          BY <4>1, <4>2, <4>3
      <3> QED
        BY <2>6, <3>2, <3>3, <3>6 DEF Once
    <2>13. ASSUME NEW d \in Sub
           PROVE  /\ Free(p, d) => Free(r, d)
                  /\ Held(p, d) => Held(r, d) \/ Queued(r, d)
      BY <1>1, <1>3, <2>10, <2>11 DEF Free
    <2> QED
      BY <1>7, <2>9, <2>11, <2>12, <2>13
  <1> QED
    BY <1>4, <1>5, <1>6, <1>7
-----------------------------------------------------------------------------
(* Invariance. *)

\* Every variable has its type, and the pool is one.
StateOK ==
    /\ PoolOK(Pool)
    /\ timers \in Nat
    /\ unsubscribes \in Nat
    /\ stopping \in BOOLEAN
    /\ wanted \subseteq Sub

\* WantedIsOnItsWay, of the pool as one value
OnItsWay ==
    ~stopping =>
        \A s \in wanted \ missed :
            Held(Pool, s) \/ (Queued(Pool, s) /\ (Connects(Pool) \/ timers > 0))

\* Before the first unsubscribe() a subscription is in one place at most, and only
\* what the application wants is anywhere.
Placed ==
    unsubscribes = 0 =>
        \A s \in Sub : /\ Once(Pool, s)
                       /\ s \notin wanted => Free(Pool, s)

\* The inductive invariant.
Inv == StateOK /\ OnItsWay /\ Placed

LEMMA PoolIs ==
    /\ Pool.clients = clients /\ Pool.pending = pending
    /\ Pool.adding = addingClient /\ Pool.nextId = nextId
  BY DEF Pool

LEMMA PoolAfter ==
    ASSUME NEW p, PoolOK(p), SetPool(p)
    PROVE  Pool' = p
  BY DEF Pool, SetPool, PoolOK

LEMMA InitInv == Init => Inv
  <1> SUFFICES ASSUME Init PROVE Inv
    OBVIOUS
  <1>1. /\ clients = [id \in {} |-> {}] /\ pending = << >> /\ addingClient = FALSE
        /\ nextId = 0 /\ timers = 0 /\ stopping = FALSE /\ wanted = {}
        /\ unsubscribes = 0
    BY DEF Init
  <1>2. DOMAIN clients = {}
    BY <1>1
  <1>3. clients \in [DOMAIN clients -> Client]
    BY <1>1
  <1>4. pending \in Seq(Sub) /\ Len(pending) = 0
    BY <1>1, EmptySeq
  <1>5. PoolOK(Pool)
    BY <1>1, <1>2, <1>3, <1>4, PoolIs DEF PoolOK, Pool
  <1>6. \A s \in Sub : Once(Pool, s) /\ Free(Pool, s)
    BY <1>2, <1>4, PoolIs DEF Once, Free, Held, Queued
  <1> QED
    BY <1>1, <1>5, <1>6 DEF Inv, StateOK, OnItsWay, Placed

LEMMA SubscribeInv ==
    ASSUME Inv, NEW s \in Sub, Subscribe(s)
    PROVE  Inv'
  <1>1. PICK r \in SubscribeTo(Pool, s) : SetPool(r)
    BY DEF Subscribe
  <1>2. /\ s \notin wanted /\ wanted' = wanted \cup {s} /\ missed' = missed \ {s}
        /\ timers' = timers /\ stopping' = stopping /\ unsubscribes' = unsubscribes
    BY DEF Subscribe
  <1>3. PoolOK(Pool)
    BY DEF Inv, StateOK
  <1>4. Added(Pool, r, s)
    BY <1>1, <1>3, SubscribeAdds
  <1>5. Pool' = r
    BY <1>1, <1>4, PoolAfter DEF Added
  <1>6. StateOK'
    BY <1>2, <1>4, <1>5 DEF Inv, StateOK, Added
  <1>7. ASSUME ~stopping, NEW d \in wanted' \ missed'
        PROVE  Held(r, d) \/ (Queued(r, d) /\ (Connects(r) \/ timers > 0))
    <2>1. CASE d = s
      BY <1>4, <1>7, <2>1 DEF Added
    <2>2. CASE d # s
      <3>1. d \in wanted \ missed /\ d \in Sub \ {s}
        BY <1>2, <2>2 DEF Inv, StateOK
      <3>2. Held(Pool, d) \/ (Queued(Pool, d) /\ (Connects(Pool) \/ timers > 0))
        BY <1>7, <3>1 DEF Inv, OnItsWay
      <3> QED
        BY <1>4, <3>1, <3>2 DEF Added
    <2> QED
      BY <2>1, <2>2
  <1>8. OnItsWay'
    BY <1>2, <1>5, <1>7 DEF OnItsWay
  <1>9. ASSUME unsubscribes = 0, NEW d \in Sub
        PROVE  Once(r, d) /\ (d \notin wanted' => Free(r, d))
    <2>1. Once(Pool, d) /\ (d \notin wanted => Free(Pool, d))
      BY <1>9 DEF Inv, Placed
    <2>2. CASE d = s
      BY <1>2, <1>4, <2>1, <2>2 DEF Added
    <2>3. CASE d # s
      BY <1>2, <1>4, <2>1, <2>3 DEF Added, Free
    <2> QED
      BY <2>2, <2>3
  <1>10. Placed'
    BY <1>2, <1>5, <1>9 DEF Placed
  <1> QED
    BY <1>6, <1>8, <1>10 DEF Inv

\* A client drops the subscription, and nothing else changes.
LEMMA UnsubscribeInv ==
    ASSUME Inv, NEW s \in Sub, Unsubscribe(s)
    PROVE  Inv'
  <1>1. /\ wanted' = wanted \ {s} /\ unsubscribes' = unsubscribes + 1
        /\ pending' = pending /\ addingClient' = addingClient /\ nextId' = nextId
        /\ timers' = timers /\ stopping' = stopping /\ missed' = missed
    BY DEF Unsubscribe
  <1>2. /\ clients \in [DOMAIN clients -> Client]
        /\ DOMAIN clients \subseteq 0..(nextId - 1)
        /\ nextId \in Nat /\ pending \in Seq(Sub) /\ addingClient \in BOOLEAN
        /\ addingClient => Connects(Pool)
    BY PoolIs DEF Inv, StateOK, PoolOK
  <1>3. \/ clients' = clients
        \/ \E id \in DOMAIN clients : clients' = [clients EXCEPT ![id].subs = @ \ {s}]
    BY DEF Unsubscribe
  <1>4. /\ DOMAIN clients' = DOMAIN clients
        /\ \A j \in DOMAIN clients :
               /\ clients'[j] \in Client
               /\ clients'[j].open = clients[j].open
               /\ \A d \in Sub \ {s} : d \in clients'[j].subs <=> d \in clients[j].subs
        /\ clients' \in [DOMAIN clients -> Client]
    <2>1. CASE clients' = clients
      BY <1>2, <2>1
    <2>2. CASE \E id \in DOMAIN clients : clients' = [clients EXCEPT ![id].subs = @ \ {s}]
      <3>1. PICK id \in DOMAIN clients : clients' = [clients EXCEPT ![id].subs = @ \ {s}]
        BY <2>2
      <3> DEFINE c == clients[id]
                 x == [c EXCEPT !.subs = @ \ {s}]
      <3>2. c \in Client
        BY <1>2
      <3>3. /\ IsFiniteSet(c.subs \ {s})
            /\ Cardinality(c.subs \ {s}) <= maxSubscriptions
        <4> DEFINE S == c.subs
        <4>1. IsFiniteSet(S) /\ Cardinality(S) <= maxSubscriptions /\ S \ {s} \in SUBSET S
          BY <3>2 DEF Client
        <4> HIDE DEF S
        <4>2. /\ IsFiniteSet(S \ {s}) /\ Cardinality(S \ {s}) <= Cardinality(S)
              /\ Cardinality(S) \in Nat /\ Cardinality(S \ {s}) \in Nat
          BY <4>1, FS_Subset, FS_CardinalityType
        <4>3. Cardinality(S \ {s}) <= maxSubscriptions
          BY <4>1, <4>2, MaxSubscriptions
        <4> QED
          BY <4>2, <4>3 DEF S
      <3>4. x = [open |-> c.open, subs |-> c.subs \ {s}]
        BY <3>2 DEF Client
      <3>5. x \in Client /\ x.open = c.open /\ x.subs = c.subs \ {s}
        BY <3>2, <3>3, <3>4 DEF Client
      <3>6. clients' = [clients EXCEPT ![id] = x]
        BY <3>1
      <3> HIDE DEF x
      <3> QED
        BY <1>2, <3>5, <3>6
    <2> QED
      BY <1>3, <2>1, <2>2
  <1>5. /\ Pool'.clients = clients' /\ Pool'.pending = pending
        /\ Pool'.adding = addingClient /\ Pool'.nextId = nextId
        /\ Pool' = [clients |-> Pool'.clients, pending |-> Pool'.pending,
                    adding |-> Pool'.adding, nextId |-> Pool'.nextId]
    BY <1>1 DEF Pool
  <1>6. Connects(Pool)' <=> Connects(Pool)
    BY <1>4, <1>5, PoolIs DEF Connects
  <1>7. PoolOK(Pool)'
    BY <1>2, <1>4, <1>5, <1>6 DEF PoolOK
  <1>8. StateOK'
    BY <1>1, <1>7 DEF Inv, StateOK
  <1>9. \A d \in Sub \ {s} : /\ Held(Pool, d)' <=> Held(Pool, d)
                             /\ Queued(Pool, d)' <=> Queued(Pool, d)
    BY <1>4, <1>5, PoolIs DEF Held, Queued
  <1>10. OnItsWay'
    BY <1>1, <1>6, <1>9 DEF Inv, StateOK, OnItsWay
  <1>11. Placed'
    BY <1>1 DEF Inv, StateOK, Placed
  <1> QED
    BY <1>8, <1>10, <1>11 DEF Inv

LEMMA OpenedInv ==
    ASSUME Inv, NEW id \in DOMAIN clients, Opened(id)
    PROVE  Inv'
  <1> DEFINE r == OpenedPool(Pool, id)
             full == Taken(Pool, id).full
             taken == Taken(Pool, id).client.subs
  <1>1. /\ SetPool(r)
        /\ missed' = IF full THEN (missed \cup Range(pending)) \ taken
                     ELSE missed \ Range(pending)
        /\ timers' = timers /\ stopping' = stopping /\ wanted' = wanted
        /\ unsubscribes' = unsubscribes
    BY DEF Opened
  <1>2. PoolOK(Pool) /\ id \in DOMAIN Pool.clients
    BY PoolIs DEF Inv, StateOK
  <1>3. PoolOK(r)
    BY <1>2, OpenedMoves
  <1>4. ASSUME NEW d \in Sub
        PROVE  /\ Held(Pool, d) => Held(r, d)
               /\ d \in taken => Held(r, d)
               /\ Free(Pool, d) => Free(r, d)
               /\ Once(Pool, d) => Once(r, d)
               /\ ~full /\ Queued(Pool, d) =>
                      Held(r, d) \/ (Queued(r, d) /\ (stopping \/ Connects(r)))
    BY <1>2, OpenedMoves
  <1> HIDE DEF r, full, taken
  <1>5. Pool' = r
    BY <1>1, <1>3, PoolAfter
  <1>6. StateOK'
    BY <1>1, <1>3, <1>5 DEF Inv, StateOK
  <1>7. ASSUME NEW d \in Sub
        PROVE  Queued(Pool, d) <=> d \in Range(pending)
    <2>1. pending \in Seq(Sub)
      BY <1>2, PoolIs DEF PoolOK
    <2> QED
      BY <2>1, PoolIs, RangeEquality DEF Queued
  <1>8. ASSUME ~stopping, NEW d \in wanted \ missed'
        PROVE  Held(r, d) \/ (Queued(r, d) /\ (Connects(r) \/ timers > 0))
    <2>1. d \in Sub
      BY <1>1, <1>8 DEF Inv, StateOK
    <2>2. CASE d \in taken
      BY <1>4, <2>1, <2>2
    <2>3. CASE ~full /\ Queued(Pool, d)
      BY <1>4, <1>8, <2>1, <2>3
    <2>4. CASE d \notin taken /\ ~(~full /\ Queued(Pool, d))
      <3>1. d \notin missed /\ ~Queued(Pool, d)
        BY <1>1, <1>7, <1>8, <2>1, <2>4
      <3>2. Held(Pool, d)
        BY <1>8, <3>1 DEF Inv, OnItsWay
      <3> QED
        BY <1>4, <2>1, <3>2
    <2> QED
      BY <2>2, <2>3, <2>4
  <1>9. OnItsWay'
    BY <1>1, <1>5, <1>8 DEF OnItsWay
  <1>10. Placed'
    BY <1>1, <1>4, <1>5 DEF Inv, Placed
  <1> QED
    BY <1>6, <1>9, <1>10 DEF Inv

LEMMA ClosedInv ==
    ASSUME Inv, NEW id \in DOMAIN clients, Closed(id)
    PROVE  Inv'
  <1>1. PICK r \in ClosedPool(Pool, id) : SetPool(r)
    BY DEF Closed
  <1>2. /\ timers' = IF stopping \/ clients[id].open THEN timers ELSE timers + 1
        /\ stopping' = stopping /\ wanted' = wanted /\ missed' = missed
        /\ unsubscribes' = unsubscribes
    BY DEF Closed
  <1>3. PoolOK(Pool) /\ id \in DOMAIN Pool.clients /\ Pool.clients[id] = clients[id]
    BY PoolIs DEF Inv, StateOK
  <1>4. /\ PoolOK(r)
        /\ \A d \in Sub : /\ Once(Pool, d) => Once(r, d)
                          /\ Free(Pool, d) => Free(r, d)
        /\ ~stopping =>
               /\ clients[id].open /\ Connects(Pool) => Connects(r)
               /\ \A d \in Sub :
                      /\ Queued(Pool, d) => Queued(r, d)
                      /\ Held(Pool, d) =>
                             \/ Held(r, d)
                             \/ Queued(r, d) /\ (clients[id].open => Connects(r))
    BY <1>1, <1>3, ClosedMoves
  <1>5. Pool' = r
    BY <1>1, <1>4, PoolAfter
  <1>6. timers \in Nat /\ timers' \in Nat
    BY <1>2 DEF Inv, StateOK
  <1>7. StateOK'
    BY <1>2, <1>4, <1>5, <1>6 DEF Inv, StateOK
  <1>8. ASSUME ~stopping, NEW d \in wanted \ missed
        PROVE  Held(r, d) \/ (Queued(r, d) /\ (Connects(r) \/ timers' > 0))
    <2>1. d \in Sub
      BY DEF Inv, StateOK
    <2>2. Held(Pool, d) \/ (Queued(Pool, d) /\ (Connects(Pool) \/ timers > 0))
      BY <1>8 DEF Inv, OnItsWay
    <2>3. CASE clients[id].open
      BY <1>2, <1>4, <1>8, <2>1, <2>2, <2>3
    <2>4. CASE ~clients[id].open
      <3>1. timers' > 0
        BY <1>2, <1>6, <1>8, <2>4
      <3> QED
        BY <1>4, <1>8, <2>1, <2>2, <3>1
    <2> QED
      BY <2>3, <2>4
  <1>9. OnItsWay'
    BY <1>2, <1>5, <1>8 DEF OnItsWay
  <1>10. Placed'
    BY <1>2, <1>4, <1>5 DEF Inv, Placed
  <1> QED
    BY <1>7, <1>9, <1>10 DEF Inv

LEMMA BackoffTimerInv ==
    ASSUME Inv, BackoffTimer
    PROVE  Inv'
  <1> DEFINE r == AddClient(Pool)
  <1>1. /\ timers > 0 /\ timers' = timers - 1 /\ SetPool(r)
        /\ stopping' = stopping /\ wanted' = wanted /\ missed' = missed
        /\ unsubscribes' = unsubscribes
    BY DEF BackoffTimer
  <1>2. PoolOK(Pool)
    BY DEF Inv, StateOK
  <1>3. PoolOK(r) /\ (stopping \/ Connects(r))
    BY <1>2, ClientAdded
  <1>4. \A d \in Sub : /\ Held(Pool, d) <=> Held(r, d)
                       /\ Queued(Pool, d) <=> Queued(r, d)
                       /\ Once(Pool, d) => Once(r, d)
    BY <1>2, AddClientMovesNothing
  <1> HIDE DEF r
  <1>5. Pool' = r
    BY <1>1, <1>3, PoolAfter
  <1>6. timers' \in Nat
    BY <1>1 DEF Inv, StateOK
  <1>7. StateOK'
    BY <1>1, <1>3, <1>5, <1>6 DEF Inv, StateOK
  <1>8. OnItsWay'
    BY <1>1, <1>3, <1>4, <1>5 DEF Inv, StateOK, OnItsWay
  <1>9. Placed'
    BY <1>1, <1>4, <1>5 DEF Inv, Placed, Free
  <1> QED
    BY <1>7, <1>8, <1>9 DEF Inv

LEMMA NextInv == Inv /\ [Next]_vars => Inv'
  <1> SUFFICES ASSUME Inv, [Next]_vars PROVE Inv'
    OBVIOUS
  <1>1. CASE \E s \in Sub : Subscribe(s) \/ Unsubscribe(s)
    BY <1>1, SubscribeInv, UnsubscribeInv
  <1>2. CASE \E id \in DOMAIN clients : Opened(id) \/ Closed(id)
    BY <1>2, OpenedInv, ClosedInv
  <1>3. CASE BackoffTimer
    BY <1>3, BackoffTimerInv
  <1>4. CASE Stop
    <2>1. /\ stopping' = TRUE /\ Pool' = Pool /\ timers' = timers
          /\ wanted' = wanted /\ unsubscribes' = unsubscribes
      BY <1>4 DEF Stop, pool, Pool
    <2> QED
      BY <2>1 DEF Inv, StateOK, OnItsWay, Placed
  <1>5. CASE UNCHANGED vars
    <2>1. /\ stopping' = stopping /\ Pool' = Pool /\ timers' = timers
          /\ wanted' = wanted /\ missed' = missed /\ unsubscribes' = unsubscribes
      BY <1>5 DEF vars, Pool
    <2> QED
      BY <2>1 DEF Inv, StateOK, OnItsWay, Placed
  <1> QED
    BY <1>1, <1>2, <1>3, <1>4, <1>5 DEF Next

LEMMA Invariance == Spec => []Inv
  BY InitInv, NextInv, PTL DEF Spec
-----------------------------------------------------------------------------
\* Every variable has its type, and no client exceeds maxSubscriptions
\* (BasicPubSubClient::subscribe()).
THEOREM TypeCorrect == Spec => []TypeOK
  <1>1. Inv => TypeOK
    <2> SUFFICES ASSUME Inv PROVE TypeOK
      OBVIOUS
    <2>1. /\ clients \in [DOMAIN clients -> Client]
          /\ DOMAIN clients \subseteq 0..(nextId - 1)
          /\ nextId \in Nat /\ pending \in Seq(Sub) /\ addingClient \in BOOLEAN
      BY PoolIs DEF Inv, StateOK, PoolOK
    <2>2. \A id \in DOMAIN clients :
              /\ clients[id] \in [open : BOOLEAN, subs : SUBSET Sub]
              /\ Cardinality(clients[id].subs) <= maxSubscriptions
      BY <2>1 DEF Client
    <2>3. clients \in [DOMAIN clients -> [open : BOOLEAN, subs : SUBSET Sub]]
      BY <2>1, <2>2
    <2> QED
      BY <2>1, <2>2, <2>3 DEF Inv, StateOK, TypeOK
  <1> QED
    BY <1>1, Invariance, PTL

\* As long as nothing was unsubscribed, a subscription is with one client or waits
\* once (BasicPubSubManager::subscribe(), onConnectionOpen(), onConnectionClose()).
THEOREM InOnePlace == Spec => []SubscribedOnce
  <1>1. Inv => SubscribedOnce
    <2> SUFFICES ASSUME Inv, unsubscribes = 0, NEW s \in Sub
                 PROVE  Cardinality(Holders(s)) + Cardinality(Waiting(s)) <= 1
      BY DEF SubscribedOnce
    <2>1. Once(Pool, s)
      BY DEF Inv, Placed
    <2>2. \A i, j \in Holders(s) : i = j
      BY <2>1, PoolIs DEF Once, Holders
    <2>3. \A i, j \in Waiting(s) : i = j
      BY <2>1, PoolIs DEF Once, Waiting
    <2>4. Holders(s) = {} \/ Waiting(s) = {}
      BY <2>1, PoolIs DEF Once, Held, Queued, Holders, Waiting
    <2>5. Holders(s) = {} \/ \E i : Holders(s) = {i}
      BY <2>2
    <2>6. Waiting(s) = {} \/ \E i : Waiting(s) = {i}
      BY <2>3
    <2> HIDE DEF Holders, Waiting
    <2>7. Cardinality(Holders(s)) = 0 \/ Cardinality(Holders(s)) = 1
      BY <2>5, FS_EmptySet, FS_Singleton
    <2>8. Cardinality(Waiting(s)) = 0 \/ Cardinality(Waiting(s)) = 1
      BY <2>6, FS_EmptySet, FS_Singleton
    <2>9. Cardinality(Holders(s)) = 0 \/ Cardinality(Waiting(s)) = 0
      BY <2>4, FS_EmptySet
    <2> QED
      BY <2>7, <2>8, <2>9
  <1> QED
    BY <1>1, Invariance, PTL

\* What the application subscribed to is with a client, or waits while a client is
\* connecting or about to, except what waited for a client that was full
\* (BasicPubSubManager::onConnectionOpen(), onConnectionClose()).
THEOREM WantedIsNotForgotten == Spec => []WantedIsOnItsWay
  <1>1. Inv => WantedIsOnItsWay
    <2> SUFFICES ASSUME Inv, ~stopping, NEW s \in wanted \ missed
                 PROVE  \/ Holders(s) # {}
                        \/ Waiting(s) # {} /\ (Connecting # {} \/ timers > 0)
      BY DEF WantedIsOnItsWay
    <2>1. Held(Pool, s) \/ (Queued(Pool, s) /\ (Connects(Pool) \/ timers > 0))
      BY DEF Inv, OnItsWay
    <2>2. /\ Held(Pool, s) <=> Holders(s) # {}
          /\ Queued(Pool, s) <=> Waiting(s) # {}
          /\ Connects(Pool) <=> Connecting # {}
      BY PoolIs DEF Held, Queued, Connects, Holders, Waiting, Connecting
    <2> QED
      BY <2>1, <2>2
  <1> QED
    BY <1>1, Invariance, PTL
=============================================================================
