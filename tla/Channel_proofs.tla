--------------------------- MODULE Channel_proofs ---------------------------
(***************************************************************************)
(* Invariance proofs for MergedChannel and ChannelHistory, for every set   *)
(* of platforms and texts, every window, every limit of the queues and     *)
(* every bound.  The two have no state in common; what the loops of their  *)
(* channels do is proved by induction over the rounds.                     *)
(***************************************************************************)
EXTENDS MergedChannel, ChannelHistory, Integers, SequenceTheorems, FiniteSetTheorems,
        TLAPS

(* Induction over the naturals. *)

\* A nonempty set of naturals has a least element: the initial segments 1..n are
\* finite sets, which strict inclusion orders well.
LEMMA Least ==
    ASSUME NEW T \in SUBSET Nat, T # {}
    PROVE  \E n \in T : \A m \in T : n <= m
  <1> DEFINE B == {1..n : n \in T}
  <1>1. B # {}
    OBVIOUS
  <1>2. B \subseteq FiniteSubsetsOf(Nat)
    <2>1. ASSUME NEW n \in T PROVE 1..n \in FiniteSubsetsOf(Nat)
      <3>1. 1..n \subseteq Nat /\ n \in Int /\ 1 \in Int
        OBVIOUS
      <3>2. IsFiniteSet(1..n)
        BY <3>1, FS_Interval
      <3> QED
        BY <3>1, <3>2 DEF FiniteSubsetsOf
    <2> QED
      BY <2>1
  <1>3. IsWellFoundedOn(StrictSubsetOrdering(Nat), FiniteSubsetsOf(Nat))
    BY FS_StrictSubsetOrderingWellFounded
  <1>4. PICK x \in B : \A y \in B : ~(<<y, x>> \in StrictSubsetOrdering(Nat))
    <2> HIDE DEF B
    <2> QED
      BY <1>1, <1>2, <1>3, WFMin
  <1>5. PICK n \in T : x = 1..n
    BY <1>4
  <1>6. \A m \in T : ~(m < n)
    <2> SUFFICES ASSUME NEW m \in T, m < n PROVE FALSE
      OBVIOUS
    <2>1. n \in 1..n /\ n \notin 1..m
      OBVIOUS
    <2>2. 1..m \subseteq 1..n /\ 1..m # 1..n
      BY <2>1
    <2>3. <<1..m, x>> \in StrictSubsetOrdering(Nat)
      BY <2>2, <1>5 DEF StrictSubsetOrdering
    <2> QED
      BY <1>4, <2>3
  <1> QED
    BY <1>6

LEMMA Induction ==
    ASSUME NEW T, 0 \in T, \A k \in Nat : k \in T => k + 1 \in T
    PROVE  Nat \subseteq T
  <1> DEFINE U == Nat \ T
  <1> SUFFICES ASSUME U # {} PROVE FALSE
    OBVIOUS
  <1>1. U \in SUBSET Nat
    OBVIOUS
  <1>2. PICK n \in U : \A m \in U : n <= m
    <2> HIDE DEF U
    <2> QED
      BY <1>1, Least
  <1>3. n \in Nat /\ n # 0
    BY <1>2
  <1>4. n - 1 \in Nat /\ n - 1 \notin U
    <2>1. n - 1 \in Nat /\ ~(n <= n - 1)
      BY <1>3
    <2> HIDE DEF U
    <2> QED
      BY <2>1, <1>2
  <1>5. (n - 1) + 1 = n
    BY <1>3
  <1> QED
    BY <1>2, <1>4, <1>5
-----------------------------------------------------------------------------
(* What the handlers keep of the queue P, of what is shown (D) and suppressed (X), *)
(* of what was sent (S), and of the time n.                                       *)

Entry == [text : Text, sentTime : Nat, received : Nat, id : Nat]

Message == [id : Nat, other : Nat, text : Text, platform : Platform, stamp : Nat, at : Nat,
            both : BOOLEAN]

Record == [text : Text, sentTo : SUBSET Platform, merge : SUBSET Platform,
           sentTime : Nat]

Multi(S, id) == Cardinality(S[id].sentTo) > 1

Unique(S, id) == \A other \in 1..Len(S) : other # id => S[other].text # S[id].text

\* Who waits for echoes was sent to several platforms, once.
PendingIsSent(P, S, n) ==
    \A i \in 1..Len(P) :
        /\ P[i].id \in 1..Len(S)
        /\ Multi(S, P[i].id)
        /\ P[i].text = S[P[i].id].text
        /\ P[i].sentTime = S[P[i].id].sentTime
        /\ P[i].sentTime <= n

PendingOnce(P) == \A i, j \in 1..Len(P) : P[i].id = P[j].id => i = j

\* Within the window it does wait.
Tracked(P, S, n) ==
    \A id \in 1..Len(S) :
        Multi(S, id) /\ n - S[id].sentTime <= Window =>
            \E i \in 1..Len(P) : P[i].id = id

\* The first echo was shown.
ReceivedWasShown(P, D) ==
    \A i \in 1..Len(P) : P[i].received > 0 =>
        \E j \in 1..Len(D) : D[j].text = P[i].text /\ P[i].sentTime <= D[j].at

ShownIsPast(D, S, n) == \A j \in 1..Len(D) : D[j].at <= n /\ D[j].id <= Len(S)

\* OwnMessageShownOnce without counting
ShownOnce(D, S) ==
    \A id \in 1..Len(S) : Multi(S, id) /\ Unique(S, id) =>
        \A i, j \in 1..Len(D) :
            /\ D[i].id = id /\ D[i].at - S[id].sentTime <= Window
            /\ D[j].id = id /\ D[j].at - S[id].sentTime <= Window
            => i = j

\* What was shown of a message within the window, its entry has counted.
ShownIsCounted(P, D, S, n) ==
    \A id \in 1..Len(S) :
        /\ Multi(S, id) /\ Unique(S, id)
        /\ n - S[id].sentTime <= Window
        /\ \E i \in 1..Len(D) : D[i].id = id
        => \E i \in 1..Len(P) : P[i].id = id /\ P[i].received > 0

\* SuppressedTextWasShown
Explained(X, D) ==
    \A m \in X :
        \E i \in 1..Len(D) :
            D[i].text = m.text /\ D[i].at <= m.at /\ m.at - D[i].at <= Window

Types(P, D, S, n) ==
    /\ P \in Seq(Entry) /\ D \in Seq(Message) /\ S \in Seq(Record) /\ n \in Nat

Good(P, D, X, S, n) ==
    /\ Types(P, D, S, n)
    /\ PendingIsSent(P, S, n)
    /\ PendingOnce(P)
    /\ Tracked(P, S, n)
    /\ ReceivedWasShown(P, D)
    /\ ShownIsPast(D, S, n)
    /\ ShownOnce(D, S)
    /\ ShownIsCounted(P, D, S, n)
    /\ Explained(X, D)

\* What the sequences are, for the solvers
LEMMA SeqsAre ==
    ASSUME NEW P, NEW D, NEW S, NEW n, Types(P, D, S, n)
    PROVE  /\ Len(P) \in Nat /\ Len(D) \in Nat /\ Len(S) \in Nat /\ n \in Nat
           /\ \A i \in 1..Len(P) : P[i] \in Entry
           /\ \A i \in 1..Len(D) : D[i] \in Message
           /\ \A i \in 1..Len(S) : S[i] \in Record
  BY LenProperties, ElementOfSeq DEF Types

LEMMA WindowIs == Window \in Nat /\ MaxTime \in Nat /\ MaxSends \in Nat /\ MaxDelay \in Nat
  <1>1. {Window, MaxDelay, MaxTime, MaxSends, MaxOthers} \subseteq Nat
    BY MergedAssumption
  <1> QED
    BY <1>1
-----------------------------------------------------------------------------
(* onSourceMessageReceived(). *)

\* What a source can append now.
Arrives(m) ==
    /\ m \in Message /\ m.at = now /\ m.id <= Len(sends)
    /\ m.id # 0 => m.text = sends[m.id].text

GoodNow(st) == Good(st.pending, st.shown, st.suppressed, sends, now)

\* No pending message has the text.
LEMMA UnknownShown ==
    ASSUME NEW st, NEW m, GoodNow(st), Arrives(m),
           {i \in 1..Len(st.pending) : Matches(st.pending[i], m)} = {}
    PROVE  GoodNow(Handle(st, m))
  <1> DEFINE P == st.pending
             D == st.shown
             x == [m EXCEPT !.both = FALSE]
             E == Append(D, x)
  <1>1. /\ Handle(st, m).pending = P
        /\ Handle(st, m).shown = E
        /\ Handle(st, m).suppressed = st.suppressed
    BY DEF Handle
  <1>2. m \in Message /\ m.at = now
    BY DEF Arrives
  <1>3. x \in Message /\ x.id = m.id /\ x.text = m.text /\ x.at = now
    BY <1>2 DEF Message
  <1>4. Good(P, D, st.suppressed, sends, now)
    BY DEF GoodNow
  <1>5. Types(P, D, sends, now)
    BY <1>4 DEF Good
  <1>6. \A i \in 1..Len(P) : ~Matches(P[i], m)
    OBVIOUS
  <1> HIDE DEF P, D, x
  <1>7. /\ Len(D) \in Nat /\ Len(sends) \in Nat /\ now \in Nat
        /\ E \in Seq(Message) /\ Len(E) = Len(D) + 1
        /\ \A i \in 1..Len(D) : E[i] = D[i]
        /\ E[Len(D) + 1] = x
    BY <1>3, <1>5, SeqsAre, AppendProperties DEF Types
  <1> HIDE DEF E
  <1>8. \A i \in 1..Len(E) : i \in 1..Len(D) \/ i = Len(D) + 1
    BY <1>7
  <1>9. \A i \in 1..Len(D) : i \in 1..Len(E)
    BY <1>7
  <1>10. Types(P, E, sends, now)
    BY <1>5, <1>7 DEF Types
  <1>11. ReceivedWasShown(P, E)
    BY <1>4, <1>7, <1>9 DEF Good, ReceivedWasShown
  <1>12. ShownIsPast(E, sends, now)
    BY <1>3, <1>4, <1>7, <1>8 DEF Good, ShownIsPast, Arrives
  <1>13. ASSUME NEW id \in 1..Len(sends), Multi(sends, id), m.id = id
         PROVE  ~(now - sends[id].sentTime <= Window)
    <2> SUFFICES ASSUME now - sends[id].sentTime <= Window PROVE FALSE
      OBVIOUS
    <2>1. PICK i \in 1..Len(P) : P[i].id = id
      BY <1>4, <1>13 DEF Good, Tracked
    <2>2. P[i].text = sends[id].text /\ P[i].sentTime = sends[id].sentTime
      BY <1>4, <2>1 DEF Good, PendingIsSent
    <2>3. m.text = sends[id].text
      BY <1>7, <1>13 DEF Arrives
    <2> QED
      BY <1>6, <2>2, <2>3 DEF Matches
  <1>14. ShownOnce(E, sends)
    <2> SUFFICES ASSUME NEW id \in 1..Len(sends), Multi(sends, id), Unique(sends, id),
                        NEW i \in 1..Len(E), NEW j \in 1..Len(E),
                        E[i].id = id, E[i].at - sends[id].sentTime <= Window,
                        E[j].id = id, E[j].at - sends[id].sentTime <= Window
                 PROVE  i = j
      BY DEF ShownOnce
    <2>1. i \in 1..Len(D) /\ j \in 1..Len(D)
      BY <1>3, <1>7, <1>8, <1>13
    <2> QED
      BY <1>4, <1>7, <2>1 DEF Good, ShownOnce
  <1>15. ShownIsCounted(P, E, sends, now)
    <2> SUFFICES ASSUME NEW id \in 1..Len(sends), Multi(sends, id), Unique(sends, id),
                        now - sends[id].sentTime <= Window,
                        NEW i \in 1..Len(E), E[i].id = id
                 PROVE  \E j \in 1..Len(P) : P[j].id = id /\ P[j].received > 0
      BY DEF ShownIsCounted
    <2>1. i \in 1..Len(D)
      BY <1>3, <1>7, <1>8, <1>13
    <2> QED
      BY <1>4, <1>7, <2>1 DEF Good, ShownIsCounted
  <1>16. Explained(st.suppressed, E)
    BY <1>4, <1>7, <1>9 DEF Good, Explained
  <1> QED
    BY <1>1, <1>4, <1>10, <1>11, <1>12, <1>14, <1>15, <1>16 DEF GoodNow, Good

\* The handler counts an echo of the first entry with the text.
Counted(P, first) == [P EXCEPT ![first].received = P[first].received + 1]

LEMMA EntryCounts ==
    ASSUME NEW p \in Entry, NEW n
    PROVE  [p EXCEPT !.received = n] =
               [text |-> p.text, sentTime |-> p.sentTime, received |-> n, id |-> p.id]
  BY DEF Entry

LEMMA CountedIs ==
    ASSUME NEW P \in Seq(Entry), NEW first \in 1..Len(P)
    PROVE  LET Q == Counted(P, first) IN
           /\ Q \in Seq(Entry) /\ Len(Q) = Len(P) /\ Len(P) \in Nat
           /\ \A i \in 1..Len(P) :
                  /\ Q[i].text = P[i].text /\ Q[i].sentTime = P[i].sentTime
                  /\ Q[i].id = P[i].id
                  /\ i # first => Q[i].received = P[i].received
           /\ Q[first].received > 0
  <1> DEFINE e == [P[first] EXCEPT !.received = P[first].received + 1]
             Q == [P EXCEPT ![first] = e]
  <1>1. P[first] \in Entry
    BY ElementOfSeq
  <1>2. /\ e \in Entry /\ e.text = P[first].text /\ e.sentTime = P[first].sentTime
        /\ e.id = P[first].id /\ e.received > 0
    <2> DEFINE p == P[first]
    <2>1. p = [text |-> p.text, sentTime |-> p.sentTime, received |-> p.received,
               id |-> p.id] /\ p.received \in Nat
      BY <1>1 DEF Entry
    <2>2. e = [text |-> p.text, sentTime |-> p.sentTime, received |-> p.received + 1,
               id |-> p.id]
      BY <1>1, EntryCounts
    <2> HIDE DEF e
    <2> QED
      BY <1>1, <2>1, <2>2 DEF Entry
  <1>3. Counted(P, first) = Q
    BY DEF Counted
  <1> HIDE DEF e
  <1>4. /\ Q \in Seq(Entry) /\ Len(Q) = Len(P)
        /\ \A i \in 1..Len(P) : Q[i] = IF i = first THEN e ELSE P[i]
    BY <1>2, ExceptSeq
  <1>5. Len(P) \in Nat
    BY LenProperties
  <1> HIDE DEF Q
  <1> QED
    BY <1>2, <1>3, <1>4, <1>5

\* Counting leaves what does not depend on received, and what needs it counted.
LEMMA CountedKeeps ==
    ASSUME NEW P, NEW D, NEW X, Good(P, D, X, sends, now), NEW first \in 1..Len(P)
    PROVE  /\ Types(Counted(P, first), D, sends, now)
           /\ PendingIsSent(Counted(P, first), sends, now)
           /\ PendingOnce(Counted(P, first))
           /\ Tracked(Counted(P, first), sends, now)
           /\ ShownIsCounted(Counted(P, first), D, sends, now)
           /\ \A i \in 1..Len(P) \ {first} : Counted(P, first)[i].received = P[i].received
  <1> DEFINE Q == Counted(P, first)
  <1>1. P \in Seq(Entry)
    BY DEF Good, Types
  <1>2. /\ Q \in Seq(Entry) /\ Len(Q) = Len(P) /\ Len(P) \in Nat
        /\ \A i \in 1..Len(P) :
               /\ Q[i].text = P[i].text /\ Q[i].sentTime = P[i].sentTime
               /\ Q[i].id = P[i].id
               /\ i # first => Q[i].received = P[i].received
        /\ Q[first].received > 0
    BY <1>1, CountedIs
  <1> HIDE DEF Q
  <1>3. Types(Q, D, sends, now)
    BY <1>2 DEF Good, Types
  <1>4. PendingIsSent(Q, sends, now) /\ PendingOnce(Q) /\ Tracked(Q, sends, now)
    <2>1. PendingIsSent(Q, sends, now)
      BY <1>2 DEF Good, PendingIsSent
    <2>2. PendingOnce(Q)
      BY <1>2 DEF Good, PendingOnce
    <2>3. Tracked(Q, sends, now)
      BY <1>2 DEF Good, Tracked
    <2> QED
      BY <2>1, <2>2, <2>3
  <1>5. ShownIsCounted(Q, D, sends, now)
    <2> SUFFICES ASSUME NEW id \in 1..Len(sends), Multi(sends, id), Unique(sends, id),
                        now - sends[id].sentTime <= Window,
                        \E i \in 1..Len(D) : D[i].id = id
                 PROVE  \E i \in 1..Len(Q) : Q[i].id = id /\ Q[i].received > 0
      BY DEF ShownIsCounted
    <2>1. PICK i \in 1..Len(P) : P[i].id = id /\ P[i].received > 0
      BY DEF Good, ShownIsCounted
    <2> QED
      BY <1>2, <2>1
  <1> QED
    BY <1>2, <1>3, <1>4, <1>5 DEF Q

LEMMA EchoHandled ==
    ASSUME NEW st, NEW m, GoodNow(st), Arrives(m),
           {i \in 1..Len(st.pending) : Matches(st.pending[i], m)} # {}
    PROVE  GoodNow(Handle(st, m))
  <1> DEFINE P == st.pending
             D == st.shown
             X == st.suppressed
             hit == {i \in 1..Len(P) : Matches(P[i], m)}
             first == CHOOSE i \in hit : \A j \in hit : i <= j
             Q == Counted(P, first)
             x == [m EXCEPT !.both = TRUE]
             E == Append(D, x)
  <1>1. Good(P, D, X, sends, now)
    BY DEF GoodNow
  <1>2. Types(P, D, sends, now)
    BY <1>1 DEF Good
  <1>3. first \in 1..Len(P) /\ Matches(P[first], m)
    <2>1. hit \in SUBSET Nat /\ hit # {}
      OBVIOUS
    <2>2. \E i \in hit : \A j \in hit : i <= j
      <3> HIDE DEF hit
      <3> QED
        BY <2>1, Least
    <2>3. first \in hit
      <3> HIDE DEF hit
      <3> QED
        BY <2>2
    <2> QED
      BY <2>3
  <1>4. m \in Message /\ m.at = now
    BY DEF Arrives
  <1>5. x \in Message /\ x.id = m.id /\ x.text = m.text /\ x.at = now
    BY <1>4 DEF Message
  <1> DEFINE new == P[first].received + 1 = 1
  <1>6. /\ Handle(st, m).pending = Q
        /\ Handle(st, m).shown = IF new THEN E ELSE D
        /\ Handle(st, m).suppressed = IF new THEN X ELSE X \cup {m}
    BY DEF Handle, Counted
  <1> HIDE DEF P, D, X, hit, first, Q, x
  <1>7. /\ Len(P) \in Nat /\ Len(D) \in Nat /\ Len(sends) \in Nat /\ now \in Nat
        /\ \A i \in 1..Len(P) : P[i] \in Entry
        /\ \A i \in 1..Len(D) : D[i] \in Message
        /\ \A i \in 1..Len(sends) : sends[i] \in Record
    BY <1>2, SeqsAre
  <1>8. P[first].received \in Nat /\ P[first].sentTime \in Nat
    BY <1>3, <1>7 DEF Entry
  <1>9. /\ Types(Q, D, sends, now)
        /\ PendingIsSent(Q, sends, now) /\ PendingOnce(Q) /\ Tracked(Q, sends, now)
        /\ ShownIsCounted(Q, D, sends, now)
        /\ \A i \in 1..Len(P) \ {first} : Q[i].received = P[i].received
    BY <1>1, <1>3, CountedKeeps DEF Q
  <1>10. /\ Len(Q) = Len(P)
         /\ \A i \in 1..Len(P) :
                Q[i].text = P[i].text /\ Q[i].sentTime = P[i].sentTime /\ Q[i].id = P[i].id
         /\ Q[first].received > 0
    BY <1>2, <1>3, CountedIs DEF Q, Types
  <1> DEFINE own == P[first].id
  <1>11. /\ own \in 1..Len(sends) /\ Multi(sends, own)
         /\ P[first].text = sends[own].text /\ P[first].sentTime = sends[own].sentTime
         /\ P[first].sentTime <= now /\ now - P[first].sentTime <= Window
         /\ P[first].text = m.text
    BY <1>1, <1>3 DEF Good, PendingIsSent, Matches
  <1>12. CASE new
    <2>1. /\ E \in Seq(Message) /\ Len(E) = Len(D) + 1
          /\ \A i \in 1..Len(D) : E[i] = D[i]
          /\ E[Len(D) + 1] = x
      BY <1>2, <1>5, AppendProperties DEF Types
    <2>2. P[first].received = 0
      BY <1>8, <1>12
    <2> HIDE DEF E, new
    <2>3. \A i \in 1..Len(E) : i \in 1..Len(D) \/ i = Len(D) + 1
      BY <1>7, <2>1
    <2>4. /\ \A i \in 1..Len(D) : i \in 1..Len(E)
          /\ Len(D) + 1 \in 1..Len(E)
      BY <1>7, <2>1
    <2>5. Types(Q, E, sends, now)
      BY <1>9, <2>1 DEF Types
    <2>6. ReceivedWasShown(Q, E)
      <3> SUFFICES ASSUME NEW i \in 1..Len(P), Q[i].received > 0
                   PROVE  \E j \in 1..Len(E) : E[j].text = Q[i].text /\ Q[i].sentTime <= E[j].at
        BY <1>10 DEF ReceivedWasShown
      <3>1. CASE i = first
        BY <1>5, <1>10, <1>11, <2>1, <2>4, <3>1
      <3>2. CASE i # first
        <4>1. PICK j \in 1..Len(D) : D[j].text = P[i].text /\ P[i].sentTime <= D[j].at
          BY <1>1, <1>9, <3>2 DEF Good, ReceivedWasShown
        <4> QED
          BY <1>10, <2>1, <2>4, <4>1
      <3> QED
        BY <3>1, <3>2
    <2>7. ShownIsPast(E, sends, now)
      BY <1>1, <1>5, <1>7, <2>1, <2>3 DEF Good, ShownIsPast, Arrives
    <2>8. ASSUME NEW id \in 1..Len(sends), Multi(sends, id), Unique(sends, id), m.id = id
          PROVE  id = own /\ \A i \in 1..Len(D) : D[i].id # id
      <3>1. m.text = sends[id].text
        BY <1>7, <2>8 DEF Arrives
      <3>2. id = own
        BY <1>11, <2>8, <3>1 DEF Unique
      <3>3. now - sends[id].sentTime <= Window
        BY <1>11, <3>2
      <3>4. \A i \in 1..Len(P) : P[i].id = id => i = first
        BY <1>1, <1>3, <3>2 DEF Good, PendingOnce
      <3>5. \A i \in 1..Len(P) : ~(P[i].id = id /\ P[i].received > 0)
        BY <2>2, <3>4
      <3> QED
        BY <1>1, <2>8, <3>2, <3>3, <3>5 DEF Good, ShownIsCounted
    <2>9. ShownOnce(E, sends)
      <3> SUFFICES ASSUME NEW id \in 1..Len(sends), Multi(sends, id), Unique(sends, id),
                          NEW i \in 1..Len(E), NEW j \in 1..Len(E),
                          E[i].id = id, E[i].at - sends[id].sentTime <= Window,
                          E[j].id = id, E[j].at - sends[id].sentTime <= Window
                   PROVE  i = j
        BY DEF ShownOnce
      <3>1. CASE m.id = id
        BY <2>1, <2>3, <2>8, <3>1
      <3>2. CASE m.id # id
        <4>1. i \in 1..Len(D) /\ j \in 1..Len(D)
          BY <1>5, <2>1, <2>3, <3>2
        <4> QED
          BY <1>1, <2>1, <4>1 DEF Good, ShownOnce
      <3> QED
        BY <3>1, <3>2
    <2>10. ShownIsCounted(Q, E, sends, now)
      <3> SUFFICES ASSUME NEW id \in 1..Len(sends), Multi(sends, id), Unique(sends, id),
                          now - sends[id].sentTime <= Window,
                          NEW i \in 1..Len(E), E[i].id = id
                   PROVE  \E j \in 1..Len(Q) : Q[j].id = id /\ Q[j].received > 0
        BY DEF ShownIsCounted
      <3>1. CASE m.id = id
        BY <1>3, <1>10, <2>8, <3>1
      <3>2. CASE m.id # id
        <4>1. i \in 1..Len(D)
          BY <1>5, <2>1, <2>3, <3>2
        <4> QED
          BY <1>9, <2>1, <4>1 DEF ShownIsCounted
      <3> QED
        BY <3>1, <3>2
    <2>11. Explained(X, E)
      BY <1>1, <2>1, <2>4 DEF Good, Explained
    <2>12. Good(Q, E, X, sends, now)
      BY <1>9, <2>5, <2>6, <2>7, <2>9, <2>10, <2>11 DEF Good
    <2> QED
      BY <1>6, <1>12, <2>12 DEF GoodNow
  <1>13. CASE ~new
    <2>1. P[first].received > 0
      BY <1>8, <1>13
    <2> HIDE DEF new
    <2>2. ReceivedWasShown(Q, D)
      <3> SUFFICES ASSUME NEW i \in 1..Len(P), Q[i].received > 0
                   PROVE  \E j \in 1..Len(D) : D[j].text = Q[i].text /\ Q[i].sentTime <= D[j].at
        BY <1>10 DEF ReceivedWasShown
      <3>1. P[i].received > 0
        BY <1>9, <2>1
      <3> QED
        BY <1>1, <1>10, <3>1 DEF Good, ReceivedWasShown
    <2>3. PICK j \in 1..Len(D) : D[j].text = m.text /\ P[first].sentTime <= D[j].at
      BY <1>1, <1>3, <1>11, <2>1 DEF Good, ReceivedWasShown
    <2>4. D[j].at \in Nat /\ D[j].at <= now
      BY <1>1, <1>7 DEF Good, ShownIsPast, Message
    <2>5. D[j].at <= m.at /\ m.at - D[j].at <= Window
      <3> DEFINE t == P[first].sentTime
                 d == D[j].at
      <3>1. m.at = now /\ t \in Nat /\ now - t <= Window
        BY <1>4, <1>8, <1>11
      <3>2. d \in Nat /\ d <= now /\ t <= d
        BY <2>3, <2>4
      <3> HIDE DEF t, d
      <3>3. d <= now /\ now - d <= Window
        BY <1>7, <3>1, <3>2, WindowIs
      <3> QED
        BY <3>1, <3>3 DEF d
    <2>6. Explained(X \cup {m}, D)
      BY <1>1, <2>3, <2>5 DEF Good, Explained
    <2>7. Good(Q, D, X \cup {m}, sends, now)
      BY <1>1, <1>9, <2>2, <2>6 DEF Good
    <2> QED
      BY <1>6, <1>13, <2>7 DEF GoodNow
  <1> QED
    BY <1>12, <1>13

LEMMA HandleGood ==
    ASSUME NEW st, NEW m, GoodNow(st), Arrives(m)
    PROVE  GoodNow(Handle(st, m))
  BY UnknownShown, EchoHandled

\* E is D and copies of one message.
Extends(E, D, other) ==
    /\ E \in Seq(Message) /\ Len(D) <= Len(E)
    /\ \A i \in 1..Len(D) : i \in 1..Len(E) /\ E[i] = D[i]
    /\ \A i \in 1..Len(E) : i > Len(D) => E[i].other = other

Unknown(P, m) == \A i \in 1..Len(P) : ~Matches(P[i], m)

\* Who has no text of a pending message is shown.
LEMMA HandleShows ==
    ASSUME NEW st, NEW m, GoodNow(st), Arrives(m)
    PROVE  /\ Extends(Handle(st, m).shown, st.shown, m.other)
           /\ Unknown(st.pending, m) => /\ Handle(st, m).pending = st.pending
                                        /\ Len(Handle(st, m).shown) = Len(st.shown) + 1
  <1> DEFINE D == st.shown
             hit == {i \in 1..Len(st.pending) : Matches(st.pending[i], m)}
             echo == hit # {}
             x == [m EXCEPT !.both = echo]
             E == Append(D, x)
  <1>1. D \in Seq(Message) /\ Len(D) \in Nat
    BY SeqsAre DEF GoodNow, Good, Types
  <1>2. Handle(st, m).shown \in {D, E}
    BY DEF Handle
  <1>3. ~echo => Handle(st, m).pending = st.pending /\ Handle(st, m).shown = E
    BY DEF Handle
  <1>4. Unknown(st.pending, m) => ~echo
    BY DEF Unknown
  <1>5. x \in Message /\ x.other = m.other
    <2>1. echo \in BOOLEAN
      OBVIOUS
    <2> HIDE DEF echo
    <2> QED
      BY <2>1 DEF Arrives, Message
  <1> HIDE DEF D, x, echo
  <1>6. /\ E \in Seq(Message) /\ Len(E) = Len(D) + 1
        /\ \A i \in 1..Len(D) : E[i] = D[i]
        /\ E[Len(D) + 1] = x
    BY <1>1, <1>5, AppendProperties
  <1> HIDE DEF E
  <1>7. Extends(E, D, m.other) /\ Extends(D, D, m.other)
    <2>1. \A i \in 1..Len(E) : i > Len(D) => i = Len(D) + 1
      BY <1>1, <1>6
    <2> QED
      BY <1>1, <1>5, <1>6, <2>1 DEF Extends
  <1> QED
    BY <1>2, <1>3, <1>4, <1>6, <1>7 DEF D

Before == [pending |-> pending, shown |-> shown, suppressed |-> suppressed]

\* The recursive function of Handled exists: it is built round by round.
LEMMA HandledRound ==
    ASSUME NEW m, NEW rounds \in Nat
    PROVE  \E after :
               /\ after[0] = Before
               /\ \A k \in 1..rounds : after[k] = Handle(after[k - 1], m)
               /\ Handled(m, rounds) = after[rounds]
  <1> DEFINE st == Before
             Value(f, k) == IF k = 0 THEN st ELSE Handle(f[k - 1], m)
             Is(f, n) == f = [k \in 0..n |-> Value(f, k)]
             T == {n \in Nat : \E f : Is(f, n)}
  <1>1. 0 \in T
    <2>1. Is([k \in 0..0 |-> st], 0)
      OBVIOUS
    <2> QED
      BY <2>1
  <1>2. ASSUME NEW n \in Nat, n \in T PROVE n + 1 \in T
    <2>1. PICK f : Is(f, n)
      BY <1>2
    <2> DEFINE g == [k \in 0..(n + 1) |-> IF k = n + 1 THEN Value(f, n + 1) ELSE f[k]]
    <2>2. \A k \in 0..n : f[k] = Value(f, k)
      <3> HIDE DEF Value
      <3> QED
        BY <2>1
    <2>3. \A k \in 0..(n + 1) : Value(g, k) = Value(f, k)
      <3> TAKE k \in 0..(n + 1)
      <3>1. CASE k = 0
        BY <3>1
      <3>2. CASE k # 0
        <4>1. k - 1 \in 0..(n + 1) /\ k - 1 # n + 1
          BY <3>2
        <4>2. g[k - 1] = f[k - 1]
          BY <4>1
        <4> HIDE DEF g
        <4> QED
          BY <3>2, <4>2
      <3> QED
        BY <3>1, <3>2
    <2>4. \A k \in 0..(n + 1) : g[k] = Value(f, k)
      <3> HIDE DEF Value
      <3> TAKE k \in 0..(n + 1)
      <3>1. k = n + 1 \/ k \in 0..n
        OBVIOUS
      <3> QED
        BY <2>2, <3>1
    <2>5. \A k \in 0..(n + 1) : g[k] = Value(g, k)
      <3> HIDE DEF Value, g
      <3> QED
        BY <2>3, <2>4
    <2>6. g = [k \in 0..(n + 1) |-> g[k]]
      OBVIOUS
    <2>7. Is(g, n + 1)
      <3> HIDE DEF Value, g
      <3> QED
        BY <2>5, <2>6
    <2> HIDE DEF Is
    <2> QED
      BY <2>7
  <1>3. Nat \subseteq T
    <2> HIDE DEF T
    <2> QED
      BY <1>1, <1>2, Induction
  <1> DEFINE after == CHOOSE f : Is(f, rounds)
  <1>4. Is(after, rounds)
    <2>1. \E f : Is(f, rounds)
      <3> HIDE DEF Is
      <3> QED
        BY <1>3
    <2> QED
      BY <2>1
  <1>5. Handled(m, rounds) = after[rounds]
    BY DEF Handled, Before
  <1>6. \A k \in 0..rounds : after[k] = Value(after, k)
    <2> HIDE DEF after, Value
    <2> QED
      BY <1>4
  <1>7. after[0] = st
    <2>1. 0 \in 0..rounds
      OBVIOUS
    <2> HIDE DEF after
    <2> QED
      BY <1>6, <2>1
  <1>8. ASSUME NEW k \in 1..rounds PROVE after[k] = Handle(after[k - 1], m)
    <2>1. k \in 0..rounds /\ k # 0
      OBVIOUS
    <2> HIDE DEF after
    <2> QED
      BY <1>6, <2>1
  <1> HIDE DEF after
  <1> QED
    BY <1>5, <1>7, <1>8

\* The handler runs for each connection, and keeps what it keeps each time.
LEMMA DeliverGood ==
    ASSUME NEW p \in Platform, NEW id, NEW other \in Nat, NEW text, NEW stamp \in Nat,
           connections[p] \in Nat, now \in Nat,
           Good(pending, shown, suppressed, sends, now),
           id \in Nat, id <= Len(sends), text \in Text, id # 0 => text = sends[id].text,
           Deliver(p, id, other, text, stamp), sends' = sends, now' = now
    PROVE  /\ Good(pending, shown, suppressed, sends, now)'
           /\ Extends(shown', shown, other)
           /\ (\A i \in 1..Len(pending) :
                  ~(now - pending[i].sentTime <= Window /\ pending[i].text = text)) =>
                  Len(shown') = Len(shown) + connections[p]
  <1> DEFINE m == [id |-> id, other |-> other, text |-> text, platform |-> p,
                   stamp |-> stamp, at |-> now, both |-> FALSE]
             rounds == connections[p]
  <1>1. Arrives(m) /\ m.other = other /\ m.text = text
    BY DEF Arrives, Message
  <1>2. GoodNow(Before)
    BY DEF GoodNow, Before
  <1>3. rounds \in Nat
    OBVIOUS
  <1>4. \E after :
            /\ after[0] = Before
            /\ \A k \in 1..rounds : after[k] = Handle(after[k - 1], m)
            /\ Handled(m, rounds) = after[rounds]
    <2> HIDE DEF m, rounds
    <2> QED
      BY <1>3, HandledRound
  <1> HIDE DEF m
  <1>5. PICK after :
            /\ after[0] = Before
            /\ \A k \in 1..rounds : after[k] = Handle(after[k - 1], m)
            /\ Handled(m, rounds) = after[rounds]
    BY <1>4
  <1>6. /\ pending' = after[rounds].pending
        /\ shown' = after[rounds].shown
        /\ suppressed' = after[rounds].suppressed
    BY <1>5 DEF Deliver, m
  <1> HIDE DEF rounds
  <1>7. shown \in Seq(Message) /\ Len(shown) \in Nat
    BY SeqsAre DEF Good, Types
  <1> DEFINE Kept(k) ==
                 /\ GoodNow(after[k])
                 /\ Extends(after[k].shown, shown, other)
                 /\ Unknown(pending, m) => /\ after[k].pending = pending
                                           /\ Len(after[k].shown) = Len(shown) + k
             T == {k \in Nat : k <= rounds => Kept(k)}
  <1>8. 0 \in T
    BY <1>2, <1>5, <1>7 DEF Before, Extends
  <1>9. ASSUME NEW k \in Nat, k \in T PROVE k + 1 \in T
    <2> SUFFICES ASSUME k + 1 <= rounds PROVE Kept(k + 1)
      OBVIOUS
    <2>1. k <= rounds /\ k + 1 \in 1..rounds /\ (k + 1) - 1 = k
      BY <1>3
    <2>2. after[k + 1] = Handle(after[k], m)
      BY <1>5, <2>1
    <2>3. Kept(k)
      BY <1>9, <2>1
    <2>4. GoodNow(after[k + 1])
      BY <1>1, <2>2, <2>3, HandleGood
    <2>5. /\ Extends(after[k + 1].shown, after[k].shown, other)
          /\ Unknown(after[k].pending, m) =>
                 /\ after[k + 1].pending = after[k].pending
                 /\ Len(after[k + 1].shown) = Len(after[k].shown) + 1
      BY <1>1, <2>2, <2>3, HandleShows
    <2>6. Extends(after[k + 1].shown, shown, other)
      <3>1. Len(after[k].shown) \in Nat /\ Len(after[k + 1].shown) \in Nat
        BY <2>3, <2>5, LenProperties DEF Extends
      <3>2. ASSUME NEW i \in 1..Len(after[k + 1].shown), i > Len(shown)
            PROVE  after[k + 1].shown[i].other = other
        <4>1. CASE i > Len(after[k].shown)
          BY <2>5, <3>2, <4>1 DEF Extends
        <4>2. CASE ~(i > Len(after[k].shown))
          <5>1. i \in 1..Len(after[k].shown)
            BY <3>1, <4>2
          <5> QED
            BY <2>3, <2>5, <3>2, <5>1 DEF Extends
        <4> QED
          BY <4>1, <4>2
      <3> QED
        BY <1>7, <2>3, <2>5, <3>1, <3>2 DEF Extends
    <2>7. Unknown(pending, m) => /\ after[k + 1].pending = pending
                                /\ Len(after[k + 1].shown) = Len(shown) + (k + 1)
      BY <1>7, <2>3, <2>5
    <2> QED
      BY <2>4, <2>6, <2>7
  <1>10. rounds \in T
    <2>1. Nat \subseteq T
      <3> HIDE DEF T
      <3> QED
        BY <1>8, <1>9, Induction
    <2> QED
      BY <1>3, <2>1
  <1>11. Kept(rounds)
    BY <1>3, <1>10
  <1>12. Good(after[rounds].pending, after[rounds].shown, after[rounds].suppressed, sends, now)
    BY <1>11 DEF GoodNow
  <1>13. (\A i \in 1..Len(pending) :
             ~(now - pending[i].sentTime <= Window /\ pending[i].text = text)) =>
             Unknown(pending, m)
    BY <1>1 DEF Unknown, Matches
  <1> QED
    BY <1>6, <1>11, <1>12, <1>13 DEF rounds
-----------------------------------------------------------------------------
(* sendMessage(). *)

IsRecent(e) == now - e.sentTime <= Window

\* The recursive function of Recent exists: it is built round by round.
LEMMA RecentRound ==
    ASSUME NEW queue, Len(queue) \in Nat
    PROVE  \E recent :
               /\ recent[0] = << >>
               /\ \A k \in 1..Len(queue) :
                      recent[k] = IF IsRecent(queue[k]) THEN Append(recent[k - 1], queue[k])
                                  ELSE recent[k - 1]
               /\ Recent(queue) = recent[Len(queue)]
  <1> DEFINE Value(f, k) == IF k = 0 THEN << >>
                            ELSE IF now - queue[k].sentTime <= Window
                            THEN Append(f[k - 1], queue[k])
                            ELSE f[k - 1]
             Is(f, n) == f = [k \in 0..n |-> Value(f, k)]
             T == {n \in Nat : \E f : Is(f, n)}
  <1>1. 0 \in T
    <2>1. Is([k \in 0..0 |-> << >>], 0)
      OBVIOUS
    <2> QED
      BY <2>1
  <1>2. ASSUME NEW n \in Nat, n \in T PROVE n + 1 \in T
    <2>1. PICK f : Is(f, n)
      BY <1>2
    <2> DEFINE g == [k \in 0..(n + 1) |-> IF k = n + 1 THEN Value(f, n + 1) ELSE f[k]]
    <2>2. \A k \in 0..n : f[k] = Value(f, k)
      <3> HIDE DEF Value
      <3> QED
        BY <2>1
    <2>3. \A k \in 0..(n + 1) : Value(g, k) = Value(f, k)
      <3> TAKE k \in 0..(n + 1)
      <3>1. CASE k = 0
        BY <3>1
      <3>2. CASE k # 0
        <4>1. k - 1 \in 0..(n + 1) /\ k - 1 # n + 1
          BY <3>2
        <4>2. g[k - 1] = f[k - 1]
          BY <4>1
        <4> HIDE DEF g
        <4> QED
          BY <3>2, <4>2
      <3> QED
        BY <3>1, <3>2
    <2>4. \A k \in 0..(n + 1) : g[k] = Value(f, k)
      <3> HIDE DEF Value
      <3> TAKE k \in 0..(n + 1)
      <3>1. k = n + 1 \/ k \in 0..n
        OBVIOUS
      <3> QED
        BY <2>2, <3>1
    <2>5. \A k \in 0..(n + 1) : g[k] = Value(g, k)
      <3> HIDE DEF Value, g
      <3> QED
        BY <2>3, <2>4
    <2>6. g = [k \in 0..(n + 1) |-> g[k]]
      OBVIOUS
    <2>7. Is(g, n + 1)
      <3> HIDE DEF Value, g
      <3> QED
        BY <2>5, <2>6
    <2> HIDE DEF Is
    <2> QED
      BY <2>7
  <1>3. Nat \subseteq T
    <2> HIDE DEF T
    <2> QED
      BY <1>1, <1>2, Induction
  <1> DEFINE recent == CHOOSE f : Is(f, Len(queue))
  <1>4. Is(recent, Len(queue))
    <2>1. \E f : Is(f, Len(queue))
      <3> HIDE DEF Is
      <3> QED
        BY <1>3
    <2> QED
      BY <2>1
  <1>5. Recent(queue) = recent[Len(queue)]
    BY DEF Recent
  <1>6. \A k \in 0..Len(queue) : recent[k] = Value(recent, k)
    <2> HIDE DEF recent, Value
    <2> QED
      BY <1>4
  <1>7. recent[0] = << >>
    <2>1. 0 \in 0..Len(queue)
      OBVIOUS
    <2> HIDE DEF recent
    <2> QED
      BY <1>6, <2>1
  <1>8. ASSUME NEW k \in 1..Len(queue)
        PROVE  recent[k] = IF IsRecent(queue[k]) THEN Append(recent[k - 1], queue[k])
                           ELSE recent[k - 1]
    <2>1. k \in 0..Len(queue) /\ k # 0
      OBVIOUS
    <2> HIDE DEF recent
    <2> QED
      BY <1>6, <2>1 DEF IsRecent
  <1> HIDE DEF recent
  <1> QED
    BY <1>5, <1>7, <1>8

\* R holds what is recent of the first k entries, each once.
Keeps(queue, R, k) ==
    /\ R \in Seq(Entry)
    /\ PendingOnce(R)
    /\ \A i \in 1..Len(R) : \E j \in 1..k : R[i] = queue[j]
    /\ \A j \in 1..k : IsRecent(queue[j]) => \E i \in 1..Len(R) : R[i] = queue[j]

\* The pruning keeps what is recent, and nothing else is added.
LEMMA RecentKeeps ==
    ASSUME NEW queue \in Seq(Entry), PendingOnce(queue)
    PROVE  Keeps(queue, Recent(queue), Len(queue))
  <1> DEFINE n == Len(queue)
  <1>1. n \in Nat /\ \A k \in 1..n : queue[k] \in Entry
    BY LenProperties, ElementOfSeq
  <1>2. PICK recent :
            /\ recent[0] = << >>
            /\ \A k \in 1..n :
                   recent[k] = IF IsRecent(queue[k]) THEN Append(recent[k - 1], queue[k])
                               ELSE recent[k - 1]
            /\ Recent(queue) = recent[n]
    BY <1>1, RecentRound
  <1>3. \A i, j \in 1..n : queue[i].id = queue[j].id => i = j
    BY DEF PendingOnce
  <1> HIDE DEF n
  <1> DEFINE T == {k \in Nat : k <= n => Keeps(queue, recent[k], k)}
  <1>4. 0 \in T
    <2>1. << >> \in Seq(Entry) /\ Len(<< >>) = 0
      BY EmptySeq
    <2>2. Keeps(queue, << >>, 0)
      BY <2>1 DEF Keeps, PendingOnce
    <2> QED
      BY <1>2, <2>2
  <1>5. ASSUME NEW k \in Nat, k \in T PROVE k + 1 \in T
    <2> SUFFICES ASSUME k + 1 <= n PROVE Keeps(queue, recent[k + 1], k + 1)
      OBVIOUS
    <2> DEFINE R == recent[k]
               e == queue[k + 1]
    <2>1. k <= n /\ k + 1 \in 1..n /\ (k + 1) - 1 = k
      BY <1>1
    <2>2. recent[k + 1] = IF IsRecent(e) THEN Append(R, e) ELSE R
      BY <1>2, <2>1
    <2>3. Keeps(queue, R, k)
      BY <1>5, <2>1
    <2>4. e \in Entry
      BY <1>1, <2>1
    <2>5. /\ R \in Seq(Entry) /\ Len(R) \in Nat
          /\ \A i \in 1..Len(R) : \E j \in 1..k : R[i] = queue[j]
          /\ \A j \in 1..k : IsRecent(queue[j]) => \E i \in 1..Len(R) : R[i] = queue[j]
          /\ \A i, j \in 1..Len(R) : R[i].id = R[j].id => i = j
      BY <2>3, LenProperties DEF Keeps, PendingOnce
    <2>6. \A j \in 1..(k + 1) : j \in 1..k \/ j = k + 1
      BY <1>5
    <2>7. \A j \in 1..k : j \in 1..(k + 1)
      BY <1>5
    <2>8. CASE ~IsRecent(e)
      <3> HIDE DEF R
      <3>1. \A j \in 1..(k + 1) : IsRecent(queue[j]) => \E i \in 1..Len(R) : R[i] = queue[j]
        BY <2>5, <2>6, <2>8
      <3>2. Keeps(queue, R, k + 1)
        BY <2>5, <2>7, <3>1 DEF Keeps, PendingOnce
      <3> QED
        BY <2>2, <2>8, <3>2
    <2>9. CASE IsRecent(e)
      <3> DEFINE Q == Append(R, e)
      <3> HIDE DEF R, e
      <3>1. /\ Q \in Seq(Entry) /\ Len(Q) = Len(R) + 1
            /\ \A i \in 1..Len(R) : Q[i] = R[i]
            /\ Q[Len(R) + 1] = e
        BY <2>4, <2>5, AppendProperties
      <3> HIDE DEF Q
      <3>2. \A i \in 1..Len(Q) : i \in 1..Len(R) \/ i = Len(R) + 1
        BY <2>5, <3>1
      <3>3. /\ \A i \in 1..Len(R) : i \in 1..Len(Q)
            /\ Len(R) + 1 \in 1..Len(Q)
        BY <2>5, <3>1
      <3>4. k + 1 \in 1..(k + 1) /\ e = queue[k + 1]
        BY <1>5 DEF e
      <3>5. \A i \in 1..Len(Q) : \E j \in 1..(k + 1) : Q[i] = queue[j]
        BY <2>5, <2>7, <3>1, <3>2, <3>4
      <3>6. \A j \in 1..(k + 1) : IsRecent(queue[j]) => \E i \in 1..Len(Q) : Q[i] = queue[j]
        BY <2>5, <2>6, <3>1, <3>3, <3>4
      <3>7. \A i \in 1..Len(R) : R[i].id # e.id
        <4> SUFFICES ASSUME NEW i \in 1..Len(R), R[i].id = e.id PROVE FALSE
          OBVIOUS
        <4>1. PICK j \in 1..k : R[i] = queue[j]
          BY <2>5
        <4>2. j \in 1..n /\ j # k + 1
          BY <1>1, <2>1
        <4> QED
          BY <1>3, <2>1, <3>4, <4>1, <4>2
      <3>8. PendingOnce(Q)
        BY <2>5, <3>1, <3>2, <3>7 DEF PendingOnce
      <3>9. Keeps(queue, Q, k + 1)
        BY <3>1, <3>5, <3>6, <3>8 DEF Keeps
      <3>10. recent[k + 1] = Q
        BY <2>2, <2>9 DEF Q, R, e
      <3> QED
        BY <3>9, <3>10
    <2> QED
      BY <2>8, <2>9
  <1>6. n \in T
    <2>1. Nat \subseteq T
      <3> HIDE DEF T
      <3> QED
        BY <1>4, <1>5, Induction
    <2> QED
      BY <1>1, <2>1
  <1> QED
    BY <1>1, <1>2, <1>6 DEF n

\* A message enters the queue as sendMessage() puts it there.
LEMMA TrackKeeps ==
    ASSUME NEW text \in Text, NEW id \in Nat, NEW P \in Seq(Entry), now \in Nat,
           PendingOnce(P), \A i \in 1..Len(P) : P[i].id # id
    PROVE  LET e == [text |-> text, sentTime |-> now, received |-> 0, id |-> id]
               Q == Track(P, text, id)
           IN  /\ Q \in Seq(Entry) /\ PendingOnce(Q)
               /\ \A i \in 1..Len(Q) : Q[i] = e \/ \E j \in 1..Len(P) : Q[i] = P[j]
               /\ \A j \in 1..Len(P) : IsRecent(P[j]) => \E i \in 1..Len(Q) : Q[i] = P[j]
               /\ \E i \in 1..Len(Q) : Q[i] = e
  <1> DEFINE e == [text |-> text, sentTime |-> now, received |-> 0, id |-> id]
             A == Append(P, e)
             Q == Track(P, text, id)
  <1>1. e \in Entry /\ e.id = id /\ IsRecent(e)
    BY WindowIs DEF Entry, IsRecent
  <1>2. Q = Recent(A)
    BY DEF Track
  <1> HIDE DEF e, Q
  <1>3. /\ A \in Seq(Entry) /\ Len(A) = Len(P) + 1 /\ Len(P) \in Nat
        /\ \A i \in 1..Len(P) : A[i] = P[i]
        /\ A[Len(P) + 1] = e
    BY <1>1, AppendProperties, LenProperties
  <1> HIDE DEF A
  <1>4. /\ \A i \in 1..Len(A) : i \in 1..Len(P) \/ i = Len(P) + 1
        /\ \A i \in 1..Len(P) : i \in 1..Len(A)
        /\ Len(P) + 1 \in 1..Len(A)
    BY <1>3
  <1>5. PendingOnce(A)
    BY <1>1, <1>3, <1>4 DEF PendingOnce
  <1>6. Keeps(A, Q, Len(A))
    BY <1>2, <1>3, <1>5, RecentKeeps
  <1>7. Q \in Seq(Entry) /\ PendingOnce(Q)
    BY <1>6 DEF Keeps
  <1>8. \A i \in 1..Len(Q) : Q[i] = e \/ \E j \in 1..Len(P) : Q[i] = P[j]
    BY <1>3, <1>4, <1>6 DEF Keeps
  <1>9. \A j \in 1..Len(P) : IsRecent(P[j]) => \E i \in 1..Len(Q) : Q[i] = P[j]
    BY <1>3, <1>4, <1>6 DEF Keeps
  <1>10. \E i \in 1..Len(Q) : Q[i] = e
    BY <1>1, <1>3, <1>4, <1>6 DEF Keeps
  <1> QED
    BY <1>7, <1>8, <1>9, <1>10 DEF e, Q

\* What was sent before keeps its place in the history.
LEMMA SentStays ==
    ASSUME NEW S \in Seq(Record), NEW r \in Record
    PROVE  LET R == Append(S, r) IN
           /\ R \in Seq(Record) /\ Len(R) = Len(S) + 1 /\ Len(S) \in Nat
           /\ R[Len(S) + 1] = r
           /\ \A id \in 1..Len(S) :
                  /\ id \in 1..Len(R) /\ R[id] = S[id]
                  /\ Multi(R, id) <=> Multi(S, id)
                  /\ Unique(R, id) => Unique(S, id)
           /\ Len(S) + 1 \in 1..Len(R)
           /\ Multi(R, Len(S) + 1) <=> Cardinality(r.sentTo) > 1
           /\ \A id \in 1..Len(R) : id \in 1..Len(S) \/ id = Len(S) + 1
  <1> DEFINE R == Append(S, r)
  <1>1. /\ R \in Seq(Record) /\ Len(R) = Len(S) + 1 /\ Len(S) \in Nat
        /\ \A id \in 1..Len(S) : R[id] = S[id]
        /\ R[Len(S) + 1] = r
    BY AppendProperties, LenProperties
  <1> HIDE DEF R
  <1>2. /\ \A id \in 1..Len(R) : id \in 1..Len(S) \/ id = Len(S) + 1
        /\ \A id \in 1..Len(S) : id \in 1..Len(R)
        /\ Len(S) + 1 \in 1..Len(R)
    BY <1>1
  <1>3. \A id \in 1..Len(S) :
            (Multi(R, id) <=> Multi(S, id)) /\ (Unique(R, id) => Unique(S, id))
    BY <1>1, <1>2 DEF Multi, Unique
  <1>4. Multi(R, Len(S) + 1) <=> Cardinality(r.sentTo) > 1
    BY <1>1 DEF Multi
  <1> QED
    BY <1>1, <1>2, <1>3, <1>4 DEF R

\* A message that goes to several platforms waits for its echoes, one that goes
\* to a single platform leaves the queue alone.
LEMMA SendGood ==
    ASSUME NEW r \in Record, r.sentTime = now,
           Good(pending, shown, suppressed, sends, now)
    PROVE  LET id == Len(sends) + 1
               Q == IF Cardinality(r.sentTo) > 1 THEN Track(pending, r.text, id) ELSE pending
           IN  Good(Q, shown, suppressed, Append(sends, r), now)
  <1> DEFINE new == Len(sends) + 1
             S == Append(sends, r)
             many == Cardinality(r.sentTo) > 1
             e == [text |-> r.text, sentTime |-> now, received |-> 0, id |-> new]
             Q == IF many THEN Track(pending, r.text, new) ELSE pending
  <1>1. Types(pending, shown, sends, now)
    BY DEF Good
  <1>2. /\ Len(pending) \in Nat /\ Len(shown) \in Nat /\ Len(sends) \in Nat /\ now \in Nat
        /\ \A i \in 1..Len(pending) : pending[i] \in Entry
        /\ \A i \in 1..Len(shown) : shown[i] \in Message
        /\ \A i \in 1..Len(sends) : sends[i] \in Record
    BY <1>1, SeqsAre
  <1>3. pending \in Seq(Entry) /\ shown \in Seq(Message) /\ sends \in Seq(Record)
    BY <1>1 DEF Types
  <1>4. /\ S \in Seq(Record) /\ Len(S) = Len(sends) + 1
        /\ S[new] = r
        /\ \A id \in 1..Len(sends) :
               /\ id \in 1..Len(S) /\ S[id] = sends[id]
               /\ Multi(S, id) <=> Multi(sends, id)
               /\ Unique(S, id) => Unique(sends, id)
        /\ new \in 1..Len(S)
        /\ Multi(S, new) <=> many
        /\ \A id \in 1..Len(S) : id \in 1..Len(sends) \/ id = new
    BY <1>3, SentStays
  <1>5. PendingOnce(pending) /\ \A i \in 1..Len(pending) : pending[i].id # new
    BY <1>2 DEF Good, PendingIsSent
  <1>6. r.text \in Text /\ new \in Nat
    BY <1>2 DEF Record
  <1>7. /\ e.id = new /\ e.text = r.text /\ e.sentTime = now
    OBVIOUS
  <1>8. /\ Q \in Seq(Entry) /\ PendingOnce(Q)
        /\ \A i \in 1..Len(Q) : (many /\ Q[i] = e) \/ \E j \in 1..Len(pending) : Q[i] = pending[j]
        /\ \A j \in 1..Len(pending) :
               IsRecent(pending[j]) => \E i \in 1..Len(Q) : Q[i] = pending[j]
        /\ many => \E i \in 1..Len(Q) : Q[i] = e
    <2>1. CASE many
      <3>1. Q = Track(pending, r.text, new)
        BY <2>1
      <3> HIDE DEF Q, many, new
      <3>2. /\ Q \in Seq(Entry) /\ PendingOnce(Q)
            /\ \A i \in 1..Len(Q) : Q[i] = e \/ \E j \in 1..Len(pending) : Q[i] = pending[j]
            /\ \A j \in 1..Len(pending) :
                   IsRecent(pending[j]) => \E i \in 1..Len(Q) : Q[i] = pending[j]
            /\ \E i \in 1..Len(Q) : Q[i] = e
        <4> DEFINE text == r.text
                   T == Track(pending, text, new)
        <4>1. text \in Text /\ Q = T
          BY <1>6, <3>1
        <4> HIDE DEF S, text
        <4>2. /\ T \in Seq(Entry) /\ PendingOnce(T)
              /\ \A i \in 1..Len(T) :
                     \/ T[i] = [text |-> text, sentTime |-> now, received |-> 0, id |-> new]
                     \/ \E j \in 1..Len(pending) : T[i] = pending[j]
              /\ \A j \in 1..Len(pending) :
                     IsRecent(pending[j]) => \E i \in 1..Len(T) : T[i] = pending[j]
              /\ \E i \in 1..Len(T) :
                     T[i] = [text |-> text, sentTime |-> now, received |-> 0, id |-> new]
          BY <1>2, <1>3, <1>5, <1>6, <4>1, TrackKeeps
        <4> QED
          BY <4>1, <4>2 DEF text
      <3> HIDE DEF e
      <3> QED
        BY <2>1, <3>2
    <2>2. CASE ~many
      <3>1. Q = pending
        BY <2>2
      <3> HIDE DEF Q, many
      <3> QED
        BY <1>3, <1>5, <2>2, <3>1
    <2> QED
      BY <2>1, <2>2
  <1> HIDE DEF S, Q, many, e, new
  <1>9. Types(Q, shown, S, now)
    BY <1>1, <1>4, <1>8 DEF Types
  <1>10. PendingIsSent(Q, S, now)
    <2> SUFFICES ASSUME NEW i \in 1..Len(Q)
                 PROVE  /\ Q[i].id \in 1..Len(S)
                        /\ Multi(S, Q[i].id)
                        /\ Q[i].text = S[Q[i].id].text
                        /\ Q[i].sentTime = S[Q[i].id].sentTime
                        /\ Q[i].sentTime <= now
      BY DEF PendingIsSent
    <2>1. CASE many /\ Q[i] = e
      BY <1>2, <1>4, <1>7, <2>1
    <2>2. CASE \E j \in 1..Len(pending) : Q[i] = pending[j]
      BY <1>4, <2>2 DEF Good, PendingIsSent
    <2> QED
      BY <1>8, <2>1, <2>2
  <1>11. Tracked(Q, S, now)
    <2> SUFFICES ASSUME NEW id \in 1..Len(S), Multi(S, id), now - S[id].sentTime <= Window
                 PROVE  \E i \in 1..Len(Q) : Q[i].id = id
      BY DEF Tracked
    <2>1. CASE id = new
      BY <1>4, <1>7, <1>8, <2>1
    <2>2. CASE id \in 1..Len(sends)
      <3>1. PICK j \in 1..Len(pending) : pending[j].id = id
        BY <1>4, <2>2 DEF Good, Tracked
      <3>2. IsRecent(pending[j])
        BY <1>4, <2>2, <3>1 DEF Good, PendingIsSent, IsRecent
      <3> QED
        BY <1>8, <3>1, <3>2
    <2> QED
      BY <1>4, <2>1, <2>2
  <1>12. ReceivedWasShown(Q, shown)
    <2> SUFFICES ASSUME NEW i \in 1..Len(Q), Q[i].received > 0
                 PROVE  \E j \in 1..Len(shown) :
                            shown[j].text = Q[i].text /\ Q[i].sentTime <= shown[j].at
      BY DEF ReceivedWasShown
    <2>1. e.received = 0
      BY DEF e
    <2>2. PICK j \in 1..Len(pending) : Q[i] = pending[j]
      BY <1>8, <2>1
    <2> QED
      BY <2>2 DEF Good, ReceivedWasShown
  <1>13. ShownIsPast(shown, S, now)
    BY <1>2, <1>4 DEF Good, ShownIsPast, Message
  <1>14. \A i \in 1..Len(shown) : shown[i].id # new
    BY <1>2 DEF Good, ShownIsPast, Message, new
  <1>15. ShownOnce(shown, S)
    BY <1>4, <1>14 DEF Good, ShownOnce
  <1>16. ShownIsCounted(Q, shown, S, now)
    <2> SUFFICES ASSUME NEW id \in 1..Len(S), Multi(S, id), Unique(S, id),
                        now - S[id].sentTime <= Window,
                        \E i \in 1..Len(shown) : shown[i].id = id
                 PROVE  \E i \in 1..Len(Q) : Q[i].id = id /\ Q[i].received > 0
      BY DEF ShownIsCounted
    <2>1. id \in 1..Len(sends)
      BY <1>4, <1>14
    <2>2. PICK j \in 1..Len(pending) : pending[j].id = id /\ pending[j].received > 0
      BY <1>4, <2>1 DEF Good, ShownIsCounted
    <2>3. IsRecent(pending[j])
      BY <1>4, <2>1, <2>2 DEF Good, PendingIsSent, IsRecent
    <2> QED
      BY <1>8, <2>2, <2>3
  <1>17. Explained(suppressed, shown)
    BY <1>4 DEF Good, Explained
  <1>18. Good(Q, shown, suppressed, S, now)
    BY <1>8, <1>9, <1>10, <1>11, <1>12, <1>13, <1>15, <1>16, <1>17 DEF Good
  <1> QED
    BY <1>18 DEF Q, S, many, new

\* Time only ends the window.
LEMMA TickGood ==
    ASSUME Good(pending, shown, suppressed, sends, now)
    PROVE  Good(pending, shown, suppressed, sends, now + 1)
  <1>1. Types(pending, shown, sends, now)
    BY DEF Good
  <1>2. /\ Len(pending) \in Nat /\ Len(shown) \in Nat /\ Len(sends) \in Nat /\ now \in Nat
        /\ \A i \in 1..Len(pending) : pending[i] \in Entry
        /\ \A i \in 1..Len(shown) : shown[i] \in Message
        /\ \A i \in 1..Len(sends) : sends[i] \in Record
    BY <1>1, SeqsAre
  <1>3. Types(pending, shown, sends, now + 1)
    BY <1>1 DEF Types
  <1>4. PendingIsSent(pending, sends, now + 1)
    BY <1>2 DEF Good, PendingIsSent, Entry
  <1>5. \A id \in 1..Len(sends) :
            (now + 1) - sends[id].sentTime <= Window => now - sends[id].sentTime <= Window
    BY <1>2, WindowIs DEF Record
  <1>6. Tracked(pending, sends, now + 1)
    <2> SUFFICES ASSUME NEW id \in 1..Len(sends), Multi(sends, id),
                        (now + 1) - sends[id].sentTime <= Window
                 PROVE  \E i \in 1..Len(pending) : pending[i].id = id
      BY DEF Tracked
    <2> QED
      BY <1>5 DEF Good, Tracked
  <1>7. ShownIsPast(shown, sends, now + 1)
    BY <1>2 DEF Good, ShownIsPast, Message
  <1>8. ShownIsCounted(pending, shown, sends, now + 1)
    <2> SUFFICES ASSUME NEW id \in 1..Len(sends), Multi(sends, id), Unique(sends, id),
                        (now + 1) - sends[id].sentTime <= Window,
                        \E i \in 1..Len(shown) : shown[i].id = id
                 PROVE  \E i \in 1..Len(pending) : pending[i].id = id /\ pending[i].received > 0
      BY DEF ShownIsCounted
    <2> QED
      BY <1>5 DEF Good, ShownIsCounted
  <1> QED
    BY <1>3, <1>4, <1>6, <1>7, <1>8 DEF Good
-----------------------------------------------------------------------------
(* The inductive invariant. *)

\* Every echo still to come is of something the user sent.
EchoesAreSent ==
    \A e \in echoes :
        /\ e.id \in 1..Len(sends) /\ e.platform \in Platform /\ e.text \in Text
        /\ e.text = sends[e.id].text

\* A source is connected once, and once more if it was removed and added again.
ConnectionsOK ==
    /\ sourceChannels \subseteq Platform /\ removed \subseteq Platform
    /\ connections \in [Platform -> 0..2]
    /\ \A p \in Platform \ sourceChannels : connections[p] <= 1
    /\ \A p \in sourceChannels : connections[p] >= 1
    /\ \A p \in Platform \ removed : connections[p] = IF p \in sourceChannels THEN 1 ELSE 0

\* UnrelatedMessagesShown without counting: k is a message of another user.
ShownRight(k) ==
    ~others[k].repeats =>
        /\ others[k].merged => \E i \in 1..Len(shown) : shown[i].other = k
        /\ ~others[k].removed =>
               /\ \A i, j \in 1..Len(shown) :
                      shown[i].other = k /\ shown[j].other = k => i = j
               /\ ~others[k].merged => \A i \in 1..Len(shown) : shown[i].other # k

OthersShown ==
    /\ others \in Seq([repeats : BOOLEAN, merged : BOOLEAN, removed : BOOLEAN])
    /\ \A i \in 1..Len(shown) : shown[i].other <= Len(others)
    /\ \A k \in 1..Len(others) : ShownRight(k)

BoundsOK ==
    /\ platformSelection \in Platform \cup {Both}
    /\ now \in 0..MaxTime
    /\ Len(sends) <= MaxSends

Inv ==
    /\ Good(pending, shown, suppressed, sends, now)
    /\ EchoesAreSent
    /\ ConnectionsOK
    /\ OthersShown
    /\ BoundsOK

LEMMA InitInv == Init => Inv
  <1> SUFFICES ASSUME Init PROVE Inv
    OBVIOUS
  <1>1. Types(pending, shown, sends, now)
    BY EmptySeq DEF Init, Types
  <1>2. Good(pending, shown, suppressed, sends, now)
    BY <1>1 DEF Init, Good, PendingIsSent, PendingOnce, Tracked, ReceivedWasShown,
                ShownIsPast, ShownOnce, ShownIsCounted, Explained
  <1>3. EchoesAreSent
    BY DEF Init, EchoesAreSent
  <1>4. ConnectionsOK
    BY DEF Init, ConnectionsOK
  <1>5. BoundsOK
    BY WindowIs DEF Init, BoundsOK
  <1>6. OthersShown
    BY EmptySeq DEF Init, OthersShown
  <1> QED
    BY <1>2, <1>3, <1>4, <1>5, <1>6 DEF Inv

\* An echo is no message of another user, so that those stay shown as they are.
LEMMA OthersStay ==
    ASSUME OthersShown, shown \in Seq(Message), others' = others, Extends(shown', shown, 0)
    PROVE  OthersShown'
  <1>1. Len(shown) \in Nat /\ Len(shown') \in Nat /\ Len(others) \in Nat
    BY LenProperties DEF Extends, OthersShown
  <1>2. \A i \in 1..Len(shown') : i \in 1..Len(shown) \/ i > Len(shown)
    BY <1>1
  <1>3. \A i \in 1..Len(shown) : i \in 1..Len(shown') /\ shown'[i] = shown[i]
    BY DEF Extends
  <1>4. \A i \in 1..Len(shown') : i > Len(shown) => shown'[i].other = 0
    BY DEF Extends
  <1>5. \A i \in 1..Len(shown') : shown'[i].other <= Len(others)
    BY <1>1, <1>2, <1>3, <1>4 DEF OthersShown
  <1>6. ASSUME NEW k \in 1..Len(others) PROVE ShownRight(k)'
    <2>1. ShownRight(k) /\ k # 0
      BY DEF OthersShown
    <2>2. \A i \in 1..Len(shown') : shown'[i].other = k => i \in 1..Len(shown) /\ shown[i].other = k
      BY <1>2, <1>3, <1>4, <2>1
    <2> QED
      BY <1>3, <2>1, <2>2 DEF ShownRight
  <1> QED
    BY <1>5, <1>6 DEF OthersShown

LEMMA SendStep ==
    ASSUME Inv, NEW text \in Text, NEW canSend \in SUBSET Platform,
           SendMessage(text, canSend)
    PROVE  Inv'
  <1> DEFINE sentTo == Selected \cap canSend
             r == [text |-> text, sentTo |-> sentTo, merge |-> sourceChannels, sentTime |-> now]
             id == Len(sends) + 1
  <1>1. /\ pending' = IF Cardinality(sentTo) > 1 THEN Track(pending, text, id) ELSE pending
        /\ echoes' = echoes \cup {[id |-> id, text |-> text, platform |-> p] : p \in sentTo}
        /\ sends' = Append(sends, r)
        /\ Len(sends) < MaxSends
        /\ UNCHANGED <<sourceChannels, connections, platformSelection, shown, suppressed,
                       others, removed, now>>
    BY DEF SendMessage
  <1>2. /\ Good(pending, shown, suppressed, sends, now)
        /\ Types(pending, shown, sends, now)
    BY DEF Inv, Good
  <1>3. r \in Record /\ r.sentTime = now /\ r.sentTo = sentTo /\ r.text = text
    BY <1>2 DEF Inv, ConnectionsOK, Record, Types
  <1>4. sentTo \subseteq Platform
    OBVIOUS
  <1>5. Good(pending, shown, suppressed, sends, now)'
    <2> HIDE DEF r, sentTo, id
    <2>1. Good(IF Cardinality(sentTo) > 1 THEN Track(pending, text, Len(sends) + 1) ELSE pending,
               shown, suppressed, Append(sends, r), now)
      BY <1>2, <1>3, SendGood
    <2> QED
      BY <1>1, <2>1 DEF id
  <1>6. /\ sends' \in Seq(Record) /\ Len(sends') = Len(sends) + 1 /\ Len(sends) \in Nat
        /\ sends'[Len(sends) + 1] = r
        /\ \A k \in 1..Len(sends) : k \in 1..Len(sends') /\ sends'[k] = sends[k]
    <2> HIDE DEF r
    <2> QED
      BY <1>1, <1>2, <1>3, SentStays DEF Types
  <1>7. EchoesAreSent'
    <2> SUFFICES ASSUME NEW e \in echoes'
                 PROVE  /\ e.id \in 1..Len(sends') /\ e.platform \in Platform /\ e.text \in Text
                        /\ e.text = sends'[e.id].text
      BY DEF EchoesAreSent
    <2> HIDE DEF r, sentTo
    <2>1. CASE e \in echoes
      BY <1>6, <2>1 DEF Inv, EchoesAreSent
    <2>2. CASE e \in {[id |-> id, text |-> text, platform |-> p] : p \in sentTo}
      BY <1>3, <1>4, <1>6, <2>2
    <2> QED
      BY <1>1, <2>1, <2>2
  <1>8. ConnectionsOK'
    BY <1>1 DEF Inv, ConnectionsOK
  <1>9. BoundsOK'
    <2> HIDE DEF r, sentTo
    <2> QED
      BY <1>1, <1>6, WindowIs DEF Inv, BoundsOK
  <1>10. OthersShown'
    <2>1. UNCHANGED <<shown, others>>
      BY <1>1
    <2> QED
      BY <2>1 DEF Inv, OthersShown, ShownRight
  <1> QED
    BY <1>5, <1>7, <1>8, <1>9, <1>10 DEF Inv

LEMMA EchoStep ==
    ASSUME Inv, NEW e \in echoes, NEW stamp \in 0..now, EchoArrives(e, stamp)
    PROVE  Inv'
  <1>1. /\ Deliver(e.platform, e.id, 0, e.text, stamp)
        /\ echoes' = echoes \ {e}
        /\ UNCHANGED <<sourceChannels, connections, platformSelection, sends, others, removed,
                       now>>
    BY DEF EchoArrives, None
  <1>2. Good(pending, shown, suppressed, sends, now) /\ Types(pending, shown, sends, now)
    BY DEF Inv, Good
  <1>3. now \in Nat /\ Len(sends) \in Nat /\ stamp \in Nat
    BY <1>2, SeqsAre DEF Types
  <1>4. /\ e.platform \in Platform /\ connections[e.platform] \in Nat
        /\ e.id \in Nat /\ e.id <= Len(sends) /\ e.text \in Text
        /\ e.text = sends[e.id].text
    BY <1>3 DEF Inv, EchoesAreSent, ConnectionsOK
  <1>5. Good(pending, shown, suppressed, sends, now)' /\ Extends(shown', shown, 0)
    <2> DEFINE other == 0
    <2>1. other \in Nat /\ Deliver(e.platform, e.id, other, e.text, stamp)
      BY <1>1
    <2> HIDE DEF other
    <2>2. Good(pending, shown, suppressed, sends, now)' /\ Extends(shown', shown, other)
      BY <1>1, <1>2, <1>3, <1>4, <2>1, DeliverGood
    <2> QED
      BY <2>2 DEF other
  <1>6. EchoesAreSent' /\ ConnectionsOK' /\ BoundsOK'
    BY <1>1 DEF Inv, EchoesAreSent, ConnectionsOK, BoundsOK
  <1>7. OthersShown'
    BY <1>1, <1>2, <1>5, OthersStay DEF Inv, Types
  <1> QED
    BY <1>5, <1>6, <1>7 DEF Inv

\* A pending message with the text, in its window, is one the user sent shortly before.
LEMMA UnlessRepeated ==
    ASSUME Inv, NEW text, ~SentShortlyBefore(text)
    PROVE  \A i \in 1..Len(pending) :
               ~(now - pending[i].sentTime <= Window /\ pending[i].text = text)
  <1> SUFFICES ASSUME NEW i \in 1..Len(pending),
                      now - pending[i].sentTime <= Window, pending[i].text = text
               PROVE  FALSE
    OBVIOUS
  <1> DEFINE id == pending[i].id
             t == pending[i].sentTime
  <1>1. /\ id \in 1..Len(sends) /\ Multi(sends, id)
        /\ text = sends[id].text /\ t = sends[id].sentTime /\ t <= now
    BY DEF Inv, Good, PendingIsSent
  <1>2. t \in Nat /\ now \in Nat
    BY SeqsAre DEF Inv, Good, Entry
  <1> HIDE DEF id, t
  <1>3. now - t \in 0..Window
    <2>1. now - t <= Window
      BY DEF t
    <2> QED
      BY <1>1, <1>2, <2>1, WindowIs
  <1> QED
    BY <1>1, <1>3 DEF SentShortlyBefore, Multi

LEMMA OtherStep ==
    ASSUME Inv, NEW p \in Platform, NEW text \in Text, NEW stamp \in 0..now,
           OtherMessage(p, text, stamp)
    PROVE  Inv'
  <1> DEFINE new == Len(others) + 1
             record == [repeats |-> SentShortlyBefore(text), merged |-> p \in sourceChannels,
                        removed |-> p \in removed]
  <1>1. /\ Deliver(p, 0, new, text, stamp)
        /\ others' = Append(others, record)
        /\ UNCHANGED <<sourceChannels, connections, platformSelection, echoes, sends, removed,
                       now>>
    BY DEF OtherMessage, None
  <1>2. Good(pending, shown, suppressed, sends, now) /\ Types(pending, shown, sends, now)
    BY DEF Inv, Good
  <1>3. /\ now \in Nat /\ Len(sends) \in Nat /\ stamp \in Nat /\ 0 <= Len(sends)
        /\ Len(shown) \in Nat
    BY <1>2, SeqsAre DEF Types
  <1>4. /\ connections[p] \in 0..2
        /\ p \in sourceChannels => connections[p] >= 1
        /\ p \notin removed => connections[p] = IF p \in sourceChannels THEN 1 ELSE 0
    BY DEF Inv, ConnectionsOK
  <1>5. record \in [repeats : BOOLEAN, merged : BOOLEAN, removed : BOOLEAN]
    BY DEF SentShortlyBefore
  <1>6. /\ record.repeats <=> SentShortlyBefore(text)
        /\ record.merged <=> p \in sourceChannels
        /\ record.removed <=> p \in removed
    BY DEF SentShortlyBefore
  <1> HIDE DEF record
  <1>7. /\ others' \in Seq([repeats : BOOLEAN, merged : BOOLEAN, removed : BOOLEAN])
        /\ Len(others) \in Nat /\ Len(others') = new
        /\ \A k \in 1..Len(others) : others'[k] = others[k]
        /\ others'[new] = record
    BY <1>1, <1>5, AppendProperties, LenProperties DEF Inv, OthersShown
  <1>8. /\ Good(pending, shown, suppressed, sends, now)'
        /\ Extends(shown', shown, new)
        /\ ~SentShortlyBefore(text) => Len(shown') = Len(shown) + connections[p]
    <2> DEFINE id == 0
    <2>1. id \in Nat /\ id <= Len(sends) /\ (id # 0 => text = sends[id].text)
      BY <1>3
    <2>2. Deliver(p, id, new, text, stamp)
      BY <1>1
    <2>3. new \in Nat /\ connections[p] \in Nat
      BY <1>4, <1>7
    <2> HIDE DEF id, new
    <2>4. /\ Good(pending, shown, suppressed, sends, now)'
          /\ Extends(shown', shown, new)
          /\ (\A i \in 1..Len(pending) :
                 ~(now - pending[i].sentTime <= Window /\ pending[i].text = text)) =>
                 Len(shown') = Len(shown) + connections[p]
      BY <1>1, <1>2, <1>3, <2>1, <2>2, <2>3, DeliverGood
    <2> QED
      BY <2>4, UnlessRepeated
  <1>9. /\ Len(shown') \in Nat
        /\ \A i \in 1..Len(shown) : i \in 1..Len(shown') /\ shown'[i] = shown[i]
        /\ \A i \in 1..Len(shown') : i > Len(shown) => shown'[i].other = new
    BY <1>8, LenProperties DEF Extends
  <1>10. \A i \in 1..Len(shown') : i \in 1..Len(shown) \/ i > Len(shown)
    BY <1>3, <1>9
  <1>11. \A i \in 1..Len(shown) : shown[i].other <= Len(others) /\ shown[i].other \in Nat
    BY <1>2, SeqsAre DEF Inv, OthersShown, Message
  <1>12. \A i \in 1..Len(shown') : shown'[i].other <= new
    BY <1>7, <1>9, <1>10, <1>11
  <1>13. ASSUME NEW k \in 1..Len(others) PROVE ShownRight(k)'
    <2>1. ShownRight(k) /\ k # new /\ others'[k] = others[k]
      BY <1>7 DEF Inv, OthersShown
    <2>2. \A i \in 1..Len(shown') : shown'[i].other = k => i \in 1..Len(shown) /\ shown[i].other = k
      BY <1>9, <1>10, <2>1
    <2> QED
      BY <1>9, <2>1, <2>2 DEF ShownRight
  <1>14. ASSUME NEW k \in Nat, k = new PROVE ShownRight(k)'
    <2> SUFFICES ASSUME ~record.repeats
                 PROVE  /\ record.merged => \E i \in 1..Len(shown') : shown'[i].other = new
                        /\ ~record.removed =>
                               /\ \A i, j \in 1..Len(shown') :
                                      shown'[i].other = new /\ shown'[j].other = new => i = j
                               /\ ~record.merged =>
                                      \A i \in 1..Len(shown') : shown'[i].other # new
      BY <1>7, <1>14 DEF ShownRight
    <2>1. Len(shown') = Len(shown) + connections[p]
      BY <1>6, <1>8
    <2>2. \A i \in 1..Len(shown') : shown'[i].other = new => i > Len(shown)
      BY <1>7, <1>9, <1>10, <1>11
    <2>3. ASSUME record.merged PROVE \E i \in 1..Len(shown') : shown'[i].other = new
      <3>1. Len(shown) + 1 \in 1..Len(shown') /\ Len(shown) + 1 > Len(shown)
        BY <1>3, <1>4, <1>6, <2>1, <2>3
      <3> QED
        BY <1>9, <3>1
    <2>4. ASSUME ~record.removed
          PROVE  \A i \in 1..Len(shown') :
                     i > Len(shown) => record.merged /\ i = Len(shown) + 1
      <3>1. connections[p] = IF record.merged THEN 1 ELSE 0
        BY <1>4, <1>6, <2>4
      <3>2. CASE record.merged
        BY <1>3, <2>1, <3>1, <3>2
      <3>3. CASE ~record.merged
        BY <1>3, <2>1, <3>1, <3>3
      <3> QED
        BY <3>2, <3>3
    <2> QED
      BY <2>2, <2>3, <2>4
  <1>15. OthersShown'
    <2>1. \A k \in 1..Len(others') : k \in 1..Len(others) \/ k = new
      BY <1>7
    <2>2. ASSUME NEW k \in 1..Len(others') PROVE ShownRight(k)'
      <3>1. CASE k = new
        BY <1>14, <3>1
      <3>2. CASE k # new
        BY <1>13, <2>1, <3>2
      <3> QED
        BY <3>1, <3>2
    <2> QED
      BY <1>7, <1>12, <2>2 DEF OthersShown
  <1>16. EchoesAreSent' /\ ConnectionsOK' /\ BoundsOK'
    BY <1>1 DEF Inv, EchoesAreSent, ConnectionsOK, BoundsOK
  <1> QED
    BY <1>8, <1>15, <1>16 DEF Inv

\* What neither sends nor delivers leaves the history of the channel alone.
LEMMA QuietStep ==
    ASSUME Inv, UNCHANGED <<pending, shown, suppressed, sends, others, now>>,
           echoes' \subseteq echoes, ConnectionsOK', platformSelection' \in Platform \cup {Both}
    PROVE  Inv'
  <1>1. Good(pending, shown, suppressed, sends, now)'
    BY DEF Inv
  <1>2. EchoesAreSent' /\ BoundsOK' /\ OthersShown'
    BY DEF Inv, EchoesAreSent, BoundsOK, OthersShown, ShownRight
  <1> QED
    BY <1>1, <1>2 DEF Inv

LEMMA NextInv == Inv /\ [Next]_vars => Inv'
  <1> SUFFICES ASSUME Inv, [Next]_vars PROVE Inv'
    OBVIOUS
  <1>1. ASSUME NEW text \in Text, NEW canSend \in SUBSET Platform, SendMessage(text, canSend)
        PROVE  Inv'
    BY <1>1, SendStep
  <1>2. ASSUME NEW selection \in Platform \cup {Both}, SetPlatformSelection(selection)
        PROVE  Inv'
    BY <1>2, QuietStep DEF SetPlatformSelection, Inv, ConnectionsOK
  <1>3. ASSUME NEW e \in echoes, EchoLost(e) PROVE Inv'
    BY <1>3, QuietStep DEF EchoLost, Inv, ConnectionsOK, BoundsOK
  <1>4. ASSUME NEW e \in echoes, NEW stamp \in 0..now, EchoArrives(e, stamp) PROVE Inv'
    BY <1>4, EchoStep
  <1>5. ASSUME NEW p \in Platform, NEW text \in Text, NEW stamp \in 0..now,
               OtherMessage(p, text, stamp)
        PROVE  Inv'
    BY <1>5, OtherStep
  <1>6. ASSUME NEW p \in Platform, AddSourceChannel(p) PROVE Inv'
    <2>1. ConnectionsOK'
      BY <1>6 DEF AddSourceChannel, Inv, ConnectionsOK
    <2> QED
      BY <1>6, <2>1, QuietStep DEF AddSourceChannel, Inv, BoundsOK
  <1>7. ASSUME NEW p \in Platform, RemoveSourceChannel(p) PROVE Inv'
    <2>1. ConnectionsOK'
      BY <1>7 DEF RemoveSourceChannel, Inv, ConnectionsOK
    <2> QED
      BY <1>7, <2>1, QuietStep DEF RemoveSourceChannel, Inv, BoundsOK
  <1>8. CASE Unmerge
    <2>1. ConnectionsOK'
      BY <1>8 DEF Unmerge, ConnectionsOK
    <2> QED
      BY <1>8, <2>1, QuietStep DEF Unmerge, Inv, BoundsOK
  <1>9. CASE Tick
    <2>1. Good(pending, shown, suppressed, sends, now)'
      BY <1>9, TickGood DEF Tick, Inv
    <2>2. EchoesAreSent' /\ ConnectionsOK' /\ OthersShown'
      BY <1>9 DEF Tick, Inv, EchoesAreSent, ConnectionsOK, OthersShown, ShownRight
    <2>3. BoundsOK'
      BY <1>9, WindowIs DEF Tick, Inv, BoundsOK
    <2> QED
      BY <2>1, <2>2, <2>3 DEF Inv
  <1>10. CASE UNCHANGED vars
    BY <1>10, QuietStep DEF vars, Inv, ConnectionsOK, BoundsOK
  <1> QED
    BY <1>1, <1>2, <1>3, <1>4, <1>5, <1>6, <1>7, <1>8, <1>9, <1>10 DEF Next

LEMMA AlwaysInv == Spec => []Inv
  BY InitInv, NextInv, PTL DEF Spec
-----------------------------------------------------------------------------
(* The theorems. *)

LEMMA InvTypeOK == Inv => TypeOK
  <1> SUFFICES ASSUME Inv PROVE TypeOK
    OBVIOUS
  <1>1. Types(pending, shown, sends, now)
    BY DEF Inv, Good
  <1>2. /\ Len(sends) \in Nat /\ Len(sends) <= MaxSends /\ now \in 0..MaxTime
        /\ \A i \in 1..Len(pending) : pending[i] \in Entry
        /\ \A i \in 1..Len(shown) : shown[i] \in Message
    BY <1>1, SeqsAre DEF Inv, BoundsOK
  <1>3. ASSUME NEW i \in 1..Len(pending)
        PROVE  pending[i] \in [text : Text, sentTime : 0..MaxTime, id : 1..MaxSends,
                               received : Nat]
    <2>1. pending[i].id \in 1..Len(sends) /\ pending[i].sentTime <= now
      BY DEF Inv, Good, PendingIsSent
    <2>2. pending[i].id \in 1..MaxSends
      BY <1>2, <2>1, WindowIs
    <2>3. pending[i].sentTime \in 0..MaxTime
      BY <1>2, <1>3, <2>1, WindowIs DEF Entry
    <2> QED
      BY <1>2, <1>3, <2>2, <2>3 DEF Entry
  <1>4. ASSUME NEW m \in Shown
        PROVE  m.id \in 0..MaxSends /\ m.text \in Text /\ m.platform \in Platform
    <2>1. PICK i \in 1..Len(shown) : m = shown[i]
      BY DEF Shown
    <2>2. shown[i].id <= Len(sends)
      BY DEF Inv, Good, ShownIsPast
    <2> QED
      BY <1>2, <2>1, <2>2, WindowIs DEF Message
  <1> QED
    BY <1>3, <1>4 DEF TypeOK, Inv, ConnectionsOK, BoundsOK

LEMMA InvShownOnce == Inv => OwnMessageShownOnce
  <1> SUFFICES ASSUME Inv, NEW id \in 1..Len(sends),
                      Cardinality(sends[id].sentTo) > 1,
                      \A other \in 1..Len(sends) :
                          other # id => sends[other].text # sends[id].text
               PROVE  Cardinality({i \in Copies(id) :
                                       shown[i].at - sends[id].sentTime <= Window}) <= 1
    BY Zenon DEF OwnMessageShownOnce
  <1>0. Multi(sends, id) /\ Unique(sends, id)
    BY DEF Multi, Unique
  <1> DEFINE C == {i \in Copies(id) : shown[i].at - sends[id].sentTime <= Window}
  <1>1. \A i, j \in C : i = j
    BY <1>0 DEF Inv, Good, ShownOnce, Copies
  <1> HIDE DEF C
  <1>2. Cardinality(C) <= 1
    <2>1. CASE C = {}
      BY <2>1, FS_EmptySet
    <2>2. CASE C # {}
      <3>1. PICK i : C = {i}
        BY <1>1, <2>2
      <3>2. Cardinality(C) = 1
        BY <3>1, FS_Singleton, Zenon
      <3> QED
        BY <3>2
    <2> QED
      BY <2>1, <2>2
  <1> QED
    BY <1>2 DEF C

LEMMA InvExplained == Inv => SuppressedTextWasShown
  BY DEF Inv, Good, Explained, SuppressedTextWasShown

LEMMA InvOthers == Inv => UnrelatedMessagesShown
  <1> SUFFICES ASSUME Inv, NEW k \in 1..Len(others), ~others[k].repeats
               PROVE  LET copies == {i \in 1..Len(shown) : shown[i].other = k}
                      IN  /\ others[k].merged => copies # {}
                          /\ ~others[k].removed =>
                                 Cardinality(copies) = IF others[k].merged THEN 1 ELSE 0
    BY DEF UnrelatedMessagesShown
  <1> DEFINE copies == {i \in 1..Len(shown) : shown[i].other = k}
  <1>1. ShownRight(k)
    BY DEF Inv, OthersShown
  <1>2. /\ others[k].merged => copies # {}
        /\ ~others[k].removed => /\ \A i, j \in copies : i = j
                                 /\ ~others[k].merged => copies = {}
    BY <1>1 DEF ShownRight
  <1> HIDE DEF copies
  <1>3. ASSUME ~others[k].removed
        PROVE  Cardinality(copies) = IF others[k].merged THEN 1 ELSE 0
    <2>1. CASE others[k].merged
      <3>1. PICK i : copies = {i}
        BY <1>2, <1>3, <2>1
      <3>2. Cardinality(copies) = 1
        BY <3>1, FS_Singleton, Zenon
      <3> QED
        BY <2>1, <3>2
    <2>2. CASE ~others[k].merged
      <3>1. copies = {}
        BY <1>2, <1>3, <2>2
      <3> QED
        BY <2>2, <3>1, FS_EmptySet
    <2> QED
      BY <2>1, <2>2
  <1> QED
    BY <1>2, <1>3 DEF copies

\* The channel's state is what MergedChannel declares: an entry of
\* pendingSentMessages_ is a message the user sent, a shown message comes from a
\* platform, and no source is connected to messageAppended more than twice.
THEOREM TypeCorrect == Spec => []TypeOK
  BY AlwaysInv, InvTypeOK, PTL

\* A message the user sent once to several platforms is shown at most once within
\* the echo window, whatever the order of its echoes and of the messages, sends,
\* added and removed sources between them (onSourceMessageReceived(), sendMessage()).
THEOREM ShownAtMostOnce == Spec => []OwnMessageShownOnce
  BY AlwaysInv, InvShownOnce, PTL

\* When onSourceMessageReceived() drops a message, one with its text is in the
\* channel and was shown at most a window earlier.
THEOREM NothingLost == Spec => []SuppressedTextWasShown
  BY AlwaysInv, InvExplained, PTL

\* A message of another user whose text the user did not send to several platforms at
\* most a window earlier is shown once when its channel is in the merge and was not
\* removed from it, at least once when it was, and never when it was in no merge
\* (subscribeToChannel(), onSourceMessageReceived()).
THEOREM OthersAreHeard == Spec => []UnrelatedMessagesShown
  BY AlwaysInv, InvOthers, PTL
-----------------------------------------------------------------------------
(* The messages of a TwitchChannel. *)

Item ==
    {e \in [id : Nat, from : {"live", "first", "gap", "system", "disconnected"}] :
        e.id = 0 <=> e.from \in {"system", "disconnected"}}

Elements(q) == {q[i] : i \in 1..Len(q)}

IsFirst(e) == e.from = "first"

\* What the first load brought comes before the rest; in either part the order is
\* that of the chat.
Earlier(a, b) ==
    \/ IsFirst(a) /\ ~IsFirst(b)
    \/ (IsFirst(a) <=> IsFirst(b)) /\ a.id < b.id

Sorted(q) ==
    \A i, j \in 1..Len(q) :
        i < j /\ q[i].id # 0 /\ q[j].id # 0 => Earlier(q[i], q[j])

FirstsLead(q) == \A i, j \in 1..Len(q) : i < j /\ IsFirst(q[j]) => IsFirst(q[i])

Ordered(q) == q \in Seq(Item) /\ Sorted(q) /\ FirstsLead(q)

LEMMA LimitIs ==
    /\ scrollbackSplitLimit \in Nat /\ scrollbackSplitLimit > 0
    /\ historyLimit \in Nat /\ historyLimit > 0
    /\ MaxMessages \in Nat /\ MaxLosses \in Nat
  <1>1. /\ {scrollbackSplitLimit, historyLimit} \subseteq Nat \ {0}
        /\ {MaxMessages, MaxLosses} \subseteq Nat
    BY HistoryAssumption
  <1> QED
    BY <1>1

LEMMA QueueIs ==
    ASSUME NEW q \in Seq(Item)
    PROVE  /\ Len(q) \in Nat
           /\ \A i \in 1..Len(q) :
                  /\ q[i] \in Item /\ q[i] \in Elements(q) /\ q[i].id \in Nat
                  /\ IsFirst(q[i]) => q[i].id # 0
           /\ Elements(q) \subseteq Item
  <1>1. Len(q) \in Nat /\ \A i \in 1..Len(q) : q[i] \in Item
    BY LenProperties, ElementOfSeq
  <1>2. \A e \in Item : e.id \in Nat /\ (IsFirst(e) => e.id # 0)
    BY DEF Item, IsFirst
  <1> QED
    BY <1>1, <1>2 DEF Elements

LEMMA InsertedIs ==
    ASSUME NEW q \in Seq(Item), NEW m \in Item, NEW i \in 1..(Len(q) + 1)
    PROVE  LET R == Inserted(q, i, m) IN
           /\ R \in Seq(Item) /\ Len(R) = Len(q) + 1
           /\ R[i] = m
           /\ \A j \in 1..(i - 1) : R[j] = q[j]
           /\ \A j \in (i + 1)..Len(R) : R[j] = q[j - 1]
           /\ Elements(R) = Elements(q) \cup {m}
  <1> DEFINE R == Inserted(q, i, m)
             n == Len(q) + 1
             V(k) == IF k < i THEN q[k] ELSE IF k = i THEN m ELSE q[k - 1]
  <1>1. Len(q) \in Nat /\ n \in Nat /\ i \in 1..n
    BY QueueIs
  <1>2. \A k \in 1..n : V(k) \in Item
    BY <1>1, QueueIs
  <1>3. R = [k \in 1..n |-> V(k)]
    BY DEF Inserted
  <1> HIDE DEF R
  <1>4. R \in Seq(Item) /\ Len(R) = n
    <2>1. R \in [1..n -> Item]
      <3> HIDE DEF V
      <3> QED
        BY <1>2, <1>3
    <2> QED
      BY <1>1, <2>1, SeqDef, LenProperties
  <1>5. \A k \in 1..n : R[k] = V(k)
    <2> HIDE DEF V
    <2> QED
      BY <1>3
  <1>6. R[i] = m
    BY <1>1, <1>5
  <1>7. \A j \in 1..(i - 1) : R[j] = q[j] /\ j \in 1..n
    BY <1>1, <1>5
  <1>8. \A j \in (i + 1)..n : R[j] = q[j - 1] /\ j - 1 \in 1..Len(q)
    BY <1>1, <1>5
  <1>9. Elements(R) \subseteq Elements(q) \cup {m}
    <2> SUFFICES ASSUME NEW k \in 1..n PROVE R[k] \in Elements(q) \cup {m}
      BY <1>4 DEF Elements
    <2>1. k = i \/ k \in 1..(i - 1) \/ k \in (i + 1)..n
      BY <1>1
    <2>2. \A j \in 1..(i - 1) : j \in 1..Len(q)
      BY <1>1
    <2> HIDE DEF n
    <2> QED
      BY <1>6, <1>7, <1>8, <2>1, <2>2 DEF Elements
  <1>10. m \in Elements(R)
    BY <1>1, <1>4, <1>6 DEF Elements
  <1>11. ASSUME NEW k \in 1..Len(q) PROVE q[k] \in Elements(R)
    <2>1. CASE k < i
      BY <1>1, <1>4, <1>5, <2>1 DEF Elements
    <2>2. CASE ~(k < i)
      <3>1. k + 1 \in (i + 1)..n /\ k + 1 \in 1..Len(R) /\ (k + 1) - 1 = k
        BY <1>1, <1>4, <2>2
      <3>2. R[k + 1] = q[k]
        BY <1>8, <3>1
      <3> QED
        BY <3>1, <3>2 DEF Elements
    <2> QED
      BY <2>1, <2>2
  <1>12. Elements(R) = Elements(q) \cup {m}
    BY <1>9, <1>10, <1>11 DEF Elements
  <1> QED
    BY <1>4, <1>6, <1>7, <1>8, <1>12 DEF R

\* m belongs at place i of q.
Fits(q, i, m) ==
    /\ \A j \in 1..(i - 1) : q[j].id # 0 /\ m.id # 0 => Earlier(q[j], m)
    /\ \A j \in i..Len(q) :
          ~IsFirst(q[j]) /\ (q[j].id # 0 /\ m.id # 0 => Earlier(m, q[j]))

LEMMA InsertedOrdered ==
    ASSUME NEW q, Ordered(q), NEW m \in Item, ~IsFirst(m),
           NEW i \in 1..(Len(q) + 1), Fits(q, i, m)
    PROVE  Ordered(Inserted(q, i, m))
  <1> DEFINE R == Inserted(q, i, m)
             n == Len(q) + 1
  <1>1. q \in Seq(Item) /\ Sorted(q) /\ FirstsLead(q)
    BY DEF Ordered
  <1>2. Len(q) \in Nat /\ i \in 1..n /\ n \in Nat
    BY <1>1, QueueIs
  <1>3. /\ R \in Seq(Item) /\ Len(R) = n
        /\ R[i] = m
        /\ \A j \in 1..(i - 1) : R[j] = q[j]
        /\ \A j \in (i + 1)..n : R[j] = q[j - 1]
    BY <1>1, InsertedIs
  <1> HIDE DEF R
  <1>4. ASSUME NEW j \in 1..n, NEW k \in 1..n, j < k, R[j].id # 0, R[k].id # 0
        PROVE  Earlier(R[j], R[k])
    <2>1. CASE k < i
      <3>1. j \in 1..(i - 1) /\ k \in 1..(i - 1) /\ j \in 1..Len(q) /\ k \in 1..Len(q)
        BY <1>2, <1>4, <2>1
      <3> QED
        BY <1>1, <1>3, <1>4, <3>1 DEF Sorted
    <2>2. CASE k = i
      <3>1. j \in 1..(i - 1)
        BY <1>2, <1>4, <2>2
      <3> QED
        BY <1>3, <1>4, <2>2, <3>1 DEF Fits
    <2>3. CASE j = i
      <3>1. k \in (i + 1)..n /\ k - 1 \in i..Len(q)
        BY <1>2, <1>4, <2>3
      <3> QED
        BY <1>3, <1>4, <2>3, <3>1 DEF Fits
    <2>4. CASE j < i /\ i < k
      <3>1. /\ j \in 1..(i - 1) /\ k \in (i + 1)..n
            /\ j \in 1..Len(q) /\ k - 1 \in 1..Len(q) /\ j < k - 1
        BY <1>2, <1>4, <2>4
      <3> QED
        BY <1>1, <1>3, <1>4, <3>1 DEF Sorted
    <2>5. CASE i < j
      <3>1. /\ j \in (i + 1)..n /\ k \in (i + 1)..n
            /\ j - 1 \in 1..Len(q) /\ k - 1 \in 1..Len(q) /\ j - 1 < k - 1
        BY <1>2, <1>4, <2>5
      <3> QED
        BY <1>1, <1>3, <1>4, <3>1 DEF Sorted
    <2> QED
      BY <1>2, <1>4, <2>1, <2>2, <2>3, <2>4, <2>5
  <1>5. ASSUME NEW j \in 1..n, NEW k \in 1..n, j < k, IsFirst(R[k])
        PROVE  IsFirst(R[j])
    <2>1. k < i
      <3>1. ASSUME i < k PROVE FALSE
        <4>1. k \in (i + 1)..n /\ k - 1 \in i..Len(q)
          BY <1>2, <1>5, <3>1
        <4> QED
          BY <1>3, <1>5, <4>1 DEF Fits
      <3> QED
        BY <1>2, <1>3, <1>5, <3>1
    <2>2. j \in 1..(i - 1) /\ k \in 1..(i - 1) /\ j \in 1..Len(q) /\ k \in 1..Len(q)
      BY <1>2, <1>5, <2>1
    <2> QED
      BY <1>1, <1>3, <1>5, <2>2 DEF FirstsLead
  <1> QED
    BY <1>3, <1>4, <1>5 DEF R, Ordered, Sorted, FirstsLead

\* The oldest message gives way.
LEMMA TailOrdered ==
    ASSUME NEW q, Ordered(q), Len(q) > 0
    PROVE  /\ Ordered(Tail(q)) /\ Len(Tail(q)) = Len(q) - 1
           /\ q[1] \in Item
           /\ Elements(q) = Elements(Tail(q)) \cup {q[1]}
           /\ \A e \in Elements(Tail(q)) :
                  /\ q[1].id # 0 /\ e.id # 0 => Earlier(q[1], e)
                  /\ IsFirst(e) => IsFirst(q[1])
  <1> DEFINE T == Tail(q)
  <1>1. q \in Seq(Item) /\ Sorted(q) /\ FirstsLead(q) /\ Len(q) \in Nat
    BY QueueIs DEF Ordered
  <1>2. q # << >>
    BY EmptySeq
  <1>3. /\ T \in Seq(Item) /\ Len(T) = Len(q) - 1
        /\ \A i \in 1..Len(T) : T[i] = q[i + 1]
    BY <1>1, <1>2, HeadTailProperties
  <1> HIDE DEF T
  <1>4. \A i \in 1..Len(T) : i + 1 \in 1..Len(q) /\ 1 < i + 1
    BY <1>1, <1>3
  <1>5. 1 \in 1..Len(q)
    BY <1>1
  <1>6. Sorted(T) /\ FirstsLead(T)
    <2>1. \A i, j \in 1..Len(T) : i < j => i + 1 < j + 1
      BY <1>1, <1>3
    <2> QED
      BY <1>1, <1>3, <1>4, <2>1 DEF Sorted, FirstsLead
  <1>7. \A i \in 1..Len(q) : i = 1 \/ (i - 1 \in 1..Len(T) /\ T[i - 1] = q[i])
    <2> TAKE i \in 1..Len(q)
    <2>1. i = 1 \/ (i - 1 \in 1..Len(T) /\ (i - 1) + 1 = i)
      BY <1>1, <1>3
    <2> QED
      BY <1>3, <2>1
  <1>8. Elements(q) = Elements(T) \cup {q[1]}
    BY <1>3, <1>4, <1>5, <1>7 DEF Elements
  <1>9. \A i \in 1..Len(T) :
            /\ q[1].id # 0 /\ T[i].id # 0 => Earlier(q[1], T[i])
            /\ IsFirst(T[i]) => IsFirst(q[1])
    BY <1>1, <1>3, <1>4, <1>5 DEF Sorted, FirstsLead
  <1>10. q[1] \in Item
    BY <1>1, <1>5, QueueIs
  <1> QED
    BY <1>3, <1>6, <1>8, <1>9, <1>10 DEF T, Ordered, Elements
-----------------------------------------------------------------------------
(* fillInMissingMessages(): the snapshot S, and what is loaded, L. *)

\* The loaded messages are in the order of the chat.  One that is not in the
\* snapshot belongs behind what the first load brought, or in front of it when
\* there is no space.
CanFill(S, L) ==
    /\ Ordered(S) /\ Len(S) > 0 /\ Len(S) <= scrollbackSplitLimit
    /\ L \in Seq(Item)
    /\ \A i \in 1..Len(L) : L[i].from = "gap" /\ L[i].id # 0
    /\ \A i, j \in 1..Len(L) : i < j => L[i].id < L[j].id
    /\ \A i \in 1..Len(L) : L[i].id \notin Ids(S) =>
          \/ \A e \in Elements(S) : IsFirst(e) => e.id < L[i].id
          \/ /\ Len(S) = scrollbackSplitLimit
             /\ \A e \in Elements(S) : IsFirst(e) => L[i].id < e.id

\* What was loaded with the first k messages
Upto(L, k) == {L[j].id : j \in 1..k}

\* After the first k messages the queue q holds what is in the snapshot or was
\* added.
Origin(S, L, q, k) ==
    \A e \in Elements(q) :
        \/ e \in Elements(S)
        \/ /\ e.from = "gap" /\ e.id \in Upto(L, k) /\ e.id \notin Ids(S)
           /\ \A f \in Elements(S) : IsFirst(f) => f.id < e.id

\* Of the snapshot, only the oldest gave way.
KeepsNewer(S, q) ==
    \A a, b \in Elements(S) :
        a.id # 0 /\ b.id # 0 /\ Earlier(a, b) /\ a \in Elements(q) => b \in Elements(q)

\* While there is space, nothing did.
KeepsAll(S, L, q, k) ==
    Len(q) < scrollbackSplitLimit =>
        /\ \A e \in Elements(S) : e.id # 0 => e \in Elements(q)
        /\ Upto(L, k) \subseteq Ids(q)

\* What is not there is older than what was added.
LosesOlder(S, L, q, k) ==
    \A n \in Ids(S) \cup Upto(L, k), a \in Ids(q) :
        n \notin Ids(q) /\ a \notin Ids(S) => n < a

Filling(S, L, q, k) ==
    /\ Ordered(q)
    /\ Len(S) <= Len(q)
    /\ Origin(S, L, q, k)
    /\ KeepsNewer(S, q)
    /\ KeepsAll(S, L, q, k)
    /\ LosesOlder(S, L, q, k)

LEMMA IdsAre ==
    ASSUME NEW q \in Seq(Item)
    PROVE  /\ Ids(q) = {e.id : e \in Elements(q)} \ {0}
           /\ Ids(q) \subseteq Nat
           /\ \A e \in Elements(q) : e \in Item /\ e.id \in Nat /\ (e.id # 0 => e.id \in Ids(q))
           /\ \A n \in Ids(q) : n # 0 /\ \E e \in Elements(q) : e.id = n
  <1>1. \A i \in 1..Len(q) : q[i] \in Elements(q) /\ q[i].id \in Nat /\ q[i] \in Item
    BY QueueIs
  <1> QED
    BY <1>1 DEF Ids, Elements

\* A queue that has one message too many loses the oldest.
LEMMA GivesWay ==
    ASSUME NEW S, NEW L, NEW q, NEW k \in Nat, CanFill(S, L), k <= Len(L),
           Filling(S, L, q, k), Len(q) = scrollbackSplitLimit + 1
    PROVE  Filling(S, L, Tail(q), k) /\ Len(Tail(q)) = scrollbackSplitLimit
  <1> DEFINE T == Tail(q)
             x == q[1]
  <1>1. Ordered(q) /\ q \in Seq(Item) /\ S \in Seq(Item) /\ Len(S) <= scrollbackSplitLimit
    BY DEF Filling, CanFill, Ordered
  <1>2. Len(q) > 0
    BY LimitIs
  <1>3. /\ Ordered(T) /\ Len(T) = scrollbackSplitLimit
        /\ x \in Item /\ Elements(q) = Elements(T) \cup {x}
        /\ \A e \in Elements(T) :
               /\ x.id # 0 /\ e.id # 0 => Earlier(x, e)
               /\ IsFirst(e) => IsFirst(x)
    <2>1. /\ Ordered(T) /\ Len(T) = Len(q) - 1
          /\ x \in Item /\ Elements(q) = Elements(T) \cup {x}
          /\ \A e \in Elements(T) :
                 /\ x.id # 0 /\ e.id # 0 => Earlier(x, e)
                 /\ IsFirst(e) => IsFirst(x)
      BY <1>1, <1>2, TailOrdered
    <2> HIDE DEF T, x
    <2> QED
      BY <2>1, LimitIs
  <1>4. T \in Seq(Item)
    BY <1>3 DEF Ordered
  <1> HIDE DEF T, x
  <1>5. Origin(S, L, T, k)
    BY <1>3 DEF Filling, Origin
  <1>6. KeepsNewer(S, T)
    <2> SUFFICES ASSUME NEW a \in Elements(S), NEW b \in Elements(S), a.id # 0, b.id # 0,
                        Earlier(a, b), a \in Elements(T)
                 PROVE  b \in Elements(T)
      BY DEF KeepsNewer
    <2>1. b \in Elements(q)
      BY <1>3 DEF Filling, KeepsNewer
    <2>2. b # x
      <3> SUFFICES ASSUME b = x PROVE FALSE
        OBVIOUS
      <3>1. Earlier(b, a)
        BY <1>3
      <3>2. a.id \in Nat /\ b.id \in Nat
        BY <1>1, IdsAre
      <3> QED
        BY <3>1, <3>2 DEF Earlier
    <2> QED
      BY <1>3, <2>1, <2>2
  <1>7. KeepsAll(S, L, T, k)
    BY <1>3, LimitIs DEF KeepsAll
  <1>8. LosesOlder(S, L, T, k)
    <2> SUFFICES ASSUME NEW n \in Ids(S) \cup Upto(L, k), NEW a \in Ids(T),
                        n \notin Ids(T), a \notin Ids(S)
                 PROVE  n < a
      BY DEF LosesOlder
    <2>1. PICK e \in Elements(T) : e.id = a /\ a # 0 /\ a \in Nat
      BY <1>4, IdsAre
    <2>2. a \in Ids(q)
      BY <1>1, <1>3, <2>1, IdsAre
    <2>3. CASE n \notin Ids(q)
      BY <2>2, <2>3 DEF Filling, LosesOlder
    <2>4. CASE n \in Ids(q)
      <3>1. PICK f \in Elements(q) : f.id = n /\ n # 0 /\ n \in Nat
        BY <1>1, <2>4, IdsAre
      <3>2. f = x
        BY <1>3, <1>4, <3>1, IdsAre
      <3>3. Earlier(x, e)
        BY <1>3, <2>1, <3>1, <3>2
      <3>4. e \notin Elements(S)
        BY <1>1, <2>1, IdsAre
      <3>5. e.from = "gap" /\ \A g \in Elements(S) : IsFirst(g) => g.id < a
        BY <1>5, <2>1, <3>4 DEF Origin
      <3>6. CASE IsFirst(x)
        <4>1. x \in Elements(S)
          BY <1>3, <3>6 DEF Filling, Origin, IsFirst
        <4> QED
          BY <3>1, <3>2, <3>5, <3>6, <4>1
      <3>7. CASE ~IsFirst(x)
        BY <2>1, <3>1, <3>2, <3>3, <3>7 DEF Earlier
      <3> QED
        BY <3>6, <3>7
    <2> QED
      BY <2>3, <2>4
  <1> QED
    BY <1>1, <1>3, <1>5, <1>6, <1>7, <1>8 DEF Filling, T

LEMMA UptoNext ==
    ASSUME NEW L, NEW k \in Nat
    PROVE  Upto(L, k + 1) = Upto(L, k) \cup {L[k + 1].id}
  <1>1. \A j \in 1..(k + 1) : j \in 1..k \/ j = k + 1
    OBVIOUS
  <1>2. \A j \in 1..k : j \in 1..(k + 1)
    OBVIOUS
  <1>3. k + 1 \in 1..(k + 1)
    OBVIOUS
  <1> QED
    BY <1>1, <1>2, <1>3 DEF Upto

\* The next message is added where it belongs.
LEMMA Adds ==
    ASSUME NEW S, NEW L, NEW q, NEW k \in Nat, CanFill(S, L), k + 1 <= Len(L),
           Filling(S, L, q, k), L[k + 1].id \notin Ids(S),
           \A e \in Elements(S) : IsFirst(e) => e.id < L[k + 1].id,
           \A n \in Ids(S) : n \notin Ids(q) => n < L[k + 1].id,
           NEW i \in 1..(Len(q) + 1), Fits(q, i, L[k + 1])
    PROVE  /\ Filling(S, L, Inserted(q, i, L[k + 1]), k + 1)
           /\ Len(Inserted(q, i, L[k + 1])) = Len(q) + 1
  <1> DEFINE m == L[k + 1]
             R == Inserted(q, i, m)
  <1>1. /\ Ordered(q) /\ q \in Seq(Item) /\ S \in Seq(Item) /\ Len(S) \in Nat
        /\ L \in Seq(Item) /\ Len(q) \in Nat /\ Len(L) \in Nat
    BY QueueIs DEF Filling, CanFill, Ordered
  <1>2. k + 1 \in 1..Len(L)
    BY <1>1
  <1>3. m \in Item /\ m.from = "gap" /\ m.id # 0 /\ m.id \in Nat /\ ~IsFirst(m)
    <2>1. m \in Item /\ m.id \in Nat
      BY <1>1, <1>2, QueueIs
    <2> QED
      BY <1>2, <2>1 DEF CanFill, IsFirst
  <1>4. \A n \in Upto(L, k) : n < m.id
    <2>1. \A j \in 1..k : j \in 1..Len(L) /\ j < k + 1
      BY <1>1
    <2> QED
      BY <1>2, <2>1 DEF CanFill, Upto
  <1>5. Upto(L, k + 1) = Upto(L, k) \cup {m.id}
    BY UptoNext
  <1>6. m.id \notin Ids(S) /\ (\A e \in Elements(S) : IsFirst(e) => e.id < m.id)
        /\ (\A n \in Ids(S) : n \notin Ids(q) => n < m.id) /\ Fits(q, i, m)
    OBVIOUS
  <1> HIDE DEF m
  <1>7. /\ Ordered(R) /\ R \in Seq(Item) /\ Len(R) = Len(q) + 1
        /\ Elements(R) = Elements(q) \cup {m}
    BY <1>1, <1>3, <1>6, InsertedOrdered, InsertedIs
  <1> HIDE DEF R
  <1>8. Ids(R) = Ids(q) \cup {m.id}
    BY <1>1, <1>3, <1>7, IdsAre
  <1>9. Origin(S, L, R, k + 1)
    BY <1>3, <1>5, <1>6, <1>7 DEF Filling, Origin
  <1>10. KeepsNewer(S, R)
    <2> SUFFICES ASSUME NEW a \in Elements(S), NEW b \in Elements(S), a.id # 0, b.id # 0,
                        Earlier(a, b), a \in Elements(R)
                 PROVE  b \in Elements(R)
      BY DEF KeepsNewer
    <2>1. a.id \in Ids(S)
      BY <1>1, IdsAre
    <2>2. a \in Elements(q)
      BY <1>6, <1>7, <2>1
    <2> QED
      BY <1>7, <2>2 DEF Filling, KeepsNewer
  <1>11. KeepsAll(S, L, R, k + 1)
    BY <1>1, <1>5, <1>7, <1>8, LimitIs DEF Filling, KeepsAll
  <1>12. LosesOlder(S, L, R, k + 1)
    <2> SUFFICES ASSUME NEW n \in Ids(S) \cup Upto(L, k + 1), NEW a \in Ids(R),
                        n \notin Ids(R), a \notin Ids(S)
                 PROVE  n < a
      BY DEF LosesOlder
    <2>1. n \in Ids(S) \cup Upto(L, k) /\ n \notin Ids(q)
      BY <1>5, <1>8
    <2>2. CASE a \in Ids(q)
      BY <2>1, <2>2 DEF Filling, LosesOlder
    <2>3. CASE a = m.id
      BY <1>4, <1>6, <2>1, <2>3
    <2> QED
      BY <1>8, <2>2, <2>3
  <1>13. Len(S) <= Len(R)
    BY <1>1, <1>7 DEF Filling
  <1> QED
    BY <1>7, <1>9, <1>10, <1>11, <1>12, <1>13 DEF Filling, R, m

\* The next message is in the snapshot, or is older than what there is space for.
LEMMA Skipped ==
    ASSUME NEW S, NEW L, NEW q, NEW k \in Nat, CanFill(S, L), k + 1 <= Len(L),
           Filling(S, L, q, k),
           \/ L[k + 1].id \in Ids(S)
           \/ /\ Len(q) = scrollbackSplitLimit
              /\ \A a \in Ids(q) : a \notin Ids(S) => L[k + 1].id < a
    PROVE  Filling(S, L, q, k + 1)
  <1> DEFINE m == L[k + 1]
  <1>1. Upto(L, k + 1) = Upto(L, k) \cup {m.id}
    BY UptoNext
  <1>2. q \in Seq(Item) /\ S \in Seq(Item)
    BY DEF Filling, CanFill, Ordered
  <1>3. \/ m.id \in Ids(S)
        \/ /\ Len(q) = scrollbackSplitLimit
           /\ \A a \in Ids(q) : a \notin Ids(S) => m.id < a
    OBVIOUS
  <1> HIDE DEF m
  <1>4. Origin(S, L, q, k + 1)
    BY <1>1 DEF Filling, Origin
  <1>5. KeepsAll(S, L, q, k + 1)
    <2> SUFFICES ASSUME Len(q) < scrollbackSplitLimit
                 PROVE  /\ \A e \in Elements(S) : e.id # 0 => e \in Elements(q)
                        /\ Upto(L, k + 1) \subseteq Ids(q)
      BY DEF KeepsAll
    <2>1. (\A e \in Elements(S) : e.id # 0 => e \in Elements(q)) /\ Upto(L, k) \subseteq Ids(q)
      BY DEF Filling, KeepsAll
    <2>2. m.id \in Ids(S)
      BY <1>3, LimitIs
    <2>3. m.id \in Ids(q)
      BY <1>2, <2>1, <2>2, IdsAre
    <2> QED
      BY <1>1, <2>1, <2>3
  <1>6. LosesOlder(S, L, q, k + 1)
    BY <1>1, <1>3 DEF Filling, LosesOlder
  <1> QED
    BY <1>4, <1>5, <1>6 DEF Filling

\* pushBack() inserts at the end.
LEMMA PushBackInserts ==
    ASSUME NEW q \in Seq(Item), NEW m \in Item, Len(q) <= scrollbackSplitLimit
    PROVE  LET R == Inserted(q, Len(q) + 1, m) IN
           PushBack(q, m) = IF Len(q) < scrollbackSplitLimit THEN R ELSE Tail(R)
  <1> DEFINE n == Len(q) + 1
             R == Inserted(q, n, m)
  <1>1. Len(q) \in Nat /\ n \in 1..n
    BY QueueIs
  <1>2. /\ R \in Seq(Item) /\ Len(R) = n /\ R[n] = m
        /\ \A j \in 1..(n - 1) : R[j] = q[j]
    BY <1>1, InsertedIs
  <1> HIDE DEF R
  <1>3. CASE Len(q) < scrollbackSplitLimit
    <2>1. PushBack(q, m) = Append(q, m)
      BY <1>1, <1>3, LimitIs DEF PushBack, Space
    <2> DEFINE A == Append(q, m)
    <2>2. /\ A \in Seq(Item) /\ Len(A) = n /\ A[n] = m
          /\ \A j \in 1..Len(q) : A[j] = q[j]
      BY AppendProperties
    <2> HIDE DEF A
    <2>3. \A j \in 1..n : A[j] = R[j]
      <3>1. \A j \in 1..n : j = n \/ (j \in 1..Len(q) /\ j \in 1..(n - 1))
        BY <1>1
      <3> HIDE DEF n
      <3> QED
        BY <1>2, <2>2, <3>1
    <2>4. A = R
      BY <1>2, <2>2, <2>3, SeqEqual
    <2> QED
      BY <1>3, <2>1, <2>4 DEF A, R
  <1>4. CASE Len(q) = scrollbackSplitLimit
    <2>1. PushBack(q, m) = Append(Tail(q), m)
      BY <1>1, <1>4, LimitIs DEF PushBack, Space
    <2>2. q # << >> /\ R # << >>
      BY <1>1, <1>2, <1>4, LimitIs, EmptySeq
    <2> DEFINE T == Tail(q)
               A == Append(T, m)
               B == Tail(R)
    <2>3. /\ T \in Seq(Item) /\ Len(T) = Len(q) - 1
          /\ \A j \in 1..Len(T) : T[j] = q[j + 1]
      BY <2>2, HeadTailProperties
    <2>4. /\ B \in Seq(Item) /\ Len(B) = n - 1
          /\ \A j \in 1..Len(B) : B[j] = R[j + 1]
      BY <1>2, <2>2, HeadTailProperties
    <2> HIDE DEF T, B
    <2>5. /\ A \in Seq(Item) /\ Len(A) = Len(T) + 1 /\ A[Len(T) + 1] = m
          /\ \A j \in 1..Len(T) : A[j] = T[j]
      BY <2>3, AppendProperties
    <2> HIDE DEF A
    <2>6. Len(A) = Len(B)
      BY <1>1, <2>3, <2>4, <2>5
    <2>7. ASSUME NEW j \in 1..Len(A) PROVE A[j] = B[j]
      <3>1. CASE j = Len(T) + 1
        <4>1. j \in 1..Len(B) /\ j + 1 = n
          BY <1>1, <2>3, <2>4, <3>1
        <4> HIDE DEF n
        <4> QED
          BY <1>2, <2>4, <2>5, <3>1, <4>1
      <3>2. CASE j # Len(T) + 1
        <4>1. j \in 1..Len(T) /\ j \in 1..Len(B) /\ j + 1 \in 1..(n - 1)
          BY <1>1, <2>3, <2>4, <2>5, <3>2
        <4> HIDE DEF n
        <4> QED
          BY <1>2, <2>3, <2>4, <2>5, <4>1
      <3> QED
        BY <3>1, <3>2
    <2>8. A = B
      BY <2>4, <2>5, <2>6, <2>7, SeqEqual
    <2>9. ~(Len(q) < scrollbackSplitLimit)
      BY <1>4, LimitIs
    <2> QED
      BY <2>1, <2>8, <2>9 DEF A, B, R, T
  <1> QED
    BY <1>1, <1>3, <1>4, LimitIs

\* insertBefore() inserts in front of the needle, or does nothing without one.
LEMMA InsertBeforeInserts ==
    ASSUME NEW q \in Seq(Item), NEW m \in Item, NEW x, Len(q) <= scrollbackSplitLimit
    PROVE  \/ x \notin Elements(q) /\ InsertBefore(q, x, m) = q
           \/ \E i \in 1..Len(q) :
                 /\ q[i] = x
                 /\ InsertBefore(q, x, m) = IF Len(q) < scrollbackSplitLimit
                                            THEN Inserted(q, i, m)
                                            ELSE Tail(Inserted(q, i, m))
  <1> DEFINE found == {i \in 1..Len(q) : q[i] = x}
             i == CHOOSE j \in found : \A k \in found : j <= k
             R == Inserted(q, i, m)
  <1>1. Len(q) \in Nat
    BY QueueIs
  <1>2. CASE found = {}
    <2>1. x \notin Elements(q)
      BY <1>2 DEF Elements
    <2>2. InsertBefore(q, x, m) = q
      BY <1>2 DEF InsertBefore
    <2> QED
      BY <2>1, <2>2
  <1>3. CASE found # {}
    <2>1. i \in found
      <3>1. found \in SUBSET Nat
        OBVIOUS
      <3>2. \E j \in found : \A k \in found : j <= k
        <4> HIDE DEF found
        <4> QED
          BY <1>3, <3>1, Least
      <3> HIDE DEF found
      <3> QED
        BY <3>2
    <2>2. /\ Space(q) > 0 <=> Len(q) < scrollbackSplitLimit
          /\ Space(q) = 0 <=> ~(Len(q) < scrollbackSplitLimit)
      BY <1>1, LimitIs DEF Space
    <2>3. InsertBefore(q, x, m) = CASE found = {} -> q
                                    [] found # {} /\ Space(q) > 0 -> R
                                    [] found # {} /\ Space(q) = 0 /\ i = 1 -> q
                                    [] OTHER -> Tail(R)
      BY DEF InsertBefore
    <2>4. i \in 1..Len(q) /\ q[i] = x
      BY <2>1
    <2>5. i = 1 => Tail(R) = q
      <3> SUFFICES ASSUME i = 1 PROVE Tail(R) = q
        OBVIOUS
      <3>1. /\ R \in Seq(Item) /\ Len(R) = Len(q) + 1
            /\ \A j \in 2..Len(R) : R[j] = q[j - 1]
        <4> HIDE DEF i, found
        <4>1. i \in 1..(Len(q) + 1) /\ i = 1
          BY <1>1
        <4> QED
          BY <4>1, InsertedIs
      <3> DEFINE T == Tail(R)
      <3> HIDE DEF R
      <3>2. R # << >>
        BY <1>1, <3>1, EmptySeq
      <3>3. /\ T \in Seq(Item) /\ Len(T) = Len(R) - 1
            /\ \A j \in 1..Len(T) : T[j] = R[j + 1]
        BY <3>1, <3>2, HeadTailProperties
      <3> HIDE DEF T
      <3>4. Len(T) = Len(q) /\ \A j \in 1..Len(T) : j + 1 \in 2..Len(R) /\ (j + 1) - 1 = j
        BY <1>1, <3>1, <3>3
      <3>5. T = q
        BY <3>1, <3>3, <3>4, SeqEqual
      <3> QED
        BY <3>5 DEF T
    <2> HIDE DEF found, i, R
    <2>6. InsertBefore(q, x, m) = IF Len(q) < scrollbackSplitLimit THEN R ELSE Tail(R)
      BY <1>3, <2>2, <2>3, <2>5
    <2> QED
      BY <2>4, <2>6 DEF R
  <1> QED
    BY <1>2, <1>3

\* The room for one more is made at the front.
LEMMA AddsAndGivesWay ==
    ASSUME NEW S, NEW L, NEW q, NEW k \in Nat, CanFill(S, L), k + 1 <= Len(L),
           Filling(S, L, q, k), Len(q) <= scrollbackSplitLimit,
           L[k + 1].id \notin Ids(S),
           \A e \in Elements(S) : IsFirst(e) => e.id < L[k + 1].id,
           \A n \in Ids(S) : n \notin Ids(q) => n < L[k + 1].id,
           NEW i \in 1..(Len(q) + 1), Fits(q, i, L[k + 1])
    PROVE  LET R == Inserted(q, i, L[k + 1]) IN
           /\ Len(q) < scrollbackSplitLimit =>
                 Filling(S, L, R, k + 1) /\ Len(R) <= scrollbackSplitLimit
           /\ ~(Len(q) < scrollbackSplitLimit) =>
                 Filling(S, L, Tail(R), k + 1) /\ Len(Tail(R)) <= scrollbackSplitLimit
  <1> DEFINE R == Inserted(q, i, L[k + 1])
  <1>1. Filling(S, L, R, k + 1) /\ Len(R) = Len(q) + 1
    BY Adds
  <1>2. Len(q) \in Nat
    BY QueueIs DEF Filling, Ordered
  <1> HIDE DEF R
  <1>3. Len(q) < scrollbackSplitLimit => Len(R) <= scrollbackSplitLimit
    BY <1>1, <1>2, LimitIs
  <1>4. ASSUME ~(Len(q) < scrollbackSplitLimit)
        PROVE  Filling(S, L, Tail(R), k + 1) /\ Len(Tail(R)) <= scrollbackSplitLimit
    <2>1. Len(R) = scrollbackSplitLimit + 1
      BY <1>1, <1>2, <1>4, LimitIs
    <2> DEFINE l == k + 1
    <2>2. l \in Nat /\ l <= Len(L) /\ Filling(S, L, R, l)
      BY <1>1
    <2> HIDE DEF l
    <2>3. Filling(S, L, Tail(R), l) /\ Len(Tail(R)) = scrollbackSplitLimit
      BY <2>1, <2>2, GivesWay
    <2> QED
      BY <2>3, LimitIs DEF l
  <1> QED
    BY <1>1, <1>3, <1>4 DEF R

\* Nothing in the snapshot is later: the message goes to the end.
LEMMA FillsAtEnd ==
    ASSUME NEW S, NEW L, NEW q, NEW k \in Nat, CanFill(S, L), k + 1 <= Len(L),
           Filling(S, L, q, k), Len(q) <= scrollbackSplitLimit,
           L[k + 1].id \notin Ids(S), Later(S, L[k + 1]) = {}
    PROVE  /\ Filling(S, L, PushBack(q, L[k + 1]), k + 1)
           /\ Len(PushBack(q, L[k + 1])) <= scrollbackSplitLimit
  <1> DEFINE m == L[k + 1]
             n == Len(q) + 1
             R == Inserted(q, n, m)
  <1>1. /\ q \in Seq(Item) /\ S \in Seq(Item) /\ L \in Seq(Item)
        /\ Len(q) \in Nat /\ Len(L) \in Nat
    BY QueueIs DEF Filling, CanFill, Ordered
  <1>2. k + 1 \in 1..Len(L)
    BY <1>1
  <1>3. m \in Item /\ m.id \in Nat /\ m.from = "gap"
    BY <1>1, <1>2, QueueIs DEF CanFill
  <1>4. \A e \in Elements(S) : e.id # 0 => e.id < m.id
    <2> SUFFICES ASSUME NEW j \in 1..Len(S), S[j].id # 0 PROVE S[j].id < m.id
      BY DEF Elements
    <2>1. ~(S[j].id > m.id)
      BY DEF Later
    <2>2. S[j].id \in Nat /\ S[j].id \in Ids(S)
      BY <1>1, QueueIs, IdsAre
    <2>3. S[j].id # m.id
      BY <2>2
    <2> HIDE DEF m
    <2> QED
      BY <1>3, <2>1, <2>2, <2>3
  <1>5. \A e \in Elements(S) : IsFirst(e) => e.id < m.id
    BY <1>1, <1>4, QueueIs DEF Item, IsFirst
  <1>6. \A j \in Ids(S) : j < m.id
    BY <1>1, <1>4, IdsAre
  <1>7. Upto(L, k) \subseteq {L[j].id : j \in 1..k} /\ \A j \in Upto(L, k) : j < m.id
    <2>1. \A j \in 1..k : j \in 1..Len(L) /\ j < k + 1
      BY <1>1
    <2> QED
      BY <1>2, <2>1 DEF CanFill, Upto
  <1>8. Fits(q, n, m)
    <2>1. ASSUME NEW j \in 1..(n - 1), q[j].id # 0 PROVE Earlier(q[j], m)
      <3>1. j \in 1..Len(q) /\ q[j] \in Elements(q)
        BY <1>1, <2>1, QueueIs
      <3>2. q[j].id < m.id
        <4> HIDE DEF m
        <4> QED
          BY <1>4, <1>7, <2>1, <3>1 DEF Filling, Origin
      <3> QED
        BY <1>3, <3>2 DEF Earlier, IsFirst
    <2>2. n..Len(q) = {}
      BY <1>1
    <2> HIDE DEF n, m
    <2> QED
      BY <2>1, <2>2 DEF Fits
  <1>9. n \in 1..(Len(q) + 1)
    BY <1>1
  <1>10. /\ Len(q) < scrollbackSplitLimit =>
               Filling(S, L, R, k + 1) /\ Len(R) <= scrollbackSplitLimit
         /\ ~(Len(q) < scrollbackSplitLimit) =>
               Filling(S, L, Tail(R), k + 1) /\ Len(Tail(R)) <= scrollbackSplitLimit
    BY <1>5, <1>6, <1>8, <1>9, AddsAndGivesWay
  <1>11. PushBack(q, m) = IF Len(q) < scrollbackSplitLimit THEN R ELSE Tail(R)
    BY <1>1, <1>3, PushBackInserts
  <1> HIDE DEF R
  <1>12. CASE Len(q) < scrollbackSplitLimit
    <2>1. PushBack(q, m) = R
      BY <1>11, <1>12
    <2> QED
      BY <1>10, <1>12, <2>1
  <1>13. CASE ~(Len(q) < scrollbackSplitLimit)
    <2>1. PushBack(q, m) = Tail(R)
      BY <1>11, <1>13
    <2> QED
      BY <1>10, <1>13, <2>1
  <1> QED
    BY <1>12, <1>13

\* x is the first message of the snapshot that is later than m.
FirstLater(S, m, x) ==
    /\ x \in Elements(S) /\ x.id > m.id
    /\ \A y \in Elements(S) : y.id > m.id => y = x \/ Earlier(x, y)

LEMMA FirstLaterIs ==
    ASSUME NEW S, Ordered(S), NEW m \in Item, Later(S, m) # {}
    PROVE  FirstLater(S, m, S[CHOOSE i \in Later(S, m) : \A j \in Later(S, m) : i <= j])
  <1> DEFINE T == Later(S, m)
             i == CHOOSE j \in T : \A k \in T : j <= k
  <1>1. S \in Seq(Item) /\ Sorted(S) /\ m.id \in Nat
    BY DEF Ordered, Item
  <1>2. i \in T /\ \A j \in T : i <= j
    <2>1. T \in SUBSET Nat /\ T # {}
      BY DEF Later
    <2> HIDE DEF T
    <2>2. \E j \in T : \A k \in T : j <= k
      BY <2>1, Least
    <2> QED
      BY <2>2
  <1> HIDE DEF i
  <1>3. i \in 1..Len(S) /\ S[i].id > m.id
    BY <1>2 DEF Later
  <1> DEFINE x == S[i]
  <1>4. ASSUME NEW j \in 1..Len(S), S[j].id > m.id PROVE S[j] = x \/ Earlier(x, S[j])
    <2>1. i <= j
      BY <1>2, <1>4 DEF Later
    <2>2. S[i].id # 0 /\ S[j].id # 0 /\ i \in Nat /\ j \in Nat
      BY <1>1, <1>3, <1>4, QueueIs
    <2>3. i = j \/ i < j
      BY <2>1, <2>2
    <2> QED
      BY <1>1, <1>3, <2>2, <2>3 DEF Sorted
  <1>5. FirstLater(S, m, x)
    BY <1>3, <1>4 DEF FirstLater, Elements
  <1> QED
    BY <1>5 DEF i

\* The first later message belongs to the first load: there is no space, and the
\* message would go in front of everything.
LEMMA NotBeforeFirsts ==
    ASSUME NEW S, NEW L, NEW q, NEW k \in Nat, CanFill(S, L), k + 1 <= Len(L),
           Filling(S, L, q, k), Len(q) <= scrollbackSplitLimit,
           L[k + 1].id \notin Ids(S),
           NEW x, FirstLater(S, L[k + 1], x), IsFirst(x)
    PROVE  /\ Filling(S, L, InsertBefore(q, x, L[k + 1]), k + 1)
           /\ Len(InsertBefore(q, x, L[k + 1])) <= scrollbackSplitLimit
  <1> DEFINE m == L[k + 1]
  <1>1. /\ q \in Seq(Item) /\ S \in Seq(Item) /\ L \in Seq(Item)
        /\ Len(q) \in Nat /\ Len(S) \in Nat /\ Len(L) \in Nat /\ Len(S) <= Len(q)
    BY QueueIs DEF Filling, CanFill, Ordered
  <1>2. k + 1 \in 1..Len(L)
    BY <1>1
  <1>3. m \in Item /\ m.id \in Nat
    BY <1>1, <1>2, QueueIs
  <1>4. x \in Elements(S) /\ x.id > m.id /\ x \in Item /\ x.id \in Nat /\ x.id # 0
    BY <1>1, <1>3, IdsAre DEF FirstLater
  <1>5. Len(S) = scrollbackSplitLimit /\ \A e \in Elements(S) : IsFirst(e) => m.id < e.id
    <2>1. ~(x.id < m.id)
      BY <1>3, <1>4
    <2> HIDE DEF m
    <2> QED
      BY <1>2, <1>4, <2>1 DEF CanFill, m
  <1>6. Len(q) = scrollbackSplitLimit
    BY <1>1, <1>5, LimitIs
  <1>7. \A a \in Ids(q) : a \notin Ids(S) => m.id < a
    <2> SUFFICES ASSUME NEW a \in Ids(q), a \notin Ids(S) PROVE m.id < a
      OBVIOUS
    <2>1. PICK e \in Elements(q) : e.id = a /\ a \in Nat /\ a # 0
      BY <1>1, IdsAre
    <2>2. e \notin Elements(S)
      BY <1>1, <2>1, IdsAre
    <2>3. x.id < a
      BY <1>4, <2>1, <2>2 DEF Filling, Origin
    <2> HIDE DEF m
    <2> QED
      BY <1>3, <1>4, <2>1, <2>3
  <1>8. Filling(S, L, q, k + 1)
    BY <1>6, <1>7, Skipped
  <1>9. InsertBefore(q, x, m) = q
    <2>1. CASE x \notin Elements(q)
      BY <1>1, <1>3, <2>1, InsertBeforeInserts DEF Elements
    <2>2. CASE x \in Elements(q)
      <3>1. PICK i \in 1..Len(q) :
                /\ q[i] = x
                /\ \A j \in 1..Len(q) : q[j] = x => i <= j
        <4> DEFINE T == {j \in 1..Len(q) : q[j] = x}
        <4>1. T \in SUBSET Nat /\ T # {}
          BY <2>2 DEF Elements
        <4>2. PICK i \in T : \A j \in T : i <= j
          <5> HIDE DEF T
          <5> QED
            BY <4>1, Least
        <4> QED
          BY <4>2
      <3>2. q[1] = x
        <4>1. CASE i = 1
          BY <3>1, <4>1
        <4>2. CASE i # 1
          <5>1. 1 < i /\ 1 \in 1..Len(q)
            BY <1>1, <4>2
          <5>2. IsFirst(q[1]) /\ q[1].id # 0 /\ q[1] \in Elements(q) /\ q[1].id \in Nat
            BY <1>1, <3>1, <5>1, QueueIs DEF Filling, Ordered, FirstsLead
          <5>3. Earlier(q[1], x)
            BY <1>4, <3>1, <5>1, <5>2 DEF Filling, Ordered, Sorted
          <5>4. q[1] \in Elements(S)
            BY <5>2 DEF Filling, Origin, IsFirst
          <5>5. m.id < q[1].id
            BY <1>5, <5>2, <5>4
          <5>6. q[1] = x \/ Earlier(x, q[1])
            <6> HIDE DEF m
            <6> QED
              BY <1>3, <5>2, <5>4, <5>5 DEF FirstLater, m
          <5>7. ~Earlier(x, q[1])
            BY <1>4, <5>2, <5>3 DEF Earlier
          <5> QED
            BY <5>6, <5>7
        <4> QED
          BY <4>1, <4>2
      <3>3. \A j \in 1..Len(q) : q[j] = x => j = 1
        <4> SUFFICES ASSUME NEW j \in 1..Len(q), q[j] = x, j # 1 PROVE FALSE
          OBVIOUS
        <4>1. 1 < j /\ 1 \in 1..Len(q)
          BY <1>1
        <4>2. Earlier(x, x)
          BY <1>4, <3>2, <4>1 DEF Filling, Ordered, Sorted
        <4> QED
          BY <1>4, <4>2 DEF Earlier
      <3> DEFINE found == {j \in 1..Len(q) : q[j] = x}
      <3>4. found = {1}
        <4>1. 1 \in 1..Len(q)
          BY <1>1, <1>6, LimitIs
        <4> QED
          BY <3>2, <3>3, <4>1
      <3>5. (CHOOSE j \in found : \A n \in found : j <= n) = 1
        <4> HIDE DEF found
        <4> QED
          BY <3>4
      <3>6. Space(q) = 0 /\ ~(Space(q) > 0)
        BY <1>6, LimitIs DEF Space
      <3>7. found # {}
        BY <3>4
      <3> HIDE DEF m
      <3>8. InsertBefore(q, x, m) =
                CASE found = {} -> q
                  [] found # {} /\ Space(q) > 0 ->
                        Inserted(q, CHOOSE j \in found : \A n \in found : j <= n, m)
                  [] found # {} /\ Space(q) = 0
                        /\ (CHOOSE j \in found : \A n \in found : j <= n) = 1 -> q
                  [] OTHER -> Tail(Inserted(q, CHOOSE j \in found : \A n \in found : j <= n, m))
        BY DEF InsertBefore
      <3> HIDE DEF found
      <3> QED
        BY <3>5, <3>6, <3>7, <3>8
    <2> QED
      BY <2>1, <2>2
  <1> QED
    BY <1>8, <1>9

\* The first later message is behind what the first load brought: the message goes
\* in front of it, or is older than what there is space for.
LEMMA BeforeOthers ==
    ASSUME NEW S, NEW L, NEW q, NEW k \in Nat, CanFill(S, L), k + 1 <= Len(L),
           Filling(S, L, q, k), Len(q) <= scrollbackSplitLimit,
           L[k + 1].id \notin Ids(S),
           NEW x, FirstLater(S, L[k + 1], x), ~IsFirst(x)
    PROVE  /\ Filling(S, L, InsertBefore(q, x, L[k + 1]), k + 1)
           /\ Len(InsertBefore(q, x, L[k + 1])) <= scrollbackSplitLimit
  <1> DEFINE m == L[k + 1]
             Q == InsertBefore(q, x, m)
  <1>1. /\ q \in Seq(Item) /\ S \in Seq(Item) /\ L \in Seq(Item)
        /\ Len(q) \in Nat /\ Len(S) \in Nat /\ Len(L) \in Nat /\ Sorted(q)
    BY QueueIs DEF Filling, CanFill, Ordered
  <1>2. k + 1 \in 1..Len(L)
    BY <1>1
  <1>3. m \in Item /\ m.id \in Nat /\ m.from = "gap" /\ ~IsFirst(m) /\ m.id \notin Ids(S)
    BY <1>1, <1>2, QueueIs DEF CanFill, IsFirst
  <1>4. \A j \in Upto(L, k) : j < m.id
    <2>1. \A j \in 1..k : j \in 1..Len(L) /\ j < k + 1
      BY <1>1
    <2> QED
      BY <1>2, <2>1 DEF CanFill, Upto
  <1>5. (\A e \in Elements(S) : IsFirst(e) => e.id < m.id)
        \/ (\A e \in Elements(S) : IsFirst(e) => m.id < e.id)
    BY <1>2, <1>3 DEF CanFill
  <1>6. FirstLater(S, m, x)
    OBVIOUS
  <1> HIDE DEF m
  <1>7. x \in Elements(S) /\ x.id > m.id /\ x \in Item /\ x.id \in Nat /\ x.id # 0
    BY <1>1, <1>3, <1>6, IdsAre DEF FirstLater
  <1>8. \A e \in Elements(S) : IsFirst(e) => e.id < m.id
    <2> SUFFICES ASSUME NEW e \in Elements(S), IsFirst(e), m.id < e.id PROVE FALSE
      BY <1>5
    <2>1. e = x \/ Earlier(x, e)
      BY <1>1, <1>3, <1>6, IdsAre DEF FirstLater
    <2> QED
      BY <2>1, <1>7 DEF Earlier
  \* What is later is x, or after x.
  <1>9. \A y \in Elements(S) : y.id > m.id =>
            y = x \/ (Earlier(x, y) /\ ~IsFirst(y) /\ x.id < y.id)
    BY <1>6 DEF FirstLater, Earlier
  <1>10. CASE x \notin Elements(q)
    <2>1. Q = q
      BY <1>1, <1>3, <1>10, InsertBeforeInserts DEF Elements
    <2>2. Len(q) = scrollbackSplitLimit
      BY <1>1, <1>7, <1>10, LimitIs DEF Filling, KeepsAll
    <2>3. x.id \notin Ids(q)
      <3> SUFFICES ASSUME NEW e \in Elements(q), e.id = x.id PROVE FALSE
        BY <1>1, IdsAre
      <3>1. x.id \in Ids(S)
        BY <1>1, <1>7, IdsAre
      <3>2. e \in Elements(S)
        BY <3>1 DEF Filling, Origin
      <3>3. e = x
        BY <1>7, <1>9, <3>2
      <3> QED
        BY <1>10, <3>3
    <2>4. \A a \in Ids(q) : a \notin Ids(S) => x.id < a
      BY <1>1, <1>7, <2>3, IdsAre DEF Filling, LosesOlder
    <2>5. \A a \in Ids(q) : a \notin Ids(S) => m.id < a
      BY <1>1, <1>3, <1>7, <2>4, IdsAre
    <2>6. Filling(S, L, q, k + 1)
      BY <2>2, <2>5, Skipped DEF m
    <2> QED
      BY <2>1, <2>6 DEF m
  <1>11. CASE x \in Elements(q)
    <2>1. PICK i \in 1..Len(q) :
              /\ q[i] = x
              /\ Q = IF Len(q) < scrollbackSplitLimit THEN Inserted(q, i, m)
                     ELSE Tail(Inserted(q, i, m))
      BY <1>1, <1>3, <1>11, InsertBeforeInserts
    <2>2. i \in 1..(Len(q) + 1)
      BY <1>1
    <2>3. \A n \in Ids(S) : n \notin Ids(q) => n < m.id
      <3> SUFFICES ASSUME NEW y \in Elements(S), y.id \notin Ids(q), y.id # 0,
                          ~(y.id < m.id)
                   PROVE  FALSE
        BY <1>1, IdsAre
      <3>1. y.id \in Nat /\ y.id \in Ids(S)
        BY <1>1, IdsAre
      <3>2. y.id > m.id
        BY <1>3, <3>1
      <3>3. y \in Elements(q)
        BY <1>7, <1>9, <1>11, <3>2 DEF Filling, KeepsNewer
      <3> QED
        BY <1>1, <3>3, IdsAre
    <2>4. Fits(q, i, m)
      <3>1. ASSUME NEW j \in 1..(i - 1), q[j].id # 0 PROVE Earlier(q[j], m)
        <4>1. j \in 1..Len(q) /\ j < i
          BY <1>1
        <4>2. q[j] \in Elements(q) /\ q[j].id \in Nat
          BY <1>1, <4>1, QueueIs
        <4>3. Earlier(q[j], x)
          BY <1>1, <1>7, <2>1, <3>1, <4>1 DEF Sorted
        <4>4. CASE IsFirst(q[j])
          BY <1>3, <4>4 DEF Earlier
        <4>5. CASE ~IsFirst(q[j])
          <5>1. q[j].id < x.id
            BY <4>3, <4>5 DEF Earlier
          <5>2. q[j].id < m.id
            <6>1. CASE q[j] \in Elements(S)
              <7>1. ~(q[j].id > m.id)
                BY <1>7, <1>9, <4>2, <5>1, <6>1
              <7>2. q[j].id # m.id
                BY <1>1, <1>3, <3>1, <6>1, IdsAre
              <7> QED
                BY <1>3, <4>2, <7>1, <7>2
            <6>2. CASE q[j] \notin Elements(S)
              BY <1>4, <4>2, <6>2 DEF Filling, Origin
            <6> QED
              BY <6>1, <6>2
          <5> QED
            BY <1>3, <4>5, <5>2 DEF Earlier
        <4> QED
          BY <4>4, <4>5
      <3>2. ASSUME NEW j \in i..Len(q)
            PROVE  ~IsFirst(q[j]) /\ (q[j].id # 0 => Earlier(m, q[j]))
        <4>1. j \in 1..Len(q) /\ (j = i \/ i < j)
          BY <1>1
        <4>2. CASE j = i
          BY <1>3, <1>7, <2>1, <4>2 DEF Earlier
        <4>3. CASE i < j
          <5>1. q[j].id \in Nat /\ (IsFirst(q[j]) => q[j].id # 0)
            BY <1>1, <4>1, QueueIs
          <5>2. q[j].id # 0 => Earlier(x, q[j])
            BY <1>1, <1>7, <2>1, <4>1, <4>3 DEF Sorted
          <5> QED
            BY <1>3, <1>7, <5>1, <5>2 DEF Earlier
        <4> QED
          BY <4>1, <4>2, <4>3
      <3> QED
        BY <3>1, <3>2 DEF Fits
    <2> DEFINE R == Inserted(q, i, m)
    <2>5. /\ Len(q) < scrollbackSplitLimit =>
                Filling(S, L, R, k + 1) /\ Len(R) <= scrollbackSplitLimit
          /\ ~(Len(q) < scrollbackSplitLimit) =>
                Filling(S, L, Tail(R), k + 1) /\ Len(Tail(R)) <= scrollbackSplitLimit
      BY <1>3, <1>8, <2>2, <2>3, <2>4, AddsAndGivesWay DEF m
    <2> HIDE DEF R, Q
    <2>6. CASE Len(q) < scrollbackSplitLimit
      <3>1. Q = R
        BY <2>1, <2>6 DEF R
      <3> QED
        BY <2>5, <2>6, <3>1 DEF Q, m
    <2>7. CASE ~(Len(q) < scrollbackSplitLimit)
      <3>1. Q = Tail(R)
        BY <2>1, <2>7 DEF R
      <3> QED
        BY <2>5, <2>7, <3>1 DEF Q, m
    <2> QED
      BY <2>6, <2>7
  <1> QED
    BY <1>10, <1>11

LEMMA FillOneKeeps ==
    ASSUME NEW S, NEW L, NEW q, NEW k \in Nat, CanFill(S, L), k + 1 <= Len(L),
           Filling(S, L, q, k), Len(q) <= scrollbackSplitLimit
    PROVE  /\ Filling(S, L, FillOne(S, q, L[k + 1]), k + 1)
           /\ Len(FillOne(S, q, L[k + 1])) <= scrollbackSplitLimit
  <1> DEFINE m == L[k + 1]
             x == S[CHOOSE i \in Later(S, m) : \A j \in Later(S, m) : i <= j]
  <1>1. CASE m.id \in Ids(S)
    <2>1. FillOne(S, q, m) = q
      BY <1>1 DEF FillOne
    <2> QED
      BY <1>1, <2>1, Skipped
  <1>2. CASE m.id \notin Ids(S) /\ Later(S, m) = {}
    <2>1. FillOne(S, q, m) = PushBack(q, m)
      BY <1>2 DEF FillOne
    <2> QED
      BY <1>2, <2>1, FillsAtEnd
  <1>3. CASE m.id \notin Ids(S) /\ Later(S, m) # {}
    <2>1. FillOne(S, q, m) = InsertBefore(q, x, m)
      BY <1>3 DEF FillOne
    <2>2. m \in Item
      <3>1. L \in Seq(Item) /\ Len(L) \in Nat
        BY QueueIs DEF CanFill
      <3>2. k + 1 \in 1..Len(L)
        BY <3>1
      <3> QED
        BY <3>1, <3>2, QueueIs
    <2>3. FirstLater(S, m, x)
      <3> HIDE DEF m
      <3> QED
        BY <1>3, <2>2, FirstLaterIs DEF CanFill
    <2> HIDE DEF x
    <2> QED
      BY <1>3, <2>1, <2>3, NotBeforeFirsts, BeforeOthers
  <1> QED
    BY <1>1, <1>2, <1>3

\* The recursive function of Filled exists: it is built round by round.
LEMMA FilledRound ==
    ASSUME NEW S, NEW L, Len(L) \in Nat
    PROVE  \E filled :
               /\ filled[0] = S
               /\ \A k \in 1..Len(L) : filled[k] = FillOne(S, filled[k - 1], L[k])
               /\ Filled(S, L) = filled[Len(L)]
  <1> DEFINE Value(f, k) == IF k = 0 THEN S ELSE FillOne(S, f[k - 1], L[k])
             Is(f, n) == f = [k \in 0..n |-> Value(f, k)]
             T == {n \in Nat : \E f : Is(f, n)}
  <1>1. 0 \in T
    <2>1. Is([k \in 0..0 |-> S], 0)
      OBVIOUS
    <2> QED
      BY <2>1
  <1>2. ASSUME NEW n \in Nat, n \in T PROVE n + 1 \in T
    <2>1. PICK f : Is(f, n)
      BY <1>2
    <2> DEFINE g == [k \in 0..(n + 1) |-> IF k = n + 1 THEN Value(f, n + 1) ELSE f[k]]
    <2>2. \A k \in 0..n : f[k] = Value(f, k)
      <3> HIDE DEF Value
      <3> QED
        BY <2>1
    <2>3. \A k \in 0..(n + 1) : Value(g, k) = Value(f, k)
      <3> TAKE k \in 0..(n + 1)
      <3>1. CASE k = 0
        BY <3>1
      <3>2. CASE k # 0
        <4>1. k - 1 \in 0..(n + 1) /\ k - 1 # n + 1
          BY <3>2
        <4>2. g[k - 1] = f[k - 1]
          BY <4>1
        <4> HIDE DEF g
        <4> QED
          BY <3>2, <4>2
      <3> QED
        BY <3>1, <3>2
    <2>4. \A k \in 0..(n + 1) : g[k] = Value(f, k)
      <3> HIDE DEF Value
      <3> TAKE k \in 0..(n + 1)
      <3>1. k = n + 1 \/ k \in 0..n
        OBVIOUS
      <3> QED
        BY <2>2, <3>1
    <2>5. \A k \in 0..(n + 1) : g[k] = Value(g, k)
      <3> HIDE DEF Value, g
      <3> QED
        BY <2>3, <2>4
    <2>6. g = [k \in 0..(n + 1) |-> g[k]]
      OBVIOUS
    <2>7. Is(g, n + 1)
      <3> HIDE DEF Value, g
      <3> QED
        BY <2>5, <2>6
    <2> HIDE DEF Is
    <2> QED
      BY <2>7
  <1>3. Nat \subseteq T
    <2> HIDE DEF T
    <2> QED
      BY <1>1, <1>2, Induction
  <1> DEFINE filled == CHOOSE f : Is(f, Len(L))
  <1>4. Is(filled, Len(L))
    <2>1. \E f : Is(f, Len(L))
      <3> HIDE DEF Is
      <3> QED
        BY <1>3
    <2> QED
      BY <2>1
  <1>5. Filled(S, L) = filled[Len(L)]
    BY DEF Filled
  <1>6. \A k \in 0..Len(L) : filled[k] = Value(filled, k)
    <2> HIDE DEF filled, Value
    <2> QED
      BY <1>4
  <1>7. filled[0] = S
    <2>1. 0 \in 0..Len(L)
      OBVIOUS
    <2> HIDE DEF filled
    <2> QED
      BY <1>6, <2>1
  <1>8. ASSUME NEW k \in 1..Len(L) PROVE filled[k] = FillOne(S, filled[k - 1], L[k])
    <2>1. k \in 0..Len(L) /\ k # 0
      OBVIOUS
    <2> HIDE DEF filled
    <2> QED
      BY <1>6, <2>1
  <1> HIDE DEF filled
  <1> QED
    BY <1>5, <1>7, <1>8

\* The whole load
LEMMA FilledKeeps ==
    ASSUME NEW S, NEW L, CanFill(S, L)
    PROVE  Filling(S, L, Filled(S, L), Len(L)) /\ Len(Filled(S, L)) <= scrollbackSplitLimit
  <1> DEFINE n == Len(L)
             Kept(q, k) == Filling(S, L, q, k) /\ Len(q) <= scrollbackSplitLimit
  <1>1. n \in Nat /\ S \in Seq(Item) /\ Len(S) \in Nat
    BY QueueIs DEF CanFill, Ordered
  <1>2. PICK filled :
            /\ filled[0] = S
            /\ \A k \in 1..n : filled[k] = FillOne(S, filled[k - 1], L[k])
            /\ Filled(S, L) = filled[n]
    BY <1>1, FilledRound
  <1> HIDE DEF n
  <1> DEFINE T == {k \in Nat : k <= n => Kept(filled[k], k)}
  <1>3. 0 \in T
    <2>1. Upto(L, 0) = {}
      BY DEF Upto
    <2>2. /\ Ordered(S) /\ Len(S) <= Len(S) /\ Origin(S, L, S, 0) /\ KeepsNewer(S, S)
          /\ KeepsAll(S, L, S, 0)
      BY <1>1, <2>1 DEF CanFill, Origin, KeepsNewer, KeepsAll
    <2>3. LosesOlder(S, L, S, 0)
      BY <2>1 DEF LosesOlder
    <2>4. Filling(S, L, S, 0)
      BY <2>2, <2>3 DEF Filling
    <2> QED
      BY <1>2, <2>4 DEF CanFill
  <1>4. ASSUME NEW k \in Nat, k \in T PROVE k + 1 \in T
    <2> SUFFICES ASSUME k + 1 <= n PROVE Kept(filled[k + 1], k + 1)
      OBVIOUS
    <2>1. k <= n /\ k + 1 \in 1..n /\ (k + 1) - 1 = k
      BY <1>1
    <2>2. filled[k + 1] = FillOne(S, filled[k], L[k + 1])
      BY <1>2, <2>1
    <2>3. Kept(filled[k], k)
      BY <1>4, <2>1
    <2>4. Kept(FillOne(S, filled[k], L[k + 1]), k + 1)
      BY <2>3, FillOneKeeps DEF n
    <2> HIDE DEF Kept
    <2> QED
      BY <2>2, <2>4
  <1>5. Kept(filled[n], n)
    <2>1. Nat \subseteq T
      <3> HIDE DEF T
      <3> QED
        BY <1>3, <1>4, Induction
    <2> QED
      BY <1>1, <2>1
  <1> QED
    BY <1>2, <1>5 DEF n
-----------------------------------------------------------------------------
(* What the queue is, when c messages were sent in the chat. *)

\* What is left of the first load is without a gap.
FirstsTogether(q) ==
    \A a, b \in Elements(q) : IsFirst(a) /\ IsFirst(b) =>
        \A n \in a.id..b.id : \E e \in Elements(q) : IsFirst(e) /\ e.id = n

\* While there is space, all of it is left.
FirstsComplete(q) ==
    Len(q) < scrollbackSplitLimit =>
        \A b \in Elements(q) : IsFirst(b) =>
            \E a, c \in Elements(q) :
                /\ IsFirst(a) /\ IsFirst(c)
                /\ a.id <= 1 \/ a.id + historyLimit <= c.id + 1

NoTwin(q) == \A a, b \in Elements(q) : a.from = "gap" /\ IsFirst(b) => a.id # b.id

Queue(q, c) ==
    /\ Ordered(q) /\ Len(q) <= scrollbackSplitLimit
    /\ \A e \in Elements(q) : e.id <= c
    /\ FirstsTogether(q) /\ FirstsComplete(q) /\ NoTwin(q)

\* Nothing is added to the first load, and nothing is lost but the oldest.
LEMMA QueueKeeps ==
    ASSUME NEW q, NEW P, NEW c, NEW d, Queue(q, c),
           Ordered(P), Len(q) <= Len(P), Len(P) <= scrollbackSplitLimit,
           \A e \in Elements(P) : e.id <= d,
           \A e \in Elements(P) : IsFirst(e) => e \in Elements(q),
           KeepsNewer(q, P), NoTwin(P),
           Len(P) < scrollbackSplitLimit =>
               \A e \in Elements(q) : e.id # 0 => e \in Elements(P)
    PROVE  Queue(P, d)
  <1>1. /\ q \in Seq(Item) /\ P \in Seq(Item) /\ Len(q) \in Nat /\ Len(P) \in Nat
    BY QueueIs DEF Queue, Ordered
  <1>2. \A e \in Elements(q) : e.id \in Nat /\ (IsFirst(e) => e.id # 0)
    BY <1>1, QueueIs DEF Item, IsFirst
  <1>3. FirstsTogether(P)
    <2> SUFFICES ASSUME NEW a \in Elements(P), NEW b \in Elements(P), IsFirst(a), IsFirst(b),
                        NEW n \in a.id..b.id
                 PROVE  \E e \in Elements(P) : IsFirst(e) /\ e.id = n
      BY DEF FirstsTogether
    <2>1. a \in Elements(q) /\ b \in Elements(q)
      OBVIOUS
    <2>2. PICK e \in Elements(q) : IsFirst(e) /\ e.id = n
      BY <2>1 DEF Queue, FirstsTogether
    <2>3. CASE n = a.id
      BY <2>3
    <2>4. CASE n # a.id
      <3>1. Earlier(a, e)
        BY <1>2, <2>1, <2>2, <2>4 DEF Earlier
      <3>2. e \in Elements(P)
        BY <1>2, <2>1, <2>2, <3>1 DEF KeepsNewer
      <3> QED
        BY <2>2, <3>2
    <2> QED
      BY <2>3, <2>4
  <1>4. FirstsComplete(P)
    <2> SUFFICES ASSUME Len(P) < scrollbackSplitLimit, NEW b \in Elements(P), IsFirst(b)
                 PROVE  \E a, c_1 \in Elements(P) :
                            /\ IsFirst(a) /\ IsFirst(c_1)
                            /\ a.id <= 1 \/ a.id + historyLimit <= c_1.id + 1
      BY DEF FirstsComplete
    <2>1. Len(q) < scrollbackSplitLimit
      BY <1>1, LimitIs
    <2>2. b \in Elements(q)
      OBVIOUS
    <2>3. PICK a \in Elements(q), z \in Elements(q) :
              /\ IsFirst(a) /\ IsFirst(z)
              /\ a.id <= 1 \/ a.id + historyLimit <= z.id + 1
      BY <2>1, <2>2 DEF Queue, FirstsComplete
    <2>4. a \in Elements(P) /\ z \in Elements(P)
      BY <1>2, <2>3
    <2> QED
      BY <2>3, <2>4
  <1> QED
    BY <1>3, <1>4 DEF Queue

LEMMA PushedBack ==
    ASSUME NEW q, Ordered(q), Len(q) <= scrollbackSplitLimit,
           NEW m \in Item, ~IsFirst(m),
           m.id # 0 => \A e \in Elements(q) : e.id < m.id
    PROVE  LET P == PushBack(q, m) IN
           /\ Ordered(P) /\ Len(q) <= Len(P) /\ Len(P) <= scrollbackSplitLimit
           /\ Elements(P) \subseteq Elements(q) \cup {m}
           /\ KeepsNewer(q, P)
           /\ Len(P) < scrollbackSplitLimit => Elements(P) = Elements(q) \cup {m}
  <1> DEFINE n == Len(q) + 1
             R == Inserted(q, n, m)
             P == PushBack(q, m)
  <1>1. q \in Seq(Item) /\ Len(q) \in Nat
    BY QueueIs DEF Ordered
  <1>2. n \in 1..(Len(q) + 1)
    BY <1>1
  <1>3. Fits(q, n, m)
    <2>1. \A j \in 1..(n - 1) : j \in 1..Len(q) /\ q[j] \in Elements(q)
      BY <1>1, QueueIs
    <2>2. n..Len(q) = {}
      BY <1>1
    <2> HIDE DEF n
    <2>3. \A e \in Elements(q) : m.id # 0 => Earlier(e, m)
      BY DEF Earlier
    <2> QED
      BY <2>1, <2>2, <2>3 DEF Fits
  <1>4. Ordered(R) /\ Len(R) = Len(q) + 1 /\ Elements(R) = Elements(q) \cup {m}
    BY <1>1, <1>2, <1>3, InsertedOrdered, InsertedIs
  <1>5. P = IF Len(q) < scrollbackSplitLimit THEN R ELSE Tail(R)
    BY <1>1, PushBackInserts
  <1> HIDE DEF R, P
  <1>6. CASE Len(q) < scrollbackSplitLimit
    <2>1. P = R
      BY <1>5, <1>6
    <2>2. Len(P) <= scrollbackSplitLimit /\ Len(q) <= Len(P)
      BY <1>1, <1>4, <1>6, <2>1, LimitIs
    <2>3. KeepsNewer(q, P)
      BY <1>4, <2>1 DEF KeepsNewer
    <2> QED
      BY <1>4, <2>1, <2>2, <2>3 DEF P
  <1>7. CASE ~(Len(q) < scrollbackSplitLimit)
    <2>1. P = Tail(R)
      BY <1>5, <1>7
    <2>2. Len(R) = scrollbackSplitLimit + 1 /\ Len(R) > 0
      BY <1>1, <1>4, <1>7, LimitIs
    <2>3. /\ Ordered(P) /\ Len(P) = Len(R) - 1
          /\ Elements(R) = Elements(P) \cup {R[1]}
          /\ \A e \in Elements(P) : R[1].id # 0 /\ e.id # 0 => Earlier(R[1], e)
      BY <1>4, <2>1, <2>2, TailOrdered
    <2>4. Len(P) = scrollbackSplitLimit /\ Len(q) <= Len(P)
      BY <1>1, <1>4, <2>2, <2>3, LimitIs
    <2>5. KeepsNewer(q, P)
      <3> SUFFICES ASSUME NEW a \in Elements(q), NEW b \in Elements(q), a.id # 0, b.id # 0,
                          Earlier(a, b), a \in Elements(P)
                   PROVE  b \in Elements(P)
        BY DEF KeepsNewer
      <3>1. a.id \in Nat /\ b.id \in Nat
        BY <1>1, IdsAre
      <3>2. b = R[1] => Earlier(b, a)
        BY <2>3
      <3> QED
        BY <1>4, <2>3, <3>1, <3>2 DEF Earlier
    <2>6. Elements(P) \subseteq Elements(q) \cup {m}
      BY <1>4, <2>3
    <2> QED
      BY <2>3, <2>4, <2>5, <2>6, LimitIs DEF P
  <1> QED
    BY <1>6, <1>7

\* pushBack() of a message that no load brought
LEMMA PushBackQueue ==
    ASSUME NEW q, NEW c \in Nat, NEW d \in Nat, Queue(q, c), c <= d,
           NEW m \in Item, m.from \notin {"first", "gap"}, m.id <= d,
           m.id # 0 => c < m.id
    PROVE  LET P == PushBack(q, m) IN
           /\ Queue(P, d) /\ Len(q) <= Len(P)
           /\ Elements(P) \subseteq Elements(q) \cup {m}
           /\ Len(P) < scrollbackSplitLimit => Elements(P) = Elements(q) \cup {m}
  <1> DEFINE P == PushBack(q, m)
  <1>1. Ordered(q) /\ q \in Seq(Item) /\ Len(q) <= scrollbackSplitLimit
        /\ \A e \in Elements(q) : e.id <= c /\ e.id \in Nat
    BY IdsAre DEF Queue, Ordered
  <1>2. ~IsFirst(m) /\ m.id \in Nat
    BY DEF IsFirst, Item
  <1>3. m.id # 0 => \A e \in Elements(q) : e.id < m.id
    BY <1>1, <1>2
  <1>4. /\ Ordered(P) /\ Len(q) <= Len(P) /\ Len(P) <= scrollbackSplitLimit
        /\ Elements(P) \subseteq Elements(q) \cup {m}
        /\ KeepsNewer(q, P)
        /\ Len(P) < scrollbackSplitLimit => Elements(P) = Elements(q) \cup {m}
    BY <1>1, <1>2, <1>3, PushedBack
  <1> HIDE DEF P
  <1>5. \A e \in Elements(P) : e.id <= d
    BY <1>1, <1>4
  <1>6. NoTwin(P)
    BY <1>2, <1>4 DEF Queue, NoTwin
  <1>7. Queue(P, d)
    BY <1>2, <1>4, <1>5, <1>6, QueueKeeps
  <1> QED
    BY <1>4, <1>7 DEF P

\* "reconnected" takes the place of "disconnected".
LEMMA ReplaceQueue ==
    ASSUME NEW q, NEW c \in Nat, Queue(q, c), Len(q) > 0, q[Len(q)].id = 0
    PROVE  LET P == [q EXCEPT ![Len(q)] = SystemMessage("system")] IN
           /\ Queue(P, c) /\ Len(P) = Len(q)
           /\ \A e \in Elements(P) : e \in Elements(q) \/ e = SystemMessage("system")
           /\ \A e \in Elements(q) : e.id # 0 => e \in Elements(P)
  <1> DEFINE n == Len(q)
             m == SystemMessage("system")
             P == [q EXCEPT ![n] = m]
  <1>1. Ordered(q) /\ q \in Seq(Item) /\ n \in Nat /\ n \in 1..n
    BY QueueIs DEF Queue, Ordered
  <1>2. m \in Item /\ m.id = 0 /\ ~IsFirst(m) /\ m.from # "gap"
    BY DEF SystemMessage, Item, IsFirst
  <1> HIDE DEF m
  <1>3. /\ P \in Seq(Item) /\ Len(P) = n
        /\ \A j \in 1..n : P[j] = IF j = n THEN m ELSE q[j]
    BY <1>1, <1>2, ExceptSeq
  <1>4. q[n].id = 0
    OBVIOUS
  <1> HIDE DEF P, n
  <1>5. \A e \in Elements(P) : e \in Elements(q) \/ e = m
    BY <1>3 DEF Elements, n
  <1>6. \A e \in Elements(q) : e.id # 0 => e \in Elements(P)
    BY <1>3, <1>4 DEF Elements, n
  <1>7. \A j \in 1..n : P[j].id # 0 => P[j] = q[j]
    BY <1>2, <1>3
  <1>8. Sorted(P)
    BY <1>1, <1>3, <1>7 DEF Ordered, Sorted, n
  <1>9. FirstsLead(P)
    <2> SUFFICES ASSUME NEW i \in 1..n, NEW j \in 1..n, i < j, IsFirst(P[j])
                 PROVE  IsFirst(P[i])
      BY <1>3 DEF FirstsLead
    <2>1. i # n /\ j # n
      BY <1>1, <1>2, <1>3
    <2> QED
      BY <1>1, <1>3, <2>1 DEF Ordered, FirstsLead, n
  <1>10. Ordered(P) /\ Len(q) <= Len(P) /\ Len(P) <= scrollbackSplitLimit
    BY <1>1, <1>3, <1>8, <1>9 DEF Ordered, Queue, n
  <1>11. \A e \in Elements(P) : e.id <= c
    BY <1>2, <1>5 DEF Queue
  <1>12. \A e \in Elements(P) : IsFirst(e) => e \in Elements(q)
    BY <1>2, <1>5
  <1>13. KeepsNewer(q, P)
    BY <1>6 DEF KeepsNewer
  <1>14. NoTwin(P)
    BY <1>2, <1>5 DEF Queue, NoTwin
  <1>15. Queue(P, c)
    BY <1>6, <1>10, <1>11, <1>12, <1>13, <1>14, QueueKeeps
  <1> QED
    BY <1>3, <1>5, <1>6, <1>15 DEF P, n, m
-----------------------------------------------------------------------------
(* The answer of the service. *)

Request == [kind : {"none", "first", "gap"}, after : Nat, before : Nat]

LEMMA LoadedIs ==
    ASSUME request \in Request, clock \in Nat, request.kind # "none", request.after <= Until
    PROVE  /\ Skips \in Nat /\ Until \in Nat
           /\ request.after <= Skips /\ Skips <= Until
           /\ Skips = request.after \/ Skips + historyLimit = Until
           /\ Until <= Skips + historyLimit
           /\ Loaded \in Seq(Item) /\ Len(Loaded) = Until - Skips
           /\ \A i \in 1..Len(Loaded) :
                 Loaded[i].id = Skips + i /\ Loaded[i].from = request.kind
           /\ Upto(Loaded, Len(Loaded)) = Answer
  <1>1. request.after \in Nat /\ request.before \in Nat /\ request.kind \in {"first", "gap"}
    BY DEF Request
  <1>2. Until \in Nat
    BY <1>1 DEF Until
  <1>3. /\ Skips \in Nat /\ request.after <= Skips /\ Skips <= Until
        /\ Skips = request.after \/ Skips + historyLimit = Until
        /\ Until <= Skips + historyLimit
    BY <1>1, <1>2, LimitIs DEF Skips
  <1> DEFINE n == Until - Skips
             kind == request.kind
             V(i) == ChatMessage(Skips + i, kind)
  <1>4. n \in Nat
    BY <1>2, <1>3
  <1>5. \A i \in 1..n : V(i) \in Item /\ V(i).id = Skips + i /\ V(i).from = kind
    BY <1>1, <1>3, <1>4 DEF ChatMessage, Item
  <1>6. Loaded = [i \in 1..n |-> V(i)]
    BY DEF Loaded
  <1> HIDE DEF V, n, kind
  <1>7. Loaded \in [1..n -> Item] /\ \A i \in 1..n : Loaded[i] = V(i)
    BY <1>5, <1>6
  <1>8. Loaded \in Seq(Item) /\ Len(Loaded) = n
    BY <1>4, <1>7, SeqDef, LenProperties
  <1>9. \A i \in 1..n : Loaded[i].id = Skips + i /\ Loaded[i].from = kind
    BY <1>5, <1>7
  <1>10. Upto(Loaded, n) = Answer
    <2>1. ASSUME NEW j \in Answer PROVE j \in Upto(Loaded, n)
      <3>1. j - Skips \in 1..n /\ Skips + (j - Skips) = j
        BY <1>2, <1>3 DEF Answer, n
      <3> QED
        BY <1>9, <3>1 DEF Upto
    <2>2. ASSUME NEW i \in 1..n PROVE Loaded[i].id \in Answer
      <3>1. Skips + i \in Skips + 1 .. Until
        BY <1>2, <1>3 DEF n
      <3> QED
        BY <1>9, <3>1 DEF Answer
    <2> QED
      BY <2>1, <2>2 DEF Upto
  <1> QED
    BY <1>2, <1>3, <1>8, <1>9, <1>10 DEF n, kind

\* pushFront() of items: the d oldest of them have no place.
LEMMA PushFrontIs ==
    ASSUME NEW q \in Seq(Item), NEW I \in Seq(Item), Len(q) <= scrollbackSplitLimit
    PROVE  \E d \in 0..Len(I) :
              LET P == PushFront(q, I)
                  n == Len(I) - d
              IN  /\ P \in Seq(Item) /\ n \in Nat /\ Len(P) = n + Len(q)
                  /\ Len(P) <= scrollbackSplitLimit
                  /\ d > 0 => Len(P) = scrollbackSplitLimit
                  /\ \A i \in 1..n : P[i] = I[d + i]
                  /\ \A i \in 1..Len(q) : P[n + i] = q[i]
  <1>1. Len(q) \in Nat /\ Len(I) \in Nat
    BY QueueIs
  <1> DEFINE room == scrollbackSplitLimit - Len(q)
  <1>2. room \in Nat /\ Space(q) = room
    BY <1>1, LimitIs DEF Space
  <1>3. CASE Len(I) <= room
    <2> DEFINE P == I \o q
    <2>1. PushFront(q, I) = P
      BY <1>2, <1>3 DEF PushFront
    <2>2. /\ P \in Seq(Item) /\ Len(P) = Len(I) + Len(q)
          /\ \A i \in 1..(Len(I) + Len(q)) :
                 P[i] = IF i <= Len(I) THEN I[i] ELSE q[i - Len(I)]
      BY ConcatProperties
    <2> HIDE DEF P
    <2>3. \A i \in 1..Len(I) : P[i] = I[i]
      BY <1>1, <2>2
    <2>4. \A i \in 1..Len(q) : P[Len(I) + i] = q[i]
      <3> TAKE i \in 1..Len(q)
      <3>1. /\ Len(I) + i \in 1..(Len(I) + Len(q)) /\ ~(Len(I) + i <= Len(I))
            /\ (Len(I) + i) - Len(I) = i
        BY <1>1
      <3> QED
        BY <2>2, <3>1
    <2>5. Len(P) <= scrollbackSplitLimit
      BY <1>1, <1>3, <2>2, LimitIs
    <2>6. 0 \in 0..Len(I) /\ Len(I) - 0 = Len(I) /\ \A i \in 1..Len(I) : 0 + i = i
      BY <1>1
    <2> QED
      BY <1>1, <2>1, <2>2, <2>3, <2>4, <2>5, <2>6
  <1>4. CASE ~(Len(I) <= room)
    <2> DEFINE d == Len(I) - room
               J == SubSeq(I, Len(I) - room + 1, Len(I))
               P == J \o q
    <2>1. PushFront(q, I) = P
      BY <1>2, <1>4 DEF PushFront
    <2>2. d \in 1..Len(I) /\ Len(I) - d = room
      BY <1>1, <1>2, <1>4
    <2>3. /\ J \in Seq(Item) /\ Len(J) = room
          /\ \A i \in 1..room : J[i] = I[d + i]
      <3> DEFINE f == d + 1
                 z == Len(I)
      <3>1. /\ f \in Int /\ z \in Int /\ \A i \in f..z : I[i] \in Item
            /\ (f <= z => z - f + 1 = room) /\ (~(f <= z) => room = 0)
            /\ z - f + 1 = room /\ \A i \in 1..room : f + i - 1 = d + i
        BY <1>1, <1>2, <2>2, QueueIs
      <3>2. J = SubSeq(I, f, z)
        OBVIOUS
      <3> HIDE DEF J, f, z, d, room
      <3>3. /\ J \in Seq(Item)
            /\ Len(J) = IF f <= z THEN z - f + 1 ELSE 0
            /\ \A i \in 1..(z - f + 1) : J[i] = I[f + i - 1]
        BY <3>1, <3>2, SubSeqProperties
      <3> QED
        BY <3>1, <3>3
    <2> HIDE DEF J, d
    <2>4. /\ P \in Seq(Item) /\ Len(P) = room + Len(q)
          /\ \A i \in 1..(room + Len(q)) :
                 P[i] = IF i <= room THEN J[i] ELSE q[i - room]
      <3>1. /\ P \in Seq(Item) /\ Len(P) = Len(J) + Len(q)
            /\ \A i \in 1..(Len(J) + Len(q)) :
                   P[i] = IF i <= Len(J) THEN J[i] ELSE q[i - Len(J)]
        BY <2>3, ConcatProperties
      <3>2. Len(J) = room
        BY <2>3
      <3> HIDE DEF P, room
      <3> QED
        BY <3>1, <3>2
    <2> HIDE DEF P
    <2>5. \A i \in 1..room : P[i] = I[d + i]
      BY <1>1, <1>2, <2>3, <2>4
    <2>6. \A i \in 1..Len(q) : P[room + i] = q[i]
      <3> TAKE i \in 1..Len(q)
      <3> HIDE DEF room
      <3>1. /\ room + i \in 1..(room + Len(q)) /\ ~(room + i <= room)
            /\ (room + i) - room = i
        BY <1>1, <1>2
      <3> QED
        BY <2>4, <3>1
    <2>7. Len(P) = scrollbackSplitLimit
      BY <1>1, <2>4, LimitIs
    <2>8. d \in 0..Len(I)
      BY <2>2
    <2> DEFINE n == Len(I) - d
               F == PushFront(q, I)
    <2>9. F = P /\ n = room
      BY <2>1, <2>2
    <2> HIDE DEF room, n, F
    <2>10. /\ F \in Seq(Item) /\ n \in Nat /\ Len(F) = n + Len(q)
           /\ Len(F) <= scrollbackSplitLimit
           /\ d > 0 => Len(F) = scrollbackSplitLimit
           /\ \A i \in 1..n : F[i] = I[d + i]
           /\ \A i \in 1..Len(q) : F[n + i] = q[i]
      <3>1. F \in Seq(Item) /\ n \in Nat /\ Len(F) = n + Len(q)
        BY <1>2, <2>4, <2>9
      <3>2. Len(F) = scrollbackSplitLimit /\ Len(F) <= scrollbackSplitLimit
        BY <2>7, <2>9, LimitIs
      <3>3. \A i \in 1..n : F[i] = I[d + i]
        BY <2>5, <2>9
      <3>4. \A i \in 1..Len(q) : F[n + i] = q[i]
        BY <2>6, <2>9
      <3> QED
        BY <3>1, <3>2, <3>3, <3>4
    <2> QED
      BY <2>8, <2>10 DEF n, F
  <1> QED
    BY <1>3, <1>4

\* The load that goes to the front
AtFront ==
    /\ request \in Request /\ clock \in Nat /\ Queue(messages, clock)
    /\ request.after <= Until /\ Until <= clock
    /\ \/ /\ request.kind = "first" /\ request.after = 0
          /\ \A e \in Elements(messages) : e.from \notin {"first", "gap"}
       \/ request.kind = "gap" /\ messages = << >>

LEMMA FrontIs ==
    ASSUME AtFront
    PROVE  \E oldest \in Skips + 1 .. Until + 1 :
              LET P == PushFront(messages, Loaded)
                  n == Until + 1 - oldest
              IN  /\ P \in Seq(Item) /\ n \in Nat /\ Len(P) = n + Len(messages)
                  /\ Len(P) <= scrollbackSplitLimit
                  /\ oldest > Skips + 1 => Len(P) = scrollbackSplitLimit
                  /\ \A i \in 1..n : P[i].id = oldest + i - 1 /\ P[i].from = request.kind
                  /\ \A i \in 1..Len(messages) : P[n + i] = messages[i]
  <1>1. messages \in Seq(Item) /\ Len(messages) <= scrollbackSplitLimit
    BY DEF AtFront, Queue, Ordered
  <1>2. /\ Skips \in Nat /\ Until \in Nat /\ Skips <= Until
        /\ Loaded \in Seq(Item) /\ Len(Loaded) = Until - Skips
        /\ \A i \in 1..Len(Loaded) : Loaded[i].id = Skips + i /\ Loaded[i].from = request.kind
    BY LoadedIs DEF AtFront
  <1>3. PICK d \in 0..Len(Loaded) :
            LET P == PushFront(messages, Loaded)
                n == Len(Loaded) - d
            IN  /\ P \in Seq(Item) /\ n \in Nat /\ Len(P) = n + Len(messages)
                /\ Len(P) <= scrollbackSplitLimit
                /\ d > 0 => Len(P) = scrollbackSplitLimit
                /\ \A i \in 1..n : P[i] = Loaded[d + i]
                /\ \A i \in 1..Len(messages) : P[n + i] = messages[i]
    BY <1>1, <1>2, PushFrontIs
  <1> DEFINE P == PushFront(messages, Loaded)
             old == Skips + 1 + d
             n == Until + 1 - old
  <1>4. n = Len(Loaded) - d /\ old \in Skips + 1 .. Until + 1 /\ (old > Skips + 1 => d > 0)
    BY <1>2
  <1>5. ASSUME NEW i \in 1..n PROVE P[i].id = old + i - 1 /\ P[i].from = request.kind
    <2>1. d + i \in 1..Len(Loaded) /\ Skips + (d + i) = old + i - 1
      <3>1. Len(Loaded) \in Nat /\ d \in Nat /\ i \in 1..(Len(Loaded) - d)
        BY <1>2, <1>4
      <3> HIDE DEF n
      <3> QED
        BY <1>2, <3>1
    <2>2. P[i] = Loaded[d + i]
      BY <1>3, <1>4
    <2> QED
      BY <1>2, <2>1, <2>2
  <1> HIDE DEF P, old
  <1>6. /\ P \in Seq(Item) /\ n \in Nat /\ Len(P) = n + Len(messages)
        /\ Len(P) <= scrollbackSplitLimit
        /\ old > Skips + 1 => Len(P) = scrollbackSplitLimit
        /\ \A i \in 1..Len(messages) : P[n + i] = messages[i]
    BY <1>3, <1>4 DEF P
  <1> QED
    BY <1>4, <1>5, <1>6 DEF P

LEMMA FrontQueue ==
    ASSUME AtFront
    PROVE  LET P == PushFront(messages, Loaded) IN
           /\ Queue(P, clock)
           /\ Len(messages) <= Len(P)
           /\ \A e \in Elements(P) :
                 e \in Elements(messages) \/ (e.from = request.kind /\ e.id \in Answer)
           /\ Elements(messages) \subseteq Elements(P)
           /\ Len(P) < scrollbackSplitLimit => Answer \subseteq Ids(P)
           /\ \A k \in Answer : k \notin Ids(P) =>
                 \A j \in Ids(P) : j \notin Ids(messages) => k < j
  <1> DEFINE P == PushFront(messages, Loaded)
             kind == request.kind
  <1>1. /\ messages \in Seq(Item) /\ Len(messages) \in Nat /\ Ordered(messages)
        /\ \A e \in Elements(messages) : e.id <= clock /\ e.id \in Nat
    BY QueueIs, IdsAre DEF AtFront, Queue, Ordered
  <1>2. /\ Skips \in Nat /\ Until \in Nat /\ Skips <= Until /\ Until <= clock /\ clock \in Nat
        /\ kind \in {"first", "gap"}
        /\ Skips = request.after \/ Skips + historyLimit = Until
    BY LoadedIs DEF AtFront
  <1>3. PICK old \in Skips + 1 .. Until + 1 :
            LET n == Until + 1 - old
            IN  /\ P \in Seq(Item) /\ n \in Nat /\ Len(P) = n + Len(messages)
                /\ Len(P) <= scrollbackSplitLimit
                /\ old > Skips + 1 => Len(P) = scrollbackSplitLimit
                /\ \A i \in 1..n : P[i].id = old + i - 1 /\ P[i].from = kind
                /\ \A i \in 1..Len(messages) : P[n + i] = messages[i]
    BY FrontIs
  <1> DEFINE n == Until + 1 - old
  <1> HIDE DEF P, kind
  <1>4. /\ P \in Seq(Item) /\ n \in Nat /\ Len(P) = n + Len(messages)
        /\ Len(P) <= scrollbackSplitLimit
        /\ old > Skips + 1 => Len(P) = scrollbackSplitLimit
        /\ \A i \in 1..n : P[i].id = old + i - 1 /\ P[i].from = kind
        /\ \A i \in 1..Len(messages) : P[n + i] = messages[i]
    BY <1>3
  <1>5. old \in Nat /\ old <= Until + 1 /\ n = Until + 1 - old /\ Skips < old
    BY <1>2
  <1> HIDE DEF n
  <1>6. \A i \in 1..Len(P) :
            i \in 1..n \/ (i - n \in 1..Len(messages) /\ n + (i - n) = i)
    BY <1>1, <1>4
  <1>7. /\ \A i \in 1..n : i \in 1..Len(P)
        /\ \A i \in 1..Len(messages) : n + i \in 1..Len(P)
    BY <1>1, <1>4
  \* The elements are the new ones and those that were there.
  <1>8. \A e \in Elements(P) :
            e \in Elements(messages) \/ (e.from = kind /\ e.id \in old..Until)
    <2> SUFFICES ASSUME NEW i \in 1..Len(P)
                 PROVE  P[i] \in Elements(messages) \/ (P[i].from = kind /\ P[i].id \in old..Until)
      BY DEF Elements
    <2>1. CASE i \in 1..n
      BY <1>2, <1>4, <1>5, <2>1
    <2>2. CASE i - n \in 1..Len(messages) /\ n + (i - n) = i
      <3>1. P[i] = messages[i - n]
        BY <1>4, <2>2
      <3> QED
        BY <2>2, <3>1 DEF Elements
    <2> QED
      BY <1>6, <2>1, <2>2
  <1>9. Elements(messages) \subseteq Elements(P)
    BY <1>4, <1>7 DEF Elements
  <1>10. \A k \in old..Until : \E e \in Elements(P) : e.from = kind /\ e.id = k
    <2> TAKE k \in old..Until
    <2>1. (k - old) + 1 \in 1..n /\ old + ((k - old) + 1) - 1 = k
      BY <1>2, <1>5
    <2> QED
      BY <1>4, <1>7, <2>1 DEF Elements
  <1>11. kind = "gap" => messages = << >> /\ Len(messages) = 0 /\ Elements(messages) = {}
    <2> SUFFICES ASSUME messages = << >>
                 PROVE  Len(messages) = 0 /\ Elements(messages) = {}
      BY <1>2 DEF AtFront, kind
    <2>1. Len(messages) = 0
      BY EmptySeq
    <2> QED
      BY <2>1 DEF Elements
  <1>12. kind = "first" =>
            /\ request.after = 0
            /\ \A e \in Elements(messages) : e.from \notin {"first", "gap"}
    BY DEF AtFront, kind
  <1>13. Sorted(P)
    <2> SUFFICES ASSUME NEW i \in 1..Len(P), NEW j \in 1..Len(P), i < j,
                        P[i].id # 0, P[j].id # 0
                 PROVE  Earlier(P[i], P[j])
      BY DEF Sorted
    <2>1. CASE i \in 1..n /\ j \in 1..n
      BY <1>2, <1>4, <1>5, <2>1 DEF Earlier, IsFirst
    <2>2. CASE i \in 1..n /\ j - n \in 1..Len(messages) /\ n + (j - n) = j
      <3>1. P[j] = messages[j - n] /\ messages[j - n] \in Elements(messages)
        BY <1>4, <2>2 DEF Elements
      <3>2. kind = "first"
        BY <1>2, <1>11, <3>1
      <3> QED
        BY <1>4, <1>12, <2>2, <3>1, <3>2 DEF Earlier, IsFirst
    <2>3. CASE i - n \in 1..Len(messages) /\ n + (i - n) = i
      <3>1. j - n \in 1..Len(messages) /\ n + (j - n) = j /\ i - n < j - n
        BY <1>1, <1>4, <2>3
      <3>2. P[i] = messages[i - n] /\ P[j] = messages[j - n]
        BY <1>4, <2>3, <3>1
      <3> QED
        BY <1>1, <2>3, <3>1, <3>2 DEF Ordered, Sorted
    <2> QED
      BY <1>6, <2>1, <2>2, <2>3
  <1>14. FirstsLead(P)
    <2> SUFFICES ASSUME NEW i \in 1..Len(P), NEW j \in 1..Len(P), i < j, IsFirst(P[j])
                 PROVE  IsFirst(P[i])
      BY DEF FirstsLead
    <2>1. j \in 1..n
      <3> SUFFICES ASSUME j - n \in 1..Len(messages), n + (j - n) = j PROVE FALSE
        BY <1>6
      <3>1. P[j] = messages[j - n] /\ messages[j - n] \in Elements(messages)
        BY <1>4 DEF Elements
      <3> QED
        BY <1>2, <1>11, <1>12, <3>1 DEF IsFirst
    <2>2. i \in 1..n
      BY <1>4, <2>1
    <2> QED
      BY <1>4, <2>1, <2>2 DEF IsFirst
  <1>15. Ordered(P)
    BY <1>4, <1>13, <1>14 DEF Ordered
  <1>16. \A e \in Elements(P) : e.id <= clock
    BY <1>1, <1>2, <1>5, <1>8
  <1>17. \A e \in Elements(P) : IsFirst(e) => kind = "first" /\ e.id \in old..Until
    BY <1>2, <1>8, <1>11, <1>12 DEF IsFirst
  <1>18. FirstsTogether(P)
    <2> SUFFICES ASSUME NEW a \in Elements(P), NEW b \in Elements(P), IsFirst(a), IsFirst(b),
                        NEW k \in a.id..b.id
                 PROVE  \E e \in Elements(P) : IsFirst(e) /\ e.id = k
      BY DEF FirstsTogether
    <2>1. k \in old..Until /\ kind = "first"
      BY <1>2, <1>5, <1>17
    <2> QED
      BY <1>10, <2>1 DEF IsFirst
  <1>19. FirstsComplete(P)
    <2> SUFFICES ASSUME Len(P) < scrollbackSplitLimit, NEW b \in Elements(P), IsFirst(b)
                 PROVE  \E a, z \in Elements(P) :
                            /\ IsFirst(a) /\ IsFirst(z)
                            /\ a.id <= 1 \/ a.id + historyLimit <= z.id + 1
      BY DEF FirstsComplete
    <2>1. kind = "first" /\ b.id \in old..Until
      BY <1>17
    <2>2. old = Skips + 1
      BY <1>2, <1>4, <1>5, LimitIs
    <2>3. old \in old..Until /\ Until \in old..Until
      BY <1>2, <1>5, <2>1
    <2>4. PICK a \in Elements(P) : IsFirst(a) /\ a.id = old
      BY <1>10, <2>1, <2>3 DEF IsFirst
    <2>5. PICK z \in Elements(P) : IsFirst(z) /\ z.id = Until
      BY <1>10, <2>1, <2>3 DEF IsFirst
    <2>6. a.id <= 1 \/ a.id + historyLimit <= z.id + 1
      BY <1>2, <1>12, <2>1, <2>2, <2>4, <2>5, LimitIs
    <2> QED
      BY <2>4, <2>5, <2>6
  <1>20. NoTwin(P)
    BY <1>8, <1>12, <1>17 DEF NoTwin
  <1>21. Queue(P, clock)
    BY <1>4, <1>15, <1>16, <1>18, <1>19, <1>20 DEF Queue
  <1>22. \A k \in Answer : k \notin Ids(P) =>
            \A j \in Ids(P) : j \notin Ids(messages) => k < j
    <2> SUFFICES ASSUME NEW k \in Answer, k \notin Ids(P), NEW j \in Ids(P),
                        j \notin Ids(messages)
                 PROVE  k < j
      OBVIOUS
    <2>1. k \in Skips + 1 .. Until
      BY DEF Answer
    <2>2. ~(k \in old..Until)
      <3> SUFFICES ASSUME k \in old..Until PROVE FALSE
        OBVIOUS
      <3>1. k # 0
        BY <1>2, <2>1
      <3> QED
        BY <1>4, <1>10, <3>1, IdsAre
    <2>3. PICK e \in Elements(P) : e.id = j /\ j # 0
      BY <1>4, IdsAre
    <2>4. e \notin Elements(messages)
      BY <1>1, <2>3, IdsAre
    <2>5. j \in old..Until
      BY <1>8, <2>3, <2>4
    <2> QED
      BY <1>2, <1>5, <2>1, <2>2, <2>5
  <1>23. \A e \in Elements(P) : e \in Elements(messages) \/ (e.from = kind /\ e.id \in Answer)
    <2>1. \A k \in old..Until : k \in Answer
      BY <1>2, <1>5 DEF Answer
    <2> QED
      BY <1>8, <2>1
  <1>24. Len(P) < scrollbackSplitLimit => Answer \subseteq Ids(P)
    <2> SUFFICES ASSUME Len(P) < scrollbackSplitLimit, NEW k \in Answer PROVE k \in Ids(P)
      OBVIOUS
    <2>1. old = Skips + 1
      BY <1>2, <1>4, <1>5, LimitIs
    <2>2. k \in old..Until /\ k # 0
      BY <1>2, <2>1 DEF Answer
    <2> QED
      BY <1>4, <1>10, <2>2, IdsAre
  <1>25. Len(messages) <= Len(P)
    BY <1>1, <1>4
  <1> QED
    BY <1>9, <1>21, <1>22, <1>23, <1>24, <1>25 DEF P, kind

\* The load that is filled in
FillsIn ==
    /\ request \in Request /\ clock \in Nat /\ Queue(messages, clock) /\ Len(messages) > 0
    /\ request.kind = "gap" /\ request.after <= request.before /\ request.before <= clock
    /\ \A e \in Elements(messages) : IsFirst(e) => e.id <= request.before

LEMMA LoadCanFill ==
    ASSUME FillsIn
    PROVE  CanFill(messages, Loaded)
  <1>1. /\ messages \in Seq(Item) /\ Len(messages) \in Nat /\ Ordered(messages)
        /\ Len(messages) <= scrollbackSplitLimit
        /\ FirstsTogether(messages) /\ FirstsComplete(messages)
        /\ \A e \in Elements(messages) : e.id \in Nat
    BY QueueIs, IdsAre DEF FillsIn, Queue, Ordered
  <1>2. Until = request.before
    BY DEF FillsIn, Until
  <1>3. /\ Skips \in Nat /\ Until \in Nat /\ Until <= Skips + historyLimit
        /\ Loaded \in Seq(Item) /\ Len(Loaded) = Until - Skips /\ Skips <= Until
        /\ \A i \in 1..Len(Loaded) : Loaded[i].id = Skips + i /\ Loaded[i].from = "gap"
    BY <1>2, LoadedIs DEF FillsIn
  <1>4. Len(Loaded) \in Nat
    BY <1>3
  <1>5. ASSUME NEW i \in 1..Len(Loaded), Loaded[i].id \notin Ids(messages)
        PROVE  \/ \A e \in Elements(messages) : IsFirst(e) => e.id < Loaded[i].id
               \/ /\ Len(messages) = scrollbackSplitLimit
                  /\ \A e \in Elements(messages) : IsFirst(e) => Loaded[i].id < e.id
    <2> DEFINE k == Loaded[i].id
    <2>1. k = Skips + i /\ k \in Nat /\ k # 0 /\ Skips < k
      BY <1>3, <1>4
    <2> HIDE DEF k
    <2>2. k \notin Ids(messages)
      BY <1>5 DEF k
    <2>3. \A e \in Elements(messages) : e.id # k
      BY <1>1, <2>1, <2>2, IdsAre
    <2>4. SUFFICES ASSUME NEW b \in Elements(messages), IsFirst(b), ~(b.id < k)
                   PROVE  /\ Len(messages) = scrollbackSplitLimit
                          /\ \A e \in Elements(messages) : IsFirst(e) => k < e.id
      BY DEF k
    <2>5. k < b.id
      BY <1>1, <2>1, <2>3, <2>4
    <2>6. ASSUME NEW e \in Elements(messages), IsFirst(e) PROVE k < e.id
      <3> SUFFICES ASSUME e.id < k PROVE FALSE
        BY <1>1, <2>1, <2>3
      <3>1. k \in e.id..b.id
        BY <1>1, <2>1, <2>5
      <3> QED
        BY <1>1, <2>3, <2>4, <2>6, <3>1 DEF FirstsTogether
    <2>7. Len(messages) = scrollbackSplitLimit
      <3> SUFFICES ASSUME Len(messages) < scrollbackSplitLimit PROVE FALSE
        BY <1>1, LimitIs
      <3>1. PICK a \in Elements(messages), z \in Elements(messages) :
                /\ IsFirst(a) /\ IsFirst(z)
                /\ a.id <= 1 \/ a.id + historyLimit <= z.id + 1
        BY <1>1, <2>4 DEF FirstsComplete
      <3>2. z.id <= Until
        BY <1>2, <3>1 DEF FillsIn
      <3>3. k < a.id
        BY <2>6, <3>1
      <3>4. a.id \in Nat /\ z.id \in Nat
        BY <1>1
      <3> QED
        BY <1>3, <2>1, <3>1, <3>2, <3>3, <3>4, LimitIs
    <2> QED
      BY <2>6, <2>7
  <1>6. \A i, j \in 1..Len(Loaded) : i < j => Loaded[i].id < Loaded[j].id
    BY <1>3, <1>4
  <1>7. \A i \in 1..Len(Loaded) : Loaded[i].from = "gap" /\ Loaded[i].id # 0
    BY <1>3, <1>4
  <1> QED
    BY <1>1, <1>3, <1>5, <1>6, <1>7 DEF CanFill, FillsIn

LEMMA FilledQueue ==
    ASSUME FillsIn
    PROVE  LET P == Filled(messages, Loaded) IN
           /\ Queue(P, clock)
           /\ Len(messages) <= Len(P)
           /\ \A e \in Elements(P) :
                 e \in Elements(messages) \/ (e.from = "gap" /\ e.id \in Answer)
           /\ Len(P) < scrollbackSplitLimit =>
                 /\ \A e \in Elements(messages) : e.id # 0 => e \in Elements(P)
                 /\ Answer \subseteq Ids(P)
           /\ \A k \in Ids(messages) \cup Answer : k \notin Ids(P) =>
                 \A j \in Ids(P) : j \notin Ids(messages) => k < j
  <1> DEFINE P == Filled(messages, Loaded)
  <1>1. /\ messages \in Seq(Item) /\ Len(messages) \in Nat
        /\ \A e \in Elements(messages) : e.id <= clock
        /\ Queue(messages, clock) /\ clock \in Nat
    BY QueueIs DEF FillsIn, Queue, Ordered
  <1>2. Until = request.before /\ Until <= clock
    BY DEF FillsIn, Until
  <1>3. Skips \in Nat /\ Until \in Nat /\ Upto(Loaded, Len(Loaded)) = Answer
    BY <1>2, LoadedIs DEF FillsIn
  <1>4. Filling(messages, Loaded, P, Len(Loaded)) /\ Len(P) <= scrollbackSplitLimit
    BY LoadCanFill, FilledKeeps
  <1> HIDE DEF P
  <1>5. /\ Ordered(P) /\ Len(messages) <= Len(P) /\ KeepsNewer(messages, P)
        /\ P \in Seq(Item) /\ Len(P) \in Nat
    BY <1>4, QueueIs DEF Filling, Ordered
  <1>6. \A e \in Elements(P) :
            \/ e \in Elements(messages)
            \/ /\ e.from = "gap" /\ e.id \in Answer /\ e.id \notin Ids(messages)
               /\ \A f \in Elements(messages) : IsFirst(f) => f.id < e.id
    BY <1>3, <1>4 DEF Filling, Origin
  <1>7. Len(P) < scrollbackSplitLimit =>
            /\ \A e \in Elements(messages) : e.id # 0 => e \in Elements(P)
            /\ Answer \subseteq Ids(P)
    BY <1>3, <1>4 DEF Filling, KeepsAll
  <1>8. \A k \in Ids(messages) \cup Answer : k \notin Ids(P) =>
            \A j \in Ids(P) : j \notin Ids(messages) => k < j
    BY <1>3, <1>4 DEF Filling, LosesOlder
  <1>9. \A e \in Elements(P) : e.id <= clock
    <2>1. \A k \in Answer : k <= clock
      BY <1>1, <1>2, <1>3 DEF Answer
    <2> QED
      BY <1>1, <1>6, <2>1
  <1>10. \A e \in Elements(P) : IsFirst(e) => e \in Elements(messages)
    BY <1>6 DEF IsFirst
  <1>11. NoTwin(P)
    <2> SUFFICES ASSUME NEW a \in Elements(P), NEW b \in Elements(P), a.from = "gap",
                        IsFirst(b), a.id = b.id
                 PROVE  FALSE
      BY DEF NoTwin
    <2>1. b \in Elements(messages) /\ b.id \in Nat
      BY <1>1, <1>10, IdsAre
    <2>2. a \notin Elements(messages)
      BY <1>1, <2>1 DEF Queue, NoTwin
    <2>3. b.id < a.id
      BY <1>6, <2>1, <2>2
    <2> QED
      BY <2>1, <2>3
  <1>12. Queue(P, clock)
    BY <1>1, <1>4, <1>5, <1>7, <1>9, <1>10, <1>11, QueueKeeps
  <1> QED
    BY <1>5, <1>6, <1>7, <1>8, <1>12 DEF P
-----------------------------------------------------------------------------
(* The inductive invariant. *)

HistoryTypes ==
    /\ clock \in 0..MaxMessages
    /\ link \in {"down", "up", "joined", "silent"}
    /\ heard \in BOOLEAN /\ roomKnown \in BOOLEAN /\ disconnected \in BOOLEAN
    /\ lastConnectedAt \in [time : 0..MaxMessages, set : BOOLEAN]
    /\ request \in [kind : {"none", "first", "gap"},
                    after : 0..MaxMessages, before : 0..MaxMessages]
    /\ since \in Nat /\ gone \in Nat

\* The first load finds nothing a load brought; what a later one asks for has been
\* sent, and is not older than the first load.
RequestKept ==
    /\ request.kind = "first" \/ ~roomKnown =>
          \A e \in Elements(messages) : e.from \notin {"first", "gap"}
    /\ ~roomKnown => request = Idle
    /\ request.kind = "none" => request = Idle
    /\ request.kind = "first" => request.after = 0
    /\ request.kind = "gap" =>
          /\ request.after <= request.before /\ request.before <= clock
          /\ \A e \in Elements(messages) : IsFirst(e) => e.id <= request.before

LinkKept ==
    /\ lastConnectedAt.set <=> roomKnown
    /\ lastConnectedAt.time <= clock
    /\ disconnected <=> roomKnown /\ link \in {"down", "up"}
    /\ link = "silent" => gone <= clock

Covered(n) ==
    \/ Present(n)
    \/ n \in excused \cup skipped \cup late
    \/ request.kind = "gap" /\ n \in request.after + 1 .. request.before

\* Not received, and still to be asked for
Missed(n) ==
    /\ link # "joined"
    /\ n > lastConnectedAt.time
    /\ link = "silent" => n > gone

GapsKept ==
    roomKnown /\ Len(messages) < scrollbackSplitLimit =>
        \A n \in since + 1 .. clock : Covered(n) \/ Missed(n)

HistoryInv ==
    HistoryTypes /\ Queue(messages, clock) /\ RequestKept /\ LinkKept /\ GapsKept

LEMMA HistoryInvInit == HistoryInit => HistoryInv
  <1> SUFFICES ASSUME HistoryInit PROVE HistoryInv
    OBVIOUS
  <1>1. messages = << >> /\ Len(messages) = 0 /\ Elements(messages) = {}
    <2>1. messages = << >> /\ Len(messages) = 0
      BY EmptySeq DEF HistoryInit
    <2> QED
      BY <2>1 DEF Elements
  <1>2. messages \in Seq(Item)
    BY <1>1, EmptySeq
  <1>3. \A i \in 1..Len(messages) : FALSE
    BY <1>1
  <1>4. Sorted(messages) /\ FirstsLead(messages)
    BY <1>3 DEF Sorted, FirstsLead
  <1>5. Queue(messages, clock)
    BY <1>1, <1>2, <1>4, LimitIs
       DEF Queue, Ordered, FirstsTogether, FirstsComplete, NoTwin
  <1>6. HistoryTypes
    <2>1. 0 \in 0..MaxMessages
      BY LimitIs
    <2> QED
      BY <2>1 DEF HistoryInit, HistoryTypes, Never, Idle
  <1>7. RequestKept
    BY <1>1 DEF HistoryInit, RequestKept, Idle
  <1>8. LinkKept
    BY DEF HistoryInit, LinkKept, Never
  <1>9. GapsKept
    BY DEF HistoryInit, GapsKept
  <1> QED
    BY <1>5, <1>6, <1>7, <1>8, <1>9 DEF HistoryInv

\* What a step without an answer of the service does to the messages
Stays(q, P) ==
    /\ Len(q) <= Len(P)
    /\ Len(P) < scrollbackSplitLimit => Ids(q) \subseteq Ids(P)
    /\ \A e \in Elements(P) : e \in Elements(q) \/ e.from \notin {"first", "gap"}

LEMMA PushBackStays ==
    ASSUME HistoryInv, NEW d \in Nat, clock <= d,
           NEW m \in Item, m.from \notin {"first", "gap"}, m.id <= d,
           m.id # 0 => clock < m.id
    PROVE  LET P == PushBack(messages, m) IN
           /\ Queue(P, d) /\ Stays(messages, P)
           /\ Len(P) < scrollbackSplitLimit /\ m.id # 0 => m.id \in Ids(P)
  <1> DEFINE P == PushBack(messages, m)
  <1>1. Queue(messages, clock) /\ clock \in Nat
    BY LimitIs DEF HistoryInv, HistoryTypes
  <1>2. /\ Queue(P, d) /\ Len(messages) <= Len(P)
        /\ Elements(P) \subseteq Elements(messages) \cup {m}
        /\ Len(P) < scrollbackSplitLimit => Elements(P) = Elements(messages) \cup {m}
    BY <1>1, PushBackQueue
  <1> HIDE DEF P
  <1>3. messages \in Seq(Item) /\ P \in Seq(Item)
    BY <1>1, <1>2 DEF Queue, Ordered
  <1>4. ASSUME Len(P) < scrollbackSplitLimit, NEW n \in Ids(messages) PROVE n \in Ids(P)
    <2>1. PICK e \in Elements(messages) : e.id = n /\ n # 0
      BY <1>3, IdsAre
    <2> QED
      BY <1>2, <1>3, <1>4, <2>1, IdsAre
  <1>5. ASSUME Len(P) < scrollbackSplitLimit, m.id # 0 PROVE m.id \in Ids(P)
    BY <1>2, <1>3, <1>5, IdsAre
  <1> QED
    BY <1>2, <1>4, <1>5 DEF P, Stays

LEMMA ReplaceStays ==
    ASSUME HistoryInv, Len(messages) > 0, messages[Len(messages)].from = "disconnected"
    PROVE  LET P == [messages EXCEPT ![Len(messages)] = SystemMessage("system")] IN
           Queue(P, clock) /\ Stays(messages, P)
  <1> DEFINE P == [messages EXCEPT ![Len(messages)] = SystemMessage("system")]
  <1>1. Queue(messages, clock) /\ clock \in Nat
    BY LimitIs DEF HistoryInv, HistoryTypes
  <1>2. messages \in Seq(Item) /\ Len(messages) \in Nat /\ Len(messages) \in 1..Len(messages)
    BY <1>1, QueueIs DEF Queue, Ordered
  <1>3. messages[Len(messages)].id = 0
    <2>1. messages[Len(messages)] \in Item
      BY <1>2, QueueIs
    <2> QED
      BY <2>1 DEF Item
  <1>4. /\ Queue(P, clock) /\ Len(P) = Len(messages)
        /\ \A e \in Elements(P) : e \in Elements(messages) \/ e = SystemMessage("system")
        /\ \A e \in Elements(messages) : e.id # 0 => e \in Elements(P)
    BY <1>1, <1>3, ReplaceQueue
  <1> HIDE DEF P
  <1>5. P \in Seq(Item)
    BY <1>4 DEF Queue, Ordered
  <1>6. ASSUME NEW n \in Ids(messages) PROVE n \in Ids(P)
    <2>1. PICK e \in Elements(messages) : e.id = n /\ n # 0
      BY <1>2, IdsAre
    <2> QED
      BY <1>4, <1>5, <2>1, IdsAre
  <1>7. SystemMessage("system").from \notin {"first", "gap"}
    BY DEF SystemMessage
  <1>8. Stays(messages, P)
    BY <1>2, <1>4, <1>6, <1>7 DEF Stays
  <1> QED
    BY <1>4, <1>8 DEF P

LEMMA SystemIs ==
    ASSUME NEW kind \in {"system", "disconnected"}
    PROVE  LET m == SystemMessage(kind) IN
           m \in Item /\ m.from \notin {"first", "gap"} /\ m.id = 0
  BY DEF SystemMessage, Item

\* What is asked for stays as it is while no load starts or ends.
LEMMA RequestStays ==
    ASSUME HistoryInv, Stays(messages, messages'), UNCHANGED <<request, roomKnown>>,
           clock' \in Nat, clock <= clock'
    PROVE  RequestKept'
  <1>1. request.before \in Nat /\ clock \in Nat
    BY LimitIs DEF HistoryInv, HistoryTypes
  <1>2. \A e \in Elements(messages') :
            e \in Elements(messages) \/ e.from \notin {"first", "gap"}
    BY DEF Stays
  <1>3. request.kind = "first" \/ ~roomKnown =>
            \A e \in Elements(messages') : e.from \notin {"first", "gap"}
    BY <1>2 DEF HistoryInv, RequestKept
  <1>4. request.kind = "gap" =>
            /\ request.after <= request.before /\ request.before <= clock'
            /\ \A e \in Elements(messages') : IsFirst(e) => e.id <= request.before
    BY <1>1, <1>2 DEF HistoryInv, RequestKept, IsFirst
  <1>5. (~roomKnown => request = Idle) /\ (request.kind = "none" => request = Idle)
            /\ (request.kind = "first" => request.after = 0)
    BY DEF HistoryInv, RequestKept
  <1> QED
    BY <1>3, <1>4, <1>5 DEF RequestKept, Idle

LEMMA GapsStay ==
    ASSUME HistoryInv, Stays(messages, messages'), UNCHANGED roomKnown, UNCHANGED since,
           UNCHANGED clock,
           roomKnown => \A n \in since + 1 .. clock :
               Covered(n) \/ Missed(n) => n \in Ids(messages) \/ Covered(n)' \/ Missed(n)'
    PROVE  GapsKept'
  <1> SUFFICES ASSUME roomKnown, Len(messages') < scrollbackSplitLimit,
                      NEW n \in since + 1 .. clock
               PROVE  Covered(n)' \/ Missed(n)'
    BY DEF GapsKept
  <1>1. Len(messages) < scrollbackSplitLimit
    <2>1. /\ messages \in Seq(Item) /\ Len(messages) \in Nat
      BY QueueIs DEF HistoryInv, Queue, Ordered
    <2> QED
      BY <2>1, LimitIs DEF Stays
  <1>2. Covered(n) \/ Missed(n)
    BY <1>1 DEF HistoryInv, GapsKept
  <1>3. Ids(messages) \subseteq Ids(messages')
    BY DEF Stays
  <1> QED
    BY <1>2, <1>3 DEF Covered, Present
-----------------------------------------------------------------------------
(* Every action keeps it. *)

LEMMA StateIs ==
    ASSUME HistoryInv
    PROVE  /\ HistoryTypes /\ Queue(messages, clock) /\ RequestKept /\ LinkKept /\ GapsKept
           /\ clock \in Nat /\ lastConnectedAt.time \in Nat
           /\ lastConnectedAt.set \in BOOLEAN
           /\ request.after \in Nat /\ request.before \in Nat /\ request \in Request
           /\ messages \in Seq(Item) /\ Len(messages) \in Nat
           /\ Len(messages) <= scrollbackSplitLimit
  <1>1. HistoryTypes /\ Queue(messages, clock) /\ RequestKept /\ LinkKept /\ GapsKept
    BY DEF HistoryInv
  <1>2. clock \in Nat /\ lastConnectedAt.time \in Nat /\ lastConnectedAt.set \in BOOLEAN
    BY <1>1, LimitIs DEF HistoryTypes
  <1>3. request.after \in Nat /\ request.before \in Nat /\ request \in Request
    BY <1>1, LimitIs DEF HistoryTypes, Request
  <1>4. /\ messages \in Seq(Item) /\ Len(messages) \in Nat
        /\ Len(messages) <= scrollbackSplitLimit
    BY <1>1, QueueIs DEF Queue, Ordered
  <1> QED
    BY <1>1, <1>2, <1>3, <1>4

LEMMA SayKeeps ==
    ASSUME HistoryInv, Say
    PROVE  HistoryInv'
  <1> DEFINE m == ChatMessage(clock', "live")
  <1>1. /\ clock' = clock + 1 /\ clock' \in Nat /\ clock \in Nat /\ clock < MaxMessages
        /\ UNCHANGED <<link, heard, roomKnown, disconnected, lastConnectedAt, request,
                       since, excused, skipped, gone, late>>
    BY StateIs DEF Say, channel, history
  <1>2. m \in Item /\ m.from \notin {"first", "gap"} /\ m.id = clock'
    BY <1>1 DEF Item, ChatMessage
  <1> HIDE DEF m
  <1>3. /\ Queue(messages', clock') /\ Stays(messages, messages')
        /\ link = "joined" /\ Len(messages') < scrollbackSplitLimit => clock' \in Ids(messages')
    <2>1. CASE link = "joined" /\ messages' = PushBack(messages, m)
      BY <1>1, <1>2, <2>1, PushBackStays
    <2>2. CASE link # "joined" /\ UNCHANGED messages
      <3>1. Queue(messages, clock')
        <4>1. \A e \in Elements(messages) : e.id <= clock /\ e.id \in Nat
          BY StateIs, IdsAre DEF Queue
        <4> QED
          BY <1>1, <4>1, StateIs DEF Queue
      <3>2. Stays(messages, messages)
        BY StateIs DEF Stays
      <3> QED
        BY <2>2, <3>1, <3>2
    <2> QED
      BY <2>1, <2>2 DEF Say, m
  <1>4. HistoryTypes'
    <2>1. clock' \in 0..MaxMessages
      BY <1>1, LimitIs
    <2> QED
      BY <1>1, <2>1, StateIs DEF HistoryTypes
  <1>5. RequestKept'
    BY <1>1, <1>3, RequestStays
  <1>6. LinkKept'
    <2>1. lastConnectedAt.time <= clock' /\ (link = "silent" => gone <= clock')
      BY <1>1, StateIs DEF LinkKept, HistoryTypes
    <2> QED
      BY <1>1, <2>1, StateIs DEF LinkKept
  <1>7. GapsKept'
    <2> SUFFICES ASSUME roomKnown, Len(messages') < scrollbackSplitLimit,
                        NEW n \in since + 1 .. clock'
                 PROVE  Covered(n)' \/ Missed(n)'
      BY <1>1 DEF GapsKept
    <2>1. Ids(messages) \subseteq Ids(messages') /\ Len(messages) < scrollbackSplitLimit
      <3>1. Len(messages') \in Nat
        BY <1>3, QueueIs DEF Queue, Ordered
      <3> QED
        BY <1>3, <3>1, StateIs, LimitIs DEF Stays
    <2>2. CASE n \in since + 1 .. clock
      <3>1. Covered(n) \/ Missed(n)
        BY <2>1, <2>2, StateIs DEF GapsKept
      <3> QED
        BY <1>1, <2>1, <3>1 DEF Covered, Missed, Present
    <2>3. CASE n = clock'
      <3>1. CASE link = "joined"
        BY <1>3, <2>3, <3>1 DEF Covered, Present
      <3>2. CASE link # "joined"
        <4>1. lastConnectedAt.time < n /\ (link = "silent" => gone < n)
          BY <1>1, <2>3, StateIs DEF LinkKept, HistoryTypes
        <4> QED
          BY <1>1, <3>2, <4>1, StateIs DEF Missed, HistoryTypes
      <3> QED
        BY <3>1, <3>2
    <2> QED
      BY <1>1, <2>2, <2>3, StateIs DEF HistoryTypes
  <1> QED
    BY <1>3, <1>4, <1>5, <1>6, <1>7 DEF HistoryInv

\* A channel that waits to be joined again keeps the time it was last connected at.
LEMMA MarkConnectedIs ==
    ASSUME HistoryInv
    PROVE  LET m == MarkConnected IN
           /\ m \in [time : 0..MaxMessages, set : BOOLEAN]
           /\ m.time <= clock
           /\ m.set <=> roomKnown
           /\ disconnected => m = lastConnectedAt
           /\ ~disconnected /\ roomKnown => m.time = clock
  <1>1. /\ lastConnectedAt \in [time : 0..MaxMessages, set : BOOLEAN]
        /\ lastConnectedAt.time <= clock /\ clock \in 0..MaxMessages
        /\ lastConnectedAt.set <=> roomKnown
        /\ lastConnectedAt.set \in BOOLEAN /\ disconnected \in BOOLEAN
    BY StateIs DEF HistoryTypes, LinkKept
  <1>2. /\ At(clock) \in [time : 0..MaxMessages, set : BOOLEAN]
        /\ At(clock).time = clock /\ At(clock).set = TRUE
    BY <1>1 DEF At
  <1>3. clock <= clock
    BY StateIs
  <1> HIDE DEF At
  <1>4. CASE lastConnectedAt.set /\ ~disconnected
    <2>1. MarkConnected = At(clock)
      BY <1>4 DEF MarkConnected
    <2> QED
      BY <1>1, <1>2, <1>3, <1>4, <2>1
  <1>5. CASE ~(lastConnectedAt.set /\ ~disconnected)
    <2>1. MarkConnected = lastConnectedAt
      BY <1>5 DEF MarkConnected
    <2> QED
      BY <1>1, <1>5, <2>1
  <1> QED
    BY <1>4, <1>5

LEMMA HeartbeatKeeps ==
    ASSUME HistoryInv, Heartbeat
    PROVE  HistoryInv'
  <1>1. /\ UNCHANGED <<clock, link, roomKnown, disconnected, request, messages,
                       since, excused, skipped, gone>>
        /\ heard' = FALSE /\ lastConnectedAt' = MarkConnected
        /\ late' = IF link = "silent" THEN late \cup (gone + 1 .. clock) ELSE late
        /\ link \in {"up", "joined", "silent"}
    BY DEF Heartbeat
  <1>2. /\ lastConnectedAt' \in [time : 0..MaxMessages, set : BOOLEAN]
        /\ lastConnectedAt'.time <= clock /\ (lastConnectedAt'.set <=> roomKnown)
        /\ disconnected => lastConnectedAt' = lastConnectedAt
    BY <1>1, MarkConnectedIs
  <1>3. Stays(messages, messages')
    BY <1>1, StateIs DEF Stays
  <1>4. HistoryTypes'
    BY <1>1, <1>2, StateIs DEF HistoryTypes
  <1>5. RequestKept'
    BY <1>1, <1>3, StateIs, RequestStays
  <1>6. LinkKept'
    <2>1. /\ disconnected' <=> roomKnown' /\ link' \in {"down", "up"}
          /\ link' = "silent" => gone' <= clock'
      BY <1>1, StateIs DEF LinkKept
    <2>2. (lastConnectedAt'.set <=> roomKnown') /\ lastConnectedAt'.time <= clock'
      BY <1>1, <1>2
    <2> QED
      BY <2>1, <2>2 DEF LinkKept
  <1>7. GapsKept'
    <2>1. ASSUME roomKnown, NEW n \in since + 1 .. clock, Covered(n) \/ Missed(n)
          PROVE  Covered(n)' \/ Missed(n)'
      <3>1. CASE Covered(n)
        BY <1>1, <3>1 DEF Covered, Present
      <3>2. CASE Missed(n) /\ link = "up"
        <4>1. disconnected
          BY <2>1, <3>2, StateIs DEF LinkKept
        <4> QED
          BY <1>1, <1>2, <3>2, <4>1 DEF Missed
      <3>3. CASE Missed(n) /\ link = "silent"
        <4>1. n > gone /\ n \in gone + 1 .. clock
          BY <3>3, StateIs DEF Missed, HistoryTypes
        <4> QED
          BY <1>1, <3>3, <4>1 DEF Covered
      <3> QED
        BY <1>1, <2>1, <3>1, <3>2, <3>3 DEF Missed
    <2> QED
      BY <1>1, <1>3, <2>1, GapsStay
  <1> QED
    BY <1>1, <1>4, <1>5, <1>6, <1>7, StateIs DEF HistoryInv

LEMMA GoesSilentKeeps ==
    ASSUME HistoryInv, GoesSilent
    PROVE  HistoryInv'
  <1>1. /\ UNCHANGED <<clock, roomKnown, disconnected, lastConnectedAt, request, messages,
                       since, excused, skipped, late>>
        /\ link = "joined" /\ link' = "silent" /\ heard' = TRUE /\ gone' = clock
    BY DEF GoesSilent, channel
  <1>2. Stays(messages, messages')
    BY <1>1, StateIs DEF Stays
  <1>3. HistoryTypes'
    BY <1>1, StateIs DEF HistoryTypes
  <1>4. RequestKept'
    BY <1>1, <1>2, StateIs, RequestStays
  <1>5. LinkKept'
    <2>1. gone' <= clock'
      BY <1>1, StateIs
    <2> QED
      BY <1>1, <2>1, StateIs DEF LinkKept
  <1>6. GapsKept'
    <2>1. ASSUME NEW n, Covered(n) \/ Missed(n) PROVE Covered(n)' \/ Missed(n)'
      BY <1>1, <2>1 DEF Covered, Missed, Present
    <2> QED
      BY <1>1, <1>2, <2>1, GapsStay
  <1> QED
    BY <1>1, <1>3, <1>4, <1>5, <1>6, StateIs DEF HistoryInv

\* The end of a connection, whatever time the channel was last connected at
LEMMA DisconnectedKeeps ==
    ASSUME HistoryInv, Disconnected,
           \/ UNCHANGED lastConnectedAt
           \/ link \in {"up", "joined"} /\ lastConnectedAt' = MarkConnected
    PROVE  HistoryInv'
  <1>1. /\ UNCHANGED <<clock, roomKnown, request, since, excused, skipped, gone, late>>
        /\ link \in {"up", "joined", "silent"} /\ link' = "down" /\ heard' = FALSE
        /\ messages' = PushBack(messages, SystemMessage("disconnected"))
        /\ disconnected' = (disconnected \/ roomKnown)
    BY StateIs DEF Disconnected, history, HistoryTypes
  <1>2. Queue(messages', clock') /\ Stays(messages, messages')
    <2>1. SystemMessage("disconnected").id <= clock
      BY StateIs, SystemIs
    <2>2. clock <= clock
      BY StateIs
    <2> QED
      BY <1>1, <2>1, <2>2, StateIs, SystemIs, PushBackStays
  <1>3. /\ lastConnectedAt' \in [time : 0..MaxMessages, set : BOOLEAN]
        /\ lastConnectedAt'.time <= clock /\ (lastConnectedAt'.set <=> roomKnown)
        /\ link # "joined" /\ roomKnown => lastConnectedAt' = lastConnectedAt
    <2>1. CASE UNCHANGED lastConnectedAt
      BY <2>1, StateIs DEF HistoryTypes, LinkKept
    <2>2. CASE link \in {"up", "joined"} /\ lastConnectedAt' = MarkConnected
      <3>1. link # "joined" /\ roomKnown => disconnected
        BY <2>2, StateIs DEF LinkKept
      <3> QED
        BY <2>2, <3>1, MarkConnectedIs
    <2> QED
      BY <2>1, <2>2
  <1>4. disconnected \in BOOLEAN /\ roomKnown \in BOOLEAN
    BY StateIs DEF HistoryTypes
  <1>5. HistoryTypes'
    <2>1. disconnected' \in BOOLEAN
      BY <1>1
    <2> QED
      BY <1>1, <1>3, <2>1, StateIs DEF HistoryTypes
  <1>6. RequestKept'
    BY <1>1, <1>2, StateIs, RequestStays
  <1>7. LinkKept'
    <2>1. disconnected' <=> roomKnown'
      BY <1>1, <1>4, StateIs DEF LinkKept
    <2>2. (lastConnectedAt'.set <=> roomKnown') /\ lastConnectedAt'.time <= clock'
      BY <1>1, <1>3
    <2>3. link' # "silent" /\ link' \in {"down", "up"}
      BY <1>1
    <2> QED
      BY <2>1, <2>2, <2>3 DEF LinkKept
  <1>8. GapsKept'
    <2>1. ASSUME roomKnown, NEW n, Covered(n) \/ Missed(n)
          PROVE  n \in Ids(messages) \/ Covered(n)' \/ Missed(n)'
      <3>1. CASE Covered(n)
        BY <1>1, <3>1 DEF Covered, Present
      <3>2. CASE Missed(n)
        BY <1>1, <1>3, <2>1, <3>2 DEF Missed
      <3> QED
        BY <2>1, <3>1, <3>2
    <2> QED
      BY <1>1, <1>2, <2>1, GapsStay
  <1> QED
    BY <1>2, <1>5, <1>6, <1>7, <1>8 DEF HistoryInv

LEMMA RegisteredKeeps ==
    ASSUME HistoryInv, Registered
    PROVE  HistoryInv'
  <1>1. /\ UNCHANGED <<clock, heard, roomKnown, disconnected, lastConnectedAt, request,
                       since, excused, skipped, gone, late>>
        /\ link = "down" /\ link' = "up"
    BY DEF Registered, channel, history
  <1>2. Queue(messages', clock') /\ Stays(messages, messages')
    <2>1. CASE Len(messages) > 0 /\ messages[Len(messages)].from = "disconnected"
      <3>1. messages' = [messages EXCEPT ![Len(messages)] = SystemMessage("system")]
        BY <2>1 DEF Registered
      <3> QED
        BY <1>1, <2>1, <3>1, ReplaceStays
    <2>2. CASE ~(Len(messages) > 0 /\ messages[Len(messages)].from = "disconnected")
      <3>1. messages' = PushBack(messages, SystemMessage("system"))
        BY <2>2 DEF Registered
      <3>2. SystemMessage("system").id <= clock /\ clock <= clock
        BY StateIs, SystemIs
      <3> QED
        BY <1>1, <3>1, <3>2, StateIs, SystemIs, PushBackStays
    <2> QED
      BY <2>1, <2>2
  <1>3. HistoryTypes'
    BY <1>1, StateIs DEF HistoryTypes
  <1>4. RequestKept'
    BY <1>1, <1>2, StateIs, RequestStays
  <1>5. LinkKept'
    BY <1>1, StateIs DEF LinkKept
  <1>6. GapsKept'
    <2>1. ASSUME NEW n, Covered(n) \/ Missed(n)
          PROVE  n \in Ids(messages) \/ Covered(n)' \/ Missed(n)'
      BY <1>1, <2>1 DEF Covered, Missed, Present
    <2> QED
      BY <1>1, <1>2, <2>1, GapsStay
  <1> QED
    BY <1>2, <1>3, <1>4, <1>5, <1>6 DEF HistoryInv

LEMMA JoinedKeeps ==
    ASSUME HistoryInv, Joined
    PROVE  HistoryInv'
  <1>1. /\ UNCHANGED <<clock, heard, roomKnown, since, excused, gone, late>>
        /\ link = "up" /\ link' = "joined" /\ disconnected' = FALSE
        /\ messages' = PushBack(messages, SystemMessage("system"))
    BY DEF Joined
  <1>2. \/ /\ ~disconnected
           /\ UNCHANGED <<lastConnectedAt, request, skipped>>
        \/ /\ disconnected /\ request = Idle
           /\ request' = Gap /\ lastConnectedAt' = At(clock) /\ UNCHANGED skipped
        \/ /\ disconnected /\ request # Idle /\ lastConnectedAt' = At(clock)
           /\ skipped' = skipped \cup (lastConnectedAt.time + 1)..clock
           /\ UNCHANGED request
    BY DEF Joined
  <1>3. Queue(messages', clock') /\ Stays(messages, messages')
    <2>1. SystemMessage("system").id <= clock /\ clock <= clock
      BY StateIs, SystemIs
    <2> QED
      BY <1>1, <2>1, StateIs, SystemIs, PushBackStays
  <1>4. disconnected <=> roomKnown
    BY <1>1, StateIs DEF LinkKept
  <1>5. /\ At(clock) \in [time : 0..MaxMessages, set : BOOLEAN]
        /\ At(clock).time = clock /\ At(clock).set = TRUE
    BY StateIs DEF At, HistoryTypes
  <1>6. /\ Gap \in [kind : {"none", "first", "gap"},
                    after : 0..MaxMessages, before : 0..MaxMessages]
        /\ Gap.kind = "gap" /\ Gap.after = lastConnectedAt.time /\ Gap.before = clock
    BY StateIs DEF Gap, HistoryTypes
  <1>7. /\ lastConnectedAt' \in [time : 0..MaxMessages, set : BOOLEAN]
        /\ lastConnectedAt'.time <= clock /\ (lastConnectedAt'.set <=> roomKnown)
    <2>1. clock <= clock
      BY StateIs
    <2> HIDE DEF At
    <2> QED
      BY <1>2, <1>4, <1>5, <2>1, StateIs DEF HistoryTypes, LinkKept
  <1>8. HistoryTypes'
    <2>1. request' \in [kind : {"none", "first", "gap"},
                        after : 0..MaxMessages, before : 0..MaxMessages]
      BY <1>2, <1>6, StateIs DEF HistoryTypes
    <2> QED
      BY <1>1, <1>7, <2>1, StateIs DEF HistoryTypes
  <1>9. RequestKept'
    <2>1. CASE UNCHANGED request
      BY <1>1, <1>3, <2>1, StateIs, RequestStays
    <2>2. CASE disconnected /\ request' = Gap
      <3>1. roomKnown'
        BY <1>1, <1>4, <2>2
      <3>2. request'.kind = "gap"
        BY <1>6, <2>2
      <3>3. request'.after <= request'.before /\ request'.before <= clock'
        BY <1>1, <1>6, <2>2, StateIs DEF LinkKept
      <3>4. \A e \in Elements(messages') : IsFirst(e) => e.id <= request'.before
        BY <1>1, <1>3, <1>6, <2>2 DEF Queue
      <3> QED
        BY <3>1, <3>2, <3>3, <3>4 DEF RequestKept
    <2> QED
      BY <1>2, <2>1, <2>2
  <1>10. LinkKept'
    <2>1. ~(link' \in {"down", "up"}) /\ link' # "silent"
      BY <1>1
    <2>2. lastConnectedAt'.time <= clock' /\ (lastConnectedAt'.set <=> roomKnown')
      BY <1>1, <1>7
    <2> QED
      BY <1>1, <2>1, <2>2 DEF LinkKept
  <1>11. GapsKept'
    <2>1. ASSUME roomKnown, NEW n \in since + 1 .. clock, Covered(n) \/ Missed(n)
          PROVE  n \in Ids(messages) \/ Covered(n)'
      <3>1. CASE n \in Ids(messages) \/ n \in excused \cup skipped \cup late
        BY <1>1, <1>2, <3>1 DEF Covered
      <3>2. CASE request.kind = "gap" /\ n \in request.after + 1 .. request.before
        <4>1. UNCHANGED request
          <5>1. request # Idle
            BY <3>2 DEF Idle
          <5> QED
            BY <1>2, <5>1
        <4> QED
          BY <3>2, <4>1 DEF Covered
      <3>3. CASE Missed(n)
        <4>1. n \in lastConnectedAt.time + 1 .. clock
          BY <3>3, StateIs DEF Missed, HistoryTypes
        <4>2. disconnected
          BY <1>4, <2>1
        <4>3. CASE request' = Gap
          BY <1>6, <4>1, <4>3 DEF Covered
        <4>4. CASE skipped' = skipped \cup (lastConnectedAt.time + 1)..clock
          BY <4>1, <4>4 DEF Covered
        <4> QED
          BY <1>2, <4>2, <4>3, <4>4
      <3> QED
        BY <2>1, <3>1, <3>2, <3>3 DEF Covered, Present
    <2> QED
      BY <1>1, <1>3, <2>1, GapsStay
  <1> QED
    BY <1>3, <1>8, <1>9, <1>10, <1>11 DEF HistoryInv

LEMMA RoomStateKeeps ==
    ASSUME HistoryInv, RoomState
    PROVE  HistoryInv'
  <1>1. /\ UNCHANGED <<clock, link, heard, messages, excused, skipped, gone, late>>
        /\ link = "joined" /\ ~roomKnown /\ roomKnown' = TRUE /\ disconnected' = FALSE
        /\ request' = [kind |-> "first", after |-> 0, before |-> 0]
        /\ lastConnectedAt' = At(clock) /\ since' = clock
    BY DEF RoomState
  <1>2. HistoryTypes'
    <2>1. 0 \in 0..MaxMessages
      BY LimitIs
    <2>2. request' \in [kind : {"none", "first", "gap"},
                        after : 0..MaxMessages, before : 0..MaxMessages]
      BY <1>1, <2>1
    <2>3. lastConnectedAt' \in [time : 0..MaxMessages, set : BOOLEAN]
      BY <1>1, StateIs DEF At, HistoryTypes
    <2> QED
      BY <1>1, <2>2, <2>3, StateIs DEF HistoryTypes
  <1>3. RequestKept'
    <2>1. request'.kind = "first" /\ request'.after = 0
      BY <1>1
    <2>2. \A e \in Elements(messages') : e.from \notin {"first", "gap"}
      BY <1>1, StateIs DEF RequestKept
    <2> QED
      BY <1>1, <2>1, <2>2 DEF RequestKept
  <1>4. LinkKept'
    <2>1. lastConnectedAt'.time = clock /\ lastConnectedAt'.set = TRUE
      BY <1>1 DEF At
    <2>2. lastConnectedAt'.time <= clock'
      BY <1>1, <2>1, StateIs
    <2> QED
      BY <1>1, <2>1, <2>2 DEF LinkKept
  <1>5. GapsKept'
    <2>1. since' + 1 .. clock' = {}
      BY <1>1, StateIs
    <2> QED
      BY <2>1 DEF GapsKept
  <1> QED
    BY <1>1, <1>2, <1>3, <1>4, <1>5, StateIs DEF HistoryInv

\* No load without a room
LEMMA LoadIs ==
    ASSUME HistoryInv, request # Idle
    PROVE  /\ roomKnown /\ request.kind \in {"first", "gap"}
           /\ request.kind = "first" => AtFront
           /\ request.kind = "gap" /\ messages = << >> => AtFront
           /\ request.kind = "gap" /\ messages # << >> => FillsIn
  <1>1. roomKnown /\ request.kind \in {"first", "gap"}
    BY StateIs DEF RequestKept, HistoryTypes
  <1>2. request.after <= Until /\ Until <= clock
    <2>1. CASE request.kind = "first"
      BY <2>1, StateIs DEF RequestKept, Until
    <2>2. CASE request.kind = "gap"
      BY <2>2, StateIs DEF RequestKept, Until
    <2> QED
      BY <1>1, <2>1, <2>2
  <1>3. request.kind = "first" => AtFront
    BY <1>2, StateIs DEF RequestKept, AtFront
  <1>4. request.kind = "gap" /\ messages = << >> => AtFront
    BY <1>2, StateIs DEF AtFront
  <1>5. request.kind = "gap" /\ messages # << >> => FillsIn
    <2>1. messages # << >> => Len(messages) > 0
      BY StateIs, EmptySeq
    <2> QED
      BY <2>1, StateIs DEF RequestKept, FillsIn
  <1> QED
    BY <1>1, <1>3, <1>4, <1>5

\* What the load makes of the messages: nothing newer gives way to it.
LEMMA LoadedQueue ==
    ASSUME HistoryInv, LoadSucceeds
    PROVE  /\ Queue(messages', clock)
           /\ Len(messages) <= Len(messages')
           /\ \A e \in Elements(messages') :
                 e \in Elements(messages) \/ (e.from = request.kind /\ e.id \in Answer)
           /\ Len(messages') < scrollbackSplitLimit =>
                 Ids(messages) \cup Answer \subseteq Ids(messages')
           /\ \A k \in Ids(messages) \cup Answer : k \notin Ids(messages') =>
                 \A j \in Ids(messages') : j \notin Ids(messages) => k < j
  <1>1. /\ request # Idle
        /\ messages' = IF request.kind = "first" THEN PushFront(messages, Loaded)
                       ELSE FillInMissing(messages, Loaded)
    BY DEF LoadSucceeds
  <1>2. CASE AtFront /\ messages' = PushFront(messages, Loaded)
    <2>1. /\ Queue(messages', clock)
          /\ Len(messages) <= Len(messages')
          /\ \A e \in Elements(messages') :
                e \in Elements(messages) \/ (e.from = request.kind /\ e.id \in Answer)
          /\ Elements(messages) \subseteq Elements(messages')
          /\ Len(messages') < scrollbackSplitLimit => Answer \subseteq Ids(messages')
          /\ \A k \in Answer : k \notin Ids(messages') =>
                \A j \in Ids(messages') : j \notin Ids(messages) => k < j
      BY <1>2, FrontQueue
    <2>2. Ids(messages) \subseteq Ids(messages')
      BY <2>1, StateIs, IdsAre DEF Queue, Ordered
    <2> QED
      BY <2>1, <2>2
  <1>3. CASE FillsIn /\ messages' = Filled(messages, Loaded)
    <2>1. /\ Queue(messages', clock)
          /\ Len(messages) <= Len(messages')
          /\ \A e \in Elements(messages') :
                e \in Elements(messages) \/ (e.from = "gap" /\ e.id \in Answer)
          /\ Len(messages') < scrollbackSplitLimit =>
                /\ \A e \in Elements(messages) : e.id # 0 => e \in Elements(messages')
                /\ Answer \subseteq Ids(messages')
          /\ \A k \in Ids(messages) \cup Answer : k \notin Ids(messages') =>
                \A j \in Ids(messages') : j \notin Ids(messages) => k < j
      BY <1>3, FilledQueue
    <2>2. request.kind = "gap"
      BY <1>3 DEF FillsIn
    <2>3. ASSUME Len(messages') < scrollbackSplitLimit, NEW n \in Ids(messages)
          PROVE  n \in Ids(messages')
      <3>1. PICK e \in Elements(messages) : e.id = n /\ n # 0
        BY StateIs, IdsAre
      <3>2. e \in Elements(messages') /\ messages' \in Seq(Item)
        BY <2>1, <2>3, <3>1 DEF Queue, Ordered
      <3> QED
        BY <3>1, <3>2, IdsAre
    <2> QED
      BY <2>1, <2>2, <2>3
  <1>4. CASE request.kind = "first"
    BY <1>1, <1>2, <1>4, LoadIs
  <1>5. CASE request.kind = "gap"
    BY <1>1, <1>2, <1>3, <1>5, LoadIs DEF FillInMissing
  <1> QED
    BY <1>1, <1>4, <1>5, LoadIs

\* After a load nothing is asked for.
LEMMA IdleIs ==
    /\ Idle \in [kind : {"none", "first", "gap"},
                 after : 0..MaxMessages, before : 0..MaxMessages]
    /\ Idle.kind = "none"
  <1>1. 0 \in 0..MaxMessages
    BY LimitIs
  <1> QED
    BY <1>1 DEF Idle

LEMMA LoadSucceedsKeeps ==
    ASSUME HistoryInv, LoadSucceeds
    PROVE  HistoryInv'
  <1>1. /\ UNCHANGED <<clock, link, heard, roomKnown, disconnected, lastConnectedAt,
                       since, skipped, gone, late>>
        /\ request # Idle /\ request' = Idle
        /\ excused' = excused \cup (Asked \ Answer)
    BY DEF LoadSucceeds
  <1>2. Queue(messages', clock')
    BY <1>1, LoadedQueue
  <1>3. HistoryTypes'
    BY <1>1, IdleIs, StateIs DEF HistoryTypes
  <1>4. RequestKept'
    <2>1. roomKnown' /\ request' = Idle /\ request'.kind = "none"
      BY <1>1, IdleIs, LoadIs
    <2> QED
      BY <2>1 DEF RequestKept
  <1>5. LinkKept'
    BY <1>1, StateIs DEF LinkKept
  <1>6. GapsKept'
    <2> SUFFICES ASSUME Len(messages') < scrollbackSplitLimit,
                        NEW n \in since + 1 .. clock
                 PROVE  Covered(n)' \/ Missed(n)'
      BY <1>1 DEF GapsKept
    <2>1. /\ Len(messages) < scrollbackSplitLimit
          /\ Ids(messages) \cup Answer \subseteq Ids(messages')
      <3>1. Len(messages') \in Nat
        BY <1>2, QueueIs DEF Queue, Ordered
      <3> QED
        BY <3>1, LoadedQueue, StateIs, LimitIs
    <2>2. Covered(n) \/ Missed(n)
      BY <2>1, LoadIs, <1>1, StateIs DEF GapsKept
    <2>3. CASE request.kind = "gap" /\ n \in request.after + 1 .. request.before
      <3>1. n \in Asked
        BY <2>3 DEF Asked, Until
      <3> QED
        BY <1>1, <2>1, <3>1 DEF Covered, Present
    <2> QED
      BY <1>1, <2>1, <2>2, <2>3 DEF Covered, Missed, Present
  <1> QED
    BY <1>2, <1>3, <1>4, <1>5, <1>6 DEF HistoryInv

LEMMA LoadFailsKeeps ==
    ASSUME HistoryInv, LoadFails
    PROVE  HistoryInv'
  <1>1. /\ UNCHANGED <<clock, link, heard, roomKnown, disconnected, lastConnectedAt,
                       messages, since, skipped, gone, late>>
        /\ request # Idle /\ request' = Idle
        /\ excused' = excused \cup Asked
    BY DEF LoadFails
  <1>2. HistoryTypes'
    BY <1>1, IdleIs, StateIs DEF HistoryTypes
  <1>3. RequestKept'
    <2>1. roomKnown' /\ request' = Idle /\ request'.kind = "none"
      BY <1>1, IdleIs, LoadIs
    <2> QED
      BY <2>1 DEF RequestKept
  <1>4. LinkKept'
    BY <1>1, StateIs DEF LinkKept
  <1>5. GapsKept'
    <2>1. ASSUME NEW n, Covered(n) \/ Missed(n)
          PROVE  n \in Ids(messages) \/ Covered(n)' \/ Missed(n)'
      <3>1. CASE request.kind = "gap" /\ n \in request.after + 1 .. request.before
        <4>1. n \in Asked
          BY <3>1 DEF Asked, Until
        <4> QED
          BY <1>1, <4>1 DEF Covered
      <3> QED
        BY <1>1, <2>1, <3>1 DEF Covered, Missed, Present
    <2>2. Stays(messages, messages')
      BY <1>1, StateIs DEF Stays
    <2> QED
      BY <1>1, <2>1, <2>2, GapsStay
  <1> QED
    BY <1>1, <1>2, <1>3, <1>4, <1>5, StateIs DEF HistoryInv

LEMMA HistoryInvNext == HistoryInv /\ [HistoryNext]_historyVars => HistoryInv'
  <1> SUFFICES ASSUME HistoryInv, [HistoryNext]_historyVars PROVE HistoryInv'
    OBVIOUS
  <1>1. CASE Say
    BY <1>1, SayKeeps
  <1>2. CASE Heartbeat
    BY <1>2, HeartbeatKeeps
  <1>3. CASE GoesSilent
    BY <1>3, GoesSilentKeeps
  <1>4. CASE LinkLost
    BY <1>4, DisconnectedKeeps DEF LinkLost
  <1>5. CASE ServerReconnects
    BY <1>5, DisconnectedKeeps DEF ServerReconnects
  <1>6. CASE Registered
    BY <1>6, RegisteredKeeps
  <1>7. CASE Joined
    BY <1>7, JoinedKeeps
  <1>8. CASE RoomState
    BY <1>8, RoomStateKeeps
  <1>9. CASE LoadSucceeds
    BY <1>9, LoadSucceedsKeeps
  <1>10. CASE LoadFails
    BY <1>10, LoadFailsKeeps
  <1>11. CASE UNCHANGED historyVars
    <2>1. /\ UNCHANGED <<clock, link, heard, roomKnown, disconnected, lastConnectedAt, request,
                         messages, since, excused, skipped, gone, late>>
      BY <1>11 DEF historyVars, channel, history
    <2>2. HistoryTypes' /\ Queue(messages', clock') /\ RequestKept' /\ LinkKept'
      BY <2>1, StateIs DEF HistoryTypes, RequestKept, LinkKept
    <2>3. GapsKept'
      BY <2>1, StateIs DEF GapsKept, Covered, Missed, Present
    <2> QED
      BY <2>2, <2>3 DEF HistoryInv
  <1> QED
    BY <1>1, <1>2, <1>3, <1>4, <1>5, <1>6, <1>7, <1>8, <1>9, <1>10, <1>11 DEF HistoryNext

LEMMA HistoryInvAlways == HistorySpec => []HistoryInv
  BY HistoryInvInit, HistoryInvNext, PTL DEF HistorySpec

LEMMA HistoryInvMeans == HistoryInv => HistoryTypeOK /\ GapsAreFilled /\ InOrder
  <1> SUFFICES ASSUME HistoryInv PROVE HistoryTypeOK /\ GapsAreFilled /\ InOrder
    OBVIOUS
  <1>1. \A i \in 1..Len(messages) :
            /\ messages[i] \in Item /\ messages[i] \in Elements(messages)
            /\ messages[i].id \in 0..MaxMessages
    <2> TAKE i \in 1..Len(messages)
    <2>1. messages[i] \in Item /\ messages[i] \in Elements(messages) /\ messages[i].id \in Nat
      BY StateIs, QueueIs
    <2>2. messages[i].id <= clock
      BY <2>1, StateIs DEF Queue
    <2> QED
      BY <2>1, <2>2, StateIs, LimitIs DEF HistoryTypes
  <1>2. HistoryTypeOK
    <2>1. \A i \in 1..Len(messages) :
              messages[i] \in [id : 0..MaxMessages,
                               from : {"live", "first", "gap", "system", "disconnected"}]
      BY <1>1 DEF Item
    <2> QED
      BY <2>1, StateIs DEF HistoryTypeOK, HistoryTypes
  <1>3. GapsAreFilled
    <2> SUFFICES ASSUME link = "joined", request = Idle, roomKnown,
                        Len(messages) < scrollbackSplitLimit, NEW n \in since + 1 .. clock
                 PROVE  Present(n) \/ n \in excused \cup skipped \cup late
      BY DEF GapsAreFilled
    <2>1. Covered(n) \/ Missed(n)
      BY StateIs DEF GapsKept
    <2> QED
      BY <2>1, IdleIs DEF Covered, Missed
  <1>4. InOrder
    <2> SUFFICES ASSUME NEW i \in 1..Len(messages), NEW j \in 1..Len(messages), i < j
                 PROVE  /\ {messages[i].from, messages[j].from} \subseteq {"live", "gap"}
                           => messages[i].id < messages[j].id
                        /\ messages[i].id # 0 /\ messages[i].id = messages[j].id
                           => messages[i].from = "first" /\ messages[j].from = "live"
      BY DEF InOrder
    <2> DEFINE a == messages[i]
               b == messages[j]
    <2>1. a \in Item /\ b \in Item /\ a \in Elements(messages) /\ b \in Elements(messages)
      BY <1>1
    <2>2. a.id # 0 /\ b.id # 0 => Earlier(a, b)
      BY StateIs DEF Queue, Ordered, Sorted
    <2>3. ~(b.from = "gap" /\ IsFirst(a) /\ a.id = b.id)
      BY <2>1, StateIs DEF Queue, NoTwin
    <2> HIDE DEF a, b
    <2>4. {a.from, b.from} \subseteq {"live", "gap"} => a.id < b.id
      BY <2>1, <2>2 DEF Item, Earlier, IsFirst
    <2>5. a.id # 0 /\ a.id = b.id => a.from = "first" /\ b.from = "live"
      BY <2>1, <2>2, <2>3 DEF Item, Earlier, IsFirst
    <2> QED
      BY <2>4, <2>5 DEF a, b
  <1> QED
    BY <1>2, <1>3, <1>4

\* Every variable of the history has its type, and messages_ never exceeds its limit
\* (LimitedQueue, Channel::addMessage()).
THEOREM HistoryTypeCorrect == HistorySpec => []HistoryTypeOK
  BY HistoryInvAlways, HistoryInvMeans, PTL

\* Once joined, with no load running and space left, the channel shows every message
\* sent since its room became known, but for those the service did not deliver, those
\* of a gap that found another load running, and those of a silent peer
\* (loadRecentMessagesReconnect(), markConnected(), fillInMissingMessages()).
THEOREM GapsFilled == HistorySpec => []GapsAreFilled
  BY HistoryInvAlways, HistoryInvMeans, PTL

\* Loads repeat no message of another load or of the connection but what the first
\* load repeats, and the live messages and the reloaded ones are in the order of the
\* chat (fillInMissingMessages(), insertBefore(), pushFront()).
THEOREM OrderKept == HistorySpec => []InOrder
  BY HistoryInvAlways, HistoryInvMeans, PTL

\* When a load meets the limit of the scrollback, whatever gives way is older than
\* whatever it adds (pushFront(), insertBefore()).
THEOREM NewestKept == HistorySpec => NewestAreKept
  <1>1. HistoryInv /\ [HistoryNext]_historyVars =>
            [LoadSucceeds =>
                \A n \in (Ids(messages) \cup Answer) \ Ids(messages') :
                   \A k \in Ids(messages') \ Ids(messages) : n < k]_historyVars
    <2> SUFFICES ASSUME HistoryInv, LoadSucceeds,
                        NEW n \in (Ids(messages) \cup Answer) \ Ids(messages'),
                        NEW k \in Ids(messages') \ Ids(messages)
                 PROVE  n < k
      OBVIOUS
    <2> QED
      BY LoadedQueue
  <1> QED
    BY <1>1, HistoryInvAlways, PTL DEF HistorySpec, NewestAreKept
=============================================================================
