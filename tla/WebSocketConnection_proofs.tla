--------------------- MODULE WebSocketConnection_proofs ---------------------
(***************************************************************************)
(* What holds of WebSocketConnection for every number of endpoints,        *)
(* messages and calls: the type invariant, the assertions of the code, and *)
(* that the connection keeps the promise of SocketPromise.                 *)
(***************************************************************************)
EXTENDS WebSocketConnection, TLAPS, FunctionTheorems, FiniteSetTheorems, SequenceTheorems
-----------------------------------------------------------------------------
(* The inductive invariant. *)

Connections ==
    [tls : BOOLEAN, op : Operation, endpoints : 0..MaxEndpoints, isOpen : BOOLEAN,
     queuedMessages : Seq(1..MaxSends), isSending : BOOLEAN,
     isClosing : BOOLEAN, closeOp : BOOLEAN, listener : BOOLEAN]

\* The steps between run() and the end of the handshake.
Chain == {"resolve", "connect", "tls", "handshake"}

\* What is being written is the front of the queue.
SendingFront == conn.isSending => conn.queuedMessages # << >>

\* run() is the first task; until it runs the connection is as it was created.
RunIsFirst ==
    \A i \in 1..Len(posted) : posted[i] = "run" =>
        /\ i = 1
        /\ conn.op = "none" /\ conn.listener
        /\ ~conn.isOpen /\ ~conn.isSending /\ ~conn.isClosing /\ ~conn.closeOp
        /\ conn.queuedMessages = << >> /\ written = << >> /\ calls = << >>

\* A connection that has a listener is being run, or closed.
HasCause ==
    conn.listener =>
        \/ conn.op # "none" \/ conn.closeOp
        \/ posted # << >> /\ posted[1] = "run"

\* A connection that is closing and has not told its listener will.
ClosingEnds == conn.isClosing /\ conn.listener => conn.closeOp

\* onClose() was called last if and only if the listener is gone; onOpen() is
\* called before the first message, and not before the handshake is done.
CallsFit ==
    /\ ~conn.listener <=> Promise!Ended
    /\ conn.listener /\ conn.op \in Chain => calls = << >>
    /\ conn.listener /\ conn.op = "read" => calls # << >>

\* Until the handshake is done the stream is not open and nothing is written.
ChainIsClosed == conn.op \in Chain => ~conn.isOpen /\ ~conn.isSending

\* While a connection attempt is under way its endpoint is one of those left.
HasEndpoint == conn.op = "connect" => conn.endpoints > 0

\* The stream is closed for good.
Spent == ~conn.isOpen /\ ~conn.isSending /\ conn.op \notin Chain

\* The queue continues what was written, unless nothing will be written again.
QueueContinues ==
    Spent \/ \A i \in 1..Len(conn.queuedMessages) :
                conn.queuedMessages[i] = Len(written) + i

\* No message is written, queued and posted more than once.
CountsFit ==
    Len(written) + Len(conn.queuedMessages) + Cardinality(SendTasks(posted)) <= sent

\* None is missing, while there is a listener or something may be written.
CountsExact ==
    conn.listener \/ ~Spent =>
        Len(written) + Len(conn.queuedMessages) + Cardinality(SendTasks(posted)) = sent

IInv ==
    /\ TypeOK
    /\ SendingFront /\ RunIsFirst /\ HasCause /\ ClosingEnds
    /\ CallsFit /\ ChainIsClosed /\ HasEndpoint /\ QueueContinues
    /\ CountsFit /\ CountsExact
-----------------------------------------------------------------------------
(* The tasks that enqueue a message. *)

Tasks == {"run", "send", "close"}

\* They are finitely many.
LEMMA SendTasksFinite ==
    ASSUME NEW s \in Seq(Tasks)
    PROVE  IsFiniteSet(SendTasks(s)) /\ Cardinality(SendTasks(s)) \in Nat
  <1>1. IsFiniteSet(1..Len(s))
    BY FS_Interval
  <1>2. SendTasks(s) \subseteq 1..Len(s)
    BY DEF SendTasks
  <1> QED
    BY <1>1, <1>2, FS_Subset, FS_CardinalityType

\* One more after a message is posted, as many after anything else is.
LEMMA SendTasksAppend ==
    ASSUME NEW s \in Seq(Tasks), NEW task \in Tasks
    PROVE  Cardinality(SendTasks(Append(s, task)))
               = Cardinality(SendTasks(s)) + (IF task = "send" THEN 1 ELSE 0)
  <1>1. CASE task = "send"
    <2>1. SendTasks(Append(s, task)) = SendTasks(s) \cup {Len(s) + 1}
      BY <1>1 DEF SendTasks
    <2>2. Len(s) + 1 \notin SendTasks(s)
      BY DEF SendTasks
    <2> QED
      BY <1>1, <2>1, <2>2, SendTasksFinite, FS_AddElement
  <1>2. CASE task # "send"
    <2>1. SendTasks(Append(s, task)) = SendTasks(s)
      BY <1>2 DEF SendTasks
    <2> QED
      BY <1>2, <2>1, SendTasksFinite
  <1> QED
    BY <1>1, <1>2

\* One less after the task that enqueues a message is taken.
LEMMA SendTasksTail ==
    ASSUME NEW s \in Seq(Tasks), s # << >>
    PROVE  Cardinality(SendTasks(s))
               = Cardinality(SendTasks(Tail(s))) + (IF s[1] = "send" THEN 1 ELSE 0)
  <1> DEFINE later == SendTasks(s) \ {1}
             shift == [i \in later |-> i - 1]
  <1>1. Tail(s) \in Seq(Tasks) /\ Len(Tail(s)) = Len(s) - 1
        /\ \A i \in 1..Len(Tail(s)) : Tail(s)[i] = s[i + 1]
    OBVIOUS
  <1>2. shift \in Bijection(later, SendTasks(Tail(s)))
    <2>1. \A i \in later : i \in 2..Len(s) /\ s[i] = "send"
      BY DEF SendTasks
    <2>2. \A i \in later : shift[i] \in SendTasks(Tail(s))
      BY <1>1, <2>1 DEF SendTasks
    <2>3. \A i, j \in later : shift[i] = shift[j] => i = j
      BY <2>1
    <2>4. \A k \in SendTasks(Tail(s)) : k + 1 \in later /\ shift[k + 1] = k
      BY <1>1 DEF SendTasks
    <2> HIDE DEF later, shift
    <2>5. shift \in [later -> SendTasks(Tail(s))]
      BY <2>2 DEF shift
    <2> QED
      BY <2>3, <2>4, <2>5, Fun_IsBij
  <1>3. IsFiniteSet(SendTasks(s)) /\ IsFiniteSet(later)
    BY SendTasksFinite, FS_Subset
  <1>4. Cardinality(later) = Cardinality(SendTasks(Tail(s)))
    BY <1>2, <1>3, FS_Bijection DEF ExistsBijection
  <1>5. CASE s[1] = "send"
    <2>1. SendTasks(s) = later \cup {1} /\ 1 \notin later
      BY <1>5, LenProperties DEF SendTasks
    <2> QED
      BY <1>3, <1>4, <1>5, <2>1, FS_AddElement
  <1>6. CASE s[1] # "send"
    <2>1. SendTasks(s) = later
      BY <1>6 DEF SendTasks
    <2>2. Cardinality(SendTasks(Tail(s))) \in Nat
      BY <1>1, SendTasksFinite
    <2> HIDE DEF later
    <2> QED
      BY <1>4, <1>6, <2>1, <2>2
  <1> QED
    BY <1>5, <1>6
-----------------------------------------------------------------------------
(* What the functions of the connection do to its members. *)

\* detach() and closeImpl(), fail() and trySend() leave the rest alone.
LEMMA CloseImplFields ==
    ASSUME NEW r \in Connections
    PROVE  LET c == CloseImpl(r) IN
           /\ c \in Connections
           /\ c.op = r.op /\ c.isOpen = r.isOpen /\ c.isSending = r.isSending
           /\ c.queuedMessages = r.queuedMessages /\ c.listener = r.listener
           /\ c.isClosing
           /\ c.closeOp = (r.closeOp \/ ~r.isClosing)
  BY DEF CloseImpl, Connections

LEMMA FailFields ==
    ASSUME NEW r \in Connections
    PROVE  LET f == Fail(r) IN
           /\ f \in Connections
           /\ f.op = r.op /\ f.isOpen = r.isOpen /\ f.isSending = r.isSending
           /\ f.queuedMessages = r.queuedMessages
           /\ ~f.listener
  BY DEF Fail, Detach, CloseImpl, Connections

LEMMA TrySendFields ==
    ASSUME NEW r \in Connections
    PROVE  LET t == TrySend(r) IN
           /\ t \in Connections
           /\ t.op = r.op /\ t.isOpen = r.isOpen /\ t.listener = r.listener
           /\ t.queuedMessages = r.queuedMessages
           /\ t.isClosing = r.isClosing /\ t.closeOp = r.closeOp
           /\ t.isSending = (r.isSending \/ (r.queuedMessages # << >> /\ r.isOpen))
  BY DEF TrySend, Connections

\* tryConnect() goes on connecting, or tells the listener that it failed.
LEMMA TryConnectFields ==
    ASSUME NEW r \in Connections, NEW n \in 0..MaxEndpoints
    PROVE  LET t == TryConnect(r, n) IN
           /\ t \in Connections
           /\ t.isOpen = r.isOpen /\ t.isSending = r.isSending
           /\ t.queuedMessages = r.queuedMessages
           /\ \/ t.op = "none" /\ ~t.listener
              \/ /\ t.op = "connect" /\ t.endpoints > 0 /\ t.listener = r.listener
                 /\ t.isClosing = r.isClosing /\ t.closeOp = r.closeOp
  <1>1. 0 \in 0..MaxEndpoints
    BY SocketAssumption
  <1>2. [r EXCEPT !.op = "none", !.endpoints = 0] \in Connections
    BY <1>1 DEF Connections, Operation
  <1>3. CASE n = 0
    BY <1>2, <1>3, FailFields DEF TryConnect, Connections
  <1>4. CASE n # 0
    <2>1. n > 0
      BY <1>4, SocketAssumption
    <2> QED
      BY <1>4, <2>1 DEF TryConnect, Connections, Operation
  <1> QED
    BY <1>3, <1>4
-----------------------------------------------------------------------------
(* Steps that make the connection r. *)

LEMMA Types ==
    ASSUME TypeOK
    PROVE  /\ conn \in Connections /\ posted \in Seq(Tasks)
           /\ calls \in Seq({"onOpen", "onMessage", "onClose"})
           /\ sent \in 0..MaxSends /\ sent \in Nat /\ MaxSends \in Nat
           /\ written \in Seq(1..MaxSends)
           /\ conn.queuedMessages \in Seq(1..MaxSends)
  BY SocketAssumption DEF TypeOK, Connections, Tasks

\* Nothing after the first task is run(), nor that one once anything is under way.
LEMMA NoRun ==
    ASSUME TypeOK, RunIsFirst
    PROVE  /\ conn.op # "none" \/ conn.isOpen \/ conn.isSending \/ conn.closeOp
              => \A i \in 1..Len(posted) : posted[i] # "run"
           /\ posted # << >> =>
              /\ Tail(posted) \in Seq(Tasks)
              /\ \A i \in 1..Len(Tail(posted)) : Tail(posted)[i] # "run"
  <1>1. ASSUME posted # << >>
        PROVE  /\ Tail(posted) \in Seq(Tasks)
               /\ \A i \in 1..Len(Tail(posted)) :
                      i + 1 \in 1..Len(posted) /\ Tail(posted)[i] = posted[i + 1]
    BY <1>1, Types
  <1>2. ASSUME posted # << >>, NEW i \in 1..Len(Tail(posted))
        PROVE  Tail(posted)[i] # "run"
    <2>1. i + 1 \in 1..Len(posted) /\ Tail(posted)[i] = posted[i + 1] /\ i + 1 # 1
      BY <1>1, <1>2
    <2> QED
      BY <2>1 DEF RunIsFirst
  <1> QED
    BY <1>1, <1>2 DEF RunIsFirst

\* The sequence of calls after one more.
LEMMA CallsAppend ==
    ASSUME TypeOK, NEW call \in {"onOpen", "onMessage", "onClose"}
    PROVE  LET later == Append(calls, call) IN
           /\ later \in Seq({"onOpen", "onMessage", "onClose"})
           /\ later # << >> /\ later[Len(later)] = call
  <1>1. calls \in Seq({"onOpen", "onMessage", "onClose"}) /\ Len(calls) \in Nat
    BY Types, LenProperties
  <1>2. Len(Append(calls, call)) = Len(calls) + 1
    BY <1>1, AppendProperties
  <1> QED
    BY <1>1, <1>2, AppendProperties

\* The calls of the listener in a step that makes the connection r.
LEMMA BecomeCalls ==
    ASSUME TypeOK, CallsFit, NEW r \in Connections, Become(r),
           r.listener => conn.listener
    PROVE  /\ calls' \in Seq({"onOpen", "onMessage", "onClose"})
           /\ ~r.listener <=> Promise!Ended'
           /\ r.listener => calls' = calls
           /\ \/ calls' = calls
              \/ ~Promise!Ended /\ calls' = Append(calls, "onClose")
  <1>1. CASE conn.listener /\ ~r.listener
    <2>1. calls' = Append(calls, "onClose")
      BY <1>1 DEF Become
    <2>2. /\ calls' \in Seq({"onOpen", "onMessage", "onClose"})
          /\ calls' # << >> /\ calls'[Len(calls')] = "onClose"
      BY <2>1, CallsAppend
    <2> QED
      BY <1>1, <2>1, <2>2 DEF CallsFit, Promise!Ended
  <1>2. CASE ~(conn.listener /\ ~r.listener)
    <2>1. calls' = calls
      BY <1>2 DEF Become
    <2>2. r.listener = conn.listener
      BY <1>2, Types DEF Connections
    <2> QED
      BY <2>1, <2>2, Types DEF CallsFit, Promise!Ended
  <1> QED
    BY <1>1, <1>2

\* What r has to satisfy.
LEMMA BecomeStep ==
    ASSUME IInv, NEW r \in Connections, Become(r),
           UNCHANGED <<handle, closing, sent, closes>>,
           posted' \in Seq(Tasks), \A i \in 1..Len(posted') : posted'[i] # "run",
           written' \in Seq(1..MaxSends),
           r.listener => conn.listener /\ (r.op # "none" \/ r.closeOp),
           r.isClosing /\ r.listener => r.closeOp,
           r.listener /\ r.op \in Chain => calls = << >>,
           r.listener /\ r.op = "read" => calls # << >>,
           r.op \in Chain => ~r.isOpen /\ ~r.isSending,
           r.isSending => r.queuedMessages # << >>,
           r.op = "connect" => r.endpoints > 0,
           QueueContinues', CountsFit', CountsExact'
    PROVE  IInv'
  <1>1. conn' = r
    BY DEF Become
  <1>2. TypeOK /\ CallsFit
    BY DEF IInv
  <1>3. TypeOK'
    BY <1>1, <1>2, BecomeCalls DEF TypeOK, Tasks, Connections
  <1>4. SendingFront' /\ HasCause' /\ ClosingEnds' /\ ChainIsClosed' /\ HasEndpoint'
    BY <1>1 DEF SendingFront, HasCause, ClosingEnds, ChainIsClosed, HasEndpoint
  <1>5. RunIsFirst'
    BY DEF RunIsFirst
  <1>6. CallsFit'
    BY <1>1, <1>2, BecomeCalls DEF CallsFit
  <1> QED
    BY <1>3, <1>4, <1>5, <1>6 DEF IInv

\* A completion that neither queues nor writes a message.
LEMMA QuietStep ==
    ASSUME IInv, NEW r \in Connections, Become(r),
           UNCHANGED <<posted, handle, closing, sent, closes, written>>,
           \A i \in 1..Len(posted) : posted[i] # "run",
           r.queuedMessages = conn.queuedMessages, r.isSending = conn.isSending,
           r.listener => conn.listener /\ (r.op # "none" \/ r.closeOp),
           r.isClosing /\ r.listener => r.closeOp,
           r.op \in Chain => conn.op \in Chain /\ ~r.isOpen,
           r.op = "read" => conn.op = "read",
           r.op = "connect" => r.endpoints > 0,
           r.isOpen => conn.isOpen \/ conn.op \in Chain
    PROVE  IInv'
  <1>1. conn' = r
    BY DEF Become
  <1>2. QueueContinues'
    BY <1>1 DEF IInv, QueueContinues, Spent
  <1>3. CountsFit' /\ CountsExact'
    BY <1>1 DEF IInv, CountsFit, CountsExact, Spent
  <1>4. posted' \in Seq(Tasks) /\ written' \in Seq(1..MaxSends)
    BY Types DEF IInv
  <1>5. /\ r.listener /\ r.op \in Chain => calls = << >>
        /\ r.listener /\ r.op = "read" => calls # << >>
        /\ r.op \in Chain => ~r.isOpen /\ ~r.isSending
        /\ r.isSending => r.queuedMessages # << >>
    BY DEF IInv, CallsFit, ChainIsClosed, SendingFront
  <1>6. \A i \in 1..Len(posted') : posted'[i] # "run"
    OBVIOUS
  <1> QED
    BY <1>2, <1>3, <1>4, <1>5, <1>6, BecomeStep
-----------------------------------------------------------------------------
(* Every step keeps the invariant. *)

\* What the completions share.
LEMMA Completes ==
    ASSUME IInv
    PROVE  /\ TypeOK /\ RunIsFirst /\ conn \in Connections
           /\ conn.op # "none" \/ conn.isOpen \/ conn.isSending \/ conn.closeOp
              => \A i \in 1..Len(posted) : posted[i] # "run"
           /\ conn.op \in Chain => ~conn.isOpen /\ ~conn.isSending
           /\ conn.isClosing /\ conn.listener => conn.closeOp
  <1>1. TypeOK /\ RunIsFirst
    BY DEF IInv
  <1>2. conn \in Connections
    BY <1>1, Types
  <1> QED
    BY <1>1, <1>2, NoRun DEF IInv, ChainIsClosed, ClosingEnds

\* Trying an endpoint, or running out of them.
LEMMA TryConnectKeeps ==
    ASSUME IInv, NEW n \in 0..MaxEndpoints, conn.op \in Chain,
           Become(TryConnect(conn, n)), Unrelated, UNCHANGED written
    PROVE  IInv'
  <1> DEFINE r == TryConnect(conn, n)
  <1>1. /\ r \in Connections
        /\ r.isOpen = conn.isOpen /\ r.isSending = conn.isSending
        /\ r.queuedMessages = conn.queuedMessages
        /\ \/ r.op = "none" /\ ~r.listener
           \/ /\ r.op = "connect" /\ r.endpoints > 0 /\ r.listener = conn.listener
              /\ r.isClosing = conn.isClosing /\ r.closeOp = conn.closeOp
    BY Completes, TryConnectFields
  <1>2. conn.op # "none" /\ "none" \notin Chain
    BY DEF Chain
  <1>3. Become(r)
    OBVIOUS
  <1> HIDE DEF r
  <1>4. \A i \in 1..Len(posted) : posted[i] # "run"
    BY <1>2, Completes
  <1>5. /\ r.listener => conn.listener /\ (r.op # "none" \/ r.closeOp)
        /\ r.isClosing /\ r.listener => r.closeOp
        /\ r.op \in Chain => conn.op \in Chain /\ ~r.isOpen
        /\ r.op = "read" => conn.op = "read"
        /\ r.op = "connect" => r.endpoints > 0
        /\ r.isOpen => conn.isOpen \/ conn.op \in Chain
    BY <1>1, Completes
  <1> QED
    BY <1>1, <1>3, <1>4, <1>5, QuietStep DEF Unrelated

\* An operation fails: the listener is told, at once.
LEMMA FailKeeps ==
    ASSUME IInv, NEW r \in Connections, r.op = "none",
           r.isSending = conn.isSending, r.queuedMessages = conn.queuedMessages,
           r.isOpen => conn.isOpen \/ conn.op \in Chain,
           \A i \in 1..Len(posted) : posted[i] # "run",
           Become(Fail(r)), UNCHANGED <<posted, handle, closing, sent, closes, written>>
    PROVE  IInv'
  <1> DEFINE f == Fail(r)
  <1>1. /\ f \in Connections
        /\ f.op = "none" /\ f.isOpen = r.isOpen /\ f.isSending = conn.isSending
        /\ f.queuedMessages = conn.queuedMessages
        /\ ~f.listener
    BY FailFields
  <1>2. Become(f) /\ "none" \notin Chain
    BY DEF Chain
  <1> HIDE DEF f
  <1> QED
    BY <1>1, <1>2, QuietStep

LEMMA OnResolveKeeps == IInv /\ OnResolve => IInv'
  <1> SUFFICES ASSUME IInv, OnResolve PROVE IInv'
    OBVIOUS
  <1>0. conn \in Connections
    BY Completes
  <1>1. conn.op = "resolve" /\ conn.op \in Chain
    BY DEF OnResolve, Chain
  <1>2. CASE Become(Fail([conn EXCEPT !.op = "none"]))
    <2> DEFINE r == [conn EXCEPT !.op = "none"]
    <2>1. /\ r \in Connections /\ r.op = "none" /\ r.isOpen = conn.isOpen
          /\ r.isSending = conn.isSending /\ r.queuedMessages = conn.queuedMessages
      BY <1>0 DEF Connections, Operation
    <2>2. Become(Fail(r))
      BY <1>2
    <2> HIDE DEF r
    <2> QED
      BY <1>1, <2>1, <2>2, FailKeeps, Completes DEF OnResolve, Unrelated
  <1>3. ASSUME NEW n \in 1..MaxEndpoints, Become(TryConnect(conn, n))
        PROVE  IInv'
    <2>1. n \in 0..MaxEndpoints
      BY SocketAssumption
    <2> QED
      BY <1>1, <1>3, <2>1, TryConnectKeeps DEF OnResolve
  <1> QED
    BY <1>2, <1>3 DEF OnResolve

LEMMA OnTcpHandshakeKeeps == IInv /\ OnTcpHandshake => IInv'
  <1> SUFFICES ASSUME IInv, OnTcpHandshake PROVE IInv'
    OBVIOUS
  <1>1. conn.op = "connect" /\ conn.op \in Chain
    BY DEF OnTcpHandshake, Chain
  <1>2. CASE Become(TryConnect(conn, conn.endpoints - 1))
    <2>1. conn.endpoints > 0 /\ conn.endpoints \in 0..MaxEndpoints
      BY <1>1, Completes DEF IInv, HasEndpoint, Connections
    <2>2. conn.endpoints - 1 \in 0..MaxEndpoints
      BY <2>1, SocketAssumption
    <2> QED
      BY <1>1, <1>2, <2>2, TryConnectKeeps DEF OnTcpHandshake
  <1>3. ASSUME NEW op \in {"tls", "handshake"},
               Become([conn EXCEPT !.op = op, !.endpoints = 0])
        PROVE  IInv'
    <2> DEFINE r == [conn EXCEPT !.op = op, !.endpoints = 0]
    <2>1. op \in Operation /\ 0 \in 0..MaxEndpoints
      BY SocketAssumption DEF Operation
    <2>2. /\ r \in Connections /\ r.op = op
          /\ r.queuedMessages = conn.queuedMessages /\ r.isSending = conn.isSending
          /\ r.isOpen = conn.isOpen /\ r.listener = conn.listener
          /\ r.isClosing = conn.isClosing /\ r.closeOp = conn.closeOp
      BY <2>1, Completes DEF Connections
    <2>3. Become(r) /\ op \in Chain /\ op # "read" /\ op # "none" /\ op # "connect"
      BY <1>3 DEF Chain
    <2>4. /\ \A i \in 1..Len(posted) : posted[i] # "run"
          /\ ~conn.isOpen
          /\ conn.isClosing /\ conn.listener => conn.closeOp
      BY <1>1, Completes
    <2> HIDE DEF r
    <2> QED
      BY <1>1, <2>2, <2>3, <2>4, QuietStep DEF OnTcpHandshake, Unrelated
  <1> QED
    BY <1>2, <1>3 DEF OnTcpHandshake

LEMMA OnTlsHandshakeKeeps == IInv /\ OnTlsHandshake => IInv'
  <1> SUFFICES ASSUME IInv, OnTlsHandshake PROVE IInv'
    OBVIOUS
  <1>0. conn \in Connections
    BY Completes
  <1>1. conn.op = "tls" /\ conn.op \in Chain
    BY DEF OnTlsHandshake, Chain
  <1>2. CASE Become(Fail([conn EXCEPT !.op = "none"]))
    <2> DEFINE r == [conn EXCEPT !.op = "none"]
    <2>1. /\ r \in Connections /\ r.op = "none" /\ r.isOpen = conn.isOpen
          /\ r.isSending = conn.isSending /\ r.queuedMessages = conn.queuedMessages
      BY <1>0 DEF Connections, Operation
    <2>2. Become(Fail(r))
      BY <1>2
    <2> HIDE DEF r
    <2> QED
      BY <1>1, <2>1, <2>2, FailKeeps, Completes DEF OnTlsHandshake, Unrelated
  <1>3. CASE Become([conn EXCEPT !.op = "handshake"])
    <2> DEFINE r == [conn EXCEPT !.op = "handshake"]
    <2>1. /\ r \in Connections /\ r.op = "handshake"
          /\ r.queuedMessages = conn.queuedMessages /\ r.isSending = conn.isSending
          /\ r.isOpen = conn.isOpen /\ r.listener = conn.listener
          /\ r.isClosing = conn.isClosing /\ r.closeOp = conn.closeOp
      BY <1>0 DEF Connections, Operation
    <2>2. Become(r)
      BY <1>3
    <2>3. /\ \A i \in 1..Len(posted) : posted[i] # "run"
          /\ ~conn.isOpen
          /\ conn.isClosing /\ conn.listener => conn.closeOp
      BY <1>1, Completes
    <2> HIDE DEF r
    <2> QED
      BY <1>1, <2>1, <2>2, <2>3, QuietStep DEF OnTlsHandshake, Unrelated
  <1> QED
    BY <1>2, <1>3 DEF OnTlsHandshake

\* A completion after which the connection does nothing more.
LEMMA StopKeeps ==
    ASSUME IInv, NEW ok \in BOOLEAN, conn.op # "none",
           ~conn.listener \/ conn.isClosing,
           ok => conn.isOpen \/ conn.op \in Chain,
           Become([conn EXCEPT !.op = "none", !.isOpen = ok]),
           Unrelated, UNCHANGED written
    PROVE  IInv'
  <1>0. conn \in Connections
    BY Completes
  <1> DEFINE r == [conn EXCEPT !.op = "none", !.isOpen = ok]
  <1>1. /\ r \in Connections /\ r.op = "none" /\ r.isOpen = ok
        /\ r.queuedMessages = conn.queuedMessages /\ r.isSending = conn.isSending
        /\ r.listener = conn.listener
        /\ r.isClosing = conn.isClosing /\ r.closeOp = conn.closeOp
    BY <1>0 DEF Connections, Operation
  <1>2. Become(r) /\ "none" \notin Chain
    BY DEF Chain
  <1>3. /\ \A i \in 1..Len(posted) : posted[i] # "run"
        /\ conn.listener => conn.closeOp
    BY Completes
  <1> HIDE DEF r
  <1> QED
    BY <1>1, <1>2, <1>3, Completes, QuietStep DEF Unrelated

\* The handshake is done and somebody listens: the queue is sent.
LEMMA OpenKeeps ==
    ASSUME IInv, conn.op = "handshake", conn.listener, ~conn.isClosing,
           conn' = TrySend([conn EXCEPT !.op = "read", !.isOpen = TRUE]),
           calls' = Append(calls, "onOpen"), Unrelated, UNCHANGED written
    PROVE  IInv'
  <1>0. conn \in Connections
    BY Completes
  <1> DEFINE r == [conn EXCEPT !.op = "read", !.isOpen = TRUE]
  <1>1. /\ r \in Connections /\ r.op = "read" /\ r.isOpen
        /\ r.queuedMessages = conn.queuedMessages /\ r.isSending = conn.isSending
        /\ r.listener /\ ~r.isClosing /\ r.closeOp = conn.closeOp
    BY <1>0 DEF Connections, Operation
  <1>2. conn' = TrySend(r)
    OBVIOUS
  <1> HIDE DEF r
  <1>3. /\ conn' \in Connections /\ conn'.op = "read" /\ conn'.isOpen
        /\ conn'.queuedMessages = conn.queuedMessages
        /\ conn'.listener /\ ~conn'.isClosing
        /\ conn'.isSending => conn'.queuedMessages # << >>
    <2> DEFINE t == TrySend(r)
    <2>1. ~conn.isSending
      BY Completes DEF Chain
    <2>2. /\ t \in Connections /\ t.op = r.op /\ t.isOpen = r.isOpen
          /\ t.queuedMessages = r.queuedMessages /\ t.listener = r.listener
          /\ t.isClosing = r.isClosing
          /\ t.isSending => r.isSending \/ r.queuedMessages # << >>
      BY <1>1, TrySendFields
    <2> HIDE DEF t
    <2>3. conn' = t
      BY <1>2 DEF t
    <2> QED
      BY <1>1, <2>1, <2>2, <2>3
  <1>4. /\ calls' \in Seq({"onOpen", "onMessage", "onClose"})
        /\ calls' # << >> /\ calls'[Len(calls')] = "onOpen"
    BY CallsAppend, Completes
  <1>5. TypeOK'
    BY <1>3, <1>4, Completes DEF TypeOK, Connections, Unrelated
  <1>6. "read" \notin Chain /\ "read" # "connect" /\ "handshake" \in Chain
    BY DEF Chain
  <1>7. SendingFront' /\ HasCause' /\ ClosingEnds' /\ ChainIsClosed' /\ HasEndpoint'
    BY <1>3, <1>6 DEF SendingFront, HasCause, ClosingEnds, ChainIsClosed, HasEndpoint
  <1>8. RunIsFirst'
    BY Completes DEF RunIsFirst, Unrelated
  <1>9. CallsFit'
    BY <1>3, <1>4, <1>6 DEF CallsFit, Promise!Ended
  <1>10. QueueContinues' /\ CountsFit' /\ CountsExact'
    BY <1>3, <1>6 DEF IInv, QueueContinues, CountsFit, CountsExact, Spent, Unrelated
  <1> QED
    BY <1>5, <1>7, <1>8, <1>9, <1>10 DEF IInv

LEMMA OnWsHandshakeKeeps == IInv /\ OnWsHandshake => IInv'
  <1> SUFFICES ASSUME IInv, OnWsHandshake PROVE IInv'
    OBVIOUS
  <1>0. conn \in Connections
    BY Completes
  <1>1. /\ conn.op = "handshake" /\ conn.op \in Chain /\ Unrelated
        /\ UNCHANGED written
    BY DEF OnWsHandshake, Chain
  <1>2. ASSUME NEW ok \in BOOLEAN, ~(conn.listener /\ ~conn.isClosing),
               Become([conn EXCEPT !.op = "none", !.isOpen = ok])
        PROVE  IInv'
    BY <1>1, <1>2, StopKeeps
  <1>3. CASE Become(Fail([conn EXCEPT !.op = "none"]))
    <2> DEFINE r == [conn EXCEPT !.op = "none"]
    <2>1. /\ r \in Connections /\ r.op = "none" /\ r.isOpen = conn.isOpen
          /\ r.isSending = conn.isSending /\ r.queuedMessages = conn.queuedMessages
      BY <1>0 DEF Connections, Operation
    <2>2. Become(Fail(r))
      BY <1>3
    <2> HIDE DEF r
    <2> QED
      BY <1>1, <2>1, <2>2, FailKeeps, Completes DEF Unrelated
  <1>4. CASE /\ conn.listener /\ ~conn.isClosing
             /\ conn' = TrySend([conn EXCEPT !.op = "read", !.isOpen = TRUE])
             /\ calls' = Append(calls, "onOpen")
    BY <1>1, <1>4, OpenKeeps
  <1> QED
    BY <1>2, <1>3, <1>4 DEF OnWsHandshake

LEMMA ReadFailsKeeps == IInv /\ ReadFails => IInv'
  <1> SUFFICES ASSUME IInv, ReadFails PROVE IInv'
    OBVIOUS
  <1> DEFINE r == [conn EXCEPT !.op = "none", !.isOpen = FALSE]
  <1>0. conn \in Connections
    BY Completes
  <1>1. conn.op = "read" /\ Unrelated /\ UNCHANGED written
    BY DEF ReadFails
  <1>2. CASE conn.listener /\ ~conn.isClosing
    <2>1. /\ r \in Connections /\ r.op = "none" /\ ~r.isOpen
          /\ r.isSending = conn.isSending /\ r.queuedMessages = conn.queuedMessages
      BY <1>0 DEF Connections, Operation
    <2>2. Become(Fail(r))
      BY <1>2 DEF ReadFails
    <2>3. \A i \in 1..Len(posted) : posted[i] # "run"
      BY <1>1, Completes
    <2> HIDE DEF r
    <2> QED
      BY <1>1, <2>1, <2>2, <2>3, FailKeeps DEF Unrelated
  <1>3. CASE ~(conn.listener /\ ~conn.isClosing)
    <2>1. Become(r)
      BY <1>3 DEF ReadFails
    <2> QED
      BY <1>1, <1>3, <2>1, StopKeeps
  <1> QED
    BY <1>2, <1>3

LEMMA ReadSucceedsKeeps == IInv /\ ReadSucceeds => IInv'
  <1> SUFFICES ASSUME IInv, ReadSucceeds PROVE IInv'
    OBVIOUS
  <1>0. conn \in Connections
    BY Completes
  <1>1. conn.op = "read" /\ conn.isOpen /\ Unrelated /\ UNCHANGED written
    BY DEF ReadSucceeds
  <1>2. CASE conn.listener /\ calls' = Append(calls, "onMessage") /\ UNCHANGED conn
    <2>1. /\ calls' \in Seq({"onOpen", "onMessage", "onClose"})
          /\ calls' # << >> /\ calls'[Len(calls')] = "onMessage"
      BY <1>2, CallsAppend, Completes
    <2>2. TypeOK'
      BY <1>1, <1>2, <2>1, Completes DEF TypeOK, Unrelated
    <2>3. CallsFit'
      BY <1>1, <1>2, <2>1 DEF CallsFit, Promise!Ended, Chain
    <2>4. RunIsFirst'
      BY <1>1, Completes DEF RunIsFirst, Unrelated
    <2>5. /\ SendingFront' /\ HasCause' /\ ClosingEnds' /\ ChainIsClosed'
          /\ HasEndpoint' /\ QueueContinues' /\ CountsFit' /\ CountsExact'
      BY <1>1, <1>2 DEF IInv, SendingFront, HasCause, ClosingEnds, ChainIsClosed,
         HasEndpoint, QueueContinues, Spent, CountsFit, CountsExact, Unrelated
    <2> QED
      BY <2>2, <2>3, <2>4, <2>5 DEF IInv
  <1>3. CASE (~conn.listener \/ conn.isClosing) /\ Become([conn EXCEPT !.op = "none"])
    <2>1. [conn EXCEPT !.op = "none"] = [conn EXCEPT !.op = "none", !.isOpen = TRUE]
      BY <1>0, <1>1 DEF Connections
    <2>2. Become([conn EXCEPT !.op = "none", !.isOpen = TRUE])
      BY <1>3, <2>1
    <2> QED
      BY <1>1, <1>3, <2>2, StopKeeps
  <1> QED
    BY <1>2, <1>3 DEF ReadSucceeds

LEMMA CloseDoneKeeps == IInv /\ CloseDone => IInv'
  <1> SUFFICES ASSUME IInv, CloseDone PROVE IInv'
    OBVIOUS
  <1> DEFINE r == Detach([conn EXCEPT !.closeOp = FALSE, !.isOpen = FALSE])
  <1>0. conn \in Connections
    BY Completes
  <1>1. conn.closeOp /\ Become(r) /\ Unrelated /\ UNCHANGED written
    BY DEF CloseDone
  <1>2. /\ r \in Connections /\ r.op = conn.op /\ ~r.isOpen /\ ~r.listener
        /\ r.isSending = conn.isSending /\ r.queuedMessages = conn.queuedMessages
        /\ r.endpoints = conn.endpoints
    BY <1>0 DEF Detach, Connections
  <1>3. /\ \A i \in 1..Len(posted) : posted[i] # "run"
        /\ conn.op = "connect" => conn.endpoints > 0
    BY <1>1, Completes DEF IInv, HasEndpoint
  <1> HIDE DEF r
  <1> QED
    BY <1>1, <1>2, <1>3, QuietStep DEF Unrelated

LEMMA StreamEndsKeeps == IInv /\ StreamEnds => IInv'
  <1> SUFFICES ASSUME IInv, StreamEnds PROVE IInv'
    OBVIOUS
  <1> DEFINE r == [conn EXCEPT !.isOpen = FALSE]
  <1>0. conn \in Connections
    BY Completes
  <1>1. conn.isOpen /\ Become(r) /\ Unrelated /\ UNCHANGED written
    BY DEF StreamEnds
  <1>2. /\ r \in Connections /\ r.op = conn.op /\ ~r.isOpen
        /\ r.isSending = conn.isSending /\ r.queuedMessages = conn.queuedMessages
        /\ r.endpoints = conn.endpoints /\ r.listener = conn.listener
        /\ r.isClosing = conn.isClosing /\ r.closeOp = conn.closeOp
    BY <1>0 DEF Connections
  <1>3. /\ \A i \in 1..Len(posted) : posted[i] # "run"
        /\ conn.op = "connect" => conn.endpoints > 0
        /\ conn.isClosing /\ conn.listener => conn.closeOp
    BY <1>1, Completes DEF IInv, HasEndpoint
  <1>4. conn.listener => conn.op # "none" \/ conn.closeOp
    BY <1>1 DEF IInv, HasCause, RunIsFirst
  <1> HIDE DEF r
  <1> QED
    BY <1>1, <1>2, <1>3, <1>4, QuietStep DEF Unrelated

\* The front of a queue and what is behind it
LEMMA TailFields ==
    ASSUME NEW S, NEW q \in Seq(S), q # << >>
    PROVE  /\ Tail(q) \in Seq(S) /\ Len(Tail(q)) = Len(q) - 1
           /\ Len(q) \in Nat /\ 1 \in 1..Len(q) /\ Head(q) = q[1] /\ Head(q) \in S
           /\ \A i \in 1..Len(Tail(q)) : i + 1 \in 1..Len(q) /\ Tail(q)[i] = q[i + 1]
  OBVIOUS

LEMMA OnWriteDoneKeeps == IInv /\ OnWriteDone => IInv'
  <1> SUFFICES ASSUME IInv, OnWriteDone PROVE IInv'
    OBVIOUS
  <1> DEFINE q == conn.queuedMessages
             done == [conn EXCEPT !.queuedMessages = Tail(q), !.isSending = FALSE]
  <1>0. /\ conn \in Connections /\ conn.isSending /\ Unrelated
        /\ q \in Seq(1..MaxSends) /\ q # << >> /\ conn.op \notin Chain
        /\ \A i \in 1..Len(posted) : posted[i] # "run"
        /\ conn.isClosing /\ conn.listener => conn.closeOp
        /\ conn.listener => conn.op # "none" \/ conn.closeOp
        /\ conn.listener /\ conn.op = "read" => calls # << >>
        /\ written \in Seq(1..MaxSends) /\ posted \in Seq(Tasks)
    <2>1. /\ conn.isSending /\ Unrelated /\ q # << >>
          /\ \A i \in 1..Len(posted) : posted[i] # "run"
      BY Completes DEF OnWriteDone, IInv, SendingFront
    <2>2. conn.op \notin Chain /\ (conn.isClosing /\ conn.listener => conn.closeOp)
      BY <2>1, Completes
    <2>3. /\ conn.listener => conn.op # "none" \/ conn.closeOp
          /\ conn.listener /\ conn.op = "read" => calls # << >>
      BY <2>1 DEF IInv, HasCause, RunIsFirst, CallsFit
    <2> QED
      BY <2>1, <2>2, <2>3, Completes, Types
  <1>1. /\ done \in Connections /\ done.op = conn.op /\ done.isOpen = conn.isOpen
        /\ ~done.isSending /\ done.queuedMessages = Tail(q)
        /\ done.listener = conn.listener
        /\ done.isClosing = conn.isClosing /\ done.closeOp = conn.closeOp
    <2>1. Tail(q) \in Seq(1..MaxSends)
      BY <1>0, TailFields
    <2> HIDE DEF q
    <2> QED
      BY <1>0, <2>1 DEF Connections
  <1>2. /\ Tail(q) \in Seq(1..MaxSends) /\ Len(Tail(q)) = Len(q) - 1
        /\ Len(q) \in Nat /\ 1 \in 1..Len(q) /\ Head(q) = q[1]
        /\ \A i \in 1..Len(Tail(q)) : i + 1 \in 1..Len(q) /\ Tail(q)[i] = q[i + 1]
        /\ Head(q) \in 1..MaxSends
    <2> HIDE DEF q
    <2> QED
      BY <1>0, TailFields
  <1>3. \A i \in 1..Len(q) : q[i] = Len(written) + i
    BY <1>0 DEF IInv, QueueContinues, Spent
  <1>4. /\ Len(written) + Len(q) + Cardinality(SendTasks(posted)) <= sent
        /\ Len(written) \in Nat /\ Cardinality(SendTasks(posted)) \in Nat
        /\ sent \in 0..MaxSends /\ MaxSends \in Nat
        /\ Len(written) + Len(q) + Cardinality(SendTasks(posted)) = sent
    BY <1>0, Types, SendTasksFinite DEF IInv, CountsFit, CountsExact, Spent
  <1>5. "connect" \in Chain /\ posted' = posted /\ sent' = sent /\ posted' \in Seq(Tasks)
        /\ \A i \in 1..Len(posted') : posted'[i] # "run"
    BY <1>0 DEF Chain, Unrelated
  <1>6. CASE Become(Fail([done EXCEPT !.isOpen = FALSE])) /\ UNCHANGED written
    <2> DEFINE closed == [done EXCEPT !.isOpen = FALSE]
               r == Fail(closed)
    <2> HIDE DEF q, done
    <2>1. /\ closed \in Connections /\ closed.op = conn.op /\ ~closed.isOpen
          /\ ~closed.isSending /\ closed.queuedMessages = Tail(q)
      BY <1>1 DEF Connections
    <2> HIDE DEF closed
    <2>2. /\ r \in Connections /\ r.op = conn.op /\ ~r.isOpen /\ ~r.isSending
          /\ r.queuedMessages = Tail(q) /\ ~r.listener
      BY <2>1, FailFields
    <2>3. Become(r)
      BY <1>6 DEF closed
    <2> HIDE DEF r
    <2>4. conn' = r
      BY <2>3 DEF Become
    <2>5. QueueContinues'
      BY <1>0, <2>2, <2>4 DEF QueueContinues, Spent
    <2>6. CountsFit' /\ CountsExact'
      BY <1>0, <1>2, <1>4, <1>6, <2>2, <2>4 DEF CountsFit, CountsExact, Spent, Unrelated
    <2> QED
      BY <1>0, <1>5, <1>6, <2>2, <2>3, <2>5, <2>6, BecomeStep DEF Unrelated
  <1>7. CASE Become(TrySend(done)) /\ written' = Append(written, Head(q))
    <2> DEFINE r == TrySend(done)
    <2>1. Head(q) \in 1..MaxSends
      BY <1>2
    <2> HIDE DEF q, done
    <2>2. /\ r \in Connections /\ r.op = conn.op /\ r.queuedMessages = Tail(q)
          /\ r.listener = conn.listener
          /\ r.isClosing = conn.isClosing /\ r.closeOp = conn.closeOp
          /\ r.isSending => r.queuedMessages # << >>
      BY <1>1, TrySendFields
    <2>3. Become(r)
      BY <1>7
    <2> HIDE DEF r
    <2>4. conn' = r
      BY <2>3 DEF Become
    <2>5. written' \in Seq(1..MaxSends) /\ Len(written') = Len(written) + 1
      BY <1>0, <1>7, <2>1, AppendProperties
    <2>6. \A i \in 1..Len(Tail(q)) : Tail(q)[i] = Len(written') + i
      BY <1>2, <1>3, <1>4, <2>5
    <2>7. QueueContinues'
      BY <2>2, <2>4, <2>6 DEF QueueContinues
    <2>8. CountsFit' /\ CountsExact'
      <3>1. Len(written') + Len(Tail(q)) = Len(written) + Len(q)
        BY <1>2, <1>4, <2>5
      <3>2. conn'.queuedMessages = Tail(q)
        BY <2>2, <2>4
      <3> QED
        BY <1>4, <1>5, <3>1, <3>2 DEF CountsFit, CountsExact
    <2> QED
      BY <1>0, <1>5, <2>2, <2>3, <2>5, <2>7, <2>8, BecomeStep DEF Unrelated
  <1> QED
    BY <1>0, <1>6, <1>7 DEF OnWriteDone

\* What the posted tasks share: the task is taken, and no run() is left.
LEMMA Takes ==
    ASSUME IInv, posted # << >>, Unposted
    PROVE  /\ conn \in Connections /\ TypeOK
           /\ posted' \in Seq(Tasks) /\ \A i \in 1..Len(posted') : posted'[i] # "run"
           /\ sent' = sent /\ UNCHANGED <<handle, closing, closes, written>>
           /\ written' \in Seq(1..MaxSends) /\ conn.queuedMessages \in Seq(1..MaxSends)
           /\ Len(written) \in Nat /\ Len(conn.queuedMessages) \in Nat
           /\ Cardinality(SendTasks(posted')) \in Nat
           /\ sent \in 0..MaxSends /\ MaxSends \in Nat
           /\ Head(posted) = posted[1] /\ 1 \in 1..Len(posted)
           /\ Len(written) + Len(conn.queuedMessages) + Cardinality(SendTasks(posted'))
                + (IF Head(posted) = "send" THEN 1 ELSE 0) <= sent
           /\ conn.listener \/ ~Spent =>
                  Len(written) + Len(conn.queuedMessages) + Cardinality(SendTasks(posted'))
                      + (IF Head(posted) = "send" THEN 1 ELSE 0) = sent
           /\ Cardinality(SendTasks(posted))
                = Cardinality(SendTasks(posted')) + (IF Head(posted) = "send" THEN 1 ELSE 0)
  <1>1. /\ TypeOK /\ RunIsFirst /\ conn \in Connections /\ posted \in Seq(Tasks)
        /\ written \in Seq(1..MaxSends) /\ conn.queuedMessages \in Seq(1..MaxSends)
        /\ sent \in 0..MaxSends /\ MaxSends \in Nat
    BY Types DEF IInv
  <1>2. /\ posted' = Tail(posted) /\ sent' = sent
        /\ UNCHANGED <<handle, closing, closes, written>>
    BY DEF Unposted
  <1>3. posted' \in Seq(Tasks) /\ \A i \in 1..Len(posted') : posted'[i] # "run"
    BY <1>1, <1>2, NoRun
  <1>4. Head(posted) = posted[1] /\ 1 \in 1..Len(posted)
    BY <1>1, TailFields
  <1>5. /\ Len(written) \in Nat /\ Len(conn.queuedMessages) \in Nat
        /\ Cardinality(SendTasks(posted')) \in Nat
    BY <1>1, <1>3, SendTasksFinite, LenProperties
  <1>6. Cardinality(SendTasks(posted))
            = Cardinality(SendTasks(posted')) + (IF Head(posted) = "send" THEN 1 ELSE 0)
    BY <1>1, <1>2, <1>4, SendTasksTail
  <1>7. /\ Len(written) + Len(conn.queuedMessages) + Cardinality(SendTasks(posted)) <= sent
        /\ conn.listener \/ ~Spent =>
               Len(written) + Len(conn.queuedMessages) + Cardinality(SendTasks(posted)) = sent
    BY DEF IInv, CountsFit, CountsExact
  <1>8. /\ Len(written) + Len(conn.queuedMessages) + Cardinality(SendTasks(posted'))
              + (IF Head(posted) = "send" THEN 1 ELSE 0) <= sent
        /\ conn.listener \/ ~Spent =>
               Len(written) + Len(conn.queuedMessages) + Cardinality(SendTasks(posted'))
                   + (IF Head(posted) = "send" THEN 1 ELSE 0) = sent
    BY <1>1, <1>5, <1>6, <1>7
  <1> QED
    BY <1>1, <1>2, <1>3, <1>4, <1>5, <1>6, <1>8

LEMMA RunKeeps == IInv /\ Run => IInv'
  <1> SUFFICES ASSUME IInv, Run PROVE IInv'
    OBVIOUS
  <1>1. posted # << >> /\ Head(posted) = "run" /\ Unposted
    BY DEF Run
  <1>2. /\ conn.op = "none" /\ conn.listener /\ ~conn.isOpen /\ ~conn.isSending
        /\ ~conn.isClosing /\ ~conn.closeOp
        /\ conn.queuedMessages = << >> /\ written = << >> /\ calls = << >>
    BY <1>1, Takes DEF IInv, RunIsFirst
  <1>3. CASE Become([conn EXCEPT !.op = "resolve"])
    <2> DEFINE r == [conn EXCEPT !.op = "resolve"]
    <2>1. conn \in Connections
      BY Completes
    <2>2. /\ r \in Connections /\ r.op = "resolve" /\ ~r.isOpen /\ ~r.isSending
          /\ ~r.isClosing /\ r.queuedMessages = conn.queuedMessages
      BY <1>2, <2>1 DEF Connections, Operation
    <2>3. Become(r)
      BY <1>3
    <2> HIDE DEF r
    <2>4. conn' = r
      BY <2>3 DEF Become
    <2>5. QueueContinues'
      BY <1>2, <2>2, <2>4 DEF QueueContinues
    <2>6. CountsFit' /\ CountsExact'
      BY <1>1, <1>2, <2>2, <2>4, Takes DEF CountsFit, CountsExact
    <2> QED
      BY <1>1, <1>2, <2>2, <2>3, <2>5, <2>6, Takes, BecomeStep
  <1>4. CASE Become(Fail(conn))
    <2> DEFINE r == Fail(conn)
    <2>1. /\ r \in Connections /\ r.op = "none" /\ ~r.isOpen /\ ~r.isSending
          /\ ~r.listener /\ r.queuedMessages = conn.queuedMessages
      BY <1>2, Completes, FailFields
    <2>2. Become(r) /\ "none" \notin Chain
      BY <1>4 DEF Chain
    <2> HIDE DEF r
    <2>3. conn' = r
      BY <2>2 DEF Become
    <2>4. QueueContinues'
      BY <1>2, <2>1, <2>3 DEF QueueContinues
    <2>5. CountsFit' /\ CountsExact'
      BY <1>1, <1>2, <2>1, <2>3, Takes DEF CountsFit, CountsExact
    <2> QED
      BY <1>1, <1>2, <2>1, <2>2, <2>4, <2>5, Takes, BecomeStep
  <1> QED
    BY <1>3, <1>4 DEF Run

\* What holds of the connection while a task other than run() is taken
LEMMA Underway ==
    ASSUME IInv, posted # << >>, Unposted, Head(posted) # "run"
    PROVE  /\ conn.listener => conn.op # "none" \/ conn.closeOp
           /\ conn.isClosing /\ conn.listener => conn.closeOp
           /\ conn.listener /\ conn.op \in Chain => calls = << >>
           /\ conn.listener /\ conn.op = "read" => calls # << >>
           /\ conn.op \in Chain => ~conn.isOpen /\ ~conn.isSending
           /\ conn.isSending => conn.queuedMessages # << >>
           /\ conn.op = "connect" => conn.endpoints > 0
  BY Takes DEF IInv, HasCause, ClosingEnds, CallsFit, ChainIsClosed, SendingFront,
     HasEndpoint

LEMMA RunCloseKeeps == IInv /\ RunClose => IInv'
  <1> SUFFICES ASSUME IInv, RunClose PROVE IInv'
    OBVIOUS
  <1> DEFINE r == CloseImpl(conn)
  <1>1. posted # << >> /\ Head(posted) = "close" /\ Unposted /\ Become(r)
    BY DEF RunClose
  <1>2. /\ r \in Connections /\ r.op = conn.op /\ r.isOpen = conn.isOpen
        /\ r.isSending = conn.isSending /\ r.queuedMessages = conn.queuedMessages
        /\ r.listener = conn.listener /\ r.isClosing /\ r.endpoints = conn.endpoints
    BY Completes, CloseImplFields DEF CloseImpl, Connections
  <1>3. r.listener => r.closeOp
    BY <1>1, Underway, Completes DEF CloseImpl, Connections
  <1> HIDE DEF r
  <1>4. conn' = r
    BY <1>1 DEF Become
  <1>5. QueueContinues'
    BY <1>1, <1>2, <1>4, Takes DEF IInv, QueueContinues, Spent
  <1>6. CountsFit' /\ CountsExact'
    <2>1. /\ Len(written) + Len(conn.queuedMessages) + Cardinality(SendTasks(posted')) <= sent
          /\ conn.listener \/ ~Spent =>
               Len(written) + Len(conn.queuedMessages) + Cardinality(SendTasks(posted')) = sent
          /\ sent' = sent /\ written' = written
      BY <1>1, Takes
    <2>2. /\ r.listener \/ ~Spent' => conn.listener \/ ~Spent
          /\ conn'.queuedMessages = conn.queuedMessages /\ conn'.listener = r.listener
      BY <1>2, <1>4 DEF Spent
    <2> QED
      BY <2>1, <2>2 DEF CountsFit, CountsExact
  <1> QED
    BY <1>1, <1>2, <1>3, <1>5, <1>6, Takes, Underway, BecomeStep

LEMMA EnqueueKeeps == IInv /\ Enqueue => IInv'
  <1> SUFFICES ASSUME IInv, Enqueue PROVE IInv'
    OBVIOUS
  <1> DEFINE q == conn.queuedMessages
             number == sent - Cardinality(SendTasks(posted)) + 1
             queued == [conn EXCEPT !.queuedMessages = Append(q, number)]
             r == TrySend(queued)
  <1>1. /\ posted # << >> /\ Head(posted) = "send" /\ Head(posted) # "run" /\ Unposted
        /\ Become(r)
    BY DEF Enqueue
  <1>2. /\ Len(written) \in Nat /\ q \in Seq(1..MaxSends) /\ Len(q) \in Nat
        /\ written' = written
        /\ Cardinality(SendTasks(posted')) \in Nat
        /\ Cardinality(SendTasks(posted)) = Cardinality(SendTasks(posted')) + 1
        /\ sent \in 0..MaxSends /\ MaxSends \in Nat /\ sent' = sent
        /\ Len(written) + Len(q) + Cardinality(SendTasks(posted')) + 1 <= sent
        /\ conn.listener \/ ~Spent =>
               Len(written) + Len(q) + Cardinality(SendTasks(posted')) + 1 = sent
    BY <1>1, Takes
  <1>3. number \in 1..MaxSends /\ (~Spent => number = Len(written) + Len(q) + 1)
    <2>1. number \in 1..MaxSends
      BY <1>2
    <2>2. ASSUME ~Spent PROVE number = Len(written) + Len(q) + 1
      <3>1. Len(written) + Len(q) + Cardinality(SendTasks(posted')) + 1 = sent
        BY <1>2, <2>2
      <3> QED
        BY <1>2, <3>1
    <2> QED
      BY <2>1, <2>2
  <1> HIDE DEF number, q
  <1>4. /\ Append(q, number) \in Seq(1..MaxSends)
        /\ Len(Append(q, number)) = Len(q) + 1 /\ Append(q, number) # << >>
        /\ \A i \in 1..Len(q) : Append(q, number)[i] = q[i]
        /\ Append(q, number)[Len(q) + 1] = number
    BY <1>2, <1>3, AppendProperties
  <1>5. /\ queued \in Connections /\ queued.op = conn.op
        /\ queued.isOpen = conn.isOpen /\ queued.isSending = conn.isSending
        /\ queued.queuedMessages = Append(q, number)
        /\ queued.listener = conn.listener /\ queued.endpoints = conn.endpoints
        /\ queued.isClosing = conn.isClosing /\ queued.closeOp = conn.closeOp
    BY <1>4, Completes DEF Connections
  <1> HIDE DEF queued
  <1>6. /\ r \in Connections /\ r.op = conn.op
        /\ r.isOpen = conn.isOpen /\ r.queuedMessages = Append(q, number)
        /\ r.listener = conn.listener /\ r.endpoints = conn.endpoints
        /\ r.isClosing = conn.isClosing /\ r.closeOp = conn.closeOp
        /\ r.isSending => conn.isSending \/ conn.isOpen
        /\ conn.isSending => r.isSending
    BY <1>5, TrySendFields DEF TrySend, Connections
  <1> HIDE DEF r
  <1>7. conn' = r
    BY <1>1 DEF Become
  <1>8. QueueContinues'
    <2>1. CASE Spent
      BY <1>6, <1>7, <2>1 DEF QueueContinues, Spent
    <2>2. CASE ~Spent /\ \A i \in 1..Len(q) : q[i] = Len(written) + i
      <3>1. \A i \in 1..Len(Append(q, number)) :
               Append(q, number)[i] = Len(written) + i
        <4> SUFFICES ASSUME NEW i \in 1..(Len(q) + 1)
                     PROVE  Append(q, number)[i] = Len(written) + i
          BY <1>4
        <4>1. i \in 1..Len(q) \/ i = Len(q) + 1
          BY <1>2
        <4>2. CASE i \in 1..Len(q)
          BY <1>4, <2>2, <4>2
        <4>3. CASE i = Len(q) + 1
          BY <1>2, <1>3, <1>4, <2>2, <4>3
        <4> QED
          BY <4>1, <4>2, <4>3
      <3> QED
        BY <1>2, <1>6, <1>7, <3>1 DEF QueueContinues
    <2> QED
      BY <2>1, <2>2 DEF IInv, QueueContinues, q
  <1>9. CountsFit' /\ CountsExact'
    <2>1. /\ Len(written) + Len(Append(q, number)) + Cardinality(SendTasks(posted')) <= sent
          /\ conn.listener \/ ~Spent =>
               Len(written) + Len(Append(q, number)) + Cardinality(SendTasks(posted')) = sent
      BY <1>2, <1>4
    <2>2. r.listener \/ ~Spent' => conn.listener \/ ~Spent
      BY <1>6, <1>7 DEF Spent
    <2> QED
      BY <1>2, <1>6, <1>7, <2>1, <2>2 DEF CountsFit, CountsExact
  <1>10. r.isSending => r.queuedMessages # << >>
    BY <1>4, <1>6
  <1>11. r.op \in Chain => ~r.isOpen /\ ~r.isSending
    BY <1>1, <1>6, Underway
  <1> QED
    BY <1>1, <1>6, <1>8, <1>9, <1>10, <1>11, Takes, Underway, BecomeStep

\* The owner and the pool change no member of the connection; they post a task
\* other than run(), or none.
LEMMA PostKeeps ==
    ASSUME IInv, UNCHANGED <<conn, calls, written>>,
           NEW task \in {"send", "close"},
           (posted' = posted /\ task = "close") \/ posted' = Append(posted, task),
           sent' = sent + (IF task = "send" THEN 1 ELSE 0),
           sent' \in 0..MaxSends,
           handle' \in BOOLEAN, closing' \in BOOLEAN, closes' \in 0..MaxCloses
    PROVE  IInv'
  <1>1. /\ TypeOK /\ posted \in Seq(Tasks) /\ written \in Seq(1..MaxSends)
        /\ conn.queuedMessages \in Seq(1..MaxSends) /\ sent \in Nat
        /\ task \in Tasks /\ task # "run" /\ conn \in Connections
    BY Types DEF IInv, Tasks
  <1>2. posted' \in Seq(Tasks)
    <2>1. Append(posted, task) \in Seq(Tasks)
      BY <1>1, AppendProperties
    <2> QED
      BY <1>1, <2>1
  <1>3. TypeOK'
    BY <1>1, <1>2 DEF TypeOK, Tasks
  <1>4. \A i \in 1..Len(posted') : posted'[i] = "run" =>
           i \in 1..Len(posted) /\ posted[i] = "run"
    <2>1. CASE posted' = posted
      BY <2>1
    <2>2. CASE posted' = Append(posted, task)
      BY <1>1, <2>2, AppendProperties
    <2> QED
      BY <2>1, <2>2
  <1>5. RunIsFirst'
    BY <1>4 DEF IInv, RunIsFirst
  <1>6. HasCause'
    <2>1. posted # << >> => posted' # << >> /\ posted'[1] = posted[1]
      BY <1>1, AppendProperties
    <2> QED
      BY <2>1 DEF IInv, HasCause
  <1>7. /\ SendingFront' /\ ClosingEnds' /\ CallsFit' /\ ChainIsClosed'
        /\ HasEndpoint' /\ QueueContinues'
    BY DEF IInv, SendingFront, ClosingEnds, CallsFit, ChainIsClosed, HasEndpoint,
       QueueContinues, Spent, Promise!Ended
  <1>8. CountsFit' /\ CountsExact'
    <2>1. Cardinality(SendTasks(posted'))
             = Cardinality(SendTasks(posted)) + (IF task = "send" THEN 1 ELSE 0)
      <3>1. CASE posted' = posted
        <4>1. Cardinality(SendTasks(posted)) \in Nat
          BY <1>1, SendTasksFinite
        <4> QED
          BY <3>1, <4>1
      <3>2. CASE posted' = Append(posted, task)
        <4>1. Cardinality(SendTasks(Append(posted, task)))
                 = Cardinality(SendTasks(posted)) + (IF task = "send" THEN 1 ELSE 0)
          BY <1>1, SendTasksAppend
        <4>2. Cardinality(SendTasks(posted)) \in Nat
          BY <1>1, SendTasksFinite
        <4> QED
          BY <3>2, <4>1, <4>2
      <3> QED
        BY <3>1, <3>2
    <2>2. /\ Cardinality(SendTasks(posted)) \in Nat
          /\ Cardinality(SendTasks(posted')) \in Nat
          /\ Len(written) \in Nat /\ Len(conn.queuedMessages) \in Nat
      BY <1>1, <1>2, SendTasksFinite, LenProperties
    <2> DEFINE more == IF task = "send" THEN 1 ELSE 0
               n == Cardinality(SendTasks(posted))
               later == Cardinality(SendTasks(posted'))
    <2> HIDE DEF n, later, more
    <2>0. more \in Nat /\ later = n + more /\ sent' = sent + more /\ n \in Nat
      BY <2>1, <2>2 DEF n, later, more
    <2>3. /\ Len(written) + Len(conn.queuedMessages) + Cardinality(SendTasks(posted)) <= sent
          /\ conn.listener \/ ~Spent =>
                 Len(written) + Len(conn.queuedMessages) + Cardinality(SendTasks(posted)) = sent
      BY DEF IInv, CountsFit, CountsExact
    <2>4. Len(written) + Len(conn.queuedMessages) + Cardinality(SendTasks(posted')) <= sent'
      BY <1>1, <2>1, <2>2, <2>3
    <2> DEFINE before == Len(written) + Len(conn.queuedMessages)
    <2>5. before + n = sent => before + later = sent'
      <3>1. before \in Nat
        BY <2>2
      <3> HIDE DEF before
      <3> QED
        BY <1>1, <2>0, <3>1
    <2>6. ASSUME conn.listener \/ ~Spent
          PROVE  Len(written) + Len(conn.queuedMessages) + Cardinality(SendTasks(posted')) = sent'
      <3>1. Len(written) + Len(conn.queuedMessages) + Cardinality(SendTasks(posted)) = sent
        BY <2>3, <2>6
      <3> QED
        BY <2>5, <3>1 DEF n, later
    <2> QED
      BY <2>4, <2>6 DEF CountsFit, CountsExact, Spent
  <1> QED
    BY <1>3, <1>5, <1>6, <1>7, <1>8 DEF IInv

LEMMA OwnerKeeps == IInv /\ (Send \/ (\E d \in BOOLEAN : Close(d)) \/ Shutdown) => IInv'
  <1> SUFFICES ASSUME IInv, Send \/ (\E d \in BOOLEAN : Close(d)) \/ Shutdown
               PROVE  IInv'
    OBVIOUS
  <1>1. /\ handle \in BOOLEAN /\ closing \in BOOLEAN /\ closes \in 0..MaxCloses
        /\ sent \in 0..MaxSends /\ sent \in Nat /\ MaxSends \in Nat
        /\ MaxCloses \in Nat
    BY Types, SocketAssumption DEF IInv, TypeOK
  <1>2. CASE Send
    <2>1. /\ posted' = Append(posted, "send")
          /\ sent' = sent + 1 /\ sent < MaxSends
          /\ UNCHANGED <<conn, calls, written, handle, closing, closes>>
      BY <1>2 DEF Send, Post
    <2>2. sent' \in 0..MaxSends
      BY <1>1, <2>1
    <2> QED
      BY <1>1, <2>1, <2>2, PostKeeps
  <1>3. ASSUME NEW d \in BOOLEAN, Close(d)
        PROVE  IInv'
    <2>1. /\ posted' = posted \/ posted' = Append(posted, "close")
          /\ sent' = sent /\ UNCHANGED <<conn, calls, written>>
          /\ closing' \in BOOLEAN /\ handle' \in BOOLEAN
      BY <1>1, <1>3 DEF Close, Post
    <2>2. closes' \in 0..MaxCloses
      BY <1>1, <1>3 DEF Close
    <2>3. sent' = sent + 0
      BY <1>1, <2>1
    <2> QED
      BY <1>1, <2>1, <2>2, <2>3, PostKeeps
  <1>4. CASE Shutdown
    <2>1. /\ posted' = posted \/ posted' = Append(posted, "close")
          /\ sent' = sent /\ UNCHANGED <<conn, calls, written, handle, closes>>
          /\ closing' \in BOOLEAN
      BY <1>4 DEF Shutdown
    <2>2. sent' = sent + 0
      BY <1>1, <2>1
    <2> QED
      BY <1>1, <2>1, <2>2, PostKeeps
  <1> QED
    BY <1>2, <1>3, <1>4
-----------------------------------------------------------------------------
(* The invariant and what follows from it. *)

LEMMA InitKeeps == Init => IInv
  <1> SUFFICES ASSUME Init PROVE IInv
    OBVIOUS
  <1>1. /\ conn \in Connections /\ conn.op = "none" /\ conn.listener
        /\ ~conn.isOpen /\ ~conn.isSending /\ ~conn.isClosing /\ ~conn.closeOp
        /\ conn.queuedMessages = << >>
    BY SocketAssumption DEF Init, Connections, Operation
  <1>2. /\ posted = <<"run">> /\ handle = TRUE /\ closing = FALSE /\ calls = << >>
        /\ sent = 0 /\ written = << >> /\ closes = 0
    BY DEF Init
  <1>3. TypeOK
    <2>1. /\ <<"run">> \in Seq({"run", "send", "close"})
          /\ << >> \in Seq({"onOpen", "onMessage", "onClose"})
          /\ << >> \in Seq(1..MaxSends)
      OBVIOUS
    <2>2. 0 \in 0..MaxSends /\ 0 \in 0..MaxCloses
      BY SocketAssumption
    <2>3. conn \in [tls : BOOLEAN, op : Operation, endpoints : 0..MaxEndpoints,
                    isOpen : BOOLEAN, queuedMessages : Seq(1..MaxSends),
                    isSending : BOOLEAN, isClosing : BOOLEAN, closeOp : BOOLEAN,
                    listener : BOOLEAN]
      BY <1>1 DEF Connections
    <2> QED
      BY <1>2, <2>1, <2>2, <2>3 DEF TypeOK
  <1>4. /\ SendingFront /\ RunIsFirst /\ HasCause /\ ClosingEnds
        /\ CallsFit /\ ChainIsClosed /\ HasEndpoint /\ QueueContinues
    BY <1>1, <1>2 DEF SendingFront, RunIsFirst, HasCause, ClosingEnds, CallsFit,
       ChainIsClosed, HasEndpoint, QueueContinues, Spent, Chain, Promise!Ended
  <1>5. CountsFit /\ CountsExact
    <2>1. SendTasks(posted) = {}
      BY <1>2 DEF SendTasks
    <2>2. Cardinality(SendTasks(posted)) = 0
      BY <2>1, FS_EmptySet
    <2> QED
      BY <1>1, <1>2, <2>2 DEF CountsFit, CountsExact
  <1> QED
    BY <1>3, <1>4, <1>5 DEF IInv

LEMMA StepKeeps == IInv /\ [Next]_vars => IInv'
  <1> SUFFICES ASSUME IInv, [Next]_vars PROVE IInv'
    OBVIOUS
  <1>1. CASE UNCHANGED vars
    BY <1>1 DEF vars, IInv, TypeOK, SendingFront, RunIsFirst, HasCause, ClosingEnds,
       CallsFit, ChainIsClosed, HasEndpoint, QueueContinues, Spent, CountsFit,
       CountsExact, Promise!Ended
  <1> QED
    BY <1>1, OwnerKeeps, RunKeeps, EnqueueKeeps, RunCloseKeeps, OnResolveKeeps,
       OnTcpHandshakeKeeps, OnTlsHandshakeKeeps, OnWsHandshakeKeeps, ReadFailsKeeps,
       ReadSucceedsKeeps, OnWriteDoneKeeps, CloseDoneKeeps, StreamEndsKeeps
    DEF Next

\* The inductive invariant holds of every behaviour of a connection.
THEOREM Invariance == Spec => []IInv
  BY InitKeeps, StepKeeps, PTL DEF Spec

\* The members, the tasks and the histories of a connection keep their types.
THEOREM TypeCorrect == Spec => []TypeOK
  <1>1. IInv => TypeOK
    BY DEF IInv
  <1> QED
    BY <1>1, Invariance, PTL

\* The assertions of onWriteDone() and of the destructor hold: a write that
\* completes finds its message in the queue, and no connection is left without
\* anything under way before its listener was told.
THEOREM AssertionsHold == Spec => []NeverAsserts
  <1>1. IInv => NeverAsserts
    <2> SUFFICES ASSUME IInv PROVE NeverAsserts
      OBVIOUS
    <2>1. conn.isSending => conn.queuedMessages # << >>
      BY DEF IInv, SendingFront
    <2>2. ~Pending => ~conn.listener
      BY DEF IInv, HasCause, Pending
    <2> QED
      BY <2>1, <2>2 DEF NeverAsserts
  <1> QED
    BY <1>1, Invariance, PTL
-----------------------------------------------------------------------------
(* The connection implements SocketPromise. *)

\* A step that makes the connection r calls onClose(), once, or nothing.
LEMMA BecomePromises ==
    ASSUME CallsFit, NEW r, Become(r), sent' = sent, written' = written
    PROVE  Promise!OnClose \/ UNCHANGED <<calls, sent, written>>
  BY DEF Become, CallsFit, Promise!OnClose

LEMMA StepPromises == IInv /\ [Next]_vars => [Promise!Next]_(Promise!vars)
  <1> SUFFICES ASSUME IInv, [Next]_vars
               PROVE  Promise!Next \/ UNCHANGED <<calls, sent, written>>
    BY DEF Promise!vars
  <1>0. CallsFit
    BY DEF IInv
  <1>1. CASE Send
    BY <1>1 DEF Send, Promise!Next, Promise!Ask
  <1>2. CASE (\E d \in BOOLEAN : Close(d)) \/ Shutdown \/ UNCHANGED vars
    BY <1>2 DEF Close, Shutdown, vars
  <1>3. CASE Run \/ Enqueue \/ RunClose
    <2>1. PICK r : Become(r)
      BY <1>3 DEF Run, Enqueue, RunClose
    <2>2. sent' = sent /\ written' = written
      BY <1>3 DEF Run, Enqueue, RunClose, Unposted
    <2> QED
      BY <1>0, <2>1, <2>2, BecomePromises DEF Promise!Next
  <1>4. CASE OnResolve \/ OnTcpHandshake \/ OnTlsHandshake \/ ReadFails
             \/ CloseDone \/ StreamEnds
    <2>1. PICK r : Become(r)
      BY <1>4 DEF OnResolve, OnTcpHandshake, OnTlsHandshake, ReadFails, CloseDone,
         StreamEnds
    <2>2. sent' = sent /\ written' = written
      BY <1>4 DEF OnResolve, OnTcpHandshake, OnTlsHandshake, ReadFails, CloseDone,
         StreamEnds, Unrelated
    <2> QED
      BY <1>0, <2>1, <2>2, BecomePromises DEF Promise!Next
  <1>5. CASE OnWsHandshake
    <2>1. sent' = sent /\ written' = written /\ conn.op \in Chain
      BY <1>5 DEF OnWsHandshake, Unrelated, Chain
    <2>2. CASE \E r : Become(r)
      BY <1>0, <2>1, <2>2, BecomePromises DEF Promise!Next
    <2>3. CASE conn.listener /\ calls' = Append(calls, "onOpen")
      <3>1. calls = << >>
        BY <1>0, <2>1, <2>3 DEF CallsFit
      <3>2. calls' = <<"onOpen">>
        BY <2>3, <3>1
      <3> QED
        BY <2>1, <3>1, <3>2 DEF Promise!Next, Promise!OnOpen
    <2> QED
      BY <1>5, <2>2, <2>3 DEF OnWsHandshake
  <1>6. CASE ReadSucceeds
    <2>1. sent' = sent /\ written' = written /\ conn.op = "read"
      BY <1>6 DEF ReadSucceeds, Unrelated
    <2>2. CASE \E r : Become(r)
      BY <1>0, <2>1, <2>2, BecomePromises DEF Promise!Next
    <2>3. CASE conn.listener /\ calls' = Append(calls, "onMessage")
      BY <1>0, <2>1, <2>3 DEF CallsFit, Promise!Next, Promise!OnMessage
    <2> QED
      BY <1>6, <2>2, <2>3 DEF ReadSucceeds
  <1>7. CASE OnWriteDone
    <2>1. sent' = sent
      BY <1>7 DEF OnWriteDone, Unrelated
    <2>2. CASE written' = written /\ \E r : Become(r)
      BY <1>0, <2>1, <2>2, BecomePromises DEF Promise!Next
    <2>3. ASSUME written' = Append(written, Head(conn.queuedMessages)),
                 NEW done, done.listener = conn.listener, Become(TrySend(done)),
                 done \in Connections
          PROVE  Promise!Write
      <3>1. TrySend(done).listener = conn.listener
        BY <2>3, TrySendFields
      <3>2. calls' = calls
        BY <2>3, <3>1 DEF Become
      <3>3. /\ conn.queuedMessages \in Seq(1..MaxSends) /\ posted \in Seq(Tasks)
            /\ conn.queuedMessages # << >> /\ written \in Seq(1..MaxSends)
            /\ conn.isSending /\ sent \in Nat
        BY <1>7, Types DEF IInv, SendingFront, OnWriteDone
      <3>4. /\ Head(conn.queuedMessages) = conn.queuedMessages[1]
            /\ 1 \in 1..Len(conn.queuedMessages) /\ Len(conn.queuedMessages) \in Nat
        BY <3>3, TailFields
      <3>5. Head(conn.queuedMessages) = Len(written) + 1
        BY <3>3, <3>4 DEF IInv, QueueContinues, Spent
      <3>6. /\ Cardinality(SendTasks(posted)) \in Nat /\ Len(written) \in Nat
            /\ Len(written) + Len(conn.queuedMessages)
                  + Cardinality(SendTasks(posted)) <= sent
        BY <3>3, SendTasksFinite, LenProperties DEF IInv, CountsFit
      <3>7. Len(written) < sent
        BY <3>3, <3>4, <3>6
      <3> QED
        BY <2>1, <2>3, <3>2, <3>5, <3>7 DEF Promise!Write
    <2> DEFINE q == conn.queuedMessages
               done == [conn EXCEPT !.queuedMessages = Tail(q), !.isSending = FALSE]
    <2>4. q # << >> /\ q \in Seq(1..MaxSends) /\ conn \in Connections
      BY <1>7, Completes, Types DEF IInv, SendingFront, OnWriteDone
    <2>5. done \in Connections /\ done.listener = conn.listener
      <3>1. Tail(q) \in Seq(1..MaxSends)
        BY <2>4, TailFields
      <3> HIDE DEF q
      <3> QED
        BY <2>4, <3>1 DEF Connections
    <2>6. \/ written' = written /\ \E r : Become(r)
          \/ Become(TrySend(done)) /\ written' = Append(written, Head(q))
      BY <1>7, <2>4 DEF OnWriteDone
    <2> QED
      BY <2>2, <2>3, <2>5, <2>6 DEF Promise!Next
  <1> QED
    BY <1>1, <1>2, <1>3, <1>4, <1>5, <1>6, <1>7 DEF Next

\* What the listener is called with and what is written is what SocketPromise
\* allows, for every number of endpoints, messages and calls of close(): one
\* onOpen() first, one onClose() last, and each message once, in order.
THEOREM KeepsPromise == Spec => Implements
  <1>1. Init => Promise!Init
    BY DEF Init, Promise!Init
  <1> QED
    BY <1>1, StepPromises, Invariance, PTL DEF Implements, Spec, Promise!Spec
=============================================================================
