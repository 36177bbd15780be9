------------------------- MODULE KickAccounts_proofs -------------------------
(***************************************************************************)
(* Invariance proofs for KickAccounts, for every set of requests and every *)
(* bound.                                                                  *)
(***************************************************************************)
EXTENDS KickAccounts, SequenceTheorems, FiniteSetTheorems, TLAPS

\* A refresh is of an account that says so, and sends the tokens it has.
RefreshesFit ==
    \A i \in DOMAIN refreshes :
        /\ refreshes[i].account \in DOMAIN accounts
        /\ accounts[refreshes[i].account].isRefreshing
        /\ accounts[refreshes[i].account].tokens = refreshes[i].tokens
        /\ refreshes[i].stage = "backoff" => MayRetry(refreshes[i].attempt)

\* WaitersHaveOneRefresh without counting
OneEach ==
    \A i, j \in DOMAIN refreshes : refreshes[i].account = refreshes[j].account => i = j

FlagIsTrue ==
    \A a \in DOMAIN accounts : accounts[a].isRefreshing =>
        \E i \in DOMAIN refreshes : refreshes[i].account = a

\* Who sent something had tokens, and who waits waits for a refresh.
RequestsFit ==
    \A r \in Request : requests[r].stage \in {"sent", "waiting"} =>
        /\ requests[r].account \in DOMAIN accounts
        /\ accounts[requests[r].account].tokens # NoTokens
        /\ requests[r].stage = "waiting" => accounts[requests[r].account].isRefreshing

Refreshes == RefreshesFit /\ OneEach /\ FlagIsTrue /\ RequestsFit

\* No two accounts have tokens of the same grant.
HeldOnce ==
    \A a, b \in DOMAIN accounts :
        accounts[a].tokens # NoTokens /\ accounts[a].tokens.grant = accounts[b].tokens.grant
            => a = b

\* Tokens are the last ones of their grant, unless an answer was lost.
Newest(tokens) ==
    tokens # NoTokens =>
        /\ kick[tokens.grant] > 0
        /\ tokens.grant \notin lost => kick[tokens.grant] = tokens.renewals + 1

AllAreNewest == Newest(saved.tokens) /\ \A a \in DOMAIN accounts : Newest(accounts[a].tokens)

\* The tokens of a login that is not over are nobody's yet.
PendingIsNew ==
    pending # 0 =>
        /\ kick[pending] = 1
        /\ saved.tokens.grant # pending
        /\ \A a \in DOMAIN accounts : accounts[a].tokens.grant # pending

\* What was saved with tokens has a user.
SavedHasUser == saved.tokens # NoTokens => saved.user # 0

Holders == HeldOnce /\ AllAreNewest /\ PendingIsNew /\ SavedHasUser

\* While nothing overlaps, only the current account refreshes, the user of one login
\* is asked for, and every account has tokens.
InTurn ==
    ~overlapped =>
        /\ \A i \in DOMAIN refreshes : refreshes[i].account = current
        /\ lookups \subseteq {pending}
        /\ \A a \in DOMAIN accounts : accounts[a].tokens # NoTokens

\* The inductive invariant.
Inv == TypeOK /\ Refreshes /\ Holders /\ InTurn /\ SavedIsCurrent
-----------------------------------------------------------------------------
(* The types, and what the steps do to the two sequences. *)

Refresh == [account : Nat, attempt : 0..MAX_REFRESH_RETRIES,
            stage : {"asked", "backoff"}, tokens : Tokens]

LEMMA Bounds ==
    /\ MAX_REFRESH_RETRIES \in Nat /\ MaxGrants \in Nat /\ MaxRenewals \in Nat
    /\ MaxErrors \in Nat /\ MaxRestarts \in Nat
    /\ Grant = 1..MaxGrants
  <1>1. {MAX_REFRESH_RETRIES, MaxGrants, MaxRenewals, MaxErrors, MaxRestarts} \subseteq Nat
    BY AccountsAssumption
  <1> QED
    BY <1>1 DEF Grant

LEMMA NoTokensDiffer == NoTokens \notin Tokens /\ NoTokens.grant = 0
  BY Bounds DEF NoTokens, Tokens

\* Both sequences are functions of their positions.
LEMMA Positions ==
    ASSUME TypeOK
    PROVE  /\ accounts \in Seq(Account) /\ refreshes \in Seq(Refresh)
           /\ Len(accounts) \in Nat /\ DOMAIN accounts = 1..Len(accounts)
           /\ Len(refreshes) \in Nat /\ DOMAIN refreshes = 1..Len(refreshes)
           /\ \A a \in DOMAIN accounts : accounts[a] \in Account
           /\ \A i \in DOMAIN refreshes : refreshes[i] \in Refresh
  <1>1. accounts \in Seq(Account) /\ refreshes \in Seq(Refresh)
    BY DEF TypeOK, Refresh
  <1>2. /\ Len(accounts) \in Nat /\ DOMAIN accounts = 1..Len(accounts)
        /\ Len(refreshes) \in Nat /\ DOMAIN refreshes = 1..Len(refreshes)
    BY <1>1, LenProperties
  <1> QED
    BY <1>1, <1>2, ElementOfSeq

\* A step changes one account.
LEMMA OneChanges ==
    ASSUME TypeOK, NEW a \in DOMAIN accounts, NEW new \in Account,
           accounts' = [accounts EXCEPT ![a] = new]
    PROVE  /\ accounts' \in Seq(Account) /\ Len(accounts') = Len(accounts)
           /\ DOMAIN accounts' = DOMAIN accounts
           /\ accounts'[a] = new
           /\ \A b \in DOMAIN accounts : b # a => accounts'[b] = accounts[b]
  <1>1. a \in 1..Len(accounts) /\ accounts \in Seq(Account)
    BY Positions
  <1>2. /\ accounts' \in Seq(Account) /\ Len(accounts') = Len(accounts)
        /\ \A b \in 1..Len(accounts) : accounts'[b] = IF b = a THEN new ELSE accounts[b]
    BY <1>1, ExceptSeq
  <1> QED
    BY <1>2, Positions, LenProperties

\* A login adds an account.
LEMMA OneAdded ==
    ASSUME TypeOK, NEW new \in Account, accounts' = Append(accounts, new)
    PROVE  /\ accounts' \in Seq(Account) /\ Len(accounts') = Len(accounts) + 1
           /\ DOMAIN accounts' = DOMAIN accounts \cup {Len(accounts) + 1}
           /\ Len(accounts) + 1 \notin DOMAIN accounts
           /\ accounts'[Len(accounts) + 1] = new
           /\ \A b \in DOMAIN accounts : accounts'[b] = accounts[b]
  <1>1. /\ accounts' \in Seq(Account) /\ Len(accounts') = Len(accounts) + 1
        /\ \A b \in 1..Len(accounts) : accounts'[b] = accounts[b]
        /\ accounts'[Len(accounts) + 1] = new
    BY Positions, AppendProperties
  <1>2. DOMAIN accounts' = 1..(Len(accounts) + 1)
    BY <1>1, LenProperties
  <1> QED
    BY <1>1, <1>2, Positions

\* A refresh that ends leaves the others.
LEMMA OneEnds ==
    ASSUME TypeOK, NEW i \in DOMAIN refreshes, refreshes' = RemoveAt(refreshes, i)
    PROVE  /\ refreshes' \in Seq(Refresh)
           /\ DOMAIN refreshes' = 1..(Len(refreshes) - 1)
           /\ \A j \in DOMAIN refreshes' :
                  refreshes'[j] = refreshes[IF j < i THEN j ELSE j + 1]
  <1> DEFINE n == Len(refreshes)
             front == SubSeq(refreshes, 1, i - 1)
             back == SubSeq(refreshes, i + 1, n)
  <1>1. n \in Nat /\ i \in 1..n /\ \A j \in 1..n : refreshes[j] \in Refresh
    BY Positions
  <1>2. /\ front \in Seq(Refresh) /\ Len(front) = i - 1
        /\ \A j \in 1..(i - 1) : front[j] = refreshes[j]
    <2>1. i - 1 \in Int /\ \A j \in 1..(i - 1) : refreshes[j] \in Refresh
      BY <1>1
    <2>2. /\ front \in Seq(Refresh)
          /\ Len(front) = IF 1 <= i - 1 THEN (i - 1) - 1 + 1 ELSE 0
          /\ \A j \in 1..((i - 1) - 1 + 1) : front[j] = refreshes[1 + j - 1]
      BY <2>1, SubSeqProperties
    <2> QED
      BY <1>1, <2>2
  <1>3. /\ back \in Seq(Refresh) /\ Len(back) = n - i
        /\ \A j \in 1..(n - i) : back[j] = refreshes[i + j]
    <2>1. i + 1 \in Int /\ n \in Int /\ \A j \in (i + 1)..n : refreshes[j] \in Refresh
      BY <1>1
    <2>2. /\ back \in Seq(Refresh)
          /\ Len(back) = IF i + 1 <= n THEN n - (i + 1) + 1 ELSE 0
          /\ \A j \in 1..(n - (i + 1) + 1) : back[j] = refreshes[(i + 1) + j - 1]
      BY <2>1, SubSeqProperties
    <2> QED
      BY <1>1, <2>2
  <1>4. refreshes' = front \o back
    BY DEF RemoveAt
  <1>5. /\ refreshes' \in Seq(Refresh) /\ Len(refreshes') = (i - 1) + (n - i)
        /\ \A j \in 1..((i - 1) + (n - i)) :
               refreshes'[j] = IF j <= i - 1 THEN front[j] ELSE back[j - (i - 1)]
    <2>1. /\ front \o back \in Seq(Refresh)
          /\ Len(front \o back) = Len(front) + Len(back)
          /\ \A j \in 1..(Len(front) + Len(back)) :
                 (front \o back)[j] = IF j <= Len(front) THEN front[j]
                                      ELSE back[j - Len(front)]
      BY <1>2, <1>3, ConcatProperties
    <2> HIDE DEF front, back
    <2> QED
      BY <1>2, <1>3, <1>4, <2>1
  <1>6. DOMAIN refreshes' = 1..(n - 1)
    BY <1>1, <1>5, LenProperties
  <1>7. ASSUME NEW j \in 1..(n - 1)
        PROVE  refreshes'[j] = refreshes[IF j < i THEN j ELSE j + 1]
    <2>1. CASE j < i
      <3>1. j <= i - 1 /\ j \in 1..(i - 1) /\ j \in 1..((i - 1) + (n - i))
        BY <1>1, <2>1
      <3> HIDE DEF front, back, n
      <3>2. refreshes'[j] = front[j] /\ front[j] = refreshes[j]
        BY <1>2, <1>5, <3>1
      <3> QED
        BY <2>1, <3>2
    <2>2. CASE ~(j < i)
      <3>1. j - (i - 1) \in 1..(n - i) /\ i + (j - (i - 1)) = j + 1
        BY <1>1, <2>2
      <3>2. refreshes'[j] = back[j - (i - 1)]
        BY <1>1, <1>5, <2>2
      <3> QED
        BY <1>3, <2>2, <3>1, <3>2
    <2> QED
      BY <2>1, <2>2
  <1> QED
    BY <1>5, <1>6, <1>7
-----------------------------------------------------------------------------
(* Refreshes and those who wait for them. *)

\* The refreshes that are left are those of other accounts.
LEMMA OthersStay ==
    ASSUME TypeOK, OneEach, NEW i \in DOMAIN refreshes, refreshes' = RemoveAt(refreshes, i)
    PROVE  /\ \A j \in DOMAIN refreshes' : \E k \in DOMAIN refreshes :
                  /\ refreshes'[j] = refreshes[k]
                  /\ refreshes[k].account # refreshes[i].account
           /\ \A k \in DOMAIN refreshes : k # i =>
                  \E j \in DOMAIN refreshes' : refreshes'[j] = refreshes[k]
           /\ OneEach'
  <1> DEFINE n == Len(refreshes)
             From(j) == IF j < i THEN j ELSE j + 1
  <1>1. /\ n \in Nat /\ DOMAIN refreshes = 1..n /\ i \in 1..n
        /\ DOMAIN refreshes' = 1..(n - 1)
        /\ \A j \in 1..(n - 1) : refreshes'[j] = refreshes[From(j)]
    BY Positions, OneEnds
  <1>2. \A j \in 1..(n - 1) : From(j) \in 1..n /\ From(j) # i
    BY <1>1
  <1>3. \A j, k \in 1..(n - 1) : From(j) = From(k) => j = k
    BY <1>1
  <1>4. \A k \in 1..n : k # i => \E j \in 1..(n - 1) : From(j) = k
    <2>1. SUFFICES ASSUME NEW k \in 1..n, k # i
                   PROVE  \E j \in 1..(n - 1) : From(j) = k
      OBVIOUS
    <2>2. CASE k < i
      BY <1>1, <2>2
    <2>3. CASE ~(k < i)
      <3>1. k - 1 \in 1..(n - 1) /\ From(k - 1) = k
        BY <1>1, <2>1, <2>3
      <3> QED
        BY <3>1
    <2> QED
      BY <2>2, <2>3
  <1> HIDE DEF From, n
  <1>5. \A k \in 1..n : k # i => refreshes[k].account # refreshes[i].account
    BY <1>1 DEF OneEach
  <1>6. OneEach'
    BY <1>1, <1>2, <1>3 DEF OneEach
  <1>7. \A j \in DOMAIN refreshes' : \E k \in DOMAIN refreshes :
            refreshes'[j] = refreshes[k] /\ refreshes[k].account # refreshes[i].account
    <2>1. \A j \in 1..(n - 1) : refreshes'[j] = refreshes[From(j)]
                                /\ refreshes[From(j)].account # refreshes[i].account
      BY <1>1, <1>2, <1>5
    <2> QED
      BY <1>1, <1>2, <2>1
  <1>8. \A k \in DOMAIN refreshes : k # i =>
            \E j \in DOMAIN refreshes' : refreshes'[j] = refreshes[k]
    BY <1>1, <1>4
  <1> QED
    BY <1>6, <1>7, <1>8

\* A refresh ends, in one way or the other.
LEMMA RefreshEnds ==
    ASSUME TypeOK, Refreshes, NEW i \in DOMAIN refreshes,
           NEW new \in Account, ~new.isRefreshing, new.tokens # NoTokens,
           NEW stage \in {"sent", "dropped"},
           accounts' = [accounts EXCEPT ![refreshes[i].account] = new],
           refreshes' = RemoveAt(refreshes, i),
           Told(refreshes[i].account, stage)
    PROVE  /\ accounts' \in Seq(Account) /\ Len(accounts') = Len(accounts)
           /\ refreshes' \in Seq(Refresh)
           /\ requests' \in [Request -> Call]
           /\ Refreshes'
  <1> DEFINE a == refreshes[i].account
  <1>1. a \in DOMAIN accounts
    BY DEF Refreshes, RefreshesFit
  <1>2. /\ accounts' \in Seq(Account) /\ Len(accounts') = Len(accounts)
        /\ DOMAIN accounts' = DOMAIN accounts
        /\ accounts'[a] = new
        /\ \A b \in DOMAIN accounts : b # a => accounts'[b] = accounts[b]
    BY <1>1, OneChanges
  <1>3. refreshes' \in Seq(Refresh)
    BY OneEnds
  <1>4. /\ \A j \in DOMAIN refreshes' : \E k \in DOMAIN refreshes :
               refreshes'[j] = refreshes[k] /\ refreshes[k].account # a
        /\ \A k \in DOMAIN refreshes : k # i =>
               \E j \in DOMAIN refreshes' : refreshes'[j] = refreshes[k]
        /\ OneEach'
    BY OthersStay DEF Refreshes
  <1>5. requests \in [Request -> Call]
    BY DEF TypeOK
  <1>6. \A r \in Request :
            requests'[r] = IF requests[r] = [stage |-> "waiting", account |-> a]
                           THEN [requests[r] EXCEPT !.stage = stage] ELSE requests[r]
    BY DEF Told
  <1>7. requests' \in [Request -> Call]
    <2>1. \A r \in Request : [requests[r] EXCEPT !.stage = stage] \in Call
      BY <1>5 DEF Call
    <2> QED
      BY <1>5, <2>1 DEF Told
  <1>8. RefreshesFit'
    <2>1. ASSUME NEW j \in DOMAIN refreshes'
          PROVE  /\ refreshes'[j].account \in DOMAIN accounts'
                 /\ accounts'[refreshes'[j].account].isRefreshing
                 /\ accounts'[refreshes'[j].account].tokens = refreshes'[j].tokens
                 /\ refreshes'[j].stage = "backoff" => MayRetry(refreshes'[j].attempt)
      <3>1. PICK k \in DOMAIN refreshes : refreshes'[j] = refreshes[k] /\ refreshes[k].account # a
        BY <1>4
      <3> QED
        BY <1>2, <3>1 DEF Refreshes, RefreshesFit
    <2> QED
      BY <2>1 DEF RefreshesFit, MayRetry
  <1>9. FlagIsTrue'
    <2>1. SUFFICES ASSUME NEW b \in DOMAIN accounts', accounts'[b].isRefreshing
                   PROVE  \E j \in DOMAIN refreshes' : refreshes'[j].account = b
      BY DEF FlagIsTrue
    <2>2. b # a /\ b \in DOMAIN accounts /\ accounts[b].isRefreshing
      BY <1>2, <2>1
    <2>3. PICK k \in DOMAIN refreshes : refreshes[k].account = b
      BY <2>2 DEF Refreshes, FlagIsTrue
    <2> QED
      BY <1>4, <2>2, <2>3
  <1>10. RequestsFit'
    <2>1. SUFFICES ASSUME NEW r \in Request, requests'[r].stage \in {"sent", "waiting"}
                   PROVE  /\ requests'[r].account \in DOMAIN accounts'
                          /\ accounts'[requests'[r].account].tokens # NoTokens
                          /\ requests'[r].stage = "waiting" =>
                                 accounts'[requests'[r].account].isRefreshing
      BY DEF RequestsFit
    <2>2. CASE requests[r] = [stage |-> "waiting", account |-> a]
      <3>1. requests'[r] = [requests[r] EXCEPT !.stage = stage]
        BY <1>6, <2>2
      <3>2. requests'[r].account = a
        BY <2>2, <3>1
      <3> QED
        BY <1>1, <1>2, <1>5, <2>2, <3>1, <3>2 DEF Call
    <2>3. CASE requests[r] # [stage |-> "waiting", account |-> a]
      <3>1. requests'[r] = requests[r]
        BY <1>6, <2>3
      <3>2. requests[r].stage = "waiting" => requests[r].account # a
        BY <1>5, <2>3 DEF Call
      <3> QED
        BY <1>2, <2>1, <3>1, <3>2 DEF Refreshes, RequestsFit
    <2> QED
      BY <2>2, <2>3
  <1> QED
    BY <1>2, <1>3, <1>4, <1>7, <1>8, <1>9, <1>10 DEF Refreshes

\* A refresh waits for its retry, or makes it.
LEMMA RefreshGoesOn ==
    ASSUME TypeOK, Refreshes, NEW i \in DOMAIN refreshes,
           NEW new \in Refresh, new.account = refreshes[i].account,
           new.tokens = refreshes[i].tokens,
           new.stage = "backoff" => MayRetry(new.attempt),
           refreshes' = [refreshes EXCEPT ![i] = new],
           UNCHANGED <<accounts, requests>>
    PROVE  /\ refreshes' \in Seq(Refresh)
           /\ Refreshes'
  <1>1. refreshes \in Seq(Refresh) /\ i \in 1..Len(refreshes) /\ DOMAIN refreshes = 1..Len(refreshes)
    BY Positions
  <1>2. /\ refreshes' \in Seq(Refresh) /\ Len(refreshes') = Len(refreshes)
        /\ \A j \in 1..Len(refreshes) : refreshes'[j] = IF j = i THEN new ELSE refreshes[j]
    BY <1>1, ExceptSeq
  <1>3. DOMAIN refreshes' = DOMAIN refreshes
    BY <1>1, <1>2, LenProperties
  <1>4. \A j \in DOMAIN refreshes : /\ refreshes'[j].account = refreshes[j].account
                                    /\ refreshes'[j].tokens = refreshes[j].tokens
                                    /\ j # i => refreshes'[j] = refreshes[j]
    BY <1>1, <1>2
  <1>5. RefreshesFit'
    <2>1. \A j \in DOMAIN refreshes :
              refreshes'[j].stage = "backoff" => MayRetry(refreshes'[j].attempt)
      BY <1>1, <1>2, <1>4 DEF Refreshes, RefreshesFit
    <2> QED
      BY <1>3, <1>4, <2>1 DEF Refreshes, RefreshesFit, MayRetry
  <1>6. OneEach' /\ FlagIsTrue' /\ RequestsFit'
    BY <1>3, <1>4 DEF Refreshes, OneEach, FlagIsTrue, RequestsFit
  <1> QED
    BY <1>2, <1>5, <1>6 DEF Refreshes

\* A call of the API, or an answer to one, by which nobody begins to wait
LEMMA RequestMoves ==
    ASSUME TypeOK, Refreshes, NEW r \in Request, NEW new \in Call, new.stage # "waiting",
           new.stage = "sent" => /\ new.account \in DOMAIN accounts
                                 /\ accounts[new.account].tokens # NoTokens,
           requests' = [requests EXCEPT ![r] = new],
           UNCHANGED <<accounts, refreshes>>
    PROVE  requests' \in [Request -> Call] /\ Refreshes'
  <1>1. requests \in [Request -> Call]
    BY DEF TypeOK
  <1>2. \A q \in Request : requests'[q] = IF q = r THEN new ELSE requests[q]
    BY <1>1
  <1>3. RequestsFit'
    BY <1>2 DEF Refreshes, RequestsFit
  <1>4. RefreshesFit' /\ OneEach' /\ FlagIsTrue'
    BY DEF Refreshes, RefreshesFit, OneEach, FlagIsTrue, MayRetry
  <1> QED
    BY <1>1, <1>3, <1>4 DEF Refreshes

\* refreshAndRetry() of a request that was sent, for an account that can refresh
LEMMA RefreshStarted ==
    ASSUME TypeOK, Refreshes, NEW r \in Request, requests[r].stage = "sent",
           RefreshAndRetry(requests[r].account, r),
           accounts[requests[r].account].tokens.grant \notin bare
    PROVE  /\ accounts' \in Seq(Account) /\ Len(accounts') = Len(accounts)
           /\ DOMAIN accounts' = DOMAIN accounts
           /\ \A b \in DOMAIN accounts : /\ accounts'[b].tokens = accounts[b].tokens
                                         /\ accounts'[b].user = accounts[b].user
           /\ refreshes' \in Seq(Refresh)
           /\ \A i \in DOMAIN refreshes' :
                  \/ i \in DOMAIN refreshes /\ refreshes'[i] = refreshes[i]
                  \/ refreshes'[i].account = requests[r].account
           /\ requests' \in [Request -> Call]
           /\ Refreshes'
  <1> DEFINE a == requests[r].account
             new == [accounts[a] EXCEPT !.isRefreshing = TRUE]
  <1>1. /\ a \in DOMAIN accounts /\ accounts[a] \in Account
        /\ accounts[a].tokens # NoTokens
    BY Positions DEF Refreshes, RequestsFit
  <1>2. new \in Account /\ new.isRefreshing /\ new.tokens = accounts[a].tokens
        /\ new.user = accounts[a].user
    BY <1>1 DEF Account
  <1>3. accounts' = [accounts EXCEPT ![a] = new]
    BY DEF RefreshAndRetry
  <1> HIDE DEF new
  <1>4. /\ accounts' \in Seq(Account) /\ Len(accounts') = Len(accounts)
        /\ DOMAIN accounts' = DOMAIN accounts
        /\ accounts'[a] = new
        /\ \A b \in DOMAIN accounts : b # a => accounts'[b] = accounts[b]
    BY <1>1, <1>2, <1>3, OneChanges
  <1>5. \A b \in DOMAIN accounts : /\ accounts'[b].tokens = accounts[b].tokens
                                   /\ accounts'[b].user = accounts[b].user
                                   /\ accounts[b].isRefreshing => accounts'[b].isRefreshing
                                   /\ b # a => accounts'[b] = accounts[b]
    BY <1>2, <1>4
  <1>6. requests \in [Request -> Call] /\ requests' = [requests EXCEPT ![r].stage = "waiting"]
    BY DEF TypeOK, RefreshAndRetry
  <1>7. /\ requests' \in [Request -> Call]
        /\ requests'[r].account = a
        /\ \A q \in Request : q # r => requests'[q] = requests[q]
    <2>1. [requests[r] EXCEPT !.stage = "waiting"] \in Call
          /\ [requests[r] EXCEPT !.stage = "waiting"].account = a
      BY <1>6 DEF Call
    <2> QED
      BY <1>6, <2>1
  <1>8. RequestsFit'
    <2>1. ASSUME NEW q \in Request, requests'[q].stage \in {"sent", "waiting"}
          PROVE  /\ requests'[q].account \in DOMAIN accounts'
                 /\ accounts'[requests'[q].account].tokens # NoTokens
                 /\ requests'[q].stage = "waiting" =>
                        accounts'[requests'[q].account].isRefreshing
      <3>1. CASE q = r
        BY <1>1, <1>2, <1>4, <1>7, <3>1
      <3>2. CASE q # r
        BY <1>4, <1>5, <1>7, <2>1, <3>2 DEF Refreshes, RequestsFit
      <3> QED
        BY <3>1, <3>2
    <2> QED
      BY <2>1 DEF RequestsFit
  <1>9. /\ refreshes' \in Seq(Refresh)
        /\ \A i \in DOMAIN refreshes' : \/ i \in DOMAIN refreshes /\ refreshes'[i] = refreshes[i]
                                        \/ refreshes'[i].account = a
        /\ RefreshesFit' /\ OneEach' /\ FlagIsTrue'
    <2>1. CASE accounts[a].isRefreshing
      <3>1. refreshes' = refreshes
        BY <2>1 DEF RefreshAndRetry
      <3>2. RefreshesFit'
        BY <1>4, <1>5, <3>1 DEF Refreshes, RefreshesFit, MayRetry
      <3>3. OneEach'
        BY <3>1 DEF Refreshes, OneEach
      <3>4. FlagIsTrue'
        BY <1>4, <1>5, <2>1, <3>1 DEF Refreshes, FlagIsTrue
      <3> QED
        BY <3>1, <3>2, <3>3, <3>4, Positions
    <2>2. CASE ~accounts[a].isRefreshing
      <3> DEFINE asked == Asked(a, 0)
                 n == Len(refreshes)
      <3>1. /\ asked \in Refresh /\ asked.account = a
            /\ asked.stage = "asked" /\ asked.tokens = accounts[a].tokens
        <4>1. a \in Nat
          BY <1>1, Positions
        <4>2. accounts[a].tokens \in Tokens
          BY <1>1 DEF Account
        <4> QED
          BY <4>1, <4>2, Bounds DEF Asked, Refresh
      <3>2. refreshes' = Append(refreshes, asked)
        BY <2>2 DEF RefreshAndRetry
      <3> HIDE DEF asked
      <3>3. /\ refreshes' \in Seq(Refresh) /\ Len(refreshes') = n + 1
            /\ \A i \in 1..n : refreshes'[i] = refreshes[i]
            /\ refreshes'[n + 1] = asked
        BY <3>1, <3>2, Positions, AppendProperties
      <3>4. DOMAIN refreshes' = 1..(n + 1)
        BY <3>3, LenProperties
      <3>5. /\ DOMAIN refreshes' = DOMAIN refreshes \cup {n + 1}
            /\ n + 1 \notin DOMAIN refreshes
            /\ \A i \in DOMAIN refreshes : refreshes'[i] = refreshes[i]
            /\ refreshes'[n + 1] = asked
        BY <3>3, <3>4, Positions
      <3>6. \A i \in DOMAIN refreshes : refreshes[i].account # a
        BY <2>2 DEF Refreshes, RefreshesFit
      <3> HIDE DEF n
      <3>7. RefreshesFit'
        BY <1>1, <1>2, <1>4, <1>5, <3>1, <3>5 DEF Refreshes, RefreshesFit, MayRetry
      <3>8. OneEach'
        BY <3>1, <3>5, <3>6 DEF Refreshes, OneEach
      <3>9. FlagIsTrue'
        <4>1. SUFFICES ASSUME NEW b \in DOMAIN accounts', accounts'[b].isRefreshing
                       PROVE  \E i \in DOMAIN refreshes' : refreshes'[i].account = b
          BY DEF FlagIsTrue
        <4>2. CASE b = a
          BY <3>1, <3>5, <4>2
        <4>3. CASE b # a
          BY <1>4, <3>5, <4>1, <4>3 DEF Refreshes, FlagIsTrue
        <4> QED
          BY <4>2, <4>3
      <3> QED
        BY <3>1, <3>3, <3>5, <3>7, <3>8, <3>9
    <2> QED
      BY <2>1, <2>2
  <1> QED
    BY <1>4, <1>5, <1>7, <1>8, <1>9 DEF Refreshes

\* refreshAndRetry() of a request that was sent: without a refresh token the request is
\* told of the failure, and nothing else changes.
LEMMA RefreshAsked ==
    ASSUME TypeOK, Refreshes, NEW r \in Request, requests[r].stage = "sent",
           RefreshAndRetry(requests[r].account, r)
    PROVE  /\ accounts' \in Seq(Account) /\ Len(accounts') = Len(accounts)
           /\ DOMAIN accounts' = DOMAIN accounts
           /\ \A b \in DOMAIN accounts : /\ accounts'[b].tokens = accounts[b].tokens
                                         /\ accounts'[b].user = accounts[b].user
           /\ refreshes' \in Seq(Refresh)
           /\ \A i \in DOMAIN refreshes' :
                  \/ i \in DOMAIN refreshes /\ refreshes'[i] = refreshes[i]
                  \/ refreshes'[i].account = requests[r].account
           /\ requests' \in [Request -> Call]
           /\ Refreshes'
  <1>1. CASE accounts[requests[r].account].tokens.grant \in bare
    <2> DEFINE new == [requests[r] EXCEPT !.stage = "dropped"]
    <2>1. requests' = [requests EXCEPT ![r] = new] /\ UNCHANGED <<accounts, refreshes>>
      BY <1>1 DEF RefreshAndRetry
    <2>2. new \in Call /\ new.stage = "dropped"
      BY DEF TypeOK, Call
    <2> HIDE DEF new
    <2>3. requests' \in [Request -> Call] /\ Refreshes'
      BY <2>1, <2>2, RequestMoves
    <2> QED
      BY <2>1, <2>3, Positions
  <1>2. CASE accounts[requests[r].account].tokens.grant \notin bare
    BY <1>2, RefreshStarted
  <1> QED
    BY <1>1, <1>2

\* A token expires, which no refresh and no request depends on.
LEMMA ExpiryEffect ==
    ASSUME TypeOK, Refreshes, NEW a \in DOMAIN accounts,
           accounts' = [accounts EXCEPT ![a].expired = TRUE],
           UNCHANGED <<refreshes, requests>>
    PROVE  /\ accounts' \in Seq(Account) /\ Len(accounts') = Len(accounts)
           /\ DOMAIN accounts' = DOMAIN accounts
           /\ \A b \in DOMAIN accounts : /\ accounts'[b].tokens = accounts[b].tokens
                                         /\ accounts'[b].user = accounts[b].user
           /\ Refreshes'
  <1> DEFINE new == [accounts[a] EXCEPT !.expired = TRUE]
  <1>1. /\ new \in Account /\ new.tokens = accounts[a].tokens
        /\ new.user = accounts[a].user /\ new.isRefreshing = accounts[a].isRefreshing
    BY Positions DEF Account
  <1>2. accounts' = [accounts EXCEPT ![a] = new]
    OBVIOUS
  <1> HIDE DEF new
  <1>3. /\ accounts' \in Seq(Account) /\ Len(accounts') = Len(accounts)
        /\ DOMAIN accounts' = DOMAIN accounts
        /\ \A b \in DOMAIN accounts : /\ accounts'[b].tokens = accounts[b].tokens
                                      /\ accounts'[b].user = accounts[b].user
                                      /\ accounts'[b].isRefreshing = accounts[b].isRefreshing
    BY <1>1, <1>2, OneChanges
  <1>4. RefreshesFit' /\ OneEach' /\ FlagIsTrue' /\ RequestsFit'
    BY <1>3 DEF Refreshes, RefreshesFit, OneEach, FlagIsTrue, RequestsFit, MayRetry
  <1> QED
    BY <1>3, <1>4 DEF Refreshes

\* A login makes an account that refreshes nothing.
LEMMA LoginEffect ==
    ASSUME TypeOK, Refreshes, NEW user \in Grant, NEW grant \in Grant \cup {0},
           CreateAccount(user, grant),
           UNCHANGED <<refreshes, requests>>
    PROVE  /\ accounts' \in Seq(Account) /\ Len(accounts') = Len(accounts) + 1
           /\ current' = Len(accounts) + 1 /\ pending' = 0
           /\ DOMAIN accounts' = DOMAIN accounts \cup {current'}
           /\ current' \notin DOMAIN accounts
           /\ \A b \in DOMAIN accounts : accounts'[b] = accounts[b]
           /\ accounts'[current'].user = user
           /\ accounts'[current'].tokens =
                  IF grant = 0 THEN NoTokens ELSE [grant |-> grant, renewals |-> 0]
           /\ saved' = [user |-> user, tokens |-> accounts'[current'].tokens]
           /\ saved' \in Saved
           /\ Refreshes'
  <1> DEFINE tokens == IF grant = 0 THEN NoTokens ELSE [grant |-> grant, renewals |-> 0]
             new == [user |-> user, tokens |-> tokens, expired |-> FALSE, isRefreshing |-> FALSE]
  <1>1. tokens \in Tokens \cup {NoTokens}
    BY Bounds DEF Tokens
  <1>2. /\ accounts' = Append(accounts, new)
        /\ saved' = [user |-> user, tokens |-> tokens]
        /\ current' = Len(accounts) + 1 /\ pending' = 0
    BY DEF CreateAccount
  <1> HIDE DEF tokens
  <1>3. new \in Account /\ saved' \in Saved
    BY <1>1, <1>2 DEF Account, Saved
  <1>4. new.user = user /\ new.tokens = tokens /\ ~new.isRefreshing
    OBVIOUS
  <1> HIDE DEF new
  <1>5. /\ accounts' \in Seq(Account) /\ Len(accounts') = Len(accounts) + 1
        /\ DOMAIN accounts' = DOMAIN accounts \cup {current'}
        /\ current' \notin DOMAIN accounts
        /\ accounts'[current'] = new
        /\ \A b \in DOMAIN accounts : accounts'[b] = accounts[b]
    BY <1>2, <1>3, OneAdded
  <1>6. RefreshesFit' /\ OneEach' /\ FlagIsTrue' /\ RequestsFit'
    BY <1>4, <1>5 DEF Refreshes, RefreshesFit, OneEach, FlagIsTrue, RequestsFit, MayRetry
  <1> QED
    BY <1>2, <1>3, <1>4, <1>5, <1>6 DEF Refreshes, tokens
-----------------------------------------------------------------------------
(* Who holds which tokens. *)

\* Kick renews the grant of an account, and its answer is lost.
Unanswered(a) ==
    /\ kick' = [kick EXCEPT ![accounts[a].tokens.grant] = @ + 1]
    /\ lost' = lost \cup {accounts[a].tokens.grant}

\* The accounts keep their tokens, and Kick renews nothing, or in vain.
LEMMA HoldersStay ==
    ASSUME TypeOK, Holders, DOMAIN accounts' = DOMAIN accounts,
           \A b \in DOMAIN accounts : accounts'[b].tokens = accounts[b].tokens,
           saved' \in {saved, Nothing}, pending' \in {pending, 0},
           \/ UNCHANGED <<kick, lost>>
           \/ \E a \in DOMAIN accounts : accounts[a].tokens # NoTokens /\ Unanswered(a)
    PROVE  Holders'
  <1>1. HeldOnce'
    BY DEF Holders, HeldOnce
  <1>2. SavedHasUser'
    BY DEF Holders, SavedHasUser, Nothing
  <1>3. saved'.tokens \in {saved.tokens, NoTokens}
    BY DEF Nothing
  <1>4. CASE UNCHANGED <<kick, lost>>
    <2>1. \A tokens : Newest(tokens)' <=> Newest(tokens)
      BY <1>4 DEF Newest
    <2>2. AllAreNewest'
      BY <1>3, <1>4 DEF Holders, AllAreNewest, Newest
    <2>3. PendingIsNew'
      BY <1>3, <1>4, NoTokensDiffer DEF Holders, PendingIsNew
    <2> QED
      BY <1>1, <1>2, <2>2, <2>3 DEF Holders
  <1>5. ASSUME NEW a \in DOMAIN accounts, accounts[a].tokens # NoTokens, Unanswered(a)
        PROVE  Holders'
    <2> DEFINE g == accounts[a].tokens.grant
    <2>1. accounts[a].tokens \in Tokens
      BY <1>5, Positions DEF Account
    <2>2. g \in Grant
      BY <2>1 DEF Tokens
    <2>3. kick \in [Grant -> Nat]
      BY Bounds DEF TypeOK
    <2>4. /\ \A h \in Grant : kick'[h] = IF h = g THEN kick[h] + 1 ELSE kick[h]
          /\ \A h \in Grant : kick[h] > 0 => kick'[h] > 0
          /\ lost' = lost \cup {g}
      BY <1>5, <2>2, <2>3 DEF Unanswered
    <2>5. \A tokens \in Tokens \cup {NoTokens} :
              (tokens # NoTokens =>
                 /\ kick[tokens.grant] > 0
                 /\ tokens.grant \notin lost => kick[tokens.grant] = tokens.renewals + 1)
              => (tokens # NoTokens =>
                 /\ kick'[tokens.grant] > 0
                 /\ tokens.grant \notin lost' => kick'[tokens.grant] = tokens.renewals + 1)
      BY <2>4 DEF Tokens
    <2>6. AllAreNewest'
      <3>1. saved.tokens \in Tokens \cup {NoTokens}
            /\ \A b \in DOMAIN accounts : accounts[b].tokens \in Tokens \cup {NoTokens}
        BY Positions DEF TypeOK, Saved, Account
      <3> QED
        BY <1>3, <2>5, <3>1 DEF Holders, AllAreNewest, Newest
    <2>7. PendingIsNew'
      <3>1. SUFFICES ASSUME pending' # 0
                     PROVE  /\ kick'[pending'] = 1
                            /\ saved'.tokens.grant # pending'
                            /\ \A b \in DOMAIN accounts' : accounts'[b].tokens.grant # pending'
        BY DEF PendingIsNew
      <3>2. pending' = pending /\ pending \in Grant
        BY <3>1 DEF TypeOK
      <3>3. kick[pending] = 1 /\ pending # g /\ saved.tokens.grant # pending
            /\ \A b \in DOMAIN accounts : accounts[b].tokens.grant # pending
        BY <3>1, <3>2 DEF Holders, PendingIsNew
      <3> QED
        BY <1>3, <2>4, <3>1, <3>2, <3>3, NoTokensDiffer
    <2> QED
      BY <1>1, <1>2, <2>6, <2>7 DEF Holders
  <1> QED
    BY <1>4, <1>5

\* An account gets the next tokens of its grant, which are saved.
LEMMA HoldersRenewed ==
    ASSUME TypeOK, Holders, NEW a \in DOMAIN accounts, NEW tokens \in Tokens,
           tokens = accounts[a].tokens, kick[tokens.grant] = tokens.renewals + 1,
           kick' = [kick EXCEPT ![tokens.grant] = @ + 1],
           DOMAIN accounts' = DOMAIN accounts,
           accounts'[a].tokens = [tokens EXCEPT !.renewals = @ + 1],
           accounts'[a].user \in Grant,
           \A b \in DOMAIN accounts : b # a => accounts'[b] = accounts[b],
           Save(a), UNCHANGED <<pending, lost>>
    PROVE  Holders'
  <1> DEFINE g == tokens.grant
             new == [tokens EXCEPT !.renewals = @ + 1]
  <1>1. g \in Grant /\ tokens.renewals \in Nat /\ tokens # NoTokens /\ 0 \notin Grant
        /\ kick \in [Grant -> Nat]
    <2>1. tokens # NoTokens
      BY NoTokensDiffer
    <2>2. g \in Grant /\ tokens.renewals \in Nat /\ 0 \notin Grant
      BY Bounds DEF Tokens
    <2>3. kick \in [Grant -> Nat]
      BY Bounds DEF TypeOK
    <2> QED
      BY <2>1, <2>2, <2>3
  <1>2. new.grant = g /\ new.renewals = tokens.renewals + 1 /\ new # NoTokens
    BY <1>1 DEF Tokens, NoTokens
  <1>3. saved' = [user |-> accounts'[a].user, tokens |-> new]
    BY DEF Save
  <1> HIDE DEF new
  <1>4. \A h \in Grant : kick'[h] = IF h = g THEN kick[h] + 1 ELSE kick[h]
    BY <1>1
  <1>5. \A b \in DOMAIN accounts : b # a => accounts[b].tokens.grant # g
    BY <1>1 DEF Holders, HeldOnce
  <1>6. accounts'[a].tokens = new
    BY DEF new
  <1>7. \A b \in DOMAIN accounts : accounts'[b].tokens.grant = accounts[b].tokens.grant
    BY <1>2, <1>6
  <1>8. HeldOnce'
    <2>1. SUFFICES ASSUME NEW b \in DOMAIN accounts, NEW c \in DOMAIN accounts,
                          accounts'[b].tokens # NoTokens,
                          accounts'[b].tokens.grant = accounts'[c].tokens.grant
                   PROVE  b = c
      BY DEF HeldOnce
    <2>2. accounts[b].tokens.grant = accounts[c].tokens.grant
      BY <1>7, <2>1
    <2>3. accounts[b].tokens # NoTokens
      BY <1>1, <2>1
    <2> QED
      BY <2>2, <2>3 DEF Holders, HeldOnce
  <1>9. AllAreNewest'
    <2>1. Newest(accounts[a].tokens)'
      BY <1>1, <1>2, <1>4, <1>6 DEF Newest
    <2>2. ASSUME NEW b \in DOMAIN accounts, b # a
          PROVE  Newest(accounts[b].tokens)'
      <3>1. accounts'[b].tokens = accounts[b].tokens /\ accounts[b].tokens.grant # g
            /\ accounts[b].tokens \in Tokens \cup {NoTokens}
        BY <1>5, <2>2, Positions DEF Account
      <3>2. Newest(accounts[b].tokens)
        BY DEF Holders, AllAreNewest
      <3> QED
        BY <1>4, <3>1, <3>2 DEF Newest, Tokens
    <2>3. saved'.tokens = new
      BY <1>3
    <2>4. Newest(saved.tokens)'
      BY <1>6, <2>1, <2>3 DEF Newest
    <2>5. \A b \in DOMAIN accounts' : Newest(accounts[b].tokens)'
      BY <2>1, <2>2
    <2> QED
      BY <2>4, <2>5 DEF AllAreNewest
  <1>10. PendingIsNew'
    <2>1. pending # 0 => pending \in Grant /\ pending # g
      BY DEF TypeOK, Holders, PendingIsNew
    <2>2. saved'.tokens.grant = g
      BY <1>2, <1>3
    <2> QED
      BY <1>4, <1>7, <2>1, <2>2 DEF Holders, PendingIsNew
  <1>11. SavedHasUser'
    BY <1>1, <1>3 DEF SavedHasUser
  <1> QED
    BY <1>8, <1>9, <1>10, <1>11 DEF Holders
-----------------------------------------------------------------------------
(* The steps. *)

\* No account changes hands, and whoever refreshes did so before or is current.
LEMMA TurnsStay ==
    ASSUME TypeOK, InTurn, SavedIsCurrent, overlapped => overlapped',
           DOMAIN accounts' = DOMAIN accounts,
           \A b \in DOMAIN accounts : /\ accounts'[b].tokens = accounts[b].tokens
                                      /\ accounts'[b].user = accounts[b].user,
           ~overlapped' => \A j \in DOMAIN refreshes' :
               \/ refreshes'[j].account = current
               \/ \E i \in DOMAIN refreshes : refreshes'[j].account = refreshes[i].account,
           UNCHANGED <<lookups, pending, current, saved>>
    PROVE  InTurn' /\ SavedIsCurrent'
  <1>1. current # 0 => current \in DOMAIN accounts
    BY Positions DEF TypeOK
  <1>2. InTurn'
    BY DEF InTurn
  <1>3. SavedIsCurrent'
    BY <1>1 DEF SavedIsCurrent
  <1> QED
    BY <1>2, <1>3

LEMMA InitInv == Init => Inv
  <1> SUFFICES ASSUME Init
               PROVE  Inv
    OBVIOUS
  <1>1. accounts \in Seq(Account) /\ Len(accounts) = 0 /\ DOMAIN accounts = {}
    BY EmptySeq DEF Init
  <1>2. refreshes \in Seq(Refresh) /\ DOMAIN refreshes = {}
    BY EmptySeq DEF Init
  <1>3. saved \in Saved /\ saved.tokens = NoTokens
    BY DEF Init, Nothing, Saved
  <1>4. requests \in [Request -> Call] /\ kick \in [Grant -> 0..(MaxRenewals + 1)]
    BY Bounds DEF Init, Call
  <1>5. TypeOK
    <2>1. current \in 0..Len(accounts) /\ pending \in Grant \cup {0} /\ lookups \subseteq Grant
      BY <1>1 DEF Init
    <2>2. errors \in 0..MaxErrors /\ restarts \in 0..MaxRestarts
      BY Bounds DEF Init
    <2>3. /\ flow \in {"none", "browser", "exchange"} /\ inProgress \in BOOLEAN
          /\ bare \subseteq Grant /\ lost \subseteq Grant /\ overlapped \in BOOLEAN
      BY DEF Init
    <2> QED
      BY <1>1, <1>2, <1>3, <1>4, <2>1, <2>2, <2>3 DEF TypeOK, Refresh
  <1>6. Refreshes
    BY <1>1, <1>2 DEF Init, Refreshes, RefreshesFit, OneEach, FlagIsTrue, RequestsFit
  <1>7. Holders
    BY <1>1, <1>3 DEF Init, Holders, HeldOnce, AllAreNewest, Newest, PendingIsNew, SavedHasUser
  <1>8. InTurn /\ SavedIsCurrent
    BY <1>1, <1>2 DEF Init, InTurn, SavedIsCurrent
  <1> QED
    BY <1>5, <1>6, <1>7, <1>8 DEF Inv

\* The browser and the exchange touch no account.
LEMMA FlowStep ==
    ASSUME Inv, StartLogin \/ BrowserReturns \/ FlowCancelled \/ ExchangeFails
    PROVE  Inv'
  <1>1. /\ UNCHANGED <<pending, lookups, bare, accounts, current, refreshes, saved,
                       requests, kick, lost, overlapped, bounds>>
        /\ flow' \in {"none", "browser", "exchange", flow} /\ inProgress' \in {TRUE, FALSE, inProgress}
    BY DEF StartLogin, BrowserReturns, FlowCancelled, ExchangeFails
  <1>2. TypeOK'
    BY <1>1 DEF Inv, TypeOK, bounds
  <1>3. Refreshes'
    BY <1>1 DEF Inv, Refreshes, RefreshesFit, OneEach, FlagIsTrue, RequestsFit, MayRetry
  <1>4. Holders'
    BY <1>1 DEF Inv, Holders, HeldOnce, AllAreNewest, Newest, PendingIsNew, SavedHasUser
  <1>5. InTurn' /\ SavedIsCurrent'
    BY <1>1 DEF Inv, InTurn, SavedIsCurrent
  <1> QED
    BY <1>2, <1>3, <1>4, <1>5 DEF Inv

LEMMA TokenExpiresStep ==
    ASSUME Inv, NEW a \in DOMAIN accounts, TokenExpires(a)
    PROVE  Inv'
  <1>1. accounts' = [accounts EXCEPT ![a].expired = TRUE]
    BY DEF TokenExpires
  <1>2. UNCHANGED <<login, current, refreshes, saved, requests, kick, lost, overlapped, bounds>>
    BY DEF TokenExpires
  <1>3. TypeOK /\ Refreshes /\ Holders /\ InTurn /\ SavedIsCurrent
    BY DEF Inv
  <1>4. /\ accounts' \in Seq(Account) /\ Len(accounts') = Len(accounts)
        /\ DOMAIN accounts' = DOMAIN accounts
        /\ \A b \in DOMAIN accounts : /\ accounts'[b].tokens = accounts[b].tokens
                                      /\ accounts'[b].user = accounts[b].user
        /\ Refreshes'
    BY <1>1, <1>2, <1>3, ExpiryEffect
  <1>5. TypeOK'
    BY <1>2, <1>3, <1>4 DEF TypeOK, login, bounds
  <1>6. Holders'
    BY <1>2, <1>3, <1>4, HoldersStay DEF login
  <1>7. InTurn' /\ SavedIsCurrent'
    BY <1>2, <1>3, <1>4, TurnsStay DEF login
  <1> QED
    BY <1>4, <1>5, <1>6, <1>7 DEF Inv

LEMMA ExchangeStep ==
    ASSUME Inv, ExchangeSucceeds
    PROVE  Inv'
  <1>1. TypeOK /\ Refreshes /\ Holders /\ InTurn /\ SavedIsCurrent
    BY DEF Inv
  <1>2. PICK g \in Grant :
            /\ Given = 1..(g - 1)
            /\ kick' = [kick EXCEPT ![g] = 1]
            /\ \/ CreateAccount(g, g) /\ UNCHANGED lookups
               \/ /\ pending' = g
                  /\ lookups' = lookups \cup {g}
                  /\ UNCHANGED <<accounts, current, saved>>
    BY DEF ExchangeSucceeds
  <1>3. /\ flow' = "none" /\ inProgress' = FALSE
        /\ bare' \subseteq Grant
        /\ overlapped' = (overlapped \/ lookups # {} \/ refreshes # << >>)
        /\ UNCHANGED <<refreshes, requests, lost, bounds>>
    BY <1>1 DEF ExchangeSucceeds, TypeOK
  <1>4. /\ kick[g] = 0 /\ g # 0 /\ kick'[g] = 1
        /\ kick' \in [Grant -> 0..(MaxRenewals + 1)]
        /\ \A h \in Grant : h # g => kick'[h] = kick[h]
    <2>1. kick \in [Grant -> 0..(MaxRenewals + 1)]
      BY <1>1 DEF TypeOK
    <2>2. g \in Nat \ {0} /\ g \notin 1..(g - 1)
      BY Bounds
    <2>3. ~(kick[g] > 0)
      BY <1>2, <2>2 DEF Given
    <2>4. kick[g] \in Nat
      BY <2>1, Bounds
    <2> QED
      BY <1>2, <2>1, <2>2, <2>3, <2>4, Bounds
  <1>5. /\ saved.tokens \in Tokens \cup {NoTokens}
        /\ \A b \in DOMAIN accounts : accounts[b].tokens \in Tokens \cup {NoTokens}
    BY <1>1, Positions DEF TypeOK, Saved, Account
  \* nobody has tokens of the new grant
  <1>6. ASSUME NEW tokens \in Tokens \cup {NoTokens}, Newest(tokens)
        PROVE  /\ tokens.grant # g
               /\ Newest(tokens)'
    BY <1>3, <1>4, <1>6, NoTokensDiffer DEF Newest, Tokens
  <1>7. /\ saved.tokens.grant # g /\ Newest(saved.tokens)
        /\ \A b \in DOMAIN accounts : accounts[b].tokens.grant # g /\ Newest(accounts[b].tokens)
    BY <1>1, <1>5, <1>6 DEF Holders, AllAreNewest
  <1>8. \A tokens \in Tokens \cup {NoTokens} : Newest(tokens) =>
            (tokens # NoTokens =>
                /\ kick'[tokens.grant] > 0
                /\ tokens.grant \notin lost' => kick'[tokens.grant] = tokens.renewals + 1)
    BY <1>3, <1>4 DEF Newest, Tokens
  <1>9. overlapped' \in BOOLEAN
    BY <1>1, <1>3 DEF TypeOK
  <1>10. ~overlapped' => lookups = {} /\ refreshes = << >> /\ DOMAIN refreshes' = {} /\ ~overlapped
    <2>1. ~overlapped' => lookups = {} /\ refreshes = << >> /\ ~overlapped
      BY <1>3
    <2>2. refreshes = << >> => DOMAIN refreshes' = {}
      BY <1>3
    <2> QED
      BY <2>1, <2>2
  <1>11. CASE CreateAccount(g, g) /\ UNCHANGED lookups
    <2>1. /\ accounts' \in Seq(Account) /\ Len(accounts') = Len(accounts) + 1
          /\ current' = Len(accounts) + 1 /\ pending' = 0
          /\ DOMAIN accounts' = DOMAIN accounts \cup {current'}
          /\ current' \notin DOMAIN accounts
          /\ \A b \in DOMAIN accounts : accounts'[b] = accounts[b]
          /\ accounts'[current'].user = g
          /\ accounts'[current'].tokens = [grant |-> g, renewals |-> 0]
          /\ saved' = [user |-> g, tokens |-> accounts'[current'].tokens]
          /\ saved' \in Saved
          /\ Refreshes'
      BY <1>1, <1>3, <1>4, <1>11, LoginEffect
    <2>2. TypeOK'
      <3>1. Len(accounts) \in Nat
        BY <1>1, Positions
      <3>2. current' \in 0..Len(accounts') /\ pending' \in Grant \cup {0}
        BY <2>1, <3>1
      <3>3. accounts' \in Seq(Account) /\ saved' \in Saved
        BY <2>1
      <3> QED
        BY <1>1, <1>3, <1>4, <1>9, <1>11, <3>2, <3>3 DEF TypeOK, bounds
    <2>3. Holders'
      <3>1. HeldOnce'
        BY <1>1, <1>7, <2>1 DEF Holders, HeldOnce
      <3>2. Newest(accounts[current].tokens)' /\ Newest(saved.tokens)'
        BY <1>4, <2>1 DEF Newest
      <3>3. \A b \in DOMAIN accounts : Newest(accounts[b].tokens)'
        BY <1>5, <1>7, <1>8, <2>1 DEF Newest
      <3>4. PendingIsNew' /\ SavedHasUser'
        BY <1>4, <2>1 DEF PendingIsNew, SavedHasUser
      <3> QED
        BY <2>1, <3>1, <3>2, <3>3, <3>4 DEF Holders, AllAreNewest
    <2>4. InTurn'
      <3>1. accounts'[current'].tokens # NoTokens
        BY <1>4, <2>1 DEF NoTokens
      <3> QED
        BY <1>1, <1>10, <1>11, <2>1, <3>1 DEF InTurn
    <2>5. SavedIsCurrent'
      <3>1. current' # 0
        BY <1>1, <2>1, Positions
      <3> QED
        BY <2>1, <3>1 DEF SavedIsCurrent
    <2> QED
      BY <2>1, <2>2, <2>3, <2>4, <2>5 DEF Inv
  <1>12. CASE /\ pending' = g
              /\ lookups' = lookups \cup {g}
              /\ UNCHANGED <<accounts, current, saved>>
    <2>1. TypeOK'
      BY <1>1, <1>3, <1>4, <1>9, <1>12 DEF TypeOK, bounds
    <2>2. Refreshes'
      BY <1>1, <1>3, <1>12 DEF Refreshes, RefreshesFit, OneEach, FlagIsTrue, RequestsFit, MayRetry
    <2>3. Holders'
      <3>1. HeldOnce' /\ SavedHasUser'
        BY <1>1, <1>12 DEF Holders, HeldOnce, SavedHasUser
      <3>2. AllAreNewest'
        BY <1>5, <1>7, <1>8, <1>12 DEF AllAreNewest, Newest
      <3>3. PendingIsNew'
        BY <1>4, <1>7, <1>12 DEF PendingIsNew
      <3> QED
        BY <3>1, <3>2, <3>3 DEF Holders
    <2>4. InTurn'
      BY <1>1, <1>10, <1>12 DEF InTurn
    <2>5. SavedIsCurrent'
      BY <1>1, <1>10, <1>12 DEF SavedIsCurrent
    <2> QED
      BY <2>1, <2>2, <2>3, <2>4, <2>5 DEF Inv
  <1> QED
    BY <1>2, <1>11, <1>12

LEMMA LookupStep ==
    ASSUME Inv, NEW g \in Grant, LookupAnswered(g)
    PROVE  Inv'
  <1>1. TypeOK /\ Refreshes /\ Holders /\ InTurn /\ SavedIsCurrent
    BY DEF Inv
  <1>2. /\ g \in lookups /\ lookups' = lookups \ {g}
        /\ CreateAccount(g, pending)
        /\ overlapped' = (overlapped \/ lookups # {g} \/ refreshes # << >>)
        /\ UNCHANGED <<flow, inProgress, bare, refreshes, requests, kick, lost, bounds>>
    BY DEF LookupAnswered
  <1>3. pending \in Grant \cup {0} /\ 0 \notin Grant
    BY <1>1, Bounds DEF TypeOK
  <1>4. /\ accounts' \in Seq(Account) /\ Len(accounts') = Len(accounts) + 1
        /\ current' = Len(accounts) + 1 /\ pending' = 0
        /\ DOMAIN accounts' = DOMAIN accounts \cup {current'}
        /\ current' \notin DOMAIN accounts
        /\ \A b \in DOMAIN accounts : accounts'[b] = accounts[b]
        /\ accounts'[current'].user = g
        /\ accounts'[current'].tokens =
               IF pending = 0 THEN NoTokens ELSE [grant |-> pending, renewals |-> 0]
        /\ saved' = [user |-> g, tokens |-> accounts'[current'].tokens]
        /\ saved' \in Saved
        /\ Refreshes'
    BY <1>1, <1>2, <1>3, LoginEffect
  <1>5. TypeOK'
    <2>1. Len(accounts) \in Nat
      BY <1>1, Positions
    <2>2. current' \in 0..Len(accounts') /\ pending' \in Grant \cup {0}
      BY <1>4, <2>1
    <2>3. overlapped' \in BOOLEAN
      BY <1>1, <1>2 DEF TypeOK
    <2>4. lookups' \subseteq Grant
      BY <1>1, <1>2 DEF TypeOK
    <2>5. accounts' \in Seq(Account) /\ saved' \in Saved
      BY <1>4
    <2> QED
      BY <1>1, <1>2, <2>2, <2>3, <2>4, <2>5 DEF TypeOK, bounds
  <1>6. Holders'
    <2>1. accounts'[current'].tokens # NoTokens =>
              /\ pending # 0
              /\ accounts'[current'].tokens.grant = pending
              /\ accounts'[current'].tokens.renewals = 0
      BY <1>4
    <2>2. accounts'[current'].tokens = NoTokens \/ accounts'[current'].tokens.grant = pending
      BY <1>4
    <2>3. HeldOnce'
      <3>1. \A b \in DOMAIN accounts : pending # 0 => accounts[b].tokens.grant # pending
        BY <1>1 DEF Holders, PendingIsNew
      <3>2. ASSUME NEW b \in DOMAIN accounts, accounts[b].tokens # NoTokens
            PROVE  accounts[b].tokens.grant # accounts'[current'].tokens.grant
        <4>1. accounts[b].tokens.grant \in Grant
          BY <1>1, <3>2, Positions DEF Account, Tokens
        <4> QED
          BY <1>3, <1>4, <3>1, <4>1, NoTokensDiffer
      <3> QED
        BY <1>1, <1>4, <2>1, <3>1, <3>2 DEF Holders, HeldOnce
    <2>4. Newest(accounts[current].tokens)' /\ Newest(saved.tokens)'
      BY <1>1, <1>2, <1>4, <2>1 DEF Newest, Holders, PendingIsNew
    <2>5. \A b \in DOMAIN accounts : Newest(accounts[b].tokens)'
      BY <1>1, <1>2, <1>4 DEF Newest, Holders, AllAreNewest
    <2>6. PendingIsNew' /\ SavedHasUser'
      BY <1>3, <1>4 DEF PendingIsNew, SavedHasUser
    <2> QED
      BY <1>4, <2>3, <2>4, <2>5, <2>6 DEF Holders, AllAreNewest
  <1>7. ~overlapped' => ~overlapped /\ lookups = {g} /\ refreshes = << >>
    BY <1>2
  <1>8. InTurn'
    <2>1. SUFFICES ASSUME ~overlapped'
                   PROVE  /\ \A i \in DOMAIN refreshes' : refreshes'[i].account = current'
                          /\ lookups' \subseteq {pending'}
                          /\ \A a \in DOMAIN accounts' : accounts'[a].tokens # NoTokens
      BY DEF InTurn
    <2>2. DOMAIN refreshes' = {} /\ lookups' = {}
      BY <1>2, <1>7, <2>1
    <2>3. pending = g
      BY <1>1, <1>7, <2>1 DEF InTurn
    <2>4. accounts'[current'].tokens # NoTokens
      BY <1>3, <1>4, <2>3 DEF NoTokens
    <2>5. \A b \in DOMAIN accounts : accounts'[b].tokens # NoTokens
      BY <1>1, <1>4, <1>7, <2>1 DEF InTurn
    <2> QED
      BY <1>4, <2>2, <2>4, <2>5
  <1>9. SavedIsCurrent'
    <2>1. current' # 0
      BY <1>1, <1>4, Positions
    <2> QED
      BY <1>4, <2>1 DEF SavedIsCurrent
  <1> QED
    BY <1>4, <1>5, <1>6, <1>8, <1>9 DEF Inv

LEMMA LogoutStep ==
    ASSUME Inv, Logout
    PROVE  Inv'
  <1>1. TypeOK /\ Refreshes /\ Holders /\ InTurn /\ SavedIsCurrent
    BY DEF Inv
  <1>2. /\ current' = 0 /\ saved' = Nothing
        /\ overlapped' = (overlapped \/ lookups # {} \/ refreshes # << >>)
        /\ UNCHANGED <<login, accounts, refreshes, requests, kick, lost, bounds>>
    BY DEF Logout
  <1>3. TypeOK'
    <2>1. current' \in 0..Len(accounts')
      BY <1>1, <1>2, Positions
    <2>2. overlapped' \in BOOLEAN
      BY <1>1, <1>2 DEF TypeOK
    <2>3. saved' \in Saved
      BY <1>2 DEF Nothing, Saved
    <2> QED
      BY <1>1, <1>2, <2>1, <2>2, <2>3 DEF TypeOK, bounds, login
  <1>4. Refreshes'
    BY <1>1, <1>2 DEF Refreshes, RefreshesFit, OneEach, FlagIsTrue, RequestsFit, MayRetry
  <1>5. Holders'
    BY <1>1, <1>2, HoldersStay DEF login
  <1>6. ~overlapped' => ~overlapped /\ refreshes = << >>
    BY <1>2
  <1>7. InTurn'
    BY <1>1, <1>2, <1>6 DEF InTurn, login
  <1>8. SavedIsCurrent'
    BY <1>2 DEF SavedIsCurrent
  <1> QED
    BY <1>3, <1>4, <1>5, <1>7, <1>8 DEF Inv

\* The program starts again with what was saved.
LEMMA RestartStep ==
    ASSUME Inv, Restart
    PROVE  Inv'
  <1>1. TypeOK /\ Refreshes /\ Holders /\ InTurn /\ SavedIsCurrent
    BY DEF Inv
  <1>2. /\ restarts < MaxRestarts /\ restarts' = restarts + 1
        /\ flow' = "none" /\ inProgress' = FALSE /\ pending' = 0 /\ lookups' = {}
        /\ refreshes' = << >>
        /\ requests' = [r \in Request |->
                           IF requests[r].stage \in {"sent", "waiting"}
                           THEN [stage |-> "idle", account |-> 0] ELSE requests[r]]
        /\ UNCHANGED <<bare, saved, kick, overlapped, errors>>
        /\ lost' = lost \cup {refreshes[i].tokens.grant : i \in DOMAIN refreshes}
    BY DEF Restart
  <1>3. saved \in Saved /\ requests \in [Request -> Call] /\ 0 \notin Grant
    BY <1>1, Bounds DEF TypeOK
  <1>4. /\ accounts' \in Seq(Account) /\ current' \in 0..Len(accounts')
        /\ \A a \in DOMAIN accounts' : /\ a = 1 /\ current' = 1
                                       /\ accounts'[a].tokens = saved.tokens
                                       /\ accounts'[a].user = saved.user
                                       /\ saved.tokens # NoTokens
                                       /\ ~accounts'[a].isRefreshing
        /\ saved.tokens # NoTokens => 1 \in DOMAIN accounts' /\ current' = 1
        /\ saved.tokens = NoTokens => current' = 0
    <2>1. CASE saved.tokens = NoTokens /\ accounts' = << >> /\ current' = 0
      <3>1. << >> \in Seq(Account) /\ Len(<< >>) = 0 /\ DOMAIN accounts' = {}
        BY <2>1, EmptySeq
      <3> QED
        BY <2>1, <3>1
    <2>2. ASSUME saved.tokens # NoTokens, current' = 1, NEW expired \in BOOLEAN,
                 accounts' = <<[user |-> saved.user, tokens |-> saved.tokens,
                                expired |-> expired, isRefreshing |-> FALSE]>>
          PROVE  /\ accounts' \in Seq(Account) /\ current' \in 0..Len(accounts')
                 /\ DOMAIN accounts' = {1}
                 /\ accounts'[1].tokens = saved.tokens
                 /\ accounts'[1].user = saved.user
                 /\ ~accounts'[1].isRefreshing
      <3> DEFINE new == [user |-> saved.user, tokens |-> saved.tokens,
                         expired |-> expired, isRefreshing |-> FALSE]
      <3>1. saved.user \in Grant /\ saved.tokens \in Tokens \cup {NoTokens}
        BY <1>1, <1>3, <2>2 DEF Holders, SavedHasUser, Saved
      <3>2. /\ new \in Account /\ new.tokens = saved.tokens /\ new.user = saved.user
            /\ ~new.isRefreshing
        BY <3>1 DEF Account
      <3>3. accounts' = <<new>>
        BY <2>2
      <3> HIDE DEF new
      <3>4. /\ accounts' \in Seq(Account) /\ Len(accounts') = 1 /\ DOMAIN accounts' = {1}
            /\ accounts'[1] = new
        BY <3>2, <3>3
      <3> QED
        BY <2>2, <3>2, <3>4
    <2> QED
      BY <2>1, <2>2 DEF Restart
  <1>5. refreshes' \in Seq(Refresh) /\ DOMAIN refreshes' = {}
    BY <1>2, EmptySeq
  <1>6. requests' \in [Request -> Call]
    BY <1>2, <1>3 DEF Call
  <1>7. TypeOK'
    <2>1. restarts' \in 0..MaxRestarts
      BY <1>1, <1>2, Bounds DEF TypeOK
    <2>2. lost' \subseteq Grant
      <3>1. \A i \in DOMAIN refreshes : refreshes[i].tokens.grant \in Grant
        BY <1>1, Positions DEF Refresh, Tokens
      <3>2. lost \subseteq Grant
        BY <1>1 DEF TypeOK
      <3> QED
        BY <1>2, <3>1, <3>2
    <2>3. /\ flow' \in {"none", "browser", "exchange"} /\ inProgress' \in BOOLEAN
          /\ pending' \in Grant \cup {0} /\ lookups' \subseteq Grant
          /\ bare' \subseteq Grant
      BY <1>1, <1>2 DEF TypeOK
    <2>4. /\ saved' \in Saved /\ kick' \in [Grant -> 0..(MaxRenewals + 1)]
          /\ overlapped' \in BOOLEAN /\ errors' \in 0..MaxErrors
      BY <1>1, <1>2 DEF TypeOK
    <2>5. refreshes' \in Seq([account : Nat, attempt : 0..MAX_REFRESH_RETRIES,
                              stage : {"asked", "backoff"}, tokens : Tokens])
      BY <1>5 DEF Refresh
    <2> QED
      BY <1>4, <1>6, <2>1, <2>2, <2>3, <2>4, <2>5 DEF TypeOK
  <1>8. Refreshes'
    <2>1. \A r \in Request : requests'[r].stage \notin {"sent", "waiting"}
      BY <1>2
    <2> QED
      BY <1>4, <1>5, <2>1 DEF Refreshes, RefreshesFit, OneEach, FlagIsTrue, RequestsFit
  <1>9. Holders'
    <2>1. Newest(saved.tokens)'
      BY <1>1, <1>2 DEF Holders, AllAreNewest, Newest
    <2>2. HeldOnce' /\ PendingIsNew' /\ SavedHasUser'
      BY <1>1, <1>2, <1>4 DEF Holders, HeldOnce, PendingIsNew, SavedHasUser
    <2>3. AllAreNewest'
      BY <1>2, <1>4, <2>1 DEF AllAreNewest, Newest
    <2> QED
      BY <2>2, <2>3 DEF Holders
  <1>10. InTurn'
    BY <1>2, <1>4, <1>5 DEF InTurn
  <1>11. SavedIsCurrent'
    <2>1. ASSUME ~overlapped, saved.tokens = NoTokens
          PROVE  saved = Nothing
      <3>1. current = 0 \/ current \in DOMAIN accounts
        BY <1>1, Positions DEF TypeOK
      <3>2. current # 0 => saved.tokens = accounts[current].tokens
        BY <1>1, <2>1 DEF SavedIsCurrent
      <3>3. current = 0
        BY <1>1, <2>1, <3>1, <3>2 DEF InTurn
      <3> QED
        BY <1>1, <2>1, <3>3 DEF SavedIsCurrent
    <2>2. ASSUME saved.tokens # NoTokens
          PROVE  /\ current' # 0
                 /\ saved' = [user |-> accounts'[current'].user,
                              tokens |-> accounts'[current'].tokens]
      <3>1. current' = 1 /\ accounts'[1].tokens = saved.tokens /\ accounts'[1].user = saved.user
        BY <1>4, <2>2
      <3>2. saved = [user |-> saved.user, tokens |-> saved.tokens]
        BY <1>3 DEF Saved
      <3> QED
        BY <1>2, <3>1, <3>2
    <2> QED
      BY <1>2, <1>4, <2>1, <2>2 DEF SavedIsCurrent
  <1> QED
    BY <1>7, <1>8, <1>9, <1>10, <1>11 DEF Inv

\* Requests change no account unless they are refused with 401.
LEMMA CallStep ==
    ASSUME Inv, NEW r \in Request,
           RequestAnswered(r) \/ \E a \in DOMAIN accounts : CallApi(r, a)
    PROVE  Inv'
  <1>1. TypeOK /\ Refreshes /\ Holders /\ InTurn /\ SavedIsCurrent
    BY DEF Inv
  <1>2. requests \in [Request -> Call]
    BY <1>1 DEF TypeOK
  <1>3. UNCHANGED <<login, accounts, current, refreshes, saved, kick, lost, overlapped, bounds>>
    BY DEF RequestAnswered, CallApi
  <1>4. requests' \in [Request -> Call] /\ Refreshes'
    <2>1. CASE RequestAnswered(r)
      <3> DEFINE new == [requests[r] EXCEPT !.stage = "answered"]
      <3>1. new \in Call /\ new.stage = "answered"
        BY <1>2 DEF Call
      <3>2. requests' = [requests EXCEPT ![r] = new]
        BY <2>1 DEF RequestAnswered
      <3> HIDE DEF new
      <3> QED
        BY <1>1, <1>3, <3>1, <3>2, RequestMoves
    <2>2. ASSUME NEW a \in DOMAIN accounts, CallApi(r, a)
          PROVE  requests' \in [Request -> Call] /\ Refreshes'
      <3> DEFINE new == [stage |-> IF isAuthenticated(a) THEN "sent" ELSE "refused", account |-> a]
      <3>1. a \in Nat
        BY <1>1, Positions
      <3>2. new \in Call /\ new.stage \in {"sent", "refused"} /\ new.account = a
        BY <3>1 DEF Call
      <3>3. new.stage = "sent" => accounts[a].tokens # NoTokens
        BY DEF isAuthenticated
      <3>4. requests' = [requests EXCEPT ![r] = new]
        BY <2>2 DEF CallApi
      <3> HIDE DEF new
      <3> QED
        BY <1>1, <1>3, <3>2, <3>3, <3>4, RequestMoves
    <2> QED
      BY <2>1, <2>2
  <1>5. TypeOK'
    BY <1>1, <1>3, <1>4 DEF TypeOK, login, bounds
  <1>6. Holders'
    BY <1>1, <1>3, HoldersStay DEF login
  <1>7. InTurn' /\ SavedIsCurrent'
    BY <1>1, <1>3, TurnsStay DEF login
  <1> QED
    BY <1>4, <1>5, <1>6, <1>7 DEF Inv

LEMMA ErrorCounts ==
    ASSUME TypeOK, Error
    PROVE  errors' \in 0..MaxErrors /\ restarts' = restarts
  BY Bounds DEF TypeOK, Error

LEMMA UnauthorizedStep ==
    ASSUME Inv, NEW r \in Request, Unauthorized(r)
    PROVE  Inv'
  <1>1. TypeOK /\ Refreshes /\ Holders /\ InTurn /\ SavedIsCurrent
    BY DEF Inv
  <1>2. /\ requests[r].stage = "sent"
        /\ RefreshAndRetry(requests[r].account, r)
        /\ overlapped' = (overlapped \/ requests[r].account # current)
        /\ UNCHANGED <<login, current, saved, kick, lost>>
        /\ errors' \in 0..MaxErrors /\ restarts' = restarts
    BY <1>1, ErrorCounts DEF Unauthorized
  <1>3. /\ accounts' \in Seq(Account) /\ Len(accounts') = Len(accounts)
        /\ DOMAIN accounts' = DOMAIN accounts
        /\ \A b \in DOMAIN accounts : /\ accounts'[b].tokens = accounts[b].tokens
                                      /\ accounts'[b].user = accounts[b].user
        /\ refreshes' \in Seq(Refresh)
        /\ \A i \in DOMAIN refreshes' :
               \/ i \in DOMAIN refreshes /\ refreshes'[i] = refreshes[i]
               \/ refreshes'[i].account = requests[r].account
        /\ requests' \in [Request -> Call]
        /\ Refreshes'
    BY <1>1, <1>2, RefreshAsked
  <1>4. overlapped' \in BOOLEAN
    BY <1>1, <1>2 DEF TypeOK
  <1>5. TypeOK'
    BY <1>1, <1>2, <1>3, <1>4 DEF TypeOK, login, Refresh
  <1>6. Holders'
    BY <1>1, <1>2, <1>3, HoldersStay DEF login
  <1>7. ~overlapped' => requests[r].account = current
    BY <1>2
  <1>8. overlapped => overlapped'
    BY <1>2
  <1>9. InTurn' /\ SavedIsCurrent'
    BY <1>1, <1>2, <1>3, <1>7, <1>8, TurnsStay DEF login
  <1> QED
    BY <1>3, <1>5, <1>6, <1>9 DEF Inv

\* A refresh that is under way has tokens.
LEMMA RefreshHasTokens ==
    ASSUME TypeOK, Refreshes, NEW i \in DOMAIN refreshes
    PROVE  /\ refreshes[i] \in Refresh
           /\ refreshes[i].account \in DOMAIN accounts
           /\ refreshes[i].tokens = accounts[refreshes[i].account].tokens
           /\ refreshes[i].tokens \in Tokens
           /\ refreshes[i].tokens # NoTokens
           /\ accounts[refreshes[i].account] \in Account
  <1>1. refreshes[i] \in Refresh /\ refreshes[i].account \in DOMAIN accounts
        /\ refreshes[i].tokens = accounts[refreshes[i].account].tokens
    BY Positions DEF Refreshes, RefreshesFit
  <1>2. refreshes[i].tokens \in Tokens
    BY <1>1 DEF Refresh
  <1> QED
    BY <1>1, <1>2, Positions, NoTokensDiffer

LEMMA RefreshSucceedsStep ==
    ASSUME Inv, NEW i \in DOMAIN refreshes, RefreshSucceeds(i)
    PROVE  Inv'
  <1> DEFINE a == refreshes[i].account
             tokens == refreshes[i].tokens
             next == [tokens EXCEPT !.renewals = @ + 1]
             Rotated == Renewable(tokens) /\ kick' = [kick EXCEPT ![tokens.grant] = @ + 1]
  <1>1. TypeOK /\ Refreshes /\ Holders /\ InTurn /\ SavedIsCurrent
    BY DEF Inv
  <1>2. /\ a \in DOMAIN accounts /\ tokens \in Tokens /\ tokens = accounts[a].tokens
        /\ accounts[a] \in Account
    BY <1>1, RefreshHasTokens
  \* the tokens the account gets: the next ones, or those it has
  <1>3. PICK got :
            /\ \/ Rotated /\ got = next
               \/ UNCHANGED kick /\ got = tokens
            /\ accounts' = [accounts EXCEPT ![a].tokens = got,
                                            ![a].expired = FALSE, ![a].isRefreshing = FALSE]
    BY DEF RefreshSucceeds
  <1>4. /\ Save(a)
        /\ refreshes' = RemoveAt(refreshes, i)
        /\ Told(a, "sent")
        /\ UNCHANGED <<login, current, lost, overlapped, bounds>>
    BY DEF RefreshSucceeds
  <1>5. /\ tokens.grant \in Grant /\ tokens.renewals \in Nat
        /\ Rotated => kick[tokens.grant] = tokens.renewals + 1 /\ tokens.renewals < MaxRenewals
    BY <1>2, Bounds DEF Renewable, Accepted, Tokens
  <1>6. got \in Tokens /\ got # NoTokens
    <2>1. Rotated => next \in Tokens
      BY <1>2, <1>5, Bounds DEF Tokens
    <2> QED
      BY <1>2, <1>3, <2>1, NoTokensDiffer
  <1> DEFINE new == [accounts[a] EXCEPT !.tokens = got, !.expired = FALSE, !.isRefreshing = FALSE]
  <1>7. /\ new \in Account /\ new.tokens = got /\ ~new.isRefreshing
        /\ new.user = accounts[a].user
    BY <1>2, <1>6 DEF Account
  <1>8. accounts' = [accounts EXCEPT ![a] = new]
    BY <1>1, <1>2, <1>3, Positions
  <1> HIDE DEF new, next, Rotated
  <1>9. /\ accounts' \in Seq(Account) /\ Len(accounts') = Len(accounts)
        /\ DOMAIN accounts' = DOMAIN accounts
        /\ accounts'[a] = new
        /\ \A b \in DOMAIN accounts : b # a => accounts'[b] = accounts[b]
    BY <1>1, <1>2, <1>7, <1>8, OneChanges
  <1>10. /\ refreshes' \in Seq(Refresh)
         /\ requests' \in [Request -> Call]
         /\ Refreshes'
    BY <1>1, <1>4, <1>6, <1>7, <1>8, RefreshEnds
  <1>11. /\ \A j \in DOMAIN refreshes' : \E k \in DOMAIN refreshes : refreshes'[j] = refreshes[k]
    BY <1>1, <1>4, OthersStay DEF Refreshes
  <1>12. saved' = [user |-> accounts[a].user, tokens |-> got]
    BY <1>4, <1>7, <1>9 DEF Save
  <1>13. TypeOK'
    <2>1. saved' \in Saved
      BY <1>2, <1>6, <1>12 DEF Saved, Account
    <2>2. kick' \in [Grant -> 0..(MaxRenewals + 1)]
      <3>1. kick \in [Grant -> 0..(MaxRenewals + 1)]
        BY <1>1 DEF TypeOK
      <3>2. ASSUME Rotated PROVE kick[tokens.grant] + 1 \in 0..(MaxRenewals + 1)
        <4>1. kick[tokens.grant] = tokens.renewals + 1 /\ tokens.renewals < MaxRenewals
          BY <1>5, <3>2
        <4> QED
          BY <1>5, <4>1, Bounds
      <3> QED
        BY <1>3, <3>1, <3>2 DEF Rotated
    <2> QED
      BY <1>1, <1>4, <1>9, <1>10, <2>1, <2>2 DEF TypeOK, login, bounds, Refresh
  <1>14. Holders'
    <2>1. accounts'[a].user \in Grant
      BY <1>2, <1>7, <1>9 DEF Account
    <2>2. UNCHANGED <<pending, lost>>
      BY <1>4 DEF login
    <2>3. CASE Rotated /\ got = next
      <3>1. accounts'[a].tokens = [tokens EXCEPT !.renewals = @ + 1]
        BY <1>7, <1>9, <2>3 DEF next
      <3>2. kick' = [kick EXCEPT ![tokens.grant] = @ + 1]
        BY <2>3 DEF Rotated
      <3> QED
        BY <1>1, <1>2, <1>4, <1>5, <1>9, <2>1, <2>2, <2>3, <3>1, <3>2, HoldersRenewed
    <2>4. CASE UNCHANGED kick /\ got = tokens
      <3>1. \A b \in DOMAIN accounts : accounts'[b].tokens = accounts[b].tokens
        BY <1>2, <1>7, <1>9, <2>4
      <3>2. saved'.tokens = accounts[a].tokens /\ saved'.user # 0
        <4>1. accounts[a].user # 0
          BY <1>2, Bounds DEF Account
        <4> QED
          BY <1>2, <1>12, <2>4, <4>1
      <3>3. HeldOnce' /\ SavedHasUser'
        BY <1>1, <1>9, <3>1, <3>2 DEF Holders, HeldOnce, SavedHasUser
      <3>4. AllAreNewest' /\ PendingIsNew'
        BY <1>1, <1>2, <1>9, <2>2, <2>4, <3>1, <3>2
           DEF Holders, AllAreNewest, Newest, PendingIsNew
      <3> QED
        BY <3>3, <3>4 DEF Holders
    <2> QED
      BY <1>3, <2>3, <2>4
  <1>15. InTurn'
    <2>1. \A b \in DOMAIN accounts : accounts[b].tokens # NoTokens => accounts'[b].tokens # NoTokens
      BY <1>6, <1>7, <1>9
    <2> QED
      BY <1>1, <1>4, <1>9, <1>11, <2>1 DEF InTurn, login
  <1>16. SavedIsCurrent'
    <2>1. ~overlapped => current = a /\ a # 0
      BY <1>1, <1>2, Positions DEF InTurn
    <2> QED
      BY <1>4, <1>7, <1>9, <1>12, <2>1 DEF SavedIsCurrent
  <1> QED
    BY <1>10, <1>13, <1>14, <1>15, <1>16 DEF Inv

\* An answer that is lost: what Kick did is seen by nobody.
LEMMA LostEffect ==
    ASSUME TypeOK, Refreshes, NEW i \in DOMAIN refreshes, AnswerLost(refreshes[i].tokens)
    PROVE  /\ errors' \in 0..MaxErrors /\ restarts' = restarts
           /\ \/ UNCHANGED <<kick, lost>>
              \/ \E a \in DOMAIN accounts : accounts[a].tokens # NoTokens /\ Unanswered(a)
           /\ kick' \in [Grant -> 0..(MaxRenewals + 1)]
           /\ lost' \subseteq Grant
  <1> DEFINE a == refreshes[i].account
             tokens == refreshes[i].tokens
  <1>1. /\ a \in DOMAIN accounts /\ tokens = accounts[a].tokens
        /\ tokens \in Tokens /\ tokens # NoTokens
    BY RefreshHasTokens
  <1>2. kick \in [Grant -> 0..(MaxRenewals + 1)] /\ lost \subseteq Grant
    BY DEF TypeOK
  <1>3. errors' \in 0..MaxErrors /\ restarts' = restarts
    BY ErrorCounts DEF AnswerLost
  <1>4. CASE UNCHANGED <<kick, lost>>
    BY <1>2, <1>3, <1>4
  <1>5. CASE /\ Renewable(tokens)
             /\ kick' = [kick EXCEPT ![tokens.grant] = @ + 1]
             /\ lost' = lost \cup {tokens.grant}
    <2>1. Unanswered(a)
      BY <1>1, <1>5 DEF Unanswered
    <2>2. tokens.grant \in Grant /\ kick[tokens.grant] + 1 \in 0..(MaxRenewals + 1)
      BY <1>1, <1>5, Bounds DEF Renewable, Accepted, Tokens
    <2>3. kick' \in [Grant -> 0..(MaxRenewals + 1)] /\ lost' \subseteq Grant
      BY <1>2, <1>5, <2>2
    <2> QED
      BY <1>1, <1>3, <2>1, <2>3
  <1> QED
    BY <1>4, <1>5 DEF AnswerLost

\* The end of a refresh without new tokens
LEMMA RefreshFailsEffect ==
    ASSUME TypeOK, Refreshes, NEW i \in DOMAIN refreshes, RefreshFails(i)
    PROVE  /\ accounts' \in Seq(Account) /\ Len(accounts') = Len(accounts)
           /\ DOMAIN accounts' = DOMAIN accounts
           /\ \A b \in DOMAIN accounts : /\ accounts'[b].tokens = accounts[b].tokens
                                         /\ accounts'[b].user = accounts[b].user
           /\ refreshes' \in Seq(Refresh)
           /\ \A j \in DOMAIN refreshes' :
                  \E k \in DOMAIN refreshes : refreshes'[j].account = refreshes[k].account
           /\ requests' \in [Request -> Call]
           /\ Refreshes'
  <1> DEFINE a == refreshes[i].account
             new == [accounts[a] EXCEPT !.isRefreshing = FALSE]
  <1>1. /\ a \in DOMAIN accounts /\ accounts[a] \in Account
        /\ accounts[a].tokens # NoTokens
    BY RefreshHasTokens
  <1>2. /\ new \in Account /\ ~new.isRefreshing /\ new.tokens = accounts[a].tokens
        /\ new.user = accounts[a].user
    BY <1>1 DEF Account
  <1>3. /\ accounts' = [accounts EXCEPT ![a] = new]
        /\ refreshes' = RemoveAt(refreshes, i)
        /\ Told(a, "dropped")
    BY DEF RefreshFails
  <1> HIDE DEF new
  <1>4. /\ accounts' \in Seq(Account) /\ Len(accounts') = Len(accounts)
        /\ DOMAIN accounts' = DOMAIN accounts
        /\ \A b \in DOMAIN accounts : /\ accounts'[b].tokens = accounts[b].tokens
                                      /\ accounts'[b].user = accounts[b].user
    BY <1>1, <1>2, <1>3, OneChanges
  <1>5. refreshes' \in Seq(Refresh) /\ requests' \in [Request -> Call] /\ Refreshes'
    BY <1>1, <1>2, <1>3, RefreshEnds
  <1>6. \A j \in DOMAIN refreshes' :
            \E k \in DOMAIN refreshes : refreshes'[j].account = refreshes[k].account
    BY <1>3, OthersStay DEF Refreshes
  <1> QED
    BY <1>4, <1>5, <1>6

\* A refresh goes on to its retry, or makes it: the account waits.
LEMMA RefreshContinues ==
    ASSUME TypeOK, Refreshes, NEW i \in DOMAIN refreshes,
           UNCHANGED <<accounts, requests>>,
           \/ /\ refreshes' = [refreshes EXCEPT ![i].stage = "backoff"]
              /\ MayRetry(refreshes[i].attempt)
           \/ /\ refreshes' = [refreshes EXCEPT ![i] = Asked(@.account, @.attempt + 1)]
              /\ refreshes[i].stage = "backoff"
    PROVE  /\ refreshes' \in Seq(Refresh)
           /\ \A j \in DOMAIN refreshes' :
                  \E k \in DOMAIN refreshes : refreshes'[j].account = refreshes[k].account
           /\ Refreshes'
  <1> DEFINE a == refreshes[i].account
             waits == [refreshes[i] EXCEPT !.stage = "backoff"]
             asks == Asked(a, refreshes[i].attempt + 1)
  <1>1. /\ refreshes[i] \in Refresh /\ a \in DOMAIN accounts
        /\ refreshes[i].tokens = accounts[a].tokens
    BY RefreshHasTokens
  <1>2. ASSUME NEW new \in Refresh, new.account = a, new.tokens = refreshes[i].tokens,
               new.stage = "backoff" => MayRetry(new.attempt),
               refreshes' = [refreshes EXCEPT ![i] = new]
        PROVE  /\ refreshes' \in Seq(Refresh)
               /\ \A j \in DOMAIN refreshes' :
                      \E k \in DOMAIN refreshes : refreshes'[j].account = refreshes[k].account
               /\ Refreshes'
    <2>1. refreshes' \in Seq(Refresh) /\ Refreshes'
      BY <1>2, RefreshGoesOn
    <2>2. \A j \in DOMAIN refreshes' : j \in DOMAIN refreshes
                                       /\ refreshes'[j].account = refreshes[j].account
      BY <1>2
    <2> QED
      BY <2>1, <2>2
  <1>3. CASE /\ refreshes' = [refreshes EXCEPT ![i].stage = "backoff"]
             /\ MayRetry(refreshes[i].attempt)
    <2>1. /\ waits \in Refresh /\ waits.account = a /\ waits.tokens = refreshes[i].tokens
          /\ waits.attempt = refreshes[i].attempt
      BY <1>1 DEF Refresh
    <2>2. refreshes' = [refreshes EXCEPT ![i] = waits]
      BY <1>3
    <2> HIDE DEF waits
    <2> QED
      BY <1>2, <1>3, <2>1, <2>2
  <1>4. CASE /\ refreshes' = [refreshes EXCEPT ![i] = Asked(@.account, @.attempt + 1)]
             /\ refreshes[i].stage = "backoff"
    <2>1. refreshes[i].attempt < MAX_REFRESH_RETRIES
      BY <1>4 DEF Refreshes, RefreshesFit, MayRetry
    <2>2. /\ asks \in Refresh /\ asks.account = a /\ asks.tokens = refreshes[i].tokens
          /\ asks.stage = "asked"
      BY <1>1, <2>1, Bounds DEF Asked, Refresh
    <2>3. refreshes' = [refreshes EXCEPT ![i] = asks]
      BY <1>4
    <2> HIDE DEF asks
    <2> QED
      BY <1>2, <2>2, <2>3
  <1> QED
    BY <1>3, <1>4

\* Failures and retries of a refresh
LEMMA RefreshStep ==
    ASSUME Inv, NEW i \in DOMAIN refreshes,
           RefreshTransient(i) \/ RetryTimeout(i) \/ RefreshRefused(i)
    PROVE  Inv'
  <1>1. TypeOK /\ Refreshes /\ Holders /\ InTurn /\ SavedIsCurrent
    BY DEF Inv
  <1>2. UNCHANGED <<login, current, saved, overlapped>>
    BY DEF RefreshTransient, RetryTimeout, RefreshRefused
  <1>3. /\ errors' \in 0..MaxErrors /\ restarts' = restarts
        /\ \/ UNCHANGED <<kick, lost>>
           \/ \E a \in DOMAIN accounts : accounts[a].tokens # NoTokens /\ Unanswered(a)
        /\ kick' \in [Grant -> 0..(MaxRenewals + 1)]
        /\ lost' \subseteq Grant
    <2>1. AnswerLost(refreshes[i].tokens) \/ UNCHANGED <<kick, lost, bounds>>
      BY DEF RefreshTransient, RetryTimeout, RefreshRefused
    <2>2. CASE UNCHANGED <<kick, lost, bounds>>
      BY <1>1, <2>2 DEF TypeOK, bounds
    <2> QED
      BY <1>1, <2>1, <2>2, LostEffect
  <1>4. /\ accounts' \in Seq(Account) /\ Len(accounts') = Len(accounts)
        /\ DOMAIN accounts' = DOMAIN accounts
        /\ \A b \in DOMAIN accounts : /\ accounts'[b].tokens = accounts[b].tokens
                                      /\ accounts'[b].user = accounts[b].user
        /\ refreshes' \in Seq(Refresh)
        /\ \A j \in DOMAIN refreshes' :
               \E k \in DOMAIN refreshes : refreshes'[j].account = refreshes[k].account
        /\ requests' \in [Request -> Call]
        /\ Refreshes'
    <2>1. CASE RefreshFails(i)
      BY <1>1, <2>1, RefreshFailsEffect
    <2>2. CASE ~RefreshFails(i)
      <3>1. /\ UNCHANGED <<accounts, requests>>
            /\ \/ /\ refreshes' = [refreshes EXCEPT ![i].stage = "backoff"]
                  /\ MayRetry(refreshes[i].attempt)
               \/ /\ refreshes' = [refreshes EXCEPT ![i] = Asked(@.account, @.attempt + 1)]
                  /\ refreshes[i].stage = "backoff"
        BY <2>2 DEF RefreshTransient, RetryTimeout, RefreshRefused
      <3> QED
        BY <1>1, <3>1, RefreshContinues DEF TypeOK
    <2> QED
      BY <2>1, <2>2
  <1>5. TypeOK'
    BY <1>1, <1>2, <1>3, <1>4 DEF TypeOK, login, Refresh
  <1>6. Holders'
    BY <1>1, <1>2, <1>3, <1>4, HoldersStay DEF login
  <1>7. InTurn' /\ SavedIsCurrent'
    BY <1>1, <1>2, <1>4, TurnsStay DEF login
  <1> QED
    BY <1>4, <1>5, <1>6, <1>7 DEF Inv

LEMMA NextInv == Inv /\ [Next]_vars => Inv'
  <1> SUFFICES ASSUME Inv, [Next]_vars
               PROVE  Inv'
    OBVIOUS
  <1>1. CASE StartLogin \/ BrowserReturns \/ FlowCancelled \/ ExchangeFails
    BY <1>1, FlowStep
  <1>2. CASE ExchangeSucceeds
    BY <1>2, ExchangeStep
  <1>3. CASE \E g \in Grant : LookupAnswered(g)
    BY <1>3, LookupStep
  <1>4. CASE Logout
    BY <1>4, LogoutStep
  <1>5. CASE Restart
    BY <1>5, RestartStep
  <1>6. CASE \E a \in DOMAIN accounts : TokenExpires(a)
    BY <1>6, TokenExpiresStep
  <1>7. CASE \E r \in Request : RequestAnswered(r) \/ \E a \in DOMAIN accounts : CallApi(r, a)
    BY <1>7, CallStep
  <1>8. CASE \E r \in Request : Unauthorized(r)
    BY <1>8, UnauthorizedStep
  <1>9. CASE \E i \in DOMAIN refreshes : RefreshSucceeds(i)
    BY <1>9, RefreshSucceedsStep
  <1>10. CASE \E i \in DOMAIN refreshes :
                  RefreshTransient(i) \/ RetryTimeout(i) \/ RefreshRefused(i)
    BY <1>10, RefreshStep
  <1>11. CASE UNCHANGED vars
    <2>1. TypeOK'
      BY <1>11 DEF Inv, TypeOK, vars, login, bounds
    <2>2. Refreshes'
      BY <1>11 DEF Inv, Refreshes, RefreshesFit, OneEach, FlagIsTrue, RequestsFit, MayRetry,
                   vars
    <2>3. Holders'
      BY <1>11 DEF Inv, Holders, HeldOnce, AllAreNewest, Newest, PendingIsNew, SavedHasUser,
                   vars, login
    <2>4. InTurn' /\ SavedIsCurrent'
      BY <1>11 DEF Inv, InTurn, SavedIsCurrent, vars, login
    <2> QED
      BY <2>1, <2>2, <2>3, <2>4 DEF Inv
  <1> QED
    BY <1>1, <1>2, <1>3, <1>4, <1>5, <1>6, <1>7, <1>8, <1>9, <1>10, <1>11
       DEF Next, Refreshed

LEMMA InvIsInvariant == Spec => []Inv
  <1> QED
    BY InitInv, NextInv, PTL DEF Spec
-----------------------------------------------------------------------------
(* The theorems. *)

\* Every variable keeps its type, for any number of logins, renewals and requests.
THEOREM TypeCorrect == Spec => []TypeOK
  <1>1. Inv => TypeOK
    BY DEF Inv
  <1> QED
    BY <1>1, InvIsInvariant, PTL

\* An account refreshes its tokens at most once at a time, its flag says so, and
\* whoever waits for tokens waits for a refresh (refreshAccessToken(),
\* refreshAndRetry()).
THEOREM OneRefresh == Spec => []WaitersHaveOneRefresh
  <1>1. ASSUME Inv PROVE WaitersHaveOneRefresh
    <2>1. TypeOK /\ Refreshes
      BY <1>1 DEF Inv
    <2>2. ASSUME NEW a \in DOMAIN accounts
          PROVE  Cardinality({i \in DOMAIN refreshes : refreshes[i].account = a}) =
                     IF accounts[a].isRefreshing THEN 1 ELSE 0
      <3>1. CASE accounts[a].isRefreshing
        <4>1. PICK i \in DOMAIN refreshes : refreshes[i].account = a
          BY <2>1, <3>1 DEF Refreshes, FlagIsTrue
        <4>2. {j \in DOMAIN refreshes : refreshes[j].account = a} = {i}
          BY <2>1, <4>1 DEF Refreshes, OneEach
        <4>3. Cardinality({i}) = 1
          BY FS_Singleton
        <4> QED
          BY <3>1, <4>2, <4>3
      <3>2. CASE ~accounts[a].isRefreshing
        <4>1. {j \in DOMAIN refreshes : refreshes[j].account = a} = {}
          BY <2>1, <3>2 DEF Refreshes, RefreshesFit
        <4>2. Cardinality({}) = 0
          BY FS_EmptySet
        <4> QED
          BY <3>2, <4>1, <4>2
      <3> QED
        BY <3>1, <3>2
    <2>3. \A r \in Request :
              requests[r].stage = "waiting" => accounts[requests[r].account].isRefreshing
      BY <2>1 DEF Refreshes, RequestsFit
    <2> QED
      BY <2>2, <2>3 DEF WaitersHaveOneRefresh
  <1> QED
    BY <1>1, InvIsInvariant, PTL

\* No refresh token is sent again after Kick took it, unless its answer was lost
\* (doRefreshAccessToken()).
THEOREM TokensUsedOnce == Spec => []RefreshTokensAreUsedOnce
  <1>1. ASSUME Inv PROVE RefreshTokensAreUsedOnce
    <2>1. TypeOK /\ Refreshes /\ Holders
      BY <1>1 DEF Inv
    <2>2. ASSUME NEW i \in DOMAIN refreshes, refreshes[i].tokens.grant \notin lost
          PROVE  kick[refreshes[i].tokens.grant] = refreshes[i].tokens.renewals + 1
      <3>1. refreshes[i].tokens # NoTokens /\ Newest(refreshes[i].tokens)
        BY <2>1, RefreshHasTokens DEF Holders, AllAreNewest
      <3> QED
        BY <2>2, <3>1 DEF Newest
    <2> QED
      BY <2>2 DEF RefreshTokensAreUsedOnce
  <1> QED
    BY <1>1, InvIsInvariant, PTL

\* What is saved is the current account with its newest tokens (saveToSettings(),
\* logout()), as long as nothing overlaps.
THEOREM SavedCurrent == Spec => []SavedIsCurrent
  <1>1. Inv => SavedIsCurrent
    BY DEF Inv
  <1> QED
    BY <1>1, InvIsInvariant, PTL
=============================================================================
