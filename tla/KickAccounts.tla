---------------------------- MODULE KickAccounts ----------------------------
(***************************************************************************)
(* Logging in to Kick (KickAccountManager, KickOAuthFlow), the tokens of   *)
(* the KickAccounts and how they are renewed, what is saved of them, and   *)
(* the requests of KickApi that wait for new tokens.                       *)
(*                                                                         *)
(* All of it runs in the GUI thread; every request is answered late.  Kick *)
(* is external: each login gives a grant, whose tokens are renewed with a  *)
(* refresh token that is good for once.  A grant also stands for the user  *)
(* who gave it.  An account object stays as long as a channel may use it.  *)
(***************************************************************************)
EXTENDS Naturals, Sequences, SequencesExt, FiniteSets

CONSTANTS
    Request,               \* calls of KickApi::sendMessage and the like
    MAX_REFRESH_RETRIES,
    MaxGrants,             \* bound: logins that succeed
    MaxRenewals,           \* bound: renewals of a grant
    MaxErrors,             \* bound: answers that are lost, and errors Kick has
    MaxRestarts            \* bound: restarts of the program

ASSUME AccountsAssumption ==
    /\ IsFiniteSet(Request)
    /\ {MAX_REFRESH_RETRIES, MaxGrants, MaxRenewals, MaxErrors, MaxRestarts} \subseteq Nat

Grant == 1..MaxGrants

\* What a grant is worth after a number of renewals; no grant is an empty token.
Tokens == [grant : Grant, renewals : 0..MaxRenewals]
NoTokens == [grant |-> 0, renewals |-> 0]

VARIABLES
    flow,        \* oauthFlow_: "none", in the "browser", or in "exchange" of the code
    inProgress,  \* isInProgress_ of the flow
    pending,     \* the grant of pendingTokens_, 0 when empty
    lookups,     \* grants whose user is asked for
    bare,        \* external: grants that came without a refresh token
    accounts,    \* the KickAccounts made so far
    current,     \* currentUser_, as a position in accounts, 0 for none
    refreshes,   \* doRefreshAccessToken(): requests and retry timers under way
    saved,       \* the user name and the tokens in the settings and the keychain
    requests,    \* the calls of KickApi
    kick,        \* external: renewals of each grant, 0 before it is given
    lost,        \* history: grants for which the answer to a renewal was lost
    overlapped,  \* history: a login or logout met another or a refresh that was under
                 \* way, or the tokens of an account that is not current were renewed
    errors, restarts   \* bounds: what happened so far

login == <<flow, inProgress, pending, lookups, bare>>
bounds == <<errors, restarts>>
vars == <<login, accounts, current, refreshes, saved, requests, kick, lost, overlapped, bounds>>

Account == [user : Grant, tokens : Tokens \cup {NoTokens}, expired : BOOLEAN,
            isRefreshing : BOOLEAN]
Saved == [user : Grant \cup {0}, tokens : Tokens \cup {NoTokens}]
Nothing == [user |-> 0, tokens |-> NoTokens]

\* A request is "sent", "waiting" for tokens, or over: "answered" by Kick, "refused"
\* before it was sent, or "dropped" after the tokens could not be renewed.
Call == [stage : {"idle", "sent", "waiting", "answered", "refused", "dropped"}, account : Nat]

Init ==
    /\ flow = "none" /\ inProgress = FALSE
    /\ pending = 0
    /\ lookups = {} /\ bare = {}
    /\ accounts = << >>
    /\ current = 0
    /\ refreshes = << >>
    /\ saved = Nothing
    /\ requests = [r \in Request |-> [stage |-> "idle", account |-> 0]]
    /\ kick = [g \in Grant |-> 0]
    /\ lost = {}
    /\ overlapped = FALSE
    /\ errors = 0 /\ restarts = 0

Error == errors < MaxErrors /\ errors' = errors + 1 /\ UNCHANGED restarts

isAuthenticated(a) == accounts[a].tokens # NoTokens /\ ~accounts[a].expired

isLoggedIn == current # 0 /\ isAuthenticated(current)

Given == {g \in Grant : kick[g] > 0}
-----------------------------------------------------------------------------
(* Logging in. *)

\* startLogin(): the button is there while nobody is logged in, also during a login;
\* the flow that was there is destroyed, and the answer it waits for with it.
StartLogin ==
    /\ ~isLoggedIn
    /\ flow' = "browser" /\ inProgress' = TRUE
    /\ UNCHANGED <<pending, lookups, bare, accounts, current, refreshes, saved, requests, kick,
                   lost, overlapped, bounds>>

\* The browser comes back with a code.
BrowserReturns ==
    /\ flow = "browser" /\ inProgress
    /\ flow' = "exchange"
    /\ UNCHANGED <<inProgress, pending, lookups, bare, accounts, current, refreshes, saved,
                   requests, kick, lost, overlapped, bounds>>

\* cancel(): the browser comes back with an error or not in time; a code that is
\* being exchanged is exchanged all the same.
FlowCancelled ==
    /\ inProgress /\ inProgress' = FALSE
    /\ flow' = IF flow = "browser" THEN "none" ELSE flow
    /\ UNCHANGED <<pending, lookups, bare, accounts, current, refreshes, saved, requests, kick,
                   lost, overlapped, bounds>>

ExchangeFails ==
    /\ flow = "exchange"
    /\ flow' = "none" /\ inProgress' = FALSE
    /\ UNCHANGED <<pending, lookups, bare, accounts, current, refreshes, saved, requests, kick,
                   lost, overlapped, bounds>>

\* createAccountWithUsername(): the account gets the pending tokens, is saved and
\* becomes the current one.
CreateAccount(user, grant) ==
    LET tokens == IF grant = 0 THEN NoTokens ELSE [grant |-> grant, renewals |-> 0]
    IN  /\ accounts' = Append(accounts, [user |-> user, tokens |-> tokens,
                                         expired |-> FALSE, isRefreshing |-> FALSE])
        /\ saved' = [user |-> user, tokens |-> tokens]
        /\ current' = Len(accounts) + 1
        /\ pending' = 0

\* onOAuthSuccess(): the user is named by the token, or asked for.  The answer
\* may name no refresh token.
ExchangeSucceeds ==
    /\ flow = "exchange"
    /\ flow' = "none" /\ inProgress' = FALSE
    /\ \E g \in Grant :
        /\ Given = 1..(g - 1)
        /\ kick' = [kick EXCEPT ![g] = 1]
        /\ bare' \in {bare, bare \cup {g}}
        /\ \/ /\ CreateAccount(g, g)
              /\ UNCHANGED lookups
           \/ /\ pending' = g
              /\ lookups' = lookups \cup {g}
              /\ UNCHANGED <<accounts, current, saved>>
    /\ overlapped' = (overlapped \/ lookups # {} \/ refreshes # << >>)
    /\ UNCHANGED <<refreshes, requests, lost, bounds>>

\* fetchUserInfoFromApi() and its fallbacks, the last of which asks the user
LookupAnswered(g) ==
    /\ g \in lookups /\ lookups' = lookups \ {g}
    /\ CreateAccount(g, pending)
    /\ overlapped' = (overlapped \/ lookups # {g} \/ refreshes # << >>)
    /\ UNCHANGED <<flow, inProgress, bare, refreshes, requests, kick, lost, bounds>>

Logout ==
    /\ current # 0 /\ current' = 0
    /\ saved' = Nothing
    /\ overlapped' = (overlapped \/ lookups # {} \/ refreshes # << >>)
    /\ UNCHANGED <<login, accounts, refreshes, requests, kick, lost, bounds>>

\* The program ends and starts again: load() makes the account that was saved.
Restart ==
    /\ restarts < MaxRestarts /\ restarts' = restarts + 1
    /\ flow' = "none" /\ inProgress' = FALSE /\ pending' = 0 /\ lookups' = {}
    /\ refreshes' = << >>
    /\ requests' = [r \in Request |->
                       IF requests[r].stage \in {"sent", "waiting"}
                       THEN [stage |-> "idle", account |-> 0] ELSE requests[r]]
    /\ \/ /\ saved.tokens = NoTokens
          /\ accounts' = << >> /\ current' = 0
       \/ /\ saved.tokens # NoTokens
          /\ \E expired \in BOOLEAN :
                 accounts' = <<[user |-> saved.user, tokens |-> saved.tokens,
                                expired |-> expired, isRefreshing |-> FALSE]>>
          /\ current' = 1
    /\ UNCHANGED <<bare, saved, kick, overlapped, errors>>
    \* an answer that comes after the end of the program is lost, too
    /\ lost' = lost \cup {refreshes[i].tokens.grant : i \in DOMAIN refreshes}
-----------------------------------------------------------------------------
(* Renewing tokens. *)

TokenExpires(a) ==
    /\ accounts[a].tokens # NoTokens
    /\ ~accounts[a].expired
    /\ accounts' = [accounts EXCEPT ![a].expired = TRUE]
    /\ UNCHANGED <<login, current, refreshes, saved, requests, kick, lost, overlapped, bounds>>

\* doRefreshAccessToken(attempt) of account a
Asked(a, attempt) ==
    [account |-> a, attempt |-> attempt, stage |-> "asked", tokens |-> accounts[a].tokens]

\* Faulty variant: nobody looks whether a refresh is under way.
RefreshAccessTokenAgain(a, r) ==
    /\ requests' = [requests EXCEPT ![r].stage = "waiting"]
    /\ accounts' = [accounts EXCEPT ![a].isRefreshing = TRUE]
    /\ refreshes' = Append(refreshes, Asked(a, 0))

\* refreshAndRetry(): who waits is told when the refresh ends; refreshAccessToken()
\* starts one unless one is under way.  Without a refresh token it tells the failure
\* at once, to the request alone: nobody waits for an account that never refreshes.
RefreshAndRetry(a, r) ==
    \/ /\ accounts[a].tokens.grant \in bare
       /\ requests' = [requests EXCEPT ![r].stage = "dropped"]
       /\ UNCHANGED <<accounts, refreshes>>
    \/ /\ accounts[a].tokens.grant \notin bare
       /\ requests' = [requests EXCEPT ![r].stage = "waiting"]
       /\ accounts' = [accounts EXCEPT ![a].isRefreshing = TRUE]
       /\ refreshes' = IF accounts[a].isRefreshing THEN refreshes
                       ELSE Append(refreshes, Asked(a, 0))

\* tokenRefreshed: all that wait for the account go on, or are forgotten.
Told(a, stage) ==
    requests' = [r \in Request |->
                    IF requests[r] = [stage |-> "waiting", account |-> a]
                    THEN [requests[r] EXCEPT !.stage = stage] ELSE requests[r]]

\* Faulty variants: the flag stays after a failure; the new tokens are not saved.
RefreshFailsRefreshing(i) ==
    /\ refreshes' = RemoveAt(refreshes, i)
    /\ Told(refreshes[i].account, "dropped")
    /\ UNCHANGED accounts

SaveNothing(a) == UNCHANGED saved

\* Every failure of a refresh that is not retried
RefreshFails(i) ==
    /\ refreshes' = RemoveAt(refreshes, i)
    /\ Told(refreshes[i].account, "dropped")
    /\ accounts' = [accounts EXCEPT ![refreshes[i].account].isRefreshing = FALSE]

\* saveToSettings() of an account with new tokens
Save(a) == saved' = [user |-> accounts'[a].user, tokens |-> accounts'[a].tokens]

\* Kick renews a grant for the refresh token it gave last.
Accepted(tokens) == kick[tokens.grant] = tokens.renewals + 1
Renewable(tokens) == Accepted(tokens) /\ tokens.renewals < MaxRenewals

\* The answer names a new refresh token, or none: then the old one is kept, and good.
\* The new access token comes in either case.
RefreshSucceeds(i) ==
    LET a == refreshes[i].account
        tokens == refreshes[i].tokens
        next == [tokens EXCEPT !.renewals = @ + 1]
        Renewed(got) == accounts' = [accounts EXCEPT ![a].tokens = got,
                                        ![a].expired = FALSE, ![a].isRefreshing = FALSE]
    IN  /\ refreshes[i].stage = "asked"
        /\ \/ /\ Renewable(tokens)
              /\ kick' = [kick EXCEPT ![tokens.grant] = @ + 1]
              /\ Renewed(next)
           \/ /\ Accepted(tokens)
              /\ UNCHANGED kick
              /\ Renewed(tokens)
        /\ Save(a)
        /\ refreshes' = RemoveAt(refreshes, i)
        /\ Told(a, "sent")
        /\ UNCHANGED <<login, current, lost, overlapped, bounds>>

MayRetry(attempt) == attempt < MAX_REFRESH_RETRIES

\* The answer is an error or cannot be read; Kick may have renewed the tokens.
AnswerLost(tokens) ==
    /\ Error
    /\ \/ UNCHANGED <<kick, lost>>
       \/ /\ Renewable(tokens)
          /\ kick' = [kick EXCEPT ![tokens.grant] = @ + 1]
          /\ lost' = lost \cup {tokens.grant}

\* A transient error is retried after a wait.
RefreshTransient(i) ==
    /\ refreshes[i].stage = "asked"
    /\ AnswerLost(refreshes[i].tokens)
    /\ IF MayRetry(refreshes[i].attempt)
       THEN /\ refreshes' = [refreshes EXCEPT ![i].stage = "backoff"]
            /\ UNCHANGED <<accounts, requests>>
       ELSE RefreshFails(i)
    /\ UNCHANGED <<login, current, saved, overlapped>>

RetryTimeout(i) ==
    /\ refreshes[i].stage = "backoff"
    /\ refreshes' = [refreshes EXCEPT ![i] = Asked(@.account, @.attempt + 1)]
    /\ UNCHANGED <<login, accounts, current, saved, requests, kick, lost, overlapped, bounds>>

\* invalid_grant, invalid answers, and other errors
RefreshRefused(i) ==
    /\ refreshes[i].stage = "asked"
    /\ RefreshFails(i)
    /\ \/ ~Renewable(refreshes[i].tokens) /\ UNCHANGED <<kick, lost, bounds>>
       \/ AnswerLost(refreshes[i].tokens)
    /\ UNCHANGED <<login, current, saved, overlapped>>
-----------------------------------------------------------------------------
(* Requests. *)

\* sendMessage() and sendAuthorizedRequest() of a channel that has the account
CallApi(r, a) ==
    /\ requests[r].stage = "idle"
    /\ requests' = [requests EXCEPT ![r] =
           [stage |-> IF isAuthenticated(a) THEN "sent" ELSE "refused", account |-> a]]
    /\ UNCHANGED <<login, accounts, current, refreshes, saved, kick, lost, overlapped, bounds>>

RequestAnswered(r) ==
    /\ requests[r].stage = "sent"
    /\ requests' = [requests EXCEPT ![r].stage = "answered"]
    /\ UNCHANGED <<login, accounts, current, refreshes, saved, kick, lost, overlapped, bounds>>

\* 401: the token or its scope is not enough.  Who sent it had tokens to refresh.
Unauthorized(r) ==
    /\ requests[r].stage = "sent"
    /\ Error
    /\ RefreshAndRetry(requests[r].account, r)
    /\ overlapped' = (overlapped \/ requests[r].account # current)
    /\ UNCHANGED <<login, current, saved, kick, lost>>
-----------------------------------------------------------------------------
Refreshed(i) == RefreshSucceeds(i) \/ RefreshTransient(i) \/ RefreshRefused(i)

FirstRefreshed == refreshes # << >> /\ (Refreshed(1) \/ RetryTimeout(1))

Next ==
    \/ StartLogin \/ BrowserReturns \/ FlowCancelled \/ ExchangeFails \/ ExchangeSucceeds
    \/ \E g \in Grant : LookupAnswered(g)
    \/ Logout \/ Restart
    \/ \E a \in DOMAIN accounts :
        \/ TokenExpires(a)
        \/ \E r \in Request : CallApi(r, a)
    \/ \E i \in DOMAIN refreshes : Refreshed(i) \/ RetryTimeout(i)
    \/ \E r \in Request : RequestAnswered(r) \/ Unauthorized(r)

Spec == Init /\ [][Next]_vars

\* Requests are answered and timers fire.
FairSpec ==
    /\ Spec
    /\ WF_vars(FirstRefreshed)
    /\ \A r \in Request : WF_vars(RequestAnswered(r) \/ Unauthorized(r))
-----------------------------------------------------------------------------
(* Correctness. *)

TypeOK ==
    /\ flow \in {"none", "browser", "exchange"} /\ inProgress \in BOOLEAN
    /\ pending \in Grant \cup {0}
    /\ lookups \subseteq Grant /\ bare \subseteq Grant
    /\ accounts \in Seq(Account)
    /\ current \in 0..Len(accounts)
    /\ refreshes \in Seq([account : Nat, attempt : 0..MAX_REFRESH_RETRIES,
                          stage : {"asked", "backoff"}, tokens : Tokens])
    /\ saved \in Saved
    /\ requests \in [Request -> Call]
    /\ kick \in [Grant -> 0..(MaxRenewals + 1)]
    /\ lost \subseteq Grant
    /\ overlapped \in BOOLEAN
    /\ errors \in 0..MaxErrors /\ restarts \in 0..MaxRestarts

\* An account refreshes its tokens at most once at a time, its flag says so, and
\* whoever waits for tokens waits for a refresh that is under way: no way in which
\* one fails leaves the flag or somebody behind (KickAccount.cpp:77).
WaitersHaveOneRefresh ==
    /\ \A a \in DOMAIN accounts :
        Cardinality({i \in DOMAIN refreshes : refreshes[i].account = a}) =
            IF accounts[a].isRefreshing THEN 1 ELSE 0
    /\ \A r \in Request :
        requests[r].stage = "waiting" => accounts[requests[r].account].isRefreshing

\* A refresh token is good for once.  None is used again unless Kick took it and
\* its answer was lost, in which case the program cannot know the next one.
RefreshTokensAreUsedOnce ==
    \A i \in DOMAIN refreshes :
        refreshes[i].stage = "asked" /\ refreshes[i].tokens.grant \notin lost =>
            kick[refreshes[i].tokens.grant] = refreshes[i].tokens.renewals + 1

\* What a restart would load is the current account with the tokens it has now, and
\* nothing after a logout, as long as logins, logouts and refreshes do not overlap and
\* only the current account is used: no renewal, retry or restart loses the tokens.
SavedIsCurrent ==
    ~overlapped => saved = IF current = 0 THEN Nothing
                           ELSE [user |-> accounts[current].user,
                                 tokens |-> accounts[current].tokens]

\* Whoever waits for tokens goes on or is dropped in the end, however often a
\* refresh is retried.
WaitingEnds ==
    \A r \in Request : requests[r].stage = "waiting" ~> requests[r].stage # "waiting"
-----------------------------------------------------------------------------
(* Said of the accounts, and not so. *)

\* "@param callback Called with the result" (KickApi.hpp:129)
EveryCallIsAnswered ==
    \A r \in Request :
        requests[r].stage = "sent" ~> requests[r].stage \in {"answered", "refused", "idle"}

\* "Check if token needs refresh" (KickApi.cpp:317): an account whose token expired
\* and that has a refresh token renews it rather than to refuse the request.
ExpiredTokensAreRenewed ==
    [][\A r \in Request :
        requests'[r].stage = "refused" /\ requests[r].stage # "refused" =>
            accounts[requests'[r].account].tokens = NoTokens]_vars

\* "Clear saved credentials from settings" (KickAccount.hpp:56): they stay cleared
\* until the next login.
LoggedOutStaysOut ==
    [][saved = Nothing /\ saved' # Nothing => current' # 0]_vars

\* "Store tokens temporarily while we fetch user info" (KickAccountManager.cpp:151):
\* an account has the tokens of its user.
TokensAreTheUsers ==
    \A a \in DOMAIN accounts : accounts[a].tokens.grant = accounts[a].user
=============================================================================
