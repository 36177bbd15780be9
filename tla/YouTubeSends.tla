---------------------------- MODULE YouTubeSends ----------------------------
(***************************************************************************)
(* What a YouTubeChannel sends: YouTubeChannel::sendMessage finds the live *)
(* chat once and posts to it; YouTubeApi takes the tokens of the           *)
(* YouTubeAccount and renews them when they expire; the settings page      *)
(* signs in and out.                                                       *)
(*                                                                         *)
(* All of it runs in the GUI thread, and every request is answered late.   *)
(* The broadcast the channel has found (YouTubeChat) only moves on here.   *)
(* Google is external.                                                     *)
(***************************************************************************)
EXTENDS YouTubeChannel, FiniteSets

CONSTANT Send    \* messages the user sends

ASSUME SendsAssumption == IsFiniteSet(Send) /\ MaxBroadcasts \in Nat

VARIABLES
    liveChatId,   \* liveChatId_: the broadcast it is for, 0 when empty
    account,      \* tokens of the YouTubeAccount, and what the keychain holds
    consent,      \* external: the refresh token Google gave last is good
    exchanging,   \* requests of exchangeCode() under way
    sends         \* what is sent and how far it came

sendsVars == <<videoId, liveChatId, account, consent, exchanging, sends>>

Account == [accessToken : BOOLEAN, refreshToken : BOOLEAN, expired : BOOLEAN]
SignedOut == [accessToken |-> FALSE, refreshToken |-> FALSE, expired |-> FALSE]

isAuthenticated == account.accessToken \/ account.refreshToken
needsRefresh == ~account.accessToken \/ account.expired

\* A message waits for tokens ("refresh") before it goes on to "find" the live chat
\* or to "post"; "watched" is the broadcast that was read when it was written.
Message == [stage : {"idle", "refresh", "find", "post", "sent", "failed"},
            then : {"find", "post"}, watched : 0..MaxBroadcasts, chat : 0..MaxBroadcasts]
Unsent == [stage |-> "idle", then |-> "find", watched |-> 0, chat |-> 0]

SendsInit ==
    /\ videoId = 0
    /\ liveChatId = 0
    /\ account = SignedOut
    /\ consent = FALSE
    /\ exchanging = 0
    /\ sends = [s \in Send |-> Unsent]
-----------------------------------------------------------------------------
(* The account. *)

\* Faulty variant: what the answer does not name is forgotten.
SetTokensWiping(refreshToken) ==
    account' = [accessToken |-> TRUE, refreshToken |-> refreshToken, expired |-> FALSE]

\* setTokens(); an answer without a refresh token leaves the stored one.
SetTokens(refreshToken) ==
    account' = [accessToken |-> TRUE, expired |-> FALSE,
                refreshToken |-> account.refreshToken \/ refreshToken]

\* The button is there while nobody is signed in; the browser may come back late, or
\* twice for two clicks.
StartSignIn ==
    /\ ~isAuthenticated
    /\ exchanging < 2
    /\ exchanging' = exchanging + 1
    /\ UNCHANGED <<videoId, liveChatId, account, consent, sends>>

ExchangeSucceeds ==
    /\ exchanging > 0 /\ exchanging' = exchanging - 1
    /\ SetTokens(TRUE)
    /\ consent' = TRUE
    /\ UNCHANGED <<videoId, liveChatId, sends>>

ExchangeFails ==
    /\ exchanging > 0 /\ exchanging' = exchanging - 1
    /\ UNCHANGED <<videoId, liveChatId, account, consent, sends>>

\* signOut(): clear()
SignOut ==
    /\ isAuthenticated
    /\ account' = SignedOut
    /\ UNCHANGED <<videoId, liveChatId, consent, exchanging, sends>>

TokenExpires ==
    /\ account.accessToken /\ ~account.expired
    /\ account' = [account EXCEPT !.expired = TRUE]
    /\ UNCHANGED <<videoId, liveChatId, consent, exchanging, sends>>

\* The user takes the consent back at Google.
Revoke ==
    /\ consent /\ consent' = FALSE
    /\ UNCHANGED <<videoId, liveChatId, account, exchanging, sends>>
-----------------------------------------------------------------------------
(* Messages. *)

\* The channel finds the next broadcast: resolveAndOpen() sets videoId_ only.
NextBroadcast ==
    /\ videoId < MaxBroadcasts
    /\ videoId' = videoId + 1
    /\ UNCHANGED <<liveChatId, account, consent, exchanging, sends>>

\* withFreshToken(): a message goes on, waits for new tokens, or fails, which the
\* user is told.
WithFreshToken(m, next) ==
    [m EXCEPT !.then = next,
              !.stage = IF isAuthenticated /\ ~needsRefresh THEN next
                        ELSE IF account.refreshToken THEN "refresh"
                        ELSE "failed"]

\* sendMessage()
SendMessage(s) ==
    /\ sends[s].stage = "idle"
    /\ LET m == [Unsent EXCEPT !.watched = videoId, !.chat = liveChatId]
       IN  sends' = [sends EXCEPT ![s] =
               IF ~isAuthenticated \/ videoId = 0 THEN [m EXCEPT !.stage = "failed"]
               ELSE WithFreshToken(m, IF liveChatId # 0 THEN "post" ELSE "find")]
    /\ UNCHANGED <<videoId, liveChatId, account, consent, exchanging>>

\* Faulty variant: what waits for a refresh that fails is not told.
AfterRefreshSilently(m, ok) == IF ok THEN [m EXCEPT !.stage = m.then] ELSE m

AfterRefresh(m, ok) == [m EXCEPT !.stage = IF ok THEN m.then ELSE "failed"]

\* The answer to refreshToken(), which names no refresh token
RefreshAnswered(s) ==
    /\ sends[s].stage = "refresh"
    /\ \/ /\ consent
          /\ SetTokens(FALSE)
          /\ sends' = [sends EXCEPT ![s] = AfterRefresh(@, TRUE)]
       \/ /\ sends' = [sends EXCEPT ![s] = AfterRefresh(@, FALSE)]
          /\ UNCHANGED account
    /\ UNCHANGED <<videoId, liveChatId, consent, exchanging>>

\* The answer to resolveLiveChatId(): the active chat of the broadcast that was read
\* when it was asked, which may be an earlier one by now and still be active; or none.
FindAnswered(s) ==
    /\ sends[s].stage = "find"
    /\ LET found == sends[s].watched IN
       \/ /\ liveChatId' = found
          /\ sends' = [sends EXCEPT ![s] = WithFreshToken([@ EXCEPT !.chat = found], "post")]
       \/ /\ sends' = [sends EXCEPT ![s].stage = "failed"]
          /\ UNCHANGED liveChatId
    /\ UNCHANGED <<videoId, account, consent, exchanging>>

\* The answer to the POST; an error is shown.
PostAnswered(s) ==
    /\ sends[s].stage = "post"
    /\ \E outcome \in {"sent", "failed"} : sends' = [sends EXCEPT ![s].stage = outcome]
    /\ UNCHANGED <<videoId, liveChatId, account, consent, exchanging>>
-----------------------------------------------------------------------------
Answered(s) == RefreshAnswered(s) \/ FindAnswered(s) \/ PostAnswered(s)

SendsNext ==
    \/ StartSignIn \/ ExchangeSucceeds \/ ExchangeFails \/ SignOut
    \/ TokenExpires \/ Revoke \/ NextBroadcast
    \/ \E s \in Send : SendMessage(s) \/ Answered(s)

SendsSpec == SendsInit /\ [][SendsNext]_sendsVars

\* Every request is answered or fails.
SendsFairSpec ==
    /\ SendsSpec
    /\ WF_sendsVars(ExchangeSucceeds \/ ExchangeFails)
    /\ \A s \in Send : WF_sendsVars(Answered(s))
-----------------------------------------------------------------------------
(* Correctness. *)

SendsTypeOK ==
    /\ videoId \in 0..MaxBroadcasts
    /\ liveChatId \in 0..MaxBroadcasts
    /\ account \in Account
    /\ consent \in BOOLEAN
    /\ exchanging \in 0..2
    /\ sends \in [Send -> Message]

\* Who signed in stays able to renew the tokens until they sign out: no refresh, and
\* no second login, loses the refresh token Google gave once (YouTubeAccount.cpp:66).
RefreshTokenIsKept ==
    [][account.refreshToken /\ ~account'.refreshToken => account' = SignedOut]_sendsVars

\* Every message is posted or the user is told, also when tokens expire between the
\* search for the chat and the post, or cannot be renewed.
EveryMessageEnds ==
    \A s \in Send : sends[s].stage # "idle" ~> sends[s].stage \in {"sent", "failed"}
-----------------------------------------------------------------------------
(* Said of the channel, and not so. *)

\* A handle "follows the streamer across broadcasts instead of dying with one video"
\* (YouTubeChannel.hpp:36): what is written goes to the chat that is read.
SendsFollowTheStreamer ==
    \A s \in Send : sends[s].stage = "post" => sends[s].chat = sends[s].watched

\* "Sign out" (PlatformsPage.cpp:219): only a login gives tokens again.
SignedOutStaysSignedOut ==
    [][account = SignedOut /\ account' # account => exchanging' < exchanging]_sendsVars
=============================================================================
