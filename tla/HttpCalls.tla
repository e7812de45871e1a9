------------------------------ MODULE HttpCalls ------------------------------
(***************************************************************************)
(* One request of a connector to its service, as every client makes it:    *)
(* a cached token, a fresh one after a 401, a wait after a 429, a timer    *)
(* around each exchange.  Calls share the client's cached token; the       *)
(* service revokes tokens, throttles, and may stop talking at any point.   *)
(***************************************************************************)
EXTENDS Naturals, FiniteSets

CONSTANTS
    Exchanges,          \* calls made through one client, each once
    Clients,        \* bound: the clients there are
    NoToken,
    MaxThrottleRetries,
    MaxTokens,      \* bound: tokens the service issues
    MaxThrottles    \* bound: answers of 429

AllClients == {"keycloak", "entra", "google", "scim", "mail"}

ASSUME HttpAssumption ==
    /\ Clients \subseteq AllClients
    /\ MaxThrottleRetries \in Nat /\ MaxTokens \in Nat /\ MaxThrottles \in Nat
    /\ NoToken \notin Nat

VARIABLES
    client,
    cachedToken,  \* the token kept, or NoToken
    believed,     \* its expiresAt lies ahead
    issued,       \* tokens issued, counted
    valid,        \* those the service accepts
    throttles,    \* answers of 429 so far
    exchange      \* each call; history in it: what the service did for it, and
                  \* whether the service revoked a token since it began

hvars == <<client, cachedToken, believed, issued, valid, throttles, exchange>>

Unsent == [at |-> "new", token |-> NoToken, again |-> FALSE, waits |-> 0,
           status |-> "none", effects |-> 0, revoked |-> FALSE]

(* The mail server's client sends a stored secret, which the service       *)
(* always accepts.                                                         *)
Fetches == client # "mail"

(* Whether a client waits when it is told to. *)
Waits == client \in {"entra", "google", "scim"}

(* Mutant of BodyIsTimed: the timer is cleared when the headers are in.    *)
HeadersOnly == FALSE

(* AbortSignal.timeout covers the reading of the body; timedFetch's timer  *)
(* is cleared with the headers, and nothing of the connector's own ends a  *)
(* body that does not come.                                                *)
BodyIsTimed == client \in {"keycloak", "mail"}

Ended(c) == exchange[c].at \in {"answered", "failed"}

HttpTypeOK ==
    /\ client \in Clients /\ believed \in BOOLEAN
    /\ cachedToken \in 1..MaxTokens \cup {NoToken}
    /\ issued \in 0..MaxTokens /\ valid \subseteq 1..issued
    /\ throttles \in 0..MaxThrottles
    /\ \A c \in Exchanges :
         /\ exchange[c].at \in {"new", "token", "token body", "send", "sent", "sleep", "body",
                                "answered", "failed"}
         /\ exchange[c].status \in {"none", "ok", "401", "429"}
         /\ exchange[c].waits \in 0..MaxThrottleRetries /\ exchange[c].effects \in Nat

-----------------------------------------------------------------------------
Step(c, x) == exchange' = [exchange EXCEPT ![c] = x]

(* getToken: the cached token while it is believed good, unless a fresh    *)
(* one is insisted on.                                                     *)
Cached(forceRefresh) ==
    IF ~forceRefresh /\ cachedToken # NoToken /\ believed THEN {cachedToken} ELSE {}

WithToken(c, x, forceRefresh) ==
    IF ~Fetches THEN Step(c, [x EXCEPT !.at = "send"])
    ELSE IF Cached(forceRefresh) = {} THEN Step(c, [x EXCEPT !.at = "token"])
    ELSE Step(c, [x EXCEPT !.at = "send", !.token = cachedToken])

BeginCall(c) ==
    /\ exchange[c].at = "new"
    /\ WithToken(c, exchange[c], FALSE)
    /\ UNCHANGED <<client, cachedToken, believed, issued, valid, throttles>>

(* fetchToken: the headers, then the body with the token.                  *)
TokenHeaders(c) ==
    /\ exchange[c].at = "token"
    /\ Step(c, [exchange[c] EXCEPT !.at = "token body"])
    /\ UNCHANGED <<client, cachedToken, believed, issued, valid, throttles>>

TokenBody(c) ==
    /\ exchange[c].at = "token body" /\ issued < MaxTokens
    /\ issued' = issued + 1 /\ valid' = valid \cup {issued'}
    /\ cachedToken' = issued' /\ believed' = TRUE
    /\ Step(c, [exchange[c] EXCEPT !.at = "send", !.token = issued'])
    /\ UNCHANGED <<client, throttles>>

(* The service gets the request and decides: refused, told to wait, done.  *)
Serve(c) ==
    /\ exchange[c].at = "send"
    /\ \/ /\ Fetches /\ exchange[c].token \notin valid
          /\ Step(c, [exchange[c] EXCEPT !.at = "sent", !.status = "401"])
          /\ UNCHANGED throttles
       \/ /\ throttles < MaxThrottles /\ throttles' = throttles + 1
          /\ Step(c, [exchange[c] EXCEPT !.at = "sent", !.status = "429"])
       \/ /\ ~Fetches \/ exchange[c].token \in valid
          /\ Step(c, [exchange[c] EXCEPT !.at = "sent", !.status = "ok", !.effects = @ + 1])
          /\ UNCHANGED throttles
    /\ UNCHANGED <<client, cachedToken, believed, issued, valid>>

Heard(c, status) == exchange[c].at = "sent" /\ exchange[c].status = status

(* 429: a wait of at most maxThrottleWaitMs, then the same request again;  *)
(* after maxThrottleRetries of them an error.                              *)
Throttled(c) ==
    /\ Heard(c, "429") /\ Waits
    /\ Step(c, IF exchange[c].waits < MaxThrottleRetries
               THEN [exchange[c] EXCEPT !.at = "sleep", !.waits = @ + 1]
               ELSE [exchange[c] EXCEPT !.at = "failed"])
    /\ UNCHANGED <<client, cachedToken, believed, issued, valid, throttles>>

WakeUp(c) ==
    /\ exchange[c].at = "sleep"
    /\ Step(c, [exchange[c] EXCEPT !.at = "send"])
    /\ UNCHANGED <<client, cachedToken, believed, issued, valid, throttles>>

(* Mutant of Insist: the cached token is good enough.                      *)
TrustTheCache == FALSE

Insist == TRUE

(* The first 401: a token is fetched, whatever is cached, and the same     *)
(* request sent again.                                                     *)
RefusedToken(c) ==
    /\ Heard(c, "401") /\ ~exchange[c].again
    /\ WithToken(c, [exchange[c] EXCEPT !.again = TRUE], Insist)
    /\ UNCHANGED <<client, cachedToken, believed, issued, valid, throttles>>

(* Any other answer is the caller's, and its body is read.                 *)
Headers(c) ==
    /\ \/ Heard(c, "ok")
       \/ Heard(c, "401") /\ exchange[c].again
       \/ Heard(c, "429") /\ ~Waits
    /\ Step(c, [exchange[c] EXCEPT !.at = "body"])
    /\ UNCHANGED <<client, cachedToken, believed, issued, valid, throttles>>

Body(c) ==
    /\ exchange[c].at = "body"
    /\ Step(c, [exchange[c] EXCEPT !.at = IF exchange[c].status = "ok" THEN "answered"
                                                                      ELSE "failed"])
    /\ UNCHANGED <<client, cachedToken, believed, issued, valid, throttles>>

(* Mutant of TimedOut: a request that timed out is sent again.             *)
SentAgain(c) == [exchange[c] EXCEPT !.at = "send"]

TimedOut(c) == [exchange[c] EXCEPT !.at = "failed", !.status = "none"]

(* The timer fires while an answer is awaited.                             *)
Timeout(c) ==
    /\ \/ exchange[c].at \in {"token", "send", "sent"}
       \/ exchange[c].at \in {"token body", "body"} /\ BodyIsTimed
    /\ Step(c, TimedOut(c))
    /\ UNCHANGED <<client, cachedToken, believed, issued, valid, throttles>>

(* The margin before the token's expiry is reached.                        *)
MarginReached ==
    /\ believed /\ believed' = FALSE
    /\ UNCHANGED <<client, cachedToken, issued, valid, throttles, exchange>>

(* The service stops accepting a token: one that is past its margin, or    *)
(* any at all, when it restarts or an administrator revokes it.            *)
Revoke(t) ==
    /\ t \in valid /\ valid' = valid \ {t}
    /\ exchange' = [c \in Exchanges |-> [exchange[c] EXCEPT !.revoked = @ \/ exchange[c].at # "new"]]
    /\ UNCHANGED <<client, cachedToken, believed, issued, throttles>>

HttpInit ==
    /\ client \in Clients
    /\ cachedToken = NoToken /\ believed = FALSE
    /\ issued = 0 /\ valid = {} /\ throttles = 0
    /\ exchange = [c \in Exchanges |-> Unsent]

Sends(c) ==
    \/ BeginCall(c) \/ Throttled(c) \/ WakeUp(c) \/ RefusedToken(c) \/ Headers(c)

HttpNext ==
    \/ \E c \in Exchanges :
          Sends(c) \/ TokenHeaders(c) \/ TokenBody(c) \/ Serve(c) \/ Body(c) \/ Timeout(c)
    \/ MarginReached
    \/ \E t \in 1..MaxTokens : Revoke(t)

HttpSpec == HttpInit /\ [][HttpNext]_hvars

(* The client does its part and its timers fire; the service need not      *)
(* answer anything.                                                        *)
HttpFairness == \A c \in Exchanges : WF_hvars(Sends(c)) /\ WF_hvars(Timeout(c))

HttpFairSpec == HttpSpec /\ HttpFairness

-----------------------------------------------------------------------------
(* A call has its effect at most once, however often its request is sent:  *)
(* only what the service refused is sent again.  A create that timed out   *)
(* is the queue's to retry, which looks the account up first.              *)
NoEffectTwice == \A c \in Exchanges : exchange[c].effects <= 1

(* A caller is handed a 401 only if the service revoked a token while the  *)
(* call was under way: a token that went stale in the cache, or was        *)
(* revoked before, costs a round trip and nothing more.                    *)
StaleTokensAreInvisible ==
    \A c \in Exchanges :
        exchange[c].at = "failed" /\ exchange[c].status = "401" /\ exchange[c].again
            => exchange[c].revoked

(* A call of Keycloak's or the mail server's client ends, whatever the     *)
(* service does or leaves out.                                             *)
TimedCallsEnd ==
    \A c \in Exchanges : client \in {"keycloak", "mail"} /\ exchange[c].at # "new" ~> Ended(c)
=============================================================================
