------------------------------- MODULE Pairing -------------------------------
(***************************************************************************)
(* BetterAuthPairingClient: a device without a keyboard asks for a code,   *)
(* polls until the user has approved it somewhere else, and later rotates  *)
(* its refresh token.  The application's authentication server, its user   *)
(* and the network are the environment: an answer may take time, or never  *)
(* come although the server did what was asked.                            *)
(***************************************************************************)
EXTENDS Naturals, FiniteSets

CONSTANTS
    Callers,      \* of refresh, on one client
    Interval,     \* between polls, as the server asks for it
    Slower,       \* what slow_down adds (5 s)
    Lifetime,     \* of a device code, and of an access token
    Timeout,      \* of one request
    MaxTime       \* bound

VARIABLES
    now,
    server,       \* external: the device code, and the refresh tokens it knows
    wait,         \* the device's start() and wait()
    polls,        \* when the last poll was sent, and whether one was early or late
    held,         \* what the application keeps: the tokens of the last answer
    refreshing    \* the requests of refresh that are in flight

pairingVars == <<now, server, wait, polls, held, refreshing>>

NoReply == "none"
Init ==
    /\ now = 0
    /\ server = [code |-> "none", codeEnds |-> 0, tokenEnds |-> 0, current |-> 0, reused |-> FALSE]
    /\ wait = [at |-> "idle", expiresAt |-> 0, interval |-> Interval, due |-> 0, sentAt |-> 0,
               reply |-> NoReply]
    /\ polls = [last |-> 0, wrong |-> FALSE]
    /\ held = [token |-> 0, expiresAt |-> 0]
    /\ refreshing = {}

-----------------------------------------------------------------------------
(* Pairing *)

\* The time that the server counts from is never earlier than the request's.
Request ==
    /\ wait.at = "idle" /\ server.code = "none"
    /\ wait' = [wait EXCEPT !.at = "starting", !.sentAt = now]
    /\ UNCHANGED <<now, server, polls, held, refreshing>>
Issue ==
    /\ wait.at = "starting" /\ server.code = "none"
    /\ server' = [server EXCEPT !.code = "pending", !.codeEnds = now + Lifetime]
    /\ UNCHANGED <<now, wait, polls, held, refreshing>>

Remaining == wait.expiresAt - now
Smaller(a, b) == IF a < b THEN a ELSE b
Pause(w) == [w EXCEPT !.at = "pausing", !.due = now + Smaller(w.interval, w.expiresAt - now),
                      !.reply = NoReply]

\* The device counts from the moment it asked.
Started ==
    /\ wait.at = "starting" /\ server.code # "none"
    /\ wait' = LET w == [wait EXCEPT !.expiresAt = wait.sentAt + Lifetime]
               IN IF now >= w.expiresAt THEN [w EXCEPT !.at = "expired"] ELSE Pause(w)
    /\ polls' = [polls EXCEPT !.last = now]
    /\ UNCHANGED <<now, server, held, refreshing>>

\* The user decides.
Decide(decision) ==
    /\ server.code = "pending" /\ now < server.codeEnds
    /\ server' = [server EXCEPT !.code = decision]
    /\ UNCHANGED <<now, wait, polls, held, refreshing>>

Watched == [polls EXCEPT !.last = now,
                         !.wrong = @ \/ now - polls.last < wait.interval \/ now >= wait.expiresAt]

\* The last pause may be shorter than the interval: it ends in the expiry.
Poll ==
    /\ wait.at = "pausing" /\ now >= wait.due
    /\ IF now >= wait.expiresAt THEN wait' = [wait EXCEPT !.at = "expired"] /\ UNCHANGED polls
       ELSE wait' = [wait EXCEPT !.at = "polling", !.sentAt = now] /\ polls' = Watched
    /\ UNCHANGED <<now, server, held, refreshing>>

\* The server answers a poll; an approved code is redeemed once.
Serve ==
    /\ wait.at = "polling" /\ wait.reply = NoReply
    /\ \/ /\ server.code = "approved" /\ now < server.codeEnds
          /\ wait' = [wait EXCEPT !.reply = "tokens"]
          /\ server' = [server EXCEPT !.code = "used", !.tokenEnds = now + Lifetime, !.current = 1]
       \/ /\ server.code = "pending" /\ now < server.codeEnds
          /\ \E reply \in {"pending", "slow_down"} : wait' = [wait EXCEPT !.reply = reply]
          /\ UNCHANGED server
       \/ /\ server.code \in {"denied", "used"} \/ now >= server.codeEnds
          /\ wait' = [wait EXCEPT !.reply = "refused"]
          /\ UNCHANGED server
    /\ UNCHANGED <<now, polls, held, refreshing>>

\* An access token is held to expire when the request for it was sent, plus its life.
Expiry(sentAt) == sentAt + Lifetime

Slowed(w) == [w EXCEPT !.interval = @ + Slower]
PollAgain(w) == IF now >= w.expiresAt THEN [w EXCEPT !.at = "expired"] ELSE Pause(w)
Answered ==
    /\ wait.at = "polling" /\ wait.reply # NoReply
    /\ CASE wait.reply = "pending" -> wait' = PollAgain(wait) /\ UNCHANGED held
         [] wait.reply = "slow_down" -> wait' = PollAgain(Slowed(wait)) /\ UNCHANGED held
         [] wait.reply = "refused" -> wait' = [wait EXCEPT !.at = "refused"] /\ UNCHANGED held
         [] wait.reply = "tokens" ->
              /\ wait' = [wait EXCEPT !.at = "paired", !.reply = NoReply]
              /\ held' = [token |-> 1, expiresAt |-> Expiry(wait.sentAt)]
    /\ UNCHANGED <<now, server, polls, refreshing>>

\* A request takes too long, or the network or the server fails: nothing is repeated.
Unavailable ==
    /\ wait.at \in {"starting", "polling"}
    /\ wait' = [wait EXCEPT !.at = "refused"]
    /\ UNCHANGED <<now, server, polls, held, refreshing>>

-----------------------------------------------------------------------------
(* Rotation *)

\* One refresh at a time; the caller passes the token the application keeps.
Refresh_Shared(c) ==
    /\ held.token # 0 /\ c \notin {r.caller : r \in refreshing}
    /\ refreshing' = refreshing \cup {[caller |-> c, token |-> held.token, sentAt |-> now,
                                       reply |-> 0]}
    /\ UNCHANGED <<now, server, wait, polls, held>>
Refresh(c) ==
    /\ held.token # 0 /\ refreshing = {}
    /\ refreshing' = {[caller |-> c, token |-> held.token, sentAt |-> now, reply |-> 0]}
    /\ UNCHANGED <<now, server, wait, polls, held>>

\* The server replaces the token; one that was replaced before betrays a copy.
Rotate(r) ==
    /\ r \in refreshing /\ r.reply = 0 /\ server.current < MaxTime
    /\ IF r.token = server.current
       THEN /\ server' = [server EXCEPT !.current = @ + 1, !.tokenEnds = now + Lifetime]
            /\ refreshing' = (refreshing \ {r}) \cup {[r EXCEPT !.reply = r.token + 1]}
       ELSE server' = [server EXCEPT !.reused = TRUE] /\ UNCHANGED refreshing
    /\ UNCHANGED <<now, wait, polls, held>>

\* The answer is kept, or it is lost: then the rotation is uncertain, the application
\* lets the user sign in again and nothing is sent a second time.
Rotated(r) ==
    /\ r \in refreshing /\ r.reply # 0
    /\ held' = [token |-> r.reply, expiresAt |-> Expiry(r.sentAt)]
    /\ refreshing' = refreshing \ {r}
    /\ UNCHANGED <<now, server, wait, polls>>
Uncertain(r) ==
    /\ r \in refreshing
    /\ held' = [token |-> 0, expiresAt |-> 0]
    /\ refreshing' = refreshing \ {r}
    /\ UNCHANGED <<now, server, wait, polls>>

\* Every request ends by its timeout.
Tick ==
    /\ now < MaxTime
    /\ wait.at \in {"starting", "polling"} => now < wait.sentAt + Timeout
    /\ \A r \in refreshing : now < r.sentAt + Timeout
    /\ now' = now + 1
    /\ UNCHANGED <<server, wait, polls, held, refreshing>>

Next ==
    \/ Request \/ Issue \/ Started \/ Poll \/ Serve \/ Answered \/ Unavailable \/ Tick
    \/ \E decision \in {"approved", "denied"} : Decide(decision)
    \/ \E c \in Callers : Refresh(c)
    \/ \E r \in refreshing : Rotate(r) \/ Rotated(r) \/ Uncertain(r)

Spec == Init /\ [][Next]_pairingVars

-----------------------------------------------------------------------------
(* Properties *)

\* Every variable has its type.
TypeOK ==
    /\ wait.at \in {"idle", "starting", "pausing", "polling", "paired", "refused", "expired"}
    /\ server.code \in {"none", "pending", "approved", "denied", "used"}
    /\ Cardinality(refreshing) <= Cardinality(Callers)

\* Two polls are never closer than the interval in force when the second is sent, and
\* none is sent once the code has expired, for the device or for the server.
PollsKeepTime == ~polls.wrong

\* The device never believes that a code or a token is valid when it is not.
ExpiryIsHonest ==
    /\ held.expiresAt <= server.tokenEnds
    /\ server.code # "none" => wait.expiresAt <= server.codeEnds

\* No refresh token is presented twice, whatever callers overlap and answers are lost:
\* the server never sees what looks like a stolen copy.
TokensAreUsedOnce == ~server.reused

=============================================================================
