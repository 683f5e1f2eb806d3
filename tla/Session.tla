------------------------------ MODULE Session -------------------------------
(***************************************************************************)
(* Sessions of the dashboard, internal/auth/auth.go: the configuration     *)
(* that Setup reads when the process starts, the token that handleLogin    *)
(* puts into a cookie, what handleLogout does to the cookie, and what      *)
(* Middleware decides about a request.                                     *)
(*                                                                         *)
(* Time is in seconds.  A token is signed with the secret of its process,  *)
(* which is drawn at random: a process is its number here.  The user's     *)
(* name is left out; it holds no '|', which sessionValid would split at.   *)
(* Answers of login and logout travel and may arrive in another order.     *)
(***************************************************************************)
EXTENDS Integers, FiniteSets

CONSTANTS
    Lifetimes,      \* values of DASHBOARD_AUTH_TTL, natural; 0 when unset or invalid
    SecondUnits,    \* a second in the unit of time.Duration
    Width,          \* bits of time.Duration
    PersistentAge,  \* persistentMaxAge
    MaxTime,        \* bound on the clock
    MaxBoots,       \* bound on the starts of the process
    MaxReplies      \* bound on the answers on their way at a time

VARIABLES
    now,       \* the clock, the same at server and browser
    boot,      \* number of the process; its secret
    enabled,
    lifetime,  \* DASHBOARD_AUTH_TTL
    ttl,       \* the same as a time.Duration
    cookie,    \* the cookie of the browser
    replies,   \* answers of login and logout on their way
    session    \* history: the login whose cookie the browser was last given

configVars == <<boot, enabled, lifetime, ttl>>
browserVars == <<cookie, session>>
vars == <<now, configVars, browserVars, replies>>

NoCookie == [boot |-> 0, exp |-> 0, until |-> 0]

NoSession == [boot |-> 0, at |-> 0, got |-> 0]

\* An integer as a time.Duration holds it.
Signed(n) == ((n + 2 ^ (Width - 1)) % 2 ^ Width) - 2 ^ (Width - 1)

\* Setup
Configured(n) ==
    /\ lifetime' = n
    /\ ttl' = IF n > 0 THEN Signed(n * SecondUnits) ELSE 0
    /\ enabled' \in BOOLEAN

Init ==
    /\ now = 1
    /\ boot = 1
    /\ enabled \in BOOLEAN
    /\ lifetime \in Lifetimes
    /\ ttl = IF lifetime > 0 THEN Signed(lifetime * SecondUnits) ELSE 0
    /\ cookie = NoCookie
    /\ replies = {}
    /\ session = NoSession

-----------------------------------------------------------------------------

\* int64(st.Seconds()), of a positive duration.
Seconds(d) == d \div SecondUnits

\* Mutant: the expiry is set also when there is no lifetime.
AlwaysExpires(at) == at + Seconds(ttl)

\* The expiry in the token; 0 for none.
TokenExp(at) == IF ttl > 0 THEN at + Seconds(ttl) ELSE 0

\* MaxAge of the cookie.
MaxAge == IF ttl > 0 THEN Seconds(ttl) ELSE PersistentAge

\* handleLogin with the right name and password: token, cookie, redirect.
Login ==
    /\ enabled
    /\ Cardinality(replies) < MaxReplies
    /\ replies' = replies \cup
           {[kind |-> "login", boot |-> boot, at |-> now, exp |-> TokenExp(now), age |-> MaxAge]}
    /\ UNCHANGED <<now, configVars, browserVars>>

\* handleLogout: nothing changes at the server.
Logout ==
    /\ enabled
    /\ Cardinality(replies) < MaxReplies
    /\ replies' = replies \cup
           {[kind |-> "logout", boot |-> boot, at |-> now, exp |-> 0, age |-> -1]}
    /\ UNCHANGED <<now, configVars, browserVars>>

\* The browser stores or deletes the cookie; without MaxAge it is kept until the
\* browser is closed.
Stored(r) ==
    IF r.kind = "logout" THEN NoCookie
    ELSE [boot |-> r.boot, exp |-> r.exp,
          until |-> now + (IF r.age > 0 THEN r.age ELSE PersistentAge)]

ReplyArrives(r) ==
    /\ replies' = replies \ {r}
    /\ cookie' = Stored(r)
    /\ session' = IF r.kind = "login" THEN [boot |-> r.boot, at |-> r.at, got |-> now]
                  ELSE NoSession
    /\ UNCHANGED <<now, configVars>>

\* A cookie whose time is over is deleted.
Tick ==
    /\ now < MaxTime
    /\ now' = now + 1
    /\ cookie' = IF cookie.until <= now' THEN NoCookie ELSE cookie
    /\ UNCHANGED <<configVars, replies, session>>

\* The process is started again, with another configuration or the same.
Restart ==
    /\ boot < MaxBoots
    /\ boot' = boot + 1
    /\ \E n \in Lifetimes : Configured(n)
    /\ UNCHANGED <<now, browserVars, replies>>

-----------------------------------------------------------------------------
(* Requests change nothing.                                                *)

\* Mutant: the expiry in the token is not looked at.
ValidForEver(c) == c # NoCookie /\ c.boot = boot

SessionValid(c) ==
    /\ c # NoCookie
    /\ ~(c.exp > 0 /\ now > c.exp)
    /\ c.boot = boot

Authorize == enabled => SessionValid(cookie)

\* /health, /metrics and /favicon.ico; under /api/; the rest.
Paths == {"open", "api", "page"}

Response(path) ==
    IF path = "open" \/ Authorize THEN "served"
    ELSE IF path = "api" THEN "unauthorized" ELSE "loginPage"

Next ==
    \/ Login
    \/ Logout
    \/ \E r \in replies : ReplyArrives(r)
    \/ Tick
    \/ Restart

Spec == Init /\ [][Next]_vars

-----------------------------------------------------------------------------
(* Properties                                                              *)

\* The lifetime as a duration is the one that was configured.
Fits == Signed(lifetime * SecondUnits) = lifetime * SecondUnits

InSession == session # NoSession /\ session.boot = boot

\* A page or an answer of the API is given only to a browser that has logged in
\* to this process, has not logged out since, and whose login is not older than
\* DASHBOARD_AUTH_TTL, "session lifetime in seconds" (README.md:104), whenever
\* the cookie arrived.
ServedOnlyInSession ==
    (enabled /\ Fits /\ Response("page") = "served") =>
        InSession /\ (lifetime > 0 => now <= session.at + lifetime)

\* And until then it is given: nobody has to log in again before the time, and
\* never without a lifetime, as long as a cookie lasts at all.
SessionLasts ==
    (/\ InSession /\ Fits
     /\ (lifetime > 0 => now < session.at + lifetime)
     /\ now < session.got + PersistentAge)
        => \A path \in Paths : Response(path) = "served"

=============================================================================
