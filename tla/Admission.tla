------------------------------ MODULE Admission ------------------------------
(***************************************************************************)
(* How the license server admits a request: the two keyed rate limiters    *)
(* and the task that evicts their idle entries (rate_limit.rs,             *)
(* rate_limit_cleanup.rs), login, the session and administrator guards and *)
(* logout (auth_service.rs, routes/auth.rs, routes/admin.rs), and the life *)
(* of the process around them (main.rs).  A request is   *)
(* one task whose steps are its database calls; requests interleave, are   *)
(* dropped when the client goes away, and the server is shut down, dies    *)
(* and starts again.  The audit records of logins, which nobody waits for  *)
(* and nothing reads, are left out.                                        *)
(*                                                                         *)
(* The bucket itself is governor's: GCRA, of which one number is stored,   *)
(* the time until which the bucket is not full.  The clock counts in parts *)
(* of the time one token takes.                                            *)
(***************************************************************************)
EXTENDS Naturals, Sequences, FiniteSets, SequencesExt

CONSTANTS
    Requests,     \* the tasks a behaviour has
    Arrivals,     \* what a request may be
    Users, Admins,
    Addresses, Proxies,  \* the addresses, and those TRUSTED_PROXY_CIDRS covers
    Burst,        \* requests at once, of each limiter
    Refill,       \* ticks until one more
    Lifetime,     \* ticks a session lives
    NoToken, NoDevice, NoTask, Gone,
    MaxClock, MaxStops   \* bounds

ASSUME AdmissionAssumption ==
    /\ Admins \subseteq Users
    /\ Burst \in Nat \ {0} /\ Refill \in Nat \ {0} /\ Lifetime \in Nat \ {0}

Kinds == {"login", "validate", "heartbeat", "logout", "subscription", "admin"}

\* A login is sent by somebody who is no proxy of ours.
ASSUME ArrivalAssumption ==
    \A x \in Arrivals :
        /\ x.kind \in Kinds
        /\ x.kind = "login" => /\ x.hops \in Seq(Addresses) /\ x.said \in Seq(Addresses)
                               /\ \E i \in DOMAIN x.hops : x.hops[i] \notin Proxies

VARIABLES
    clock,
    server,     \* "up", "draining" or "down"
    buckets,    \* limiter -> key -> when the bucket is full again
    sessions,   \* the sessions table, a session's token being its row
    tasks,      \* Requests -> the state of the request's task
    admitted,   \* limiter -> sender -> when this process admitted it (history variable)
    stops

vars == <<clock, server, buckets, sessions, tasks, admitted, stops>>

Limiters == {"login", "device"}
Empty == [k \in {} |-> 0]

Init ==
    /\ clock = 0 /\ server = "up" /\ stops = 0
    /\ buckets = [l \in Limiters |-> Empty]
    /\ sessions = <<>> /\ tasks = [r \in Requests |-> NoTask]
    /\ admitted = [l \in Limiters |-> Empty]

-----------------------------------------------------------------------------
(* The limiters.                                                           *)

\* What X-Forwarded-For holds: what was in it when the first hop sent it,
\* and the sender of each proxy on the way.
Forwarded(x) == x.said \o Front(x.hops)

\* Mutant: the first entry of the header is the client.
resolve_client_ip_Leftmost(x) ==
    IF Last(x.hops) \notin Proxies \/ Forwarded(x) = <<>> THEN Last(x.hops) ELSE Head(Forwarded(x))
\* Mutant: the peer is the client.
resolve_client_ip_Peer(x) == Last(x.hops)
resolve_client_ip(x) ==
    LET header == Forwarded(x)
        untrusted == {i \in DOMAIN header : header[i] \notin Proxies}
    IN IF Last(x.hops) \notin Proxies \/ untrusted = {} THEN Last(x.hops)
       ELSE header[CHOOSE i \in untrusted : \A j \in untrusted : j <= i]

Limiter(x) == IF x.kind = "login" THEN "login" ELSE "device"
Key(x) == IF x.kind = "login" THEN resolve_client_ip(x) ELSE x.device

FullAt(l, k) == IF k \in DOMAIN buckets[l] /\ buckets[l][k] > clock THEN buckets[l][k] ELSE clock
HasToken(l, k) == FullAt(l, k) + Refill <= clock + Burst * Refill

\* Who really sent a request: the last hop that is no proxy of ours.
Sender(x) ==
    IF x.kind # "login" THEN x.device
    ELSE LET clients == {i \in DOMAIN x.hops : x.hops[i] \notin Proxies}
         IN x.hops[IF clients = {} THEN Len(x.hops) ELSE CHOOSE i \in clients : \A j \in clients : j <= i]
Times(l, s) == IF s \in DOMAIN admitted[l] THEN admitted[l][s] ELSE <<>>

Goto(r, at) == tasks' = [tasks EXCEPT ![r].at = at]

check_key(r) ==
    /\ tasks[r].at = "limit"
    /\ LET x == tasks[r].input
           l == Limiter(x)
           k == Key(x)
       IN IF l = "device" /\ k = NoDevice
          THEN Goto(r, "handler") /\ UNCHANGED <<buckets, admitted>>
          ELSE IF HasToken(l, k)
          THEN /\ buckets' = [buckets EXCEPT ![l] =
                                 [n \in DOMAIN @ \cup {k} |-> IF n = k THEN FullAt(l, k) + Refill ELSE @[n]]]
               /\ admitted' = [admitted EXCEPT ![l] =
                                  [n \in DOMAIN @ \cup {Sender(x)} |->
                                     IF n = Sender(x) THEN Append(Times(l, n), clock) ELSE @[n]]]
               /\ Goto(r, IF l = "login" THEN "find" ELSE "handler")
          ELSE Goto(r, "RateLimited") /\ UNCHANGED <<buckets, admitted>>
    /\ UNCHANGED <<clock, server, sessions, stops>>

\* Mutant: an entry is evicted before its bucket is full.
Idle_Early(l) == {k \in DOMAIN buckets[l] : buckets[l][k] <= clock + Refill}
Idle(l) == {k \in DOMAIN buckets[l] : buckets[l][k] <= clock}
cleanup ==
    /\ server # "down" /\ \E l \in Limiters : Idle(l) # {}
    /\ buckets' = [l \in Limiters |-> [k \in DOMAIN buckets[l] \ Idle(l) |-> buckets[l][k]]]
    /\ UNCHANGED <<clock, server, sessions, tasks, admitted, stops>>

-----------------------------------------------------------------------------
(* Requests.                                                               *)

\* The middleware a route is wrapped in runs first.
FirstStep(kind) == CASE kind \in {"login", "validate", "heartbeat"} -> "limit"
                     [] kind \in {"logout", "subscription", "admin"} -> "session"

Valid(t) == /\ t \in DOMAIN sessions
            /\ ~sessions[t].revoked
            /\ sessions[t].expires_at > clock

\* Whether the token of a request was already no good when it came in.
Arrive(r, x, t) ==
    /\ server = "up" /\ tasks[r] = NoTask
    /\ tasks' = [tasks EXCEPT ![r] = [at |-> FirstStep(x.kind), input |-> x, token |-> t, late |-> ~Valid(t)]]
    /\ UNCHANGED <<clock, server, buckets, sessions, admitted, stops>>

\* find_by_email and the password check.
FindUser(r) ==
    /\ tasks[r].at = "find"
    /\ LET x == tasks[r].input
       IN Goto(r, IF x.email \in Users /\ x.right THEN "insert" ELSE "InvalidCredentials")
    /\ UNCHANGED <<clock, server, buckets, sessions, admitted, stops>>
NewSession(user) ==
    sessions' = Append(sessions, [user |-> user, expires_at |-> clock + Lifetime, revoked |-> FALSE])
InsertSession(r) ==
    /\ tasks[r].at = "insert"
    /\ NewSession(tasks[r].input.email)
    /\ Goto(r, "Ok")
    /\ UNCHANGED <<clock, server, buckets, admitted, stops>>

\* Mutant: a session is good until it expires.
Accepts_NotExpired(t) == t \in DOMAIN sessions /\ sessions[t].expires_at > clock
Accepts(t) == Valid(t)
validate_session(r) ==
    /\ tasks[r].at = "session"
    /\ Goto(r, IF ~Accepts(tasks[r].token) THEN "Unauthorized"
               ELSE IF tasks[r].input.kind = "admin" THEN "role" ELSE "handler")
    /\ UNCHANGED <<clock, server, buckets, sessions, admitted, stops>>
require_admin(r) ==
    /\ tasks[r].at = "role"
    /\ Goto(r, IF sessions[tasks[r].token].user \in Admins THEN "handler" ELSE "Forbidden")
    /\ UNCHANGED <<clock, server, buckets, sessions, admitted, stops>>

\* The handler; logout revokes the session the guard has read.
Handle(r) ==
    /\ tasks[r].at = "handler"
    /\ sessions' = IF tasks[r].input.kind = "logout" THEN [sessions EXCEPT ![tasks[r].token].revoked = TRUE]
                   ELSE sessions
    /\ Goto(r, "Ok")
    /\ UNCHANGED <<clock, server, buckets, admitted, stops>>

Outcomes == {"Ok", "RateLimited", "InvalidCredentials", "Unauthorized", "Forbidden"}
InFlight == {r \in Requests : tasks[r] \notin {NoTask, Gone}}

\* The task ends.
End(r) == tasks' = [tasks EXCEPT ![r] = Gone]
Respond(r) ==
    /\ tasks[r].at \in Outcomes /\ End(r)
    /\ UNCHANGED <<clock, server, buckets, sessions, admitted, stops>>

\* The client goes away and the task is dropped where it waits; a session
\* whose insert was sent may be there all the same.
DropRequest(r) ==
    /\ r \in InFlight /\ End(r)
    /\ UNCHANGED sessions \/ (tasks[r].at = "insert" /\ NewSession(tasks[r].input.email))
    /\ UNCHANGED <<clock, server, buckets, admitted, stops>>

-----------------------------------------------------------------------------
(* The process.                                                            *)

Tick ==
    /\ clock < MaxClock /\ clock' = clock + 1
    /\ UNCHANGED <<server, buckets, sessions, tasks, admitted, stops>>

\* shutdown_signal: no request is accepted any more.
Shutdown ==
    /\ server = "up" /\ stops < MaxStops
    /\ server' = "draining" /\ stops' = stops + 1
    /\ UNCHANGED <<clock, buckets, sessions, tasks, admitted>>

\* The process ends and everything that is not in the database goes with it.
Down ==
    /\ server' = "down"
    /\ tasks' = [r \in Requests |-> IF tasks[r] = NoTask THEN NoTask ELSE Gone]
    /\ buckets' = [l \in Limiters |-> Empty] /\ admitted' = [l \in Limiters |-> Empty]
    /\ UNCHANGED <<clock, sessions>>
Exit == server = "draining" /\ InFlight = {} /\ Down /\ UNCHANGED stops
Die == server # "down" /\ stops < MaxStops /\ Down /\ stops' = stops + 1
Start ==
    /\ server = "down" /\ server' = "up"
    /\ UNCHANGED <<clock, buckets, sessions, tasks, admitted, stops>>

Step(r) ==
    r \in InFlight /\
        (check_key(r) \/ FindUser(r) \/ InsertSession(r) \/ validate_session(r) \/ require_admin(r)
           \/ Handle(r) \/ Respond(r))
Tokens == DOMAIN sessions \cup {NoToken}
Next ==
    \/ \E r \in Requests : Step(r)
    \/ \E r \in Requests, x \in Arrivals, t \in Tokens :
          (FirstStep(x.kind) = "limit" <=> t = NoToken) /\ Arrive(r, x, t)
    \/ \E r \in Requests : DropRequest(r)
    \/ cleanup \/ Tick \/ Shutdown \/ Exit \/ Die \/ Start

Spec == Init /\ [][Next]_vars

-----------------------------------------------------------------------------
(* Properties.                                                             *)

TypeOK ==
    /\ clock \in Nat /\ stops \in Nat /\ server \in {"up", "draining", "down"}
    /\ DOMAIN buckets = Limiters
    /\ \A t \in DOMAIN sessions : sessions[t].user \in Users /\ sessions[t].revoked \in BOOLEAN

\* Admitting a sender now would exceed what the quota grants over some
\* stretch of time.
Exceeds(l, s) ==
    \E i \in DOMAIN Times(l, s) :
        (Len(Times(l, s)) - i + 2 - Burst) * Refill > clock - Times(l, s)[i]

\* In every stretch of time one process admits of one sender at most a burst
\* and what is refilled meanwhile, whatever the header of its requests held
\* and however often idle entries are evicted (rate_limit.rs "this cannot
\* change what any in-budget or over-budget caller experiences").
WithinBudget ==
    \A l \in Limiters : \A s \in DOMAIN admitted[l] : \A i, j \in DOMAIN admitted[l][s] :
        i <= j => (j - i + 1) * Refill <= Burst * Refill + admitted[l][s][j] - admitted[l][s][i]

\* A request is refused only when its own sender has used the quota, never
\* because others behind the same proxy have (rate_limit.rs, Finding H3).
OwnBudget ==
    [][\A r \in Requests :
          r \in InFlight /\ tasks[r].at = "limit" /\ tasks'[r] # Gone /\ tasks'[r].at = "RateLimited"
             => Exceeds(Limiter(tasks[r].input), Sender(tasks[r].input))]_vars

\* No handler runs for a request that came in after its session had been
\* logged out or had expired, also across a restart; one that came before
\* may still run after the logout (auth_service.rs validate_session).
LoggedOutStaysOut ==
    \A r \in Requests :
        r \in InFlight /\ tasks[r].at = "handler" /\ tasks[r].input.kind \in {"logout", "subscription", "admin"}
            => ~tasks[r].late
=============================================================================
