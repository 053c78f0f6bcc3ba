-------------------------- MODULE Admission_proofs --------------------------
(***************************************************************************)
(* Theorems about Admission, for any requests, clients and quotas: no      *)
(* handler runs for a request that came after its session ended, nobody is *)
(* admitted more than the quota grants, and nobody is refused for another. *)
(***************************************************************************)
EXTENDS Admission, SequenceTheorems, WellFoundedInduction, TLAPS

(***************************************************************************)
(* Types                                                                   *)
(***************************************************************************)
Session == [user: Users, expires_at: Nat, revoked: BOOLEAN]
Places  == {"limit", "find", "insert", "session", "role", "handler"} \cup Outcomes
Task    == [at: Places, input: Arrivals, token: Nat \cup {NoToken}, late: BOOLEAN]

BucketsOK  == /\ DOMAIN buckets = Limiters
              /\ \A l \in Limiters : \A k \in DOMAIN buckets[l] : buckets[l][k] \in Nat
AdmittedOK == /\ DOMAIN admitted = Limiters
              /\ \A l \in Limiters : \A s \in DOMAIN admitted[l] : admitted[l][s] \in Seq(Nat)
TypeInv ==
    /\ clock \in Nat /\ stops \in Nat /\ server \in {"up", "draining", "down"}
    /\ tasks \in [Requests -> Task \cup {NoTask, Gone}]
    /\ sessions \in Seq(Session)
    /\ BucketsOK
    /\ AdmittedOK

(***************************************************************************)
(* Sessions                                                                *)
(***************************************************************************)
Guarded == {"logout", "subscription", "admin"}

\* What holds of a request in flight: only a user gets a session, and one behind the
\* session guard holds a session's token, which once it is no good stays so.
RequestOK(r) ==
    /\ tasks[r].at = "insert" => tasks[r].input.email \in Users
    /\ tasks[r].input.kind \in Guarded =>
         /\ tasks[r].at \notin {"limit", "find", "insert"}
         /\ tasks[r].token \in DOMAIN sessions
         /\ tasks[r].late => ~Valid(tasks[r].token)
         /\ tasks[r].at \in {"role", "handler"} => ~tasks[r].late
    /\ tasks[r].input.kind \notin Guarded => tasks[r].at \notin {"session", "role"}
GuardInv == \A r \in InFlight : RequestOK(r)
SessionInv == TypeInv /\ GuardInv

LEMMA InitSession == Init => SessionInv
BY DEF Init, SessionInv, TypeInv, GuardInv, InFlight, BucketsOK, AdmittedOK, Empty, Limiters

LEMMA InFlightIsTask ==
    ASSUME TypeInv, NEW r \in InFlight
    PROVE  r \in Requests /\ tasks[r] \in Task
BY DEF InFlight, TypeInv

\* A step that moves one task keeps the type of the tasks.
LEMMA GotoTyped ==
    ASSUME TypeInv, NEW r \in InFlight, NEW a \in Places, Goto(r, a)
    PROVE  /\ tasks' \in [Requests -> Task \cup {NoTask, Gone}]
           /\ tasks'[r] = [tasks[r] EXCEPT !.at = a]
           /\ \A q \in Requests \ {r} : tasks'[q] = tasks[q]
<1>1. r \in Requests /\ tasks[r] \in Task
  BY InFlightIsTask
<1>2. tasks' = [tasks EXCEPT ![r] = [tasks[r] EXCEPT !.at = a]]
  BY DEF Goto
<1>3. [tasks[r] EXCEPT !.at = a] \in Task
  BY <1>1 DEF Task
<1> QED
  BY <1>1, <1>2, <1>3 DEF TypeInv

\* A session that is added changes none of the others.
LEMMA AppendSession ==
    ASSUME TypeInv, NEW u \in Users, NewSession(u)
    PROVE  /\ sessions' \in Seq(Session)
           /\ DOMAIN sessions \subseteq DOMAIN sessions'
           /\ \A t \in DOMAIN sessions : sessions'[t] = sessions[t]
<1> DEFINE new == [user |-> u, expires_at |-> clock + Lifetime, revoked |-> FALSE]
<1>1. new \in Session
  BY AdmissionAssumption DEF Session, TypeInv
<1>2. sessions \in Seq(Session) /\ sessions' = Append(sessions, new)
  BY DEF NewSession, TypeInv
<1> HIDE DEF new
<1>3. /\ sessions' \in Seq(Session)
      /\ Len(sessions') = Len(sessions) + 1
      /\ \A t \in 1..Len(sessions) : sessions'[t] = sessions[t]
  BY <1>1, <1>2, AppendProperties
<1>4. DOMAIN sessions = 1..Len(sessions) /\ DOMAIN sessions' = 1..Len(sessions') /\ Len(sessions) \in Nat
  BY <1>2, <1>3, LenProperties
<1> QED
  BY <1>3, <1>4

\* What every step does to the sessions: none goes away, is prolonged or is restored.
SessionsKept ==
    /\ DOMAIN sessions \subseteq DOMAIN sessions'
    /\ \A t \in DOMAIN sessions : /\ sessions'[t].expires_at = sessions[t].expires_at
                                  /\ sessions[t].revoked => sessions'[t].revoked

LEMMA RequestKept ==
    ASSUME TypeInv, NEW q \in InFlight, RequestOK(q), tasks'[q] = tasks[q],
           clock' \in Nat, clock <= clock', sessions' \in Seq(Session), SessionsKept
    PROVE  RequestOK(q)'
<1>1. q \in Requests /\ tasks[q] \in Task
  BY InFlightIsTask
<1>2. ASSUME NEW t \in DOMAIN sessions, ~Valid(t)
      PROVE  ~Valid(t)'
  <2>0. sessions[t] \in Session
    BY <1>2, ElementOfSeq, LenProperties DEF TypeInv
  <2>1. sessions[t].expires_at \in Nat /\ sessions'[t].expires_at = sessions[t].expires_at
    BY <1>2, <2>0 DEF SessionsKept, Session
  <2> QED
    BY <1>2, <2>1 DEF Valid, SessionsKept, TypeInv
<1> QED
  BY <1>2 DEF RequestOK, SessionsKept

\* A step of one task keeps GuardInv when it keeps it for that task.
LEMMA OneTask ==
    ASSUME SessionInv, NEW r \in InFlight, clock' = clock, sessions' \in Seq(Session), SessionsKept,
           \A q \in Requests \ {r} : tasks'[q] = tasks[q],
           r \in InFlight' => RequestOK(r)'
    PROVE  GuardInv'
<1> SUFFICES ASSUME NEW q \in InFlight', q # r
             PROVE  RequestOK(q)'
  BY DEF GuardInv
<1>1. q \in Requests /\ tasks'[q] = tasks[q] /\ q \in InFlight
  BY DEF InFlight
<1>2. TypeInv /\ RequestOK(q)
  BY <1>1 DEF SessionInv, GuardInv
<1>3. clock' \in Nat /\ clock <= clock'
  BY <1>2 DEF TypeInv
<1> QED
  BY <1>1, <1>2, <1>3, RequestKept

LEMMA SameSessions ==
    ASSUME TypeInv, UNCHANGED sessions
    PROVE  sessions' \in Seq(Session) /\ SessionsKept
BY DEF TypeInv, SessionsKept

\* A step of a task that moves it and leaves the sessions.
LEMMA MoveOnly ==
    ASSUME SessionInv, NEW r \in InFlight, NEW a \in Places, Goto(r, a), UNCHANGED <<clock, sessions>>,
           a = "insert" => tasks[r].input.email \in Users,
           tasks[r].input.kind \in Guarded => a \notin {"limit", "find", "insert"},
           tasks[r].input.kind \in Guarded /\ a \in {"role", "handler"} => ~tasks[r].late,
           tasks[r].input.kind \notin Guarded => a \notin {"session", "role"}
    PROVE  /\ GuardInv'
           /\ tasks' \in [Requests -> Task \cup {NoTask, Gone}]
           /\ sessions' \in Seq(Session)
<1>1. TypeInv /\ r \in Requests /\ tasks[r] \in Task /\ RequestOK(r)
  BY InFlightIsTask DEF SessionInv, GuardInv
<1>2. /\ tasks' \in [Requests -> Task \cup {NoTask, Gone}]
      /\ tasks'[r] = [tasks[r] EXCEPT !.at = a]
      /\ \A q \in Requests \ {r} : tasks'[q] = tasks[q]
  BY <1>1, GotoTyped
<1>3. sessions' \in Seq(Session) /\ SessionsKept
  BY <1>1, SameSessions
<1>4. /\ tasks'[r].at = a /\ tasks'[r].input = tasks[r].input
      /\ tasks'[r].token = tasks[r].token /\ tasks'[r].late = tasks[r].late
  BY <1>1, <1>2 DEF Task
<1>5. Valid(tasks[r].token)' <=> Valid(tasks[r].token)'
  OBVIOUS
<1>6. RequestOK(r)'
  <2>1. tasks'[r].at = "insert" => tasks'[r].input.email \in Users
    BY <1>4
  <2>2. ASSUME tasks[r].input.kind \in Guarded
        PROVE  /\ tasks'[r].at \notin {"limit", "find", "insert"}
               /\ tasks'[r].token \in DOMAIN sessions'
               /\ tasks'[r].late => ~Valid(tasks[r].token)'
               /\ tasks'[r].at \in {"role", "handler"} => ~tasks'[r].late
    BY <1>1, <1>4, <2>2 DEF RequestOK, Valid
  <2> QED
    BY <1>4, <2>1, <2>2 DEF RequestOK, Valid
<1> QED
  BY <1>2, <1>3, <1>6, OneTask

(***************************************************************************)
(* The types of the limiters' tables                                       *)
(***************************************************************************)
LEMMA SameTables ==
    ASSUME TypeInv, UNCHANGED <<buckets, admitted>>
    PROVE  BucketsOK' /\ AdmittedOK'
BY DEF TypeInv, BucketsOK, AdmittedOK

LEMMA FullAtTyped ==
    ASSUME TypeInv, NEW l \in Limiters, NEW k
    PROVE  FullAt(l, k) \in Nat /\ clock <= FullAt(l, k)
BY DEF TypeInv, BucketsOK, FullAt

LEMMA TimesTyped ==
    ASSUME TypeInv, NEW l \in Limiters, NEW s
    PROVE  Times(l, s) \in Seq(Nat)
BY DEF TypeInv, AdmittedOK, Times

\* Admission charges one key of one limiter and notes the time for one sender.
Admits(l, k, s) ==
    /\ HasToken(l, k)
    /\ buckets' = [buckets EXCEPT ![l] =
                     [n \in DOMAIN @ \cup {k} |-> IF n = k THEN FullAt(l, k) + Refill ELSE @[n]]]
    /\ admitted' = [admitted EXCEPT ![l] =
                      [n \in DOMAIN @ \cup {s} |-> IF n = s THEN Append(Times(l, n), clock) ELSE @[n]]]

LEMMA AdmitsTables ==
    ASSUME TypeInv, NEW l \in Limiters, NEW k, NEW s, Admits(l, k, s)
    PROVE  /\ DOMAIN buckets' = Limiters /\ DOMAIN admitted' = Limiters
           /\ \A m \in Limiters \ {l} : buckets'[m] = buckets[m] /\ admitted'[m] = admitted[m]
           /\ DOMAIN buckets'[l] = DOMAIN buckets[l] \cup {k}
           /\ DOMAIN admitted'[l] = DOMAIN admitted[l] \cup {s}
           /\ buckets'[l][k] = FullAt(l, k) + Refill
           /\ admitted'[l][s] = Append(Times(l, s), clock)
           /\ \A n \in DOMAIN buckets[l] \ {k} : buckets'[l][n] = buckets[l][n]
           /\ \A n \in DOMAIN admitted[l] \ {s} : admitted'[l][n] = admitted[l][n]
BY DEF Admits, TypeInv, BucketsOK, AdmittedOK

LEMMA AdmitsTyped ==
    ASSUME TypeInv, NEW l \in Limiters, NEW k, NEW s, Admits(l, k, s)
    PROVE  BucketsOK' /\ AdmittedOK'
<1>1. FullAt(l, k) + Refill \in Nat
  BY FullAtTyped, AdmissionAssumption
<1>2. Append(Times(l, s), clock) \in Seq(Nat)
  BY TimesTyped, AppendProperties DEF TypeInv
<1>3. /\ DOMAIN buckets' = Limiters /\ DOMAIN admitted' = Limiters
      /\ \A m \in Limiters \ {l} : buckets'[m] = buckets[m] /\ admitted'[m] = admitted[m]
      /\ DOMAIN buckets'[l] = DOMAIN buckets[l] \cup {k}
      /\ DOMAIN admitted'[l] = DOMAIN admitted[l] \cup {s}
      /\ buckets'[l][k] \in Nat /\ admitted'[l][s] \in Seq(Nat)
      /\ \A n \in DOMAIN buckets[l] \ {k} : buckets'[l][n] = buckets[l][n]
      /\ \A n \in DOMAIN admitted[l] \ {s} : admitted'[l][n] = admitted[l][n]
  BY <1>1, <1>2, AdmitsTables
<1>4. ASSUME NEW m \in Limiters
      PROVE  /\ \A n \in DOMAIN buckets'[m] : buckets'[m][n] \in Nat
             /\ \A n \in DOMAIN admitted'[m] : admitted'[m][n] \in Seq(Nat)
  <2>1. CASE m = l
    BY <1>3, <2>1 DEF TypeInv, BucketsOK, AdmittedOK
  <2>2. CASE m # l
    BY <1>3, <2>2 DEF TypeInv, BucketsOK, AdmittedOK
  <2> QED
    BY <2>1, <2>2
<1> QED
  BY <1>3, <1>4 DEF BucketsOK, AdmittedOK

\* What the limiter does with a request.
LEMMA CheckKeyCases ==
    ASSUME NEW r, check_key(r)
    PROVE  LET x == tasks[r].input
               l == Limiter(x)
           IN  \/ l = "device" /\ Goto(r, "handler") /\ UNCHANGED <<buckets, admitted>>
               \/ Admits(l, Key(x), Sender(x)) /\ Goto(r, IF l = "login" THEN "find" ELSE "handler")
               \/ /\ Goto(r, "RateLimited") /\ UNCHANGED <<buckets, admitted>>
                  /\ ~HasToken(l, Key(x))
BY Zenon DEF check_key, Admits

LEMMA LimiterTyped == \A x : Limiter(x) \in Limiters
BY DEF Limiter, Limiters

LEMMA TablesTyped ==
    ASSUME TypeInv, [Next]_vars
    PROVE  BucketsOK' /\ AdmittedOK'
<1>1. ASSUME NEW r \in InFlight, check_key(r)
      PROVE  BucketsOK' /\ AdmittedOK'
  BY <1>1, CheckKeyCases, LimiterTyped, AdmitsTyped, SameTables
<1>2. ASSUME cleanup
      PROVE  BucketsOK' /\ AdmittedOK'
  BY <1>2 DEF cleanup, TypeInv, BucketsOK, AdmittedOK
<1>3. ASSUME Down
      PROVE  BucketsOK' /\ AdmittedOK'
  BY <1>3 DEF Down, BucketsOK, AdmittedOK, Empty
<1>4. ASSUME UNCHANGED <<buckets, admitted>>
      PROVE  BucketsOK' /\ AdmittedOK'
  BY <1>4, SameTables
<1> QED
  BY <1>1, <1>2, <1>3, <1>4
     DEF Next, vars, Step, FindUser, InsertSession, validate_session, require_admin, Handle, Respond,
         Arrive, DropRequest, Tick, Shutdown, Exit, Die, Start

(***************************************************************************)
(* The invariant of the sessions is inductive                              *)
(***************************************************************************)
\* What is left to show of a step, the tables being typed.
Rest == /\ clock' \in Nat /\ stops' \in Nat /\ server' \in {"up", "draining", "down"}
        /\ tasks' \in [Requests -> Task \cup {NoTask, Gone}]
        /\ sessions' \in Seq(Session)
        /\ GuardInv'

LEMMA EndTask ==
    ASSUME SessionInv, NEW r \in InFlight, End(r), UNCHANGED clock,
           sessions' \in Seq(Session), SessionsKept
    PROVE  tasks' \in [Requests -> Task \cup {NoTask, Gone}] /\ GuardInv'
<1>1. TypeInv /\ r \in Requests
  BY DEF SessionInv, InFlight
<1>2. /\ tasks' \in [Requests -> Task \cup {NoTask, Gone}]
      /\ tasks'[r] = Gone
      /\ \A q \in Requests \ {r} : tasks'[q] = tasks[q]
  BY <1>1 DEF End, TypeInv
<1>3. r \notin InFlight'
  BY <1>2 DEF InFlight
<1> QED
  BY <1>2, <1>3, OneTask

LEMMA StepRest ==
    ASSUME SessionInv, NEW r \in InFlight, Step(r)
    PROVE  Rest
<1> USE DEF SessionInv
<1>1. TypeInv /\ r \in Requests /\ tasks[r] \in Task /\ RequestOK(r)
  BY InFlightIsTask DEF GuardInv
<1>2. tasks[r].input \in Arrivals /\ tasks[r].input.kind \in Kinds
  BY <1>1, ArrivalAssumption DEF Task
<1>3. CASE check_key(r)
  <2>1. tasks[r].at = "limit" /\ UNCHANGED <<clock, server, sessions, stops>>
    BY <1>3 DEF check_key
  <2>2. tasks[r].input.kind \notin Guarded
    BY <1>1, <2>1 DEF RequestOK
  <2>3. PICK a \in {"handler", "find", "RateLimited"} : Goto(r, a)
    BY <1>3, CheckKeyCases
  <2> QED
    BY <1>1, <2>1, <2>2, <2>3, MoveOnly DEF Rest, TypeInv, Places, Outcomes, Guarded
<1>4. CASE FindUser(r)
  <2>1. tasks[r].at = "find" /\ UNCHANGED <<clock, server, sessions, stops>>
    BY <1>4 DEF FindUser
  <2>2. tasks[r].input.kind \notin Guarded
    BY <1>1, <2>1 DEF RequestOK
  <2>3. \/ Goto(r, "insert") /\ tasks[r].input.email \in Users
        \/ Goto(r, "InvalidCredentials")
    BY <1>4 DEF FindUser
  <2> QED
    BY <1>1, <2>1, <2>2, <2>3, MoveOnly DEF Rest, TypeInv, Places, Outcomes, Guarded
<1>5. CASE InsertSession(r)
  <2>1. /\ tasks[r].at = "insert" /\ Goto(r, "Ok") /\ NewSession(tasks[r].input.email)
        /\ UNCHANGED <<clock, server, stops>>
    BY <1>5 DEF InsertSession
  <2>2. tasks[r].input.email \in Users /\ tasks[r].input.kind \notin Guarded
    BY <1>1, <2>1 DEF RequestOK
  <2>3. sessions' \in Seq(Session) /\ SessionsKept
    BY <1>1, <2>1, <2>2, AppendSession DEF SessionsKept
  <2>4. /\ tasks' \in [Requests -> Task \cup {NoTask, Gone}]
        /\ tasks'[r] = [tasks[r] EXCEPT !.at = "Ok"]
        /\ \A q \in Requests \ {r} : tasks'[q] = tasks[q]
    BY <1>1, <2>1, GotoTyped DEF Places, Outcomes
  <2>5. RequestOK(r)'
    BY <1>1, <2>2, <2>4 DEF RequestOK, Task
  <2>6. GuardInv'
    BY <2>1, <2>3, <2>4, <2>5, OneTask
  <2> QED
    BY <1>1, <2>1, <2>3, <2>4, <2>6 DEF Rest, TypeInv
<1>6. CASE validate_session(r)
  <2>1. tasks[r].at = "session" /\ UNCHANGED <<clock, server, sessions, stops>>
    BY <1>6 DEF validate_session
  <2>2. tasks[r].input.kind \in Guarded
    BY <1>1, <2>1 DEF RequestOK
  <2>3. \/ Goto(r, "Unauthorized")
        \/ \E a \in {"role", "handler"} : Goto(r, a) /\ Valid(tasks[r].token)
    BY <1>6 DEF validate_session, Accepts
  <2>4. Valid(tasks[r].token) => ~tasks[r].late
    BY <1>1, <2>2 DEF RequestOK, Task
  <2> QED
    BY <1>1, <2>1, <2>2, <2>3, <2>4, MoveOnly DEF Rest, TypeInv, Places, Outcomes, Guarded
<1>7. CASE require_admin(r)
  <2>1. tasks[r].at = "role" /\ UNCHANGED <<clock, server, sessions, stops>>
    BY <1>7 DEF require_admin
  <2>2. tasks[r].input.kind \in Guarded /\ ~tasks[r].late
    BY <1>1, <2>1 DEF RequestOK
  <2>3. PICK a \in {"handler", "Forbidden"} : Goto(r, a)
    BY <1>7 DEF require_admin
  <2> QED
    BY <1>1, <2>1, <2>2, <2>3, MoveOnly DEF Rest, TypeInv, Places, Outcomes, Guarded
<1>8. CASE Handle(r)
  <2>1. tasks[r].at = "handler" /\ Goto(r, "Ok") /\ UNCHANGED <<clock, server, stops>>
    BY <1>8 DEF Handle
  <2>2. CASE tasks[r].input.kind = "logout"
    <3> DEFINE t == tasks[r].token
    <3>1. sessions' = [sessions EXCEPT ![t].revoked = TRUE]
      BY <1>8, <2>2 DEF Handle
    <3>2. t \in DOMAIN sessions /\ sessions \in Seq(Session)
      BY <1>1, <2>2 DEF RequestOK, Guarded, TypeInv
    <3>3. sessions[t] \in Session
      BY <3>2, ElementOfSeq, LenProperties
    <3> HIDE DEF t
    <3>4. [sessions[t] EXCEPT !.revoked = TRUE] \in Session
      BY <3>3 DEF Session
    <3>5. sessions' = [sessions EXCEPT ![t] = [sessions[t] EXCEPT !.revoked = TRUE]]
      BY <3>1
    <3>6. sessions' \in Seq(Session) /\ DOMAIN sessions' = DOMAIN sessions
      BY <3>2, <3>4, <3>5, ExceptSeq
    <3>7. SessionsKept
      <4>1. ASSUME NEW u \in DOMAIN sessions
            PROVE  /\ sessions'[u].expires_at = sessions[u].expires_at
                   /\ sessions[u].revoked => sessions'[u].revoked
        <5>1. CASE u = t
          BY <3>2, <3>3, <3>5, <5>1 DEF Session
        <5>2. CASE u # t
          BY <3>2, <3>5, <5>2
        <5> QED
          BY <5>1, <5>2
      <4> QED
        BY <3>6, <4>1 DEF SessionsKept
    <3>8. /\ tasks' \in [Requests -> Task \cup {NoTask, Gone}]
          /\ tasks'[r] = [tasks[r] EXCEPT !.at = "Ok"]
          /\ \A q \in Requests \ {r} : tasks'[q] = tasks[q]
      BY <1>1, <2>1, GotoTyped DEF Places, Outcomes
    <3>9. RequestOK(r)'
      <4>1. ~tasks[r].late /\ tasks[r].input.kind \in Guarded /\ t \in DOMAIN sessions'
        BY <1>1, <2>1, <2>2, <3>2, <3>6 DEF RequestOK, Guarded
      <4> QED
        BY <1>1, <3>8, <4>1 DEF RequestOK, Task, t
    <3>10. GuardInv'
      BY <2>1, <3>6, <3>7, <3>8, <3>9, OneTask
    <3> QED
      BY <1>1, <2>1, <3>6, <3>8, <3>10 DEF Rest, TypeInv
  <2>3. CASE tasks[r].input.kind # "logout"
    <3>1. UNCHANGED sessions
      BY <1>8, <2>3 DEF Handle
    <3> QED
      BY <1>1, <2>1, <3>1, MoveOnly DEF Rest, TypeInv, Places, Outcomes, Guarded
  <2> QED
    BY <2>2, <2>3
<1>9. CASE Respond(r)
  <2>1. End(r) /\ UNCHANGED <<clock, server, sessions, stops>>
    BY <1>9 DEF Respond
  <2>2. sessions' \in Seq(Session) /\ SessionsKept
    BY <1>1, <2>1, SameSessions
  <2> QED
    BY <1>1, <2>1, <2>2, EndTask DEF Rest, TypeInv
<1> QED
  BY <1>3, <1>4, <1>5, <1>6, <1>7, <1>8, <1>9 DEF Step

LEMMA ArriveRest ==
    ASSUME SessionInv, NEW r \in Requests, NEW x \in Arrivals, NEW t \in Tokens,
           FirstStep(x.kind) = "limit" <=> t = NoToken, Arrive(r, x, t)
    PROVE  Rest
<1> DEFINE new == [at |-> FirstStep(x.kind), input |-> x, token |-> t, late |-> ~Valid(t)]
<1>1. TypeInv /\ tasks[r] = NoTask /\ tasks' = [tasks EXCEPT ![r] = new]
      /\ UNCHANGED <<clock, server, sessions, stops>>
  BY DEF SessionInv, Arrive
<1>2. FirstStep(x.kind) = IF x.kind \in Guarded THEN "session" ELSE "limit"
  BY ArrivalAssumption DEF FirstStep, Guarded, Kinds
<1>3. t \in Nat \cup {NoToken} /\ (x.kind \in Guarded => t \in DOMAIN sessions)
  BY <1>1, <1>2, LenProperties DEF Tokens, TypeInv
<1>4. new \in Task
  <2>1. FirstStep(x.kind) \in Places
    BY <1>2 DEF Places
  <2>2. (~Valid(t)) \in BOOLEAN
    BY Zenon
  <2> QED
    BY <1>3, <2>1, <2>2, Zenon DEF Task
<1>5. /\ tasks' \in [Requests -> Task \cup {NoTask, Gone}] /\ tasks'[r] = new
      /\ \A q \in Requests \ {r} : tasks'[q] = tasks[q]
  <2> HIDE DEF new
  <2> QED
    BY <1>1, <1>4 DEF TypeInv
<1>6. RequestOK(r)'
  <2>1. Valid(t)' <=> Valid(t)
    BY <1>1 DEF Valid
  <2>2. /\ tasks'[r].at = FirstStep(x.kind) /\ tasks'[r].input = x
        /\ tasks'[r].token = t /\ tasks'[r].late = ~Valid(t)
    BY <1>5
  <2>3. tasks'[r].late => ~Valid(t)'
    BY <2>1, <2>2
  <2> QED
    BY <1>1, <1>2, <1>3, <2>2, <2>3 DEF RequestOK, Guarded, Valid
<1>7. ASSUME NEW q \in InFlight', q # r
      PROVE  RequestOK(q)'
  <2>1. q \in Requests /\ tasks'[q] = tasks[q] /\ q \in InFlight
    BY <1>5, <1>7 DEF InFlight
  <2>2. RequestOK(q)
    BY <2>1 DEF SessionInv, GuardInv
  <2>3. clock' \in Nat /\ clock <= clock'
    BY <1>1 DEF TypeInv
  <2> QED
    BY <1>1, <2>1, <2>2, <2>3, SameSessions, RequestKept
<1>8. GuardInv'
  BY <1>6, <1>7 DEF GuardInv
<1> QED
  BY <1>1, <1>5, <1>8 DEF Rest, TypeInv

LEMMA DropRest ==
    ASSUME SessionInv, NEW r \in Requests, DropRequest(r)
    PROVE  Rest
<1>1. TypeInv /\ r \in InFlight /\ End(r) /\ UNCHANGED <<clock, server, stops>>
  BY DEF SessionInv, DropRequest
<1>2. sessions' \in Seq(Session) /\ SessionsKept
  <2>1. CASE UNCHANGED sessions
    BY <1>1, <2>1, SameSessions
  <2>2. CASE tasks[r].at = "insert" /\ NewSession(tasks[r].input.email)
    <3>1. tasks[r].input.email \in Users
      BY <1>1, <2>2 DEF SessionInv, GuardInv, RequestOK
    <3> QED
      BY <1>1, <2>2, <3>1, AppendSession DEF SessionsKept
  <2> QED
    BY <2>1, <2>2 DEF DropRequest
<1> QED
  BY <1>1, <1>2, EndTask DEF Rest, TypeInv

\* Steps that move no task.
LEMMA QuietRest ==
    ASSUME SessionInv, UNCHANGED <<tasks, sessions>>, clock' \in Nat, clock <= clock',
           stops' \in Nat, server' \in {"up", "draining", "down"}
    PROVE  Rest
<1>1. ASSUME NEW q \in InFlight'
      PROVE  RequestOK(q)'
  <2>1. TypeInv /\ q \in InFlight /\ RequestOK(q)
    BY DEF SessionInv, GuardInv, InFlight
  <2> QED
    BY <2>1, SameSessions, RequestKept
<1> QED
  BY <1>1 DEF Rest, GuardInv, SessionInv, TypeInv

LEMMA DownRest ==
    ASSUME SessionInv, Down, stops' \in Nat
    PROVE  Rest
<1>1. TypeInv /\ \A r \in Requests : tasks'[r] \in {NoTask, Gone}
  BY DEF Down, SessionInv
<1>2. InFlight' = {}
  BY <1>1 DEF InFlight
<1> QED
  BY <1>1, <1>2 DEF Down, Rest, GuardInv, TypeInv

LEMMA NextRest ==
    ASSUME SessionInv, [Next]_vars
    PROVE  Rest
<1> USE DEF SessionInv
<1>1. ASSUME NEW r \in Requests, Step(r)
      PROVE  Rest
  BY <1>1, StepRest DEF Step
<1>2. ASSUME NEW r \in Requests, NEW x \in Arrivals, NEW t \in Tokens,
             FirstStep(x.kind) = "limit" <=> t = NoToken, Arrive(r, x, t)
      PROVE  Rest
  BY <1>2, ArriveRest
<1>3. ASSUME NEW r \in Requests, DropRequest(r)
      PROVE  Rest
  BY <1>3, DropRest
<1>4. CASE cleanup
  BY <1>4, QuietRest DEF cleanup, TypeInv
<1>5. CASE Tick
  BY <1>5, QuietRest DEF Tick, TypeInv
<1>6. CASE Shutdown
  BY <1>6, QuietRest DEF Shutdown, TypeInv
<1>7. CASE Exit
  BY <1>7, DownRest DEF Exit, TypeInv
<1>8. CASE Die
  BY <1>8, DownRest DEF Die, TypeInv
<1>9. CASE Start
  BY <1>9, QuietRest DEF Start, TypeInv
<1>10. CASE UNCHANGED vars
  BY <1>10, QuietRest DEF vars, TypeInv
<1> QED
  BY <1>1, <1>2, <1>3, <1>4, <1>5, <1>6, <1>7, <1>8, <1>9, <1>10 DEF Next

LEMMA SessionStep ==
    ASSUME SessionInv, [Next]_vars
    PROVE  SessionInv'
<1>1. Rest
  BY NextRest
<1>2. BucketsOK' /\ AdmittedOK'
  BY TablesTyped DEF SessionInv
<1> QED
  BY <1>1, <1>2 DEF Rest, SessionInv, TypeInv

LEMMA SessionInvariant == Spec => []SessionInv
<1>1. Init => SessionInv
  BY InitSession
<1>2. SessionInv /\ [Next]_vars => SessionInv'
  BY SessionStep
<1> QED
  BY <1>1, <1>2, PTL DEF Spec

\* Every variable has its type, for any number of requests: sessions are only ever users'.
THEOREM AdmissionTyped == Spec => []TypeOK
<1>1. SessionInv => TypeOK
  <2> SUFFICES ASSUME SessionInv PROVE TypeOK
    OBVIOUS
  <2>1. TypeInv /\ sessions \in Seq(Session)
    BY DEF SessionInv, TypeInv
  <2>2. ASSUME NEW t \in DOMAIN sessions PROVE sessions[t] \in Session
    BY <2>1, <2>2, ElementOfSeq, LenProperties
  <2> QED
    BY <2>1, <2>2 DEF TypeOK, TypeInv, BucketsOK, Session
<1> QED
  BY <1>1, SessionInvariant, PTL

\* validate_session and logout: the handler of a guarded route never runs for a request
\* that came in after its session was revoked or had expired, whatever logouts, crashes,
\* restarts and dropped requests happen between the guard's read and the handler.
THEOREM LoggedOutStaysOutHolds == Spec => []LoggedOutStaysOut
<1>1. SessionInv => LoggedOutStaysOut
  BY DEF SessionInv, GuardInv, RequestOK, LoggedOutStaysOut, Guarded
<1> QED
  BY <1>1, SessionInvariant, PTL

(***************************************************************************)
(* The key of the limiter is the sender                                    *)
(***************************************************************************)
\* < is well-founded on Nat, as a set of pairs.
LEMMA LessThan == IsWellFoundedOn({ss \in Nat \X Nat : ss[1] < ss[2]}, Nat)
BY NatLessThanWellFounded DEF OpToRel

\* A nonempty set of positions of a sequence has a greatest element.
LEMMA HasGreatest ==
    ASSUME NEW n \in Nat, NEW S \in SUBSET (1..n), S # {}
    PROVE  \E l \in S : \A m \in S : m <= l
<1> DEFINE T == {n - l : l \in S}
           R == {ss \in Nat \X Nat : ss[1] < ss[2]}
<1>1. T \subseteq Nat /\ T # {}
  <2>1. \A l \in S : n - l \in Nat
    OBVIOUS
  <2>2. PICK l \in S : TRUE
    OBVIOUS
  <2> QED
    BY <2>1, <2>2, Zenon
<1>2. PICK x \in T : \A y \in T : ~(<<y, x>> \in R)
  <2> HIDE DEF T
  <2>1. IsWellFoundedOn(R, Nat)
    BY LessThan
  <2> HIDE DEF R
  <2> QED
    BY <1>1, <2>1, WFMin
<1>3. \A y \in T : ~(y < x)
  <2> HIDE DEF T
  <2> QED
    BY <1>1, <1>2
<1>4. PICK l \in S : x = n - l
  OBVIOUS
<1>5. ASSUME NEW m \in S PROVE m <= l
  <2>1. n - m \in T
    OBVIOUS
  <2>2. ~(n - m < n - l)
    BY <2>1, <1>3, <1>4
  <2> QED
    BY <2>2
<1> QED
  BY <1>5

\* What a CHOOSE of the greatest element picks is the greatest element.
LEMMA GreatestIs ==
    ASSUME NEW S \in SUBSET Nat, NEW g \in S, \A j \in S : j <= g
    PROVE  (CHOOSE i \in S : \A j \in S : j <= i) = g
<1> DEFINE h == CHOOSE i \in S : \A j \in S : j <= i
<1>1. h \in S /\ \A j \in S : j <= h
  BY Zenon
<1> HIDE DEF h
<1>2. h <= g /\ g <= h /\ h \in Nat /\ g \in Nat
  BY <1>1
<1>3. h = g
  BY <1>2
<1> QED
  BY <1>3 DEF h

\* The last address of the header that is no proxy is where the request
\* entered our proxies, whatever the sender wrote in front of it.
LEMMA KeyIsSender ==
    ASSUME NEW x \in Arrivals
    PROVE  Key(x) = Sender(x)
<1>1. CASE x.kind # "login"
  BY <1>1 DEF Key, Sender
<1>2. CASE x.kind = "login"
  <2> DEFINE hops == x.hops
             said == x.said
             n == Len(hops)
             clients == {i \in DOMAIN hops : hops[i] \notin Proxies}
             header == said \o Front(hops)
             untrusted == {i \in DOMAIN header : header[i] \notin Proxies}
  <2>1. hops \in Seq(Addresses) /\ said \in Seq(Addresses) /\ clients # {}
    BY <1>2, ArrivalAssumption
  <2>2. n \in Nat /\ DOMAIN hops = 1..n /\ Len(said) \in Nat
    BY <2>1, LenProperties
  <2>3. PICK c \in clients : \A j \in clients : j <= c
    <3>1. clients \in SUBSET (1..n)
      BY <2>2
    <3> HIDE DEF clients, n
    <3> QED
      BY <2>1, <2>2, <3>1, HasGreatest
  <2>4. c \in 1..n /\ hops[c] \notin Proxies /\ \A j \in 1..n : hops[j] \notin Proxies => j <= c
    BY <2>2, <2>3
  <2>5. Sender(x) = hops[c]
    <3>1. (CHOOSE i \in clients : \A j \in clients : j <= i) = c
      <4>1. clients \in SUBSET Nat
        BY <2>2
      <4> HIDE DEF clients
      <4> QED
        BY <2>3, <4>1, GreatestIs
    <3>2. Sender(x) = hops[IF clients = {} THEN n ELSE CHOOSE i \in clients : \A j \in clients : j <= i]
      BY <1>2 DEF Sender
    <3> HIDE DEF clients
    <3> QED
      BY <2>1, <3>1, <3>2
  <2>6. /\ Front(hops) \in Seq(Addresses) /\ Len(Front(hops)) = n - 1
        /\ \A i \in 1..(n - 1) : Front(hops)[i] = hops[i]
    <3>1. \A i \in 1..(n - 1) : hops[i] \in Addresses
      BY <2>1, <2>2, ElementOfSeq
    <3> QED
      BY <2>2, <2>4, <3>1, SubSeqProperties DEF Front
  <2>7. /\ DOMAIN header = 1..(Len(said) + n - 1)
        /\ \A i \in 1..(n - 1) : header[Len(said) + i] = hops[i]
    <3> DEFINE front == Front(hops)
    <3> HIDE DEF hops, said, n, front
    <3>1. front \in Seq(Addresses) /\ Len(front) = n - 1
          /\ \A i \in 1..(n - 1) : front[i] = hops[i]
      BY <2>6 DEF front
    <3>2. /\ said \o front \in Seq(Addresses)
          /\ Len(said \o front) = Len(said) + Len(front)
          /\ \A i \in 1..(Len(said) + Len(front)) :
                (said \o front)[i] = IF i <= Len(said) THEN said[i] ELSE front[i - Len(said)]
      BY <2>1, <3>1, ConcatProperties
    <3>3. header = said \o front
      BY DEF front
    <3> HIDE DEF header
    <3>4. DOMAIN header = 1..(Len(said) + n - 1)
      BY <2>2, <2>4, <3>1, <3>2, <3>3, LenProperties
    <3>5. ASSUME NEW i \in 1..(n - 1)
          PROVE  header[Len(said) + i] = hops[i]
      <4>1. /\ Len(said) + i \in 1..(Len(said) + Len(front)) /\ ~(Len(said) + i <= Len(said))
            /\ Len(said) + i - Len(said) = i
        BY <2>2, <2>4, <3>1
      <4> QED
        BY <3>1, <3>2, <3>3, <4>1
    <3> QED
      BY <3>4, <3>5
  <2>8. Key(x) = IF hops[n] \notin Proxies \/ untrusted = {} THEN hops[n]
                 ELSE header[CHOOSE i \in untrusted : \A j \in untrusted : j <= i]
    BY <1>2 DEF Key, resolve_client_ip, Forwarded, Last
  <2> HIDE DEF hops, said, n, clients, header
  <2>9. CASE hops[n] \notin Proxies
    <3>1. c = n
      BY <2>2, <2>4, <2>9
    <3> QED
      BY <2>5, <2>8, <2>9, <3>1
  <2>10. CASE hops[n] \in Proxies
    <3> DEFINE g == Len(said) + c
    <3>1. c \in 1..(n - 1)
      BY <2>2, <2>4, <2>10
    <3>2. g \in untrusted /\ header[g] = hops[c]
      BY <2>2, <2>4, <2>7, <3>1
    <3>3. ASSUME NEW j \in untrusted PROVE j <= g
      <4>1. j \in 1..(Len(said) + n - 1) /\ header[j] \notin Proxies
        BY <2>7
      <4>2. CASE j <= Len(said)
        BY <2>2, <2>4, <4>1, <4>2
      <4>3. CASE j > Len(said)
        <5>1. j - Len(said) \in 1..(n - 1) /\ j = Len(said) + (j - Len(said))
          BY <2>2, <4>1, <4>3
        <5>2. hops[j - Len(said)] \notin Proxies
          BY <2>7, <4>1, <5>1
        <5> QED
          BY <2>2, <2>4, <5>1, <5>2
      <4> QED
        BY <2>2, <4>1, <4>2, <4>3
    <3>4. untrusted \in SUBSET Nat
      BY <2>2, <2>4, <2>7
    <3> HIDE DEF untrusted, g
    <3>5. (CHOOSE i \in untrusted : \A j \in untrusted : j <= i) = g
      BY <3>2, <3>3, <3>4, GreatestIs
    <3> QED
      BY <2>5, <2>8, <2>10, <3>2, <3>5
  <2> QED
    BY <2>9, <2>10
<1> QED
  BY <1>1, <1>2

(***************************************************************************)
(* The ledger: what a bucket holds, in terms of whom it has admitted when  *)
(***************************************************************************)
\* Where the bucket stands that was full when T[i] came and has not been since.
Owed(T, i) == T[i] + (Len(T) - i + 1) * Refill
\* WithinBudget, of the times of one sender.
InQuota(T) == \A i, j \in DOMAIN T : i <= j => (j - i + 1) * Refill <= Burst * Refill + T[j] - T[i]

\* A bucket owes every admission what came since, and it owes no more than
\* that: each entry goes back to a time when the bucket was full.
Ledger ==
    \A l \in Limiters :
       /\ \A s \in DOMAIN admitted[l] :
             /\ InQuota(admitted[l][s])
             /\ \A i \in DOMAIN admitted[l][s] : Owed(admitted[l][s], i) <= FullAt(l, s)
       /\ \A k \in DOMAIN buckets[l] :
             /\ k \in DOMAIN admitted[l]
             /\ \E i \in DOMAIN admitted[l][k] : buckets[l][k] = Owed(admitted[l][k], i)

LEMMA OneMore == \A m \in Int : m * Refill \in Int /\ (m + 1) * Refill = m * Refill + Refill
BY AdmissionAssumption

LEMMA BurstTyped == Burst * Refill \in Nat /\ Refill \in Nat /\ Refill > 0 /\ Refill <= Burst * Refill
<1>1. Burst \in Nat /\ Burst >= 1 /\ Refill \in Nat /\ Refill > 0
  BY AdmissionAssumption
<1>2. PICK b \in Nat : Burst = b + 1
  <2>1. Burst - 1 \in Nat /\ Burst = (Burst - 1) + 1
    BY <1>1
  <2> QED
    BY <2>1
<1>3. Burst * Refill = b * Refill + Refill /\ b * Refill \in Nat
  BY <1>1, <1>2
<1> QED
  BY <1>1, <1>3

LEMMA OwedTyped ==
    ASSUME NEW T \in Seq(Nat), NEW i \in DOMAIN T
    PROVE  T[i] \in Nat /\ i \in Nat /\ i <= Len(T) /\ Owed(T, i) \in Int
<1>1. T[i] \in Nat /\ i \in 1..Len(T) /\ Len(T) \in Nat
  BY LenProperties, ElementOfSeq
<1>2. PICK d \in Int : d = (Len(T) - i + 1) * Refill
  <2>1. Len(T) - i + 1 \in Int
    BY <1>1
  <2> QED
    BY <2>1, OneMore
<1>3. Owed(T, i) = T[i] + d
  BY <1>2 DEF Owed
<1> QED
  BY <1>1, <1>2, <1>3, SMTT(30)

\* Two facts of arithmetic.
LEMMA Regroup == \A a, d, r \in Int : a + (d + r) = (a + d) + r
OBVIOUS
LEMMA Bounded == \A t, d, f, r, c, b \in Int : t + d <= f + r /\ f + r <= c + b => d <= b + c - t
OBVIOUS

\* Arithmetic of one admission: at c, of a bucket that is full at f.
LEMMA OneAdmission ==
    ASSUME NEW T \in Seq(Nat), NEW c \in Nat, NEW f \in Nat, c <= f, f + Refill <= c + Burst * Refill,
           InQuota(T), \A i \in DOMAIN T : Owed(T, i) <= f
    PROVE  LET N == Append(T, c)
           IN  /\ InQuota(N)
               /\ \A i \in DOMAIN N : Owed(N, i) <= f + Refill
               /\ \A i \in DOMAIN T : i \in DOMAIN N /\ Owed(N, i) = Owed(T, i) + Refill
               /\ Len(N) \in DOMAIN N /\ Owed(N, Len(N)) = c + Refill
<1> DEFINE N == Append(T, c)
           n == Len(T)
<1>1. /\ N \in Seq(Nat) /\ Len(N) = n + 1 /\ N[n + 1] = c
      /\ \A i \in 1..n : N[i] = T[i]
      /\ n \in Nat /\ DOMAIN T = 1..n /\ DOMAIN N = 1..(n + 1)
  BY AppendProperties, LenProperties
<1> HIDE DEF N
<1>2. ASSUME NEW i \in DOMAIN T
      PROVE  i \in DOMAIN N /\ Owed(N, i) = Owed(T, i) + Refill
  <2>1. i \in 1..n /\ N[i] = T[i] /\ T[i] \in Nat
    BY <1>1, <1>2, OwedTyped
  <2>2. PICK m \in Int : m = n - i + 1
    BY <1>1, <2>1
  <2>3. Owed(T, i) = T[i] + m * Refill
    BY <2>2 DEF Owed
  <2>4. Owed(N, i) = T[i] + (m + 1) * Refill
    <3>1. Len(N) - i + 1 = m + 1
      BY <1>1, <2>1, <2>2
    <3> QED
      BY <2>1, <3>1 DEF Owed
  <2>5. PICK d \in Int : d = m * Refill
    BY OneMore
  <2>6. (m + 1) * Refill = d + Refill
    BY <2>5, OneMore
  <2>7. Owed(T, i) = T[i] + d /\ Owed(N, i) = T[i] + (d + Refill)
    BY <2>3, <2>4, <2>5, <2>6
  <2>8. Refill \in Nat
    BY BurstTyped
  <2>9. T[i] + (d + Refill) = (T[i] + d) + Refill
    BY <2>1, <2>5, <2>8, Regroup
  <2>10. i \in DOMAIN N
    BY <1>1, <2>1
  <2> QED
    BY <2>7, <2>9, <2>10, Zenon
<1>3. Owed(N, n + 1) = c + Refill
  <2>1. Len(N) - (n + 1) + 1 = 1
    BY <1>1
  <2> QED
    BY <1>1, <2>1, BurstTyped DEF Owed
<1>4. ASSUME NEW i \in DOMAIN N
      PROVE  Owed(N, i) <= f + Refill
  <2>1. CASE i \in DOMAIN T
    BY <1>2, <2>1, OwedTyped, BurstTyped
  <2>2. CASE i = n + 1
    BY <1>3, <2>2, BurstTyped
  <2> QED
    BY <1>1, <2>1, <2>2
<1>5. ASSUME NEW i \in DOMAIN N, NEW j \in DOMAIN N, i <= j
      PROVE  (j - i + 1) * Refill <= Burst * Refill + N[j] - N[i]
  <2>1. CASE j \in DOMAIN T
    <3>1. i \in DOMAIN T
      BY <1>1, <1>5, <2>1
    <3>2. N[i] = T[i] /\ N[j] = T[j]
      BY <1>1, <2>1, <3>1
    <3> QED
      BY <1>5, <2>1, <3>1, <3>2 DEF InQuota
  <2>2. CASE j = n + 1 /\ i = n + 1
    <3>1. j - i + 1 = 1
      BY <1>1, <2>2
    <3>2. (j - i + 1) * Refill = Refill
      BY <3>1, BurstTyped
    <3> QED
      BY <1>1, <2>2, <3>2, BurstTyped
  <2>3. CASE j = n + 1 /\ i \in DOMAIN T
    <3>1. j - i + 1 = Len(N) - i + 1 /\ N[j] = c /\ N[i] = T[i] /\ T[i] \in Nat
      BY <1>1, <2>3, OwedTyped
    <3>2. PICK d \in Int : d = (j - i + 1) * Refill
      <4>1. j - i + 1 \in Int
        BY <1>1, <2>3
      <4> QED
        BY <4>1, OneMore
    <3>3. Owed(N, i) = T[i] + d
      BY <3>1, <3>2 DEF Owed
    <3>4. T[i] + d <= f + Refill
      BY <1>4, <3>3
    <3>5. d <= Burst * Refill + c - T[i]
      <4>1. PICK b \in Nat : b = Burst * Refill
        BY BurstTyped
      <4>2. Refill \in Nat /\ f + Refill <= c + b
        BY <4>1, BurstTyped
      <4>3. d <= b + c - T[i]
        <5>1. T[i] \in Int /\ d \in Int /\ f \in Int /\ Refill \in Int /\ c \in Int /\ b \in Int
          BY <3>1, <3>2, <4>1, <4>2, SMTT(30)
        <5>2. T[i] + d <= f + Refill /\ f + Refill <= c + b
          BY <3>4, <4>2
        <5> QED
          BY <5>1, <5>2, Bounded, Zenon
      <4> QED
        BY <4>1, <4>3
    <3> QED
      BY <3>1, <3>2, <3>5
  <2> QED
    BY <1>1, <2>1, <2>2, <2>3
<1>6. InQuota(N)
  BY <1>5 DEF InQuota
<1> QED
  BY <1>1, <1>2, <1>3, <1>4, <1>6 DEF N

\* A step that admits nobody and takes nothing from a bucket but an entry
\* that is worth nothing.
LEMMA LedgerKept ==
    ASSUME TypeInv, TypeInv', Ledger, UNCHANGED admitted,
           \A l \in Limiters : /\ DOMAIN buckets'[l] \subseteq DOMAIN buckets[l]
                               /\ \A k \in DOMAIN buckets'[l] : buckets'[l][k] = buckets[l][k],
           \A l \in Limiters : \A s \in DOMAIN admitted[l] : FullAt(l, s) <= FullAt(l, s)'
    PROVE  Ledger'
<1> SUFFICES ASSUME NEW l \in Limiters
             PROVE  /\ \A s \in DOMAIN admitted[l] :
                          /\ InQuota(admitted[l][s])
                          /\ \A i \in DOMAIN admitted[l][s] : Owed(admitted[l][s], i) <= FullAt(l, s)'
                    /\ \A k \in DOMAIN buckets'[l] :
                          /\ k \in DOMAIN admitted[l]
                          /\ \E i \in DOMAIN admitted[l][k] : buckets'[l][k] = Owed(admitted[l][k], i)
  BY DEF Ledger, InQuota, Owed
<1>1. ASSUME NEW s \in DOMAIN admitted[l], NEW i \in DOMAIN admitted[l][s]
      PROVE  Owed(admitted[l][s], i) <= FullAt(l, s)'
  <2>1. admitted[l][s] \in Seq(Nat)
    BY DEF TypeInv, AdmittedOK
  <2>2. Owed(admitted[l][s], i) \in Int
    BY <2>1, OwedTyped
  <2>3. FullAt(l, s) \in Nat
    BY FullAtTyped
  <2>4. FullAt(l, s)' \in Nat
    BY DEF TypeInv, BucketsOK, FullAt
  <2>5. Owed(admitted[l][s], i) <= FullAt(l, s) /\ FullAt(l, s) <= FullAt(l, s)'
    BY DEF Ledger
  <2> QED
    BY <2>2, <2>3, <2>4, <2>5
<1> QED
  BY <1>1 DEF Ledger

LEMMA LedgerAdmits ==
    ASSUME TypeInv, Ledger, NEW l \in Limiters, NEW k, Admits(l, k, k), UNCHANGED clock
    PROVE  Ledger'
<1> DEFINE T == Times(l, k)
           N == Append(T, clock)
           f == FullAt(l, k)
<1>1. T \in Seq(Nat) /\ clock \in Nat /\ f \in Nat /\ clock <= f /\ f + Refill <= clock + Burst * Refill
  BY TimesTyped, FullAtTyped DEF TypeInv, Admits, HasToken
<1>2. InQuota(T) /\ \A i \in DOMAIN T : Owed(T, i) <= f
  BY DEF Ledger, Times, InQuota
<1>3. /\ InQuota(N) /\ \A i \in DOMAIN N : Owed(N, i) <= f + Refill
      /\ \A i \in DOMAIN T : i \in DOMAIN N /\ Owed(N, i) = Owed(T, i) + Refill
      /\ Len(N) \in DOMAIN N /\ Owed(N, Len(N)) = clock + Refill
  <2> HIDE DEF T, f
  <2> QED
    BY <1>1, <1>2, OneAdmission
<1>4. /\ DOMAIN buckets' = Limiters /\ DOMAIN admitted' = Limiters
      /\ \A m \in Limiters \ {l} : buckets'[m] = buckets[m] /\ admitted'[m] = admitted[m]
      /\ DOMAIN buckets'[l] = DOMAIN buckets[l] \cup {k}
      /\ DOMAIN admitted'[l] = DOMAIN admitted[l] \cup {k}
      /\ buckets'[l][k] = f + Refill
      /\ admitted'[l][k] = N
      /\ \A n \in DOMAIN buckets[l] \ {k} : buckets'[l][n] = buckets[l][n]
      /\ \A n \in DOMAIN admitted[l] \ {k} : admitted'[l][n] = admitted[l][n]
  BY AdmitsTables
<1>5. \E i \in DOMAIN N : f + Refill = Owed(N, i)
  <2>1. CASE f = clock
    BY <1>3, <2>1
  <2>2. CASE f # clock
    <3>1. k \in DOMAIN buckets[l] /\ f = buckets[l][k]
      BY <2>2 DEF FullAt
    <3>2. PICK i \in DOMAIN T : f = Owed(T, i)
      BY <3>1 DEF Ledger, Times
    <3> QED
      BY <1>3, <3>2
  <2> QED
    BY <2>1, <2>2
<1>6. FullAt(l, k)' = f + Refill
  <2>1. f + Refill > clock
    BY <1>1, BurstTyped
  <2> QED
    BY <1>4, <2>1 DEF FullAt
<1>7. \A m \in Limiters : \A n : m # l \/ n # k => FullAt(m, n)' = FullAt(m, n)
  BY <1>4 DEF FullAt
<1> HIDE DEF T, N, f
<1>8. ASSUME NEW m \in Limiters, NEW s \in DOMAIN admitted'[m]
      PROVE  /\ InQuota(admitted'[m][s])
             /\ \A i \in DOMAIN admitted'[m][s] : Owed(admitted'[m][s], i) <= FullAt(m, s)'
  <2>1. CASE m = l /\ s = k
    BY <1>3, <1>4, <1>6, <2>1
  <2>2. CASE m # l \/ s # k
    <3>1. s \in DOMAIN admitted[m] /\ admitted'[m][s] = admitted[m][s]
      BY <1>4, <1>8, <2>2
    <3>2. FullAt(m, s)' = FullAt(m, s)
      BY <1>7, <2>2
    <3> QED
      BY <3>1, <3>2 DEF Ledger
  <2> QED
    BY <2>1, <2>2
<1>9. ASSUME NEW m \in Limiters, NEW n \in DOMAIN buckets'[m]
      PROVE  /\ n \in DOMAIN admitted'[m]
             /\ \E i \in DOMAIN admitted'[m][n] : buckets'[m][n] = Owed(admitted'[m][n], i)
  <2>1. CASE m = l /\ n = k
    BY <1>4, <1>5, <2>1
  <2>2. CASE m # l \/ n # k
    <3>1. n \in DOMAIN buckets[m] /\ buckets'[m][n] = buckets[m][n]
      BY <1>4, <1>9, <2>2
    <3>2. n \in DOMAIN admitted[m] /\ \E i \in DOMAIN admitted[m][n] : buckets[m][n] = Owed(admitted[m][n], i)
      BY <3>1 DEF Ledger
    <3>3. n \in DOMAIN admitted'[m] /\ admitted'[m][n] = admitted[m][n]
      BY <1>4, <2>2, <3>2
    <3> QED
      BY <3>1, <3>2, <3>3
  <2> QED
    BY <2>1, <2>2
<1> QED
  BY <1>8, <1>9 DEF Ledger, InQuota, Owed

AdmissionInv == SessionInv /\ Ledger

LEMMA LedgerCheckKey ==
    ASSUME TypeInv, TypeInv', Ledger, NEW r \in InFlight, check_key(r)
    PROVE  Ledger'
<1> DEFINE x == tasks[r].input
<1>1. x \in Arrivals
  BY InFlightIsTask DEF Task
<1>2. Key(x) = Sender(x) /\ Limiter(x) \in Limiters
  BY <1>1, KeyIsSender, LimiterTyped
<1>3. UNCHANGED clock
  BY DEF check_key
<1>4. Admits(Limiter(x), Key(x), Key(x)) \/ UNCHANGED <<buckets, admitted>>
  BY <1>2, CheckKeyCases
<1>5. CASE Admits(Limiter(x), Key(x), Key(x))
  BY <1>2, <1>3, <1>5, LedgerAdmits
<1>6. CASE UNCHANGED <<buckets, admitted>>
  BY <1>3, <1>6, LedgerKept, FullAtTyped DEF FullAt
<1> QED
  BY <1>4, <1>5, <1>6

LEMMA LedgerStep ==
    ASSUME AdmissionInv, [Next]_vars
    PROVE  Ledger'
<1>1. TypeInv /\ TypeInv' /\ Ledger
  BY SessionStep DEF AdmissionInv, SessionInv
<1>2. ASSUME NEW r \in InFlight, check_key(r)
      PROVE  Ledger'
  BY <1>1, <1>2, LedgerCheckKey
<1>3. ASSUME cleanup
      PROVE  Ledger'
  <2>1. /\ UNCHANGED <<admitted, clock>>
        /\ \A l \in Limiters : /\ DOMAIN buckets'[l] = DOMAIN buckets[l] \ Idle(l)
                               /\ \A k \in DOMAIN buckets'[l] : buckets'[l][k] = buckets[l][k]
    BY <1>3 DEF cleanup
  <2>2. ASSUME NEW l \in Limiters, NEW s
        PROVE  FullAt(l, s) <= FullAt(l, s)'
    <3>1. FullAt(l, s)' = FullAt(l, s)
      <4>1. CASE s \in Idle(l)
        <5>1. buckets[l][s] <= clock /\ buckets[l][s] \in Nat /\ clock \in Nat /\ s \notin DOMAIN buckets'[l]
          BY <1>1, <2>1, <4>1 DEF Idle, TypeInv, BucketsOK
        <5> QED
          BY <2>1, <5>1 DEF FullAt
      <4>2. CASE s \notin Idle(l)
        BY <2>1, <4>2 DEF FullAt
      <4> QED
        BY <4>1, <4>2
    <3> QED
      BY <1>1, <3>1, FullAtTyped
  <2> QED
    BY <1>1, <2>1, <2>2, LedgerKept
<1>4. ASSUME Down
      PROVE  Ledger'
  BY <1>4 DEF Down, Ledger, Empty
<1>5. ASSUME UNCHANGED <<buckets, admitted>>, clock' = clock \/ clock' = clock + 1
      PROVE  Ledger'
  <2>1. ASSUME NEW l \in Limiters, NEW s
        PROVE  FullAt(l, s) <= FullAt(l, s)'
    BY <1>1, <1>5 DEF FullAt, TypeInv, BucketsOK
  <2> QED
    BY <1>1, <1>5, <2>1, LedgerKept
<1> QED
  BY <1>2, <1>3, <1>4, <1>5
     DEF Next, vars, Step, FindUser, InsertSession, validate_session, require_admin, Handle, Respond,
         Arrive, DropRequest, Tick, Shutdown, Exit, Die, Start

LEMMA AdmissionInvariant == Spec => []AdmissionInv
<1>1. Init => AdmissionInv
  BY InitSession DEF AdmissionInv, Ledger, Init, Empty
<1>2. AdmissionInv /\ [Next]_vars => AdmissionInv'
  <2>1. AdmissionInv /\ [Next]_vars => SessionInv' /\ Ledger'
    BY SessionStep, LedgerStep DEF AdmissionInv
  <2> QED
    BY <2>1 DEF AdmissionInv
<1> QED
  BY <1>1, <1>2, PTL DEF Spec

\* rate_limit.rs and resolve_client_ip: over every stretch of time one process admits of one
\* sender a burst and the refill at most, for any proxies, header and order of evictions.
THEOREM WithinBudgetHolds == Spec => []WithinBudget
<1>1. AdmissionInv => WithinBudget
  BY DEF AdmissionInv, Ledger, InQuota, WithinBudget
<1> QED
  BY <1>1, AdmissionInvariant, PTL

\* A bucket without a token has charged its sender for all it lacks.
LEMMA RefusedIsExceeded ==
    ASSUME TypeInv, Ledger, NEW l \in Limiters, NEW k, ~HasToken(l, k)
    PROVE  Exceeds(l, k)
<1> DEFINE T == Times(l, k)
<1>1. FullAt(l, k) \in Nat /\ clock \in Nat /\ T \in Seq(Nat)
  BY FullAtTyped, TimesTyped DEF TypeInv
<1>2. PICK b \in Nat : b = Burst * Refill
  BY BurstTyped
<1>3. FullAt(l, k) + Refill > clock + b
  BY <1>1, <1>2, BurstTyped DEF HasToken
<1>4. k \in DOMAIN buckets[l] /\ FullAt(l, k) = buckets[l][k]
  <2>1. FullAt(l, k) # clock
    BY <1>1, <1>2, <1>3, BurstTyped
  <2> QED
    BY <2>1 DEF FullAt
<1>5. PICK i \in DOMAIN T : FullAt(l, k) = Owed(T, i)
  BY <1>4 DEF Ledger, Times
<1> HIDE DEF T
<1>6. T[i] \in Nat /\ i \in Nat /\ Len(T) \in Nat
  BY <1>1, OwedTyped, LenProperties
<1>7. PICK m \in Int : m = Len(T) - i + 1
  BY <1>6
<1>8. PICK d \in Int : d = m * Refill
  BY OneMore
<1>9. T[i] + d + Refill > clock + b
  BY <1>3, <1>5, <1>7, <1>8 DEF Owed
<1>10. (Len(T) - i + 2 - Burst) * Refill = d + Refill - b
  <2>1. Len(T) - i + 2 - Burst = (m + 1) - Burst /\ Burst \in Int /\ Refill \in Int
    BY <1>6, <1>7, AdmissionAssumption, SMTT(30)
  <2>2. \A p, q, e \in Int : (p - q) * e = p * e - q * e
    OBVIOUS
  <2>3. ((m + 1) - Burst) * Refill = (m + 1) * Refill - Burst * Refill
    BY <2>1, <2>2
  <2>4. (m + 1) * Refill = d + Refill
    BY <1>8, OneMore
  <2> QED
    BY <1>2, <2>1, <2>3, <2>4
<1>11. d + Refill - b > clock - T[i]
  BY <1>1, <1>2, <1>6, <1>9, BurstTyped, SMTT(30)
<1> QED
  BY <1>10, <1>11 DEF Exceeds, T

\* rate_limit.rs, Finding H3: a refusal is its own sender's doing, never that of others behind
\* the same proxy, nor of what the sender wrote into the header.
THEOREM OwnBudgetHolds == Spec => OwnBudget
<1> DEFINE Own == \A r \in Requests :
              r \in InFlight /\ tasks[r].at = "limit" /\ tasks'[r] # Gone /\ tasks'[r].at = "RateLimited"
                 => Exceeds(Limiter(tasks[r].input), Sender(tasks[r].input))
<1>1. AdmissionInv /\ [Next]_vars => Own
  <2> SUFFICES ASSUME AdmissionInv, [Next]_vars, NEW r \in InFlight,
                      tasks[r].at = "limit", tasks'[r] # Gone, tasks'[r].at = "RateLimited"
               PROVE  Exceeds(Limiter(tasks[r].input), Sender(tasks[r].input))
    BY DEF InFlight
  <2>1. TypeInv /\ Ledger /\ r \in Requests /\ tasks[r] \in Task
    BY InFlightIsTask DEF AdmissionInv, SessionInv
  <2>2. tasks'[r] # tasks[r]
    OBVIOUS
  <2>3. check_key(r)
    <3>1. ASSUME NEW q \in Requests, NEW v, tasks' = [tasks EXCEPT ![q] = v], q # r
          PROVE  FALSE
      BY <2>1, <2>2, <3>1
    <3>2. ASSUME NEW q \in InFlight, Step(q), q # r
          PROVE  FALSE
      <4>1. q \in Requests /\ \E v : tasks' = [tasks EXCEPT ![q] = v]
        BY <3>2, CheckKeyCases DEF InFlight, Step, FindUser, InsertSession, validate_session,
                                   require_admin, Handle, Respond, Goto, End
      <4> QED
        BY <3>1, <3>2, <4>1
    <3>3. ASSUME NEW q \in Requests, End(q)
          PROVE  FALSE
      BY <2>1, <3>1, <3>3 DEF End, TypeInv
    <3>4. ASSUME NEW q \in Requests, NEW x, NEW t, Arrive(q, x, t)
          PROVE  FALSE
      BY <3>1, <3>4 DEF Arrive, InFlight
    <3>5. ASSUME Down
          PROVE  FALSE
      BY <3>5 DEF Down, InFlight
    <3>6. Step(r)
      BY <2>2, <3>2, <3>3, <3>4, <3>5
         DEF Next, vars, Step, DropRequest, cleanup, Tick, Shutdown, Exit, Die, Start
    <3> QED
      BY <3>6 DEF Step, FindUser, InsertSession, validate_session, require_admin, Handle, Respond, Outcomes
  <2>4. ~HasToken(Limiter(tasks[r].input), Key(tasks[r].input))
    <3>1. ASSUME NEW a \in {"handler", "find"}, Goto(r, a)
          PROVE  FALSE
      BY <2>1, <3>1 DEF Goto, TypeInv, Task
    <3> QED
      BY <2>3, <3>1, CheckKeyCases
  <2>5. Key(tasks[r].input) = Sender(tasks[r].input)
    BY <2>1, KeyIsSender DEF Task
  <2> QED
    BY <2>1, <2>4, <2>5, LimiterTyped, RefusedIsExceeded
<1>2. AdmissionInv /\ [Next]_vars => [Own]_vars
  BY <1>1
<1> QED
  BY <1>2, AdmissionInvariant, PTL DEF Spec, OwnBudget
=============================================================================
