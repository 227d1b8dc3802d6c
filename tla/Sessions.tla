-------------------------------- MODULE Sessions --------------------------------
(***************************************************************************)
(* The sessions of one user: signing in makes one, every request that      *)
(* passes with its cookie may extend it, and it ends by signing out or     *)
(* when it was idle.  Sources: deps.py, routers/auth.py, models.py.        *)
(*                                                                         *)
(* A request reads the session, then the user, then the clock, and only    *)
(* then writes the columns it changes; nothing locks the row, so requests  *)
(* of one browser overtake each other.  Passwords and lockouts are in      *)
(* SignIn; the CSRF token, which never changes, is left out.               *)
(***************************************************************************)
EXTENDS Naturals

CONSTANTS
    Tickets,       \* identifiers of sessions
    Requests,      \* in progress at the same time
    Ttl,           \* settings.session_ttl_minutes
    Interval,      \* _SESSION_REFRESH_INTERVAL
    MaxTime,       \* bound: the clock
    MaxSwitches,   \* bound: times the user is disabled or enabled
    Nothing

Times == 0..MaxTime
Row == [seen : Times, expires : Nat, revoked : BOOLEAN]

VARIABLES
    time,
    enabled,       \* users.is_active
    session,       \* user_sessions, or Nothing before the insert
    request,
    used,          \* history: when a request last passed with the session
    turned,        \* history: sessions whose end a request moved back
    switches

vars == <<time, enabled, session, request, used, turned, switches>>

Idle == [op |-> "none", of |-> Nothing, at |-> Nothing, saw |-> Nothing, now |-> Nothing]
Ops == {"login", "use", "logout"}

TypeOK ==
    /\ time \in Times /\ enabled \in BOOLEAN /\ switches \in 0..MaxSwitches
    /\ session \in [Tickets -> Row \cup {Nothing}]
    /\ request \in [Requests -> {Idle} \cup
         [op : Ops, of : Tickets \cup {Nothing}, at : {"arrived", "sliding", "passed"},
          saw : Row \cup {Nothing}, now : Times \cup {Nothing}]]
    /\ used \in [Tickets -> Times] /\ turned \in SUBSET Tickets

Init ==
    /\ time = 0 /\ enabled = TRUE /\ switches = 0
    /\ session = [t \in Tickets |-> Nothing]
    /\ request = [q \in Requests |-> Idle]
    /\ used = [t \in Tickets |-> 0] /\ turned = {}

Made == {t \in Tickets : session[t] # Nothing}
Live(t) == ~session[t].revoked /\ session[t].expires > time

Finish(q) == request' = [request EXCEPT ![q] = Idle]

-----------------------------------------------------------------------------

\* The login reads the user and the clock, checks the password, and inserts the row.
SignIn(q) ==
    /\ request[q] = Idle /\ enabled
    /\ request' = [request EXCEPT ![q] =
         [op |-> "login", of |-> Nothing, at |-> "passed", saw |-> Nothing, now |-> time]]
    /\ UNCHANGED <<time, enabled, session, used, turned, switches>>

New(now) == [seen |-> now, expires |-> now + Ttl, revoked |-> FALSE]

Issue(q, t) ==
    /\ request[q].op = "login" /\ t \notin Made
    /\ session' = [session EXCEPT ![t] = New(request[q].now)]
    /\ used' = [used EXCEPT ![t] = request[q].now]
    /\ Finish(q)
    /\ UNCHANGED <<time, enabled, turned, switches>>

\* get_current_session: a cookie of a session that was not revoked and not expired.
Arrive(q, t, op) ==
    /\ request[q] = Idle /\ t \in Made /\ Live(t)
    /\ request' = [request EXCEPT ![q] =
         [op |-> op, of |-> t, at |-> "arrived", saw |-> session[t], now |-> Nothing]]
    /\ UNCHANGED <<time, enabled, session, used, turned, switches>>

Passes(t, now) == used' = [used EXCEPT ![t] = IF now > @ THEN now ELSE @]

Due(q) == time - request[q].saw.seen >= Interval

Admit(q) ==
    LET t == request[q].of IN
    /\ request[q].at = "arrived" /\ enabled
    /\ request' = [request EXCEPT ![q].now = time,
                                  ![q].at = IF Due(q) THEN "sliding" ELSE "passed"]
    /\ IF Due(q) THEN UNCHANGED used ELSE Passes(t, time)
    /\ UNCHANGED <<time, enabled, session, turned, switches>>

WholeRow(row, now) == [seen |-> now, expires |-> now + Ttl, revoked |-> FALSE]

\* _slide_session: last_seen_at and expires_at are written, no other column.
Slid(row, now) == [row EXCEPT !.seen = now, !.expires = now + Ttl]

Slide(q) ==
    LET t == request[q].of
        now == request[q].now
    IN
    /\ request[q].at = "sliding"
    /\ session' = [session EXCEPT ![t] = Slid(@, now)]
    /\ turned' = IF session[t].seen > now THEN turned \cup {t} ELSE turned
    /\ request' = [request EXCEPT ![q].at = "passed"]
    /\ Passes(t, now)
    /\ UNCHANGED <<time, enabled, switches>>

\* get_current_user reads the user once more, and what follows is done.
Do(q) ==
    /\ request[q].op = "use" /\ request[q].at = "passed" /\ enabled
    /\ Finish(q)
    /\ UNCHANGED <<time, enabled, session, used, turned, switches>>

SignOut(q) ==
    /\ request[q].op = "logout" /\ request[q].at = "passed"
    /\ session' = [session EXCEPT ![request[q].of].revoked = TRUE]
    /\ Finish(q)
    /\ UNCHANGED <<time, enabled, used, turned, switches>>

\* A disabled user is refused, a wrong password too, and a request may be cut off.
GiveUp(q) ==
    /\ request[q] # Idle
    /\ Finish(q)
    /\ UNCHANGED <<time, enabled, session, used, turned, switches>>

\* An administrator disables or enables the user; the sessions are not touched.
Switch ==
    /\ switches < MaxSwitches
    /\ enabled' = ~enabled /\ switches' = switches + 1
    /\ UNCHANGED <<time, session, request, used, turned>>

Tick ==
    /\ time < MaxTime
    /\ time' = time + 1
    /\ UNCHANGED <<enabled, session, request, used, turned, switches>>

Next ==
    \/ \E q \in Requests :
        \/ SignIn(q) \/ Admit(q) \/ Slide(q) \/ Do(q) \/ SignOut(q) \/ GiveUp(q)
        \/ \E t \in Tickets : Issue(q, t) \/ Arrive(q, t, "use") \/ Arrive(q, t, "logout")
    \/ Switch \/ Tick

Spec == Init /\ [][Next]_vars

-----------------------------------------------------------------------------

\* "Idle timeouts accurate" (deps.py, _SESSION_REFRESH_INTERVAL): a session ends Ttl
\* after the last request that passed, and less than Interval earlier, unless a
\* request that was overtaken moved the end back.
IdleTimeIsKept ==
    \A t \in Made :
        /\ session[t].expires <= used[t] + Ttl
        /\ t \in turned \/ session[t].expires + Interval > used[t] + Ttl

\* A session that was revoked stays so, also when requests that came before extend
\* it; one that expired comes back only by a request that had come before.
Using(t) == \E q \in Requests : request[q].of = t

EndedSessionsStayEnded ==
    [][\A t \in Made :
        /\ session[t].revoked => session'[t].revoked
        /\ ~Live(t) /\ ~Using(t) => ~Live(t)']_vars

SessionsEnd == []IdleTimeIsKept /\ EndedSessionsStayEnded
=============================================================================
