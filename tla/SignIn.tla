--------------------------------- MODULE SignIn ---------------------------------
(***************************************************************************)
(* Sign-in to one account, its lockout, and the administrators' operations *)
(* that clear it.  Sources: routers/auth.py, routers/users.py.             *)
(*                                                                         *)
(* A login reads the account, verifies the password (slowly) and only then *)
(* writes; so do the administrators' requests.  Nothing locks the row, and *)
(* a commit writes the columns whose new value differs from what the       *)
(* request read.  The per-address rate limit, which may refuse any login,  *)
(* and the sessions are left out.                                          *)
(***************************************************************************)
EXTENDS Naturals, FiniteSets, Combinatorics

CONSTANTS
    Logins,        \* requests in progress at the same time
    MaxFailures,   \* settings.login_max_failures, at least 1
    Unread

VARIABLES
    account,       \* users: is_active, failed_login_count, locked_until
    call,          \* requests: what they do and the row they read
    wrong          \* history: wrong passwords since the count last was reset

vars == <<account, call, wrong>>

Idle == [op |-> "idle", saw |-> Unread]
Row == [active : BOOLEAN, failed : 0..MaxFailures-1, lock : {"none", "running", "over"}]
Ops == {"login", "unlock", "disable", "enable"}

TypeOK ==
    /\ account \in Row
    /\ call \in [Logins -> {Idle} \cup [op : Ops, saw : Row]]
    /\ wrong \in Nat

Init ==
    /\ account = [active |-> TRUE, failed |-> 0, lock |-> "none"]
    /\ call = [q \in Logins |-> Idle]
    /\ wrong = 0

Begin(q, op) ==
    /\ call[q] = Idle
    /\ op = "login" => account.active /\ account.lock # "running"
    /\ op = "disable" => account.active
    /\ op = "enable" => ~account.active
    /\ call' = [call EXCEPT ![q] = [op |-> op, saw |-> account]]
    /\ UNCHANGED <<account, wrong>>

Merge(row, saw, new) == [f \in DOMAIN row |-> IF new[f] = saw[f] THEN row[f] ELSE new[f]]

\* The request's commit.  A lock that starts is a new time, so it is written.
Write(q, new, locks) ==
    /\ account' = [Merge(account, call[q].saw, new)
                     EXCEPT !.lock = IF locks THEN "running" ELSE @]
    /\ call' = [call EXCEPT ![q] = Idle]

\* failed_login_count += 1, on the value read before the password was verified.
KeepsCounting(saw) == saw.failed + 1 > MaxFailures
Locks(saw) == saw.failed + 1 >= MaxFailures

WrongPassword(q) ==
    LET saw == call[q].saw IN
    /\ call[q].op = "login"
    /\ IF Locks(saw)
       THEN /\ Write(q, [saw EXCEPT !.failed = 0], TRUE)
            /\ wrong' = 0
       ELSE /\ Write(q, [saw EXCEPT !.failed = saw.failed + 1], FALSE)
            /\ wrong' = wrong + 1

Cleared(saw) == [saw EXCEPT !.failed = 0, !.lock = "none"]
Reset == wrong' = IF account'.failed = 0 THEN 0 ELSE wrong

RightPassword(q) ==
    /\ call[q].op = "login"
    /\ Write(q, Cleared(call[q].saw), FALSE)
    /\ Reset

Administer(q) ==
    LET saw == call[q].saw IN
    /\ call[q].op \in Ops \ {"login"}
    /\ Write(q, CASE call[q].op = "unlock"  -> Cleared(saw)
                  [] call[q].op = "disable" -> [saw EXCEPT !.active = FALSE]
                  [] call[q].op = "enable"  -> [Cleared(saw) EXCEPT !.active = TRUE],
             FALSE)
    /\ Reset

GivesUp(q) ==
    /\ call[q] # Idle
    /\ call' = [call EXCEPT ![q] = Idle]
    /\ UNCHANGED <<account, wrong>>

LockoutEnds ==
    /\ account.lock = "running"
    /\ account' = [account EXCEPT !.lock = "over"]
    /\ UNCHANGED <<call, wrong>>

Next ==
    \/ \E q \in Logins :
        \/ \E op \in Ops : Begin(q, op)
        \/ WrongPassword(q) \/ RightPassword(q) \/ Administer(q) \/ GivesUp(q)
    \/ LockoutEnds

Spec == Init /\ [][Next]_vars

-----------------------------------------------------------------------------

\* Concurrent logins lose increments of the count, so that the lock comes late,
\* but it comes.  While the count was not reset, R logins at a time make an
\* account take fewer wrong passwords than the multisets of MaxFailures - 1
\* elements out of R + 1 (login, "failed_login_count += 1"); with R = 1 it is
\* locked at the MaxFailures-th.
LockComes ==
    wrong < choose(Cardinality(Logins) + MaxFailures - 1, MaxFailures - 1)

\* Not kept: "consecutive failures -> temporary lock" (rate_limiting.py).
LockedOnTime == wrong < MaxFailures

\* Not kept: only time or an administrator end a lockout.  A login that read
\* the end of an earlier lockout clears the one that began meanwhile.
LockoutStands ==
    [][account.lock = "running" /\ account'.lock # "running" =>
        account'.lock = "over" \/ \E q \in Logins : call[q].op \in Ops \ {"login"}]_vars
=============================================================================
