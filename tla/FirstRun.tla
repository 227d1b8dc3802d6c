-------------------------------- MODULE FirstRun --------------------------------
(***************************************************************************)
(* The first run of an installation: the installer's exchange token, the   *)
(* browser's ticket, and the one owner they lead to.  Sources:             *)
(* setup_owner.py, bootstrap.py, routers/setup.py, cli.py create-admin.    *)
(*                                                                         *)
(* A claim or a redeem looks for users first without a lock, then takes a  *)
(* transaction advisory lock, decides, and keeps the lock until its commit *)
(* makes its writes visible or a failure takes them back.  Its clock is    *)
(* read before it waits for the lock.                                      *)
(***************************************************************************)
EXTENDS Naturals, FiniteSets

CONSTANTS
    Users,            \* accounts that may be created
    Tokens,           \* exchange tokens, one for each installation attempt
    Tickets,          \* tickets that claims may issue
    Requests,         \* HTTP requests in progress at the same time
    Nobody, Free

VARIABLES
    user,             \* users: the row of each account, or Nobody
    owners,           \* users.id of redeemed tickets
    exchange,         \* bootstrap_exchanges
    ticket,           \* bootstrap_tickets
    setup,            \* first-run requests: step, what is presented, whether it is late
    setupLock         \* request holding FIRST_RUN_ADVISORY_LOCK_KEY

firstRun == <<owners, exchange, ticket, setup, setupLock>>

Life == {"none", "open", "expired", "consumed"}
Quiet == [step |-> "idle", shows |-> Nobody, late |-> FALSE]
UserRows == [role : {"admin", "hr"}, active : BOOLEAN]
Account(role) == [role |-> role, active |-> TRUE]

ASSUME UsersAssumption == IsFiniteSet(Users) /\ Nobody \notin UserRows
ASSUME RequestsAssumption == Free \notin Requests

Existing == {u \in Users : user[u] # Nobody}
NewUsers == Users \ Existing

FirstRunTypeOK ==
    /\ owners \subseteq Existing
    /\ exchange \in [Tokens -> Life]
    /\ ticket \in [Tickets -> Life]
    /\ setup \in [Requests -> [step : {"idle", "claim", "claiming", "redeem", "redeeming"},
                               shows : Tokens \cup Tickets \cup {Nobody}, late : BOOLEAN]]
    /\ setupLock \in Requests \cup {Free}

FirstRunInit ==
    /\ user = [u \in Users |-> Nobody]
    /\ owners = {}
    /\ exchange = [t \in Tokens |-> "none"]
    /\ ticket = [k \in Tickets |-> "none"]
    /\ setup = [r \in Requests |-> Quiet]
    /\ setupLock = Free

-----------------------------------------------------------------------------
(* Installation, time, and the operator's command line.  Once there is an  *)
(* account nobody asks for a token or a ticket, and their time stands still.*)

\* bootstrap_admin at the start of the backend: the hash of the configured
\* token is stored while there are no users; a token stored before stays as
\* it is, consumed or expired.
StartBackend(t) ==
    /\ Existing = {} /\ exchange[t] = "none"
    /\ exchange' = [exchange EXCEPT ![t] = "open"]
    /\ UNCHANGED <<user, owners, ticket, setup, setupLock>>

TokenExpires(t) ==
    /\ Existing = {} /\ exchange[t] = "open"
    /\ exchange' = [exchange EXCEPT ![t] = "expired"]
    /\ UNCHANGED <<user, owners, ticket, setup, setupLock>>

TicketExpires(k) ==
    /\ Existing = {} /\ ticket[k] = "open"
    /\ ticket' = [ticket EXCEPT ![k] = "expired"]
    /\ UNCHANGED <<user, owners, exchange, setup, setupLock>>

\* create-admin knows nothing of the first run and takes no lock.
CreateAdmin(u) ==
    /\ u \in NewUsers
    /\ user' = [user EXCEPT ![u] = Account("admin")]
    /\ UNCHANGED firstRun

\* A backend without an exchange token makes the default administrator.
BootstrapAdmin(u) == Existing = {} /\ CreateAdmin(u)

-----------------------------------------------------------------------------
(* Claim and redeem.                                                       *)

Ask(r, step, x, late) ==
    /\ setup[r] = Quiet /\ Existing = {}
    /\ setup' = [setup EXCEPT ![r] = [step |-> step, shows |-> x, late |-> late]]
    /\ UNCHANGED <<user, owners, exchange, ticket, setupLock>>

AskClaim(r, t) == exchange[t] # "none" /\ Ask(r, "claim", t, exchange[t] = "expired")
AskRedeem(r, k) == ticket[k] # "none" /\ Ask(r, "redeem", k, ticket[k] = "expired")

NoFirstRunLock == TRUE
FirstRunLockFree == setupLock = Free

\* A row is accepted when it was not expired at the request's own clock and is
\* not consumed now.
Accepted(row, r) == row # "consumed" /\ ~setup[r].late

Claim(r) ==
    /\ setup[r].step = "claim" /\ FirstRunLockFree
    /\ Accepted(exchange[setup[r].shows], r)
    /\ setup' = [setup EXCEPT ![r].step = "claiming"]
    /\ setupLock' = r
    /\ UNCHANGED <<user, owners, exchange, ticket>>

\* _users_exist, once more inside the single-flight section.
NoRecheck == TRUE
StillNobody == Existing = {}

Redeem(r) ==
    /\ setup[r].step = "redeem" /\ FirstRunLockFree
    /\ StillNobody
    /\ Accepted(ticket[setup[r].shows], r)
    /\ setup' = [setup EXCEPT ![r].step = "redeeming"]
    /\ setupLock' = r
    /\ UNCHANGED <<user, owners, exchange, ticket>>

\* The response of a request: its transaction and its lock end.
Answer(r) ==
    /\ setup' = [setup EXCEPT ![r] = Quiet]
    /\ setupLock' = IF setupLock = r THEN Free ELSE setupLock

\* A refusal under the lock, a lost connection, a crash of the backend.
GiveUp(r) ==
    /\ setup[r] # Quiet
    /\ Answer(r)
    /\ UNCHANGED <<user, owners, exchange, ticket>>

\* UPDATE ... WHERE consumed_at IS NULL, after the ticket is inserted.
CommitClaim(r, k) ==
    /\ setup[r].step = "claiming" /\ ticket[k] = "none"
    /\ exchange[setup[r].shows] # "consumed"
    /\ exchange' = [exchange EXCEPT ![setup[r].shows] = "consumed"]
    /\ ticket' = [ticket EXCEPT ![k] = "open"]
    /\ Answer(r)
    /\ UNCHANGED <<user, owners>>

\* The owner, its grant, preferences and session, in one transaction.
CommitRedeem(r, u) ==
    /\ setup[r].step = "redeeming" /\ u \in NewUsers
    /\ ticket[setup[r].shows] # "consumed"
    /\ ticket' = [ticket EXCEPT ![setup[r].shows] = "consumed"]
    /\ user' = [user EXCEPT ![u] = Account("admin")]
    /\ owners' = owners \cup {u}
    /\ Answer(r)
    /\ UNCHANGED exchange

FirstRunStep ==
    \/ \E t \in Tokens : StartBackend(t) \/ TokenExpires(t)
    \/ \E k \in Tickets : TicketExpires(k)
    \/ \E u \in Users : CreateAdmin(u) \/ BootstrapAdmin(u)
    \/ \E r \in Requests :
        \/ \E t \in Tokens : AskClaim(r, t)
        \/ \E k \in Tickets : AskRedeem(r, k) \/ CommitClaim(r, k)
        \/ \E u \in Users : CommitRedeem(r, u)
        \/ Claim(r) \/ Redeem(r) \/ GiveUp(r)

-----------------------------------------------------------------------------

\* The first run makes at most one owner, however many installations, tickets
\* and redeems there were (redeem_owner: "create the single pilot owner").
OneOwner == Cardinality(owners) <= 1

\* Not kept, and not claimed: an administrator created on the command line
\* while a redeem is between its check and its commit is joined by the owner.
OwnerIsFirst == [][owners' # owners => Existing = {}]_<<user, owners>>
=============================================================================
