-------------------------------- MODULE Accounts --------------------------------
(***************************************************************************)
(* User administration and licence seats, on top of the first run.         *)
(* Sources: routers/users.py, routers/license.py, routers/setup.py,        *)
(* services/license_service.py, deps.py.                                   *)
(*                                                                         *)
(* A request reads the rows it works on, decides, and writes at its commit *)
(* only the columns whose new value differs from what it read.  Sessions   *)
(* run at READ COMMITTED: SELECT ... FOR UPDATE waits for the rows it saw  *)
(* when it began and then drops those that no longer qualify; it does not  *)
(* see rows that appeared while it waited.                                 *)
(*                                                                         *)
(* Any active user may be signed in; the lockout is SignIn's.  Left out:   *)
(* the locks on active users that seat checks take after they have counted,*)
(* passwords, names, and pilot grants.                                     *)
(***************************************************************************)
EXTENDS FirstRun

CONSTANTS
    Licences, Seats,  \* licence files, max_active_users of each
    NoLicence

ASSUME SeatsAssumption == Seats \in [Licences -> Nat \ {0}]
ASSUME LicenceAssumption == NoLicence \notin Licences

VARIABLES
    licActive,        \* licences.is_active
    licLock,          \* request holding the row of each licence
    req,              \* requests in progress
    held,             \* user rows each request has locked
    unchecked,        \* history: users activated without a seat check
    raced             \* history: an upload missed a licence that is or becomes active

licences == <<licActive, licLock>>
admin == <<licences, req, held, unchecked, raced>>
vars == <<user, firstRun, admin>>

Idle == [op |-> "idle", on |-> Nobody, self |-> FALSE, saw |-> Nobody,
         lic |-> NoLicence, rows |-> {}, step |-> "idle"]

Checked == {"create", "enable"}
Ops == Checked \cup {"promote", "demote", "disable", "pilot", "upload"}
Steps == {"idle", "start", "wait", "locked", "commit"}

ActiveUsers == {u \in Existing : user[u].active}
Admins == {u \in Existing : user[u].role = "admin"}

TypeOK ==
    /\ FirstRunTypeOK
    /\ user \in [Users -> UserRows \cup {Nobody}]
    /\ licActive \subseteq Licences
    /\ licLock \in [Licences -> Requests \cup {Free}]
    /\ req \in [Requests -> [op : Ops \cup {"idle"}, on : Users \cup Licences \cup {Nobody},
                            self : BOOLEAN, saw : UserRows \cup {Nobody},
                            lic : Licences \cup {NoLicence},
                            rows : SUBSET (Users \cup Licences), step : Steps]]
    /\ \A r \in Requests : req[r].step = "idle" <=> req[r] = Idle
    /\ held \in [Requests -> SUBSET Users]
    /\ unchecked \subseteq Existing /\ raced \in BOOLEAN

AccountsInit ==
    /\ FirstRunInit
    /\ licActive = {} /\ unchecked = {}
    /\ licLock = [l \in Licences |-> Free]
    /\ req = [r \in Requests |-> Idle]
    /\ held = [r \in Requests |-> {}]
    /\ raced = FALSE

-----------------------------------------------------------------------------
(* A request begins: the session, its user and the role are checked, and   *)
(* the row it is about is read.                                            *)

Authorized(a) == a \in Admins \cap ActiveUsers

\* What each endpoint refuses at once.
Allowed(op, u, a) ==
    CASE op \in {"create", "pilot"}  -> u \in NewUsers
      [] op = "enable"               -> u \in Existing /\ ~user[u].active
      [] op = "disable"              -> u \in ActiveUsers /\ u # a
      [] op = "promote"              -> u \in Existing \ Admins /\ u # a
      [] op = "demote"               -> u \in Admins

Begin(r, a, op, u) ==
    /\ req[r] = Idle /\ setup[r] = Quiet /\ Authorized(a) /\ Allowed(op, u, a)
    /\ req' = [req EXCEPT ![r] =
                 [Idle EXCEPT !.op = op, !.on = u, !.saw = user[u],
                              !.self = (a = u),
                              !.step = CASE op \in Checked -> "start"
                                         [] op = "demote"  -> "start"
                                         [] OTHER          -> "commit"]]
    /\ UNCHANGED <<user, firstRun, licences, held, unchecked, raced>>

BeginUpload(r, a, l) ==
    /\ req[r] = Idle /\ setup[r] = Quiet /\ Authorized(a)
    /\ req' = [req EXCEPT ![r] = [Idle EXCEPT !.op = "upload", !.on = l,
                                               !.step = "start"]]
    /\ UNCHANGED <<user, firstRun, licences, held, unchecked, raced>>

\* The end of a request: response, rollback or crash; its row locks go.
End(r) ==
    /\ req' = [req EXCEPT ![r] = Idle]
    /\ held' = [held EXCEPT ![r] = {}]
    /\ licLock' = [l \in Licences |-> IF licLock[l] = r THEN Free ELSE licLock[l]]

Refuse(r) ==
    /\ req[r].step \in {"start", "wait", "locked", "commit"}
    /\ End(r)
    /\ UNCHANGED <<user, firstRun, licActive, unchecked, raced>>

-----------------------------------------------------------------------------
(* The licence row.  get_active_license_for_update: the statement sees the *)
(* active licences of its start and waits for one of them.                 *)

LockLicence(r) ==
    /\ req[r].op \in Checked \cup {"upload"} /\ req[r].step = "start"
    /\ req' = [req EXCEPT ![r].step = "wait", ![r].rows = licActive]
    /\ UNCHANGED <<user, firstRun, licences, held, unchecked, raced>>

NoRowLock(l) == TRUE
RowFree(l) == licLock[l] = Free

LicenceLocked(r, l) ==
    /\ req[r].op \in Checked \cup {"upload"} /\ req[r].step = "wait"
    /\ l \in req[r].rows \cap licActive /\ RowFree(l)
    /\ licLock' = [licLock EXCEPT ![l] = r]
    /\ req' = [req EXCEPT ![r].step = "locked", ![r].lic = l, ![r].rows = {}]
    /\ UNCHANGED <<user, firstRun, licActive, held, unchecked, raced>>

\* No licence yet, or the one waited for was replaced meanwhile: the request
\* goes on as if the installation had none.
NoLicenceLeft(r) ==
    /\ req[r].op \in Checked \cup {"upload"} /\ req[r].step = "wait"
    /\ req[r].rows \cap licActive = {} /\ \A l \in req[r].rows : RowFree(l)
    /\ req' = [req EXCEPT ![r].step = IF req[r].op = "upload" THEN "locked" ELSE "commit",
                          ![r].rows = {}]
    /\ raced' = (raced \/ /\ req[r].op = "upload"
                          /\ \/ licActive # {}
                             \/ \E q \in Requests \ {r} : req[q].op = "upload")
    /\ UNCHANGED <<user, firstRun, licences, held, unchecked>>

OneTooMany(r) == Cardinality(ActiveUsers) <= Seats[req[r].lic]
SeatLeft(r) == Cardinality(ActiveUsers) < Seats[req[r].lic]

CountSeats(r) ==
    /\ req[r].op \in Checked /\ req[r].step = "locked" /\ SeatLeft(r)
    /\ req' = [req EXCEPT ![r].step = "commit"]
    /\ UNCHANGED <<user, firstRun, licences, held, unchecked, raced>>

\* _process_upload: count, then (at the commit) the active row it found is
\* switched off and the uploaded one on.
CountForUpload(r) ==
    /\ req[r].op = "upload" /\ req[r].step = "locked"
    /\ Cardinality(ActiveUsers) <= Seats[req[r].on]
    /\ req' = [req EXCEPT ![r].step = "commit"]
    /\ UNCHANGED <<user, firstRun, licences, held, unchecked, raced>>

CommitUpload(r) ==
    /\ req[r].op = "upload" /\ req[r].step = "commit"
    /\ RowFree(req[r].on) \/ licLock[req[r].on] = r
    /\ licActive' = (licActive \ {req[r].lic}) \cup {req[r].on}
    /\ End(r)
    /\ UNCHANGED <<user, firstRun, unchecked, raced>>

-----------------------------------------------------------------------------
(* Users.                                                                  *)

RowsFree(r, S) == \A q \in Requests \ {r} : held[q] \cap S = {}

\* Demotion locks the rows of all administrators, then counts them.
LockAdmins(r) ==
    /\ req[r].op = "demote" /\ req[r].step = "start"
    /\ req' = [req EXCEPT ![r].step = "wait", ![r].rows = Admins]
    /\ UNCHANGED <<user, firstRun, licences, held, unchecked, raced>>

\* The rows that stay locked: those that still qualify.
ForgotForUpdate(r) == {}
StillAdmins(r) == req[r].rows \cap Admins

AdminsLocked(r) ==
    /\ req[r].op = "demote" /\ req[r].step = "wait"
    /\ RowsFree(r, req[r].rows)
    /\ Cardinality(req[r].rows \cap Admins) > 1 /\ ~req[r].self
    /\ held' = [held EXCEPT ![r] = StillAdmins(r)]
    /\ req' = [req EXCEPT ![r].step = "commit", ![r].rows = {}]
    /\ UNCHANGED <<user, firstRun, licences, unchecked, raced>>

\* A new account: name still free at the commit (unique index).
Insert(r, role) ==
    /\ req[r].step = "commit" /\ req[r].on \in NewUsers
    /\ user' = [user EXCEPT ![req[r].on] = Account(role)]

\* For the history: nothing was counted when there was no licence to count by.
Unseated(r) == IF req[r].lic = NoLicence THEN {req[r].on} ELSE {}

CreateUser(r, role) ==
    /\ req[r].op = "create" /\ Insert(r, role)
    /\ unchecked' = unchecked \cup Unseated(r)
    /\ End(r)
    /\ UNCHANGED <<firstRun, licActive, raced>>

\* create_pilot asks for no seat.
CreatePilot(r) ==
    /\ req[r].op = "pilot" /\ Insert(r, "admin")
    /\ unchecked' = unchecked \cup {req[r].on}
    /\ End(r)
    /\ UNCHANGED <<firstRun, licActive, raced>>

\* The columns a commit writes: those it changed relative to the row it read.
Written(row, saw, new) ==
    [f \in DOMAIN row |-> IF new[f] = saw[f] THEN row[f] ELSE new[f]]

Change(r) ==
    LET saw == req[r].saw IN
    CASE req[r].op = "promote" -> [saw EXCEPT !.role = "admin"]
      [] req[r].op = "demote"  -> [saw EXCEPT !.role = "hr"]
      [] req[r].op = "disable" -> [saw EXCEPT !.active = FALSE]
      [] req[r].op = "enable"  -> [saw EXCEPT !.active = TRUE]

UpdateUser(r) ==
    /\ req[r].op \in {"promote", "demote", "disable", "enable"}
    /\ req[r].step = "commit" /\ RowsFree(r, {req[r].on})
    /\ user' = [user EXCEPT ![req[r].on] = Written(@, req[r].saw, Change(r))]
    /\ unchecked' = CASE req[r].op = "disable" -> unchecked \ {req[r].on}
                      [] req[r].op = "enable"  -> unchecked \cup Unseated(r)
                      [] OTHER                 -> unchecked
    /\ End(r)
    /\ UNCHANGED <<firstRun, licActive, raced>>

-----------------------------------------------------------------------------

\* Accounts of the first run and of the command line ask for no seat.
Setup ==
    /\ FirstRunStep
    /\ unchecked' = unchecked \cup {u \in NewUsers : user'[u] # Nobody}
    /\ UNCHANGED <<licences, req, held, raced>>

Next ==
    \/ Setup
    \/ \E r \in Requests :
        \/ \E a, u \in Users, op \in Ops \ {"upload"} : Begin(r, a, op, u)
        \/ \E a \in Users, l \in Licences : BeginUpload(r, a, l)
        \/ \E l \in Licences : LicenceLocked(r, l)
        \/ \E role \in {"admin", "hr"} : CreateUser(r, role)
        \/ Refuse(r) \/ LockLicence(r) \/ NoLicenceLeft(r) \/ CountSeats(r)
        \/ CountForUpload(r) \/ CommitUpload(r) \/ LockAdmins(r) \/ AdminsLocked(r)
        \/ CreatePilot(r) \/ UpdateUser(r)

Init == AccountsInit
Spec == Init /\ [][Next]_vars

-----------------------------------------------------------------------------
(* Properties.                                                             *)

\* From the first account on there is an administrator, by role, whatever
\* demotions cross each other (update_user: "two concurrent demotions cannot
\* both act on the pre-change count").
AnAdminRemains == Existing # {} => Admins # {}

\* Until two uploads cross, the users activated after a seat check fit into the
\* active licence: creations, reactivations and the upload of a smaller licence
\* wait for each other (upload_license, create_user, update_user).
SeatsKept ==
    ~raced => \A l \in licActive : Cardinality(ActiveUsers \ unchecked) <= Seats[l]

-----------------------------------------------------------------------------
(* Statements of the code base that the code does not keep.                *)

\* models.py, License: "Only one row is active at a time".
OneActiveLicence == Cardinality(licActive) <= 1

\* Not claimed, but plausible: somebody can administer the installation.  Two
\* administrators may disable each other; a demotion counts disabled ones.
ActiveAdminRemains == Existing # {} => Admins \cap ActiveUsers # {}
=============================================================================
