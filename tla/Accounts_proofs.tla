----------------------------- MODULE Accounts_proofs -----------------------------
(***************************************************************************)
(* Theorems about Accounts and FirstRun, for every number of users,        *)
(* requests, tickets and licences, and about the update channel, the       *)
(* backups and the engine's updates that MCAccounts puts beside them.      *)
(***************************************************************************)
EXTENDS MCAccounts, FiniteSetTheorems, TLAPS

USE DEF licences, admin, firstRun, vars

\* Requests of the first run that hold its lock and are about to write.
Working(r) == setup[r].step \in {"claiming", "redeeming"}

\* What a step of the first run does to the accounts: none, or one new one.
MakesAtMostOne ==
    \/ user' = user
    \/ \E u \in NewUsers : user' = [user EXCEPT ![u] = Account("admin")]

SetupType == [Requests -> [step : {"idle", "claim", "claiming", "redeem", "redeeming"},
                           shows : Tokens \cup Tickets \cup {Nobody}, late : BOOLEAN]]

LEMMA RowsOfAccounts ==
    ASSUME NEW role \in {"admin", "hr"}
    PROVE  Account(role) \in UserRows /\ Account(role) # Nobody
<1>1. Account(role) \in UserRows
  BY DEF Account, UserRows
<1> QED
  BY <1>1, UsersAssumption

LEMMA SetupStep ==
    ASSUME TypeOK, Setup
    PROVE  /\ MakesAtMostOne
           /\ FirstRunTypeOK'
           /\ UNCHANGED <<licences, req, held, raced>>
           /\ unchecked' = unchecked \cup {u \in NewUsers : user'[u] # Nobody}
<1> USE RequestsAssumption DEF TypeOK, FirstRunTypeOK, FirstRunStep, Setup
<1>1. ASSUME NEW t \in Tokens, StartBackend(t) \/ TokenExpires(t)
      PROVE  MakesAtMostOne /\ FirstRunTypeOK'
  BY <1>1 DEF StartBackend, TokenExpires, MakesAtMostOne, Life, Existing
<1>2. ASSUME NEW k \in Tickets, TicketExpires(k)
      PROVE  MakesAtMostOne /\ FirstRunTypeOK'
  BY <1>2 DEF TicketExpires, MakesAtMostOne, Life, Existing
<1>3. ASSUME NEW u \in Users, CreateAdmin(u)
      PROVE  MakesAtMostOne /\ FirstRunTypeOK'
  BY <1>3, RowsOfAccounts DEF CreateAdmin, MakesAtMostOne, Existing
<1>4. ASSUME NEW r \in Requests, NEW t \in Tokens, AskClaim(r, t)
      PROVE  MakesAtMostOne /\ FirstRunTypeOK'
  BY <1>4 DEF AskClaim, Ask, MakesAtMostOne, Existing
<1>5. ASSUME NEW r \in Requests, NEW k \in Tickets, AskRedeem(r, k)
      PROVE  MakesAtMostOne /\ FirstRunTypeOK'
  BY <1>5 DEF AskRedeem, Ask, MakesAtMostOne, Existing
<1>6. ASSUME NEW r \in Requests, Claim(r) \/ Redeem(r) \/ GiveUp(r)
      PROVE  MakesAtMostOne /\ FirstRunTypeOK'
  <2>1. UNCHANGED <<user, owners, exchange, ticket>>
    BY <1>6 DEF Claim, Redeem, GiveUp
  <2>2. setup' \in SetupType /\ setupLock' \in Requests \cup {Free}
    <3>1. setup \in SetupType
      BY DEF SetupType
    <3>2. CASE Claim(r) \/ Redeem(r)
      <4>1. PICK s \in {"claiming", "redeeming"} : setup' = [setup EXCEPT ![r].step = s]
        BY <3>2 DEF Claim, Redeem
      <4>2. setupLock' = r
        BY <3>2 DEF Claim, Redeem
      <4> QED
        BY <3>1, <4>1, <4>2 DEF SetupType
    <3>3. CASE GiveUp(r)
      BY <3>1, <3>3 DEF GiveUp, Answer, Quiet, SetupType
    <3> QED
      BY <1>6, <3>2, <3>3
  <2> QED
    BY <2>1, <2>2 DEF MakesAtMostOne, SetupType, Existing
<1>7. ASSUME NEW r \in Requests, NEW k \in Tickets, CommitClaim(r, k)
      PROVE  MakesAtMostOne /\ FirstRunTypeOK'
  BY <1>7 DEF CommitClaim, Answer, Quiet, MakesAtMostOne, Life, Existing
<1>8. ASSUME NEW r \in Requests, NEW u \in Users, CommitRedeem(r, u)
      PROVE  MakesAtMostOne /\ FirstRunTypeOK'
  <2>1. user' = [user EXCEPT ![u] = Account("admin")] /\ u \in NewUsers
    BY <1>8 DEF CommitRedeem
  <2>2. owners' \subseteq Existing'
    BY <1>8, <2>1, RowsOfAccounts DEF CommitRedeem, Existing
  <2>3. UNCHANGED exchange /\ ticket' \in [Tickets -> Life]
    BY <1>8 DEF CommitRedeem, Life
  <2>4. setup' \in SetupType /\ setupLock' \in Requests \cup {Free}
    BY <1>8 DEF CommitRedeem, Answer, Quiet, SetupType
  <2> QED
    BY <2>1, <2>2, <2>3, <2>4 DEF MakesAtMostOne, SetupType
<1> QED
  BY <1>1, <1>2, <1>3, <1>4, <1>5, <1>6, <1>7, <1>8 DEF BootstrapAdmin

-----------------------------------------------------------------------------
\* An administrator's request about an account knows a row of it; what it read
\* is what its endpoint did not refuse.
Edits == {"promote", "demote", "disable", "enable"}
OnExisting ==
    \A r \in Requests :
        /\ req[r].op \in Edits => req[r].on \in Existing /\ req[r].saw \in UserRows
        /\ req[r].op = "disable" => req[r].saw.active
        /\ req[r].op = "enable" => ~req[r].saw.active
        /\ req[r].op \in {"create", "pilot"} => req[r].on \in Users
        /\ req[r].op = "upload" => req[r].on \in Licences

RequestType == [op : Ops \cup {"idle"}, on : Users \cup Licences \cup {Nobody},
                self : BOOLEAN, saw : UserRows \cup {Nobody},
                lic : Licences \cup {NoLicence},
                rows : SUBSET (Users \cup Licences), step : Steps]

\* What an UPDATE writes: the columns that differ from what was read.
LEMMA WrittenRow ==
    ASSUME NEW row \in UserRows, NEW saw \in UserRows, NEW new \in UserRows
    PROVE  /\ Written(row, saw, new) \in UserRows
           /\ Written(row, saw, new).role = IF new.role = saw.role THEN row.role ELSE new.role
           /\ Written(row, saw, new).active =
                IF new.active = saw.active THEN row.active ELSE new.active
<1>1. DOMAIN row = {"role", "active"}
  BY DEF UserRows
<1>2. Written(row, saw, new) =
        [role   |-> IF new.role = saw.role THEN row.role ELSE new.role,
         active |-> IF new.active = saw.active THEN row.active ELSE new.active]
  BY <1>1 DEF Written, UserRows
<1> QED
  BY <1>2 DEF UserRows

LEMMA ChangedRow ==
    ASSUME TypeOK, OnExisting, NEW r \in Requests, req[r].op \in Edits
    PROVE  /\ Change(r) \in UserRows
           /\ Change(r).role = CASE req[r].op = "promote" -> "admin"
                                 [] req[r].op = "demote"  -> "hr"
                                 [] OTHER -> req[r].saw.role
           /\ Change(r).active = CASE req[r].op = "disable" -> FALSE
                                   [] req[r].op = "enable"  -> TRUE
                                   [] OTHER -> req[r].saw.active
<1>1. req[r].saw \in UserRows
  BY DEF OnExisting
<1>2. CASE req[r].op = "promote"
  BY <1>1, <1>2 DEF Change, UserRows
<1>3. CASE req[r].op = "demote"
  BY <1>1, <1>3 DEF Change, UserRows
<1>4. CASE req[r].op = "disable"
  BY <1>1, <1>4 DEF Change, UserRows
<1>5. CASE req[r].op = "enable"
  BY <1>1, <1>5 DEF Change, UserRows
<1> QED
  BY <1>2, <1>3, <1>4, <1>5 DEF Edits

\* An UPDATE gives the row it is about its new values, and no other row.
LEMMA UpdatedUser ==
    ASSUME TypeOK, OnExisting, NEW r \in Requests, UpdateUser(r)
    PROVE  /\ req[r].on \in Existing /\ req[r].op \in Edits
           /\ user' \in [Users -> UserRows \cup {Nobody}]
           /\ \A u \in Users \ {req[r].on} : user'[u] = user[u]
           /\ user'[req[r].on] \in UserRows
           /\ user'[req[r].on].role =
                IF Change(r).role = req[r].saw.role THEN user[req[r].on].role ELSE Change(r).role
           /\ user'[req[r].on].active =
                IF Change(r).active = req[r].saw.active THEN user[req[r].on].active
                ELSE Change(r).active
           /\ Existing' = Existing
<1>1. req[r].op \in Edits /\ req[r].on \in Existing /\ req[r].saw \in UserRows
  BY DEF UpdateUser, Edits, OnExisting
<1>2. user[req[r].on] \in UserRows /\ req[r].on \in Users
  BY <1>1 DEF Existing, TypeOK
<1>3. Change(r) \in UserRows
  BY <1>1, ChangedRow
<1> DEFINE new == Written(user[req[r].on], req[r].saw, Change(r))
<1>4. /\ new \in UserRows
      /\ new.role = IF Change(r).role = req[r].saw.role THEN user[req[r].on].role ELSE Change(r).role
      /\ new.active = IF Change(r).active = req[r].saw.active THEN user[req[r].on].active
                      ELSE Change(r).active
  BY <1>1, <1>2, <1>3, WrittenRow
<1>5. user' = [user EXCEPT ![req[r].on] = new]
  BY DEF UpdateUser
<1> HIDE DEF new
<1>6. user'[req[r].on] = new /\ \A u \in Users \ {req[r].on} : user'[u] = user[u]
  BY <1>2, <1>5 DEF TypeOK
<1>7. Existing' = Existing
  BY <1>1, <1>2, <1>4, <1>6, UsersAssumption DEF Existing
<1>8. user' \in [Users -> UserRows \cup {Nobody}]
  BY <1>4, <1>5 DEF TypeOK
<1> QED
  BY <1>1, <1>4, <1>6, <1>7, <1>8

\* A new account is inserted; the others stay.
LEMMA InsertedUser ==
    ASSUME TypeOK, NEW r \in Requests, NEW role \in {"admin", "hr"}, Insert(r, role)
    PROVE  /\ user' = [user EXCEPT ![req[r].on] = Account(role)]
           /\ req[r].on \in NewUsers
           /\ user' \in [Users -> UserRows \cup {Nobody}]
           /\ Existing' = Existing \cup {req[r].on}
<1>1. req[r].on \in Users /\ user[req[r].on] = Nobody
  BY DEF Insert, NewUsers, Existing
<1>2. Account(role) \in UserRows /\ Account(role) # Nobody
  BY RowsOfAccounts
<1>3. user' = [user EXCEPT ![req[r].on] = Account(role)]
  BY DEF Insert
<1> HIDE DEF Account
<1>4. Existing' = Existing \cup {req[r].on}
  BY <1>1, <1>2, <1>3 DEF Existing, TypeOK
<1> QED
  BY <1>1, <1>2, <1>3, <1>4 DEF Insert, TypeOK

\* Nobody is ever deleted.
LEMMA ExistingStay ==
    ASSUME TypeOK, OnExisting, [Next]_vars
    PROVE  Existing \subseteq Existing'
<1>1. CASE user' = user
  BY <1>1 DEF Existing
<1>2. CASE Setup
  <2>1. MakesAtMostOne
    BY <1>2, SetupStep
  <2> QED
    BY <1>1, <2>1, RowsOfAccounts DEF MakesAtMostOne, Existing, TypeOK
<1>3. ASSUME NEW r \in Requests, NEW role \in {"admin", "hr"}, CreateUser(r, role)
      PROVE  Existing \subseteq Existing'
  BY <1>3, InsertedUser DEF CreateUser
<1>4. ASSUME NEW r \in Requests, CreatePilot(r)
      PROVE  Existing \subseteq Existing'
  BY <1>4, InsertedUser DEF CreatePilot
<1>5. ASSUME NEW r \in Requests, UpdateUser(r)
      PROVE  Existing \subseteq Existing'
  BY <1>5, UpdatedUser
<1> QED
  BY <1>1, <1>2, <1>3, <1>4, <1>5
     DEF Next, Begin, BeginUpload, LicenceLocked, Refuse, LockLicence, NoLicenceLeft,
         CountSeats, CountForUpload, CommitUpload, LockAdmins, AdminsLocked

\* Only request r moves: it begins, ends, or goes on with what it is about.
GoesOn(r) ==
    /\ req' \in [Requests -> RequestType]
    /\ \A q \in Requests \ {r} : req'[q] = req[q]
    /\ req'[r].step = "idle" <=> req'[r] = Idle
    /\ \/ req'[r] = Idle
       \/ req[r] = Idle /\ req'[r].op \in Ops
       \/ /\ req'[r].op = req[r].op /\ req'[r].on = req[r].on /\ req'[r].saw = req[r].saw
          /\ req'[r].step \notin {"start", "idle"}

\* The steps of a request, without those of the first run.
RequestStep(r) ==
    \/ \E a, u \in Users, op \in Ops \ {"upload"} : Begin(r, a, op, u)
    \/ \E a \in Users, l \in Licences : BeginUpload(r, a, l)
    \/ \E l \in Licences : LicenceLocked(r, l)
    \/ \E role \in {"admin", "hr"} : CreateUser(r, role)
    \/ Refuse(r) \/ LockLicence(r) \/ NoLicenceLeft(r) \/ CountSeats(r)
    \/ CountForUpload(r) \/ CommitUpload(r) \/ LockAdmins(r) \/ AdminsLocked(r)
    \/ CreatePilot(r) \/ UpdateUser(r)

LEMMA RequestSteps ==
    ASSUME TypeOK, NEW r \in Requests, RequestStep(r)
    PROVE  GoesOn(r)
<1>0. req \in [Requests -> RequestType]
  BY DEF TypeOK, RequestType
<1>1. ASSUME NEW a \in Users, NEW u \in Users, NEW op \in Ops \ {"upload"}, Begin(r, a, op, u)
      PROVE  GoesOn(r)
  <2> DEFINE step == CASE op \in Checked -> "start"
                       [] op = "demote"  -> "start"
                       [] OTHER          -> "commit"
             x == [Idle EXCEPT !.op = op, !.on = u, !.saw = user[u], !.self = (a = u),
                               !.step = step]
  <2>1. req[r] = Idle /\ req' = [req EXCEPT ![r] = x]
    BY <1>1, Zenon DEF Begin
  <2>7. user[u] \in UserRows \cup {Nobody}
    BY DEF TypeOK
  <2>2. step \in {"start", "commit"}
    OBVIOUS
  <2>3. x \in RequestType
    BY <2>2, <2>7 DEF Idle, RequestType, Steps
  <2>4. x.step \in {"start", "commit"} /\ Idle.step = "idle"
    BY <2>2 DEF Idle
  <2> HIDE DEF x
  <2>5. req'[r] = x /\ \A q \in Requests \ {r} : req'[q] = req[q]
    BY <1>0, <2>1
  <2>6. x.op \in Ops
    BY DEF x, Idle
  <2> QED
    BY <1>0, <2>1, <2>3, <2>4, <2>5, <2>6 DEF GoesOn
<1>2. ASSUME NEW a \in Users, NEW l \in Licences, BeginUpload(r, a, l)
      PROVE  GoesOn(r)
  <2> DEFINE x == [Idle EXCEPT !.op = "upload", !.on = l, !.step = "start"]
  <2>1. x \in RequestType /\ x.op \in Ops /\ x.step # "idle" /\ x # Idle
    BY DEF Idle, RequestType, Steps, Ops
  <2>2. req[r] = Idle /\ req' = [req EXCEPT ![r] = x]
    BY <1>2 DEF BeginUpload
  <2> HIDE DEF x
  <2> QED
    BY <1>0, <2>1, <2>2 DEF GoesOn
<1>3. ASSUME End(r)
      PROVE  GoesOn(r)
  <2>1. Idle \in RequestType /\ Idle.step = "idle"
    BY DEF Idle, RequestType, Steps
  <2> QED
    BY <1>0, <1>3, <2>1 DEF End, GoesOn
\* The rest go on with the same request.
<1>4. ASSUME \/ \E l \in Licences : LicenceLocked(r, l)
             \/ LockLicence(r) \/ NoLicenceLeft(r) \/ CountSeats(r)
             \/ CountForUpload(r) \/ LockAdmins(r) \/ AdminsLocked(r)
      PROVE  GoesOn(r)
  <2>1. req[r] \in RequestType
    BY <1>0
  <2>2. ASSUME NEW x \in RequestType, req'[r] = x,
               req[r].op = x.op, req[r].on = x.on, req[r].saw = x.saw,
               x.step \in {"wait", "locked", "commit"}, \E y : req' = [req EXCEPT ![r] = y]
        PROVE  GoesOn(r)
    <3>1. \A q \in Requests \ {r} : req'[q] = req[q]
      BY <1>0, <2>2
    <3>2. req' \in [Requests -> RequestType]
      BY <1>0, <2>2
    <3> QED
      BY <2>2, <3>1, <3>2 DEF GoesOn, Idle
  <2>3. ASSUME NEW step \in {"wait", "locked", "commit"}, NEW rows \in SUBSET (Users \cup Licences),
               req' = [req EXCEPT ![r].step = step, ![r].rows = rows]
        PROVE  GoesOn(r)
    <3> DEFINE x == [req[r] EXCEPT !.step = step, !.rows = rows]
    <3>1. req'[r] = x /\ req' = [req EXCEPT ![r] = x]
      BY <1>0, <2>3
    <3>2. /\ x \in RequestType /\ x.step = step
          /\ x.op = req[r].op /\ x.on = req[r].on /\ x.saw = req[r].saw
      BY <2>1 DEF RequestType, Steps
    <3> QED
      BY <2>2, <3>1, <3>2
  <2>4. ASSUME NEW step \in {"wait", "locked", "commit"}, req' = [req EXCEPT ![r].step = step]
        PROVE  GoesOn(r)
    <3> DEFINE x == [req[r] EXCEPT !.step = step]
    <3>1. req'[r] = x /\ req' = [req EXCEPT ![r] = x]
      BY <1>0, <2>4
    <3>2. /\ x \in RequestType /\ x.step = step
          /\ x.op = req[r].op /\ x.on = req[r].on /\ x.saw = req[r].saw
      BY <2>1 DEF RequestType, Steps
    <3> QED
      BY <2>2, <3>1, <3>2
  <2>5. ASSUME NEW l \in Licences, LicenceLocked(r, l)
        PROVE  GoesOn(r)
    <3> DEFINE x == [req[r] EXCEPT !.step = "locked", !.lic = l, !.rows = {}]
    <3>1. req'[r] = x /\ req' = [req EXCEPT ![r] = x]
      BY <1>0, <2>5 DEF LicenceLocked
    <3>2. /\ x \in RequestType /\ x.step = "locked"
          /\ x.op = req[r].op /\ x.on = req[r].on /\ x.saw = req[r].saw
      BY <2>1 DEF RequestType, Steps
    <3> QED
      BY <2>2, <3>1, <3>2
  <2>6. CASE LockLicence(r)
    BY <2>3, <2>6 DEF LockLicence, TypeOK
  <2>7. CASE LockAdmins(r)
    BY <2>3, <2>7 DEF LockAdmins, Admins, Existing
  <2>8. CASE NoLicenceLeft(r) \/ AdminsLocked(r)
    BY <2>3, <2>8 DEF NoLicenceLeft, AdminsLocked
  <2>9. CASE CountSeats(r) \/ CountForUpload(r)
    BY <2>4, <2>9 DEF CountSeats, CountForUpload
  <2> QED
    BY <1>4, <2>5, <2>6, <2>7, <2>8, <2>9
<1> QED
  BY <1>1, <1>2, <1>3, <1>4, Zenon
     DEF RequestStep, Refuse, CommitUpload, CreateUser, CreatePilot, UpdateUser

\* What a step of a request leaves of the other variables' types.
LEMMA RequestTypes ==
    ASSUME TypeOK, OnExisting, NEW r \in Requests, RequestStep(r)
    PROVE  TypeOK'
<1>0. TypeOK <=> /\ FirstRunTypeOK
                 /\ user \in [Users -> UserRows \cup {Nobody}]
                 /\ licActive \subseteq Licences
                 /\ licLock \in [Licences -> Requests \cup {Free}]
                 /\ req \in [Requests -> RequestType]
                 /\ \A q \in Requests : req[q].step = "idle" <=> req[q] = Idle
                 /\ held \in [Requests -> SUBSET Users]
                 /\ unchecked \subseteq Existing /\ raced \in BOOLEAN
  BY DEF TypeOK, RequestType
<1>1. /\ req' \in [Requests -> RequestType]
      /\ \A q \in Requests : req'[q].step = "idle" <=> req'[q] = Idle
  BY <1>0, RequestSteps DEF GoesOn
<1>2. UNCHANGED firstRun
  BY DEF RequestStep, Begin, BeginUpload, LicenceLocked, CreateUser, Refuse, LockLicence,
     NoLicenceLeft, CountSeats, CountForUpload, CommitUpload, LockAdmins, AdminsLocked,
     CreatePilot, UpdateUser
<1>3. /\ user' \in [Users -> UserRows \cup {Nobody}] /\ Existing \subseteq Existing'
      /\ unchecked' \subseteq Existing'
  <2>1. CASE UNCHANGED <<user, unchecked>>
    BY <1>0, <2>1 DEF Existing
  <2>2. ASSUME NEW role \in {"admin", "hr"}, CreateUser(r, role) \/ CreatePilot(r)
        PROVE  /\ user' \in [Users -> UserRows \cup {Nobody}] /\ Existing \subseteq Existing'
               /\ unchecked' \subseteq Existing'
    <3>1. /\ user' \in [Users -> UserRows \cup {Nobody}]
          /\ Existing' = Existing \cup {req[r].on}
      BY <2>2, InsertedUser DEF CreateUser, CreatePilot
    <3>2. unchecked' \subseteq unchecked \cup {req[r].on}
      BY <2>2 DEF CreateUser, CreatePilot, Unseated
    <3> QED
      BY <1>0, <3>1, <3>2
  <2>3. CASE UpdateUser(r)
    <3>1. /\ user' \in [Users -> UserRows \cup {Nobody}] /\ req[r].on \in Existing
          /\ Existing' = Existing
      BY <2>3, UpdatedUser
    <3>2. unchecked' \subseteq unchecked \cup {req[r].on}
      BY <2>3 DEF UpdateUser, Unseated
    <3> QED
      BY <1>0, <3>1, <3>2
  <2> QED
    BY <2>1, <2>2, <2>3
       DEF RequestStep, Begin, BeginUpload, LicenceLocked, Refuse, LockLicence,
           NoLicenceLeft, CountSeats, CountForUpload, CommitUpload, LockAdmins, AdminsLocked
<1>4. FirstRunTypeOK'
  BY <1>0, <1>2, <1>3 DEF FirstRunTypeOK
<1>5. /\ licActive' \subseteq Licences
      /\ licLock' \in [Licences -> Requests \cup {Free}]
      /\ held' \in [Requests -> SUBSET Users] /\ raced' \in BOOLEAN
  <2>1. ASSUME End(r), licActive' \subseteq Licences, raced' = raced
        PROVE  /\ licActive' \subseteq Licences
               /\ licLock' \in [Licences -> Requests \cup {Free}]
               /\ held' \in [Requests -> SUBSET Users] /\ raced' \in BOOLEAN
    BY <1>0, <2>1 DEF End
  <2>6. CASE CommitUpload(r)
    <3>1. req[r].on \in Licences
      BY <2>6 DEF CommitUpload, OnExisting
    <3>2. End(r) /\ licActive' \subseteq Licences /\ raced' = raced
      BY <1>0, <2>6, <3>1 DEF CommitUpload
    <3> QED
      BY <2>1, <3>2
  <2>7. CASE Refuse(r) \/ CreatePilot(r) \/ UpdateUser(r)
             \/ \E role \in {"admin", "hr"} : CreateUser(r, role)
    <3>1. End(r) /\ licActive' = licActive /\ raced' = raced
      BY <2>7, Zenon DEF Refuse, CreatePilot, UpdateUser, CreateUser
    <3> QED
      BY <1>0, <2>1, <3>1
  <2>2. CASE UNCHANGED <<licences, held, raced>>
    BY <1>0, <2>2
  <2>3. CASE \E l \in Licences : LicenceLocked(r, l)
    BY <1>0, <2>3 DEF LicenceLocked
  <2>4. CASE NoLicenceLeft(r)
    BY <1>0, <2>4 DEF NoLicenceLeft
  <2>5. CASE AdminsLocked(r)
    BY <1>0, <2>5 DEF AdminsLocked, StillAdmins, Admins, Existing
  <2> QED
    BY <1>0, <2>2, <2>3, <2>4, <2>5, <2>6, <2>7
       DEF RequestStep, Begin, BeginUpload, LockLicence, CountSeats, CountForUpload, LockAdmins
<1>6. TypeOK' <=> /\ FirstRunTypeOK'
                  /\ user' \in [Users -> UserRows \cup {Nobody}]
                  /\ licActive' \subseteq Licences
                  /\ licLock' \in [Licences -> Requests \cup {Free}]
                  /\ req' \in [Requests -> RequestType]
                  /\ \A q \in Requests : req'[q].step = "idle" <=> req'[q] = Idle
                  /\ held' \in [Requests -> SUBSET Users]
                  /\ unchecked' \subseteq Existing' /\ raced' \in BOOLEAN
  BY DEF TypeOK, RequestType
<1> QED
  BY <1>1, <1>3, <1>4, <1>5, <1>6

\* Types, and what requests know, are kept by every step.
LEMMA TypesInductive == TypeOK /\ OnExisting /\ [Next]_vars => TypeOK' /\ OnExisting'
<1> SUFFICES ASSUME TypeOK, OnExisting, [Next]_vars
             PROVE  TypeOK' /\ OnExisting'
  OBVIOUS
<1>0. Existing \subseteq Existing'
  BY ExistingStay
<1>1. CASE UNCHANGED vars
  BY <1>1 DEF TypeOK, FirstRunTypeOK, OnExisting, Existing
<1>2. CASE Setup
  <2>1. FirstRunTypeOK' /\ UNCHANGED <<licences, req, held, raced>>
    BY <1>2, SetupStep
  <2>2. user' \in [Users -> UserRows \cup {Nobody}]
    BY <1>2, SetupStep, RowsOfAccounts DEF MakesAtMostOne, TypeOK
  <2>3. unchecked' \subseteq Existing'
    BY <1>0, <1>2 DEF Setup, TypeOK, NewUsers, Existing
  <2>4. TypeOK'
    BY <2>1, <2>2, <2>3 DEF TypeOK
  <2>5. OnExisting'
    BY <1>0, <2>1 DEF OnExisting
  <2> QED
    BY <2>4, <2>5
<1>3. ASSUME NEW r \in Requests, RequestStep(r)
      PROVE  TypeOK' /\ OnExisting'
  <2>1. GoesOn(r)
    BY <1>3, RequestSteps
  <2>2. CASE req[r] = Idle /\ req'[r].op \in Ops
    <3>1. CASE \E a, u \in Users, op \in Ops \ {"upload"} : Begin(r, a, op, u)
      <4>1. PICK a \in Users, u \in Users, op \in Ops \ {"upload"} : Begin(r, a, op, u)
        BY <3>1
      <4>2. req'[r].op = op /\ req'[r].on = u /\ req'[r].saw = user[u]
        <5>1. PICK a1, step : req' = [req EXCEPT ![r] =
                  [Idle EXCEPT !.op = op, !.on = u, !.saw = user[u], !.self = a1, !.step = step]]
          BY <4>1, Zenon DEF Begin
        <5> QED
          BY <5>1 DEF Idle, TypeOK
      <4>3. /\ op \in Edits => u \in Existing /\ user[u] \in UserRows
            /\ op = "disable" => user[u].active
            /\ op = "enable" => ~user[u].active
        BY <4>1 DEF Begin, Allowed, Edits, Existing, ActiveUsers, Admins, TypeOK
      <4> QED
        BY <1>0, <1>3, <2>1, <4>2, <4>3, RequestTypes DEF GoesOn, OnExisting
    <3>2. CASE \E a \in Users, l \in Licences : BeginUpload(r, a, l)
      <4>1. PICK l \in Licences : req' = [req EXCEPT ![r] = [Idle EXCEPT !.op = "upload", !.on = l,
                                                                          !.step = "start"]]
        BY <3>2 DEF BeginUpload
      <4>2. req'[r].op = "upload" /\ req'[r].on \in Licences
        BY <4>1 DEF Idle, TypeOK
      <4> QED
        BY <1>0, <1>3, <2>1, <4>2, RequestTypes DEF GoesOn, OnExisting, Edits
    <3>3. Idle.step = "idle"
      BY DEF Idle
    <3> QED
      BY <1>3, <2>2, <3>1, <3>2, <3>3
         DEF RequestStep, LicenceLocked, CreateUser, Refuse, LockLicence,
             NoLicenceLeft, CountSeats, CountForUpload, CommitUpload, LockAdmins, AdminsLocked,
             CreatePilot, UpdateUser, Insert
  <2>3. CASE req'[r] = Idle
    <3>1. req'[r].op = "idle"
      BY <2>3 DEF Idle
    <3> QED
      BY <1>0, <1>3, <2>1, <3>1, RequestTypes DEF GoesOn, OnExisting, Edits
  <2>4. CASE req'[r].op = req[r].op /\ req'[r].on = req[r].on /\ req'[r].saw = req[r].saw
    BY <1>0, <1>3, <2>1, <2>4, RequestTypes DEF GoesOn, OnExisting
  <2> QED
    BY <2>1, <2>2, <2>3, <2>4 DEF GoesOn
<1> QED
  BY <1>1, <1>2, <1>3, Zenon DEF Next, RequestStep

\* Type correctness, with what a request in progress knows of the row it is
\* about (routers/users.py, routers/license.py).
THEOREM TypeCorrect == Spec => [](TypeOK /\ OnExisting)
<1>1. Init => TypeOK /\ OnExisting
  <2> SUFFICES ASSUME Init
               PROVE  TypeOK /\ OnExisting
    OBVIOUS
  <2>1. Existing = {} /\ \A r \in Requests : req[r] = Idle /\ req[r].op = "idle"
    BY DEF Init, AccountsInit, FirstRunInit, Existing, Idle
  <2>2. FirstRunTypeOK
    BY <2>1 DEF Init, AccountsInit, FirstRunInit, FirstRunTypeOK, Life, Quiet
  <2>3. Idle \in RequestType /\ Idle.step = "idle"
    BY DEF Idle, RequestType, Steps
  <2>4. TypeOK
    BY <2>1, <2>2, <2>3 DEF Init, AccountsInit, FirstRunInit, TypeOK, RequestType
  <2> QED
    BY <2>1, <2>4 DEF OnExisting, Edits
<1> QED
  BY <1>1, TypesInductive, PTL DEF Spec

-----------------------------------------------------------------------------
LEMMA AtMostOne ==
    ASSUME NEW S, \A a, b \in S : a = b
    PROVE  Cardinality(S) <= 1
<1>1. CASE S = {}
  BY <1>1, FS_EmptySet
<1>2. CASE S # {}
  <2>1. PICK a : S = {a}
    BY <1>2
  <2> QED
    BY <2>1, FS_Singleton
<1> QED
  BY <1>1, <1>2

\* Whoever is about to write in the first run has its lock, and a redeem that
\* is about to write found no account when it took it.
SetupHolds == \A r \in Requests : Working(r) => setupLock = r
NoOwnerYet == \A r \in Requests : setup[r].step = "redeeming" => owners = {}
OneAlone == \A u, v \in owners : u = v

\* The first run makes at most one owner, however many tokens, tickets and
\* concurrent redeems there are, whatever administrators the command line
\* creates meanwhile (setup_owner.py, redeem_owner).
THEOREM OneOwnerOnly == Spec => []OneOwner
<1> DEFINE Inv == SetupHolds /\ NoOwnerYet /\ OneAlone
<1>1. Init => Inv
  BY DEF Init, AccountsInit, FirstRunInit, SetupHolds, Working, Quiet, NoOwnerYet, OneAlone
<1>2. TypeOK /\ Inv /\ [Next]_vars => Inv'
  <2> SUFFICES ASSUME TypeOK, Inv, [Next]_vars
               PROVE  Inv'
    OBVIOUS
  <2>0. setup \in SetupType /\ owners \subseteq Existing
    BY DEF TypeOK, FirstRunTypeOK, SetupType
  <2>1. CASE UNCHANGED firstRun
    BY <2>1 DEF SetupHolds, Working, NoOwnerYet, OneAlone
  <2>2. ASSUME NEW r \in Requests, RequestStep(r)
        PROVE  Inv'
    BY <2>1, <2>2 DEF RequestStep, Begin, BeginUpload, LicenceLocked, CreateUser, Refuse,
       LockLicence, NoLicenceLeft, CountSeats, CountForUpload, CommitUpload, LockAdmins,
       AdminsLocked, CreatePilot, UpdateUser
  <2>3. ASSUME UNCHANGED <<owners, setup, setupLock>>
        PROVE  Inv'
    BY <2>3 DEF SetupHolds, Working, NoOwnerYet, OneAlone
  <2>4. ASSUME NEW r \in Requests, NEW step \in {"claim", "redeem"}, NEW x, NEW late,
               setup' = [setup EXCEPT ![r] = [step |-> step, shows |-> x, late |-> late]],
               UNCHANGED <<owners, setupLock>>
        PROVE  Inv'
    BY <2>0, <2>4 DEF SetupHolds, Working, NoOwnerYet, OneAlone, SetupType
  <2>5. ASSUME NEW r \in Requests, Claim(r) \/ Redeem(r)
        PROVE  Inv'
    <3>1. \A q \in Requests : ~Working(q)
      BY <2>5, RequestsAssumption DEF Claim, Redeem, FirstRunLockFree, SetupHolds
    <3>2. setupLock' = r /\ owners' = owners /\ \A q \in Requests \ {r} : setup'[q] = setup[q]
      BY <2>0, <2>5 DEF Claim, Redeem, SetupType
    <3>3. setup'[r].step = "redeeming" => owners = {}
      <4>1. CASE Claim(r)
        BY <2>0, <4>1 DEF Claim, SetupType
      <4>2. CASE Redeem(r)
        BY <2>0, <4>2 DEF Redeem, StillNobody
      <4> QED
        BY <2>5, <4>1, <4>2
    <3> QED
      BY <3>1, <3>2, <3>3 DEF SetupHolds, Working, NoOwnerYet, OneAlone
  <2>6. ASSUME NEW r \in Requests, Answer(r)
        PROVE  SetupHolds' /\ \A q \in Requests : setup'[q].step = "redeeming"
                                 => q # r /\ setup[q].step = "redeeming"
    BY <2>0, <2>6 DEF Answer, Quiet, SetupHolds, Working, SetupType
  <2>7. ASSUME NEW r \in Requests, GiveUp(r) \/ \E k \in Tickets : CommitClaim(r, k)
        PROVE  Inv'
    <3>1. Answer(r) /\ owners' = owners
      BY <2>7, Zenon DEF GiveUp, CommitClaim
    <3> QED
      BY <2>6, <3>1 DEF NoOwnerYet, OneAlone
  <2>8. ASSUME NEW r \in Requests, NEW u \in Users, CommitRedeem(r, u)
        PROVE  Inv'
    <3>1. Answer(r) /\ owners' = owners \cup {u} /\ setup[r].step = "redeeming"
      BY <2>8 DEF CommitRedeem
    <3>2. owners = {} /\ setupLock = r
      BY <3>1 DEF NoOwnerYet, SetupHolds, Working
    <3>3. \A q \in Requests : setup'[q].step # "redeeming"
      BY <2>6, <3>1, <3>2 DEF SetupHolds, Working
    <3> QED
      BY <2>6, <3>1, <3>2, <3>3 DEF NoOwnerYet, OneAlone
  <2>9. ASSUME FirstRunStep
        PROVE  Inv'
    <3>1. CASE \E t \in Tokens : StartBackend(t) \/ TokenExpires(t)
      BY <2>3, <3>1 DEF StartBackend, TokenExpires
    <3>2. CASE \E k \in Tickets : TicketExpires(k)
      BY <2>3, <3>2 DEF TicketExpires
    <3>3. CASE \E u \in Users : CreateAdmin(u) \/ BootstrapAdmin(u)
      BY <2>3, <3>3 DEF CreateAdmin, BootstrapAdmin
    <3>4. CASE \E r \in Requests : (\E t \in Tokens : AskClaim(r, t)) \/ \E k \in Tickets : AskRedeem(r, k)
      <4>1. ASSUME NEW r \in Requests, NEW step \in {"claim", "redeem"}, NEW x, NEW late,
                   Ask(r, step, x, late)
            PROVE  Inv'
        <5>1. setup' = [setup EXCEPT ![r] = [step |-> step, shows |-> x, late |-> late]]
          BY <4>1, Zenon DEF Ask
        <5>2. UNCHANGED <<user, owners, exchange, ticket, setupLock>>
          BY <4>1, Zenon DEF Ask
        <5>3. UNCHANGED <<owners, setupLock>>
          BY <5>2
        <5> QED
          BY <2>4, <5>1, <5>3, Zenon
      <4>2. ASSUME NEW r \in Requests, NEW t \in Tokens, AskClaim(r, t)
            PROVE  Inv'
        <5>1. Ask(r, "claim", t, exchange[t] = "expired")
          BY <4>2, Zenon DEF AskClaim
        <5> QED
          BY <4>1, <5>1
      <4>3. ASSUME NEW r \in Requests, NEW k \in Tickets, AskRedeem(r, k)
            PROVE  Inv'
        <5>1. Ask(r, "redeem", k, ticket[k] = "expired")
          BY <4>3, Zenon DEF AskRedeem
        <5> QED
          BY <4>1, <5>1
      <4> QED
        BY <3>4, <4>2, <4>3
    <3> QED
      BY <2>5, <2>7, <2>8, <2>9, <3>1, <3>2, <3>3, <3>4, Zenon DEF FirstRunStep
  <2> QED
    BY <2>1, <2>2, <2>9, Zenon DEF Next, RequestStep, Setup, vars, firstRun
<1>3. Inv => OneOwner
  BY AtMostOne DEF OneAlone, OneOwner
<1> QED
  BY <1>1, <1>2, <1>3, TypeCorrect, PTL DEF Spec

-----------------------------------------------------------------------------
\* A demotion about to be committed counted two administrators whose rows it
\* holds; and nobody asks for anything before there is an account.
DemotionCounts ==
    \A r \in Requests : req[r].op = "demote" /\ req[r].step = "commit" =>
        held[r] \subseteq Admins /\ \E a, b \in held[r] : a # b
AskedByUsers == \A r \in Requests : req[r] # Idle => Existing # {}

\* Only the commit of a demotion takes an administrator away, and only one that
\* no other request has locked.
LEMMA AdminsStay ==
    ASSUME TypeOK, OnExisting, [Next]_vars
    PROVE  \/ Admins \subseteq Admins'
           \/ \E r \in Requests :
                /\ UpdateUser(r) /\ req[r].op = "demote"
                /\ Admins \ {req[r].on} \subseteq Admins'
<1>1. CASE user' = user
  BY <1>1 DEF Admins, Existing
<1>2. CASE Setup
  <2>1. MakesAtMostOne
    BY <1>2, SetupStep
  <2> QED
    BY <1>1, <2>1, RowsOfAccounts DEF MakesAtMostOne, Admins, Existing, NewUsers, TypeOK
<1>3. ASSUME NEW r \in Requests, NEW role \in {"admin", "hr"}, Insert(r, role)
      PROVE  Admins \subseteq Admins'
  <2>1. /\ user' = [user EXCEPT ![req[r].on] = Account(role)]
        /\ req[r].on \in NewUsers /\ Existing' = Existing \cup {req[r].on}
    BY <1>3, InsertedUser
  <2> QED
    BY <2>1 DEF Admins, Existing, NewUsers, TypeOK
<1>4. ASSUME NEW r \in Requests, UpdateUser(r)
      PROVE  \/ Admins \subseteq Admins'
             \/ req[r].op = "demote" /\ Admins \ {req[r].on} \subseteq Admins'
  <2>1. /\ Existing' = Existing /\ req[r].op \in Edits
        /\ \A u \in Users \ {req[r].on} : user'[u] = user[u]
        /\ user'[req[r].on].role =
             IF Change(r).role = req[r].saw.role THEN user[req[r].on].role ELSE Change(r).role
    BY <1>4, UpdatedUser
  <2>2. Admins \ {req[r].on} \subseteq Admins'
    BY <2>1 DEF Admins, Existing
  <2>3. CASE req[r].op # "demote"
    <3>1. Change(r).role = req[r].saw.role \/ Change(r).role = "admin"
      BY <2>1, <2>3, ChangedRow DEF Edits
    <3>2. user[req[r].on].role = "admin" => user'[req[r].on].role = "admin"
      BY <2>1, <3>1
    <3> QED
      BY <2>1, <2>2, <3>2 DEF Admins
  <2> QED
    BY <2>2, <2>3
<1> QED
  BY <1>1, <1>2, <1>3, <1>4
     DEF Next, Begin, BeginUpload, LicenceLocked, Refuse, LockLicence, NoLicenceLeft,
         CountSeats, CountForUpload, CommitUpload, LockAdmins, AdminsLocked, CreateUser, CreatePilot

\* The rows a request holds are its own business.
LEMMA HeldByOthers ==
    ASSUME TypeOK, NEW r \in Requests, RequestStep(r), NEW q \in Requests, q # r
    PROVE  held'[q] = held[q] /\ req'[q] = req[q]
<1>1. req'[q] = req[q]
  BY RequestSteps DEF GoesOn
<1>2. CASE Refuse(r) \/ CommitUpload(r) \/ CreatePilot(r) \/ UpdateUser(r)
           \/ \E role \in {"admin", "hr"} : CreateUser(r, role)
  <2>1. End(r)
    BY <1>2, Zenon DEF Refuse, CommitUpload, CreatePilot, UpdateUser, CreateUser
  <2> QED
    BY <1>1, <2>1 DEF End, TypeOK
<1> QED
  BY <1>1, <1>2 DEF RequestStep, Begin, BeginUpload, LicenceLocked, LockLicence, NoLicenceLeft,
     CountSeats, CountForUpload, LockAdmins, AdminsLocked, TypeOK

\* A request gets to the commit of a demotion by counting the administrators.
LEMMA DemotionIsCounted ==
    ASSUME TypeOK, NEW r \in Requests, RequestStep(r),
           req'[r].op = "demote", req'[r].step = "commit"
    PROVE  AdminsLocked(r)
<1>0. req \in [Requests -> RequestType] /\ req[r] \in RequestType
  BY DEF TypeOK, RequestType
<1>1. ASSUME NEW a \in Users, NEW u \in Users, NEW op \in Ops \ {"upload"}, Begin(r, a, op, u)
      PROVE  FALSE
  <2> DEFINE step == CASE op \in Checked -> "start"
                       [] op = "demote"  -> "start"
                       [] OTHER          -> "commit"
  <2>1. req' = [req EXCEPT ![r] = [Idle EXCEPT !.op = op, !.on = u, !.saw = user[u],
                                               !.self = (a = u), !.step = step]]
    BY <1>1, Zenon DEF Begin
  <2>2. op = "demote" => step = "start"
    OBVIOUS
  <2> HIDE DEF step
  <2>3. req'[r].op = op /\ req'[r].step = step
    BY <1>0, <2>1 DEF Idle
  <2> QED
    BY <2>2, <2>3
<1>2. CASE \E a \in Users, l \in Licences : BeginUpload(r, a, l)
  BY <1>0, <1>2 DEF BeginUpload, Idle
<1>3. CASE Refuse(r) \/ CommitUpload(r) \/ CreatePilot(r) \/ UpdateUser(r)
           \/ \E role \in {"admin", "hr"} : CreateUser(r, role)
  <2>1. End(r)
    BY <1>3, Zenon DEF Refuse, CommitUpload, CreatePilot, UpdateUser, CreateUser
  <2> QED
    BY <1>0, <2>1 DEF End, Idle
<1>4. CASE LockAdmins(r)
  BY <1>0, <1>4 DEF LockAdmins, RequestType
<1>5. CASE LockLicence(r) \/ NoLicenceLeft(r) \/ CountSeats(r) \/ CountForUpload(r)
           \/ \E l \in Licences : LicenceLocked(r, l)
  <2>1. req[r].op \in Checked \cup {"upload"}
    BY <1>5 DEF LockLicence, NoLicenceLeft, CountSeats, CountForUpload, LicenceLocked
  <2>2. req'[r].op = req[r].op
    BY <2>1, RequestSteps DEF GoesOn, Idle, Checked
  <2> QED
    BY <2>1, <2>2 DEF Checked
<1> QED
  BY <1>1, <1>2, <1>3, <1>4, <1>5 DEF RequestStep

\* From the first account on there is an administrator, by role, whatever
\* demotions cross each other: each counts the rows it has locked
\* (routers/users.py, update_user).
THEOREM AdminRemains == Spec => []AnAdminRemains
<1> DEFINE Inv == DemotionCounts /\ AskedByUsers /\ AnAdminRemains
<1>1. Init => Inv
  BY DEF Init, AccountsInit, FirstRunInit, DemotionCounts, AskedByUsers, AnAdminRemains,
     Existing, Idle
<1>2. TypeOK /\ OnExisting /\ Inv /\ [Next]_vars => Inv'
  <2> SUFFICES ASSUME TypeOK, OnExisting, Inv, [Next]_vars
               PROVE  Inv'
    OBVIOUS
  <2>0. Existing \subseteq Existing'
    BY ExistingStay
  <2>1. CASE UNCHANGED vars
    BY <2>1 DEF DemotionCounts, AskedByUsers, AnAdminRemains, Admins, Existing
  <2>2. CASE Setup
    <3>1. UNCHANGED <<req, held>> /\ MakesAtMostOne
      BY <2>2, SetupStep
    <3>2. Admins \subseteq Admins'
      BY <2>2, <3>1, RowsOfAccounts DEF MakesAtMostOne, Admins, Existing, NewUsers, TypeOK
    <3>3. Existing' # Existing => Admins' # {}
      <4>1. ASSUME NEW u \in NewUsers, user' = [user EXCEPT ![u] = Account("admin")]
            PROVE  u \in Admins'
        BY <4>1, RowsOfAccounts DEF Admins, Existing, NewUsers, TypeOK, Account
      <4> QED
        BY <3>1, <4>1 DEF MakesAtMostOne, Existing
    <3> QED
      BY <2>0, <3>1, <3>2, <3>3 DEF DemotionCounts, AskedByUsers, AnAdminRemains
  <2>3. ASSUME NEW r \in Requests, RequestStep(r)
        PROVE  Inv'
    <3>1. Existing # {}
      <4>1. CASE req[r] # Idle
        BY <4>1 DEF AskedByUsers
      <4>2. CASE req[r] = Idle
        <5>0. req[r].step = "idle"
          BY <4>2 DEF Idle
        <5>2. \/ \E a, u \in Users, op \in Ops \ {"upload"} : Begin(r, a, op, u)
              \/ \E a \in Users, l \in Licences : BeginUpload(r, a, l)
          BY <2>3, <5>0 DEF RequestStep, LicenceLocked, CreateUser, Refuse,
             LockLicence, NoLicenceLeft, CountSeats, CountForUpload, CommitUpload, LockAdmins,
             AdminsLocked, CreatePilot, UpdateUser, Insert
        <5>1. \E a \in Users : Authorized(a)
          BY <5>2, Zenon DEF Begin, BeginUpload
        <5> QED
          BY <5>1 DEF Authorized, ActiveUsers
      <4> QED
        BY <4>1, <4>2
    <3>2. Admins # {}
      BY <3>1 DEF AnAdminRemains
    <3>3. AskedByUsers'
      BY <2>0, <3>1 DEF AskedByUsers
    <3>4. Admins' # {}
      <4>1. CASE Admins \subseteq Admins'
        BY <3>2, <4>1
      <4>2. ASSUME NEW q \in Requests, UpdateUser(q), req[q].op = "demote",
                   Admins \ {req[q].on} \subseteq Admins'
            PROVE  Admins' # {}
        <5>1. held[q] \subseteq Admins /\ \E a, b \in held[q] : a # b
          BY <4>2 DEF UpdateUser, DemotionCounts
        <5> QED
          BY <4>2, <5>1
      <4> QED
        BY <4>1, <4>2, AdminsStay
    <3>5. ASSUME NEW q \in Requests, req'[q].op = "demote", req'[q].step = "commit"
          PROVE  held'[q] \subseteq Admins' /\ \E a, b \in held'[q] : a # b
      <4>1. CASE q = r
        <5>1. AdminsLocked(r)
          BY <2>3, <3>5, <4>1, DemotionIsCounted
        <5>2. /\ held'[q] = StillAdmins(r) /\ user' = user
              /\ Cardinality(StillAdmins(r)) > 1
          BY <4>1, <5>1 DEF AdminsLocked, StillAdmins, TypeOK
        <5>4. IsFiniteSet(StillAdmins(r))
          BY UsersAssumption, FS_Subset DEF StillAdmins, Admins, Existing
        <5>5. Cardinality(StillAdmins(r)) \in Nat
          BY <5>4, FS_CardinalityType
        <5>3. \E a, b \in StillAdmins(r) : a # b
          BY <5>2, <5>5, AtMostOne
        <5> QED
          BY <5>2, <5>3 DEF StillAdmins, Admins, Existing
      <4>2. CASE q # r
        <5>1. held'[q] = held[q] /\ req'[q] = req[q]
          BY <2>3, <4>2, HeldByOthers
        <5>2. held[q] \subseteq Admins /\ \E a, b \in held[q] : a # b
          BY <3>5, <5>1 DEF DemotionCounts
        <5>3. held[q] \subseteq Admins'
          <6>1. CASE Admins \subseteq Admins'
            BY <5>2, <6>1
          <6>2. ASSUME NEW p \in Requests, UpdateUser(p), req[p].op = "demote",
                       Admins \ {req[p].on} \subseteq Admins'
                PROVE  held[q] \subseteq Admins'
            <7>1. p # q
              <8>1. req'[p] = Idle
                BY <6>2 DEF UpdateUser, End, TypeOK
              <8> QED
                BY <3>5, <8>1 DEF Idle
            <7>2. req[p].on \notin held[q]
              BY <6>2, <7>1 DEF UpdateUser, RowsFree
            <7> QED
              BY <5>2, <6>2, <7>2
          <6> QED
            BY <6>1, <6>2, AdminsStay
        <5> QED
          BY <5>1, <5>2, <5>3
      <4> QED
        BY <4>1, <4>2
    <3> QED
      BY <3>3, <3>4, <3>5 DEF DemotionCounts, AnAdminRemains
  <2> QED
    BY <2>1, <2>2, <2>3, Zenon DEF Next, RequestStep
<1> QED
  BY <1>1, <1>2, TypeCorrect, PTL DEF Spec

-----------------------------------------------------------------------------
\* Users who were activated after a seat check.
Seated == ActiveUsers \ unchecked

\* An upload that found no licence to replace.
FirstUpload(r) ==
    req[r].op = "upload" /\ req[r].step \in {"locked", "commit"} /\ req[r].lic = NoLicence

OneLicence == \A k, l \in licActive : k = l

\* A request knows the licence it has locked, and that one is the active one.
Holder(r) ==
    /\ req[r].lic # NoLicence =>
         /\ req[r].step \in {"locked", "commit"}
         /\ licLock[req[r].lic] = r /\ req[r].lic \in licActive
    /\ req[r].op \in Checked /\ req[r].step = "locked" => req[r].lic # NoLicence

FirstAlone ==
    \A r, q \in Requests : FirstUpload(r) => licActive = {} /\ (FirstUpload(q) => q = r)

\* What was counted still holds at the commit.
RoomFor(r) ==
    req[r].step = "commit" =>
        /\ req[r].op \in Checked /\ req[r].lic # NoLicence
             => Cardinality(Seated) < Seats[req[r].lic]
        /\ req[r].op = "upload" => Cardinality(Seated) <= Seats[req[r].on]

Fits == \A l \in licActive : Cardinality(Seated) <= Seats[l]

SeatsInv ==
    OneLicence /\ FirstAlone /\ Fits /\ \A r \in Requests : Holder(r) /\ RoomFor(r)

LEMMA SeatedCount ==
    /\ Cardinality(Seated) \in Nat /\ Cardinality(ActiveUsers) \in Nat
    /\ Cardinality(Seated) <= Cardinality(ActiveUsers)
    /\ Cardinality(Seated') \in Nat
    /\ Seated' \subseteq Seated => Cardinality(Seated') <= Cardinality(Seated)
    /\ \A u : Seated' \subseteq Seated \cup {u} => Cardinality(Seated') <= Cardinality(Seated) + 1
<1>1. IsFiniteSet(Seated) /\ IsFiniteSet(ActiveUsers) /\ IsFiniteSet(Seated')
  BY UsersAssumption, FS_Subset DEF Seated, ActiveUsers, Existing
<1>2. /\ Cardinality(Seated) \in Nat /\ Cardinality(ActiveUsers) \in Nat
      /\ Cardinality(Seated') \in Nat
  BY <1>1, FS_CardinalityType
<1>3. Cardinality(Seated) <= Cardinality(ActiveUsers)
  <2>1. Seated \subseteq ActiveUsers
    BY DEF Seated
  <2> QED
    BY <1>1, <2>1, FS_Subset
<1>4. Seated' \subseteq Seated => Cardinality(Seated') <= Cardinality(Seated)
  BY <1>1, FS_Subset
<1>5. ASSUME NEW u, Seated' \subseteq Seated \cup {u}
      PROVE  Cardinality(Seated') <= Cardinality(Seated) + 1
  <2>1. /\ IsFiniteSet(Seated \cup {u})
        /\ Cardinality(Seated \cup {u}) \in {Cardinality(Seated), Cardinality(Seated) + 1}
    BY <1>1, <1>2, FS_AddElement
  <2>2. Cardinality(Seated') <= Cardinality(Seated \cup {u})
    BY <1>5, <2>1, FS_Subset
  <2> QED
    BY <1>2, <2>1, <2>2
<1> QED
  BY <1>2, <1>3, <1>4, <1>5

\* Only a commit that locked and counted a licence seats somebody.
LEMMA SeatedGrows ==
    ASSUME TypeOK, OnExisting, [Next]_vars
    PROVE  \/ Seated' \subseteq Seated
           \/ \E r \in Requests, u \in Users :
                /\ req[r].op \in Checked /\ req[r].step = "commit" /\ req[r].lic # NoLicence
                /\ UNCHANGED <<licActive, raced>> /\ End(r)
                /\ Seated' \subseteq Seated \cup {u}
<1>1. CASE UNCHANGED <<user, unchecked>>
  BY <1>1 DEF Seated, ActiveUsers, Existing
<1>2. CASE Setup
  <2>1. MakesAtMostOne /\ unchecked' = unchecked \cup {u \in NewUsers : user'[u] # Nobody}
    BY <1>2, SetupStep
  <2> QED
    BY <2>1 DEF MakesAtMostOne, Seated, ActiveUsers, Existing, NewUsers, TypeOK
<1>3. ASSUME NEW r \in Requests, NEW role \in {"admin", "hr"}, CreateUser(r, role)
      PROVE  \/ Seated' \subseteq Seated
             \/ /\ req[r].op \in Checked /\ req[r].step = "commit" /\ req[r].lic # NoLicence
                /\ UNCHANGED <<licActive, raced>> /\ End(r)
                /\ req[r].on \in Users /\ Seated' \subseteq Seated \cup {req[r].on}
  <2>1. /\ user' = [user EXCEPT ![req[r].on] = Account(role)]
        /\ req[r].on \in NewUsers /\ Existing' = Existing \cup {req[r].on}
    BY <1>3, InsertedUser DEF CreateUser
  <2>2. unchecked' = unchecked \cup Unseated(r)
    BY <1>3 DEF CreateUser
  <2>3. Seated' \subseteq (Seated \cup {req[r].on}) \ Unseated(r)
    BY <2>1, <2>2 DEF Seated, ActiveUsers, Existing, NewUsers, TypeOK, Unseated
  <2>4. /\ req[r].op \in Checked /\ req[r].step = "commit" /\ UNCHANGED <<licActive, raced>>
        /\ End(r) /\ req[r].on \in Users
    BY <1>3, <2>1 DEF CreateUser, Insert, Checked, NewUsers
  <2> QED
    BY <2>3, <2>4 DEF Unseated
<1>4. ASSUME NEW r \in Requests, CreatePilot(r)
      PROVE  Seated' \subseteq Seated
  <2>1. /\ user' = [user EXCEPT ![req[r].on] = Account("admin")]
        /\ req[r].on \in NewUsers /\ Existing' = Existing \cup {req[r].on}
    BY <1>4, InsertedUser DEF CreatePilot
  <2>2. unchecked' = unchecked \cup {req[r].on}
    BY <1>4 DEF CreatePilot
  <2> QED
    BY <2>1, <2>2 DEF Seated, ActiveUsers, Existing, NewUsers, TypeOK
<1>5. ASSUME NEW r \in Requests, UpdateUser(r)
      PROVE  \/ Seated' \subseteq Seated
             \/ /\ req[r].op \in Checked /\ req[r].step = "commit" /\ req[r].lic # NoLicence
                /\ UNCHANGED <<licActive, raced>> /\ End(r)
                /\ req[r].on \in Users /\ Seated' \subseteq Seated \cup {req[r].on}
  <2>1. /\ Existing' = Existing /\ req[r].op \in Edits /\ req[r].on \in Existing
        /\ \A u \in Users \ {req[r].on} : user'[u] = user[u]
        /\ user'[req[r].on].active =
             IF Change(r).active = req[r].saw.active THEN user[req[r].on].active
             ELSE Change(r).active
    BY <1>5, UpdatedUser
  <2>2. /\ req[r].step = "commit" /\ UNCHANGED <<licActive, raced>> /\ End(r)
    BY <1>5, Zenon DEF UpdateUser
  <2>3. ActiveUsers' \ {req[r].on} \subseteq ActiveUsers
    BY <2>1 DEF ActiveUsers, Existing
  <2>4. CASE req[r].op \in {"promote", "demote"}
    <3>1. user'[req[r].on].active = user[req[r].on].active /\ unchecked' = unchecked
      BY <1>5, <2>1, <2>4, ChangedRow DEF UpdateUser
    <3> QED
      BY <2>1, <3>1 DEF Seated, ActiveUsers, Existing
  <2>5. CASE req[r].op = "disable"
    <3>1. ~user'[req[r].on].active /\ unchecked' = unchecked \ {req[r].on}
      BY <1>5, <2>1, <2>5, ChangedRow DEF UpdateUser, OnExisting
    <3> QED
      BY <2>3, <3>1 DEF Seated, ActiveUsers
  <2>6. CASE req[r].op = "enable"
    <3>1. unchecked' = unchecked \cup Unseated(r)
      BY <1>5, <2>6 DEF UpdateUser
    <3>2. Seated' \subseteq (Seated \cup {req[r].on}) \ Unseated(r)
      BY <2>3, <3>1 DEF Seated
    <3> QED
      BY <2>1, <2>2, <2>6, <3>2 DEF Unseated, Checked, Existing
  <2> QED
    BY <2>1, <2>4, <2>5, <2>6 DEF Edits
<1> QED
  BY <1>1, <1>2, <1>3, <1>4, <1>5
     DEF Next, Begin, BeginUpload, LicenceLocked, Refuse, LockLicence, NoLicenceLeft,
         CountSeats, CountForUpload, CommitUpload, LockAdmins, AdminsLocked

\* A step of request r that leaves the active licence and the locks of others.
LEMMA SeatsFrame ==
    ASSUME TypeOK, OnExisting, SeatsInv, NEW r \in Requests,
           \A q \in Requests \ {r} : req'[q] = req[q],
           licActive' = licActive, Seated' \subseteq Seated,
           \A l \in Licences : licLock[l] \in Requests \ {r} => licLock'[l] = licLock[l],
           Holder(r)', RoomFor(r)',
           FirstUpload(r)' => licActive = {} /\ \A q \in Requests \ {r} : ~FirstUpload(q)
    PROVE  SeatsInv'
<1>0. /\ Cardinality(Seated) \in Nat /\ Cardinality(Seated') \in Nat
      /\ Cardinality(Seated') <= Cardinality(Seated)
  BY SeatedCount
<1>s. \A l \in Licences : Seats[l] \in Nat
  BY SeatsAssumption
<1>1. OneLicence'
  BY DEF SeatsInv, OneLicence
<1>2. FirstAlone'
  <2>1. \A q \in Requests \ {r} : FirstUpload(q)' = FirstUpload(q)
    BY DEF FirstUpload
  <2> QED
    BY <2>1 DEF SeatsInv, FirstAlone
<1>3. Fits'
  BY <1>0, <1>s DEF SeatsInv, Fits, TypeOK
<1>4. ASSUME NEW q \in Requests \ {r}
      PROVE  Holder(q)' /\ RoomFor(q)'
  <2>1. Holder(q) /\ RoomFor(q) /\ req'[q] = req[q]
    BY DEF SeatsInv
  <2>2. Holder(q)'
    BY <2>1 DEF Holder, TypeOK
  <2>3. RoomFor(q)'
    <3>1. req[q].op \in Checked /\ req[q].lic # NoLicence => req[q].lic \in Licences
      BY <2>1 DEF Holder, TypeOK
    <3> QED
      BY <2>1, <1>0, <1>s, <3>1 DEF RoomFor, OnExisting
  <2> QED
    BY <2>2, <2>3
<1> QED
  BY <1>1, <1>2, <1>3, <1>4 DEF SeatsInv

\* A request that holds the licence when it commits, or commits the first one,
\* is alone: nobody else holds a licence or uploads the first one.
LEMMA CommitsAlone ==
    ASSUME TypeOK, SeatsInv, NEW r \in Requests,
           req[r].lic # NoLicence \/ FirstUpload(r)
    PROVE  /\ licActive \subseteq {req[r].lic}
           /\ \A q \in Requests \ {r} : req[q].lic = NoLicence /\ ~FirstUpload(q)
<1>1. Holder(r) /\ OneLicence /\ FirstAlone
  BY DEF SeatsInv
<1>2. \A q \in Requests \ {r} : Holder(q)
  BY DEF SeatsInv
<1>3. CASE req[r].lic # NoLicence
  BY <1>1, <1>2, <1>3 DEF Holder, OneLicence, FirstAlone
<1>4. CASE FirstUpload(r)
  BY <1>1, <1>2, <1>4 DEF Holder, FirstAlone
<1> QED
  BY <1>3, <1>4

\* Then the step that ends it needs only leave room for those it seats.
LEMMA SeatsAfterCommit ==
    ASSUME TypeOK, SeatsInv, NEW r \in Requests, End(r),
           \A q \in Requests \ {r} : req[q].lic = NoLicence /\ ~FirstUpload(q),
           OneLicence', Fits'
    PROVE  SeatsInv'
<1>1. req'[r] = Idle /\ \A q \in Requests \ {r} : req'[q] = req[q]
  BY DEF End, TypeOK
<1>2. \A q \in Requests : req'[q].lic = NoLicence /\ ~FirstUpload(q)'
  BY <1>1 DEF FirstUpload, Idle
<1>3. ASSUME NEW q \in Requests
      PROVE  Holder(q)' /\ RoomFor(q)'
  <2>1. CASE q = r
    BY <1>1, <2>1 DEF Holder, RoomFor, Idle, Checked
  <2>2. CASE q # r
    <3>1. Holder(q) /\ req'[q] = req[q]
      BY <1>1, <2>2 DEF SeatsInv
    <3> QED
      BY <1>2, <3>1, <2>2 DEF Holder, RoomFor, FirstUpload
  <2> QED
    BY <2>1, <2>2
<1> QED
  BY <1>2, <1>3 DEF SeatsInv, FirstAlone

LEMMA SeatsInductive ==
    ASSUME TypeOK, OnExisting, SeatsInv, [Next]_vars, ~raced'
    PROVE  SeatsInv'
<1>0. req \in [Requests -> RequestType] /\ \A q \in Requests : req[q] \in RequestType
  BY DEF TypeOK, RequestType
<1>c. /\ Cardinality(Seated) \in Nat /\ Cardinality(Seated') \in Nat
      /\ Cardinality(ActiveUsers) \in Nat /\ Cardinality(Seated) <= Cardinality(ActiveUsers)
  BY SeatedCount
<1>s. \A l \in Licences : Seats[l] \in Nat
  BY SeatsAssumption
<1>l. NoLicence \notin Licences /\ Free \notin Requests
  BY LicenceAssumption, RequestsAssumption
<1>1. CASE UNCHANGED <<licences, req>> /\ Seated' \subseteq Seated
  <2>1. Cardinality(Seated') <= Cardinality(Seated)
    BY <1>1, SeatedCount
  <2>2. OneLicence' /\ FirstAlone'
    BY <1>1 DEF SeatsInv, OneLicence, FirstAlone, FirstUpload
  <2>3. Fits'
    BY <1>1, <2>1, <1>c, <1>s DEF SeatsInv, Fits, TypeOK
  <2>4. ASSUME NEW q \in Requests
        PROVE  Holder(q)' /\ RoomFor(q)'
    <3>1. Holder(q) /\ RoomFor(q)
      BY DEF SeatsInv
    <3>2. req[q].op \in Checked /\ req[q].lic # NoLicence => req[q].lic \in Licences
      BY <1>0 DEF RequestType
    <3>3. RoomFor(q)'
      BY <1>1, <2>1, <1>c, <1>s, <3>1, <3>2 DEF RoomFor, OnExisting
    <3> QED
      BY <1>1, <3>1, <3>3 DEF Holder
  <2> QED
    BY <2>2, <2>3, <2>4 DEF SeatsInv
<1>2. ASSUME NEW r \in Requests, RequestStep(r), Seated' \subseteq Seated
      PROVE  SeatsInv'
  <2>1. \A q \in Requests \ {r} : req'[q] = req[q]
    BY <1>2, RequestSteps DEF GoesOn
  <2>2. Holder(r) /\ RoomFor(r) /\ req[r] \in RequestType
    BY <1>0 DEF SeatsInv
\* A request begins.
  <2>3. ASSUME NEW a \in Users, NEW u \in Users, NEW op \in Ops \ {"upload"}, Begin(r, a, op, u)
        PROVE  SeatsInv'
    <3> DEFINE step == CASE op \in Checked -> "start"
                         [] op = "demote"  -> "start"
                         [] OTHER          -> "commit"
    <3>1. /\ req' = [req EXCEPT ![r] = [Idle EXCEPT !.op = op, !.on = u, !.saw = user[u],
                                               !.self = (a = u), !.step = step]]
          /\ UNCHANGED licences
      BY <2>3, Zenon DEF Begin
    <3>2. step \in {"start", "commit"} /\ (step = "commit" => op \notin Checked)
      OBVIOUS
    <3> HIDE DEF step
    <3>3. req'[r].op = op /\ req'[r].lic = NoLicence /\ req'[r].step = step
      BY <1>0, <3>1 DEF Idle
    <3>4. Holder(r)' /\ RoomFor(r)' /\ ~FirstUpload(r)'
      BY <3>2, <3>3 DEF Holder, RoomFor, FirstUpload
    <3> QED
      BY <1>2, <2>1, <3>1, <3>4, SeatsFrame
  <2>4. ASSUME NEW a \in Users, NEW l \in Licences, BeginUpload(r, a, l)
        PROVE  SeatsInv'
    <3>1. /\ req' = [req EXCEPT ![r] = [Idle EXCEPT !.op = "upload", !.on = l, !.step = "start"]]
          /\ UNCHANGED licences
      BY <2>4 DEF BeginUpload
    <3>2. req'[r].op = "upload" /\ req'[r].lic = NoLicence /\ req'[r].step = "start"
      BY <1>0, <3>1 DEF Idle
    <3>3. Holder(r)' /\ RoomFor(r)' /\ ~FirstUpload(r)'
      BY <3>2 DEF Holder, RoomFor, FirstUpload, Checked
    <3> QED
      BY <1>2, <2>1, <3>1, <3>3, SeatsFrame
\* It ends, and seats nobody.
  <2>5. ASSUME End(r), licActive' = licActive
        PROVE  SeatsInv'
    <3>1. req'[r] = Idle
      BY <1>0, <2>5 DEF End
    <3>2. Holder(r)' /\ RoomFor(r)' /\ ~FirstUpload(r)'
      BY <3>1 DEF Holder, RoomFor, FirstUpload, Idle, Checked
    <3>3. \A l \in Licences : licLock[l] \in Requests \ {r} => licLock'[l] = licLock[l]
      BY <2>5 DEF End
    <3> QED
      BY <1>2, <2>1, <2>5, <3>2, <3>3, SeatsFrame
\* It waits for the licence, or locks the administrators.
  <2>6. CASE LockLicence(r) \/ LockAdmins(r) \/ AdminsLocked(r)
    <3>1. UNCHANGED licences /\ req[r].step \notin {"locked", "commit"}
      BY <2>6, Zenon DEF LockLicence, LockAdmins, AdminsLocked
    <3>2. /\ req'[r].op = req[r].op /\ req'[r].lic = req[r].lic
          /\ \/ req'[r].step = "wait"
             \/ req[r].op = "demote" /\ req'[r].step = "commit"
      <4>1. CASE LockLicence(r)
        BY <1>0, <2>2, <4>1 DEF LockLicence, RequestType
      <4>2. CASE LockAdmins(r)
        BY <1>0, <2>2, <4>2 DEF LockAdmins, RequestType
      <4>3. CASE AdminsLocked(r)
        BY <1>0, <2>2, <4>3 DEF AdminsLocked, RequestType
      <4> QED
        BY <2>6, <4>1, <4>2, <4>3
    <3>3. Holder(r)' /\ RoomFor(r)' /\ ~FirstUpload(r)'
      BY <2>2, <3>1, <3>2 DEF Holder, RoomFor, FirstUpload, Checked
    <3> QED
      BY <1>2, <2>1, <3>1, <3>3, SeatsFrame
  <2>7. ASSUME NEW l \in Licences, LicenceLocked(r, l)
        PROVE  SeatsInv'
    <3>1. /\ licActive' = licActive /\ licLock' = [licLock EXCEPT ![l] = r]
          /\ licLock[l] = Free /\ l \in licActive
      BY <2>7 DEF LicenceLocked, RowFree
    <3>2. req'[r].lic = l /\ req'[r].step = "locked"
      BY <1>0, <2>2, <2>7 DEF LicenceLocked, RequestType
    <3>3. Holder(r)' /\ RoomFor(r)' /\ ~FirstUpload(r)'
      BY <1>l, <3>1, <3>2 DEF Holder, RoomFor, FirstUpload, TypeOK
    <3>4. \A k \in Licences : licLock[k] \in Requests \ {r} => licLock'[k] = licLock[k]
      BY <1>l, <3>1 DEF TypeOK
    <3> QED
      BY <1>2, <2>1, <3>1, <3>3, <3>4, SeatsFrame
\* It finds no licence: an upload is then alone, or the race is on record.
  <2>8. CASE NoLicenceLeft(r)
    <3>1. UNCHANGED licences /\ req[r].step = "wait" /\ req[r].lic = NoLicence
      BY <2>2, <2>8 DEF NoLicenceLeft, Holder
    <3>2. /\ req'[r].op = req[r].op /\ req'[r].lic = req[r].lic
          /\ req'[r].step = IF req[r].op = "upload" THEN "locked" ELSE "commit"
      BY <1>0, <2>2, <2>8 DEF NoLicenceLeft, RequestType
    <3>3. Holder(r)' /\ RoomFor(r)'
      BY <3>1, <3>2 DEF Holder, RoomFor, Checked
    <3>4. req[r].op = "upload" => licActive = {} /\ \A q \in Requests \ {r} : req[q].op # "upload"
      BY <2>8 DEF NoLicenceLeft
    <3>5. FirstUpload(r)' => licActive = {} /\ \A q \in Requests \ {r} : ~FirstUpload(q)
      BY <3>2, <3>4 DEF FirstUpload
    <3> QED
      BY <1>2, <2>1, <3>1, <3>3, <3>5, SeatsFrame
\* It counts.
  <2>9. CASE CountSeats(r) \/ CountForUpload(r)
    <3>1. /\ UNCHANGED licences /\ req' = [req EXCEPT ![r].step = "commit"]
          /\ req[r].step = "locked"
      BY <2>9, Zenon DEF CountSeats, CountForUpload
    <3>2. /\ req'[r].op = req[r].op /\ req'[r].lic = req[r].lic /\ req'[r].on = req[r].on
          /\ req'[r].step = "commit"
      BY <1>0, <2>2, <3>1 DEF RequestType
    <3>3. Holder(r)'
      BY <2>2, <3>1, <3>2 DEF Holder
    <3>4. Cardinality(Seated') <= Cardinality(Seated)
      BY <1>2, SeatedCount
    <3>5. RoomFor(r)'
      <4>1. CASE CountSeats(r)
        <5>1. req[r].op \in Checked /\ Cardinality(ActiveUsers) < Seats[req[r].lic]
          BY <4>1 DEF CountSeats, SeatLeft
        <5>2. req[r].lic \in Licences
          BY <2>2, <3>1, <5>1 DEF Holder, RequestType
        <5> QED
          BY <1>c, <1>s, <3>2, <3>4, <5>1, <5>2 DEF RoomFor, Checked
      <4>2. CASE CountForUpload(r)
        <5>1. req[r].op = "upload" /\ Cardinality(ActiveUsers) <= Seats[req[r].on]
          BY <4>2 DEF CountForUpload
        <5>2. req[r].on \in Licences
          BY <5>1 DEF OnExisting
        <5> QED
          BY <1>c, <1>s, <3>2, <3>4, <5>1, <5>2 DEF RoomFor, Checked
      <4> QED
        BY <2>9, <4>1, <4>2
    <3>6. FirstUpload(r)' => FirstUpload(r)
      BY <3>1, <3>2 DEF FirstUpload
    <3>7. FirstUpload(r)' => licActive = {} /\ \A q \in Requests \ {r} : ~FirstUpload(q)
      BY <3>6 DEF SeatsInv, FirstAlone
    <3> QED
      BY <1>2, <2>1, <3>1, <3>3, <3>5, <3>7, SeatsFrame
\* An upload replaces the licence it holds, or is the first.
  <2>10. CASE CommitUpload(r)
    <3>1. /\ licActive' = (licActive \ {req[r].lic}) \cup {req[r].on} /\ End(r)
          /\ req[r].op = "upload" /\ req[r].step = "commit"
      BY <2>10 DEF CommitUpload
    <3>2. req[r].lic # NoLicence \/ FirstUpload(r)
      BY <3>1 DEF FirstUpload
    <3>3. /\ licActive \subseteq {req[r].lic}
          /\ \A q \in Requests \ {r} : req[q].lic = NoLicence /\ ~FirstUpload(q)
      BY <3>2, CommitsAlone
    <3>4. licActive' = {req[r].on}
      BY <3>1, <3>3
    <3>5. OneLicence'
      BY <3>4 DEF OneLicence
    <3>6. Cardinality(Seated) <= Seats[req[r].on] /\ req[r].on \in Licences
      BY <2>2, <3>1 DEF RoomFor, OnExisting
    <3>7. Cardinality(Seated') <= Cardinality(Seated)
      BY <1>2, SeatedCount
    <3>8. Fits'
      BY <1>c, <1>s, <3>4, <3>6, <3>7 DEF Fits
    <3> QED
      BY <3>1, <3>3, <3>5, <3>8, SeatsAfterCommit
  <2>11. CASE Refuse(r) \/ CreatePilot(r) \/ UpdateUser(r)
              \/ \E role \in {"admin", "hr"} : CreateUser(r, role)
    <3>1. End(r) /\ licActive' = licActive
      BY <2>11, Zenon DEF Refuse, CreatePilot, UpdateUser, CreateUser
    <3> QED
      BY <2>5, <3>1
  <2> QED
    BY <1>2, <2>3, <2>4, <2>6, <2>7, <2>8, <2>9, <2>10, <2>11, Zenon DEF RequestStep
\* A commit that seats somebody holds the licence it counted by.
<1>3. ASSUME NEW r \in Requests, NEW u \in Users,
             req[r].op \in Checked, req[r].step = "commit", req[r].lic # NoLicence,
             licActive' = licActive, End(r), Seated' \subseteq Seated \cup {u}
      PROVE  SeatsInv'
  <2>1. /\ licActive \subseteq {req[r].lic}
        /\ \A q \in Requests \ {r} : req[q].lic = NoLicence /\ ~FirstUpload(q)
    BY <1>3, CommitsAlone
  <2>2. Cardinality(Seated') <= Cardinality(Seated) + 1
    BY <1>3, SeatedCount
  <2>3. Cardinality(Seated) < Seats[req[r].lic] /\ req[r].lic \in Licences
    BY <1>0, <1>3 DEF SeatsInv, RoomFor, RequestType
  <2>4. OneLicence' /\ Fits'
    BY <1>c, <1>s, <1>3, <2>1, <2>2, <2>3 DEF OneLicence, Fits
  <2> QED
    BY <1>3, <2>1, <2>4, SeatsAfterCommit
<1>4. CASE Seated' \subseteq Seated
  <2>1. CASE Setup
    BY <1>1, <1>4, <2>1, SetupStep
  <2>2. CASE UNCHANGED vars
    BY <1>1, <1>4, <2>2
  <2> QED
    BY <1>2, <1>4, <2>1, <2>2, Zenon DEF Next, RequestStep
<1> QED
  BY <1>3, <1>4, SeatedGrows

\* Until two uploads cross, the users activated after a seat check fit into the
\* active licence (upload_license, create_user, update_user): the row lock on
\* the licence is held from the count to the commit, so nobody else is seated
\* and no smaller licence replaces it in between.
THEOREM SeatsRemain == Spec => []SeatsKept
<1> DEFINE Inv == ~raced => SeatsInv
<1>1. Init => Inv
  BY DEF Init, AccountsInit, FirstRunInit, SeatsInv, OneLicence, FirstAlone, Fits, FirstUpload,
     Holder, RoomFor, Idle, Checked
<1>2. TypeOK /\ OnExisting /\ Inv /\ [Next]_vars => Inv'
  <2>1. [Next]_vars => (raced => raced')
    BY DEF Next, Setup, Begin, BeginUpload, LicenceLocked, CreateUser, Refuse, LockLicence,
       NoLicenceLeft, CountSeats, CountForUpload, CommitUpload, LockAdmins, AdminsLocked,
       CreatePilot, UpdateUser
  <2> QED
    BY <2>1, SeatsInductive
<1>3. TypeOK /\ Inv => SeatsKept
  BY DEF SeatsInv, Fits, Seated, SeatsKept
<1> QED
  BY <1>1, <1>2, <1>3, TypeCorrect, PTL DEF Spec

-----------------------------------------------------------------------------
(***************************************************************************)
(* The update channel, as MCAccounts composes it.  What an engine carries  *)
(* out was no downgrade of the version it saw, so that a host which goes   *)
(* back was changed in between.                                            *)
(***************************************************************************)

Versions == Nat \cup {None}
Channels == Users \ {FirstUser}

ChannelStates == {"idle", "checking", "available", "up_to_date", "failed",
                  "downloading", "ready", "installing"}
EngineSteps == {"idle", "took", "checked", "free", "work", "report"}
Ends == {"none"} \cup Channel!Outcomes
StoreRows == [state : ChannelStates, installed : Versions, job : Nat, package : Versions,
              pending : BOOLEAN, last : [job : Nat, state : Ends, version : Versions]]
CallOps == {"none", "check", "download", "install"}
CallSteps == {"idle", "seen", "audit", "fetch", "decide"}
CallRows == [op : CallOps, at : CallSteps, manifest : Versions]
EngineRows == [at : EngineSteps, job : Nat, package : Versions, seen : Nat, outcome : Ends]

ChannelType ==
    /\ store \in StoreRows /\ ask \in [Requests -> CallRows] /\ engine \in [Channels -> EngineRows]
    /\ host \in Nat /\ published \in Nat /\ jobs \in Nat

\* What an engine carries out was no downgrade of the version it saw.
NoDowngradeSeen ==
    \A e \in Channels :
        engine[e].at \in {"checked", "free", "work"} =>
            engine[e].package \in Nat /\ engine[e].package >= engine[e].seen

ChannelInv == ChannelType /\ NoDowngradeSeen

\* What the updates of the three records keep.
LEMMA StoreUpdates ==
    ASSUME NEW x \in StoreRows
    PROVE  /\ Channel!Fresh \in StoreRows
           /\ \A s \in ChannelStates : [x EXCEPT !.state = s] \in StoreRows
           /\ \A v \in Versions : [x EXCEPT !.installed = v] \in StoreRows
           /\ \A s \in ChannelStates, v \in Versions :
                /\ [x EXCEPT !.state = s, !.installed = v] \in StoreRows
                /\ [x EXCEPT !.state = s, !.package = v] \in StoreRows
           /\ \A s \in ChannelStates, n \in Nat :
                [x EXCEPT !.state = s, !.job = n, !.pending = TRUE] \in StoreRows
<1>1. Channel!Fresh \in StoreRows
  BY DEF Channel!Fresh, StoreRows, ChannelStates, Ends, Versions
<1>2. /\ \A s \in ChannelStates : [x EXCEPT !.state = s] \in StoreRows
      /\ \A v \in Versions : [x EXCEPT !.installed = v] \in StoreRows
  BY Zenon DEF StoreRows
<1>3. \A s \in ChannelStates, v \in Versions :
        /\ [x EXCEPT !.state = s, !.installed = v] \in StoreRows
        /\ [x EXCEPT !.state = s, !.package = v] \in StoreRows
  BY Zenon DEF StoreRows
<1>4. \A s \in ChannelStates, n \in Nat :
        [x EXCEPT !.state = s, !.job = n, !.pending = TRUE] \in StoreRows
  BY Zenon DEF StoreRows
<1> QED
  BY <1>1, <1>2, <1>3, <1>4, Zenon

LEMMA CallUpdates ==
    ASSUME ask \in [Requests -> CallRows], NEW r \in Requests
    PROVE  /\ [q \in Requests |-> Channel!Quiet] \in [Requests -> CallRows]
           /\ [ask EXCEPT ![r] = Channel!Quiet] \in [Requests -> CallRows]
           /\ \A at \in CallSteps : [ask EXCEPT ![r].at = at] \in [Requests -> CallRows]
           /\ \A m \in Versions :
                [ask EXCEPT ![r].manifest = m, ![r].at = "decide"] \in [Requests -> CallRows]
           /\ \A op \in CallOps, at \in CallSteps :
                [ask EXCEPT ![r] = [Channel!Quiet EXCEPT !.op = op, !.at = at]] \in [Requests -> CallRows]
<1>1. /\ Channel!Quiet \in CallRows
      /\ \A op \in CallOps, at \in CallSteps : [Channel!Quiet EXCEPT !.op = op, !.at = at] \in CallRows
  BY DEF Channel!Quiet, CallRows, Versions, CallOps, CallSteps
<1>2. \A at \in CallSteps : [ask EXCEPT ![r].at = at] \in [Requests -> CallRows]
  BY Zenon DEF CallRows
<1>3. \A m \in Versions, at \in CallSteps :
        [ask EXCEPT ![r].manifest = m, ![r].at = at] \in [Requests -> CallRows]
  BY Zenon DEF CallRows
<1>4. "decide" \in CallSteps
  BY DEF CallSteps
<1> QED
  BY <1>1, <1>2, <1>3, <1>4

LEMMA RequestStaysOffTheHost ==
    ASSUME ChannelType, NEW r \in Requests, Channel!Request(r)
    PROVE  ChannelType' /\ engine' = engine /\ host' = host
<1>d. Channel!Decisions(ask[r].manifest) \subseteq ChannelStates
  BY DEF Channel!Decisions, ChannelStates
<1>n. Nat \subseteq Versions /\ None \in Versions
  BY DEF Versions
<1>i. store.installed \in Versions /\ ask[r].manifest \in Versions
  BY Zenon DEF ChannelType, StoreRows, CallRows
<1>j. jobs + 1 \in Nat
  BY DEF ChannelType
<1>c. /\ "seen" \in CallSteps /\ "audit" \in CallSteps /\ "fetch" \in CallSteps
      /\ "checking" \in ChannelStates /\ "downloading" \in ChannelStates /\ "failed" \in ChannelStates
      /\ "ready" \in ChannelStates /\ "installing" \in ChannelStates
      /\ "download" \in CallOps /\ "install" \in CallOps /\ "check" \in CallOps
  BY DEF CallSteps, CallOps, ChannelStates
<1> USE DEF ChannelType, Channel!At, Channel!Over, Channel!Ends, Channel!counters
<1> DEFINE Calls == [Requests -> CallRows]
<1>1. CASE Channel!AskDownload(r)
  <2>1. ask' \in Calls
    BY <1>1, <1>c, CallUpdates, Zenon DEF Channel!AskDownload
  <2> QED
    BY <1>1, <2>1 DEF Channel!AskDownload
<1>2. CASE Channel!AskInstall(r)
  <2>1. ask' \in Calls
    BY <1>2, <1>c, CallUpdates, Zenon DEF Channel!AskInstall
  <2> QED
    BY <1>2, <2>1 DEF Channel!AskInstall
<1>3. CASE Channel!AskCheck(r) \/ Channel!EngineCheck(r)
  <2>1. PICK at \in CallSteps, v \in Versions : Channel!BeginCheck(r, at, v)
    BY <1>3, <1>c, <1>i, <1>n DEF Channel!AskCheck, Channel!EngineCheck
  <2> QED
    BY <1>c, <2>1, CallUpdates, StoreUpdates, Zenon DEF Channel!BeginCheck
<1>4. CASE Channel!BeginDownload(r)
  BY <1>4, <1>c, CallUpdates, StoreUpdates, Zenon DEF Channel!BeginDownload
<1>5. CASE Channel!BeginInstall(r) \/ Channel!Busy(r) \/ Channel!Audit(r) \/ Channel!Incomparable(r)
  <2>1. \/ ask' = [ask EXCEPT ![r] = Channel!Quiet]
        \/ ask' = [ask EXCEPT ![r].at = "fetch"]
    BY <1>5 DEF Channel!BeginInstall, Channel!Busy, Channel!Audit, Channel!Incomparable
  <2>2. [ask EXCEPT ![r] = Channel!Quiet] \in Calls /\ [ask EXCEPT ![r].at = "fetch"] \in Calls
    BY <1>c, CallUpdates, Zenon
  <2> QED
    BY <1>5, <2>1, <2>2 DEF Channel!BeginInstall, Channel!Busy, Channel!Audit, Channel!Incomparable
<1>6. CASE Channel!Fetch(r)
  <2>1. PICK m \in Versions : ask' = [ask EXCEPT ![r].manifest = m, ![r].at = "decide"]
    BY <1>6, <1>n DEF Channel!Fetch, Channel!Verified
  <2>2. ask' \in Calls
    BY <2>1, CallUpdates, Zenon
  <2> QED
    BY <1>6, <2>2 DEF Channel!Fetch
<1>7. CASE Channel!Check(r) \/ Channel!Download(r) \/ Channel!Install(r)
  <2>1. ask' = [ask EXCEPT ![r] = Channel!Quiet] /\ jobs' \in {jobs, jobs + 1}
    BY <1>7 DEF Channel!Check, Channel!Download, Channel!Install
  <2>2. ASSUME Channel!Check(r) PROVE store' \in StoreRows
    <3>1. PICK d \in ChannelStates : store' = [store EXCEPT !.state = d]
      BY <1>d, <2>2 DEF Channel!Check
    <3> QED
      BY <3>1, StoreUpdates, Zenon
  <2>3. ASSUME Channel!Download(r) PROVE store' \in StoreRows
    <3>1. \/ \E d \in ChannelStates : store' = [store EXCEPT !.state = d]
          \/ store' = [store EXCEPT !.state = "ready", !.package = ask[r].manifest]
      BY <1>c, <1>d, <2>3 DEF Channel!Download
    <3>2. [store EXCEPT !.state = "ready", !.package = ask[r].manifest] \in StoreRows
      BY <1>c, <1>i, StoreUpdates, Zenon
    <3> QED
      BY <3>1, <3>2, StoreUpdates, Zenon
  <2>4. ASSUME Channel!Install(r) PROVE store' \in StoreRows
    <3>1. \/ \E d \in ChannelStates : store' = [store EXCEPT !.state = d]
          \/ store' = [store EXCEPT !.state = "installing", !.job = jobs + 1, !.pending = TRUE]
      BY <1>d, <2>4 DEF Channel!Install
    <3>2. [store EXCEPT !.state = "installing", !.job = jobs + 1, !.pending = TRUE] \in StoreRows
      BY <1>c, <1>j, StoreUpdates, Zenon
    <3> QED
      BY <3>1, <3>2, StoreUpdates, Zenon
  <2>5. ask' \in Calls
    BY <2>1, CallUpdates, Zenon
  <2>6. store' \in StoreRows
    BY <1>7, <2>2, <2>3, <2>4
  <2> QED
    BY <1>7, <1>j, <2>1, <2>5, <2>6 DEF Channel!Check, Channel!Download, Channel!Install
<1> QED
  BY <1>1, <1>2, <1>3, <1>4, <1>5, <1>6, <1>7, Zenon DEF Channel!Request

LEMMA EngineUpdates ==
    ASSUME engine \in [Channels -> EngineRows], NEW e \in Channels
    PROVE  /\ [engine EXCEPT ![e] = Channel!Resting] \in [Channels -> EngineRows]
           /\ \A n \in Nat, v \in Versions :
                [engine EXCEPT ![e] = [Channel!Resting EXCEPT !.at = "took", !.job = n, !.package = v]]
                   \in [Channels -> EngineRows]
           /\ \A at \in EngineSteps : [engine EXCEPT ![e].at = at] \in [Channels -> EngineRows]
           /\ \A at \in EngineSteps, n \in Nat :
                [engine EXCEPT ![e].at = at, ![e].seen = n] \in [Channels -> EngineRows]
           /\ \A at \in EngineSteps, o \in Ends :
                [engine EXCEPT ![e].at = at, ![e].outcome = o] \in [Channels -> EngineRows]
<1>1. /\ Channel!Resting \in EngineRows
      /\ \A n \in Nat, v \in Versions :
           [Channel!Resting EXCEPT !.at = "took", !.job = n, !.package = v] \in EngineRows
  BY DEF Channel!Resting, EngineRows, EngineSteps, Ends, Versions
<1>2. \A at \in EngineSteps : [engine EXCEPT ![e].at = at] \in [Channels -> EngineRows]
  BY Zenon DEF EngineRows
<1>3. \A at \in EngineSteps, n \in Nat :
        [engine EXCEPT ![e].at = at, ![e].seen = n] \in [Channels -> EngineRows]
  BY Zenon DEF EngineRows
<1>4. \A at \in EngineSteps, o \in Ends :
        [engine EXCEPT ![e].at = at, ![e].outcome = o] \in [Channels -> EngineRows]
  BY Zenon DEF EngineRows
<1> QED
  BY <1>1, <1>2, <1>3, <1>4

\* Where an engine stands after its step, and that the others do not move.
LEMMA EngineStep ==
    ASSUME ChannelInv, NEW e \in Channels, Channel!Engine(e)
    PROVE  /\ ChannelType'
           /\ \A x \in Channels \ {e} : engine'[x] = engine[x]
           /\ engine'[e].at = "checked" =>
                engine'[e].package \in Nat /\ engine'[e].package >= engine'[e].seen
           /\ engine'[e].at \in {"free", "work"} =>
                                         engine[e].at \in {"checked", "free"} /\ engine'[e].seen = engine[e].seen
                                         /\ engine'[e].package = engine[e].package
           /\ host' = host \/ (engine[e].at = "work" /\ host' = engine[e].package /\ host' \in Nat)
<1>n. /\ Nat \subseteq Versions /\ None \in Versions
      /\ \A o \in Channel!Outcomes : o \in Ends
      /\ "took" \in EngineSteps /\ "checked" \in EngineSteps /\ "free" \in EngineSteps /\ "work" \in EngineSteps /\ "report" \in EngineSteps
  BY DEF Versions, Ends, EngineSteps
<1>i. /\ engine[e].package \in Versions /\ engine[e].job \in Nat /\ engine[e].outcome \in Ends
      /\ store.package \in Versions /\ store.job \in Nat
  BY Zenon DEF ChannelInv, ChannelType, StoreRows, EngineRows
<1>e. /\ DOMAIN engine = Channels
      /\ \A x \in Channels : DOMAIN engine[x] = {"at", "job", "package", "seen", "outcome"}
  BY DEF ChannelInv, ChannelType, EngineRows
<1> USE DEF ChannelInv, ChannelType, NoDowngradeSeen, Channel!Says, Channel!counters
<1>1. CASE Channel!Poll(e)
  <2>1. engine' \in [Channels -> EngineRows] /\ store' \in StoreRows
    BY <1>1, <1>n, <1>i, EngineUpdates, StoreUpdates, Zenon DEF Channel!Poll
  <2>2. engine'[e].at \in {"idle", "took"} /\ \A x \in Channels \ {e} : engine'[x] = engine[x]
    BY <1>1, <1>e DEF Channel!Poll, Channel!Resting
  <2> QED
    BY <1>1, <2>1, <2>2 DEF Channel!Poll
<1>2. CASE Channel!AssertPolicy(e)
  <2>1. engine' \in [Channels -> EngineRows]
    BY <1>2, <1>n, EngineUpdates, Zenon DEF Channel!AssertPolicy
  <2>2. /\ engine'[e].package = engine[e].package /\ engine'[e].seen = host
        /\ engine'[e].at = "checked" /\ \A x \in Channels \ {e} : engine'[x] = engine[x]
    BY <1>2, <1>e DEF Channel!AssertPolicy
  <2> QED
    BY <1>2, <1>i, <2>1, <2>2 DEF Channel!AssertPolicy, Channel!Accepts, Versions
<1>3. CASE Channel!Refuse(e)
  <2>1. engine' \in [Channels -> EngineRows]
    BY <1>3, <1>n, EngineUpdates, Zenon DEF Channel!Refuse, Channel!Outcomes
  <2>2. engine'[e].at = "report" /\ \A x \in Channels \ {e} : engine'[x] = engine[x]
    BY <1>3, <1>e DEF Channel!Refuse
  <2> QED
    BY <1>3, <2>1, <2>2 DEF Channel!Refuse
<1>4. CASE Channel!FindFree(e) \/ Channel!Begin(e)
  <2>1. engine' \in [Channels -> EngineRows]
    <3>1. PICK at \in EngineSteps : engine' = [engine EXCEPT ![e].at = at]
      BY <1>4, <1>n DEF Channel!FindFree, Channel!Begin
    <3> QED
      BY <3>1, EngineUpdates, Zenon
  <2>2. /\ engine'[e].package = engine[e].package /\ engine'[e].seen = engine[e].seen
        /\ engine'[e].at \in {"free", "work"} /\ engine[e].at \in {"checked", "free"}
        /\ \A x \in Channels \ {e} : engine'[x] = engine[x]
    BY <1>4, <1>e DEF Channel!FindFree, Channel!Begin
  <2> QED
    BY <1>4, <2>1, <2>2 DEF Channel!FindFree, Channel!Begin
<1>5. CASE Channel!Work(e)
  <2>1. /\ host' = host \/ (engine[e].at = "work" /\ host' = engine[e].package)
        /\ published' = published /\ jobs' = jobs
    BY <1>5 DEF Channel!Work
  <2>2. PICK o \in Channel!Outcomes : engine' = [engine EXCEPT ![e].at = "report", ![e].outcome = o]
    BY <1>5 DEF Channel!Work, Channel!Outcomes
  <2>3. /\ store' = store \/ store' = Channel!Fresh
        /\ ask' = ask \/ ask' = [r \in Requests |-> Channel!Quiet]
    BY <1>5 DEF Channel!Work, Channel!Restarted
  <2>4. store' \in StoreRows
    BY <2>3, StoreUpdates
  <2>5. [r \in Requests |-> Channel!Quiet] \in [Requests -> CallRows]
    BY DEF Channel!Quiet, CallRows, Versions, CallOps, CallSteps
  <2>6. engine' \in [Channels -> EngineRows]
    BY <1>n, <2>2, EngineUpdates, Zenon
  <2>7. engine'[e].at = "report" /\ \A x \in Channels \ {e} : engine'[x] = engine[x]
    BY <2>2, <1>e
  <2>8. engine[e].at = "work" => engine[e].package \in Nat
    OBVIOUS
  <2> QED
    BY <2>1, <2>3, <2>4, <2>5, <2>6, <2>7, <2>8
<1>6. CASE Channel!Report(e)
  <2>1. Channel!Applied(e) \in StoreRows
    <3>1. [job |-> engine[e].job, state |-> engine[e].outcome,
           version |-> IF engine[e].outcome = "installed" THEN engine[e].package ELSE host]
             \in [job : Nat, state : Ends, version : Versions]
      BY <1>n, <1>i
    <3>2. "up_to_date" \in ChannelStates /\ "failed" \in ChannelStates
      BY DEF ChannelStates
    <3> QED
      BY <1>n, <1>i, <3>1, <3>2, Zenon DEF Channel!Applied, StoreRows
  <2>2. engine' \in [Channels -> EngineRows]
    BY <1>6, EngineUpdates, Zenon DEF Channel!Report
  <2>3. engine'[e].at = "idle" /\ \A x \in Channels \ {e} : engine'[x] = engine[x]
    BY <1>6, <1>e DEF Channel!Report, Channel!Resting
  <2> QED
    BY <1>6, <2>1, <2>2, <2>3 DEF Channel!Report
<1> QED
  BY <1>1, <1>2, <1>3, <1>4, <1>5, <1>6, Zenon DEF Channel!Engine

LEMMA ChannelStep ==
    ASSUME ChannelInv, [Channel!UpdateChannelNext]_channel
    PROVE  /\ ChannelInv'
           /\ host' < host => \E e \in Channels : engine[e].at = "work" /\ engine[e].seen # host
<1>r. Channel!Fresh \in StoreRows /\ [r \in Requests |-> Channel!Quiet] \in [Requests -> CallRows]
  BY DEF Channel!Fresh, StoreRows, ChannelStates, Ends, Versions, Channel!Quiet, CallRows, CallOps, CallSteps
<1>1. ASSUME NEW r \in Requests, Channel!Request(r)
      PROVE  ChannelInv' /\ host' = host
  BY <1>1, RequestStaysOffTheHost DEF ChannelInv, NoDowngradeSeen
<1>2. CASE Channel!Publish \/ Channel!Restart \/ UNCHANGED channel
  <2>1. Channel!Versions \subseteq Nat
    BY MCAccountsAssumption DEF Channel!Versions
  <2>2. /\ store' \in {store, Channel!Fresh} /\ ask' \in {ask, [r \in Requests |-> Channel!Quiet]}
        /\ engine' = engine /\ host' = host /\ jobs' = jobs /\ published' \in Nat
    BY <1>2, <2>1 DEF Channel!Publish, Channel!Restart, Channel!Restarted, Channel!counters, channel,
       ChannelInv, ChannelType
  <2>3. ChannelType'
    BY <2>2, <1>r DEF ChannelInv, ChannelType
  <2>4. engine' = engine
    BY <2>2
  <2>5. NoDowngradeSeen'
    BY <2>4, Zenon DEF ChannelInv, NoDowngradeSeen
  <2>6. ~(host' < host)
    BY <2>2 DEF ChannelInv, ChannelType
  <2> QED
    BY <2>3, <2>5, <2>6 DEF ChannelInv
<1>3. ASSUME NEW e \in Channels, Channel!Engine(e)
      PROVE  ChannelInv' /\ (host' < host => engine[e].at = "work" /\ engine[e].seen # host)
  <2>1. host \in Nat /\ engine[e].seen \in Nat
    BY Zenon DEF ChannelInv, ChannelType, EngineRows
  <2>2. NoDowngradeSeen'
    BY <1>3, EngineStep DEF ChannelInv, NoDowngradeSeen
  <2> QED
    BY <1>3, <2>1, <2>2, EngineStep DEF ChannelInv, NoDowngradeSeen
<1>4. host \in Nat
  BY DEF ChannelInv, ChannelType
<1> QED
  BY <1>1, <1>2, <1>3, <1>4 DEF Channel!UpdateChannelNext, Channels, channel

\* However administrators, engines, lost reports and restarts of the backend
\* interleave (Channel.psm1, apply_engine_report), the host goes back to an older
\* version only where an engine works for which another one changed the version
\* after the policy had been checked.
THEOREM DowngradesUnseen == MCSpec => GoesBackOnlyUnseen
<1>1. ASSUME Channel!UpdateChannelInit
      PROVE  ChannelInv
  <2>1. Channel!Versions \subseteq Nat
    BY MCAccountsAssumption DEF Channel!Versions
  <2>2. /\ Channel!Fresh \in StoreRows /\ Channel!Quiet \in CallRows
        /\ Channel!Resting \in EngineRows /\ Channel!Resting.at = "idle"
    BY DEF Channel!Fresh, StoreRows, ChannelStates, Ends, Versions, Channel!Quiet, CallRows, CallOps,
       CallSteps, Channel!Resting, EngineRows, EngineSteps
  <2> QED
    BY <1>1, <2>1, <2>2 DEF Channel!UpdateChannelInit, ChannelInv, ChannelType, NoDowngradeSeen, Channels
<1>2. [MCNext]_<<vars, stage, logins, machine>> => [Channel!UpdateChannelNext]_channel
  BY DEF MCNext, machine
<1>3. ChannelInv /\ [MCNext]_<<vars, stage, logins, machine>> => ChannelInv'
  BY <1>2, ChannelStep
<1>4. ChannelInv /\ [MCNext]_<<vars, stage, logins, machine>>
        => [host' < host => \E e \in Channels : engine[e].at = "work" /\ engine[e].seen # host]_(Channel!vars)
  BY <1>2, ChannelStep
<1> QED
  BY <1>1, <1>3, <1>4, PTL DEF MCSpec, MCInit, GoesBackOnlyUnseen, Channel!GoesBackOnlyUnseen, Channels

-----------------------------------------------------------------------------
(***************************************************************************)
(* Backups, as MCAccounts composes them.  The state file names a backup    *)
(* that stands because what deletes spares the newest one, a backup at     *)
(* work is the newest, and only the holder of the lock writes the record.  *)
(***************************************************************************)

Kinds == {"none", "backup", "drill", "check", "prune"}
RunSteps == {"idle", "starts", "locked", "works", "dumped", "encrypted", "tested", "published",
             "summed", "clean", "recorded", "deletes", "deleted", "decrypted", "restores", "ends",
             "drops", "reads"}
StateRows == [last : Nat, drill : [file : Nat, ok : BOOLEAN]]
RunRows == [kind : Kinds, at : RunSteps, seen : StateRows, file : Nat, doomed : SUBSET Nat]
Runs == [Requests -> RunRows]

ArchiveType ==
    /\ files \subseteq 1..copies /\ copies \in Nat /\ meddled \in BOOLEAN
    /\ state \in StateRows /\ run \in Runs

\* Between Acquire and Release or Leave.
Holds(p) == run[p].kind \in {"backup", "drill"} /\ run[p].at \notin {"starts", "drops"}

\* What a process knows of the directory and of the state file.
Knows(p) ==
    /\ run[p].doomed \subseteq 1..(copies - 1)
    /\ run[p].at \in {"deletes", "deleted"} => run[p].kind \in {"backup", "prune"}
    /\ run[p].at = "deleted" => run[p].file \in 1..(copies - 1) /\ run[p].file \notin files
    /\ Holds(p) => lock = p
    /\ run[p].kind = "backup" =>
         /\ run[p].at \in {"published", "summed", "clean"} => run[p].file = copies /\ copies > 0
         /\ run[p].at \in {"summed", "clean"} => run[p].file \in sidecars
         /\ run[p].at \in {"recorded", "deletes", "deleted"} => meddled \/ state.last = copies
    /\ run[p].kind = "drill" /\ run[p].at \in {"works", "decrypted", "restores"}
         => meddled \/ run[p].seen.last = state.last

ArchiveInv ==
    /\ ArchiveType
    /\ copies > 0 => copies \in files
    /\ Archive!Stands \/ meddled
    /\ \A p \in Requests : Knows(p)

\* What a step of one process leaves to the others.
LeavesAlone(p) ==
    /\ \A q \in Requests \ {p} : run'[q] = run[q]
    /\ lock' = lock \/ lock = Nobody \/ lock = p
    /\ copies' = copies \/ (copies' = copies + 1 /\ lock = p)
    /\ files' \subseteq files \cup {copies'}
    /\ copies \in sidecars => copies \in sidecars'
    /\ meddled => meddled'
    /\ state'.last = state.last \/ lock = p \/ meddled'

LEMMA OthersKnow ==
    ASSUME ArchiveInv, ArchiveType', NEW p \in Requests, LeavesAlone(p), NEW q \in Requests \ {p}
    PROVE  Knows(q)'
<1>1. run'[q] = run[q] /\ Knows(q) /\ copies \in Nat /\ copies' \in Nat
  BY DEF ArchiveInv, ArchiveType, LeavesAlone
<1>2. Holds(q) => lock = q /\ lock' = q /\ copies' = copies
  BY <1>1, MCAccountsAssumption DEF Knows, LeavesAlone
<1>3. Holds(q) => meddled' \/ (state'.last = state.last /\ ~meddled)
  BY <1>2 DEF LeavesAlone
<1>4. run'[q].doomed \subseteq 1..(copies' - 1)
  BY <1>1 DEF Knows, LeavesAlone
<1>5. run'[q].at = "deleted" => run'[q].file \in 1..(copies' - 1) /\ run'[q].file \notin files'
  BY <1>1 DEF Knows, LeavesAlone
<1>6. run[q].kind = "backup" /\ run[q].at \in {"summed", "clean"} => run[q].file \in sidecars'
  BY <1>1, <1>2 DEF Knows, LeavesAlone, Holds
<1> QED
  BY <1>1, <1>2, <1>3, <1>4, <1>5, <1>6 DEF Knows, Holds

LEMMA RunGoesOn ==
    ASSUME run \in Runs, NEW p \in Requests, NEW at \in RunSteps, Archive!Goes(p, at)
    PROVE  /\ run' \in Runs
           /\ \A q \in Requests \ {p} : run'[q] = run[q]
           /\ run'[p].at = at /\ run'[p].kind = run[p].kind /\ run'[p].seen = run[p].seen
           /\ run'[p].file = run[p].file /\ run'[p].doomed = run[p].doomed
<1>1. [run EXCEPT ![p].at = at] \in Runs
  BY Zenon DEF Runs, RunRows
<1> QED
  BY <1>1 DEF Archive!Goes, Runs, RunRows

LEMMA RunEnds ==
    ASSUME run \in Runs, NEW p \in Requests, run' = [run EXCEPT ![p] = Archive!Idle]
    PROVE  /\ run' \in Runs
           /\ \A q \in Requests \ {p} : run'[q] = run[q]
           /\ run'[p] = Archive!Idle /\ run'[p].doomed = {}
           /\ run'[p].kind = "none" /\ run'[p].at = "idle"
<1>1. Archive!Idle \in RunRows
  BY DEF Archive!Idle, Archive!FreshState, Archive!NoBackup, RunRows, StateRows, Kinds, RunSteps
<1> QED
  BY <1>1 DEF Runs, Archive!Idle

\* A step of p keeps the invariant where p itself still knows what it did and
\* the directory and the state file are right.
Kept(p) ==
    /\ ArchiveType' /\ LeavesAlone(p) /\ Knows(p)'
    /\ (copies > 0 => copies \in files)'
    /\ (Archive!Stands \/ meddled)'

LEMMA KeptIsEnough ==
    ASSUME ArchiveInv, NEW p \in Requests, Kept(p)
    PROVE  ArchiveInv'
<1>1. \A q \in Requests \ {p} : Knows(q)'
  BY OthersKnow DEF Kept
<1> QED
  BY <1>1 DEF Kept, ArchiveInv

LEMMA StepNames ==
    \A at \in {"starts", "locked", "works", "dumped", "encrypted", "tested", "published", "summed",
               "clean", "recorded", "deletes", "deleted", "decrypted", "restores", "ends", "drops",
               "reads"} : at \in RunSteps
  BY DEF RunSteps

\* Steps that leave directory, state file and records alone.
LEMMA QuietStep ==
    ASSUME ArchiveInv, NEW p \in Requests, run' \in Runs,
           \A q \in Requests \ {p} : run'[q] = run[q],
           lock' = lock \/ lock = Nobody \/ lock = p, Knows(p)',
           UNCHANGED <<files, sidecars, meddled, copies, state>>
    PROVE  Kept(p)
<1>1. ArchiveType' /\ LeavesAlone(p)
  BY DEF ArchiveInv, ArchiveType, LeavesAlone
<1>2. (copies > 0 => copies \in files)' /\ (Archive!Stands \/ meddled)'
  BY DEF ArchiveInv, Archive!Stands, Archive!NoBackup
<1> QED
  BY <1>1, <1>2 DEF Kept

LEMMA StartingStep ==
    ASSUME ArchiveInv, NEW p \in Requests,
           \/ \E kind \in {"backup", "drill", "check", "prune"} : Archive!Start(p, kind)
           \/ Archive!Locked(p) \/ Archive!Acquire(p)
    PROVE  Kept(p)
<1>r. run \in Runs /\ Knows(p) /\ state \in StateRows
  BY DEF ArchiveInv, ArchiveType
<1>1. ASSUME NEW kind \in {"backup", "drill", "check", "prune"}, Archive!Start(p, kind)
      PROVE  Kept(p)
  <2>1. [Archive!Idle EXCEPT !.kind = kind, !.at = "starts"] \in RunRows
    BY DEF Archive!Idle, Archive!FreshState, Archive!NoBackup, RunRows, StateRows, Kinds, RunSteps
  <2>2. /\ run' \in Runs /\ \A q \in Requests \ {p} : run'[q] = run[q]
        /\ run'[p].at = "starts" /\ run'[p].doomed = {}
    BY <1>r, <1>1, <2>1 DEF Archive!Start, Runs, Archive!Idle
  <2>3. Knows(p)'
    BY <2>2 DEF Knows, Holds
  <2> QED
    BY <1>1, <2>2, <2>3, QuietStep DEF Archive!Start, Archive!disk, Archive!counters
<1>2. CASE Archive!Locked(p)
  <2>1. Knows(p)'
    BY <1>2, <1>r, RunEnds DEF Archive!Locked, Knows, Holds
  <2> QED
    BY <1>2, <1>r, <2>1, RunEnds, QuietStep DEF Archive!Locked, Archive!disk, Archive!counters
<1>3. CASE Archive!Acquire(p)
  <2>1. CASE run[p].at = "starts"
    <3>1. Archive!Goes(p, "locked") /\ lock = Nobody /\ lock' = p
      BY <1>3, <2>1 DEF Archive!Acquire
    <3>2. Knows(p)'
      BY <1>3, <1>r, <3>1, RunGoesOn, StepNames
         DEF Archive!Acquire, Knows, Holds, Archive!disk, Archive!counters
    <3> QED
      BY <1>3, <1>r, <3>1, <3>2, RunGoesOn, StepNames, QuietStep
         DEF Archive!Acquire, Archive!disk, Archive!counters
  <2>2. CASE run[p].at # "starts"
    <3>1. /\ run' = [run EXCEPT ![p].at = "works", ![p].seen = state]
          /\ run[p].kind \in {"backup", "drill"} /\ run[p].at = "locked" /\ lock' = lock
      BY <1>3, <2>2 DEF Archive!Acquire
    <3>2. run' \in Runs
      BY <1>r, <3>1, StepNames, Zenon DEF Runs, RunRows
    <3>3. /\ \A q \in Requests \ {p} : run'[q] = run[q]
          /\ run'[p].at = "works" /\ run'[p].kind = run[p].kind /\ run'[p].seen = state
          /\ run'[p].doomed = run[p].doomed
      BY <1>r, <3>1 DEF Runs, RunRows
    <3>4. Knows(p)'
      BY <1>3, <1>r, <3>1, <3>3 DEF Archive!Acquire, Knows, Holds, Archive!disk, Archive!counters
    <3> QED
      BY <1>3, <3>1, <3>2, <3>3, <3>4, QuietStep DEF Archive!Acquire, Archive!disk, Archive!counters
  <2> QED
    BY <2>1, <2>2
<1> QED
  BY <1>1, <1>2, <1>3

LEMMA BackupRunsOn ==
    ASSUME ArchiveInv, NEW p \in Requests,
           \/ Archive!Dump(p) \/ Archive!EncryptStep(p) \/ Archive!Unlink(p)
    PROVE  Kept(p)
<1>r. run \in Runs /\ Knows(p)
  BY DEF ArchiveInv, ArchiveType
<1> USE DEF Archive!At, Archive!disk, Archive!counters
<1>1. PICK at \in {"dumped", "encrypted", "tested", "clean"} :
        /\ Archive!Goes(p, at) /\ run[p].kind = "backup" /\ (at = "clean" => run[p].at = "summed")
        /\ run[p].at \in {"works", "dumped", "encrypted", "summed"}
        /\ UNCHANGED <<files, sidecars, meddled, copies, state, lock>>
  BY DEF Archive!Dump, Archive!EncryptStep, Archive!Encrypt, Archive!Unlink
<1>2. /\ run' \in Runs /\ \A q \in Requests \ {p} : run'[q] = run[q]
      /\ run'[p].at = at /\ run'[p].kind = run[p].kind
      /\ run'[p].file = run[p].file /\ run'[p].doomed = run[p].doomed
  BY <1>1, <1>r, RunGoesOn, StepNames
<1>3. Knows(p)'
  BY <1>1, <1>2, <1>r DEF Knows, Holds
<1> QED
  BY <1>1, <1>2, <1>3, QuietStep

LEMMA PublishStep ==
    ASSUME ArchiveInv, NEW p \in Requests, Archive!Publish(p)
    PROVE  Kept(p)
<1>r. /\ run \in Runs /\ Knows(p) /\ lock = p /\ copies \in Nat
      /\ run[p].kind = "backup" /\ run[p].at = "tested"
  BY DEF ArchiveInv, ArchiveType, Knows, Holds, Archive!Publish, Archive!At
<1>1. /\ run' = [run EXCEPT ![p].at = "published", ![p].file = copies']
      /\ copies' = copies + 1 /\ files' = files \cup {copies'}
      /\ sidecars' = sidecars /\ state' = state /\ lock' = lock /\ meddled' = meddled
  BY DEF Archive!Publish
<1>2. run' \in Runs
  <2>1. copies' \in Nat
    BY <1>1, <1>r
  <2> QED
    BY <1>1, <1>r, <2>1, StepNames, Zenon DEF Runs, RunRows
<1>3. /\ \A q \in Requests \ {p} : run'[q] = run[q]
      /\ run'[p].at = "published" /\ run'[p].kind = "backup" /\ run'[p].file = copies'
      /\ run'[p].doomed = run[p].doomed
  BY <1>1, <1>r DEF Runs, RunRows
<1>4. Knows(p)'
  <2>1. run'[p].doomed \subseteq 1..(copies' - 1)
    <3>1. \A b \in run[p].doomed : b \in 1..copies
      BY <1>r DEF Knows
    <3>2. copies' - 1 = copies
      BY <1>1, <1>r
    <3> QED
      BY <1>3, <3>1, <3>2
  <2>2. copies' > 0
    BY <1>1, <1>r
  <2> QED
    BY <1>1, <1>3, <1>r, <2>1, <2>2 DEF Knows, Holds
<1>5. LeavesAlone(p) /\ (Archive!Stands \/ meddled)'
  BY <1>1, <1>3, <1>r DEF LeavesAlone, ArchiveInv, Archive!Stands, Archive!NoBackup
<1>6. ArchiveType'
  BY <1>1, <1>2, <1>r DEF ArchiveInv, ArchiveType
<1> QED
  BY <1>1, <1>4, <1>5, <1>6 DEF Kept

LEMMA ChecksumStep ==
    ASSUME ArchiveInv, NEW p \in Requests, Archive!WriteChecksum(p)
    PROVE  Kept(p)
<1>r. /\ run \in Runs /\ Knows(p) /\ run[p].kind = "backup" /\ run[p].at = "published"
  BY DEF ArchiveInv, ArchiveType, Archive!WriteChecksum, Archive!At
<1>1. /\ Archive!Goes(p, "summed") /\ sidecars' = sidecars \cup {run[p].file}
      /\ UNCHANGED <<files, meddled, copies, state, lock>>
  BY DEF Archive!WriteChecksum, Archive!counters
<1>2. /\ run' \in Runs /\ \A q \in Requests \ {p} : run'[q] = run[q]
      /\ run'[p].at = "summed" /\ run'[p].kind = "backup"
      /\ run'[p].file = run[p].file /\ run'[p].doomed = run[p].doomed
  BY <1>1, <1>r, RunGoesOn, StepNames
<1>3. Knows(p)'
  BY <1>1, <1>2, <1>r DEF Knows, Holds
<1>4. LeavesAlone(p) /\ (Archive!Stands \/ meddled)' /\ ArchiveType' /\ (copies > 0 => copies \in files)'
  BY <1>1, <1>2 DEF LeavesAlone, ArchiveInv, ArchiveType, Archive!Stands, Archive!NoBackup
<1> QED
  BY <1>3, <1>4 DEF Kept

LEMMA RecordStep ==
    ASSUME ArchiveInv, NEW p \in Requests, Archive!Record(p)
    PROVE  Kept(p)
<1>r. /\ run \in Runs /\ Knows(p) /\ run[p].kind = "backup" /\ run[p].at = "clean"
      /\ lock = p /\ copies > 0 /\ run[p].file = copies /\ copies \in files \cap sidecars
  BY DEF ArchiveInv, ArchiveType, Archive!Record, Archive!At, Knows, Holds
<1>1. /\ Archive!Goes(p, "recorded") /\ state' = [run[p].seen EXCEPT !.last = run[p].file]
      /\ UNCHANGED <<files, sidecars, meddled, copies, lock>>
  BY DEF Archive!Record, Archive!disk, Archive!counters
<1>2. /\ run' \in Runs /\ \A q \in Requests \ {p} : run'[q] = run[q]
      /\ run'[p].at = "recorded" /\ run'[p].kind = "backup"
      /\ run'[p].file = run[p].file /\ run'[p].doomed = run[p].doomed
  BY <1>1, <1>r, RunGoesOn, StepNames
<1>3. run[p].seen \in StateRows /\ run[p].file \in Nat
  BY <1>r, Zenon DEF Runs, RunRows
<1>4. state' \in StateRows /\ state'.last = copies
  BY <1>1, <1>r, <1>3 DEF StateRows
<1>5. Knows(p)'
  BY <1>1, <1>2, <1>4, <1>r DEF Knows, Holds
<1>6. LeavesAlone(p) /\ (Archive!Stands \/ meddled)' /\ ArchiveType' /\ (copies > 0 => copies \in files)'
  BY <1>1, <1>2, <1>4, <1>r DEF LeavesAlone, ArchiveInv, ArchiveType, Archive!Stands
<1> QED
  BY <1>5, <1>6 DEF Kept

\* The archive counts as FiniteSets does.
LEMMA SameCount ==
    ASSUME NEW S
    PROVE  Archive!Cardinality(S) = Cardinality(S)
  BY Zenon DEF Cardinality, Archive!Cardinality

\* Retention and prunings spare the newest backup.
LEMMA NewestIsSpared ==
    ASSUME ArchiveInv
    PROVE  Archive!Doomed \subseteq 1..(copies - 1)
<1>1. copies \in Nat /\ files \subseteq 1..copies
  BY DEF ArchiveInv, ArchiveType
<1>2. \A c \in files : c \in 1..copies /\ ~(c > copies)
  BY <1>1
<1>3. {c \in files : c > copies} = {}
  BY <1>2, Zenon
<1>4. Archive!Cardinality({c \in files : c > copies}) < MinCopies
  BY <1>3, SameCount, FS_EmptySet, MCAccountsAssumption
<1>5. copies \in files => copies \in Archive!Newest(files)
  BY <1>4, Zenon DEF Archive!Newest
<1>6. \A b \in Archive!Doomed : b \in files /\ b # copies
  BY <1>5 DEF Archive!Doomed
<1>7. \A b \in Archive!Doomed : b \in 1..copies /\ b # copies
  BY <1>2, <1>6
<1> QED
  BY <1>1, <1>7

LEMMA PlanStep ==
    ASSUME ArchiveInv, NEW p \in Requests, Archive!Plan(p)
    PROVE  Kept(p)
<1>r. /\ run \in Runs /\ Knows(p)
      /\ \/ run[p].kind = "backup" /\ run[p].at = "recorded"
         \/ run[p].kind = "prune"
  BY DEF ArchiveInv, ArchiveType, Archive!Plan, Archive!At
<1>1. /\ run' = [run EXCEPT ![p].at = "deletes", ![p].doomed = Archive!Doomed]
      /\ UNCHANGED <<files, sidecars, meddled, copies, state, lock>>
  BY DEF Archive!Plan, Archive!disk, Archive!counters
<1>2. Archive!Doomed \in SUBSET Nat
  BY NewestIsSpared DEF ArchiveInv, ArchiveType
<1>3. run' \in Runs
  BY <1>1, <1>2, <1>r, StepNames, Zenon DEF Runs, RunRows
<1>4. /\ \A q \in Requests \ {p} : run'[q] = run[q]
      /\ run'[p].at = "deletes" /\ run'[p].kind = run[p].kind /\ run'[p].doomed = Archive!Doomed
  BY <1>1, <1>r DEF Runs, RunRows
<1>5. Knows(p)'
  BY <1>1, <1>4, <1>r, NewestIsSpared DEF Knows, Holds
<1> QED
  BY <1>1, <1>3, <1>4, <1>5, QuietStep

LEMMA DeleteStep ==
    ASSUME ArchiveInv, NEW p \in Requests, Archive!Delete(p)
    PROVE  Kept(p)
<1>r. /\ run \in Runs /\ Knows(p) /\ run[p].kind \in {"backup", "prune"} /\ run[p].at = "deletes"
      /\ copies \in Nat /\ files \subseteq 1..copies /\ meddled \in BOOLEAN
  BY DEF ArchiveInv, ArchiveType, Archive!Delete, Knows
<1>1. PICK b \in run[p].doomed :
        /\ files' = files \ {b}
        /\ run' = [run EXCEPT ![p].at = "deleted", ![p].file = b, ![p].doomed = run[p].doomed \ {b}]
  <2>1. PICK b \in run[p].doomed :
          /\ files' = files \ {b}
          /\ run' = [run EXCEPT ![p].at = "deleted", ![p].file = b, ![p].doomed = @ \ {b}]
    BY DEF Archive!Delete
  <2> QED
    BY <1>r, <2>1 DEF Runs, RunRows
<1>2. /\ meddled' = (meddled \/ (run[p].kind = "prune" /\ state.last \in files \ files'))
      /\ UNCHANGED <<sidecars, copies, state, lock>>
  BY DEF Archive!Delete, Archive!counters
<1>3. b \in 1..(copies - 1) /\ b \in Nat /\ run[p].doomed \ {b} \in SUBSET Nat
  BY <1>r DEF Knows
<1>4. run' \in Runs
  BY <1>1, <1>3, <1>r, StepNames, Zenon DEF Runs, RunRows
<1>5. /\ \A q \in Requests \ {p} : run'[q] = run[q]
      /\ run'[p].at = "deleted" /\ run'[p].kind = run[p].kind /\ run'[p].file = b
      /\ run'[p].doomed = run[p].doomed \ {b}
  BY <1>1, <1>r DEF Runs, RunRows
<1>6. Knows(p)'
  <2>1. run'[p].doomed \subseteq 1..(copies' - 1) /\ run'[p].file \in 1..(copies' - 1)
    BY <1>2, <1>3, <1>5, <1>r, Zenon DEF Knows
  <2>2. run'[p].file \notin files'
    BY <1>1, <1>5
  <2>3. /\ Holds(p)' => lock' = p
        /\ run'[p].kind = "backup" => meddled' \/ state'.last = copies'
    BY <1>2, <1>5, <1>r DEF Knows, Holds
  <2> QED
    BY <1>5, <1>r, <2>1, <2>2, <2>3 DEF Knows
<1>7. (copies > 0 => copies \in files)' /\ ArchiveType'
  BY <1>1, <1>2, <1>3, <1>4, <1>r DEF ArchiveInv, ArchiveType
\* A backup knows that it is the last one, which it does not delete.
<1>8. (Archive!Stands \/ meddled)'
  <2>1. run[p].kind = "backup" => meddled \/ state.last # b
    BY <1>3, <1>r DEF Knows
  <2> QED
    BY <1>1, <1>2, <1>r, <2>1 DEF ArchiveInv, Archive!Stands
<1>9. LeavesAlone(p)
  BY <1>1, <1>2, <1>5, <1>r DEF LeavesAlone
<1> QED
  BY <1>6, <1>7, <1>8, <1>9 DEF Kept

LEMMA DeleteChecksumStep ==
    ASSUME ArchiveInv, NEW p \in Requests, Archive!DeleteChecksum(p)
    PROVE  Kept(p)
<1>r. /\ run \in Runs /\ Knows(p) /\ run[p].kind \in {"backup", "prune"} /\ run[p].at = "deleted"
      /\ run[p].file \in 1..(copies - 1) /\ run[p].file \notin files /\ copies \in Nat
  BY DEF ArchiveInv, ArchiveType, Archive!DeleteChecksum, Knows
<1>1. /\ Archive!Goes(p, "deletes") /\ sidecars' = sidecars \ {run[p].file}
      /\ UNCHANGED <<files, meddled, copies, state, lock>>
  BY DEF Archive!DeleteChecksum, Archive!counters
<1>2. /\ run' \in Runs /\ \A q \in Requests \ {p} : run'[q] = run[q]
      /\ run'[p].at = "deletes" /\ run'[p].kind = run[p].kind /\ run'[p].doomed = run[p].doomed
  BY <1>1, <1>r, RunGoesOn, StepNames
<1>3. Knows(p)'
  BY <1>1, <1>2, <1>r DEF Knows, Holds
<1>4. LeavesAlone(p) /\ (Archive!Stands \/ meddled)'
  BY <1>1, <1>2, <1>r DEF LeavesAlone, ArchiveInv, Archive!Stands
<1>5. ArchiveType' /\ (copies > 0 => copies \in files)'
  BY <1>1, <1>2, <1>r DEF ArchiveInv, ArchiveType
<1> QED
  BY <1>3, <1>4, <1>5 DEF Kept

LEMMA LeavingStep ==
    ASSUME ArchiveInv, NEW p \in Requests,
           \/ Archive!Finish(p) \/ Archive!Fail(p) \/ Archive!Drop(p) \/ Archive!Crash(p)
    PROVE  Kept(p)
<1>r. run \in Runs
  BY DEF ArchiveInv, ArchiveType
<1>1. /\ run' = [run EXCEPT ![p] = Archive!Idle] /\ (lock' = lock \/ lock = p)
      /\ UNCHANGED <<files, sidecars, meddled, copies, state>>
  BY DEF Archive!Finish, Archive!Fail, Archive!Drop, Archive!Crash, Archive!Leave, Archive!disk,
     Archive!counters
<1>2. Knows(p)'
  BY <1>1, <1>r, RunEnds DEF Knows, Holds
<1> QED
  BY <1>1, <1>2, <1>r, RunEnds, QuietStep

LEMMA DrillStep ==
    ASSUME ArchiveInv, NEW p \in Requests,
           \/ Archive!Decrypt(p) \/ Archive!CreateDb(p) \/ Archive!Pass(p) \/ Archive!FailDrill(p)
           \/ Archive!Release(p)
    PROVE  Kept(p)
<1>r. run \in Runs /\ Knows(p) /\ state \in StateRows /\ meddled \in BOOLEAN
  BY DEF ArchiveInv, ArchiveType
<1>f. run[p].seen \in StateRows /\ run[p].file \in Nat /\ run[p].seen.last \in Nat
  BY <1>r, Zenon DEF Runs, RunRows, StateRows
<1> USE DEF Archive!At, Archive!disk, Archive!counters
<1>1. CASE Archive!Decrypt(p)
  <2>1. /\ run' = [run EXCEPT ![p].at = "decrypted", ![p].file = run[p].seen.last]
        /\ run[p].kind = "drill" /\ run[p].at = "works"
        /\ UNCHANGED <<files, sidecars, meddled, copies, state, lock>>
    BY <1>1 DEF Archive!Decrypt
  <2>2. run' \in Runs
    BY <1>f, <1>r, <2>1, StepNames, Zenon DEF Runs, RunRows
  <2>3. /\ \A q \in Requests \ {p} : run'[q] = run[q]
        /\ run'[p].at = "decrypted" /\ run'[p].kind = "drill" /\ run'[p].seen = run[p].seen
        /\ run'[p].doomed = run[p].doomed
    BY <1>r, <2>1 DEF Runs, RunRows
  <2>4. Knows(p)'
    BY <1>r, <2>1, <2>3 DEF Knows, Holds
  <2> QED
    BY <2>1, <2>2, <2>3, <2>4, QuietStep
<1>2. CASE Archive!CreateDb(p) \/ Archive!Release(p)
  <2>1. PICK at \in {"restores", "drops"} :
          /\ Archive!Goes(p, at) /\ run[p].kind = "drill"
          /\ \/ at = "restores" /\ run[p].at = "decrypted" /\ lock' = lock
             \/ at = "drops" /\ run[p].at = "ends"
          /\ UNCHANGED <<files, sidecars, meddled, copies, state>>
    BY <1>2 DEF Archive!CreateDb, Archive!Release
  <2>2. /\ run' \in Runs /\ \A q \in Requests \ {p} : run'[q] = run[q]
        /\ run'[p].at = at /\ run'[p].kind = "drill" /\ run'[p].seen = run[p].seen
        /\ run'[p].doomed = run[p].doomed
    BY <1>r, <2>1, RunGoesOn, StepNames
  <2>3. lock = p
    BY <1>r, <2>1 DEF Knows, Holds
  <2>4. Knows(p)'
    BY <1>r, <2>1, <2>2 DEF Knows, Holds
  <2> QED
    BY <2>1, <2>2, <2>3, <2>4, QuietStep
<1>3. CASE Archive!Pass(p) \/ Archive!FailDrill(p)
  <2>1. /\ Archive!Goes(p, "ends") /\ run[p].kind = "drill"
        /\ run[p].at \in {"works", "decrypted", "restores"}
        /\ UNCHANGED <<files, sidecars, meddled, copies, lock>>
        /\ \/ state' = [run[p].seen EXCEPT !.drill = [file |-> run[p].file, ok |-> TRUE]]
           \/ state' = [state EXCEPT !.drill = [file |-> run[p].file, ok |-> FALSE]]
           \/ state' = state
    BY <1>3 DEF Archive!Pass, Archive!FailDrill, Archive!Fails
  <2>2. state' \in StateRows /\ state'.last \in {state.last, run[p].seen.last}
    <3>1. /\ [file |-> run[p].file, ok |-> TRUE] \in [file : Nat, ok : BOOLEAN]
          /\ [file |-> run[p].file, ok |-> FALSE] \in [file : Nat, ok : BOOLEAN]
      BY <1>f
    <3>2. \A s \in StateRows, d \in [file : Nat, ok : BOOLEAN] :
            [s EXCEPT !.drill = d] \in StateRows /\ [s EXCEPT !.drill = d].last = s.last
      BY DEF StateRows
    <3>3. \/ state' = state
          \/ \E s \in {state, run[p].seen}, d \in [file : Nat, ok : BOOLEAN] :
                state' = [s EXCEPT !.drill = d]
      BY <2>1, <3>1
    <3>4. ASSUME NEW s \in {state, run[p].seen}, NEW d \in [file : Nat, ok : BOOLEAN],
                 state' = [s EXCEPT !.drill = d]
          PROVE  state' \in StateRows /\ state'.last = s.last
      <4>1. s \in StateRows
        BY <1>f, <1>r
      <4> QED
        BY <3>2, <3>4, <4>1, Zenon
    <3> QED
      BY <1>r, <3>3, <3>4
  <2>3. lock = p /\ (meddled \/ state'.last = state.last)
    BY <1>r, <2>1, <2>2 DEF Knows, Holds
  <2>4. /\ run' \in Runs /\ \A q \in Requests \ {p} : run'[q] = run[q]
        /\ run'[p].at = "ends" /\ run'[p].kind = "drill" /\ run'[p].doomed = run[p].doomed
    BY <1>r, <2>1, RunGoesOn, StepNames
  <2>5. Knows(p)'
    BY <1>r, <2>1, <2>3, <2>4 DEF Knows, Holds
  <2>6. LeavesAlone(p) /\ (Archive!Stands \/ meddled)' /\ ArchiveType' /\ (copies > 0 => copies \in files)'
    BY <2>1, <2>2, <2>3, <2>4 DEF LeavesAlone, ArchiveInv, ArchiveType, Archive!Stands
  <2> QED
    BY <2>5, <2>6 DEF Kept
<1> QED
  BY <1>1, <1>2, <1>3

LEMMA CheckingStep ==
    ASSUME ArchiveInv, NEW p \in Requests, Archive!CheckStep(p)
    PROVE  Kept(p)
<1>r. run \in Runs /\ Knows(p) /\ state \in StateRows /\ meddled \in BOOLEAN
  BY DEF ArchiveInv, ArchiveType
<1>f. run[p].seen \in StateRows
  BY <1>r, Zenon DEF Runs, RunRows
<1> USE DEF Archive!At, Archive!disk, Archive!counters
<1>1. CASE run' = [run EXCEPT ![p] = Archive!Idle]
  <2>1. /\ UNCHANGED <<files, sidecars, copies, lock>>
        /\ \/ UNCHANGED <<state, meddled>>
           \/ state' = run[p].seen /\ meddled' = (meddled \/ state'.last # state.last)
    BY <1>1 DEF Archive!CheckStep, Archive!Check
  <2>2. Knows(p)'
    BY <1>1, <1>r, RunEnds DEF Knows, Holds
  <2>3. LeavesAlone(p) /\ (Archive!Stands \/ meddled)' /\ ArchiveType' /\ (copies > 0 => copies \in files)'
    BY <1>1, <1>f, <1>r, <2>1, RunEnds DEF LeavesAlone, ArchiveInv, ArchiveType, Archive!Stands
  <2> QED
    BY <2>2, <2>3 DEF Kept
<1>2. CASE run' # [run EXCEPT ![p] = Archive!Idle]
  <2>1. /\ run' = [run EXCEPT ![p].at = "reads", ![p].seen = state] /\ run[p].kind = "check"
        /\ UNCHANGED <<files, sidecars, copies, lock, state, meddled>>
    BY <1>2 DEF Archive!CheckStep, Archive!Check
  <2>2. run' \in Runs
    BY <1>r, <2>1, StepNames, Zenon DEF Runs, RunRows
  <2>3. /\ \A q \in Requests \ {p} : run'[q] = run[q]
        /\ run'[p].at = "reads" /\ run'[p].kind = "check" /\ run'[p].doomed = run[p].doomed
    BY <1>r, <2>1 DEF Runs, RunRows
  <2>4. Knows(p)'
    BY <1>r, <2>1, <2>3 DEF Knows, Holds
  <2> QED
    BY <2>1, <2>2, <2>3, <2>4, QuietStep
<1> QED
  BY <1>1, <1>2

LEMMA ArchiveStep == ArchiveInv /\ [Archive!Next]_backups => ArchiveInv'
<1> SUFFICES ASSUME ArchiveInv, [Archive!Next]_backups PROVE ArchiveInv'
  OBVIOUS
<1>1. ASSUME NEW p \in Requests,
             \/ \E kind \in {"backup", "drill", "check", "prune"} : Archive!Start(p, kind)
             \/ Archive!Locked(p) \/ Archive!Acquire(p) \/ Archive!Backup(p) \/ Archive!Drill(p)
             \/ Archive!CheckStep(p) \/ Archive!Crash(p)
      PROVE  ArchiveInv'
  <2>1. Kept(p)
    BY <1>1, StartingStep, BackupRunsOn, PublishStep, ChecksumStep, RecordStep, PlanStep, DeleteStep,
       DeleteChecksumStep, LeavingStep, DrillStep, CheckingStep, Zenon
       DEF Archive!Backup, Archive!Drill
  <2> QED
    BY <2>1, KeptIsEnough
<1>2. CASE Archive!Age \/ UNCHANGED backups
  <2>1. UNCHANGED <<files, sidecars, state, lock, run, meddled, copies>>
    BY <1>2 DEF Archive!Age, Archive!counters, backups
  <2> QED
    BY <2>1 DEF ArchiveInv, ArchiveType, Archive!Stands, Knows, Holds
<1> QED
  BY <1>1, <1>2, Zenon DEF Archive!Next, backups

\* Wherever backups and drills fail, die or find the lock taken (run_backup,
\* run_restore_drill), the recorded backup is there with its checksum until an
\* unlocked check or pruning undoes that, and an archive that once had a backup
\* is never empty, for every number of processes, backups, crashes and failures.
THEOREM RecordStands == MCSpec => []RecordedBackupStands
<1>1. ASSUME Archive!Init
      PROVE  ArchiveInv
  <2>1. Archive!Idle \in RunRows /\ Archive!FreshState \in StateRows
    BY DEF Archive!Idle, Archive!FreshState, Archive!NoBackup, RunRows, StateRows, Kinds, RunSteps
  <2>2. ArchiveType /\ copies = 0
    BY <1>1, <2>1 DEF Archive!Init, ArchiveType, Runs
  <2>3. Archive!Stands
    BY <1>1 DEF Archive!Init, Archive!Stands, Archive!FreshState, Archive!NoBackup
  <2>4. \A p \in Requests : Knows(p)
    BY <1>1 DEF Archive!Init, Archive!Idle, Knows, Holds
  <2> QED
    BY <2>2, <2>3, <2>4 DEF ArchiveInv
<1>2. [MCNext]_<<vars, stage, logins, machine>> => [Archive!Next]_backups
  BY DEF MCNext, machine
<1>3. ArchiveInv /\ [MCNext]_<<vars, stage, logins, machine>> => ArchiveInv'
  BY <1>2, ArchiveStep
<1>4. ArchiveInv => RecordedBackupStands
  BY DEF ArchiveInv, RecordedBackupStands, Archive!RecordedBackupStands
<1> QED
  BY <1>1, <1>3, <1>4, PTL DEF MCSpec, MCInit

------------------------------------------------------------------------------
\* An update under way is in the phase of its journal, which is about the record and
\* whose images are pinned.
Early == {"prepare", "build", "switch", "migrate"}

Phased ==
    /\ eng.at = "gate" => IF Host!Resumes THEN eng.phase = journal.phase
                          ELSE journal = None /\ eng.phase = "prepare"
    /\ eng.at \in {"pin", "prepare"} => journal = None \/ (Host!Resumes /\ journal.phase = "prepare")
    /\ eng.at = "backup" => Host!Resumes /\ journal.phase = "prepare"
    /\ eng.at \in {"build", "builds"} => Host!Resumes /\ journal.phase = "build"
    /\ eng.at \in {"switch", "copies", "ups"} => Host!Resumes /\ journal.phase = "switch"
    /\ eng.at \in {"migrate", "upgrade"} => Host!Resumes /\ journal.phase = "migrate"
    /\ eng.at \in {"smoke", "smoked"} => Host!Resumes /\ journal.phase = "smoke"
    /\ eng.at = "done" => Host!Resumes /\ journal.phase = "done"
    /\ eng.at = "cleared" => journal = None
    /\ eng.at = "caught" => journal = None \/ Host!Resumes
    /\ eng.at \in Host!RollsBack \cup {"told"} => ~Host!Resumes

Expecting ==
    /\ Host!Resumes /\ journal.phase \in Early => journal.prev = record
    /\ Host!Resumes /\ journal.phase \in {"smoke", "done"} => journal.migrated
    /\ Host!Resumes => disk.previous # None
    /\ eng.at \in {"smoke", "smoked", "done", "cleared"} => eng.migrated
    /\ eng.at = "gate" /\ eng.phase \in {"smoke", "done"} => eng.migrated
    /\ eng.at \in {"gate", "pin", "prepare"} /\ ~Host!Resumes => ~eng.migrated
    /\ eng.at \in (Host!Forth \ {"smoked", "done", "cleared", "caught"}) \cup {"untag"} => eng.recorded = record
    /\ eng.at = "caught" /\ ~eng.migrated => eng.recorded = record
    /\ eng.at \in Host!Forth /\ (Host!Resumes \/ ~eng.migrated) =>
          eng.expected = IF Host!Resumes THEN journal.prev ELSE record
    /\ eng.at \in Host!Forth /\ eng.ids => disk.previous # None
    /\ eng.at \in Host!Forth /\ Host!Resumes => eng.ids
    /\ eng.at \in (Host!Forth \ {"gate", "pin", "caught"}) \cup Host!RollsBack => eng.ids /\ disk.previous # None
    /\ eng.at \in {"copies", "ups", "migrate", "upgrade", "smoke"} => eng.switched
    /\ eng.at = "untag" => ~eng.switched /\ ~eng.migrated
    /\ eng.at = "gate" /\ eng.phase \in {"switch", "migrate", "smoke"} => eng.switched
    /\ eng.at = "unfiles" => disk.snapshot # None

\* What of the release is in place at a phase; unless the files were mixed.
InPlace ==
    /\ Host!Resumes => disk.staged = journal.rel
    /\ Host!Resumes /\ eng.at \in Host!Forth => eng.rel = journal.rel
    /\ Host!Resumes /\ journal.phase \in {"switch", "migrate", "smoke", "done"} =>
          disk.image = Host!Image(journal.rel, journal.rel)
    /\ (Host!Resumes /\ journal.phase \in {"migrate", "smoke", "done"}) \/ eng.at = "ups" =>
          disk.files = journal.rel /\ disk.json = journal.rel
    /\ (Host!Resumes /\ journal.phase \in {"smoke", "done"}) \/ eng.at = "upgrade" =>
          app.code = journal.rel
    /\ (Host!Resumes /\ journal.phase = "done") \/ eng.at = "smoked" =>
          schema = journal.rel /\ record = journal.rel
    /\ eng.at = "cleared" \/ Host!Tell("done") =>
          /\ disk.image = Host!Image(eng.rel, eng.rel) /\ disk.files = eng.rel /\ disk.json = eng.rel
          /\ app.code = eng.rel /\ schema = eng.rel /\ record = eng.rel

\* What is installed, while no update has touched it; and the way back.
Installed ==
    /\ app.code = record
    /\ ~Host!Replaced => disk.files = record
    /\ Host!Replaced => Host!Usable(record)
Pinned(release) == disk.previous = Host!Image(release, release)
WayBack ==
    /\ disk.snapshot # None => disk.snapshot.code = disk.snapshot.sha
    /\ ~Host!Resumes /\ eng.at \notin Host!RollsBack =>
          Installed /\ ("image" \notin left => disk.image = Host!Image(record, record))
    /\ Host!Resumes \/ (eng.ids /\ eng.at \in Host!Forth \cup Host!RollsBack) \/ Host!Tell("rolled_back") => left = {}
    /\ eng.at \in Host!Forth \cup Host!RollsBack => "env" \notin left
    /\ Host!Resumes => Pinned(journal.prev)
    /\ Host!Resumes /\ journal.phase \in Early => Host!Usable(record)
    /\ Host!Resumes /\ journal.phase \in {"prepare", "build"} => Installed
    /\ Host!Resumes /\ journal.phase = "prepare" => disk.image = Host!Image(record, record)
    /\ eng.at \in Host!Forth \cup Host!RollsBack /\ eng.ids => Pinned(eng.expected)
    /\ /\ eng.at \in {"gate", "pin", "prepare", "backup", "build", "builds", "switch", "caught", "untag"}
       /\ ~eng.switched /\ ~eng.migrated
       => disk.files = record /\ disk.json = record /\ app.code = record /\ eng.expected = record
    /\ eng.at = "unfiles" => Host!Usable(eng.expected)
    /\ eng.at \in {"unimages", "unenv", "unstart", "confirm"} =>
          disk.files = eng.expected /\ disk.json = eng.expected
    /\ eng.at \in {"unenv", "unstart", "confirm"} => disk.image = Host!Image(eng.expected, eng.expected)
    /\ eng.at \in {"unstart", "confirm"} => record = eng.expected /\ disk.env = eng.expected
    /\ eng.at = "confirm" => app.code = eng.expected
    /\ eng.at = "told" /\ eng.said \in {"rolled_back", "unchanged"} =>
          disk.json = record /\ ("env" \notin left => disk.env = record)

HostInv ==
    /\ Host!TypeOK /\ Phased /\ Expecting
    /\ ~crossed /\ ~started => InPlace
    /\ ~crossed /\ ~started /\ ~halfway => WayBack

Places == {"idle", "told"} \cup Host!Forth \cup Host!RollsBack
Says == {"nothing", "done", "unchanged", "failed", "rolled_back", "rollback_failed"}

LEMMA HostUpdates ==
    ASSUME eng \in Host!EngineRow
    PROVE  \A at \in Places :
             /\ [eng EXCEPT !.at = at] \in Host!EngineRow
             /\ [eng EXCEPT !.at = at, !.ids = TRUE] \in Host!EngineRow
             /\ [eng EXCEPT !.at = at, !.switched = TRUE] \in Host!EngineRow
             /\ [eng EXCEPT !.at = at, !.migrated = TRUE] \in Host!EngineRow
             /\ \A p \in Host!Phases : [eng EXCEPT !.at = at, !.phase = p] \in Host!EngineRow
             /\ \A s \in Says : [eng EXCEPT !.at = at, !.said = s] \in Host!EngineRow
             /\ \A a, b \in BOOLEAN, n \in Host!Values \cup {0} :
                  [eng EXCEPT !.at = at, !.saved = a, !.switched = b, !.before = n] \in Host!EngineRow
<1> USE DEF Places, Says
<1>1. \A at \in Places : [eng EXCEPT !.at = at] \in Host!EngineRow
  BY Zenon DEF Host!EngineRow
<1>2. \A at \in Places : [eng EXCEPT !.at = at, !.ids = TRUE] \in Host!EngineRow
  BY ZenonT(30) DEF Host!EngineRow
<1>3. \A at \in Places : [eng EXCEPT !.at = at, !.switched = TRUE] \in Host!EngineRow
  BY ZenonT(30) DEF Host!EngineRow
<1>4. \A at \in Places : [eng EXCEPT !.at = at, !.migrated = TRUE] \in Host!EngineRow
  BY ZenonT(30) DEF Host!EngineRow
<1>5. \A at \in Places, p \in Host!Phases : [eng EXCEPT !.at = at, !.phase = p] \in Host!EngineRow
  BY ZenonT(60) DEF Host!EngineRow
<1>6. \A at \in Places, s \in Says : [eng EXCEPT !.at = at, !.said = s] \in Host!EngineRow
  BY ZenonT(60) DEF Host!EngineRow
<1>7. \A at \in Places, a, b \in BOOLEAN, n \in Host!Values \cup {0} :
                  [eng EXCEPT !.at = at, !.saved = a, !.switched = b, !.before = n] \in Host!EngineRow
  BY ZenonT(60) DEF Host!EngineRow
<1> QED
  BY <1>1, <1>2, <1>3, <1>4, <1>5, <1>6, <1>7

LEMMA DiskUpdates ==
    ASSUME disk \in Host!Disks
    PROVE  /\ \A v \in Host!Values :
                /\ [disk EXCEPT !.env = v] \in Host!Disks
                /\ [disk EXCEPT !.files = v] \in Host!Disks
                /\ [disk EXCEPT !.files = v, !.json = v] \in Host!Disks
           /\ \A i \in Host!Images :
                /\ [disk EXCEPT !.image = i] \in Host!Disks
                /\ [disk EXCEPT !.previous = i] \in Host!Disks
                /\ \A v \in Host!Values : [disk EXCEPT !.env = v, !.image = i] \in Host!Disks
                /\ \A v \in Host!Values : [disk EXCEPT !.image = i, !.env = v] \in Host!Disks
           /\ \A v, w, x \in Host!Values : [disk EXCEPT !.files = v, !.json = w, !.env = x] \in Host!Disks
           /\ \A v, w \in Host!Values : [disk EXCEPT !.files = v, !.json = w] \in Host!Disks
           /\ \A v \in Host!Values, s \in Host!Snapshots \cup {None} :
                /\ [disk EXCEPT !.snapshot = s, !.staged = v] \in Host!Disks
                /\ [disk EXCEPT !.files = v, !.json = v, !.snapshot = s] \in Host!Disks
  BY Zenon DEF Host!Disks

LEMMA JournalUpdates ==
    ASSUME journal \in Host!Journals
    PROVE  \A p \in Host!Phases \cup {"rollback"} :
             /\ [journal EXCEPT !.phase = p] \in Host!Journals
             /\ [journal EXCEPT !.phase = p, !.migrated = TRUE] \in Host!Journals
  BY Zenon DEF Host!Journals

LEMMA HostFields ==
    ASSUME Host!TypeOK
    PROVE  /\ disk.files \in Host!Values /\ disk.json \in Host!Values /\ disk.env \in Host!Values
           /\ disk.image \in Host!Images /\ disk.previous \in Host!Images \cup {None}
           /\ disk.snapshot \in Host!Snapshots \cup {None} /\ disk.staged \in Host!Values
           /\ disk.image.code \in Host!Values /\ disk.image.label \in Host!Values
           /\ disk.snapshot # None => disk.snapshot.sha \in Host!Values /\ disk.snapshot.code \in Host!Values
           /\ eng.at \in Places /\ eng.phase \in Host!Phases \cup {"none"}
           /\ eng.source \in Host!Values /\ eng.rel \in Host!Values /\ eng.recorded \in Host!Values
           /\ eng.expected \in Host!Values /\ eng.ids \in BOOLEAN /\ eng.saved \in BOOLEAN
           /\ eng.switched \in BOOLEAN /\ eng.migrated \in BOOLEAN
           /\ eng.before \in Host!Values \cup {0} /\ eng.said \in Says
           /\ journal # None =>
                /\ journal \in Host!Journals
                /\ journal.phase \in Host!Phases \cup {"rollback"} /\ journal.prev \in Host!Values
                /\ journal.rel \in Host!Values /\ journal.saved \in BOOLEAN
                /\ journal.switched \in BOOLEAN /\ journal.migrated \in BOOLEAN
                /\ journal.before \in Host!Values \cup {0}
           /\ \A a, b \in Host!Values : Host!Image(a, b) \in Host!Images
           /\ {0, 1} \cup Host!Releases \subseteq Host!Values \cup {0} /\ Mixed \in Host!Values /\ None \in Host!Values
<1> USE DEF Host!TypeOK
<1>1. /\ disk.files \in Host!Values /\ disk.json \in Host!Values /\ disk.env \in Host!Values
      /\ disk.image \in Host!Images /\ disk.previous \in Host!Images \cup {None}
      /\ disk.snapshot \in Host!Snapshots \cup {None} /\ disk.staged \in Host!Values
  BY Zenon DEF Host!Disks
<1>2. /\ disk.image.code \in Host!Values /\ disk.image.label \in Host!Values
      /\ disk.snapshot # None => disk.snapshot.sha \in Host!Values /\ disk.snapshot.code \in Host!Values
  BY <1>1, Zenon DEF Host!Images, Host!Snapshots
<1>3. /\ eng.at \in Places /\ eng.phase \in Host!Phases \cup {"none"}
      /\ eng.source \in Host!Values /\ eng.rel \in Host!Values /\ eng.recorded \in Host!Values
      /\ eng.expected \in Host!Values /\ eng.ids \in BOOLEAN /\ eng.saved \in BOOLEAN
      /\ eng.switched \in BOOLEAN /\ eng.migrated \in BOOLEAN
      /\ eng.before \in Host!Values \cup {0} /\ eng.said \in Says
  BY Zenon DEF Host!EngineRow, Places, Says
<1>4. journal # None =>
        /\ journal \in Host!Journals
        /\ journal.phase \in Host!Phases \cup {"rollback"} /\ journal.prev \in Host!Values
        /\ journal.rel \in Host!Values /\ journal.saved \in BOOLEAN
        /\ journal.switched \in BOOLEAN /\ journal.migrated \in BOOLEAN
        /\ journal.before \in Host!Values \cup {0}
  BY Zenon DEF Host!Journals
<1>5. \A a, b \in Host!Values : Host!Image(a, b) \in Host!Images
  BY DEF Host!Image, Host!Images
<1>6. {0, 1} \cup Host!Releases \subseteq Host!Values \cup {0} /\ Mixed \in Host!Values /\ None \in Host!Values
  BY MCAccountsAssumption DEF Host!Values, Host!Releases
<1> QED
  BY <1>1, <1>2, <1>3, <1>4, <1>5, <1>6

LEMMA BeginOK ==
    ASSUME Host!TypeOK, NEW r \in Host!Releases, Host!Begin(r) \/ Host!Resume(r)
    PROVE  eng' \in Host!EngineRow
<1>1. r \in Host!Values /\ record \in Host!Values
  BY DEF Host!TypeOK, Host!Values
<1>2. Host!Replaced \in BOOLEAN
  BY DEF Host!Replaced
<1>3. CASE Host!Begin(r)
  BY <1>1, <1>2, <1>3 DEF Host!Begin, Host!EngineRow, Host!Forth, Host!Phases
<1>4. CASE Host!Resume(r)
  <2> DEFINE switched == \/ Host!Replaced \/ journal.switched
                         \/ journal.phase \in {"switch", "migrate", "smoke"}
  <2>1. journal \in Host!Journals /\ disk.staged \in Host!Values
    BY <1>4, HostFields DEF Host!Resume, Host!Resumes
  <2>2. /\ journal.phase \in Host!Phases /\ journal.prev \in Host!Values
        /\ journal.saved \in BOOLEAN /\ journal.migrated \in BOOLEAN
        /\ journal.before \in Host!Values \cup {0}
    BY <1>4, <2>1 DEF Host!Resume, Host!Resumes, Host!Journals
  <2>3. switched \in BOOLEAN
    BY <1>2, <2>1 DEF Host!Journals
  <2>4. eng' = [at |-> "gate", phase |-> journal.phase, source |-> r, rel |-> disk.staged,
               recorded |-> record, expected |-> journal.prev, ids |-> TRUE, saved |-> journal.saved,
               switched |-> switched,
               migrated |-> journal.migrated, before |-> journal.before, said |-> "nothing"]
    BY <1>4, Zenon DEF Host!Resume
  <2> HIDE DEF switched
  <2> QED
    BY <1>1, <2>1, <2>2, <2>3, <2>4 DEF Host!EngineRow, Host!Forth
<1> QED
  BY <1>3, <1>4

LEMMA EngineStepOK ==
    ASSUME Host!TypeOK, Phased, Host!Next
    PROVE  eng' \in Host!EngineRow
<1>f. eng \in Host!EngineRow /\ schema \in Host!Values \cup {0}
  BY DEF Host!TypeOK
<1>i. Host!Idle \in Host!EngineRow
  BY HostFields DEF Host!Idle, Host!EngineRow
<1>p. eng.at = "gate" => eng.phase \in Host!Phases
  BY HostFields DEF Phased, Host!Resumes
<1> USE <1>f, HostUpdates
    DEF Host!Goes, Host!Tells, Places, Says, Host!Forth, Host!RollsBack, Host!Phases
<1>1. ASSUME NEW r \in Host!Releases, Host!Begin(r)
      PROVE  eng' \in Host!EngineRow
  BY <1>1, BeginOK
<1>2. ASSUME NEW r \in Host!Releases, Host!Resume(r)
      PROVE  eng' \in Host!EngineRow
  BY <1>2, BeginOK
<1>3. CASE Host!Gate
  BY <1>3, <1>p DEF Host!Gate
<1>4. CASE Host!Pin
  BY <1>4 DEF Host!Pin
<1>5. CASE Host!Prepare
  <2>1. PICK a, b \in BOOLEAN :
          eng' = [eng EXCEPT !.at = "backup", !.saved = a, !.switched = b, !.before = schema]
    BY <1>5, HostFields DEF Host!Prepare, Host!Usable, Host!Replaced
  <2> QED
    BY <2>1
<1>6. CASE Host!Backup
  BY <1>6 DEF Host!Backup
<1>7. CASE Host!Build
  BY <1>7 DEF Host!Build
<1>8. CASE Host!Built
  BY <1>8 DEF Host!Built
<1>9. CASE Host!Switch
  BY <1>9 DEF Host!Switch
<1>10. CASE Host!Copied
  BY <1>10 DEF Host!Copied
<1>11. CASE Host!Switched
  BY <1>11 DEF Host!Switched
<1>12. CASE Host!Migrate
  BY <1>12 DEF Host!Migrate
<1>13. CASE Host!Migrated
  BY <1>13 DEF Host!Migrated
<1>14. CASE Host!Smoke
  BY <1>14 DEF Host!Smoke
<1>15. CASE Host!Done
  BY <1>15 DEF Host!Done
<1>16. CASE Host!Finish
  BY <1>16 DEF Host!Finish
<1>17. CASE Host!Fail
  BY <1>17 DEF Host!Fail
<1>18. CASE Host!GiveUp
  BY <1>18 DEF Host!GiveUp
<1>19. CASE Host!Plan
  BY <1>19 DEF Host!Plan
<1>20. CASE Host!Untag
  BY <1>20 DEF Host!Untag
<1>21. CASE Host!Restore
  BY <1>21 DEF Host!Restore
<1>22. CASE Host!NoSnapshot
  BY <1>22 DEF Host!NoSnapshot
<1>23. CASE Host!RestoreFiles
  BY <1>23 DEF Host!RestoreFiles
<1>24. CASE Host!RestoreImages
  BY <1>24 DEF Host!RestoreImages
<1>25. CASE Host!RestoreRecord
  BY <1>25 DEF Host!RestoreRecord
<1>26. CASE Host!StartPrevious
  BY <1>26 DEF Host!StartPrevious
<1>27. CASE Host!SchemaRefuses
  BY <1>27 DEF Host!SchemaRefuses
<1>28. CASE Host!Confirm
  BY <1>28 DEF Host!Confirm
<1>29. CASE Host!Return
  BY <1>29, <1>i DEF Host!Return
<1>30. CASE Host!Crash
  BY <1>30, <1>i DEF Host!Crash
<1>31. CASE eng' = eng
  BY <1>31
<1>32. CASE Host!Clear
  BY <1>32 DEF Host!Clear
<1>33. CASE Host!RestoreFails
  BY <1>33 DEF Host!RestoreFails
<1> QED
  BY <1>1, <1>2, <1>3, <1>4, <1>5, <1>6, <1>7, <1>8, <1>9, <1>10, <1>11, <1>12, <1>13, <1>14,
     <1>15, <1>16, <1>17, <1>18, <1>19, <1>20, <1>21, <1>22, <1>23, <1>24, <1>25, <1>26, <1>27,
     <1>28, <1>29, <1>30, <1>31, <1>32, <1>33
     DEF Host!Next, Host!Refused, Host!Setup, Host!FourHours, Host!Start

LEMMA DiskStepOK ==
    ASSUME Host!TypeOK, Expecting, Host!Next
    PROVE  disk' \in Host!Disks
<1>f. disk \in Host!Disks /\ record \in Host!Values /\ \A r \in Host!Releases : r \in Host!Values
  BY DEF Host!TypeOK, Host!Values
<1>s. \A sha, code \in Host!Values : [sha |-> sha, code |-> code] \in Host!Snapshots
  BY DEF Host!Snapshots
<1>p. eng.at \in Host!RollsBack => disk.previous \in Host!Images
  BY HostFields DEF Expecting
<1> USE <1>f, DiskUpdates, HostFields DEF Host!Put
<1>1. CASE Host!Refused
  BY <1>1 DEF Host!Refused
<1>2. ASSUME NEW r \in Host!Releases, Host!Begin(r)
      PROVE  disk' \in Host!Disks
  BY <1>2 DEF Host!Begin, Host!Begins
<1>3. ASSUME NEW r \in Host!Releases, Host!Resume(r)
      PROVE  disk' \in Host!Disks
  BY <1>3 DEF Host!Resume, Host!Begins
<1>4. ASSUME NEW r \in Host!Releases, Host!Setup(r)
      PROVE  disk' \in Host!Disks
  <2>1. PICK s : /\ disk' = [disk EXCEPT !.files = r, !.json = r, !.snapshot = s]
                 /\ s = IF Host!Usable(record) THEN disk.snapshot ELSE [sha |-> record, code |-> disk.files]
    BY <1>4 DEF Host!Setup
  <2>2. s \in Host!Snapshots \cup {None}
    BY <1>s, <2>1
  <2> QED
    BY <2>1, <2>2
<1>5. CASE Host!Pin
  BY <1>5 DEF Host!Pin
<1>6. CASE Host!Prepare
  <2>1. PICK s : /\ disk' = [disk EXCEPT !.snapshot = s, !.staged = eng.source]
                 /\ s = disk.snapshot \/ s = [sha |-> eng.recorded, code |-> disk.files]
    BY <1>6 DEF Host!Prepare
  <2>2. eng.recorded \in Host!Values /\ disk.files \in Host!Values
    BY HostFields
  <2>3. [sha |-> eng.recorded, code |-> disk.files] \in Host!Snapshots
    BY <1>s, <2>2
  <2>4. disk.snapshot \in Host!Snapshots \cup {None}
    BY HostFields
  <2>5. s \in Host!Snapshots \cup {None}
    BY <2>1, <2>3, <2>4
  <2> QED
    BY <2>1, <2>5
<1>7. CASE Host!Build
  BY <1>7 DEF Host!Build
<1>8. CASE Host!Built
  BY <1>8 DEF Host!Built
<1>9. CASE Host!Switch
  BY <1>9 DEF Host!Switch
<1>10. CASE Host!Copied
  BY <1>10 DEF Host!Copied
<1>11. CASE Host!Migrate
  BY <1>11 DEF Host!Migrate
<1>12. CASE Host!Untag
  <2>1. PICK i \in {disk.previous, disk.image}, v \in {eng.recorded, disk.env} :
          disk' = [disk EXCEPT !.image = i, !.env = v]
    BY <1>12, Zenon DEF Host!Untag
  <2>2. disk.previous \in Host!Images
    BY <1>12, <1>p DEF Host!Untag, Host!RollsBack
  <2>3. i \in Host!Images /\ v \in Host!Values
    BY <2>2
  <2> QED
    BY <2>1, <2>3
<1>13. CASE Host!Restore
  BY <1>13 DEF Host!Restore
<1>14. CASE Host!NoSnapshot
  BY <1>14, <1>p DEF Host!NoSnapshot, Host!RollsBack
<1>15. CASE Host!RestoreFiles
  <2>1. disk.snapshot # None
    BY <1>15 DEF Host!RestoreFiles, Expecting
  <2> QED
    BY <1>15, <2>1 DEF Host!RestoreFiles
<1>16. CASE Host!RestoreImages
  BY <1>16, <1>p DEF Host!RestoreImages, Host!RollsBack
<1>17. CASE Host!RestoreRecord
  BY <1>17 DEF Host!RestoreRecord
<1>18. CASE Host!Start
  <2>1. PICK i \in Host!Images : disk' = [disk EXCEPT !.env = disk.json, !.image = i]
    BY <1>18 DEF Host!Start
  <2> QED
    BY <2>1
<1>19. CASE disk' = disk
  BY <1>19
<1>20. CASE Host!RestoreFails
  BY <1>20, <1>p DEF Host!RestoreFails, Host!RollsBack
<1> HIDE HostFields, DiskUpdates
<1> QED
  BY <1>1, <1>2, <1>3, <1>4, <1>5, <1>6, <1>7, <1>8, <1>9, <1>10, <1>11, <1>12, <1>13, <1>14,
     <1>15, <1>16, <1>17, <1>18, <1>19, <1>20
     DEF Host!Next, Host!Gate, Host!Backup, Host!Switched, Host!Migrated, Host!Smoke, Host!Done,
         Host!Clear, Host!Finish, Host!Fail, Host!GiveUp, Host!Plan, Host!StartPrevious, Host!SchemaRefuses,
         Host!Confirm, Host!Return, Host!Crash, Host!FourHours

\* What is written of a journal is one.
LEMMA JournalWritten ==
    ASSUME Host!TypeOK, Phased,
           \/ Host!Prepare \/ Host!Backup \/ Host!Built \/ Host!Switched \/ Host!Migrated \/ Host!Done
           \/ Host!GiveUp \/ Host!Plan
    PROVE  journal' \in Host!Journals
<1>f. journal \in Host!Journals \cup {None} /\ schema \in Host!Values \cup {0}
  BY DEF Host!TypeOK
<1>1. CASE Host!Prepare
  <2>1. PICK a, b \in BOOLEAN :
          journal' = [phase |-> "prepare", rel |-> eng.rel, prev |-> eng.recorded, saved |-> a,
                      switched |-> b, migrated |-> FALSE, before |-> schema]
    BY <1>1, HostFields DEF Host!Prepare, Host!Usable, Host!Replaced
  <2> QED
    BY <1>f, <2>1, HostFields DEF Host!Journals, Host!Phases
<1>2. CASE Host!Backup \/ Host!Built \/ Host!Switched \/ Host!Migrated \/ Host!Done
  <2>1. journal # None
    BY <1>2 DEF Host!Backup, Host!Built, Host!Switched, Host!Migrated, Host!Done, Phased, Host!Resumes
  <2>2. \E p \in Host!Phases : \/ journal' = [journal EXCEPT !.phase = p]
                               \/ journal' = [journal EXCEPT !.phase = p, !.migrated = TRUE]
    BY <1>2 DEF Host!Backup, Host!Built, Host!Switched, Host!Migrated, Host!Done, Host!Journal, Host!Phases
  <2> QED
    BY <1>f, <2>1, <2>2, JournalUpdates
<1>3. CASE Host!GiveUp \/ Host!Plan
  <2>1. CASE journal = None
    <3>1. journal' = [phase |-> "rollback", rel |-> eng.rel, prev |-> eng.expected, saved |-> eng.saved,
                      switched |-> eng.switched, migrated |-> FALSE, before |-> 0]
      BY <1>3, <2>1 DEF Host!GiveUp, Host!Plan, Host!RollbackJournal
    <3> QED
      BY <3>1, HostFields DEF Host!Journals
  <2>2. CASE journal # None
    BY <1>f, <1>3, <2>2, JournalUpdates DEF Host!GiveUp, Host!Plan, Host!RollbackJournal
  <2> QED
    BY <2>1, <2>2
<1> QED
  BY <1>1, <1>2, <1>3

LEMMA HostTypeStep ==
    ASSUME Host!TypeOK, Phased, Expecting, Host!Next
    PROVE  Host!TypeOK'
<1>f. /\ schema \in Host!Values \cup {0} /\ app \in [code : Host!Values, env : Host!Values]
      /\ record \in Host!Values /\ journal \in Host!Journals \cup {None}
      /\ crossed \in BOOLEAN /\ halfway \in BOOLEAN /\ started \in BOOLEAN
      /\ left \in SUBSET {"image", "env"}
  BY DEF Host!TypeOK
<1> USE DEF Host!Refused, Host!Begin, Host!Resume, Host!Begins, Host!Setup, Host!Gate, Host!Pin, Host!Prepare,
     Host!Backup, Host!Build, Host!Built, Host!Switch, Host!Copied, Host!Switched, Host!Migrate,
     Host!Migrated, Host!Smoke, Host!Done, Host!Clear, Host!Finish, Host!Fail, Host!GiveUp, Host!Plan, Host!Untag,
     Host!Restore, Host!NoSnapshot, Host!RestoreFails, Host!RestoreFiles, Host!RestoreImages, Host!RestoreRecord,
     Host!StartPrevious, Host!SchemaRefuses, Host!Confirm, Host!Return, Host!Crash, Host!FourHours,
     Host!Start
<1>1. ASSUME NEW d \in Host!Disks, Host!Up(d)
      PROVE  schema' \in Host!Values \cup {0} /\ app' \in [code : Host!Values, env : Host!Values]
  <2>1. d.image.code \in Host!Values /\ d.env \in Host!Values
    BY DEF Host!Disks, Host!Images
  <2> QED
    BY <1>f, <1>1, <2>1 DEF Host!Up
<1>2. schema' \in Host!Values \cup {0} /\ app' \in [code : Host!Values, env : Host!Values]
  <2>1. UNCHANGED <<schema, app>> \/ Host!Up(disk')
    <3>1. CASE Host!Switched \/ Host!StartPrevious
      BY <3>1 DEF Host!Up
    <3>2. CASE Host!Migrate
      BY <3>2 DEF Host!Put
    <3>3. CASE Host!Start
      BY <3>3
    <3> QED
      BY <3>1, <3>2, <3>3 DEF Host!Next
  <2> QED
    BY <1>1, <1>f, <2>1, DiskStepOK
<1>3. record' \in {record, eng.rel, eng.expected}
  BY DEF Host!Next
<1>4. crossed' \in BOOLEAN /\ halfway' \in BOOLEAN /\ started' \in BOOLEAN
  BY <1>f DEF Host!Next, Host!ghosts
<1>5. journal' \in Host!Journals \cup {None}
  <2>1. journal' \in {journal, None} \/ journal' \in Host!Journals
    BY JournalWritten DEF Host!Next
  <2> QED
    BY <1>f, <2>1
<1>6. left' \in SUBSET {"image", "env"}
  BY <1>f DEF Host!Next, Host!ghosts, Host!Behind
<1> QED
  BY <1>f, <1>2, <1>3, <1>4, <1>5, <1>6, EngineStepOK, DiskStepOK, HostFields DEF Host!TypeOK

LEMMA PhasedStep ==
    ASSUME Host!TypeOK, Phased, Expecting, Host!Next
    PROVE  Phased'
<1>f. disk \in Host!Disks /\ eng \in Host!EngineRow /\ journal \in Host!Journals \cup {None}
  BY DEF Host!TypeOK
<1> USE <1>f, HostAssumption
    DEF Host!Goes, Host!Put, Host!Tells, Host!Journal, Host!counters, Host!ghosts, Host!Idle,
        Host!Resumes, Host!Replaced, Host!RollsBack, Host!Forth, Host!Phases, Host!Disks,
        Host!EngineRow, Host!Journals, Host!RollbackJournal, Host!Begins, Phased
<1>1. CASE Host!Refused
  BY <1>1 DEF Host!Refused
<1>2. ASSUME NEW r \in Host!Releases, Host!Begin(r)
      PROVE  Phased'
  BY <1>2 DEF Host!Begin
<1>3. ASSUME NEW r \in Host!Releases, Host!Resume(r)
      PROVE  Phased'
  BY <1>3 DEF Host!Resume
<1>4. ASSUME NEW r \in Host!Releases, Host!Setup(r)
      PROVE  Phased'
  BY <1>4 DEF Host!Setup
<1>5. CASE Host!Gate
  BY <1>5 DEF Host!Gate
<1>6. CASE Host!Pin
  BY <1>6 DEF Host!Pin
<1>7. CASE Host!Prepare
  BY <1>7, JournalWritten DEF Host!Prepare
<1>8. CASE Host!Backup
  BY <1>8, JournalWritten DEF Host!Backup
<1>9. CASE Host!Build
  BY <1>9 DEF Host!Build
<1>10. CASE Host!Built
  BY <1>10, JournalWritten DEF Host!Built
<1>11. CASE Host!Switch
  BY <1>11 DEF Host!Switch
<1>12. CASE Host!Copied
  BY <1>12 DEF Host!Copied
<1>13. CASE Host!Switched
  BY <1>13, JournalWritten DEF Host!Switched
<1>14. CASE Host!Migrate
  BY <1>14 DEF Host!Migrate
<1>15. CASE Host!Migrated
  BY <1>15, JournalWritten DEF Host!Migrated
<1>16. CASE Host!Smoke
  BY <1>16 DEF Host!Smoke
<1>17. CASE Host!Done
  BY <1>17, JournalWritten DEF Host!Done
<1>18. CASE Host!Finish
  BY <1>18 DEF Host!Finish
<1>19. CASE Host!Fail
  BY <1>19 DEF Host!Fail
<1>20. CASE Host!GiveUp
  BY <1>20, JournalWritten DEF Host!GiveUp
<1>21. CASE Host!Plan
  BY <1>21, JournalWritten DEF Host!Plan
<1>22. CASE Host!Untag
  BY <1>22 DEF Host!Untag
<1>23. CASE Host!Restore
  BY <1>23 DEF Host!Restore
<1>24. CASE Host!NoSnapshot
  BY <1>24 DEF Host!NoSnapshot
<1>25. CASE Host!RestoreFiles
  BY <1>25 DEF Host!RestoreFiles
<1>26. CASE Host!RestoreImages
  BY <1>26 DEF Host!RestoreImages
<1>27. CASE Host!RestoreRecord
  BY <1>27 DEF Host!RestoreRecord
<1>28. CASE Host!StartPrevious
  BY <1>28 DEF Host!StartPrevious
<1>29. CASE Host!SchemaRefuses
  BY <1>29 DEF Host!SchemaRefuses
<1>30. CASE Host!Confirm
  BY <1>30 DEF Host!Confirm
<1>31. CASE Host!Return
  BY <1>31 DEF Host!Return
<1>32. CASE Host!Crash
  BY <1>32 DEF Host!Crash
<1>33. CASE Host!FourHours
  BY <1>33 DEF Host!FourHours
<1>34. CASE Host!Clear
  <2>1. eng' = [eng EXCEPT !.at = "told", !.said = "nothing"] \/ eng' = [eng EXCEPT !.at = "cleared"]
    BY <1>34 DEF Host!Clear
  <2>2. /\ eng.at = "done" /\ journal' = None
        /\ UNCHANGED <<disk, record, app, schema, crossed, halfway, left, started>>
    BY <1>34 DEF Host!Clear
  <2>3. CASE eng' = [eng EXCEPT !.at = "told", !.said = "nothing"]
    <3>1. /\ eng'.at = "told" /\ eng'.said = "nothing" /\ eng'.rel = eng.rel
      BY <2>3
    <3> QED
      BY <2>2, <3>1
  <2>4. CASE eng' = [eng EXCEPT !.at = "cleared"]
    BY <2>2, <2>4
  <2> QED
    BY <2>1, <2>3, <2>4
<1>35. CASE Host!RestoreFails
  BY <1>35 DEF Host!RestoreFails
<1>36. CASE Host!Start
  BY <1>36 DEF Host!Start
<1> HIDE DEF Phased
<1> QED
  BY <1>1, <1>2, <1>3, <1>4, <1>5, <1>6, <1>7, <1>8, <1>9, <1>10, <1>11, <1>12, <1>13, <1>14,
     <1>15, <1>16, <1>17, <1>18, <1>19, <1>20, <1>21, <1>22, <1>23, <1>24, <1>25, <1>26, <1>27,
     <1>28, <1>29, <1>30, <1>31, <1>32, <1>33, <1>34, <1>35, <1>36, Zenon DEF Host!Next

LEMMA ExpectingStep ==
    ASSUME Host!TypeOK, Phased, Expecting, Host!Next
    PROVE  Expecting'
<1>f. disk \in Host!Disks /\ eng \in Host!EngineRow /\ journal \in Host!Journals \cup {None}
  BY DEF Host!TypeOK
<1> USE <1>f, HostAssumption
    DEF Host!Goes, Host!Put, Host!Tells, Host!Journal, Host!counters, Host!ghosts, Host!Idle,
        Host!Resumes, Host!Replaced, Host!RollsBack, Host!Forth, Host!Phases, Host!Disks,
        Host!EngineRow, Host!Journals, Host!RollbackJournal, Host!Begins, Phased, Expecting,
        Early, Host!Usable, Host!Images, Host!Snapshots, Host!NothingChanged
<1>1. CASE Host!Refused
  BY <1>1 DEF Host!Refused
<1>2. ASSUME NEW r \in Host!Releases, Host!Begin(r)
      PROVE  Expecting'
  BY <1>2 DEF Host!Begin
<1>3. ASSUME NEW r \in Host!Releases, Host!Resume(r)
      PROVE  Expecting'
  BY <1>3 DEF Host!Resume
<1>4. ASSUME NEW r \in Host!Releases, Host!Setup(r)
      PROVE  Expecting'
  BY <1>4 DEF Host!Setup
<1>5. CASE Host!Gate
  BY <1>5 DEF Host!Gate
<1>6. CASE Host!Pin
  BY <1>6 DEF Host!Pin
<1>7. CASE Host!Prepare
  BY <1>7, JournalWritten DEF Host!Prepare
<1>8. CASE Host!Backup
  BY <1>8, JournalWritten DEF Host!Backup
<1>9. CASE Host!Build
  BY <1>9 DEF Host!Build
<1>10. CASE Host!Built
  BY <1>10, JournalWritten DEF Host!Built
<1>11. CASE Host!Switch
  BY <1>11 DEF Host!Switch
<1>12. CASE Host!Copied
  BY <1>12 DEF Host!Copied
<1>13. CASE Host!Switched
  BY <1>13, JournalWritten DEF Host!Switched
<1>14. CASE Host!Migrate
  BY <1>14 DEF Host!Migrate
<1>15. CASE Host!Migrated
  BY <1>15, JournalWritten DEF Host!Migrated
<1>16. CASE Host!Smoke
  BY <1>16 DEF Host!Smoke
<1>17. CASE Host!Done
  BY <1>17, JournalWritten DEF Host!Done
<1>18. CASE Host!Finish
  BY <1>18 DEF Host!Finish
<1>19. CASE Host!Fail
  BY <1>19 DEF Host!Fail
<1>20. CASE Host!GiveUp
  BY <1>20, JournalWritten DEF Host!GiveUp
<1>21. CASE Host!Plan
  BY <1>21, JournalWritten DEF Host!Plan
<1>22. CASE Host!Untag
  BY <1>22 DEF Host!Untag
<1>23. CASE Host!Restore
  BY <1>23 DEF Host!Restore
<1>24. CASE Host!NoSnapshot
  BY <1>24 DEF Host!NoSnapshot
<1>25. CASE Host!RestoreFiles
  BY <1>25 DEF Host!RestoreFiles
<1>26. CASE Host!RestoreImages
  BY <1>26 DEF Host!RestoreImages
<1>27. CASE Host!RestoreRecord
  BY <1>27 DEF Host!RestoreRecord
<1>28. CASE Host!StartPrevious
  BY <1>28 DEF Host!StartPrevious
<1>29. CASE Host!SchemaRefuses
  BY <1>29 DEF Host!SchemaRefuses
<1>30. CASE Host!Confirm
  BY <1>30 DEF Host!Confirm
<1>31. CASE Host!Return
  BY <1>31 DEF Host!Return
<1>32. CASE Host!Crash
  BY <1>32 DEF Host!Crash
<1>33. CASE Host!FourHours
  BY <1>33 DEF Host!FourHours
<1>34. CASE Host!Clear
  <2>1. eng' = [eng EXCEPT !.at = "told", !.said = "nothing"] \/ eng' = [eng EXCEPT !.at = "cleared"]
    BY <1>34 DEF Host!Clear
  <2>2. /\ eng.at = "done" /\ journal' = None
        /\ UNCHANGED <<disk, record, app, schema, crossed, halfway, left, started>>
    BY <1>34 DEF Host!Clear
  <2>3. CASE eng' = [eng EXCEPT !.at = "told", !.said = "nothing"]
    <3>1. /\ eng'.at = "told" /\ eng'.said = "nothing" /\ eng'.rel = eng.rel
      BY <2>3
    <3> QED
      BY <2>2, <3>1
  <2>4. CASE eng' = [eng EXCEPT !.at = "cleared"]
    BY <2>2, <2>4
  <2> QED
    BY <2>1, <2>3, <2>4
<1>35. CASE Host!RestoreFails
  BY <1>35 DEF Host!RestoreFails
<1>36. CASE Host!Start
  BY <1>36 DEF Host!Start
<1> HIDE DEF Phased, Expecting, Early, Host!Usable, Host!Images, Host!Snapshots,
             Host!NothingChanged
<1> QED
  BY <1>1, <1>2, <1>3, <1>4, <1>5, <1>6, <1>7, <1>8, <1>9, <1>10, <1>11, <1>12, <1>13, <1>14,
     <1>15, <1>16, <1>17, <1>18, <1>19, <1>20, <1>21, <1>22, <1>23, <1>24, <1>25, <1>26, <1>27,
     <1>28, <1>29, <1>30, <1>31, <1>32, <1>33, <1>34, <1>35, <1>36, Zenon DEF Host!Next

\* A phase is journaled when its files, images and containers are in place, and no other
\* release is laid over them before it is resumed.
LEMMA InPlaceStep ==
    ASSUME Host!TypeOK, Phased, Expecting, Phased',
           ~crossed /\ ~started => InPlace, Host!Next
    PROVE  ~crossed' /\ ~started' => InPlace'
<1>f. disk \in Host!Disks /\ eng \in Host!EngineRow /\ journal \in Host!Journals \cup {None}
  BY DEF Host!TypeOK
<1> USE <1>f, HostAssumption
    DEF Host!Goes, Host!Put, Host!Tells, Host!Journal, Host!counters, Host!ghosts, Host!Idle,
        Host!Resumes, Host!Replaced, Host!RollsBack, Host!Forth, Host!Phases, Host!Disks,
        Host!EngineRow, Host!Journals, Host!RollbackJournal, Host!Begins, Phased, InPlace,
        Host!Tell, Host!Image, Host!Healthy, Host!Serves, Host!Up
<1>1. CASE Host!Refused
  BY <1>1 DEF Host!Refused
<1>2. ASSUME NEW r \in Host!Releases, Host!Begin(r)
      PROVE  ~crossed' /\ ~started' => InPlace'
  BY <1>2 DEF Host!Begin
<1>3. ASSUME NEW r \in Host!Releases, Host!Resume(r)
      PROVE  ~crossed' /\ ~started' => InPlace'
  BY <1>3 DEF Host!Resume
<1>4. ASSUME NEW r \in Host!Releases, Host!Setup(r)
      PROVE  ~crossed' /\ ~started' => InPlace'
  BY <1>4 DEF Host!Setup
<1>5. CASE Host!Gate
  BY <1>5 DEF Host!Gate
<1>6. CASE Host!Pin
  BY <1>6 DEF Host!Pin
<1>7. CASE Host!Prepare
  BY <1>7, JournalWritten DEF Host!Prepare
<1>8. CASE Host!Backup
  BY <1>8, JournalWritten DEF Host!Backup
<1>9. CASE Host!Build
  BY <1>9 DEF Host!Build
<1>10. CASE Host!Built
  BY <1>10, JournalWritten DEF Host!Built
<1>11. CASE Host!Switch
  BY <1>11 DEF Host!Switch
<1>12. CASE Host!Copied
  BY <1>12 DEF Host!Copied
<1>13. CASE Host!Switched
  BY <1>13, JournalWritten DEF Host!Switched
<1>14. CASE Host!Migrate
  BY <1>14 DEF Host!Migrate
<1>15. CASE Host!Migrated
  BY <1>15, JournalWritten DEF Host!Migrated
<1>16. CASE Host!Smoke
  BY <1>16 DEF Host!Smoke
<1>17. CASE Host!Done
  BY <1>17, JournalWritten DEF Host!Done
<1>18. CASE Host!Finish
  BY <1>18 DEF Host!Finish
<1>19. CASE Host!Fail
  BY <1>19 DEF Host!Fail
<1>20. CASE Host!GiveUp
  BY <1>20, JournalWritten DEF Host!GiveUp
<1>21. CASE Host!Plan
  BY <1>21, JournalWritten DEF Host!Plan
<1>22. CASE Host!Untag
  BY <1>22 DEF Host!Untag
<1>23. CASE Host!Restore
  BY <1>23 DEF Host!Restore
<1>24. CASE Host!NoSnapshot
  BY <1>24 DEF Host!NoSnapshot
<1>25. CASE Host!RestoreFiles
  BY <1>25 DEF Host!RestoreFiles
<1>26. CASE Host!RestoreImages
  BY <1>26 DEF Host!RestoreImages
<1>27. CASE Host!RestoreRecord
  BY <1>27 DEF Host!RestoreRecord
<1>28. CASE Host!StartPrevious
  BY <1>28 DEF Host!StartPrevious
<1>29. CASE Host!SchemaRefuses
  BY <1>29 DEF Host!SchemaRefuses
<1>30. CASE Host!Confirm
  BY <1>30 DEF Host!Confirm
<1>31. CASE Host!Return
  BY <1>31 DEF Host!Return
<1>32. CASE Host!Crash
  BY <1>32 DEF Host!Crash
<1>33. CASE Host!FourHours
  BY <1>33 DEF Host!FourHours
<1>34. CASE Host!Clear
  <2>1. eng' = [eng EXCEPT !.at = "told", !.said = "nothing"] \/ eng' = [eng EXCEPT !.at = "cleared"]
    BY <1>34 DEF Host!Clear
  <2>2. /\ eng.at = "done" /\ journal' = None
        /\ UNCHANGED <<disk, record, app, schema, crossed, halfway, left, started>>
    BY <1>34 DEF Host!Clear
  <2>3. CASE eng' = [eng EXCEPT !.at = "told", !.said = "nothing"]
    <3>1. /\ eng'.at = "told" /\ eng'.said = "nothing" /\ eng'.rel = eng.rel
      BY <2>3
    <3> QED
      BY <2>2, <3>1
  <2>4. CASE eng' = [eng EXCEPT !.at = "cleared"]
    BY <2>2, <2>4
  <2> QED
    BY <2>1, <2>3, <2>4
<1>35. CASE Host!RestoreFails
  BY <1>35 DEF Host!RestoreFails
<1>36. CASE Host!Start
  <2>1. SUFFICES ASSUME ~crossed', ~started'
                 PROVE  InPlace'
    OBVIOUS
  <2>2. /\ eng.at \in {"idle", "told"} /\ ~Host!Resumes /\ ~Host!Replaced
        /\ ~crossed /\ ~started /\ InPlace
    BY <2>1, <1>36 DEF Host!Start
  <2>3. Host!Tell("done") => /\ disk'.image = disk.image /\ disk'.files = disk.files
                             /\ disk'.json = disk.json /\ app'.code = app.code /\ schema' = schema
    BY <2>2, <1>36 DEF Host!Start
  <2>4. UNCHANGED <<eng, journal, record>>
    BY <1>36 DEF Host!Start
  <2> QED
    BY <2>2, <2>3, <2>4
<1> HIDE DEF Phased, InPlace, Host!Tell, Host!Image, Host!Healthy, Host!Serves, Host!Up
<1> QED
  BY <1>1, <1>2, <1>3, <1>4, <1>5, <1>6, <1>7, <1>8, <1>9, <1>10, <1>11, <1>12, <1>13, <1>14,
     <1>15, <1>16, <1>17, <1>18, <1>19, <1>20, <1>21, <1>22, <1>23, <1>24, <1>25, <1>26, <1>27,
     <1>28, <1>29, <1>30, <1>31, <1>32, <1>33, <1>34, <1>35, <1>36, Zenon DEF Host!Next

\* The snapshot and the pins are of the recorded release until it is replaced, and put
\* back what they hold.
LEMMA WayBackStep ==
    ASSUME Host!TypeOK, Phased, Expecting, Phased', Expecting',
           ~crossed /\ ~started => InPlace, ~crossed' /\ ~started' => InPlace',
           ~crossed /\ ~started /\ ~halfway => WayBack, Host!Next
    PROVE  ~crossed' /\ ~started' /\ ~halfway' => WayBack'
<1>f. disk \in Host!Disks /\ eng \in Host!EngineRow /\ journal \in Host!Journals \cup {None}
  BY DEF Host!TypeOK
<1> USE <1>f, HostAssumption
    DEF Host!Goes, Host!Put, Host!Tells, Host!Journal, Host!counters, Host!ghosts, Host!Idle,
        Host!Resumes, Host!Replaced, Host!RollsBack, Host!Forth, Host!Phases, Host!Disks,
        Host!EngineRow, Host!Journals, Host!RollbackJournal, Host!Begins, Phased, Expecting,
        Early, InPlace, WayBack, Installed, Pinned, Host!Usable, Host!Tell, Host!Image,
        Host!Confirmed, Host!Serves, Host!NothingChanged, Host!Up, Host!Snapshots
<1>1. CASE Host!Refused
  BY <1>1 DEF Host!Refused
<1>2. ASSUME NEW r \in Host!Releases, Host!Begin(r)
      PROVE  ~crossed' /\ ~started' /\ ~halfway' => WayBack'
  BY <1>2 DEF Host!Begin
<1>3. ASSUME NEW r \in Host!Releases, Host!Resume(r)
      PROVE  ~crossed' /\ ~started' /\ ~halfway' => WayBack'
  BY <1>3 DEF Host!Resume
<1>4. ASSUME NEW r \in Host!Releases, Host!Setup(r)
      PROVE  ~crossed' /\ ~started' /\ ~halfway' => WayBack'
  <2>1. SUFFICES ASSUME ~crossed', ~started', ~halfway'
                 PROVE  WayBack'
    OBVIOUS
  <2>2. /\ eng.at = "idle" /\ UNCHANGED <<record, app, journal, eng>> /\ InPlace /\ WayBack
        /\ ~Host!Resumes \/ r = journal.rel
        /\ Host!Usable(record) \/ ~Host!Replaced
    BY <2>1, <1>4 DEF Host!Setup
  <2>3. PICK s : /\ disk' = [disk EXCEPT !.files = r, !.json = r, !.snapshot = s]
                 /\ s = IF Host!Usable(record) THEN disk.snapshot ELSE [sha |-> record, code |-> disk.files]
    BY <1>4 DEF Host!Setup
  <2>4. s # None /\ s.sha = record /\ s.code = record
    <3>1. CASE Host!Usable(record)
      BY <2>2, <2>3, <3>1
    <3>2. CASE ~Host!Usable(record)
      <4>1. disk.files = record
        <5>1. CASE Host!Resumes
          BY <2>2, <3>2, <5>1
        <5>2. CASE ~Host!Resumes
          BY <2>2, <3>2, <5>2
        <5> QED
          BY <5>1, <5>2
      <4>2. record \in Host!Values
        BY DEF Host!TypeOK
      <4>3. [sha |-> record, code |-> record] \in Host!Snapshots
        BY <4>2
      <4> QED
        BY <2>3, <3>2, <4>1, <4>3
    <3> QED
      BY <3>1, <3>2
  <2>5. /\ disk'.files = r /\ disk'.json = r /\ disk'.snapshot = s /\ disk'.image = disk.image
        /\ disk'.previous = disk.previous /\ disk'.env = disk.env
    BY <2>3
  <2>6. UNCHANGED left
    BY <1>4 DEF Host!Setup
  <2> QED
    BY <2>2, <2>4, <2>5, <2>6
<1>5. CASE Host!Gate
  BY <1>5 DEF Host!Gate
<1>6. CASE Host!Pin
  <2>1. SUFFICES ASSUME ~crossed', ~started', ~halfway'
                 PROVE  WayBack'
    OBVIOUS
  <2>2. /\ eng.at = "pin" /\ UNCHANGED <<record, app, journal, left>> /\ InPlace /\ WayBack
        /\ "image" \notin left /\ "env" \notin left
    BY <2>1, <1>6 DEF Host!Pin
  <2>3. /\ eng' = [eng EXCEPT !.at = "prepare", !.ids = TRUE]
        /\ disk' = [disk EXCEPT !.previous = disk.image]
    BY <1>6 DEF Host!Pin
  <2>4. left = {}
    BY <2>2 DEF Host!TypeOK
  <2>5. eng.expected = record /\ disk.image = Host!Image(record, record)
    BY <2>2
  <2>6. /\ eng'.at = "prepare" /\ eng'.expected = eng.expected /\ eng'.switched = eng.switched
        /\ eng'.migrated = eng.migrated
    BY <2>3
  <2>7. /\ disk'.previous = disk.image /\ disk'.image = disk.image /\ disk'.files = disk.files
        /\ disk'.json = disk.json /\ disk'.snapshot = disk.snapshot
    BY <2>3
  <2> QED
    BY <2>2, <2>4, <2>5, <2>6, <2>7
<1>7. CASE Host!Prepare
  BY <1>7, JournalWritten DEF Host!Prepare
<1>8. CASE Host!Backup
  BY <1>8, JournalWritten DEF Host!Backup
<1>9. CASE Host!Build
  BY <1>9 DEF Host!Build
<1>10. CASE Host!Built
  BY <1>10, JournalWritten DEF Host!Built
<1>11. CASE Host!Switch
  BY <1>11 DEF Host!Switch
<1>12. CASE Host!Copied
  BY <1>12 DEF Host!Copied
<1>13. CASE Host!Switched
  BY <1>13, JournalWritten DEF Host!Switched
<1>14. CASE Host!Migrate
  BY <1>14 DEF Host!Migrate
<1>15. CASE Host!Migrated
  BY <1>15, JournalWritten DEF Host!Migrated
<1>16. CASE Host!Smoke
  BY <1>16 DEF Host!Smoke
<1>17. CASE Host!Done
  BY <1>17, JournalWritten DEF Host!Done
<1>18. CASE Host!Finish
  BY <1>18 DEF Host!Finish
<1>19. CASE Host!Fail
  BY <1>19 DEF Host!Fail
<1>20. CASE Host!GiveUp
  BY <1>20, JournalWritten DEF Host!GiveUp
<1>21. CASE Host!Plan
  BY <1>21, JournalWritten DEF Host!Plan
<1>22. CASE Host!Untag
  <2>1. SUFFICES ASSUME ~crossed', ~started', ~halfway'
                 PROVE  WayBack'
    OBVIOUS
  <2>2. /\ eng.at = "untag" /\ UNCHANGED <<record, app, journal>> /\ WayBack
        /\ eng' = [eng EXCEPT !.at = "told", !.said = "unchanged"]
    BY <2>1, <1>22 DEF Host!Untag
  <2>3. PICK i \in {disk.previous, disk.image}, v \in {eng.recorded, disk.env} :
          disk' = [disk EXCEPT !.image = i, !.env = v]
    BY <1>22, Zenon DEF Host!Untag
  <2>4. /\ disk'.files = disk.files /\ disk'.json = disk.json /\ disk'.snapshot = disk.snapshot
        /\ disk'.previous = disk.previous
    BY <2>3
  <2>5. left' = Host!Behind(disk')
    BY <1>22 DEF Host!Untag
  <2>6. /\ "image" \notin left' => disk'.image = disk.previous
        /\ "env" \notin left' => disk'.env = eng.recorded
    BY <2>5 DEF Host!Behind
  <2>7. /\ disk.files = record /\ disk.json = record /\ app.code = record
        /\ eng.recorded = record /\ disk.previous = Host!Image(record, record) /\ ~Host!Resumes
    BY <2>2
  <2>8. eng'.at = "told" /\ eng'.said = "unchanged"
    BY <2>2
  <2> QED
    BY <2>2, <2>4, <2>6, <2>7, <2>8
<1>23. CASE Host!Restore
  BY <1>23 DEF Host!Restore
<1>24. CASE Host!NoSnapshot
  BY <1>24 DEF Host!NoSnapshot
<1>25. CASE Host!RestoreFiles
  BY <1>25 DEF Host!RestoreFiles
<1>26. CASE Host!RestoreImages
  BY <1>26 DEF Host!RestoreImages
<1>27. CASE Host!RestoreRecord
  BY <1>27 DEF Host!RestoreRecord
<1>28. CASE Host!StartPrevious
  BY <1>28 DEF Host!StartPrevious
<1>29. CASE Host!SchemaRefuses
  BY <1>29 DEF Host!SchemaRefuses
<1>30. CASE Host!Confirm
  BY <1>30 DEF Host!Confirm
<1>31. CASE Host!Return
  BY <1>31 DEF Host!Return
<1>32. CASE Host!Crash
  <2>1. SUFFICES ASSUME ~crossed', ~started', ~halfway'
                 PROVE  WayBack'
    OBVIOUS
  <2>2. /\ UNCHANGED <<disk, record, app, journal>> /\ WayBack /\ InPlace
        /\ eng' = Host!Idle /\ eng.at \in (Host!Forth \cup {"untag"})
    BY <2>1, <1>32, HostFields DEF Host!Crash, Places
  <2>3. CASE eng.at = "untag"
    <3>1. left' = Host!Behind(disk)
      BY <1>32, <2>3 DEF Host!Crash
    <3>2. "image" \notin left' => disk.image = disk.previous
      BY <3>1 DEF Host!Behind
    <3>3. /\ disk.files = record /\ disk.json = record /\ app.code = record
          /\ disk.previous = Host!Image(record, record) /\ ~Host!Resumes
      BY <2>2, <2>3
    <3> QED
      BY <2>2, <3>2, <3>3
  <2>4. CASE eng.at # "untag"
    <3>1. left' = left
      BY <1>32, <2>4 DEF Host!Crash
    <3> QED
      BY <2>2, <2>4, <3>1
  <2> QED
    BY <2>3, <2>4
<1>33. CASE Host!FourHours
  BY <1>33 DEF Host!FourHours
<1>34. CASE Host!Clear
  <2>1. eng' = [eng EXCEPT !.at = "told", !.said = "nothing"] \/ eng' = [eng EXCEPT !.at = "cleared"]
    BY <1>34 DEF Host!Clear
  <2>2. /\ eng.at = "done" /\ journal' = None
        /\ UNCHANGED <<disk, record, app, schema, crossed, halfway, left, started>>
    BY <1>34 DEF Host!Clear
  <2>3. CASE eng' = [eng EXCEPT !.at = "told", !.said = "nothing"]
    <3>1. /\ eng'.at = "told" /\ eng'.said = "nothing" /\ eng'.rel = eng.rel
      BY <2>3
    <3> QED
      BY <2>2, <3>1
  <2>4. CASE eng' = [eng EXCEPT !.at = "cleared"]
    BY <2>2, <2>4
  <2> QED
    BY <2>1, <2>3, <2>4
<1>35. CASE Host!RestoreFails
  BY <1>35 DEF Host!RestoreFails
<1>36. CASE Host!Start
  <2>1. SUFFICES ASSUME ~crossed', ~started', ~halfway'
                 PROVE  WayBack'
    OBVIOUS
  <2>2. /\ eng.at \in {"idle", "told"} /\ ~Host!Resumes /\ ~Host!Replaced
        /\ ~crossed /\ ~started /\ ~halfway /\ WayBack
    BY <2>1, <1>36 DEF Host!Start
  <2>3. disk.json = record /\ app.code = record /\ disk.files = record
    BY <2>2
  <2>4. /\ disk'.env = record /\ disk'.files = disk.files
        /\ disk'.json = disk.json /\ disk'.snapshot = disk.snapshot /\ disk'.previous = disk.previous
    BY <2>3, <1>36 DEF Host!Start
  <2>5. disk'.image = Host!Image(record, record)
    <3>1. CASE disk.image.label # disk.json
      BY <2>3, <3>1, <1>36 DEF Host!Start
    <3>2. CASE disk.image.label = disk.json
      <4>1. "image" \notin left
        BY <2>1, <3>2, <1>36 DEF Host!Start
      <4> QED
        BY <2>2, <3>2, <4>1, <1>36 DEF Host!Start
    <3> QED
      BY <3>1, <3>2
  <2>6. app'.code = record
    BY <2>3, <2>5, <1>36 DEF Host!Start
  <2>7. UNCHANGED <<eng, journal, record>> /\ left' \subseteq left
    BY <1>36 DEF Host!Start
  <2> QED
    BY <2>2, <2>3, <2>4, <2>5, <2>6, <2>7
<1> HIDE DEF Phased, Expecting, Early, InPlace, WayBack, Installed, Pinned, Host!Usable,
             Host!Tell, Host!Image, Host!Confirmed, Host!Serves, Host!NothingChanged, Host!Up,
             Host!Snapshots
<1> QED
  BY <1>1, <1>2, <1>3, <1>4, <1>5, <1>6, <1>7, <1>8, <1>9, <1>10, <1>11, <1>12, <1>13, <1>14,
     <1>15, <1>16, <1>17, <1>18, <1>19, <1>20, <1>21, <1>22, <1>23, <1>24, <1>25, <1>26, <1>27,
     <1>28, <1>29, <1>30, <1>31, <1>32, <1>33, <1>34, <1>35, <1>36, Zenon DEF Host!Next

LEMMA HostStep == HostInv /\ [Host!Next]_update => HostInv'
<1>1. ASSUME HostInv, Host!Next
      PROVE  HostInv'
  <2>1. Host!TypeOK' /\ Phased' /\ Expecting'
    BY <1>1, HostTypeStep, PhasedStep, ExpectingStep DEF HostInv
  <2>2. ~crossed' /\ ~started' => InPlace'
    BY <1>1, <2>1, InPlaceStep, Zenon DEF HostInv
  <2>3. ~crossed' /\ ~started' /\ ~halfway' => WayBack'
    BY <1>1, <2>1, <2>2, WayBackStep, Zenon DEF HostInv
  <2> QED
    BY <2>1, <2>2, <2>3 DEF HostInv
<1>2. ASSUME HostInv, UNCHANGED update
      PROVE  HostInv'
  BY <1>2 DEF update, HostInv, Host!TypeOK, Phased, Expecting, InPlace, WayBack, Installed, Pinned,
     Host!Resumes, Host!Replaced, Host!Usable, Host!Tell
<1> QED
  BY <1>1, <1>2

\* What the engine reports is true (Update.psm1), wherever it fails or dies and however
\* often it is resumed: for every number of releases, updates, setups, starts and
\* crashes.
THEOREM ReportsHold == MCSpec => []ReportsAreTrue
<1>1. ASSUME Host!Init
      PROVE  HostInv
  <2>1. 1 \in Host!Values /\ None \in Host!Values
    BY MCAccountsAssumption DEF Host!Values, Host!Releases
  <2>2. Host!TypeOK
    <3>1. Host!Idle \in Host!EngineRow /\ Host!Image(1, 1) \in Host!Images
      BY <2>1 DEF Host!Idle, Host!EngineRow, Host!Image, Host!Images
    <3>2. disk \in Host!Disks
      BY <1>1, <2>1, <3>1 DEF Host!Init, Host!Disks
    <3> QED
      BY <1>1, <2>1, <3>1, <3>2 DEF Host!Init, Host!TypeOK
  <2>3. Phased /\ Expecting /\ InPlace
    BY <1>1 DEF Host!Init, Host!Idle, Phased, Expecting, InPlace, Host!Resumes, Host!Tell, Host!Forth,
       Host!RollsBack
  <2>4. WayBack
    BY <1>1 DEF Host!Init, Host!Idle, WayBack, Installed, Host!Resumes, Host!Replaced, Host!Forth,
       Host!RollsBack, Host!Image
  <2> QED
    BY <2>2, <2>3, <2>4 DEF HostInv
<1>2. [MCNext]_<<vars, stage, logins, machine>> => [Host!Next]_update
  BY DEF MCNext, machine
<1>3. HostInv /\ [MCNext]_<<vars, stage, logins, machine>> => HostInv'
  BY <1>2, HostStep
<1>4. ASSUME HostInv
      PROVE  ReportsAreTrue
  <2>1. Host!DoneIsWhole
    BY <1>4 DEF HostInv, InPlace, Host!DoneIsWhole, Host!Image, Host!Tell
  <2>2. Host!RollbackTellsTheTruth
    BY <1>4 DEF HostInv, WayBack, Phased, Installed, Host!Replaced, Host!Image, Host!RollsBack,
       Host!Tell, Host!RollbackTellsTheTruth
  <2> QED
    BY <2>1, <2>2 DEF ReportsAreTrue, Host!ReportsAreTrue
<1> QED
  BY <1>1, <1>3, <1>4, PTL DEF MCSpec, MCInit
=============================================================================
