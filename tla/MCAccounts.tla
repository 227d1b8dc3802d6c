------------------------------- MODULE MCAccounts -------------------------------
(***************************************************************************)
(* What the administrators of an installation do, for TLC: Accounts with   *)
(* SignIn, UpdateChannel, BackupRunner and EngineUpdate.  The requests of  *)
(* a first run, those of administrators and those to sign in touch each    *)
(* other only in the table of users, the channel sees of an update only    *)
(* its outcome, and of backups nothing; so that the states of one do not   *)
(* multiply those of another, a behaviour is a first run, or, with a first *)
(* run behind it, administration, sign-in, the channel, backups or an      *)
(* update of the host.  Engines and processes share their names with users *)
(* and requests, which leaves the symmetry less to permute.                *)
(***************************************************************************)
EXTENDS Accounts, TLC

CONSTANTS FirstUser, MaxFailures, Unread,
          MaxVersion, MaxJobs, MaxReleases, MaxMishaps, None,
          MinCopies, MaxBackups, MaxRuns, MaxCrashes, MaxErrors,
          MaxUpdates, MaxSetups, MaxStarts, Mixed
VARIABLES stage, account, call, wrong,
          store, actionLock, ask, engine, updateLock, host, published, jobs, releases, mishaps,
          files, sidecars, aged, state, lock, run, plaintext, leaked, meddled, drillDb,
          copies, runs, crashes, failures,
          disk, record, app, schema, journal, hostLock, eng, crossed, halfway, left, started,
          updates, setups, starts, hostCrashes, hostFailures

\* There is a first release, and retention keeps a copy (config.py: "BACKUP_MIN_COPIES
\* must be at least 1").
ASSUME MCAccountsAssumption ==
    MaxVersion \in Nat \ {0} /\ MinCopies \in Nat \ {0} /\ Nobody \notin Requests

logins == <<account, call, wrong>>
channel == <<store, actionLock, ask, engine, updateLock, host, published, jobs, releases, mishaps>>
backups == <<files, sidecars, aged, state, lock, run, plaintext, leaked, meddled, drillDb,
             copies, runs, crashes, failures>>
update == <<disk, record, app, schema, journal, hostLock, eng, crossed, halfway, left, started,
            updates, setups, starts, hostCrashes, hostFailures>>
machine == <<channel, backups, update>>

Login == INSTANCE SignIn WITH Logins <- Requests
Channel == INSTANCE UpdateChannel WITH Engines <- Users \ {FirstUser}, call <- ask
Archive == INSTANCE BackupRunner WITH
        Processes <- Requests, MaxFailures <- MaxErrors, published <- copies
Host == INSTANCE EngineUpdate WITH MaxRelease <- MaxVersion, MaxFailures <- 2,
        lock <- hostLock, crashes <- hostCrashes, failures <- hostFailures

\* No journal, image or snapshot is a missing one.
ASSUME HostAssumption ==
    None \notin Host!Journals /\ None \notin Host!Images /\ None \notin Host!Snapshots

Symm == Permutations(Users \ {FirstUser}) \cup Permutations(Requests)
SeatsOf == [l \in Licences |-> 2]

FirstRunBehind ==
    /\ user = [u \in Users |-> IF u = FirstUser THEN Account("admin") ELSE Nobody]
    /\ owners = {FirstUser} /\ unchecked = {}
    /\ exchange = [t \in Tokens |-> "consumed"]
    /\ ticket = [k \in Tickets |-> "consumed"]
    /\ setup = [r \in Requests |-> Quiet] /\ setupLock = Free
    /\ licActive \in {L \in SUBSET Licences : Cardinality(L) <= 1}
    /\ licLock = [l \in Licences |-> Free]
    /\ req = [r \in Requests |-> Idle] /\ held = [r \in Requests |-> {}]
    /\ raced = FALSE

\* A channel that names the installed release first is left without mishaps.
MCInit ==
    /\ Login!Init /\ Channel!UpdateChannelInit /\ Archive!Init /\ Host!Init
    /\ \/ stage = "first run" /\ Init /\ published = 1
       \/ stage = "administration" /\ FirstRunBehind /\ published = 1
       \/ /\ FirstRunBehind /\ licActive = {}
          /\ \/ stage \in {"sign-in", "backups", "update", "calm channel"} /\ published = 1
             \/ stage = "channel" /\ published # 1

MCNext ==
    \/ stage = "first run" /\ Setup /\ UNCHANGED <<stage, logins, machine>>
    \/ stage = "administration" /\ Next /\ UNCHANGED <<stage, logins, machine>>
    \/ stage = "sign-in" /\ Login!Next /\ UNCHANGED <<stage, vars, machine>>
    \/ stage = "channel" /\ Channel!UpdateChannelNext /\ UNCHANGED <<stage, vars, logins, backups, update>>
    \/ /\ stage = "calm channel" /\ Channel!UpdateChannelNext /\ mishaps' = 0
       /\ UNCHANGED <<stage, vars, logins, backups, update>>
    \/ stage = "backups" /\ Archive!Next /\ UNCHANGED <<stage, vars, logins, channel, update>>
    \/ stage = "update" /\ Host!Next /\ UNCHANGED <<stage, vars, logins, channel, backups>>

MCSpec == MCInit /\ [][MCNext]_<<vars, stage, logins, machine>>

\* SignIn: the lock may come late, but it comes.
LockComes == Login!LockComes

\* UpdateChannel: an engine installs an older version only where it cannot see.
GoesBackOnlyUnseen == Channel!GoesBackOnlyUnseen

\* BackupRunner: retention leaves copies, and the state names one that is there.
RecordedBackupStands == Archive!RecordedBackupStands

\* EngineUpdate: what the engine reports is true.
ReportsAreTrue == Host!ReportsAreTrue
=============================================================================
