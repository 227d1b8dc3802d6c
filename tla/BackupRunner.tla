------------------------------ MODULE BackupRunner ------------------------------
(***************************************************************************)
(* Backups: runs that dump, encrypt, verify and publish a backup and then  *)
(* clean old ones; drills that restore one into a database of their own;   *)
(* checks and prunings, which take no lock.  Sources: backup_runner.py,    *)
(* backup.py, cli.py, routers/ops.py, infra/scripts/backup_scheduler.sh.   *)
(*                                                                         *)
(* A backup is its number in the order of publication, which is the order  *)
(* of the modification times retention sorts by.  Keys and contents are    *)
(* left out: a backup that is published has been decrypted once.           *)
(***************************************************************************)
EXTENDS Naturals, FiniteSets

CONSTANTS
    Processes,        \* threads of the API and processes of the command line
    MinCopies,        \* BACKUP_MIN_COPIES
    MaxBackups, MaxRuns, MaxCrashes, MaxFailures,     \* bounds on what may happen
    Nobody

VARIABLES
    files,            \* backups in the directory
    sidecars,         \* backups with their .sha256 beside them
    aged,             \* backups up to this number are older than the retention
    state,            \* the state file: the last backup and the last drill
    lock,             \* holder of .backup.lock
    run,              \* what each process does
    plaintext,        \* processes whose staging directory holds a plain dump
    leaked,           \* a dead process left its plain dump
    meddled,          \* a run without the lock undid the record of a backup
    drillDb,          \* whose restored database the drill database is
    published, runs, crashes, failures                \* counters of the bounds

counters == <<published, runs, crashes, failures>>
disk == <<files, sidecars, aged>>
vars == <<disk, state, lock, run, plaintext, leaked, meddled, drillDb, counters>>

NoBackup == 0
Backups == 1..MaxBackups
State == [last : Backups \cup {NoBackup},
          drill : [file : Backups \cup {NoBackup}, ok : BOOLEAN]]
FreshState == [last |-> NoBackup, drill |-> [file |-> NoBackup, ok |-> FALSE]]
Idle == [kind |-> "none", at |-> "idle", seen |-> FreshState, file |-> NoBackup, doomed |-> {}]

Init ==
    /\ files = {} /\ sidecars = {} /\ aged = 0
    /\ state = FreshState
    /\ lock = Nobody
    /\ run = [p \in Processes |-> Idle]
    /\ plaintext = {} /\ leaked = FALSE /\ meddled = FALSE
    /\ drillDb = Nobody
    /\ published = 0 /\ runs = 0 /\ crashes = 0 /\ failures = 0

At(p, kind, at) == run[p].kind = kind /\ run[p].at = at
Goes(p, at) == run' = [run EXCEPT ![p].at = at]

Start(p, kind) ==
    /\ run[p] = Idle /\ runs < MaxRuns
    /\ runs' = runs + 1
    /\ run' = [run EXCEPT ![p] = [Idle EXCEPT !.kind = kind, !.at = "starts"]]
    /\ UNCHANGED <<disk, state, lock, plaintext, leaked, meddled, drillDb, published, crashes, failures>>

\* _acquire_lock does not wait: a busy lock ends the run.
Locked(p) ==
    /\ run[p].kind \in {"backup", "drill"} /\ run[p].at = "starts" /\ lock # Nobody
    /\ run' = [run EXCEPT ![p] = Idle]
    /\ UNCHANGED <<disk, state, lock, plaintext, leaked, meddled, drillDb, counters>>

\* The state is loaded under the lock.
Acquire(p) ==
    /\ run[p].kind \in {"backup", "drill"}
    /\ \/ run[p].at = "starts" /\ lock = Nobody /\ lock' = p /\ Goes(p, "locked")
       \/ run[p].at = "locked" /\ UNCHANGED lock
          /\ run' = [run EXCEPT ![p].at = "works", ![p].seen = state]
    /\ UNCHANGED <<disk, state, plaintext, leaked, meddled, drillDb, counters>>

-----------------------------------------------------------------------------
(* A backup: the steps of run_backup, in their order.                      *)

\* pg_dump into the staging directory.
Dump(p) ==
    /\ At(p, "backup", "works")
    /\ plaintext' = plaintext \cup {p}
    /\ Goes(p, "dumped")
    /\ UNCHANGED <<disk, state, lock, leaked, meddled, drillDb, counters>>

\* Encryption into the staging directory, and decryption as a test.
Encrypt(p) ==
    \/ At(p, "backup", "dumped") /\ Goes(p, "encrypted")
    \/ At(p, "backup", "encrypted") /\ Goes(p, "tested")
EncryptStep(p) ==
    Encrypt(p) /\ UNCHANGED <<disk, state, lock, plaintext, leaked, meddled, drillDb, counters>>

Publish(p) ==
    /\ At(p, "backup", "tested") /\ published < MaxBackups
    /\ published' = published + 1
    /\ files' = files \cup {published'}
    /\ run' = [run EXCEPT ![p].at = "published", ![p].file = published']
    /\ UNCHANGED <<sidecars, aged, state, lock, plaintext, leaked, meddled, drillDb, runs, crashes, failures>>

WriteChecksum(p) ==
    /\ At(p, "backup", "published")
    /\ sidecars' = sidecars \cup {run[p].file}
    /\ Goes(p, "summed")
    /\ UNCHANGED <<files, aged, state, lock, plaintext, leaked, meddled, drillDb, counters>>

\* Unlinking the plain dump and the staging directory.
Unlink(p) ==
    /\ At(p, "backup", "summed")
    /\ plaintext' = plaintext \ {p}
    /\ Goes(p, "clean")
    /\ UNCHANGED <<disk, state, lock, leaked, meddled, drillDb, counters>>

\* save_state replaces the file: what was loaded, with the new record in it.
Record(p) ==
    /\ At(p, "backup", "clean")
    /\ state' = [run[p].seen EXCEPT !.last = run[p].file]
    /\ Goes(p, "recorded")
    /\ UNCHANGED <<disk, lock, plaintext, leaked, meddled, drillDb, counters>>

WrongEnd(S) == {b \in S : Cardinality({c \in S : c < b}) < MinCopies}
NoFloor == {b \in files : b <= aged}
\* retention_plan: old ones, but never the newest MinCopies.
Newest(S) == {b \in S : Cardinality({c \in S : c > b}) < MinCopies}
Doomed == {b \in files : b <= aged} \ Newest(files)

Plan(p) ==
    /\ At(p, "backup", "recorded") \/ At(p, "prune", "starts")
    /\ run' = [run EXCEPT ![p].at = "deletes", ![p].doomed = Doomed]
    /\ UNCHANGED <<disk, state, lock, plaintext, leaked, meddled, drillDb, counters>>

Delete(p) ==
    /\ run[p].at = "deletes"
    /\ \E b \in run[p].doomed :
         /\ files' = files \ {b}
         /\ run' = [run EXCEPT ![p].at = "deleted", ![p].file = b, ![p].doomed = @ \ {b}]
    /\ meddled' = (meddled \/ (run[p].kind = "prune" /\ state.last \in files \ files'))
    /\ UNCHANGED <<sidecars, aged, state, lock, plaintext, leaked, drillDb, counters>>

DeleteChecksum(p) ==
    /\ run[p].at = "deleted"
    /\ sidecars' = sidecars \ {run[p].file}
    /\ Goes(p, "deletes")
    /\ UNCHANGED <<files, aged, state, lock, plaintext, leaked, meddled, drillDb, counters>>

\* The end of a run: the finally clause unlinks the dump and frees the lock.
Leave(p) ==
    /\ run' = [run EXCEPT ![p] = Idle]
    /\ lock' = IF lock = p THEN Nobody ELSE lock
    /\ plaintext' = plaintext \ {p}

Finish(p) ==
    /\ run[p].at = "deletes" /\ run[p].doomed = {}
    /\ Leave(p)
    /\ UNCHANGED <<disk, state, leaked, meddled, drillDb, counters>>

\* No space, pg_dump, encryption, verification, the disk or an audit record.
Fail(p) ==
    /\ run[p].kind \in {"backup", "prune"} /\ run[p].at # "starts"
    /\ failures < MaxFailures /\ failures' = failures + 1
    /\ Leave(p)
    /\ UNCHANGED <<disk, state, leaked, meddled, drillDb, published, runs, crashes>>

-----------------------------------------------------------------------------
(* A drill: run_restore_drill.                                             *)

Verified(b) == b \in files \cap sidecars

\* The newest backup the state names, checked against its checksum and
\* decrypted into the staging directory.
Decrypt(p) ==
    /\ At(p, "drill", "works") /\ Verified(run[p].seen.last)
    /\ plaintext' = plaintext \cup {p}
    /\ run' = [run EXCEPT ![p].at = "decrypted", ![p].file = run[p].seen.last]
    /\ UNCHANGED <<disk, state, lock, leaked, meddled, drillDb, counters>>

\* DROP DATABASE IF EXISTS ... WITH (FORCE), CREATE DATABASE.
CreateDb(p) ==
    /\ At(p, "drill", "decrypted")
    /\ drillDb' = p
    /\ Goes(p, "restores")
    /\ UNCHANGED <<disk, state, lock, plaintext, leaked, meddled, counters>>

\* Restore, migrations, tables, users and health need the database.
Pass(p) ==
    /\ At(p, "drill", "restores") /\ drillDb = p
    /\ state' = [run[p].seen EXCEPT !.drill = [file |-> run[p].file, ok |-> TRUE]]
    /\ Goes(p, "ends")
    /\ UNCHANGED <<disk, lock, plaintext, leaked, meddled, drillDb, counters>>

\* What fails is recorded in a state that is loaded again.
Fails(p) ==
    \/ At(p, "drill", "works") /\ ~Verified(run[p].seen.last) /\ UNCHANGED failures
    \/ At(p, "drill", "restores") /\ drillDb # p /\ UNCHANGED failures
    \/ /\ run[p].kind = "drill" /\ run[p].at \in {"works", "decrypted", "restores"}
       /\ failures < MaxFailures /\ failures' = failures + 1

\* Exceptions of other kinds (the disk, the database) record nothing.
FailDrill(p) ==
    /\ Fails(p)
    /\ \/ state' = [state EXCEPT !.drill = [file |-> run[p].file, ok |-> FALSE]]
       \/ failures' # failures /\ UNCHANGED state
    /\ Goes(p, "ends")
    /\ UNCHANGED <<disk, lock, plaintext, leaked, meddled, drillDb, published, runs, crashes>>

\* The finally clause frees the lock before it drops the database.
Release(p) ==
    /\ At(p, "drill", "ends")
    /\ lock' = Nobody
    /\ Goes(p, "drops")
    /\ UNCHANGED <<disk, state, plaintext, leaked, meddled, drillDb, counters>>

Drop(p) ==
    /\ At(p, "drill", "drops")
    /\ drillDb' = Nobody
    /\ Leave(p)
    /\ UNCHANGED <<disk, state, leaked, meddled, counters>>

-----------------------------------------------------------------------------
(* A check: run_check loads the state, reads the backup for a while and    *)
(* saves the state it loaded, without the lock.                            *)

Check(p) ==
    \/ /\ At(p, "check", "starts")
       /\ run' = IF state.last \in files
                 THEN [run EXCEPT ![p].at = "reads", ![p].seen = state]
                 ELSE [run EXCEPT ![p] = Idle]
       /\ UNCHANGED <<state, meddled>>
    \/ /\ At(p, "check", "reads")
       /\ state' = run[p].seen
       /\ meddled' = (meddled \/ state'.last # state.last)
       /\ run' = [run EXCEPT ![p] = Idle]

CheckStep(p) ==
    Check(p) /\ UNCHANGED <<disk, lock, plaintext, leaked, drillDb, counters>>

-----------------------------------------------------------------------------
\* A process dies: the operating system frees its lock, nothing else is undone.
Crash(p) ==
    /\ run[p] # Idle /\ crashes < MaxCrashes
    /\ crashes' = crashes + 1
    /\ run' = [run EXCEPT ![p] = Idle]
    /\ lock' = IF lock = p THEN Nobody ELSE lock
    /\ leaked' = (leaked \/ p \in plaintext)
    /\ plaintext' = plaintext \ {p}
    /\ UNCHANGED <<disk, state, meddled, drillDb, published, runs, failures>>

Age ==
    /\ aged < published
    /\ aged' = aged + 1
    /\ UNCHANGED <<files, sidecars, state, lock, run, plaintext, leaked, meddled, drillDb, counters>>

Backup(p) ==
    \/ Dump(p) \/ EncryptStep(p) \/ Publish(p) \/ WriteChecksum(p) \/ Unlink(p) \/ Record(p)
    \/ Plan(p) \/ Delete(p) \/ DeleteChecksum(p) \/ Finish(p) \/ Fail(p)
Drill(p) == Decrypt(p) \/ CreateDb(p) \/ Pass(p) \/ FailDrill(p) \/ Release(p) \/ Drop(p)

Next ==
    \/ \E p \in Processes :
         \/ \E kind \in {"backup", "drill", "check", "prune"} : Start(p, kind)
         \/ Locked(p) \/ Acquire(p) \/ Backup(p) \/ Drill(p) \/ CheckStep(p) \/ Crash(p)
    \/ Age

Spec == Init /\ [][Next]_vars

-----------------------------------------------------------------------------
Stands == state.last # NoBackup => state.last \in files \cap sidecars

\* The state file names a backup that is there with its checksum, wherever
\* backups and drills die, fail or wait for each other: only an unlocked check
\* that saves what it read before a backup, or an unlocked pruning, undoes
\* that (run_backup: publish, checksum, state, retention).  And once a backup is
\* published the directory is never empty again, whatever retention and prunings
\* meet (backup.py: "Retention never removes the newest min_copies backups ... a
\* failed run cannot shrink the archive").
RecordedBackupStands == (Stands \/ meddled) /\ (published > 0 => files # {})

\* Refuted: without that exception.
NobodyMeddles == ~meddled

\* Refuted: no plain dump stays behind (backup.py: "Only ciphertext ... ever
\* reaches long-term storage"; the staging directory is in the backup directory).
NoPlaintextStays == ~leaked

\* Refuted: nobody takes a drill's database away (run_restore_drill: "the
\* drill database is dropped afterwards", after the lock is free).
DrillKeepsItsDatabase == \A p \in Processes : At(p, "drill", "restores") => drillDb = p
=============================================================================
