------------------------------ MODULE EngineUpdate ------------------------------
(***************************************************************************)
(* The update of the application on a Windows host: Update-HrmApp with its *)
(* journal of phases, its rollback and its resumption after a crash, the   *)
(* setup wizard that lays out files before it, and the start of the stack  *)
(* by the supervisor.  Sources: infra/windows/engine/Update.psm1,          *)
(* Snapshot.psm1, Install.psm1, Compose.psm1, Supervisor.psm1.             *)
(*                                                                         *)
(* A release is a number, and so is the revision of the schema its         *)
(* migrations lead to; the code of a release runs on its own schema and on *)
(* older ones, which it migrates.  Docker images are one image with the    *)
(* label of its build; ports, keys and the contents of the backup gate are *)
(* left out.  One process runs the engine at a time.                       *)
(***************************************************************************)
EXTENDS Naturals

CONSTANTS
    MaxRelease,       \* releases are 1..MaxRelease, 1 is installed
    MaxUpdates, MaxSetups, MaxStarts, MaxCrashes, MaxFailures,     \* bounds
    Mixed, None       \* files or images of two releases; nothing

VARIABLES
    disk,             \* the installation directory, pilot.env, image tags, copies
    record,           \* release_sha of the record of the installation
    app,              \* the containers: the code and the environment they started with
    schema,           \* the revision of the database
    journal,          \* update-journal.json, or None
    lock,             \* update.lock: "free", "fresh", "old" after four hours
    eng,              \* the engine
    crossed,          \* an update was resumed over the files of another release
    halfway,          \* a rollback was cut short by a crash, told to have failed, or used what was left
    left,             \* what a failure that changed nothing did not put back: "image", "env"
    started,          \* the supervisor started the stack in the middle of an update
    updates, setups, starts, crashes, failures         \* counters of the bounds

counters == <<updates, setups, starts, crashes, failures>>
ghosts == <<crossed, halfway, left, started>>
vars == <<disk, record, app, schema, journal, lock, eng, ghosts, counters>>

Releases == 1..MaxRelease
Image(code, label) == [code |-> code, label |-> label]
Idle == [at |-> "idle", phase |-> "none", source |-> None, rel |-> None, recorded |-> None,
         expected |-> None, ids |-> FALSE, saved |-> TRUE, switched |-> FALSE,
         migrated |-> FALSE, before |-> 0, said |-> "nothing"]

\* What the variables hold; the steps of the engine on its way forth and back.
Values    == Releases \cup {Mixed, None}
Images    == [code : Values, label : Values]
Snapshots == [sha : Values, code : Values]
Phases    == {"prepare", "build", "switch", "migrate", "smoke", "done"}
Journals  == [phase : Phases \cup {"rollback"}, rel : Values, prev : Values, saved : BOOLEAN,
              switched : BOOLEAN, migrated : BOOLEAN, before : Values \cup {0}]
Disks     == [files : Values, json : Values, env : Values, image : Images,
              previous : Images \cup {None}, snapshot : Snapshots \cup {None}, staged : Values]
Forth     == {"gate", "pin", "prepare", "backup", "build", "builds", "switch", "copies", "ups",
              "migrate", "upgrade", "smoke", "smoked", "done", "cleared", "caught"}
RollsBack == {"untag", "restore", "unfiles", "unimages", "unenv", "unstart", "confirm"}
EngineRow == [at : {"idle", "told"} \cup Forth \cup RollsBack, phase : Phases \cup {"none"},
              source : Values, rel : Values, recorded : Values, expected : Values, ids : BOOLEAN,
              saved : BOOLEAN, switched : BOOLEAN, migrated : BOOLEAN, before : Values \cup {0},
              said : {"nothing", "done", "unchanged", "failed", "rolled_back", "rollback_failed"}]

TypeOK ==
    /\ disk \in Disks /\ record \in Values /\ app \in [code : Values, env : Values]
    /\ schema \in Values \cup {0} /\ journal \in Journals \cup {None} /\ eng \in EngineRow
    /\ crossed \in BOOLEAN /\ halfway \in BOOLEAN /\ started \in BOOLEAN /\ left \in SUBSET {"image", "env"}

Init ==
    /\ disk = [files |-> 1, json |-> 1, env |-> 1, image |-> Image(1, 1),
               previous |-> None, snapshot |-> None, staged |-> None]
    /\ record = 1 /\ app = [code |-> 1, env |-> 1] /\ schema = 1
    /\ journal = None /\ lock = "free" /\ eng = Idle
    /\ crossed = FALSE /\ halfway = FALSE /\ left = {} /\ started = FALSE
    /\ updates = 0 /\ setups = 0 /\ starts = 0 /\ crashes = 0 /\ failures = 0

Goes(at) == eng' = [eng EXCEPT !.at = at]
Tells(what) == eng' = [eng EXCEPT !.at = "told", !.said = what]
Put(field, value) == disk' = [disk EXCEPT ![field] = value]

\* docker compose up: containers of the tagged image with the environment of
\* pilot.env; the backend migrates the schema before it serves.
Runs(code) == code # Mixed /\ code >= schema
Up(d) ==
    /\ app' = [code |-> d.image.code, env |-> d.env]
    /\ schema' = IF Runs(d.image.code) THEN d.image.code ELSE schema
Serves == Runs(app.code)

-----------------------------------------------------------------------------
(* The beginning of Update-HrmApp.  pilot.env is written with the recorded *)
(* release before the lock is looked at.                                   *)

Refused ==
    /\ eng.at = "idle" /\ updates < MaxUpdates /\ lock = "fresh"
    /\ updates' = updates + 1
    /\ Put("env", record) /\ left' = left \ {"env"}
    /\ UNCHANGED <<record, app, schema, journal, lock, eng, crossed, halfway, started, setups, starts,
                   crashes, failures>>

Resumes == journal # None /\ journal.phase # "rollback"
Replaced == disk.json # record

Begins(r) ==
    /\ eng.at = "idle" /\ updates < MaxUpdates /\ lock # "fresh"
    /\ r # record \/ journal # None
    /\ updates' = updates + 1
    /\ Put("env", record) /\ left' = left \ {"env"}
    /\ UNCHANGED <<record, app, schema, crossed, halfway, started, setups, starts, crashes, failures>>

\* A journal that ends in a rollback makes a new attempt; clearing it removes
\* the lock that was just taken.
Begin(r) ==
    /\ ~Resumes /\ Begins(r)
    /\ lock' = IF journal = None THEN "fresh" ELSE "free"
    /\ journal' = None
    /\ eng' = [at |-> "gate", phase |-> "prepare", source |-> r, rel |-> r, recorded |-> record,
               expected |-> record, ids |-> FALSE, saved |-> TRUE, switched |-> Replaced,
               migrated |-> FALSE, before |-> 0, said |-> "nothing"]

Resume(r) ==
    /\ Resumes /\ Begins(r)
    /\ lock' = "fresh" /\ UNCHANGED journal
    /\ eng' = [at |-> "gate", phase |-> journal.phase, source |-> r, rel |-> disk.staged,
               recorded |-> record, expected |-> journal.prev, ids |-> TRUE, saved |-> journal.saved,
               switched |-> \/ Replaced \/ journal.switched
                            \/ journal.phase \in {"switch", "migrate", "smoke"},
               migrated |-> journal.migrated, before |-> journal.before, said |-> "nothing"]

\* Docker is there; pins of images are taken by a preparation only.
Gate ==
    /\ eng.at = "gate"
    /\ Goes(IF eng.phase = "prepare" THEN "pin" ELSE eng.phase)
    /\ UNCHANGED <<disk, record, app, schema, journal, lock, ghosts, counters>>

\* Get-HrmImageIds: whatever is tagged :pilot becomes :previous.
Pin ==
    /\ eng.at = "pin"
    /\ Put("previous", disk.image)
    /\ eng' = [eng EXCEPT !.at = "prepare", !.ids = TRUE]
    /\ halfway' = (halfway \/ "image" \in left)
    /\ UNCHANGED <<record, app, schema, journal, lock, crossed, left, started, counters>>

\* A snapshot is taken of the installed files unless one of that release is
\* there; files that were replaced before are no snapshot.
Usable(sha) == disk.snapshot # None /\ disk.snapshot.sha = sha

Prepare ==
    LET takes == ~Usable(eng.recorded) /\ ~Replaced
        saved == Usable(eng.recorded) \/ takes
        switched == eng.switched \/ Replaced
    IN
    /\ eng.at = "prepare"
    /\ disk' = [disk EXCEPT
         !.snapshot = IF takes THEN [sha |-> eng.recorded, code |-> disk.files] ELSE @,
         !.staged = eng.source]
    /\ journal' = [phase |-> "prepare", rel |-> eng.rel, prev |-> eng.recorded, saved |-> saved,
                   switched |-> switched, migrated |-> FALSE, before |-> schema]
    /\ crossed' = (crossed \/ eng.rel # eng.source)
    /\ eng' = [eng EXCEPT !.at = "backup", !.saved = saved, !.switched = switched, !.before = schema]
    /\ UNCHANGED <<record, app, schema, lock, halfway, left, started, counters>>

Journal(phase) == journal' = [journal EXCEPT !.phase = phase]

\* The backup gate changes nothing of this.
Backup ==
    /\ eng.at = "backup"
    /\ Journal("build") /\ Goes("build")
    /\ UNCHANGED <<disk, record, app, schema, lock, ghosts, counters>>

\* pilot.env is written for the label; an interrupted build leaves a mixture.
Build ==
    /\ eng.at = "build"
    /\ disk' = [disk EXCEPT !.env = eng.rel, !.image = Image(Mixed, eng.rel)]
    /\ Goes("builds")
    /\ UNCHANGED <<record, app, schema, journal, lock, ghosts, counters>>

Built ==
    /\ eng.at = "builds"
    /\ disk' = [disk EXCEPT !.image = Image(disk.staged, eng.rel)]
    /\ Journal("switch") /\ Goes("switch")
    /\ UNCHANGED <<record, app, schema, lock, ghosts, counters>>

\* Directories are moved into place one by one, release.json is the last.
Switch ==
    /\ eng.at = "switch"
    /\ Put("files", Mixed)
    /\ eng' = [eng EXCEPT !.at = "copies", !.switched = TRUE]
    /\ UNCHANGED <<record, app, schema, journal, lock, ghosts, counters>>

Copied ==
    /\ eng.at = "copies"
    /\ disk' = [disk EXCEPT !.files = disk.staged, !.json = disk.staged, !.env = eng.rel]
    /\ Goes("ups")
    /\ UNCHANGED <<record, app, schema, journal, lock, ghosts, counters>>

Switched ==
    /\ eng.at = "ups"
    /\ Up(disk)
    /\ Journal("migrate") /\ Goes("migrate")
    /\ UNCHANGED <<disk, record, lock, ghosts, counters>>

\* The phase starts the containers again: a resumption may enter here.
Migrate ==
    /\ eng.at = "migrate"
    /\ Put("env", eng.rel) /\ Up([disk EXCEPT !.env = eng.rel])
    /\ Goes("upgrade")
    /\ UNCHANGED <<record, journal, lock, ghosts, counters>>

Migrated ==
    /\ eng.at = "upgrade" /\ Serves
    /\ journal' = [journal EXCEPT !.phase = "smoke", !.migrated = TRUE]
    /\ eng' = [eng EXCEPT !.at = "smoke", !.migrated = TRUE]
    /\ UNCHANGED <<disk, record, app, schema, lock, ghosts, counters>>

\* The application answers, with the release in its environment and the schema
\* at the head of the deployed image.
Healthy == Serves /\ app.env = eng.rel /\ schema = disk.image.code

Smoke ==
    /\ eng.at = "smoke" /\ Healthy
    /\ record' = eng.rel
    /\ Goes("smoked")
    /\ UNCHANGED <<disk, app, schema, journal, lock, ghosts, counters>>

Done ==
    /\ eng.at = "smoked"
    /\ Journal("done")
    /\ eng' = [eng EXCEPT !.at = "done", !.phase = "smoke"]
    /\ UNCHANGED <<disk, record, app, schema, lock, ghosts, counters>>

\* A resumption that finds the journal done clears it and reports nothing.
Clear ==
    /\ eng.at = "done"
    /\ journal' = None /\ lock' = "free"
    /\ IF eng.phase = "done" THEN Tells("nothing") ELSE Goes("cleared")
    /\ UNCHANGED <<disk, record, app, schema, ghosts, counters>>

Finish ==
    /\ eng.at = "cleared" /\ Tells("done")
    /\ UNCHANGED <<disk, record, app, schema, journal, lock, ghosts, counters>>

-----------------------------------------------------------------------------
(* The catch clause.                                                       *)

\* What can go wrong by itself at a step, the last writes included, and what goes
\* wrong by the state.
Fail ==
    /\ \/ /\ eng.at \in {"gate", "pin", "prepare", "backup", "builds", "switch", "copies", "ups",
                         "migrate", "upgrade", "smoke", "smoked", "done", "cleared"}
          /\ eng.at = "gate" => eng.phase # "done"
          /\ failures < MaxFailures /\ failures' = failures + 1
       \/ /\ (eng.at = "upgrade" /\ ~Serves) \/ (eng.at = "smoke" /\ ~Healthy)
          /\ UNCHANGED failures
    /\ Goes("caught")
    /\ UNCHANGED <<disk, record, app, schema, journal, lock, ghosts, updates, setups, starts, crashes>>

\* Only a migration counts as a change.
ForgetsTheSwitch == ~eng.migrated

\* Get-HrmRollbackPlan.
NothingChanged == ~eng.switched /\ ~eng.migrated
RollbackJournal ==
    journal' = IF journal = None
               THEN [phase |-> "rollback", rel |-> eng.rel, prev |-> eng.expected, saved |-> eng.saved,
                     switched |-> eng.switched, migrated |-> FALSE, before |-> 0]
               ELSE [journal EXCEPT !.phase = "rollback"]

\* Without pins there is nothing to put back.
GiveUp ==
    /\ eng.at = "caught" /\ ~eng.ids
    /\ RollbackJournal
    /\ lock' = "free" /\ Tells("failed")
    /\ UNCHANGED <<disk, record, app, schema, ghosts, counters>>

Plan ==
    /\ eng.at = "caught" /\ eng.ids
    /\ RollbackJournal
    /\ Goes(IF NothingChanged THEN "untag" ELSE "restore")
    /\ UNCHANGED <<disk, record, app, schema, lock, ghosts, counters>>

\* The installed version was not changed: tags and pilot.env are put back.  Either
\* may fail, which is a warning in the log; what is told stays the same.
Behind(d) ==
    (IF d.image # disk.previous THEN {"image"} ELSE {}) \cup (IF d.env # eng.recorded THEN {"env"} ELSE {})

Untag ==
    /\ eng.at = "untag"
    /\ \E image \in {disk.previous, disk.image}, env \in {eng.recorded, disk.env} :
         disk' = [disk EXCEPT !.image = image, !.env = env]
    /\ left' = Behind(disk')
    /\ lock' = "free" /\ Tells("unchanged")
    /\ UNCHANGED <<record, app, schema, journal, crossed, halfway, started, counters>>

\* Restore-HrmPreviousVersion: files, images, environment and record, start.
Restore ==
    /\ eng.at = "restore" /\ Usable(eng.expected)
    /\ Put("files", Mixed) /\ Goes("unfiles")
    /\ UNCHANGED <<record, app, schema, journal, lock, ghosts, counters>>

\* The images are put back even if there is no snapshot.
NoSnapshot ==
    /\ eng.at = "restore" /\ ~Usable(eng.expected)
    /\ Put("image", disk.previous)
    /\ lock' = "free" /\ Tells("rollback_failed") /\ halfway' = TRUE
    /\ UNCHANGED <<record, app, schema, journal, crossed, left, started, counters>>

\* Any other step fails: before the images are reached they are still put back.
RestoreFails ==
    /\ eng.at \in {"restore", "unfiles", "unimages", "unenv", "unstart"}
    /\ failures < MaxFailures /\ failures' = failures + 1
    /\ IF eng.at \in {"restore", "unfiles"} THEN Put("image", disk.previous) ELSE UNCHANGED disk
    /\ lock' = "free" /\ Tells("rollback_failed") /\ halfway' = TRUE
    /\ UNCHANGED <<record, app, schema, journal, crossed, left, started, updates, setups, starts, crashes>>

RestoreFiles ==
    /\ eng.at = "unfiles"
    /\ disk' = [disk EXCEPT !.files = disk.snapshot.code, !.json = disk.snapshot.sha]
    /\ Goes("unimages")
    /\ UNCHANGED <<record, app, schema, journal, lock, ghosts, counters>>

RestoreImages ==
    /\ eng.at = "unimages"
    /\ Put("image", disk.previous) /\ Goes("unenv")
    /\ UNCHANGED <<record, app, schema, journal, lock, ghosts, counters>>

RestoreRecord ==
    /\ eng.at = "unenv"
    /\ Put("env", eng.expected) /\ record' = eng.expected
    /\ Goes("unstart")
    /\ UNCHANGED <<app, schema, journal, lock, ghosts, counters>>

\* The check of the schema against the image refuses, or could not tell.
StartPrevious ==
    /\ eng.at = "unstart"
    /\ Up(disk) /\ Goes("confirm")
    /\ UNCHANGED <<disk, record, journal, lock, ghosts, counters>>

SchemaRefuses ==
    /\ eng.at = "unstart" /\ ~Runs(disk.image.code)
    /\ lock' = "free" /\ Tells("rollback_failed") /\ halfway' = TRUE
    /\ UNCHANGED <<disk, record, app, schema, journal, crossed, left, started, counters>>

\* The previous version answers, and it is not the failed one.
Confirmed == Serves /\ app.env = eng.expected /\ app.env # eng.rel

Confirm ==
    /\ eng.at = "confirm"
    /\ Tells(IF Confirmed THEN "rolled_back" ELSE "rollback_failed")
    /\ lock' = "free" /\ halfway' = (halfway \/ ~Confirmed)
    /\ UNCHANGED <<disk, record, app, schema, journal, crossed, left, started, counters>>

Return ==
    /\ eng.at = "told" /\ eng' = Idle
    /\ UNCHANGED <<disk, record, app, schema, journal, lock, ghosts, counters>>

-----------------------------------------------------------------------------
(* What happens beside an update.                                          *)

Crash ==
    /\ eng.at \notin {"idle", "told"} /\ crashes < MaxCrashes
    /\ crashes' = crashes + 1
    /\ eng' = Idle
    /\ halfway' = (halfway \/ eng.at \in RollsBack \ {"untag"})
    /\ left' = IF eng.at = "untag" THEN Behind(disk) ELSE left
    /\ UNCHANGED <<disk, record, app, schema, journal, lock, crossed, started, updates, setups, starts, failures>>

FourHours ==
    /\ eng.at = "idle" /\ lock = "fresh" /\ lock' = "old"
    /\ UNCHANGED <<disk, record, app, schema, journal, eng, ghosts, counters>>

\* The wizard takes a verified snapshot with its own script, lays out the files
\* of a release and starts the engine.
Setup(r) ==
    /\ eng.at = "idle" /\ setups < MaxSetups
    /\ Usable(record) \/ ~Replaced
    /\ setups' = setups + 1
    /\ disk' = [disk EXCEPT !.files = r, !.json = r,
                            !.snapshot = IF Usable(record) THEN @ ELSE [sha |-> record, code |-> disk.files]]
    /\ crossed' = (crossed \/ (Resumes /\ r # journal.rel))
    /\ UNCHANGED <<record, app, schema, journal, lock, eng, halfway, left, started, updates, starts,
                   crashes, failures>>

\* Start-HrmStack by the supervisor, which does not look at update.lock:
\* pilot.env and the image follow release.json, the image is built of the
\* installed files when its label is another one.
Start ==
    LET stale == disk.image.label # disk.json
        built == [disk EXCEPT !.env = disk.json,
                              !.image = IF stale THEN Image(disk.files, disk.json) ELSE @]
    IN
    /\ starts < MaxStarts /\ starts' = starts + 1
    /\ disk' = built
    /\ \/ Up(built)
       \/ ~stale /\ ~Runs(built.image.code) /\ UNCHANGED <<app, schema>>
    /\ started' = (started \/ eng.at \notin {"idle", "told"} \/ Resumes \/ Replaced)
    /\ halfway' = (halfway \/ (~stale /\ "image" \in left))
    /\ left' = IF stale THEN {} ELSE left \ {"env"}
    /\ UNCHANGED <<record, journal, lock, eng, crossed, updates, setups, crashes, failures>>

Next ==
    \/ Refused \/ (\E r \in Releases : Begin(r) \/ Resume(r) \/ Setup(r))
    \/ Gate \/ Pin \/ Prepare \/ Backup \/ Build \/ Built \/ Switch \/ Copied \/ Switched
    \/ Migrate \/ Migrated \/ Smoke \/ Done \/ Clear \/ Finish
    \/ Fail \/ GiveUp \/ Plan \/ Untag \/ Restore \/ NoSnapshot \/ RestoreFails \/ RestoreFiles
    \/ RestoreImages \/ RestoreRecord \/ StartPrevious \/ SchemaRefuses \/ Confirm \/ Return
    \/ Crash \/ FourHours \/ Start

Spec == Init /\ [][Next]_vars

-----------------------------------------------------------------------------
Tell(what) == eng.at = "told" /\ eng.said = what

\* An update that is reported done is whole: the files, the image, the code at
\* work, the schema and the record are those of one release, wherever earlier
\* attempts died, failed or were rolled back (Update.psm1, smoke); unless it was
\* resumed with another release or after the wizard laid out one, whose files
\* are then taken for those of the journal, or the supervisor rebuilt the image
\* of the old files between two phases.
DoneIsWhole ==
    Tell("done") /\ ~crossed /\ ~started =>
        /\ disk.files = eng.rel /\ disk.json = eng.rel /\ disk.image.code = eng.rel
        /\ app.code = eng.rel /\ schema = eng.rel /\ record = eng.rel

\* A rollback that is reported as confirmed, and a failure reported to have
\* changed nothing, leave the recorded release installed and at work
\* (Update.psm1: a false "restored" is a defect), unless an earlier rollback
\* was cut short or told to have failed, or the two causes above.  Its images and
\* environment are the tagged ones too, but for what could not be put back after
\* nothing was changed; a later update that pins such images is excepted as well.
RollbackTellsTheTruth ==
    eng.at = "told" /\ eng.said \in {"rolled_back", "unchanged"} /\ ~halfway /\ ~started /\ ~crossed =>
        /\ disk.files = record /\ app.code = record
        /\ "image" \notin left => disk.image.code = record
        /\ "env" \notin left => disk.env = record
        /\ eng.said = "rolled_back" => left = {}

\* What the engine tells the user of an update is true (Write-HrmUpdateResult), in both
\* respects.
ReportsAreTrue == DoneIsWhole /\ RollbackTellsTheTruth

\* Refuted: what is told to be unchanged ("the installed version was not changed") is
\* unchanged in its tags and its environment too.
UnchangedIsUnchanged ==
    Tell("unchanged") /\ ~halfway /\ ~started /\ ~crossed =>
        disk.image.code = record /\ disk.env = record

\* Refuted: without the exception for earlier rollbacks.
RollbackAlwaysTellsTheTruth ==
    Tell("rolled_back") /\ ~started /\ ~crossed => app.code = record

\* Refuted: an engine at work holds its lock (a journal that ends in a rollback
\* is cleared together with it).
HoldsItsLock == eng.at \notin {"idle", "told"} => lock = "fresh"
=============================================================================
