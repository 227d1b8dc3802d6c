----------------------------- MODULE UpdateChannel -----------------------------
(***************************************************************************)
(* The update channel of a pilot installation: administrators check for a  *)
(* release, download and install it through the backend, which keeps the   *)
(* state of the channel in memory; engines on the Windows host poll for    *)
(* the job, carry it out and report.  Sources: update_state.py,            *)
(* routers/updates.py, channel.py, update_channel_contract.py; the engine  *)
(* by infra/windows/engine/Channel.psm1.                                   *)
(*                                                                         *)
(* A release is its version; a signature, key, size or hash that is not as *)
(* it should be is a refusal.  A restart of the backend forgets the state. *)
(***************************************************************************)
EXTENDS Naturals

CONSTANTS
    Requests,         \* requests of administrators and background checks
    Engines,          \* processes of the engine: the watcher and a manual run
    MaxVersion,       \* releases are the versions 1..MaxVersion
    MaxJobs, MaxReleases, MaxMishaps,     \* bounds on what may happen
    None

VARIABLES
    store,            \* UpdateStateStore without its locks
    actionLock,       \* UpdateStateStore._action_lock: taken or not, it knows no owner
    call,             \* requests in progress
    engine,           \* engines: what they do and the job they took
    updateLock,       \* engine that wrote update.lock on the host last
    host,             \* the version installed on the host
    published,        \* the release the channel names
    jobs, releases, mishaps                           \* counters of the bounds

counters == <<jobs, releases, mishaps>>
vars == <<store, actionLock, call, engine, updateLock, host, published, counters>>

Versions == 1..MaxVersion
Quiet == [op |-> "none", at |-> "idle", manifest |-> None]
Resting == [at |-> "idle", job |-> 0, package |-> None, seen |-> 0, outcome |-> "none"]
Outcomes == {"installed", "rolled_back", "failed"}

\* What a process of the backend starts with: UPDATE_INSTALLED_VERSION is not
\* set in a pilot installation, so the installed version is unknown, 0.0.0.
Fresh == [state |-> "idle", installed |-> 0, job |-> 0, package |-> None,
          pending |-> FALSE, last |-> [job |-> 0, state |-> "none", version |-> None]]


UpdateChannelInit ==
    /\ store = Fresh /\ actionLock = FALSE
    /\ call = [r \in Requests |-> Quiet]
    /\ engine = [e \in Engines |-> Resting] /\ updateLock = None
    /\ host = 1 /\ published \in Versions
    /\ jobs = 0 /\ releases = 0 /\ mishaps = 0

-----------------------------------------------------------------------------
(* Administrators.  The state is read before the action lock is tried, and *)
(* a lock that is taken refuses the request.                               *)

At(r, at) == call' = [call EXCEPT ![r].at = at]
Over(r) == call' = [call EXCEPT ![r] = Quiet]

AskDownload(r) ==
    /\ call[r] = Quiet /\ store.state = "available"
    /\ call' = [call EXCEPT ![r] = [Quiet EXCEPT !.op = "download", !.at = "seen"]]
    /\ UNCHANGED <<store, actionLock, engine, updateLock, host, published, counters>>

AskInstall(r) ==
    /\ call[r] = Quiet /\ store.state = "ready"
    /\ call' = [call EXCEPT ![r] = [Quiet EXCEPT !.op = "install", !.at = "seen"]]
    /\ UNCHANGED <<store, actionLock, engine, updateLock, host, published, counters>>

BeginCheck(r, at, installed) ==
    /\ call[r] = Quiet /\ ~actionLock
    /\ actionLock' = TRUE
    /\ store' = [store EXCEPT !.state = "checking", !.installed = installed]
    /\ call' = [call EXCEPT ![r] = [Quiet EXCEPT !.op = "check", !.at = at]]
    /\ UNCHANGED <<engine, updateLock, host, published, counters>>

\* An administrator's check is audited, one the engine asks for is not; the
\* engine's headers tell the backend what is installed.
AskCheck(r) == BeginCheck(r, "audit", store.installed)
EngineCheck(r) == BeginCheck(r, "fetch", host)

BeginDownload(r) ==
    /\ call[r].op = "download" /\ call[r].at = "seen" /\ ~actionLock
    /\ actionLock' = TRUE
    /\ store' = [store EXCEPT !.state = "downloading"]
    /\ At(r, "audit")
    /\ UNCHANGED <<engine, updateLock, host, published, counters>>

BeginInstall(r) ==
    /\ call[r].op = "install" /\ call[r].at = "seen" /\ ~actionLock
    /\ actionLock' = TRUE
    /\ At(r, "fetch")
    /\ UNCHANGED <<store, engine, updateLock, host, published, counters>>

Busy(r) ==
    /\ call[r].at = "seen" /\ actionLock
    /\ Over(r)
    /\ UNCHANGED <<store, actionLock, engine, updateLock, host, published, counters>>

\* The audit record of the start is committed outside the try whose finally
\* releases the lock: an error leaves the lock taken until a restart.
Audit(r) ==
    /\ call[r].at = "audit"
    /\ \/ At(r, "fetch") /\ UNCHANGED mishaps
       \/ mishaps < MaxMishaps /\ mishaps' = mishaps + 1 /\ Over(r)
    /\ UNCHANGED <<store, actionLock, engine, updateLock, host, published, jobs, releases>>

-----------------------------------------------------------------------------
(* The manifest and the policy of versions.                                *)

\* What the fetched text is good for: the parser, the checks of the fields, the
\* trusted keys and the signature let the published manifest through or refuse.
Verified == {published, None}

\* The way there may fail as well: the policy of hosts, redirects, the network.
Fetch(r) ==
    /\ call[r].at = "fetch"
    /\ \E m \in Verified :
         call' = [call EXCEPT ![r].manifest = m, ![r].at = "decide"]
    /\ UNCHANGED <<store, actionLock, engine, updateLock, host, published, counters>>

\* A downgrade is refused; a newer release may be refused as well, when the
\* installed one is below its minimum_supported_version.
Decisions(m) ==
    CASE m = None -> {"failed"}
      [] m # None /\ m < store.installed -> {"failed"}
      [] m # None /\ m = store.installed -> {"up_to_date", "failed"}
      [] OTHER -> {"available", "failed"}

\* The end of an action: its result and the release of the lock.
Ends(r, new) ==
    /\ store' = new
    /\ actionLock' = FALSE
    /\ Over(r)

Check(r) ==
    /\ call[r].op = "check" /\ call[r].at = "decide"
    /\ \E d \in Decisions(call[r].manifest) : Ends(r, [store EXCEPT !.state = d])
    /\ UNCHANGED <<engine, updateLock, host, published, counters>>

\* compare_semver raises ValueError, no ChannelError, for pre-releases with a
\* common beginning and unequal lengths: a check or download ends and leaves
\* its state, an installation ends and leaves the lock taken.
Incomparable(r) ==
    /\ call[r].at = "decide" /\ call[r].manifest # None
    /\ mishaps < MaxMishaps /\ mishaps' = mishaps + 1
    /\ actionLock' = (call[r].op = "install")
    /\ Over(r)
    /\ UNCHANGED <<store, engine, updateLock, host, published, jobs, releases>>

\* The package is checked against the manifest it was downloaded for, which
\* is kept beside it.
Download(r) ==
    /\ call[r].op = "download" /\ call[r].at = "decide"
    /\ \E d \in Decisions(call[r].manifest) :
         \/ d # "available" /\ Ends(r, [store EXCEPT !.state = d])
         \/ d = "available" /\ Ends(r, [store EXCEPT !.state = "failed"])
         \/ d = "available" /\ Ends(r, [store EXCEPT !.state = "ready", !.package = call[r].manifest])
    /\ UNCHANGED <<engine, updateLock, host, published, counters>>

\* A job keeps the lock; the package is the one downloaded before, whatever
\* the manifest names now.
Install(r) ==
    /\ call[r].op = "install" /\ call[r].at = "decide"
    /\ \E d \in Decisions(call[r].manifest) :
         \/ d # "available" /\ Ends(r, [store EXCEPT !.state = d]) /\ UNCHANGED jobs
         \/ /\ d = "available" /\ jobs < MaxJobs
            /\ jobs' = jobs + 1
            /\ store' = [store EXCEPT !.state = "installing", !.job = jobs + 1, !.pending = TRUE]
            /\ Over(r) /\ UNCHANGED actionLock
    /\ UNCHANGED <<engine, updateLock, host, published, releases, mishaps>>

-----------------------------------------------------------------------------
(* The engines.  A poll tells the backend what is installed and takes the  *)
(* job, as often as it is asked, until its report is applied.              *)

Poll(e) ==
    /\ engine[e].at = "idle"
    /\ store' = [store EXCEPT !.installed = host]
    /\ engine' = IF store.pending
                 THEN [engine EXCEPT ![e] = [Resting EXCEPT !.at = "took", !.job = store.job,
                                                           !.package = store.package]]
                 ELSE engine
    /\ UNCHANGED <<actionLock, call, updateLock, host, published, counters>>

Restarted ==
    /\ store' = Fresh /\ actionLock' = FALSE
    /\ call' = [r \in Requests |-> Quiet]

Says(e, outcome) == engine' = [engine EXCEPT ![e].at = "report", ![e].outcome = outcome]

\* What the engine checks again before anything is touched: the package, its
\* manifest, and that it is no downgrade.
NoPolicy(package) == package # None
Accepts(package) == package # None /\ package >= host

\* The policy reads the installed version before the update takes its lock.
AssertPolicy(e) ==
    /\ engine[e].at = "took" /\ Accepts(engine[e].package)
    /\ engine' = [engine EXCEPT ![e].at = "checked", ![e].seen = host]
    /\ UNCHANGED <<store, actionLock, call, updateLock, host, published, counters>>

\* The policy refuses, the package does not verify or update.lock is taken.
Refuse(e) ==
    /\ engine[e].at \in {"took", "checked"}
    /\ Says(e, "rolled_back")
    /\ UNCHANGED <<store, actionLock, call, updateLock, host, published, counters>>

\* update.lock is looked for and then written: of two engines that find it free,
\* both go on.
FindFree(e) ==
    /\ engine[e].at = "checked" /\ updateLock = None
    /\ engine' = [engine EXCEPT ![e].at = "free"]
    /\ UNCHANGED <<store, actionLock, call, updateLock, host, published, counters>>

Begin(e) ==
    /\ engine[e].at = "free"
    /\ updateLock' = e
    /\ engine' = [engine EXCEPT ![e].at = "work"]
    /\ UNCHANGED <<store, actionLock, call, host, published, counters>>

\* Containers are recreated by an installation and by a rollback after the
\* files were replaced: the backend starts again either way.
Work(e) ==
    /\ engine[e].at = "work"
    /\ updateLock' = None
    /\ \/ host' = engine[e].package /\ Says(e, "installed") /\ Restarted
       \/ UNCHANGED host /\ (\E o \in {"rolled_back", "failed"} : Says(e, o)) /\ Restarted
       \/ /\ UNCHANGED <<host, store, actionLock, call>>
          /\ \E o \in {"rolled_back", "failed"} : Says(e, o)
    /\ UNCHANGED <<published, counters>>

\* apply_engine_report, under one lock.
Verdict(e) ==
    LET told == [job |-> engine[e].job, state |-> engine[e].outcome,
                 version |-> IF engine[e].outcome = "installed" THEN engine[e].package ELSE host]
    IN  CASE store.last.job = engine[e].job /\ store.last = told -> "duplicate"
          [] store.last.job = engine[e].job /\ store.last # told -> "conflict"
          [] store.last.job # engine[e].job /\ store.job = 0 -> "no active job"
          [] store.last.job # engine[e].job /\ store.job \notin {0, engine[e].job} -> "wrong job"
          [] OTHER -> "applied"

\* The lock is released only for a report that is applied.
Releases(verdict) == verdict = "applied"

Applied(e) ==
    LET done == engine[e].outcome = "installed" IN
    [store EXCEPT !.state = IF done THEN "up_to_date" ELSE "failed",
                  !.installed = IF done THEN engine[e].package ELSE @,
                  !.job = 0, !.package = None, !.pending = FALSE,
                  !.last = [job |-> engine[e].job, state |-> engine[e].outcome,
                            version |-> IF done THEN engine[e].package ELSE host]]

\* The report may be lost on its way; it is sent once.
Report(e) ==
    /\ engine[e].at = "report"
    /\ engine' = [engine EXCEPT ![e] = Resting]
    /\ \/ UNCHANGED <<store, actionLock>>
       \/ /\ store' = IF Verdict(e) = "applied" THEN Applied(e) ELSE store
          /\ actionLock' = IF Releases(Verdict(e)) THEN FALSE ELSE actionLock
    /\ UNCHANGED <<call, updateLock, host, published, counters>>

-----------------------------------------------------------------------------
(* The world: releases are published or taken back, the backend restarts.  *)

Publish ==
    /\ releases < MaxReleases /\ releases' = releases + 1
    /\ published' \in Versions \ {published}
    /\ UNCHANGED <<store, actionLock, call, engine, updateLock, host, jobs, mishaps>>

Restart ==
    /\ mishaps < MaxMishaps /\ mishaps' = mishaps + 1
    /\ Restarted
    /\ UNCHANGED <<engine, updateLock, host, published, jobs, releases>>

Request(r) ==
    \/ AskDownload(r) \/ AskInstall(r) \/ AskCheck(r) \/ EngineCheck(r)
    \/ BeginDownload(r) \/ BeginInstall(r) \/ Busy(r) \/ Audit(r)
    \/ Fetch(r) \/ Incomparable(r) \/ Check(r) \/ Download(r) \/ Install(r)
Engine(e) == Poll(e) \/ AssertPolicy(e) \/ Refuse(e) \/ FindFree(e) \/ Begin(e) \/ Work(e) \/ Report(e)

UpdateChannelNext ==
    (\E r \in Requests : Request(r)) \/ (\E e \in Engines : Engine(e)) \/ Publish \/ Restart

UpdateChannelSpec == UpdateChannelInit /\ [][UpdateChannelNext]_vars

-----------------------------------------------------------------------------
\* The host goes back to an older version only when another engine installed
\* a newer one after the policy was checked, before the lock was written or beside it:
\* never because a restarted backend takes every release for a newer one, a
\* release is taken back or a job is carried out twice.
GoesBackOnlyUnseen ==
    [][host' < host => \E e \in Engines : engine[e].at = "work" /\ engine[e].seen # host]_vars

\* Refuted: an installation is requested only of a downloaded package.  READY
\* is read before the lock is taken.
JobHasAPackage == store.job # 0 => store.package # None

\* Refuted: the policy has "downgrade запрещён" without that exception.
HostNeverGoesBack == [][host' >= host]_vars
=============================================================================
