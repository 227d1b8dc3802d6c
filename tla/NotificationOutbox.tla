-------------------------- MODULE NotificationOutbox --------------------------
(***************************************************************************)
(* The notification outbox of HR-Manager and the workers that drain it:    *)
(* backend/app/worker.py, with the writers of the outbox table in          *)
(* notification_service.py, document_rules.py, routers/document_rules.py   *)
(* and routers/ops.py.                                                     *)
(*                                                                         *)
(* A row is one queued message.  A worker claims due rows under a lease,   *)
(* commits, and processes them one by one, every database transaction      *)
(* being one atomic step here (PostgreSQL row locks serialise them).  What *)
(* is not protected by a transaction is spread over several steps: the     *)
(* batch a worker keeps in memory, the provider call, the two halves of an *)
(* administrator's cancel.                                                 *)
(*                                                                         *)
(* Time is abstracted to what the code compares: a lease is live or has    *)
(* expired, a queued row is due or not yet.                                *)
(***************************************************************************)
EXTENDS Naturals, FiniteSets

CONSTANTS
    Rows,          \* outbox rows that may ever exist
    Workers,       \* worker processes
    Kind,          \* the kind of each row, see Kinds
    ObjectOf,      \* the event, reminder or rule a row was planned for
    AdminRows,     \* rows an administrator may cancel or retry
    MaxAttempts,   \* settings.worker_max_attempts
    BatchSize,     \* settings.worker_batch_size
    MaxDeferrals,  \* bound: quiet-hours postponements of one row
    MaxCrashes,    \* bound: worker crashes in a behaviour
    MaxDbErrors,   \* bound: exceptions out of a row's processing
    NoRow,
    NoWorker

\* in_app: a notification-centre row.  external: e-mail or telegram of a user
\* or candidate.  document: an external message queued by a personal document
\* rule.  rule_job: the execution of such a rule.
Kinds == {"in_app", "external", "document", "rule_job"}

ASSUME KindAssumption == Kind \in [Rows -> Kinds]
ASSUME BoundAssumption ==
    /\ MaxAttempts \in Nat \ {0}
    /\ BatchSize \in Nat \ {0}
    /\ MaxDeferrals \in Nat /\ MaxCrashes \in Nat /\ MaxDbErrors \in Nat
ASSUME FiniteAssumption == IsFiniteSet(Workers)
ASSUME NullAssumption == NoRow \notin Rows /\ NoWorker \notin Workers
ASSUME AdminAssumption == AdminRows \subseteq Rows

Objects == {ObjectOf[r] : r \in Rows}

VARIABLES
    \* columns of notification_outbox
    status, attempts, lease, due,
    \* the rows' effects: commits made with the row (in-app notification or
    \* rule execution), messages a provider accepted, pilots alerted
    effects, taken, alerted,
    \* the workers
    pc, batch, cur, outcome, sendLock,
    \* an administrator's cancel between its read and its write
    cancelRead,
    \* history: attempts cut short (lease expired, internal error), rows whose
    \* plan was withdrawn, and the counters behind the bounds
    interrupted, withdrawn, deferrals, crashes, dbErrors

columns  == <<status, attempts, lease, due>>
results  == <<effects, taken, alerted>>
workers  == <<pc, batch, cur, outcome, sendLock>>
history  == <<interrupted, withdrawn, deferrals, crashes, dbErrors>>
vars     == <<columns, results, workers, cancelRead, history>>

Statuses == {"absent", "queued", "sending", "delivered", "accepted",
             "failed", "skipped", "cancelled"}
Terminal == {"delivered", "accepted", "failed", "skipped", "cancelled"}
Outcomes == {"none", "accepted", "temp_error", "perm_error"}

\* Where a worker is: the steps of a pass, then those of one row.
Pass     == {"recover", "claim", "scan", "batch"}
Locked   == {"phaseA", "phaseB0", "call", "phaseC"}
Steps    == Pass \cup Locked \cup {"process", "acquire", "ruleLock", "fail"}

TypeOK ==
    /\ status \in [Rows -> Statuses]
    /\ attempts \in [Rows -> Nat]
    /\ lease \in [Rows -> {"none", "live", "expired"}]
    /\ due \in [Rows -> BOOLEAN]
    /\ effects \in [Rows -> Nat]
    /\ taken \in [Rows -> Nat]
    /\ alerted \subseteq Rows
    /\ pc \in [Workers -> Steps]
    /\ batch \in [Workers -> SUBSET Rows]
    /\ cur \in [Workers -> Rows \cup {NoRow}]
    /\ \A w \in Workers : pc[w] \in Pass <=> cur[w] = NoRow
    /\ outcome \in [Workers -> Outcomes]
    /\ sendLock \in [Rows -> Workers \cup {NoWorker}]
    /\ cancelRead \in [AdminRows -> {"none", "queued", "sending"}]
    /\ interrupted \in [Rows -> Nat]
    /\ withdrawn \subseteq Rows
    /\ deferrals \in [Rows -> Nat]
    /\ crashes \in Nat
    /\ dbErrors \in Nat

Init ==
    /\ status = [r \in Rows |-> "absent"]
    /\ attempts = [r \in Rows |-> 0]
    /\ lease = [r \in Rows |-> "none"]
    /\ due = [r \in Rows |-> FALSE]
    /\ effects = [r \in Rows |-> 0]
    /\ taken = [r \in Rows |-> 0]
    /\ alerted = {}
    /\ pc = [w \in Workers |-> "recover"]
    /\ batch = [w \in Workers |-> {}]
    /\ cur = [w \in Workers |-> NoRow]
    /\ outcome = [w \in Workers |-> "none"]
    /\ sendLock = [r \in Rows |-> NoWorker]
    /\ cancelRead = [r \in AdminRows |-> "none"]
    /\ interrupted = [r \in Rows |-> 0]
    /\ withdrawn = {}
    /\ deferrals = [r \in Rows |-> 0]
    /\ crashes = 0
    /\ dbErrors = 0

\* What the steps below test and write.  Next to a definition, one called
\* Forgot... or Late... is the same with one plausible mistake: every property
\* is checked to notice one of them.

\* Every transaction of a worker re-reads the row under its lock.
ForgotRecheck(w) == TRUE
StillSending(w) == status[cur[w]] = "sending"

\* The attempt being counted is the last one allowed.
LateSpent(r) == attempts[r] >= MaxAttempts
Spent(r) == attempts[r] + 1 >= MaxAttempts

\* The provider's verdict a worker brings to phase C.
ForgotSuccess(w) == FALSE
Accepted(w) == outcome[w] = "accepted"

\* pg_try_advisory_lock on "outbox-send:<id>" succeeds.
ForgotTryLock(r) == TRUE
SendLockFree(r) == sendLock[r] = NoWorker

ForgotLease(r) == UNCHANGED lease
DropLease(r) == lease' = [lease EXCEPT ![r] = "none"]

\* document_rules.execution: the immutable record of a rule job, for those rows
\* of S that are one.
RecordExecution(S) ==
    effects' = [r \in Rows |-> IF r \in S /\ Kind[r] = "rule_job"
                               THEN effects[r] + 1 ELSE effects[r]]

\* deliver_in_app: at most one notification per idempotency key.
ForgotDeliver(r) == UNCHANGED effects
DeliverInApp(r) == effects' = [effects EXCEPT ![r] = IF @ > 0 THEN @ ELSE 1]

\* Sending rows whose lease has run out.
ForgotStale == {}
Stale == {r \in Rows : status[r] = "sending" /\ lease[r] = "expired"}

\* The row a worker turns to.
Take(w, r) == cur' = [cur EXCEPT ![w] = r]

\* The advisory lock "document-rule:<id>", taken after the row's send lock.
ForgotRuleLock(w, o) == FALSE
HoldsRule(w, o) ==
    /\ pc[w] \in Locked
    /\ cur[w] \in Rows
    /\ Kind[cur[w]] = "document"
    /\ ObjectOf[cur[w]] = o

-----------------------------------------------------------------------------
\* Writers of the outbox other than the workers.

\* notification_service.schedule: INSERT a queued row.  The unique idempotency
\* key is the row's identity, so a second call for it is a no-op.
Schedule(r) ==
    /\ status[r] = "absent"
    /\ status' = [status EXCEPT ![r] = "queued"]
    /\ due' \in {[due EXCEPT ![r] = b] : b \in BOOLEAN}
    /\ UNCHANGED <<attempts, lease, results, workers, cancelRead, history>>

\* cancel_pending_for_object: queued rows of an event or reminder that was
\* moved, completed or cancelled.  Rows already sending are left alone.
CancelPendingForObject(o) ==
    LET planned == {r \in Rows : /\ ObjectOf[r] = o
                                 /\ Kind[r] \in {"in_app", "external"}
                                 /\ status[r] # "absent"}
    IN  /\ planned # {}
        /\ status' = [r \in Rows |->
                        IF r \in planned /\ status[r] = "queued"
                        THEN "cancelled" ELSE status[r]]
        /\ withdrawn' = withdrawn \cup planned
        /\ UNCHANGED <<attempts, lease, due, results, workers, cancelRead,
                       interrupted, deferrals, crashes, dbErrors>>

\* routers/document_rules.update_rule: under the rule's advisory lock, which a
\* worker holds while it sends one of the rule's messages, cancel the rule's
\* queued and sending rows.
UpdateRule(o) ==
    LET planned == {r \in Rows : /\ ObjectOf[r] = o
                                 /\ Kind[r] \in {"document", "rule_job"}
                                 /\ status[r] # "absent"}
        open    == {r \in planned : status[r] \in {"queued", "sending"}}
    IN  /\ planned # {}
        /\ \A w \in Workers : ~HoldsRule(w, o)
        /\ status' = [r \in Rows |->
                        IF r \in open THEN "cancelled" ELSE status[r]]
        /\ lease' = [r \in Rows |-> IF r \in open THEN "none" ELSE lease[r]]
        /\ RecordExecution(open)
        /\ withdrawn' = withdrawn \cup planned
        /\ UNCHANGED <<attempts, due, taken, alerted, workers, cancelRead,
                       interrupted, deferrals, crashes, dbErrors>>

\* ops.cancel_notification reads the row without locking it ...
AdminReadForCancel(r) ==
    /\ r \in AdminRows
    /\ Kind[r] \notin {"document", "rule_job"}
    /\ cancelRead[r] = "none"
    /\ status[r] \in {"queued", "sending"}
    /\ cancelRead' = [cancelRead EXCEPT ![r] = status[r]]
    /\ UNCHANGED <<columns, results, workers, history>>

\* ... and writes it later, changing only the columns it saw as different: a
\* lease that appeared since a "queued" read stays, and the table's
\* status/lease CHECK then rejects the UPDATE.
AdminWriteCancel(r) ==
    /\ r \in AdminRows
    /\ cancelRead[r] # "none"
    /\ cancelRead' = [cancelRead EXCEPT ![r] = "none"]
    /\ IF cancelRead[r] = "queued" /\ lease[r] # "none"
       THEN UNCHANGED columns
       ELSE /\ status' = [status EXCEPT ![r] = "cancelled"]
            /\ lease' = [lease EXCEPT ![r] = "none"]
            /\ UNCHANGED <<attempts, due>>
    /\ UNCHANGED <<results, workers, history>>

\* ops.retry_notification: a finished row is never edited, a new one is queued
\* with the same snapshot, due now.
AdminRetry(r, new) ==
    /\ r \in AdminRows
    /\ Kind[r] \notin {"document", "rule_job"}
    /\ status[r] \in {"failed", "skipped", "cancelled"}
    /\ status[new] = "absent"
    /\ Kind[new] = Kind[r] /\ ObjectOf[new] = ObjectOf[r]
    /\ status' = [status EXCEPT ![new] = "queued"]
    /\ due' = [due EXCEPT ![new] = TRUE]
    /\ UNCHANGED <<attempts, lease, results, workers, cancelRead, history>>

-----------------------------------------------------------------------------
\* Time passing.

LeaseLapses(r) ==
    /\ lease[r] = "live"
    /\ lease' = [lease EXCEPT ![r] = "expired"]
    /\ UNCHANGED <<status, attempts, due, results, workers, cancelRead, history>>

BecomesDue(r) ==
    /\ status[r] = "queued"
    /\ ~due[r]
    /\ due' = [due EXCEPT ![r] = TRUE]
    /\ UNCHANGED <<status, attempts, lease, results, workers, cancelRead, history>>

-----------------------------------------------------------------------------
\* A worker's pass: recover, claim, scan, then the claimed rows one by one.

Goto(w, step) == pc' = [pc EXCEPT ![w] = step]

\* Rows another worker holds in a row transaction: SKIP LOCKED may skip them.
LockedByOthers(w) ==
    {cur[v] : v \in {u \in Workers \ {w} :
                        pc[u] \in {"process", "phaseA", "phaseC", "fail"}}}

\* The interrupted attempt is counted and recorded.  A row out of attempts
\* fails, a rule job with its execution record; no pilot alert is raised here.
Requeue(S) ==
    /\ status' = [r \in Rows |-> IF r \notin S THEN status[r]
                                 ELSE IF Spent(r) THEN "failed" ELSE "queued"]
    /\ attempts' = [r \in Rows |-> IF r \in S THEN attempts[r] + 1 ELSE attempts[r]]
    /\ lease' = [r \in Rows |-> IF r \in S THEN "none" ELSE lease[r]]
    /\ due' = [r \in Rows |-> IF r \in S THEN ~Spent(r) ELSE due[r]]
    /\ RecordExecution({r \in S : Spent(r)})
    /\ interrupted' = [r \in Rows |-> IF r \in S THEN interrupted[r] + 1 ELSE interrupted[r]]

RecoverStaleLeases(w) ==
    /\ pc[w] = "recover"
    /\ \E S \in SUBSET Stale : Stale \ LockedByOthers(w) \subseteq S /\ Requeue(S)
    /\ Goto(w, "claim")
    /\ UNCHANGED <<taken, alerted, batch, cur, outcome, sendLock, cancelRead,
                   withdrawn, deferrals, crashes, dbErrors>>

\* claim_batch: up to BatchSize due rows become "sending" under one lease and
\* are remembered by the worker.
ClaimBatch(w) ==
    /\ pc[w] = "claim"
    /\ LET ready == {r \in Rows : status[r] = "queued" /\ due[r]}
       IN  \E S \in SUBSET ready :
            /\ Cardinality(S) <= BatchSize
            /\ S = {} => ready \subseteq LockedByOthers(w)
            /\ status' = [r \in Rows |-> IF r \in S THEN "sending" ELSE status[r]]
            /\ lease' = [r \in Rows |-> IF r \in S THEN "live" ELSE lease[r]]
            /\ batch' = [batch EXCEPT ![w] = S]
    /\ Goto(w, "scan")
    /\ UNCHANGED <<attempts, due, results, cur, outcome, sendLock, cancelRead, history>>

\* scan_document_rules and scan_due_reminders share the pass's try block: an
\* exception there forgets the rows just claimed.
ScanRulesAndReminders(w) ==
    /\ pc[w] = "scan"
    /\ \/ Goto(w, "batch") /\ UNCHANGED <<batch, dbErrors>>
       \/ /\ dbErrors < MaxDbErrors
          /\ dbErrors' = dbErrors + 1
          /\ batch' = [batch EXCEPT ![w] = {}]
          /\ Goto(w, "recover")
    /\ UNCHANGED <<columns, results, cur, outcome, sendLock, cancelRead,
                   interrupted, withdrawn, deferrals, crashes>>

\* The loop over the claimed rows: take the next one, or start a new pass.
NextRow(w) ==
    /\ pc[w] = "batch"
    /\ \/ /\ batch[w] = {}
          /\ Goto(w, "recover")
          /\ UNCHANGED <<batch, cur>>
       \/ \E r \in batch[w] :
            /\ batch' = [batch EXCEPT ![w] = @ \ {r}]
            /\ Take(w, r)
            /\ Goto(w, "process")
    /\ UNCHANGED <<columns, results, outcome, sendLock, cancelRead, history>>

\* Done with the current row: its send lock is released (_release_send_locks).
Finish(w) ==
    /\ Goto(w, "batch")
    /\ cur' = [cur EXCEPT ![w] = NoRow]
    /\ outcome' = [outcome EXCEPT ![w] = "none"]
    /\ sendLock' = [r \in Rows |-> IF sendLock[r] = w THEN NoWorker ELSE sendLock[r]]
    /\ UNCHANGED batch

-----------------------------------------------------------------------------
\* process_row, in one transaction under the row's lock.

\* The row is no longer sending: an earlier decision stands.
ProcessSettled(w) ==
    /\ pc[w] = "process"
    /\ ~StillSending(w)
    /\ Finish(w)
    /\ UNCHANGED <<columns, results, cancelRead, history>>

\* Back to the queue until the end of the quiet hours.
Postpone(r) ==
    /\ deferrals[r] < MaxDeferrals
    /\ deferrals' = [deferrals EXCEPT ![r] = @ + 1]
    /\ status' = [status EXCEPT ![r] = "queued"]
    /\ DropLease(r)
    /\ due' = [due EXCEPT ![r] = FALSE]

ProcessQuietHours(w) ==
    /\ pc[w] = "process"
    /\ StillSending(w)
    /\ Postpone(cur[w])
    /\ Finish(w)
    /\ UNCHANGED <<attempts, results, cancelRead, interrupted, withdrawn,
                   crashes, dbErrors>>

\* An in-app row or a rule job is done within the transaction.  deliver_in_app
\* creates at most one notification per idempotency key; perform_job inserts
\* the execution record.
ProcessLocally(w) ==
    LET r == cur[w]
    IN  /\ pc[w] = "process"
        /\ StillSending(w)
        /\ Kind[r] \in {"in_app", "rule_job"}
        /\ IF Kind[r] = "in_app" THEN DeliverInApp(r) ELSE RecordExecution({r})
        /\ status' = [status EXCEPT ![r] = "delivered"]
        /\ attempts' = [attempts EXCEPT ![r] = @ + 1]
        /\ DropLease(r)
        /\ Finish(w)
        /\ UNCHANGED <<due, taken, alerted, cancelRead, history>>

\* An external row leaves the transaction before any network call.
ProcessExternal(w) ==
    /\ pc[w] = "process"
    /\ StillSending(w)
    /\ Kind[cur[w]] \in {"external", "document"}
    /\ Goto(w, "acquire")
    /\ UNCHANGED <<columns, results, batch, cur, outcome, sendLock, cancelRead, history>>

-----------------------------------------------------------------------------
\* process_external_row: two locks and the phases A, B0, B and C.

\* _acquire_send_locks tries the row's lock; if another worker has it the row
\* is left as it is, to be recovered when its lease expires.
AcquireBusy(w) ==
    /\ pc[w] = "acquire"
    /\ ~SendLockFree(cur[w])
    /\ Finish(w)
    /\ UNCHANGED <<columns, results, cancelRead, history>>

AcquireSendLock(w) ==
    /\ pc[w] = "acquire"
    /\ SendLockFree(cur[w])
    /\ sendLock' = [sendLock EXCEPT ![cur[w]] = w]
    /\ Goto(w, IF Kind[cur[w]] = "document" THEN "ruleLock" ELSE "phaseA")
    /\ UNCHANGED <<columns, results, batch, cur, outcome, cancelRead, history>>

\* ... then waits for the rule's lock.
AcquireRuleLock(w) ==
    /\ pc[w] = "ruleLock"
    /\ \A v \in Workers : ~HoldsRule(v, ObjectOf[cur[w]])
    /\ Goto(w, "phaseA")
    /\ UNCHANGED <<columns, results, batch, cur, outcome, sendLock, cancelRead, history>>

\* Phase A: re-lock, give up unless still sending, renew the lease, commit.
PhaseASettled(w) ==
    /\ pc[w] = "phaseA"
    /\ ~StillSending(w)
    /\ Finish(w)
    /\ UNCHANGED <<columns, results, cancelRead, history>>

PhaseA(w) ==
    /\ pc[w] = "phaseA"
    /\ StillSending(w)
    /\ lease' = [lease EXCEPT ![cur[w]] = "live"]
    /\ Goto(w, "phaseB0")
    /\ UNCHANGED <<status, attempts, due, results, batch, cur, outcome,
                   sendLock, cancelRead, history>>

\* _finalize_external_skip, from phase A or B0: the target no longer resolves
\* (no binding, consent, address, candidate ...).  It re-locks the row and
\* leaves a row that is not sending alone.
FinalizeSkip(w) ==
    LET r == cur[w]
    IN  /\ pc[w] \in {"phaseA", "phaseB0"}
        /\ pc[w] = "phaseA" => StillSending(w)
        /\ IF StillSending(w)
           THEN /\ status' = [status EXCEPT ![r] = "skipped"]
                /\ attempts' = [attempts EXCEPT ![r] = @ + 1]
                /\ DropLease(r)
                /\ UNCHANGED due
           ELSE UNCHANGED columns
        /\ Finish(w)
        /\ UNCHANGED <<results, cancelRead, history>>

\* Phase B0 of a rule's document: outside its send time the row goes back to
\* the queue, from a read that neither locks it nor looks at its status.
PhaseB0Postpone(w) ==
    /\ pc[w] = "phaseB0"
    /\ Kind[cur[w]] = "document"
    /\ Postpone(cur[w])
    /\ Finish(w)
    /\ UNCHANGED <<attempts, results, cancelRead, interrupted, withdrawn,
                   crashes, dbErrors>>

PhaseB0(w) ==
    /\ pc[w] = "phaseB0"
    /\ Goto(w, "call")
    /\ UNCHANGED <<columns, results, batch, cur, outcome, sendLock, cancelRead, history>>

\* Phase B: the provider call, with no transaction open.
ProviderCall(w) ==
    /\ pc[w] = "call"
    /\ \E result \in Outcomes \ {"none"} :
        /\ outcome' = [outcome EXCEPT ![w] = result]
        /\ taken' = [taken EXCEPT ![cur[w]] =
                        IF result = "accepted" THEN @ + 1 ELSE @]
    /\ Goto(w, "phaseC")
    /\ UNCHANGED <<columns, effects, alerted, batch, cur, sendLock, cancelRead, history>>

\* Phase C: re-lock and record the provider's verdict on a sending row.
PhaseCSettled(w) ==
    /\ pc[w] = "phaseC"
    /\ ~StillSending(w)
    /\ Finish(w)
    /\ UNCHANGED <<columns, results, cancelRead, history>>

PhaseCAccepted(w) ==
    LET r == cur[w]
    IN  /\ pc[w] = "phaseC"
        /\ StillSending(w)
        /\ Accepted(w)
        /\ status' = [status EXCEPT ![r] = "accepted"]
        /\ attempts' = [attempts EXCEPT ![r] = @ + 1]
        /\ DropLease(r)
        /\ Finish(w)
        /\ UNCHANGED <<due, results, cancelRead, history>>

\* A failed attempt ends the row, with an alert to the pilot user, or sends it
\* back to the queue to wait for its backoff.
FailedAttempt(r, final) ==
    /\ attempts' = [attempts EXCEPT ![r] = @ + 1]
    /\ DropLease(r)
    /\ due' = [due EXCEPT ![r] = FALSE]
    /\ status' = [status EXCEPT ![r] = IF final THEN "failed" ELSE "queued"]
    /\ alerted' = IF final THEN alerted \cup {r} ELSE alerted

PhaseCFailed(w) ==
    LET r == cur[w]
    IN  /\ pc[w] = "phaseC"
        /\ StillSending(w)
        /\ ~Accepted(w)
        /\ FailedAttempt(r, outcome[w] = "perm_error" \/ Spent(r))
        /\ Finish(w)
        /\ UNCHANGED <<effects, taken, cancelRead, history>>

-----------------------------------------------------------------------------
\* Failures.

\* An exception while processing a row: the transaction rolls back and the
\* send locks are released on the way out ...
InternalError(w) ==
    /\ dbErrors < MaxDbErrors
    /\ \/ pc[w] \in {"acquire", "ruleLock", "phaseA", "phaseB0", "phaseC"}
       \/ pc[w] = "process" /\ StillSending(w)
    /\ Goto(w, "fail")
    /\ outcome' = [outcome EXCEPT ![w] = "none"]
    /\ sendLock' = [r \in Rows |-> IF sendLock[r] = w THEN NoWorker ELSE sendLock[r]]
    /\ dbErrors' = dbErrors + 1
    /\ UNCHANGED <<columns, results, batch, cur, cancelRead,
                   interrupted, withdrawn, deferrals, crashes>>

\* ... and _record_failure then counts the attempt in a new transaction.
RecordFailure(w) ==
    LET r == cur[w]
    IN  /\ pc[w] = "fail"
        /\ IF StillSending(w)
           THEN /\ FailedAttempt(r, Spent(r))
                /\ RecordExecution(IF Spent(r) THEN {r} ELSE {})
                /\ interrupted' = [interrupted EXCEPT ![r] = @ + 1]
           ELSE UNCHANGED <<columns, effects, alerted, interrupted>>
        /\ Finish(w)
        /\ UNCHANGED <<taken, cancelRead, withdrawn, deferrals, crashes, dbErrors>>

\* A worker process dies, losing its batch and its connection's locks, and is
\* started again by its supervisor.
Crash(w) ==
    /\ crashes < MaxCrashes
    /\ crashes' = crashes + 1
    /\ Goto(w, "recover")
    /\ batch' = [batch EXCEPT ![w] = {}]
    /\ cur' = [cur EXCEPT ![w] = NoRow]
    /\ outcome' = [outcome EXCEPT ![w] = "none"]
    /\ sendLock' = [r \in Rows |-> IF sendLock[r] = w THEN NoWorker ELSE sendLock[r]]
    /\ UNCHANGED <<columns, results, cancelRead, interrupted, withdrawn,
                   deferrals, dbErrors>>

-----------------------------------------------------------------------------
ProcessRow(w) ==
    ProcessSettled(w) \/ ProcessQuietHours(w) \/ ProcessLocally(w) \/ ProcessExternal(w)

ProcessExternalRow(w) ==
    \/ AcquireBusy(w) \/ AcquireSendLock(w) \/ AcquireRuleLock(w)
    \/ PhaseASettled(w) \/ PhaseA(w) \/ FinalizeSkip(w)
    \/ PhaseB0Postpone(w) \/ PhaseB0(w) \/ ProviderCall(w)
    \/ PhaseCSettled(w) \/ PhaseCAccepted(w) \/ PhaseCFailed(w)

\* run_worker, without its failures.
WorkerStep(w) ==
    \/ RecoverStaleLeases(w) \/ ClaimBatch(w) \/ ScanRulesAndReminders(w)
    \/ NextRow(w) \/ ProcessRow(w) \/ ProcessExternalRow(w) \/ RecordFailure(w)

Failure(w) == InternalError(w) \/ Crash(w)

Time(r) == LeaseLapses(r) \/ BecomesDue(r)

Request ==
    \/ \E r \in Rows : Schedule(r) \/ AdminReadForCancel(r) \/ AdminWriteCancel(r)
    \/ \E r, new \in Rows : AdminRetry(r, new)
    \/ \E o \in Objects : CancelPendingForObject(o) \/ UpdateRule(o)

Next ==
    \/ Request
    \/ \E r \in Rows : Time(r)
    \/ \E w \in Workers : WorkerStep(w) \/ Failure(w)

\* The worker loop never stops for long (its container is restarted), and
\* clocks advance; nothing obliges users, administrators or failures to act.
Fairness ==
    /\ \A w \in Workers : WF_vars(WorkerStep(w))
    /\ \A r \in Rows : WF_vars(LeaseLapses(r)) /\ WF_vars(BecomesDue(r))

Spec     == Init /\ [][Next]_vars
FairSpec == Spec /\ Fairness

-----------------------------------------------------------------------------
(* Safety.                                                                 *)

\* The table's CHECK constraint as an invariant of the code: a lease exactly on
\* the sending rows.  A write that broke it would be rejected and abort the
\* handler's whole transaction.
LeaseMatchesStatus ==
    \A r \in Rows : status[r] = "sending" <=> lease[r] # "none"

\* Retries are bounded, and a row in the queue always has an attempt left,
\* whichever mix of crashes, exceptions and provider errors it met.
AttemptsBounded ==
    \A r \in Rows : Kind[r] # "document" =>
        /\ status[r] = "absent" => attempts[r] = 0
        /\ attempts[r] <= MaxAttempts
        /\ status[r] \in {"queued", "sending"} => attempts[r] < MaxAttempts

\* process_external_row: "parallel workers can never send the same row" at
\* the same time, although a stale claim lets two of them process it.
OneSenderPerRow ==
    \A v, w \in Workers :
        pc[v] \in Locked /\ pc[w] \in Locked /\ cur[v] = cur[w] => v = w

\* Why OneSenderPerRow holds: whoever is past "acquire" has the row's lock.
SendersHoldLock ==
    \A w \in Workers : pc[w] \in Locked \cup {"ruleLock"} => sendLock[cur[w]] = w

\* A provider takes a row's message again only when an attempt was cut short:
\* each extra copy is accounted for by an expired lease or an exception.
DuplicatesExplained ==
    \A r \in Rows : taken[r] <= 1 + interrupted[r]

\* Why DuplicatesExplained holds.  Each worker that may still hand a row over
\* was let in by a claim, and a second claim by an interruption: a copy takes
\* the place of such a worker, and a row that waits for its claim has one place
\* less taken.
MayHandOver(w, r) ==
    \/ r \in batch[w]
    \/ /\ cur[w] = r
       /\ \/ pc[w] \in {"process", "acquire", "ruleLock", "phaseA", "phaseB0", "call"}
          \/ pc[w] = "phaseC" /\ ~Accepted(w)

MaySend(r) == {w \in Workers : MayHandOver(w, r)}

Waiting(r) == status[r] \in {"absent", "queued"}

Balanced(r) ==
    taken[r] + Cardinality(MaySend(r)) <= interrupted[r] + IF Waiting(r) THEN 0 ELSE 1

CopiesAccounted == \A r \in Rows : Balanced(r)

\* Every finished rule job has exactly one execution record, and no other row
\* has one (a second INSERT would abort on the unique key, for ever).
RuleJobRecordedOnce ==
    \A r \in Rows : Kind[r] = "rule_job" =>
        effects[r] = IF status[r] \in Terminal THEN 1 ELSE 0

\* update_rule: a disabled or edited rule has no message on its way, and none
\* of its rows of that version is ever sent afterwards.
RuleUpdateStops ==
    \A r \in withdrawn : Kind[r] \in {"document", "rule_job"} =>
        /\ status[r] \in Terminal
        /\ \A w \in Workers : cur[w] = r => pc[w] \notin {"phaseB0", "call", "phaseC"}

\* What a rule does is on record once, and what it was told to stop has stopped.
RulesAreObeyed == RuleJobRecordedOnce /\ RuleUpdateStops

\* A finished row stays as it is; only an administrator's cancel that read it
\* before it finished can still mark it cancelled.
FinishedStaysFinished ==
    [][\A r \in Rows : Kind[r] # "document" /\ status[r] \in Terminal =>
         \/ status'[r] = status[r]
         \/ r \in AdminRows /\ cancelRead[r] # "none" /\ status'[r] = "cancelled"]_vars

(* Liveness.                                                               *)

\* "A crashed worker never loses a job": every scheduled row is finished.
EveryRowSettles ==
    \A r \in Rows : status[r] # "absent" ~> status[r] \in Terminal

-----------------------------------------------------------------------------
(* Refinement.  A row is pending while queued or sending; its delivery is  *)
(* open from the commit of phase A to the end of the provider call.        *)

fateOf == [r \in Rows |->
    CASE status[r] = "absent" -> "absent"
      [] status[r] \in {"queued", "sending"} -> "pending"
      [] status[r] \in {"delivered", "accepted"} -> "reached"
      [] status[r] = "cancelled" -> "withdrawn"
      [] status[r] \in {"failed", "skipped"} -> "failed"]

openOf == [r \in Rows |->
    \E w \in Workers : cur[w] = r /\ pc[w] \in {"phaseB0", "call"}]

\* An execution record counts as a copy only when the rule's action was done.
copiesOf == [r \in Rows |->
    IF Kind[r] \in {"external", "document"} THEN taken[r]
    ELSE IF Kind[r] = "in_app" THEN effects[r]
    ELSE IF status[r] = "delivered" THEN 1 ELSE 0]

Promise == INSTANCE DeliveryPromise WITH
    Messages   <- Rows,
    Revocable  <- AdminRows,
    Reopenable <- {r \in Rows : Kind[r] = "document"},
    fate <- fateOf, open <- openOf, copies <- copiesOf

\* The outbox and its workers keep the promise of DeliveryPromise.
KeepsPromise == Promise!Spec

-----------------------------------------------------------------------------
(* Statements of the code base that the code does not keep.                *)

\* worker.py: "any number of worker instances may run in parallel without
\* double delivery".
NoDoubleDelivery == \A r \in Rows : taken[r] <= 1

\* ops.cancel_notification: "delivered jobs cannot be un-delivered".
DeliveredStaysDelivered ==
    [][\A r \in Rows : status[r] \in {"delivered", "accepted"} =>
         status'[r] = status[r]]_vars

\* cancel_pending_for_object: "the stale plan must never fire".
StalePlanNeverFires ==
    [][\A r \in withdrawn : status[r] = "queued" => status'[r] # "sending"]_vars

\* _alert_pilot_on_terminal_failure: a terminal queue failure surfaces to the
\* pilot user.
FailureSurfaces == \A r \in Rows : status[r] = "failed" => r \in alerted

\* cancel_candidate_message: "terminal statuses are immutable".
TerminalImmutable ==
    [][\A r \in Rows : status[r] \in Terminal => status'[r] \in Terminal]_vars
=============================================================================
