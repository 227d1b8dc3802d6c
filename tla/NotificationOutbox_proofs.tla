----------------------- MODULE NotificationOutbox_proofs -----------------------
(***************************************************************************)
(* Theorems about NotificationOutbox, for every number of rows, workers    *)
(* and attempts, among them that it implements DeliveryPromise; and about  *)
(* the messages by hand that MCSending puts beside it.                     *)
(***************************************************************************)
EXTENDS MCSending, Sequences, FiniteSetTheorems, TLAPS

USE DEF columns, results, workers, history, vars

\* document_rules.execution leaves every row with a count of records.
LEMMA ExecutionType ==
    ASSUME TypeOK, NEW S, RecordExecution(S)
    PROVE  effects' \in [Rows -> Nat]
  BY DEF TypeOK, RecordExecution

\* A failed attempt, final or not, keeps the columns' types.
LEMMA FailedAttemptType ==
    ASSUME TypeOK, NEW r \in Rows, NEW final \in BOOLEAN, FailedAttempt(r, final)
    PROVE  /\ status' \in [Rows -> Statuses]
           /\ attempts' \in [Rows -> Nat]
           /\ lease' \in [Rows -> {"none", "live", "expired"}]
           /\ due' \in [Rows -> BOOLEAN]
           /\ alerted' \subseteq Rows
  BY DEF TypeOK, FailedAttempt, DropLease, Statuses

\* Type correctness, with the fact that a worker is at a row exactly when it is
\* inside process_row (worker.py).
THEOREM TypeCorrect == Spec => []TypeOK
<1>1. Init => TypeOK
  BY NullAssumption DEF Init, TypeOK, Statuses, Steps, Pass, Outcomes
<1>2. TypeOK /\ [Next]_vars => TypeOK'
  <2> SUFFICES ASSUME TypeOK, [Next]_vars
               PROVE  TypeOK'
    OBVIOUS
  <2> USE NullAssumption, KindAssumption, BoundAssumption, AdminAssumption DEF TypeOK
  <2>1. ASSUME NEW r \in Rows, Schedule(r)
        PROVE  TypeOK'
    BY <2>1 DEF Schedule, Statuses
  <2>2. ASSUME NEW r \in Rows, AdminReadForCancel(r)
        PROVE  TypeOK'
    BY <2>2 DEF AdminReadForCancel
  <2>3. ASSUME NEW r \in Rows, AdminWriteCancel(r)
        PROVE  TypeOK'
    BY <2>3 DEF AdminWriteCancel, Statuses
  <2>4. ASSUME NEW r \in Rows, NEW new \in Rows, AdminRetry(r, new)
        PROVE  TypeOK'
    BY <2>4 DEF AdminRetry, Statuses
  <2>5. ASSUME NEW o \in Objects, CancelPendingForObject(o)
        PROVE  TypeOK'
    BY <2>5 DEF CancelPendingForObject, Statuses
  <2>6. ASSUME NEW o \in Objects, UpdateRule(o)
        PROVE  TypeOK'
    BY <2>6 DEF UpdateRule, RecordExecution, Statuses
  <2>7. ASSUME NEW r \in Rows, Time(r)
        PROVE  TypeOK'
    <3>1. CASE LeaseLapses(r)
      BY <3>1 DEF LeaseLapses
    <3>2. CASE BecomesDue(r)
      BY <3>2 DEF BecomesDue
    <3> QED
      BY <2>7, <3>1, <3>2 DEF Time
  <2>8. ASSUME NEW w \in Workers, RecoverStaleLeases(w)
        PROVE  TypeOK'
    <3>1. PICK S \in SUBSET Rows : Requeue(S)
      BY <2>8 DEF RecoverStaleLeases, Stale
    <3>2. /\ status' \in [Rows -> Statuses]
          /\ attempts' \in [Rows -> Nat]
          /\ lease' \in [Rows -> {"none", "live", "expired"}]
      BY <3>1 DEF Requeue, Statuses
    <3>5. due' \in [Rows -> BOOLEAN]
      BY <3>1 DEF Requeue, Spent
    <3>3. effects' \in [Rows -> Nat]
      BY <3>1, ExecutionType DEF Requeue
    <3>4. interrupted' \in [Rows -> Nat]
      BY <3>1 DEF Requeue
    <3> QED
      <4>1. pc' \in [Workers -> Steps] /\ \A v \in Workers : pc'[v] \in Pass <=> cur'[v] = NoRow
        BY <2>8 DEF RecoverStaleLeases, Goto, Steps, Pass
      <4> QED
        BY <2>8, <3>2, <3>3, <3>4, <3>5, <4>1 DEF RecoverStaleLeases
  <2>9. ASSUME NEW w \in Workers, ClaimBatch(w)
        PROVE  TypeOK'
    BY <2>9 DEF ClaimBatch, Goto, Statuses, Steps, Pass
  <2>10. ASSUME NEW w \in Workers, ScanRulesAndReminders(w)
         PROVE  TypeOK'
    BY <2>10 DEF ScanRulesAndReminders, Goto, Steps, Pass
  <2>11. ASSUME NEW w \in Workers, NextRow(w)
         PROVE  TypeOK'
    BY <2>11 DEF NextRow, Take, Goto, Steps, Pass
  <2>12. ASSUME NEW w \in Workers, ProcessRow(w)
         PROVE  TypeOK'
    <3>0. pc[w] = "process"
      BY <2>12 DEF ProcessRow, ProcessSettled, ProcessQuietHours, ProcessLocally,
           ProcessExternal
    <3>1. cur[w] \in Rows /\ "batch" \in Pass
      BY <3>0 DEF Pass
    <3>2. CASE ProcessSettled(w)
      BY <3>1, <3>2 DEF ProcessSettled, Finish, Goto, Steps, Pass, Outcomes
    <3>3. CASE ProcessQuietHours(w)
      BY <3>1, <3>3 DEF ProcessQuietHours, Postpone, DropLease, Finish, Goto,
           Statuses, Steps, Pass, Outcomes
    <3>4. CASE ProcessLocally(w)
      BY <3>1, <3>4 DEF ProcessLocally, DropLease, DeliverInApp, RecordExecution,
           Finish, Goto, Statuses, Steps, Pass, Outcomes
    <3>5. CASE ProcessExternal(w)
      BY <3>1, <3>5 DEF ProcessExternal, Goto, Steps, Pass
    <3> QED
      BY <2>12, <3>2, <3>3, <3>4, <3>5 DEF ProcessRow
  <2>13. ASSUME NEW w \in Workers, ProcessExternalRow(w)
         PROVE  TypeOK'
    <3>1. cur[w] \in Rows /\ "batch" \in Pass /\ "acquire" \notin Pass
      BY <2>13 DEF ProcessExternalRow, AcquireBusy, AcquireSendLock,
           AcquireRuleLock, PhaseASettled, PhaseA, FinalizeSkip, PhaseB0Postpone,
           PhaseB0, ProviderCall, PhaseCSettled, PhaseCAccepted, PhaseCFailed,
           Steps, Pass
    <3>2. CASE AcquireBusy(w)
      BY <3>1, <3>2 DEF AcquireBusy, Finish, Goto, Steps, Pass, Outcomes
    <3>3. CASE AcquireSendLock(w)
      BY <3>1, <3>3 DEF AcquireSendLock, Goto, Steps, Pass, Locked
    <3>4. CASE AcquireRuleLock(w)
      BY <3>1, <3>4 DEF AcquireRuleLock, Goto, Steps, Pass, Locked
    <3>5. CASE PhaseASettled(w)
      BY <3>1, <3>5 DEF PhaseASettled, Finish, Goto, Steps, Pass, Outcomes
    <3>6. CASE PhaseA(w)
      BY <3>1, <3>6 DEF PhaseA, Goto, Steps, Pass, Locked
    <3>7. CASE FinalizeSkip(w)
      BY <3>1, <3>7 DEF FinalizeSkip, DropLease, Finish, Goto, Statuses, Steps,
           Pass, Outcomes
    <3>8. CASE PhaseB0Postpone(w)
      BY <3>1, <3>8 DEF PhaseB0Postpone, Postpone, DropLease, Finish, Goto,
           Statuses, Steps, Pass, Outcomes
    <3>9. CASE PhaseB0(w)
      BY <3>1, <3>9 DEF PhaseB0, Goto, Steps, Pass, Locked
    <3>10. CASE ProviderCall(w)
      BY <3>1, <3>10 DEF ProviderCall, Goto, Steps, Pass, Locked, Outcomes
    <3>11. CASE PhaseCSettled(w)
      BY <3>1, <3>11 DEF PhaseCSettled, Finish, Goto, Steps, Pass, Outcomes
    <3>12. CASE PhaseCAccepted(w)
      BY <3>1, <3>12 DEF PhaseCAccepted, DropLease, Finish, Goto, Statuses, Steps,
           Pass, Outcomes
    <3>13. CASE PhaseCFailed(w)
      BY <3>1, <3>13 DEF PhaseCFailed, FailedAttempt, DropLease, Finish, Goto,
           Statuses, Steps, Pass, Outcomes
    <3> QED
      BY <2>13, <3>2, <3>3, <3>4, <3>5, <3>6, <3>7, <3>8, <3>9, <3>10, <3>11,
         <3>12, <3>13 DEF ProcessExternalRow
  <2>14. ASSUME NEW w \in Workers, RecordFailure(w)
         PROVE  TypeOK'
    <3>1. cur[w] \in Rows /\ "batch" \in Pass
      BY <2>14 DEF RecordFailure, Pass
    <3>2. CASE StillSending(w)
      <4>1. /\ status' \in [Rows -> Statuses]
            /\ attempts' \in [Rows -> Nat]
            /\ lease' \in [Rows -> {"none", "live", "expired"}]
            /\ due' \in [Rows -> BOOLEAN]
            /\ alerted' \subseteq Rows
        <5>1. FailedAttempt(cur[w], Spent(cur[w]))
          BY <2>14, <3>2, Zenon DEF RecordFailure
        <5>2. Spent(cur[w]) \in BOOLEAN
          BY <3>1 DEF Spent
        <5> QED
          BY <3>1, <5>1, <5>2, FailedAttemptType
      <4>2. effects' \in [Rows -> Nat] /\ interrupted' \in [Rows -> Nat]
        BY <2>14, <3>1, <3>2, ExecutionType DEF RecordFailure
      <4>3. /\ pc' \in [Workers -> Steps] /\ batch' \in [Workers -> SUBSET Rows]
            /\ cur' \in [Workers -> Rows \cup {NoRow}]
            /\ \A v \in Workers : pc'[v] \in Pass <=> cur'[v] = NoRow
            /\ outcome' \in [Workers -> Outcomes]
            /\ sendLock' \in [Rows -> Workers \cup {NoWorker}]
        BY <2>14, <3>1 DEF RecordFailure, Finish, Goto, Steps, Pass, Outcomes
      <4> QED
        BY <2>14, <4>1, <4>2, <4>3 DEF RecordFailure
    <3>3. CASE ~StillSending(w)
      BY <2>14, <3>1, <3>3 DEF RecordFailure, Finish, Goto, Steps, Pass, Outcomes
    <3> QED
      BY <3>2, <3>3
  <2>15. ASSUME NEW w \in Workers, Failure(w)
         PROVE  TypeOK'
    BY <2>15 DEF Failure, InternalError, Crash, Goto, Steps, Pass, Locked, Outcomes
  <2>16. CASE UNCHANGED vars
    BY <2>16
  <2> QED
    BY <2>1, <2>2, <2>3, <2>4, <2>5, <2>6, <2>7, <2>8, <2>9, <2>10, <2>11, <2>12,
       <2>13, <2>14, <2>15, <2>16 DEF Next, Request, WorkerStep
<1> QED
  BY <1>1, <1>2, PTL DEF Spec

-----------------------------------------------------------------------------
\* Leaving a row releases the locks of this worker and of no other.
LEMMA FinishLocks ==
    ASSUME TypeOK, SendersHoldLock, NEW w \in Workers, Finish(w)
    PROVE  SendersHoldLock'
<1>1. pc'[w] = "batch" /\ \A v \in Workers \ {w} : pc'[v] = pc[v] /\ cur'[v] = cur[v]
  BY DEF TypeOK, Finish, Goto
<1>2. \A v \in Workers \ {w} : pc[v] \in Locked \cup {"ruleLock"} => cur[v] \in Rows
  BY DEF TypeOK, Locked, Pass
<1>3. \A r \in Rows : sendLock[r] # w => sendLock'[r] = sendLock[r]
  BY DEF Finish
<1> QED
  BY <1>1, <1>2, <1>3 DEF SendersHoldLock, Locked

\* No two workers are ever inside the sending phases of one row, however their
\* stale claims interleave (process_external_row and its advisory locks).
THEOREM MutualExclusion == Spec => []OneSenderPerRow
<1>1. Init => SendersHoldLock
  BY DEF Init, SendersHoldLock, Locked
<1>2. TypeOK /\ SendersHoldLock /\ [Next]_vars => SendersHoldLock'
  <2> SUFFICES ASSUME TypeOK, SendersHoldLock, [Next]_vars
               PROVE  SendersHoldLock'
    OBVIOUS
  <2>1. CASE UNCHANGED <<pc, cur, sendLock>>
    BY <2>1 DEF SendersHoldLock
  <2>2. CASE Request \/ \E r \in Rows : Time(r)
    <3>1. UNCHANGED <<pc, cur, sendLock>>
      BY <2>2 DEF Request, Time, Schedule, AdminReadForCancel, AdminWriteCancel,
         AdminRetry, CancelPendingForObject, UpdateRule, LeaseLapses, BecomesDue
    <3> QED
      BY <2>1, <3>1
  <2>3. ASSUME NEW w \in Workers, WorkerStep(w)
        PROVE  SendersHoldLock'
    <3>1. CASE RecoverStaleLeases(w) \/ ClaimBatch(w) \/ ScanRulesAndReminders(w)
      <4>1. pc'[w] \in Pass /\ UNCHANGED <<cur, sendLock>>
        BY <3>1 DEF RecoverStaleLeases, ClaimBatch, ScanRulesAndReminders, Goto,
           Pass, TypeOK
      <4>2. \A v \in Workers \ {w} : pc'[v] = pc[v]
        BY <3>1 DEF RecoverStaleLeases, ClaimBatch, ScanRulesAndReminders, Goto, TypeOK
      <4> QED
        BY <4>1, <4>2 DEF SendersHoldLock, Pass, Locked
    <3>2. CASE NextRow(w)
      BY <3>2 DEF NextRow, Take, Goto, SendersHoldLock, TypeOK, Locked
    <3>3. CASE Finish(w)
      BY <3>3, FinishLocks
    <3>4. CASE ProcessExternal(w)
      BY <3>4 DEF ProcessExternal, Goto, SendersHoldLock, TypeOK, Locked
    <3>5. CASE AcquireSendLock(w)
      <4>1. cur[w] \in Rows
        BY <3>5 DEF AcquireSendLock, TypeOK, Pass
      <4>2. \A v \in Workers : sendLock[cur[w]] # v
        BY <3>5, NullAssumption DEF AcquireSendLock, SendLockFree
      <4> QED
        BY <3>5, <4>1, <4>2 DEF AcquireSendLock, Goto, SendersHoldLock, TypeOK, Locked
    <3>6. CASE AcquireRuleLock(w)
      BY <3>6 DEF AcquireRuleLock, Goto, SendersHoldLock, TypeOK, Locked
    <3>7. CASE PhaseA(w) \/ PhaseB0(w) \/ ProviderCall(w)
      BY <3>7 DEF PhaseA, PhaseB0, ProviderCall, Goto, SendersHoldLock, TypeOK, Locked
    <3> QED
      BY <2>3, <3>1, <3>2, <3>3, <3>4, <3>5, <3>6, <3>7
         DEF WorkerStep, ProcessRow, ProcessExternalRow, ProcessSettled,
             ProcessQuietHours, ProcessLocally, AcquireBusy, PhaseASettled,
             FinalizeSkip, PhaseB0Postpone, PhaseCSettled, PhaseCAccepted,
             PhaseCFailed, RecordFailure
  <2>4. ASSUME NEW w \in Workers, Failure(w)
        PROVE  SendersHoldLock'
    <3>1. /\ pc'[w] \in {"fail", "recover"}
          /\ \A v \in Workers \ {w} : pc'[v] = pc[v] /\ cur'[v] = cur[v]
      BY <2>4 DEF Failure, InternalError, Crash, Goto, TypeOK
    <3>2. \A v \in Workers \ {w} : pc[v] \in Locked \cup {"ruleLock"} => cur[v] \in Rows
      BY DEF TypeOK, Locked, Pass
    <3>3. \A r \in Rows : sendLock[r] # w => sendLock'[r] = sendLock[r]
      BY <2>4 DEF Failure, InternalError, Crash
    <3> QED
      BY <3>1, <3>2, <3>3 DEF SendersHoldLock, Locked
  <2> QED
    BY <2>1, <2>2, <2>3, <2>4 DEF Next
<1>3. TypeOK /\ SendersHoldLock => OneSenderPerRow
  BY DEF SendersHoldLock, OneSenderPerRow, TypeOK
<1> QED
  BY <1>1, <1>2, <1>3, TypeCorrect, PTL DEF Spec

-----------------------------------------------------------------------------
\* Retries are bounded: a row never has more attempts than the limit, and one
\* still in the queue has an attempt left (documents of rules excepted, which
\* phase B0 can put back).
THEOREM BoundedAttempts == Spec => []AttemptsBounded
<1>1. Init => AttemptsBounded
  BY BoundAssumption DEF Init, AttemptsBounded
<1>2. TypeOK /\ AttemptsBounded /\ [Next]_vars => AttemptsBounded'
  <2> SUFFICES ASSUME TypeOK, AttemptsBounded, [Next]_vars
               PROVE  AttemptsBounded'
    OBVIOUS
  <2> USE BoundAssumption
  <2>1. CASE UNCHANGED <<status, attempts>>
    BY <2>1 DEF AttemptsBounded
  <2>2. CASE Request
    <3>1. ASSUME NEW r \in Rows, Schedule(r)
          PROVE  AttemptsBounded'
      BY <3>1 DEF Schedule, AttemptsBounded, TypeOK
    <3>2. ASSUME NEW r \in Rows, AdminReadForCancel(r)
          PROVE  AttemptsBounded'
      BY <2>1, <3>2 DEF AdminReadForCancel
    <3>3. ASSUME NEW r \in Rows, AdminWriteCancel(r)
          PROVE  AttemptsBounded'
      BY <3>3 DEF AdminWriteCancel, AttemptsBounded, TypeOK
    <3>4. ASSUME NEW r \in Rows, NEW new \in Rows, AdminRetry(r, new)
          PROVE  AttemptsBounded'
      BY <3>4 DEF AdminRetry, AttemptsBounded, TypeOK
    <3>5. ASSUME NEW o \in Objects, CancelPendingForObject(o)
          PROVE  AttemptsBounded'
      BY <3>5 DEF CancelPendingForObject, AttemptsBounded, TypeOK
    <3>6. ASSUME NEW o \in Objects, UpdateRule(o)
          PROVE  AttemptsBounded'
      BY <3>6 DEF UpdateRule, AttemptsBounded, TypeOK
    <3> QED
      BY <2>2, <3>1, <3>2, <3>3, <3>4, <3>5, <3>6 DEF Request
  <2>3. ASSUME NEW r \in Rows, Time(r)
        PROVE  AttemptsBounded'
    BY <2>1, <2>3 DEF Time, LeaseLapses, BecomesDue
  <2>4. ASSUME NEW w \in Workers, WorkerStep(w)
        PROVE  AttemptsBounded'
    <3>1. CASE RecoverStaleLeases(w)
      <4>1. PICK S \in SUBSET Stale : Requeue(S)
        BY <3>1 DEF RecoverStaleLeases
      <4>2. \A r \in Rows :
              /\ r \notin S => status'[r] = status[r] /\ attempts'[r] = attempts[r]
              /\ r \in S => /\ attempts'[r] = attempts[r] + 1
                            /\ status'[r] = IF Spent(r) THEN "failed" ELSE "queued"
        BY <4>1 DEF Requeue
      <4>3. \A r \in S : r \in Rows /\ status[r] = "sending"
        BY <4>1 DEF Stale
      <4> QED
        BY <4>2, <4>3 DEF AttemptsBounded, Spent, TypeOK
    <3>2. CASE ClaimBatch(w)
      BY <3>2 DEF ClaimBatch, AttemptsBounded, TypeOK
    <3>3. CASE ProcessQuietHours(w)
      BY <3>3 DEF ProcessQuietHours, Postpone, StillSending, AttemptsBounded, TypeOK
    <3>4. CASE ProcessLocally(w)
      <4>1. cur[w] \in Rows
        BY <3>4 DEF ProcessLocally, TypeOK, Pass
      <4> QED
        BY <3>4, <4>1 DEF ProcessLocally, StillSending, AttemptsBounded, TypeOK
    <3>5. CASE FinalizeSkip(w)
      <4>1. cur[w] \in Rows
        BY <3>5 DEF FinalizeSkip, TypeOK, Pass
      <4> QED
        BY <3>5, <4>1 DEF FinalizeSkip, StillSending, AttemptsBounded, TypeOK
    <3>6. CASE PhaseB0Postpone(w)
      BY <3>6 DEF PhaseB0Postpone, Postpone, AttemptsBounded, TypeOK
    <3>7. CASE PhaseCAccepted(w)
      <4>1. cur[w] \in Rows
        BY <3>7 DEF PhaseCAccepted, TypeOK, Pass
      <4> QED
        BY <3>7, <4>1 DEF PhaseCAccepted, StillSending, AttemptsBounded, TypeOK
    <3>8. ASSUME NEW final \in BOOLEAN, Spent(cur[w]) => final, cur[w] \in Rows,
                 StillSending(w), FailedAttempt(cur[w], final)
          PROVE  AttemptsBounded'
      BY <3>8 DEF FailedAttempt, StillSending, Spent, AttemptsBounded, TypeOK
    <3>9. CASE PhaseCFailed(w)
      <4>1. cur[w] \in Rows /\ StillSending(w)
        BY <3>9 DEF PhaseCFailed, TypeOK, Pass
      <4>2. FailedAttempt(cur[w], outcome[w] = "perm_error" \/ Spent(cur[w]))
        BY <3>9, Zenon DEF PhaseCFailed
      <4>3. (outcome[w] = "perm_error" \/ Spent(cur[w])) \in BOOLEAN
        OBVIOUS
      <4> QED
        BY <3>8, <4>1, <4>2, <4>3
    <3>10. CASE RecordFailure(w) /\ StillSending(w)
      <4>1. cur[w] \in Rows
        BY <3>10 DEF RecordFailure, TypeOK, Pass
      <4>2. FailedAttempt(cur[w], Spent(cur[w]))
        BY <3>10, Zenon DEF RecordFailure
      <4>3. Spent(cur[w]) \in BOOLEAN
        BY <4>1 DEF Spent
      <4> QED
        BY <3>8, <3>10, <4>1, <4>2, <4>3
    <3>11. CASE RecordFailure(w) /\ ~StillSending(w)
      BY <2>1, <3>11 DEF RecordFailure
    <3> QED
      BY <2>1, <2>4, <3>1, <3>2, <3>3, <3>4, <3>5, <3>6, <3>7, <3>9, <3>10, <3>11
         DEF WorkerStep, ScanRulesAndReminders, NextRow, ProcessRow,
             ProcessSettled, ProcessExternal, ProcessExternalRow, AcquireBusy,
             AcquireSendLock, AcquireRuleLock, PhaseASettled, PhaseA, PhaseB0,
             ProviderCall, PhaseCSettled
  <2>5. ASSUME NEW w \in Workers, Failure(w)
        PROVE  AttemptsBounded'
    BY <2>1, <2>5 DEF Failure, InternalError, Crash
  <2> QED
    BY <2>1, <2>2, <2>3, <2>4, <2>5 DEF Next
<1> QED
  BY <1>1, <1>2, TypeCorrect, PTL DEF Spec

-----------------------------------------------------------------------------
\* A lease is on exactly the sending rows: the table's CHECK never rejects what
\* a worker, a rule's edit or a withdrawal writes.
THEOREM LeasesAreExact == Spec => []LeaseMatchesStatus
<1>1. Init => LeaseMatchesStatus
  BY DEF Init, LeaseMatchesStatus
<1>2. TypeOK /\ LeaseMatchesStatus /\ [Next]_vars => LeaseMatchesStatus'
  <2> SUFFICES ASSUME TypeOK, LeaseMatchesStatus, [Next]_vars
               PROVE  LeaseMatchesStatus'
    OBVIOUS
  <2>1. CASE UNCHANGED <<status, lease>>
    BY <2>1 DEF LeaseMatchesStatus
  <2>2. ASSUME NEW r \in Rows, Schedule(r)
        PROVE  LeaseMatchesStatus'
    BY <2>2 DEF Schedule, LeaseMatchesStatus, TypeOK
  <2>3. ASSUME NEW r \in Rows, AdminWriteCancel(r)
        PROVE  LeaseMatchesStatus'
    BY <2>3 DEF AdminWriteCancel, LeaseMatchesStatus, TypeOK
  <2>4. ASSUME NEW r \in Rows, NEW new \in Rows, AdminRetry(r, new)
        PROVE  LeaseMatchesStatus'
    BY <2>4 DEF AdminRetry, LeaseMatchesStatus, TypeOK
  <2>5. ASSUME NEW o \in Objects, CancelPendingForObject(o)
        PROVE  LeaseMatchesStatus'
    BY <2>5 DEF CancelPendingForObject, LeaseMatchesStatus, TypeOK
  <2>6. ASSUME NEW o \in Objects, UpdateRule(o)
        PROVE  LeaseMatchesStatus'
    BY <2>6 DEF UpdateRule, LeaseMatchesStatus, TypeOK
  <2>7. ASSUME NEW r \in Rows, Time(r)
        PROVE  LeaseMatchesStatus'
    BY <2>7 DEF Time, LeaseLapses, BecomesDue, LeaseMatchesStatus, TypeOK
  <2>8. ASSUME NEW w \in Workers, WorkerStep(w)
        PROVE  LeaseMatchesStatus'
    \* A row that leaves "sending" drops its lease in the same step.
    <3>1. ASSUME NEW r \in Rows, DropLease(r), status'[r] # "sending",
                 \A q \in Rows \ {r} : status'[q] = status[q]
          PROVE  LeaseMatchesStatus'
      BY <3>1 DEF DropLease, LeaseMatchesStatus, TypeOK
    <3>2. CASE RecoverStaleLeases(w)
      <4>1. PICK S \in SUBSET Stale : Requeue(S)
        BY <3>2 DEF RecoverStaleLeases
      <4>2. \A r \in Rows :
              /\ r \notin S => status'[r] = status[r] /\ lease'[r] = lease[r]
              /\ r \in S => lease'[r] = "none" /\ status'[r] # "sending"
        BY <4>1 DEF Requeue
      <4> QED
        BY <4>2 DEF LeaseMatchesStatus
    <3>3. CASE ClaimBatch(w)
      BY <3>3 DEF ClaimBatch, LeaseMatchesStatus, TypeOK
    <3>4. CASE ProcessQuietHours(w) \/ PhaseB0Postpone(w)
      <4>1. cur[w] \in Rows
        BY <3>4 DEF ProcessQuietHours, PhaseB0Postpone, TypeOK, Pass
      <4>2. DropLease(cur[w]) /\ status' = [status EXCEPT ![cur[w]] = "queued"]
        BY <3>4, Zenon DEF ProcessQuietHours, PhaseB0Postpone, Postpone
      <4> QED
        BY <3>1, <4>1, <4>2 DEF TypeOK
    <3>5. CASE ProcessLocally(w) \/ PhaseCAccepted(w)
      <4>1. cur[w] \in Rows
        BY <3>5 DEF ProcessLocally, PhaseCAccepted, TypeOK, Pass
      <4>2. /\ DropLease(cur[w])
            /\ \/ status' = [status EXCEPT ![cur[w]] = "delivered"]
               \/ status' = [status EXCEPT ![cur[w]] = "accepted"]
        BY <3>5, Zenon DEF ProcessLocally, PhaseCAccepted
      <4> QED
        BY <3>1, <4>1, <4>2 DEF TypeOK
    <3>6. CASE FinalizeSkip(w) /\ StillSending(w)
      <4>1. cur[w] \in Rows
        BY <3>6 DEF FinalizeSkip, TypeOK, Pass
      <4>2. DropLease(cur[w]) /\ status' = [status EXCEPT ![cur[w]] = "skipped"]
        BY <3>6, Zenon DEF FinalizeSkip
      <4> QED
        BY <3>1, <4>1, <4>2 DEF TypeOK
    <3>7. CASE PhaseA(w)
      BY <3>7 DEF PhaseA, StillSending, LeaseMatchesStatus, TypeOK
    <3>8. ASSUME NEW final \in BOOLEAN, cur[w] \in Rows, FailedAttempt(cur[w], final)
          PROVE  LeaseMatchesStatus'
      <4>1. DropLease(cur[w]) /\ status'[cur[w]] \in {"failed", "queued"}
        BY <3>8 DEF FailedAttempt, TypeOK
      <4>2. \A q \in Rows \ {cur[w]} : status'[q] = status[q]
        BY <3>8 DEF FailedAttempt, TypeOK
      <4> QED
        BY <3>1, <3>8, <4>1, <4>2
    <3>9. CASE PhaseCFailed(w)
      <4>1. cur[w] \in Rows
        BY <3>9 DEF PhaseCFailed, TypeOK, Pass
      <4>2. FailedAttempt(cur[w], outcome[w] = "perm_error" \/ Spent(cur[w]))
        BY <3>9, Zenon DEF PhaseCFailed
      <4>3. (outcome[w] = "perm_error" \/ Spent(cur[w])) \in BOOLEAN
        OBVIOUS
      <4> QED
        BY <3>8, <4>1, <4>2, <4>3
    <3>10. CASE RecordFailure(w) /\ StillSending(w)
      <4>1. cur[w] \in Rows
        BY <3>10 DEF RecordFailure, TypeOK, Pass
      <4>2. FailedAttempt(cur[w], Spent(cur[w]))
        BY <3>10, Zenon DEF RecordFailure
      <4>3. Spent(cur[w]) \in BOOLEAN
        BY <4>1 DEF Spent
      <4> QED
        BY <3>8, <4>1, <4>2, <4>3
    <3>11. CASE (RecordFailure(w) \/ FinalizeSkip(w)) /\ ~StillSending(w)
      BY <2>1, <3>11 DEF RecordFailure, FinalizeSkip
    <3> QED
      BY <2>1, <2>8, <3>2, <3>3, <3>4, <3>5, <3>6, <3>7, <3>9, <3>10, <3>11
         DEF WorkerStep, ScanRulesAndReminders, NextRow, ProcessRow,
             ProcessSettled, ProcessExternal, ProcessExternalRow, AcquireBusy,
             AcquireSendLock, AcquireRuleLock, PhaseASettled, PhaseB0,
             ProviderCall, PhaseCSettled
  <2>9. ASSUME NEW w \in Workers, Failure(w)
        PROVE  LeaseMatchesStatus'
    BY <2>1, <2>9 DEF Failure, InternalError, Crash
  <2> QED
    BY <2>1, <2>2, <2>3, <2>4, <2>5, <2>6, <2>7, <2>8, <2>9
       DEF Next, Request, AdminReadForCancel
<1> QED
  BY <1>1, <1>2, TypeCorrect, PTL DEF Spec

-----------------------------------------------------------------------------
\* What FinishedStaysFinished says of one step.
FinishedStep ==
    \A r \in Rows : Kind[r] # "document" /\ status[r] \in Terminal =>
         \/ status'[r] = status[r]
         \/ r \in AdminRows /\ cancelRead[r] # "none" /\ status'[r] = "cancelled"

\* No step of a worker, a scheduler or a user changes a finished row: every
\* transaction re-reads the row's status under its lock, and only the unlocked
\* cancel of an administrator does not.
THEOREM FinishedRowsAreFinal == Spec => FinishedStaysFinished
<1>1. TypeOK /\ [Next]_vars => FinishedStep
  <2> SUFFICES ASSUME TypeOK, [Next]_vars
               PROVE  FinishedStep
    OBVIOUS
  <2>1. CASE UNCHANGED status
    BY <2>1 DEF FinishedStep
  <2>2. ASSUME NEW r \in Rows, status' = [status EXCEPT ![r] = status'[r]],
               status[r] \notin Terminal \/ Kind[r] = "document"
        PROVE  FinishedStep
    BY <2>2 DEF FinishedStep, TypeOK
  <2>3. CASE Request
    <3>1. ASSUME NEW r \in Rows, Schedule(r)
          PROVE  FinishedStep
      BY <3>1, <2>2 DEF Schedule, Terminal, TypeOK
    <3>2. ASSUME NEW r \in Rows, AdminReadForCancel(r)
          PROVE  FinishedStep
      BY <3>2, <2>1 DEF AdminReadForCancel
    <3>3. ASSUME NEW r \in Rows, AdminWriteCancel(r)
          PROVE  FinishedStep
      BY <3>3 DEF AdminWriteCancel, FinishedStep, TypeOK
    <3>4. ASSUME NEW r \in Rows, NEW new \in Rows, AdminRetry(r, new)
          PROVE  FinishedStep
      BY <3>4, <2>2 DEF AdminRetry, Terminal, TypeOK
    <3>5. ASSUME NEW o \in Objects, CancelPendingForObject(o)
          PROVE  FinishedStep
      BY <3>5 DEF CancelPendingForObject, FinishedStep, Terminal, TypeOK
    <3>6. ASSUME NEW o \in Objects, UpdateRule(o)
          PROVE  FinishedStep
      BY <3>6 DEF UpdateRule, FinishedStep, Terminal, TypeOK
    <3> QED
      BY <2>3, <3>1, <3>2, <3>3, <3>4, <3>5, <3>6 DEF Request
  <2>4. ASSUME NEW r \in Rows, Time(r)
        PROVE  FinishedStep
    BY <2>4, <2>1 DEF Time, LeaseLapses, BecomesDue
  <2>5. ASSUME NEW w \in Workers, WorkerStep(w)
        PROVE  FinishedStep
    <3>1. CASE RecoverStaleLeases(w)
      <4>1. PICK S \in SUBSET Stale : Requeue(S)
        BY <3>1 DEF RecoverStaleLeases
      <4>2. \A r \in Rows : r \notin S => status'[r] = status[r]
        BY <4>1 DEF Requeue
      <4>3. \A r \in S : status[r] = "sending"
        BY <4>1 DEF Stale
      <4> QED
        BY <4>2, <4>3 DEF FinishedStep, Terminal
    <3>2. CASE ClaimBatch(w)
      BY <3>2 DEF ClaimBatch, FinishedStep, Terminal, TypeOK
    <3>3. pc[w] \notin Pass => cur[w] \in Rows
      BY DEF TypeOK
    <3>4. CASE ProcessQuietHours(w)
      BY <3>4, <3>3, <2>2 DEF ProcessQuietHours, Postpone, StillSending, Terminal,
         TypeOK, Pass
    <3>5. CASE ProcessLocally(w)
      BY <3>5, <3>3, <2>2 DEF ProcessLocally, StillSending, Terminal, TypeOK, Pass
    <3>6. CASE FinalizeSkip(w)
      BY <3>6, <3>3, <2>1, <2>2 DEF FinalizeSkip, StillSending, Terminal, TypeOK, Pass
    <3>7. CASE PhaseB0Postpone(w)
      BY <3>7, <3>3, <2>2 DEF PhaseB0Postpone, Postpone, TypeOK, Pass
    <3>8. CASE PhaseCAccepted(w)
      BY <3>8, <3>3, <2>2 DEF PhaseCAccepted, StillSending, Terminal, TypeOK, Pass
    <3>9. ASSUME NEW final, cur[w] \in Rows, StillSending(w), FailedAttempt(cur[w], final)
          PROVE  FinishedStep
      BY <3>9, <2>2 DEF FailedAttempt, StillSending, Terminal, TypeOK
    <3>10. CASE PhaseCFailed(w)
      <4>1. cur[w] \in Rows /\ StillSending(w)
        BY <3>10, <3>3 DEF PhaseCFailed, Pass
      <4>2. FailedAttempt(cur[w], outcome[w] = "perm_error" \/ Spent(cur[w]))
        BY <3>10, Zenon DEF PhaseCFailed
      <4> QED
        BY <3>9, <4>1, <4>2
    <3>11. CASE RecordFailure(w) /\ StillSending(w)
      <4>1. cur[w] \in Rows
        BY <3>11, <3>3 DEF RecordFailure, Pass
      <4>2. FailedAttempt(cur[w], Spent(cur[w]))
        BY <3>11, Zenon DEF RecordFailure
      <4> QED
        BY <3>9, <3>11, <4>1, <4>2
    <3>12. CASE RecordFailure(w) /\ ~StillSending(w)
      BY <2>1, <3>12 DEF RecordFailure
    <3> QED
      BY <2>1, <2>5, <3>1, <3>2, <3>4, <3>5, <3>6, <3>7, <3>8, <3>10, <3>11, <3>12
         DEF WorkerStep, ScanRulesAndReminders, NextRow, ProcessRow,
             ProcessSettled, ProcessExternal, ProcessExternalRow, AcquireBusy,
             AcquireSendLock, AcquireRuleLock, PhaseASettled, PhaseA, PhaseB0,
             ProviderCall, PhaseCSettled
  <2>6. ASSUME NEW w \in Workers, Failure(w)
        PROVE  FinishedStep
    BY <2>1, <2>6 DEF Failure, InternalError, Crash
  <2> QED
    BY <2>1, <2>3, <2>4, <2>5, <2>6 DEF Next
<1>2. TypeOK /\ [Next]_vars => [FinishedStep]_vars
  BY <1>1
<1> QED
  BY <1>2, TypeCorrect, PTL DEF Spec, FinishedStaysFinished, FinishedStep

-----------------------------------------------------------------------------
\* Counting the members of two sets of workers.
LEMMA Counting ==
    ASSUME NEW A \in SUBSET Workers, NEW B \in SUBSET Workers, NEW w \in Workers
    PROVE  /\ Cardinality(A) \in Nat /\ Cardinality(B) \in Nat
           /\ A \subseteq B => Cardinality(A) <= Cardinality(B)
           /\ A \subseteq B /\ w \in B /\ w \notin A => Cardinality(A) + 1 <= Cardinality(B)
           /\ A \subseteq B \cup {w} => Cardinality(A) <= Cardinality(B) + 1
<1>1. IsFiniteSet(A) /\ IsFiniteSet(B) /\ IsFiniteSet(A \ {w})
  BY FiniteAssumption, FS_Subset
<1>2. Cardinality(A) \in Nat /\ Cardinality(B) \in Nat /\ Cardinality(A \ {w}) \in Nat
  BY <1>1, FS_CardinalityType
<1>3. A \subseteq B => Cardinality(A) <= Cardinality(B)
  BY <1>1, FS_Subset
<1>4. ASSUME A \subseteq B, w \in B, w \notin A
      PROVE  Cardinality(A) + 1 <= Cardinality(B)
  <2>1. Cardinality(A \cup {w}) = Cardinality(A) + 1
    BY <1>1, <1>4, FS_AddElement
  <2>2. Cardinality(A \cup {w}) <= Cardinality(B)
    BY <1>1, <1>4, FS_Subset
  <2> QED
    BY <2>1, <2>2
<1>5. ASSUME A \subseteq B \cup {w}
      PROVE  Cardinality(A) <= Cardinality(B) + 1
  <2>1. A \ {w} \subseteq B
    BY <1>5
  <2>2. Cardinality(A \ {w}) <= Cardinality(B)
    BY <1>1, <2>1, FS_Subset
  <2>3. Cardinality(A) <= Cardinality(A \ {w}) + 1
    BY <1>1, <1>2, FS_RemoveElement
  <2> QED
    BY <1>2, <2>2, <2>3
<1> QED
  BY <1>2, <1>3, <1>4, <1>5

\* A worker has taken its current row out of its batch.
NotTwice == \A w \in Workers : cur[w] \notin batch[w]

LEMMA NeverTwice == Spec => []NotTwice
<1>1. Init => NotTwice
  BY DEF Init, NotTwice
<1>2. TypeOK /\ NotTwice /\ [Next]_vars => NotTwice'
  <2> SUFFICES ASSUME TypeOK, NotTwice, [Next]_vars
               PROVE  NotTwice'
    OBVIOUS
  <2>1. CASE UNCHANGED <<cur, batch>>
    BY <2>1 DEF NotTwice
  <2>2. ASSUME NEW w \in Workers, Finish(w)
        PROVE  NotTwice'
    BY <2>2, NullAssumption DEF Finish, NotTwice, TypeOK
  <2>3. ASSUME NEW w \in Workers, ClaimBatch(w)
        PROVE  NotTwice'
    <3>1. cur[w] = NoRow
      BY <2>3 DEF ClaimBatch, TypeOK, Pass
    <3> QED
      BY <2>3, <3>1, NullAssumption DEF ClaimBatch, NotTwice, TypeOK
  <2>4. ASSUME NEW w \in Workers, ScanRulesAndReminders(w) \/ Crash(w)
        PROVE  NotTwice'
    BY <2>4 DEF ScanRulesAndReminders, Crash, NotTwice, TypeOK
  <2>5. ASSUME NEW w \in Workers, NextRow(w)
        PROVE  NotTwice'
    BY <2>5 DEF NextRow, Take, NotTwice, TypeOK
  <2> QED
    BY <2>1, <2>2, <2>3, <2>4, <2>5
       DEF Next, Request, Time, WorkerStep, Failure, ProcessRow, ProcessExternalRow,
           Schedule, AdminReadForCancel, AdminWriteCancel, AdminRetry,
           CancelPendingForObject, UpdateRule, LeaseLapses, BecomesDue,
           RecoverStaleLeases, ProcessSettled, ProcessQuietHours, ProcessLocally,
           ProcessExternal, AcquireBusy, AcquireSendLock, AcquireRuleLock,
           PhaseASettled, PhaseA, FinalizeSkip, PhaseB0Postpone, PhaseB0,
           ProviderCall, PhaseCSettled, PhaseCAccepted, PhaseCFailed,
           RecordFailure, InternalError
<1> QED
  BY <1>1, <1>2, TypeCorrect, PTL DEF Spec

\* What a step may do to the account of one row: nothing that adds to it, a copy
\* for a worker that held the row, such a worker gone, or a claim.
LEMMA AccountOfRow ==
    ASSUME TypeOK, TypeOK', NEW r \in Rows, Balanced(r),
           \/ /\ MaySend(r)' \subseteq MaySend(r)
              /\ taken'[r] = taken[r]
              /\ \/ interrupted'[r] = interrupted[r] /\ (Waiting(r)' => Waiting(r))
                 \/ interrupted'[r] = interrupted[r] + 1
           \/ /\ \E w \in MaySend(r) : w \notin MaySend(r)'
              /\ MaySend(r)' \subseteq MaySend(r)
              /\ interrupted'[r] = interrupted[r]
              /\ \/ taken'[r] = taken[r]
                 \/ taken'[r] = taken[r] + 1 /\ (Waiting(r)' => Waiting(r))
           \/ /\ \E w \in Workers : MaySend(r)' \subseteq MaySend(r) \cup {w}
              /\ taken'[r] = taken[r] /\ interrupted'[r] = interrupted[r]
              /\ Waiting(r) /\ ~Waiting(r)'
    PROVE  Balanced(r)'
<1> DEFINE A == MaySend(r)'
           B == MaySend(r)
<1>1. A \in SUBSET Workers /\ B \in SUBSET Workers
  BY DEF MaySend
<1>2. /\ taken[r] \in Nat /\ taken'[r] \in Nat
      /\ interrupted[r] \in Nat /\ interrupted'[r] \in Nat
  BY DEF TypeOK
<1>3. taken[r] + Cardinality(B) <= interrupted[r] + IF Waiting(r) THEN 0 ELSE 1
  BY DEF Balanced
<1>4. SUFFICES taken'[r] + Cardinality(A)
                 <= interrupted'[r] + IF Waiting(r)' THEN 0 ELSE 1
  BY DEF Balanced
<1> HIDE DEF A, B
<1>5. CASE /\ A \subseteq B
           /\ taken'[r] = taken[r]
           /\ \/ interrupted'[r] = interrupted[r] /\ (Waiting(r)' => Waiting(r))
              \/ interrupted'[r] = interrupted[r] + 1
  <2>1. CASE Workers = {}
    <3>1. A = B
      BY <1>1, <2>1
    <3> QED
      BY <1>1, <1>2, <1>3, <1>5, <2>1, <3>1, FS_EmptySet
  <2>2. CASE Workers # {}
    <3>1. /\ Cardinality(A) \in Nat /\ Cardinality(B) \in Nat
          /\ Cardinality(A) <= Cardinality(B)
      BY <1>1, <1>5, <2>2, Counting
    <3> QED
      BY <1>2, <1>3, <1>5, <3>1
  <2> QED
    BY <2>1, <2>2
<1>6. CASE /\ \E w \in B : w \notin A
           /\ A \subseteq B
           /\ interrupted'[r] = interrupted[r]
           /\ \/ taken'[r] = taken[r]
              \/ taken'[r] = taken[r] + 1 /\ (Waiting(r)' => Waiting(r))
  <2>1. /\ Cardinality(A) \in Nat /\ Cardinality(B) \in Nat
        /\ Cardinality(A) + 1 <= Cardinality(B)
    BY <1>1, <1>6, Counting
  <2> QED
    BY <1>2, <1>3, <1>6, <2>1
<1>7. CASE /\ \E w \in Workers : A \subseteq B \cup {w}
           /\ taken'[r] = taken[r] /\ interrupted'[r] = interrupted[r]
           /\ Waiting(r) /\ ~Waiting(r)'
  <2>1. /\ Cardinality(A) \in Nat /\ Cardinality(B) \in Nat
        /\ Cardinality(A) <= Cardinality(B) + 1
    BY <1>1, <1>7, Counting
  <2> QED
    BY <1>2, <1>3, <1>7, <2>1
<1> QED
  BY <1>5, <1>6, <1>7 DEF A, B

\* A worker that leaves a row has no claim on it any more, and on no other row
\* one it did not have.
LEMMA FinishGivesUp ==
    ASSUME TypeOK, NotTwice, NEW w \in Workers, Finish(w), NEW r \in Rows
    PROVE  /\ MaySend(r)' \subseteq MaySend(r)
           /\ r = cur[w] => w \notin MaySend(r)'
<1>1. pc'[w] = "batch" /\ batch'[w] = batch[w]
  BY DEF Finish, Goto, TypeOK
<1>2. \A v \in Workers \ {w} : /\ pc'[v] = pc[v] /\ cur'[v] = cur[v]
                               /\ batch'[v] = batch[v] /\ outcome'[v] = outcome[v]
  BY DEF Finish, Goto, TypeOK
<1>3. ASSUME NEW v \in Workers, MayHandOver(v, r)'
      PROVE  MayHandOver(v, r)
  BY <1>1, <1>2, <1>3 DEF MayHandOver, Accepted
<1>4. r = cur[w] => ~MayHandOver(w, r)'
  BY <1>1 DEF MayHandOver, NotTwice
<1> QED
  BY <1>3, <1>4 DEF MaySend

\* A provider gets a row's message more than once only after as many lapsed
\* leases or exceptions (process_external_row, recover_stale_leases).
THEOREM CopiesHaveCauses == Spec => []DuplicatesExplained
<1>1. Init => CopiesAccounted
  <2> SUFFICES ASSUME Init, NEW r \in Rows
               PROVE  Balanced(r)
    BY DEF CopiesAccounted
  <2>1. MaySend(r) = {}
    BY NullAssumption DEF Init, MaySend, MayHandOver
  <2> QED
    BY <2>1, FS_EmptySet DEF Init, Balanced, Waiting
<1>2. TypeOK /\ NotTwice /\ CopiesAccounted /\ [Next]_vars /\ TypeOK' => CopiesAccounted'
  <2> SUFFICES ASSUME TypeOK, NotTwice, CopiesAccounted, [Next]_vars, TypeOK',
                      NEW r \in Rows
               PROVE  Balanced(r)'
    BY DEF CopiesAccounted
  <2>1. Balanced(r)
    BY DEF CopiesAccounted
  \* Steps that change the row's status at most: from waiting to waiting, or to
  \* a status in which it does not wait.
  <2>2. ASSUME MaySend(r)' \subseteq MaySend(r), taken'[r] = taken[r],
               interrupted'[r] = interrupted[r], Waiting(r)' => Waiting(r)
        PROVE  Balanced(r)'
    BY <2>1, <2>2, AccountOfRow
  <2>3. CASE UNCHANGED vars
    BY <2>2, <2>3 DEF MaySend, MayHandOver, Accepted, Waiting
  <2>4. CASE Request \/ \E q \in Rows : Time(q)
    <3>1. UNCHANGED <<pc, cur, batch, outcome, taken, interrupted>>
      BY <2>4 DEF Request, Time, Schedule, AdminReadForCancel, AdminWriteCancel,
         AdminRetry, CancelPendingForObject, UpdateRule, LeaseLapses, BecomesDue
    <3>2. \/ status'[r] = status[r]
          \/ status'[r] = "cancelled"
          \/ status[r] = "absent" /\ status'[r] = "queued"
      <4>1. CASE \E q \in Rows : Schedule(q) \/ AdminReadForCancel(q) \/ AdminWriteCancel(q)
        BY <4>1 DEF Schedule, AdminReadForCancel, AdminWriteCancel, TypeOK
      <4>2. CASE \E q, new \in Rows : AdminRetry(q, new)
        BY <4>2 DEF AdminRetry, TypeOK
      <4>3. CASE \E o \in Objects : CancelPendingForObject(o)
        BY <4>3 DEF CancelPendingForObject
      <4>4. CASE \E o \in Objects : UpdateRule(o)
        BY <4>4 DEF UpdateRule
      <4>5. CASE \E q \in Rows : Time(q)
        BY <4>5 DEF Time, LeaseLapses, BecomesDue
      <4> QED
        BY <2>4, <4>1, <4>2, <4>3, <4>4, <4>5 DEF Request
    <3>4. Waiting(r)' => Waiting(r)
      BY <3>2 DEF Waiting
    <3>3. MaySend(r)' \subseteq MaySend(r)
      BY <3>1 DEF MaySend, MayHandOver, Accepted
    <3> QED
      BY <2>2, <3>1, <3>3, <3>4
  <2>5. ASSUME NEW w \in Workers, WorkerStep(w) \/ Failure(w)
        PROVE  Balanced(r)'
    \* Only this worker's part in MaySend can change.
    <3>1. ASSUME \A v \in Workers \ {w} : /\ pc'[v] = pc[v] /\ cur'[v] = cur[v]
                                          /\ batch'[v] = batch[v]
                                          /\ outcome'[v] = outcome[v],
                 MayHandOver(w, r)' => MayHandOver(w, r)
          PROVE  MaySend(r)' \subseteq MaySend(r)
      BY <3>1 DEF MaySend, MayHandOver, Accepted
    <3>2. CASE RecoverStaleLeases(w)
      <4>1. PICK S \in SUBSET Stale : Requeue(S)
        BY <3>2 DEF RecoverStaleLeases
      <4>2. MaySend(r)' \subseteq MaySend(r)
        BY <3>1, <3>2 DEF RecoverStaleLeases, Goto, MayHandOver, Accepted, TypeOK
      <4>3. taken'[r] = taken[r]
        BY <3>2 DEF RecoverStaleLeases
      <4>4. \/ interrupted'[r] = interrupted[r] /\ status'[r] = status[r]
            \/ interrupted'[r] = interrupted[r] + 1
        BY <4>1 DEF Requeue, TypeOK
      <4> QED
        BY <2>1, <4>2, <4>3, <4>4, AccountOfRow DEF Waiting
    <3>3. CASE ClaimBatch(w)
      <4>1. PICK S \in SUBSET {q \in Rows : status[q] = "queued" /\ due[q]} :
              /\ status' = [q \in Rows |-> IF q \in S THEN "sending" ELSE status[q]]
              /\ batch' = [batch EXCEPT ![w] = S]
        BY <3>3 DEF ClaimBatch
      <4>2. UNCHANGED <<cur, outcome, taken, interrupted>> /\ pc' = [pc EXCEPT ![w] = "scan"]
        BY <3>3 DEF ClaimBatch, Goto
      <4>3. CASE r \in S
        <5>1. MaySend(r)' \subseteq MaySend(r) \cup {w}
          BY <4>1, <4>2 DEF MaySend, MayHandOver, Accepted, TypeOK
        <5>2. Waiting(r) /\ ~Waiting(r)'
          BY <4>1, <4>3 DEF Waiting
        <5> QED
          BY <2>1, <4>2, <5>1, <5>2, AccountOfRow
      <4>4. CASE r \notin S
        <5>1. MayHandOver(w, r)' => MayHandOver(w, r)
          BY <4>1, <4>2, <4>4 DEF MayHandOver, TypeOK
        <5>2. MaySend(r)' \subseteq MaySend(r)
          BY <3>1, <4>1, <4>2, <5>1 DEF TypeOK
        <5> QED
          BY <2>2, <4>1, <4>2, <4>4, <5>2 DEF Waiting
      <4> QED
        BY <4>3, <4>4
    <3>4. CASE ScanRulesAndReminders(w) \/ InternalError(w) \/ Crash(w)
      <4>1. /\ \A v \in Workers \ {w} : /\ pc'[v] = pc[v] /\ cur'[v] = cur[v]
                                        /\ batch'[v] = batch[v]
                                        /\ outcome'[v] = outcome[v]
            /\ pc'[w] \in {"batch", "recover", "fail"} /\ batch'[w] \subseteq batch[w]
            /\ UNCHANGED <<status, taken, interrupted>>
        BY <3>4 DEF ScanRulesAndReminders, InternalError, Crash, Goto, TypeOK
      <4>2. MaySend(r)' \subseteq MaySend(r)
        BY <3>1, <4>1 DEF MayHandOver
      <4> QED
        BY <2>2, <4>1, <4>2 DEF Waiting
    <3>5. CASE NextRow(w)
      <4>1. MaySend(r)' \subseteq MaySend(r)
        BY <3>1, <3>5 DEF NextRow, Take, Goto, MayHandOver, TypeOK
      <4> QED
        BY <2>2, <3>5, <4>1 DEF NextRow, Waiting
    <3>6. CASE ProcessExternal(w) \/ AcquireSendLock(w) \/ AcquireRuleLock(w)
               \/ PhaseA(w) \/ PhaseB0(w)
      <4>1. /\ pc[w] \in {"process", "acquire", "ruleLock", "phaseA", "phaseB0"}
            /\ pc'[w] \in {"acquire", "ruleLock", "phaseA", "phaseB0", "call"}
            /\ \A v \in Workers \ {w} : pc'[v] = pc[v]
            /\ UNCHANGED <<cur, batch, outcome, status, taken, interrupted>>
        BY <3>6 DEF ProcessExternal, AcquireSendLock, AcquireRuleLock, PhaseA,
           PhaseB0, Goto, TypeOK
      <4>2. MaySend(r)' \subseteq MaySend(r)
        BY <3>1, <4>1 DEF MayHandOver
      <4> QED
        BY <2>2, <4>1, <4>2 DEF Waiting
    <3>7. CASE ProviderCall(w)
      <4>1. /\ pc[w] = "call" /\ pc'[w] = "phaseC" /\ cur[w] \in Rows
            /\ \A v \in Workers \ {w} : pc'[v] = pc[v] /\ outcome'[v] = outcome[v]
            /\ UNCHANGED <<cur, batch, status, interrupted>>
        BY <3>7 DEF ProviderCall, Goto, TypeOK, Pass
      <4>2. MaySend(r)' \subseteq MaySend(r)
        BY <3>1, <4>1 DEF MayHandOver
      <4>3. CASE r # cur[w] \/ outcome'[w] # "accepted"
        <5>1. taken'[r] = taken[r]
          BY <3>7, <4>1, <4>3 DEF ProviderCall, TypeOK
        <5> QED
          BY <2>2, <4>1, <4>2, <5>1 DEF Waiting
      <4>4. CASE r = cur[w] /\ outcome'[w] = "accepted"
        <5>1. taken'[r] = taken[r] + 1
          BY <3>7, <4>1, <4>4 DEF ProviderCall, TypeOK
        <5>2. w \in MaySend(r)
          BY <4>1, <4>4 DEF MaySend, MayHandOver
        <5>3. w \notin MaySend(r)'
          BY <4>1, <4>4 DEF MaySend, MayHandOver, Accepted, NotTwice
        <5> QED
          BY <2>1, <4>1, <4>2, <5>1, <5>2, <5>3, AccountOfRow DEF Waiting
      <4> QED
        BY <4>3, <4>4
    \* The worker is done with its row; the row waits again only if the worker
    \* could still have handed it over.
    <3>8. ASSUME Finish(w), taken' = taken, interrupted' = interrupted,
                 NEW q \in Rows, cur[w] = q,
                 \A p \in Rows \ {q} : status'[p] = status[p],
                 Waiting(q)' => Waiting(q) \/ MayHandOver(w, q)
          PROVE  Balanced(r)'
      <4>1. /\ MaySend(r)' \subseteq MaySend(r)
            /\ r = q => w \notin MaySend(r)'
        BY <3>8, FinishGivesUp
      <4>2. CASE Waiting(r)' => Waiting(r)
        BY <2>2, <3>8, <4>1, <4>2
      <4>3. CASE Waiting(r)' /\ ~Waiting(r)
        <5>1. r = q
          BY <3>8, <4>3 DEF Waiting
        <5>2. w \in MaySend(r)
          BY <3>8, <4>3, <5>1 DEF MaySend
        <5> QED
          BY <2>1, <3>8, <4>1, <5>1, <5>2, AccountOfRow
      <4> QED
        BY <4>2, <4>3
    <3>9. CASE ProcessSettled(w) \/ AcquireBusy(w) \/ PhaseASettled(w) \/ PhaseCSettled(w)
      <4>1. PICK q \in Rows : cur[w] = q
        BY <3>9 DEF ProcessSettled, AcquireBusy, PhaseASettled, PhaseCSettled,
           TypeOK, Pass
      <4>2. Finish(w) /\ UNCHANGED <<status, taken, interrupted>>
        BY <3>9 DEF ProcessSettled, AcquireBusy, PhaseASettled, PhaseCSettled
      <4>3. Waiting(q)' => Waiting(q)
        BY <4>2 DEF Waiting
      <4> QED
        BY <3>8, <4>1, <4>2, <4>3
    <3>10. CASE ProcessLocally(w) \/ PhaseCAccepted(w) \/ FinalizeSkip(w)
      <4>1. PICK q \in Rows : cur[w] = q
        BY <3>10 DEF ProcessLocally, PhaseCAccepted, FinalizeSkip, TypeOK, Pass
      <4>2. Finish(w) /\ UNCHANGED <<taken, interrupted>>
        BY <3>10, Zenon DEF ProcessLocally, PhaseCAccepted, FinalizeSkip
      <4>3. \/ status' = status
            \/ \E s \in {"delivered", "accepted", "skipped"} :
                 status' = [status EXCEPT ![cur[w]] = s]
        BY <3>10, Zenon DEF ProcessLocally, PhaseCAccepted, FinalizeSkip
      <4>4. \A p \in Rows \ {q} : status'[p] = status[p]
        BY <4>1, <4>3 DEF TypeOK
      <4>5. Waiting(q)' => Waiting(q)
        BY <4>1, <4>3 DEF Waiting, TypeOK
      <4> QED
        BY <3>8, <4>1, <4>2, <4>4, <4>5
    <3>11. CASE ProcessQuietHours(w) \/ PhaseB0Postpone(w)
      <4>1. PICK q \in Rows : cur[w] = q /\ MayHandOver(w, q)
        BY <3>11 DEF ProcessQuietHours, PhaseB0Postpone, MayHandOver, TypeOK, Pass
      <4>2. /\ Finish(w) /\ UNCHANGED <<taken, interrupted>>
            /\ status' = [status EXCEPT ![cur[w]] = "queued"]
        BY <3>11, Zenon DEF ProcessQuietHours, PhaseB0Postpone, Postpone
      <4>3. \A p \in Rows \ {q} : status'[p] = status[p]
        BY <4>1, <4>2 DEF TypeOK
      <4> QED
        BY <3>8, <4>1, <4>2, <4>3
    <3>12. CASE PhaseCFailed(w)
      <4>1. PICK q \in Rows : cur[w] = q /\ MayHandOver(w, q)
        BY <3>12 DEF PhaseCFailed, MayHandOver, TypeOK, Pass
      <4>2. Finish(w) /\ UNCHANGED <<taken, interrupted>>
        BY <3>12, Zenon DEF PhaseCFailed
      <4>3. FailedAttempt(cur[w], outcome[w] = "perm_error" \/ Spent(cur[w]))
        BY <3>12, Zenon DEF PhaseCFailed
      <4>4. \A p \in Rows \ {q} : status'[p] = status[p]
        BY <4>1, <4>3 DEF FailedAttempt, TypeOK
      <4> QED
        BY <3>8, <4>1, <4>2, <4>4
    <3>13. CASE RecordFailure(w)
      <4>1. cur[w] \in Rows /\ Finish(w) /\ taken' = taken
        BY <3>13 DEF RecordFailure, TypeOK, Pass
      <4>2. MaySend(r)' \subseteq MaySend(r)
        BY <4>1, FinishGivesUp
      <4>3. CASE ~StillSending(w)
        BY <2>2, <3>13, <4>1, <4>2, <4>3 DEF RecordFailure, Waiting
      <4>4. CASE StillSending(w)
        <5>1. interrupted' = [interrupted EXCEPT ![cur[w]] = @ + 1]
          BY <3>13, <4>4, Zenon DEF RecordFailure
        <5>2. FailedAttempt(cur[w], Spent(cur[w]))
          BY <3>13, <4>4, Zenon DEF RecordFailure
        <5>3. CASE r = cur[w]
          BY <2>1, <4>1, <4>2, <5>1, <5>3, AccountOfRow DEF TypeOK
        <5>4. CASE r # cur[w]
          <6>1. status'[r] = status[r] /\ interrupted'[r] = interrupted[r]
            BY <5>1, <5>2, <5>4, <4>1 DEF FailedAttempt, TypeOK
          <6> QED
            BY <2>2, <4>1, <4>2, <6>1 DEF Waiting
        <5> QED
          BY <5>3, <5>4
      <4> QED
        BY <4>3, <4>4
    <3> QED
      BY <2>5, <3>2, <3>3, <3>4, <3>5, <3>6, <3>7, <3>9, <3>10, <3>11, <3>12, <3>13
         DEF WorkerStep, Failure, ProcessRow, ProcessExternalRow
  <2> QED
    BY <2>3, <2>4, <2>5 DEF Next
<1>3. TypeOK /\ CopiesAccounted => DuplicatesExplained
  <2> SUFFICES ASSUME TypeOK, CopiesAccounted, NEW r \in Rows
               PROVE  taken[r] <= 1 + interrupted[r]
    BY DEF DuplicatesExplained
  <2>1. IsFiniteSet(MaySend(r))
    BY FiniteAssumption, FS_Subset DEF MaySend
  <2>2. Cardinality(MaySend(r)) \in Nat
    BY <2>1, FS_CardinalityType
  <2> QED
    BY <2>2 DEF CopiesAccounted, Balanced, TypeOK
<1> QED
  BY <1>1, <1>2, <1>3, TypeCorrect, NeverTwice, PTL DEF Spec

-----------------------------------------------------------------------------
(* The promise: NotificationOutbox implements DeliveryPromise, an edited   *)
(* rule is silent, and a finished job is recorded once.                    *)

\* What every step keeps, used by the proofs below.
OfARule(r) == Kind[r] \in {"document", "rule_job"}

\* Only messages to a provider are ever sent, and only documents wait for a rule.
KindsOfSteps ==
    \A w \in Workers : pc[w] \in Locked \cup {"acquire", "ruleLock"} =>
        Kind[cur[w]] \in {"external", "document"}

\* A worker knows only rows that have been scheduled.
KnownRows ==
    \A w \in Workers : /\ \A r \in batch[w] : status[r] # "absent"
                       /\ cur[w] # NoRow => status[cur[w]] # "absent"

\* An administrator cancels no row of a rule, and none that was never scheduled.
CancelsOf ==
    \A r \in AdminRows : cancelRead[r] # "none" => status[r] # "absent" /\ ~OfARule(r)

\* The verdict "accepted" that waits for phase C is about a copy that was taken.
VerdictsHaveCopies ==
    \A w \in Workers : pc[w] = "phaseC" /\ outcome[w] = "accepted" => taken[cur[w]] > 0

\* While a rule's document is in phase B0 nothing but a failure settles it.
DocumentsInPhaseB0 ==
    \A w \in Workers : pc[w] = "phaseB0" /\ Kind[cur[w]] = "document" =>
        status[cur[w]] \in {"queued", "sending", "failed"}

\* Worker w takes a step: the others do not move, and nobody edits or cancels.
OnlyMoves(w) ==
    /\ \A v \in Workers \ {w} : /\ pc'[v] = pc[v] /\ cur'[v] = cur[v]
                                /\ batch'[v] = batch[v] /\ outcome'[v] = outcome[v]
    /\ cancelRead' = cancelRead /\ withdrawn' = withdrawn

LEMMA OneMoves ==
    ASSUME TypeOK, NEW w \in Workers, WorkerStep(w) \/ Failure(w)
    PROVE  OnlyMoves(w)
<1>1. CASE RecoverStaleLeases(w) \/ ClaimBatch(w) \/ ScanRulesAndReminders(w) \/ NextRow(w)
  BY <1>1 DEF RecoverStaleLeases, ClaimBatch, ScanRulesAndReminders, NextRow, Take, Goto,
     OnlyMoves, TypeOK
<1>2. CASE ProcessRow(w)
  BY <1>2 DEF ProcessRow, ProcessSettled, ProcessQuietHours, Postpone, ProcessLocally,
     ProcessExternal, Finish, Goto, OnlyMoves, TypeOK
<1>3. CASE AcquireBusy(w) \/ AcquireSendLock(w) \/ AcquireRuleLock(w) \/ PhaseASettled(w)
           \/ PhaseA(w) \/ FinalizeSkip(w)
  BY <1>3 DEF AcquireBusy, AcquireSendLock, AcquireRuleLock, PhaseASettled, PhaseA,
     FinalizeSkip, Finish, Goto, OnlyMoves, TypeOK
<1>4. CASE PhaseB0Postpone(w) \/ PhaseB0(w) \/ ProviderCall(w) \/ PhaseCSettled(w)
           \/ PhaseCAccepted(w) \/ PhaseCFailed(w)
  BY <1>4 DEF PhaseB0Postpone, Postpone, PhaseB0, ProviderCall, PhaseCSettled,
     PhaseCAccepted, PhaseCFailed, Finish, Goto, OnlyMoves, TypeOK
<1>5. CASE RecordFailure(w) \/ Failure(w)
  BY <1>5 DEF RecordFailure, Failure, InternalError, Crash, Finish, Goto, OnlyMoves, TypeOK
<1> QED
  BY <1>1, <1>2, <1>3, <1>4, <1>5 DEF WorkerStep, ProcessExternalRow

\* Requests and time move no worker.
LEMMA WorkersRest ==
    ASSUME Request \/ \E r \in Rows : Time(r)
    PROVE  UNCHANGED <<workers, taken>>
  BY DEF Request, Time, Schedule, AdminReadForCancel, AdminWriteCancel,
     AdminRetry, CancelPendingForObject, UpdateRule, LeaseLapses, BecomesDue

\* A scheduled row is never unscheduled.
LEMMA StaysKnown ==
    ASSUME TypeOK, [Next]_vars, NEW r \in Rows, status[r] # "absent"
    PROVE  status'[r] # "absent"
<1>1. CASE Request
  <2>1. CASE \E q \in Rows : Schedule(q) \/ AdminReadForCancel(q) \/ AdminWriteCancel(q)
    BY <2>1 DEF Schedule, AdminReadForCancel, AdminWriteCancel, TypeOK
  <2>2. CASE \E q, new \in Rows : AdminRetry(q, new)
    BY <2>2 DEF AdminRetry, TypeOK
  <2>3. CASE \E o \in Objects : CancelPendingForObject(o)
    BY <2>3 DEF CancelPendingForObject
  <2>4. CASE \E o \in Objects : UpdateRule(o)
    BY <2>4 DEF UpdateRule
  <2> QED
    BY <1>1, <2>1, <2>2, <2>3, <2>4 DEF Request
<1>2. CASE \E q \in Rows : Time(q)
  BY <1>2 DEF Time, LeaseLapses, BecomesDue
<1>3. ASSUME NEW w \in Workers, WorkerStep(w) \/ Failure(w)
      PROVE  status'[r] # "absent"
  <2>1. CASE RecoverStaleLeases(w)
    BY <2>1 DEF RecoverStaleLeases, Requeue
  <2>2. CASE ClaimBatch(w)
    BY <2>2 DEF ClaimBatch
  <2>3. CASE ProcessQuietHours(w) \/ ProcessLocally(w) \/ FinalizeSkip(w)
             \/ PhaseB0Postpone(w) \/ PhaseCAccepted(w)
    BY <2>3 DEF ProcessQuietHours, ProcessLocally, FinalizeSkip, PhaseB0Postpone,
       PhaseCAccepted, Postpone, TypeOK
  <2>4. CASE PhaseCFailed(w) \/ RecordFailure(w)
    BY <2>4 DEF PhaseCFailed, RecordFailure, FailedAttempt, TypeOK
  <2>5. CASE UNCHANGED status
    BY <2>5
  <2> QED
    BY <1>3, <2>1, <2>2, <2>3, <2>4, <2>5
       DEF WorkerStep, Failure, ScanRulesAndReminders, NextRow, ProcessRow,
           ProcessSettled, ProcessExternal, ProcessExternalRow, AcquireBusy,
           AcquireSendLock, AcquireRuleLock, PhaseASettled, PhaseA, PhaseB0,
           ProviderCall, PhaseCSettled, InternalError, Crash
<1> QED
  BY <1>1, <1>2, <1>3 DEF Next

\* A worker past "process" is at a row for a provider.
LEMMA KindsInductive == TypeOK /\ KindsOfSteps /\ [Next]_vars => KindsOfSteps'
<1> SUFFICES ASSUME TypeOK, KindsOfSteps, [Next]_vars
             PROVE  KindsOfSteps'
  OBVIOUS
<1>1. CASE UNCHANGED <<pc, cur>>
  BY <1>1 DEF KindsOfSteps
<1>2. CASE Request \/ \E r \in Rows : Time(r)
  BY <1>1, <1>2, WorkersRest
<1>3. ASSUME NEW w \in Workers, WorkerStep(w) \/ Failure(w)
      PROVE  KindsOfSteps'
  <2>1. OnlyMoves(w)
    BY <1>3, OneMoves
  <2>2. SUFFICES pc'[w] \in Locked \cup {"acquire", "ruleLock"}
                   => Kind[cur'[w]] \in {"external", "document"}
    BY <2>1 DEF OnlyMoves, KindsOfSteps
  <2>3. CASE Finish(w) \/ Failure(w)
    BY <2>3 DEF Finish, Failure, InternalError, Crash, Goto, Locked, TypeOK
  <2>4. CASE RecoverStaleLeases(w) \/ ClaimBatch(w) \/ ScanRulesAndReminders(w) \/ NextRow(w)
    BY <2>4 DEF RecoverStaleLeases, ClaimBatch, ScanRulesAndReminders, NextRow, Goto,
       Locked, TypeOK
  <2>5. CASE ProcessExternal(w)
    BY <2>5 DEF ProcessExternal
  <2>6. CASE AcquireSendLock(w) \/ AcquireRuleLock(w) \/ PhaseA(w) \/ PhaseB0(w) \/ ProviderCall(w)
    BY <2>6 DEF AcquireSendLock, AcquireRuleLock, PhaseA, PhaseB0, ProviderCall,
       KindsOfSteps, Locked
  <2> QED
    BY <1>3, <2>3, <2>4, <2>5, <2>6
       DEF WorkerStep, ProcessRow, ProcessExternalRow, ProcessSettled,
           ProcessQuietHours, ProcessLocally, AcquireBusy, PhaseASettled,
           FinalizeSkip, PhaseB0Postpone, PhaseCSettled, PhaseCAccepted,
           PhaseCFailed, RecordFailure
<1> QED
  BY <1>1, <1>2, <1>3 DEF Next

\* Workers and administrators know scheduled rows only.
LEMMA KnownInductive ==
    TypeOK /\ KnownRows /\ CancelsOf /\ [Next]_vars => KnownRows' /\ CancelsOf'
<1> SUFFICES ASSUME TypeOK, KnownRows, CancelsOf, [Next]_vars
             PROVE  KnownRows' /\ CancelsOf'
  OBVIOUS
<1>0. \A r \in Rows : status[r] # "absent" => status'[r] # "absent"
  BY StaysKnown
<1>1. CASE UNCHANGED <<cur, batch, cancelRead>>
  BY <1>0, <1>1, AdminAssumption DEF KnownRows, CancelsOf, TypeOK
<1>2. CASE Request \/ \E r \in Rows : Time(r)
  <2>1. UNCHANGED <<cur, batch>>
    BY <1>2, WorkersRest
  <2>2. KnownRows'
    BY <1>0, <2>1 DEF KnownRows, TypeOK
  <2>3. \A r \in AdminRows : cancelRead'[r] # "none" =>
          cancelRead[r] # "none" \/ (status[r] # "absent" /\ ~OfARule(r))
    BY <1>2 DEF Request, Time, Schedule, AdminReadForCancel, AdminWriteCancel,
       AdminRetry, CancelPendingForObject, UpdateRule, LeaseLapses, BecomesDue,
       OfARule, TypeOK
  <2> QED
    BY <1>0, <2>2, <2>3, AdminAssumption DEF CancelsOf, OfARule
<1>3. ASSUME NEW w \in Workers, WorkerStep(w) \/ Failure(w)
      PROVE  KnownRows' /\ CancelsOf'
  <2>1. OnlyMoves(w)
    BY <1>3, OneMoves
  <2>2. CancelsOf'
    BY <1>0, <2>1, AdminAssumption DEF OnlyMoves, CancelsOf, OfARule
  <2>3. SUFFICES /\ \A r \in batch'[w] : r \in Rows /\ status'[r] # "absent"
                 /\ cur'[w] # NoRow => cur'[w] \in Rows /\ status'[cur'[w]] # "absent"
    BY <1>0, <2>1, <2>2 DEF OnlyMoves, KnownRows, TypeOK
  <2>4. CASE ClaimBatch(w)
    BY <1>0, <2>4 DEF ClaimBatch, KnownRows, TypeOK
  <2>5. CASE NextRow(w)
    BY <1>0, <2>5 DEF NextRow, Take, KnownRows, TypeOK
  <2>6. CASE /\ batch'[w] \subseteq batch[w]
             /\ cur'[w] \in {cur[w], NoRow}
    BY <1>0, <2>6 DEF KnownRows, TypeOK
  <2>7. CASE Finish(w)
    BY <2>6, <2>7 DEF Finish, TypeOK
  <2>8. CASE ScanRulesAndReminders(w) \/ Failure(w)
    BY <2>6, <2>8 DEF ScanRulesAndReminders, Failure, InternalError, Crash, TypeOK
  <2> QED
    BY <1>3, <2>4, <2>5, <2>6, <2>7, <2>8
       DEF WorkerStep, RecoverStaleLeases, ProcessRow, ProcessExternalRow, ProcessSettled,
           ProcessQuietHours, ProcessLocally, ProcessExternal, AcquireBusy, AcquireSendLock,
           AcquireRuleLock, PhaseASettled, PhaseA, FinalizeSkip, PhaseB0Postpone, PhaseB0,
           ProviderCall, PhaseCSettled, PhaseCAccepted, PhaseCFailed, RecordFailure
<1> QED
  BY <1>1, <1>2, <1>3 DEF Next

LEMMA KindsAndKnown == Spec => [](KindsOfSteps /\ KnownRows /\ CancelsOf)
<1>1. Init => KindsOfSteps /\ KnownRows /\ CancelsOf
  BY AdminAssumption DEF Init, KindsOfSteps, KnownRows, CancelsOf, Locked
<1>2. TypeOK /\ KindsOfSteps /\ KnownRows /\ CancelsOf /\ [Next]_vars
        => (KindsOfSteps /\ KnownRows /\ CancelsOf)'
  BY KindsInductive, KnownInductive
<1> QED
  BY <1>1, <1>2, TypeCorrect, PTL DEF Spec

-----------------------------------------------------------------------------
\* A disabled or edited rule is silent: none of the rows it had is sent
\* afterwards, or on its way (update_rule cancels them under the lock that a
\* worker holds while it sends one of them).
THEOREM EditedRuleIsSilent == Spec => []RuleUpdateStops
<1>1. Init => RuleUpdateStops
  BY DEF Init, RuleUpdateStops
<1>2. TypeOK /\ KindsOfSteps /\ KnownRows /\ CancelsOf /\ RuleUpdateStops /\ [Next]_vars
        => RuleUpdateStops'
  <2> SUFFICES ASSUME TypeOK, KindsOfSteps, KnownRows, CancelsOf, RuleUpdateStops, [Next]_vars,
                      NEW r \in withdrawn', OfARule(r)
               PROVE  /\ status'[r] \in Terminal
                      /\ \A w \in Workers : cur'[w] = r => pc'[w] \notin {"phaseB0", "call", "phaseC"}
    BY DEF RuleUpdateStops, OfARule
  <2>0. r \in withdrawn => /\ r \in Rows /\ status[r] \in Terminal
                           /\ \A w \in Workers : cur[w] = r => pc[w] \notin {"phaseB0", "call", "phaseC"}
    BY DEF RuleUpdateStops, OfARule, TypeOK
  <2>1. CASE UNCHANGED <<status, withdrawn, pc, cur>>
    BY <2>0, <2>1
  <2>2. CASE Request \/ \E q \in Rows : Time(q)
    <3>1. UNCHANGED <<pc, cur>>
      BY <2>2, WorkersRest
    <3>2. ASSUME NEW q \in Rows,
                 Schedule(q) \/ AdminReadForCancel(q) \/ AdminWriteCancel(q) \/ Time(q)
          PROVE  status'[r] \in Terminal /\ r \in withdrawn
      BY <2>0, <3>2 DEF Schedule, AdminReadForCancel, AdminWriteCancel, CancelsOf, OfARule,
         Time, LeaseLapses, BecomesDue, Terminal, TypeOK
    <3>3. ASSUME NEW q \in Rows, NEW new \in Rows, AdminRetry(q, new)
          PROVE  status'[r] \in Terminal /\ r \in withdrawn
      BY <2>0, <3>3 DEF AdminRetry, Terminal, TypeOK
    <3>4. ASSUME NEW o \in Objects, CancelPendingForObject(o)
          PROVE  status'[r] \in Terminal /\ r \in withdrawn
      BY <2>0, <3>4 DEF CancelPendingForObject, OfARule, Terminal, TypeOK
    <3>5. ASSUME NEW o \in Objects, UpdateRule(o)
          PROVE  /\ status'[r] \in Terminal
                 /\ \A w \in Workers : cur[w] = r => pc[w] \notin {"phaseB0", "call", "phaseC"}
      <4> DEFINE planned == {q \in Rows : /\ ObjectOf[q] = o
                                          /\ Kind[q] \in {"document", "rule_job"}
                                          /\ status[q] # "absent"}
      <4>1. /\ \A w \in Workers : ~HoldsRule(w, o)
            /\ status' = [q \in Rows |-> IF q \in planned /\ status[q] \in {"queued", "sending"}
                                         THEN "cancelled" ELSE status[q]]
            /\ withdrawn' = withdrawn \cup planned
        BY <3>5 DEF UpdateRule
      <4>2. CASE r \in withdrawn
        BY <2>0, <4>1, <4>2 DEF Terminal
      <4>3. CASE r \in planned
        <5>1. status'[r] \in Terminal
          BY <4>1, <4>3 DEF Terminal, Statuses, TypeOK
        <5>2. ASSUME NEW w \in Workers, cur[w] = r, pc[w] \in {"phaseB0", "call", "phaseC"}
              PROVE  FALSE
          <6>1. Kind[r] = "document"
            BY <4>3, <5>2 DEF KindsOfSteps, Locked
          <6> QED
            BY <4>1, <4>3, <5>2, <6>1 DEF HoldsRule, Locked
        <5> QED
          BY <5>1, <5>2
      <4> QED
        BY <4>1, <4>2, <4>3
    <3> QED
      BY <2>0, <2>2, <3>1, <3>2, <3>3, <3>4, <3>5 DEF Request
  <2>3. ASSUME NEW w \in Workers, WorkerStep(w) \/ Failure(w)
        PROVE  /\ status'[r] \in Terminal
               /\ \A v \in Workers : cur'[v] = r => pc'[v] \notin {"phaseB0", "call", "phaseC"}
    <3>1. OnlyMoves(w)
      BY <2>3, OneMoves
    <3>2. /\ r \in Rows /\ status[r] \in Terminal
          /\ \A v \in Workers : cur[v] = r => pc[v] \notin {"phaseB0", "call", "phaseC"}
      BY <2>0, <3>1 DEF OnlyMoves
    <3>3. SUFFICES /\ status'[r] \in Terminal
                   /\ cur'[w] = r => pc'[w] \notin {"phaseB0", "call", "phaseC"}
      BY <3>1, <3>2 DEF OnlyMoves
    <3>4. status[r] \notin {"sending", "queued"}
      BY <3>2 DEF Terminal
    \* The row is settled, and its document is not in phase B0: nothing writes its status.
    <3>5. status'[r] = status[r]
      <4>1. CASE RecoverStaleLeases(w)
        BY <3>2, <3>4, <4>1 DEF RecoverStaleLeases, Requeue, Stale
      <4>2. CASE ClaimBatch(w)
        BY <3>2, <3>4, <4>2 DEF ClaimBatch
      <4>3. CASE ProcessQuietHours(w) \/ ProcessLocally(w) \/ FinalizeSkip(w) \/ PhaseCAccepted(w)
        BY <3>2, <3>4, <4>3 DEF ProcessQuietHours, ProcessLocally, FinalizeSkip,
           PhaseCAccepted, Postpone, StillSending, TypeOK
      <4>4. CASE PhaseB0Postpone(w)
        BY <3>2, <4>4 DEF PhaseB0Postpone, Postpone, TypeOK
      <4>5. CASE PhaseCFailed(w) \/ RecordFailure(w)
        BY <3>2, <3>4, <4>5 DEF PhaseCFailed, RecordFailure, FailedAttempt, StillSending, TypeOK
      <4>6. CASE UNCHANGED status
        BY <4>6
      <4> QED
        BY <2>3, <4>1, <4>2, <4>3, <4>4, <4>5, <4>6
           DEF WorkerStep, Failure, ScanRulesAndReminders, NextRow, ProcessRow,
               ProcessSettled, ProcessExternal, ProcessExternalRow, AcquireBusy,
               AcquireSendLock, AcquireRuleLock, PhaseASettled, PhaseA, PhaseB0,
               ProviderCall, PhaseCSettled, InternalError, Crash
    <3>6. cur'[w] = r => pc'[w] \notin {"phaseB0", "call", "phaseC"}
      <4>1. CASE Finish(w) \/ Failure(w)
        BY <4>1 DEF Finish, Failure, InternalError, Crash, Goto, TypeOK
      <4>2. CASE RecoverStaleLeases(w) \/ ClaimBatch(w) \/ ScanRulesAndReminders(w) \/ NextRow(w)
                 \/ ProcessExternal(w) \/ AcquireSendLock(w) \/ AcquireRuleLock(w)
        BY <4>2 DEF RecoverStaleLeases, ClaimBatch, ScanRulesAndReminders, NextRow, Goto,
           ProcessExternal, AcquireSendLock, AcquireRuleLock, TypeOK
      <4>3. CASE PhaseA(w)
        BY <3>4, <4>3 DEF PhaseA, StillSending
      <4>4. CASE PhaseB0(w) \/ ProviderCall(w)
        BY <3>2, <4>4 DEF PhaseB0, ProviderCall
      <4> QED
        BY <2>3, <4>1, <4>2, <4>3, <4>4
           DEF WorkerStep, ProcessRow, ProcessExternalRow, ProcessSettled,
               ProcessQuietHours, ProcessLocally, AcquireBusy, PhaseASettled,
               FinalizeSkip, PhaseB0Postpone, PhaseCSettled, PhaseCAccepted,
               PhaseCFailed, RecordFailure
    <3> QED
      BY <3>2, <3>5, <3>6
  <2> QED
    BY <2>1, <2>2, <2>3 DEF Next
<1> QED
  BY <1>1, <1>2, TypeCorrect, KindsAndKnown, PTL DEF Spec

-----------------------------------------------------------------------------
\* A rule job has its execution record exactly when it is finished, whichever
\* way it finished: done, given up by a worker or by lease recovery, or
\* cancelled with its rule (document_rules.execution).
THEOREM JobsRecordedOnce == Spec => []RuleJobRecordedOnce
<1>1. Init => RuleJobRecordedOnce
  BY DEF Init, RuleJobRecordedOnce, Terminal
<1>2. TypeOK /\ KindsOfSteps /\ CancelsOf /\ RuleJobRecordedOnce /\ [Next]_vars
        => RuleJobRecordedOnce'
  <2> SUFFICES ASSUME TypeOK, KindsOfSteps, CancelsOf, RuleJobRecordedOnce, [Next]_vars,
                      NEW r \in Rows, Kind[r] = "rule_job"
               PROVE  effects'[r] = IF status'[r] \in Terminal THEN 1 ELSE 0
    BY DEF RuleJobRecordedOnce
  <2>0. /\ effects[r] = IF status[r] \in Terminal THEN 1 ELSE 0
        /\ status[r] \in {"absent", "queued", "sending"} <=> status[r] \notin Terminal
    BY DEF RuleJobRecordedOnce, TypeOK, Statuses, Terminal
  <2> USE DEF Terminal
  <2>1. CASE status'[r] = status[r] /\ effects'[r] = effects[r]
    BY <2>0, <2>1
  <2>2. CASE \E q \in Rows : Time(q)
    BY <2>1, <2>2 DEF Time, LeaseLapses, BecomesDue
  <2>3. CASE Request
    <3>1. CASE \E q \in Rows : Schedule(q) \/ AdminReadForCancel(q)
      BY <2>0, <3>1 DEF Schedule, AdminReadForCancel, TypeOK
    <3>2. CASE \E q \in Rows : AdminWriteCancel(q)
      BY <2>1, <3>2 DEF AdminWriteCancel, CancelsOf, OfARule, TypeOK
    <3>3. CASE \E q, new \in Rows : AdminRetry(q, new)
      BY <2>1, <3>3 DEF AdminRetry, TypeOK
    <3>4. CASE \E o \in Objects : CancelPendingForObject(o)
      BY <2>1, <3>4 DEF CancelPendingForObject
    <3>5. CASE \E o \in Objects : UpdateRule(o)
      BY <2>0, <3>5 DEF UpdateRule, RecordExecution
    <3> QED
      BY <2>3, <3>1, <3>2, <3>3, <3>4, <3>5 DEF Request
  <2>4. ASSUME NEW w \in Workers, WorkerStep(w) \/ Failure(w)
        PROVE  effects'[r] = IF status'[r] \in Terminal THEN 1 ELSE 0
    <3>1. CASE RecoverStaleLeases(w)
      <4>1. PICK S \in SUBSET Stale : Requeue(S)
        BY <3>1 DEF RecoverStaleLeases
      <4>2. /\ status'[r] = IF r \notin S THEN status[r]
                            ELSE IF Spent(r) THEN "failed" ELSE "queued"
            /\ effects'[r] = IF r \in S /\ Spent(r) THEN effects[r] + 1 ELSE effects[r]
        BY <4>1 DEF Requeue, RecordExecution
      <4>3. r \in S => status[r] = "sending"
        BY <4>1 DEF Stale
      <4> QED
        BY <2>0, <4>2, <4>3
    <3>2. CASE ClaimBatch(w)
      BY <2>0, <3>2 DEF ClaimBatch
    <3>3. CASE ProcessQuietHours(w)
      BY <2>0, <3>3 DEF ProcessQuietHours, Postpone, StillSending, TypeOK
    <3>4. CASE ProcessLocally(w)
      <4>1. cur[w] # r => status'[r] = status[r] /\ effects'[r] = effects[r]
        BY <3>4 DEF ProcessLocally, DeliverInApp, RecordExecution, TypeOK
      <4>2. cur[w] = r => status[r] = "sending" /\ status'[r] = "delivered"
                          /\ effects'[r] = effects[r] + 1
        BY <3>4 DEF ProcessLocally, StillSending, RecordExecution, TypeOK
      <4> QED
        BY <2>0, <2>1, <4>1, <4>2
    \* What goes to a provider is no rule job.
    <3>5. CASE FinalizeSkip(w) \/ PhaseB0Postpone(w) \/ PhaseCAccepted(w) \/ PhaseCFailed(w)
      <4>1. cur[w] # r /\ effects' = effects
        BY <3>5 DEF FinalizeSkip, PhaseB0Postpone, PhaseCAccepted, PhaseCFailed,
           KindsOfSteps, Locked
      <4>2. status' = status \/ \E s \in Statuses : status' = [status EXCEPT ![cur[w]] = s]
        BY <3>5 DEF FinalizeSkip, PhaseB0Postpone, Postpone, PhaseCAccepted, PhaseCFailed,
           FailedAttempt, Statuses
      <4> QED
        BY <2>1, <4>1, <4>2 DEF TypeOK
    <3>6. CASE RecordFailure(w)
      <4>1. CASE ~StillSending(w)
        BY <2>1, <3>6, <4>1 DEF RecordFailure
      <4>2. CASE StillSending(w)
        <5>1. /\ FailedAttempt(cur[w], Spent(cur[w]))
              /\ RecordExecution(IF Spent(cur[w]) THEN {cur[w]} ELSE {})
          BY <3>6, <4>2, Zenon DEF RecordFailure
        <5>2. cur[w] # r => status'[r] = status[r] /\ effects'[r] = effects[r]
          BY <5>1 DEF FailedAttempt, RecordExecution, TypeOK
        <5>3. cur[w] = r =>
                /\ status'[r] = IF Spent(r) THEN "failed" ELSE "queued"
                /\ effects'[r] = IF Spent(r) THEN effects[r] + 1 ELSE effects[r]
          BY <5>1 DEF FailedAttempt, RecordExecution, TypeOK
        <5> QED
          BY <2>0, <2>1, <4>2, <5>2, <5>3 DEF StillSending
      <4> QED
        BY <4>1, <4>2
    <3>7. CASE UNCHANGED <<status, effects>>
      BY <2>1, <3>7
    <3> QED
      BY <2>4, <3>1, <3>2, <3>3, <3>4, <3>5, <3>6, <3>7
         DEF WorkerStep, Failure, ScanRulesAndReminders, NextRow, ProcessRow,
             ProcessSettled, ProcessExternal, ProcessExternalRow, AcquireBusy,
             AcquireSendLock, AcquireRuleLock, PhaseASettled, PhaseA, PhaseB0,
             ProviderCall, PhaseCSettled, InternalError, Crash
  <2>5. CASE UNCHANGED vars
    BY <2>1, <2>5
  <2> QED
    BY <2>2, <2>3, <2>4, <2>5 DEF Next
<1> QED
  BY <1>1, <1>2, TypeCorrect, KindsAndKnown, PTL DEF Spec

\* What a rule does is on record once, and a rule that is edited or disabled sends
\* nothing more of what it was (document_rules.execution, routers/document_rules.update).
THEOREM RulesObeyed == Spec => []RulesAreObeyed
BY EditedRuleIsSilent, JobsRecordedOnce, PTL DEF RulesAreObeyed

-----------------------------------------------------------------------------
\* What a verdict and a document in phase B0 are about is kept by every step.
LEMMA VerdictsInductive ==
    TypeOK /\ VerdictsHaveCopies /\ [Next]_vars => VerdictsHaveCopies'
<1> SUFFICES ASSUME TypeOK, VerdictsHaveCopies, [Next]_vars
             PROVE  VerdictsHaveCopies'
  OBVIOUS
<1>1. CASE UNCHANGED <<pc, cur, outcome, taken>>
  BY <1>1 DEF VerdictsHaveCopies
<1>2. CASE Request \/ \E r \in Rows : Time(r)
  BY <1>1, <1>2, WorkersRest
<1>3. ASSUME NEW w \in Workers, WorkerStep(w) \/ Failure(w)
      PROVE  VerdictsHaveCopies'
  <2>1. OnlyMoves(w)
    BY <1>3, OneMoves
  <2>2. CASE ProviderCall(w)
    <3>1. cur[w] \in Rows /\ cur' = cur
      BY <2>2 DEF ProviderCall, TypeOK, Pass
    <3>2. \A r \in Rows : taken[r] > 0 => taken'[r] > 0
      BY <2>2 DEF ProviderCall, TypeOK
    <3>3. outcome'[w] = "accepted" => taken'[cur[w]] > 0
      BY <2>2, <3>1 DEF ProviderCall, TypeOK
    <3>4. \A v \in Workers : pc[v] = "phaseC" => cur[v] \in Rows
      BY DEF TypeOK, Pass
    <3> QED
      BY <2>1, <3>1, <3>2, <3>3, <3>4 DEF OnlyMoves, VerdictsHaveCopies
  <2>3. CASE taken' = taken /\ pc'[w] # "phaseC"
    BY <2>1, <2>3 DEF OnlyMoves, VerdictsHaveCopies
  <2>4. CASE taken' = taken /\ Finish(w)
    BY <2>3, <2>4 DEF Finish, Goto, TypeOK
  <2> QED
    BY <1>3, <2>2, <2>3, <2>4
       DEF WorkerStep, Failure, RecoverStaleLeases, ClaimBatch, ScanRulesAndReminders,
           NextRow, ProcessRow, ProcessSettled, ProcessQuietHours, ProcessLocally,
           ProcessExternal, ProcessExternalRow, AcquireBusy, AcquireSendLock,
           AcquireRuleLock, PhaseASettled, PhaseA, FinalizeSkip, PhaseB0Postpone, PhaseB0,
           PhaseCSettled, PhaseCAccepted, PhaseCFailed, RecordFailure, InternalError,
           Crash, Goto, TypeOK
<1> QED
  BY <1>1, <1>2, <1>3 DEF Next

LEMMA PhaseB0Inductive ==
    TypeOK /\ KindsOfSteps /\ CancelsOf /\ OneSenderPerRow /\ DocumentsInPhaseB0 /\ [Next]_vars
      => DocumentsInPhaseB0'
<1> SUFFICES ASSUME TypeOK, KindsOfSteps, CancelsOf, OneSenderPerRow, DocumentsInPhaseB0,
                    [Next]_vars,
                    NEW v \in Workers, pc'[v] = "phaseB0", Kind[cur'[v]] = "document"
             PROVE  status'[cur'[v]] \in {"queued", "sending", "failed"}
  BY DEF DocumentsInPhaseB0
<1>0. pc[v] = "phaseB0" /\ cur'[v] = cur[v] =>
        cur[v] \in Rows /\ Kind[cur[v]] = "document"
        /\ status[cur[v]] \in {"queued", "sending", "failed"}
  BY DEF DocumentsInPhaseB0, TypeOK, Pass
<1>1. CASE UNCHANGED <<pc, cur, status>>
  BY <1>0, <1>1
<1>2. CASE Request \/ \E r \in Rows : Time(r)
  <2>1. UNCHANGED <<pc, cur>>
    BY <1>2, WorkersRest
  <2>2. CASE \E r \in Rows : Schedule(r) \/ AdminReadForCancel(r) \/ AdminWriteCancel(r)
    BY <1>0, <2>1, <2>2 DEF Schedule, AdminReadForCancel, AdminWriteCancel, CancelsOf,
       OfARule, TypeOK
  <2>3. CASE \E r, new \in Rows : AdminRetry(r, new)
    BY <1>0, <2>1, <2>3 DEF AdminRetry, TypeOK
  <2>4. CASE \E o \in Objects : CancelPendingForObject(o)
    BY <1>0, <2>1, <2>4 DEF CancelPendingForObject
  \* The rule's edit waits for the worker.
  <2>5. ASSUME NEW o \in Objects, UpdateRule(o)
        PROVE  status'[cur'[v]] \in {"queued", "sending", "failed"}
    <3>1. HoldsRule(v, ObjectOf[cur[v]])
      BY <1>0, <2>1 DEF HoldsRule, Locked
    <3>2. ObjectOf[cur[v]] # o
      BY <2>5, <3>1 DEF UpdateRule
    <3> QED
      BY <1>0, <2>1, <2>5, <3>2 DEF UpdateRule
  <2>6. CASE \E r \in Rows : Time(r)
    BY <1>1, <2>1, <2>6 DEF Time, LeaseLapses, BecomesDue
  <2> QED
    BY <1>2, <2>2, <2>3, <2>4, <2>5, <2>6 DEF Request
<1>3. ASSUME NEW w \in Workers, WorkerStep(w) \/ Failure(w)
      PROVE  status'[cur'[v]] \in {"queued", "sending", "failed"}
  <2>1. OnlyMoves(w)
    BY <1>3, OneMoves
  <2>2. CASE PhaseA(w)
    BY <1>0, <1>1, <2>1, <2>2 DEF PhaseA, StillSending, OnlyMoves
  <2>3. CASE pc'[w] # "phaseB0"
    <3>1. v # w
      BY <2>3
    <3>2. pc[v] = "phaseB0" /\ cur'[v] = cur[v]
      BY <2>1, <3>1 DEF OnlyMoves
    <3>3. pc[w] \in Locked => cur[w] # cur[v]
      BY <3>1, <3>2 DEF OneSenderPerRow, Locked
    <3>4. CASE RecoverStaleLeases(w)
      BY <1>0, <3>2, <3>4 DEF RecoverStaleLeases, Requeue
    <3>5. CASE ClaimBatch(w)
      BY <1>0, <3>2, <3>5 DEF ClaimBatch
    <3>6. CASE ProcessQuietHours(w)
      BY <1>0, <3>2, <3>6 DEF ProcessQuietHours, Postpone, TypeOK
    <3>7. CASE ProcessLocally(w)
      BY <1>0, <3>2, <3>7 DEF ProcessLocally, TypeOK
    <3>8. CASE FinalizeSkip(w) \/ PhaseB0Postpone(w) \/ PhaseCAccepted(w) \/ PhaseCFailed(w)
      <4>1. cur[w] # cur[v]
        BY <3>3, <3>8 DEF FinalizeSkip, PhaseB0Postpone, PhaseCAccepted, PhaseCFailed, Locked
      <4>2. status' = status \/ \E s \in Statuses : status' = [status EXCEPT ![cur[w]] = s]
        BY <3>8 DEF FinalizeSkip, PhaseB0Postpone, Postpone, PhaseCAccepted, PhaseCFailed,
           FailedAttempt, Statuses
      <4> QED
        BY <1>0, <3>2, <4>1, <4>2 DEF TypeOK
    <3>9. CASE RecordFailure(w)
      BY <1>0, <3>2, <3>9 DEF RecordFailure, FailedAttempt, TypeOK
    <3>10. CASE UNCHANGED status
      BY <1>0, <3>2, <3>10
    <3> QED
      BY <1>3, <2>3, <3>4, <3>5, <3>6, <3>7, <3>8, <3>9, <3>10
         DEF WorkerStep, Failure, ScanRulesAndReminders, NextRow, ProcessRow,
             ProcessSettled, ProcessExternal, ProcessExternalRow, AcquireBusy,
             AcquireSendLock, AcquireRuleLock, PhaseASettled, PhaseA, PhaseB0,
             ProviderCall, PhaseCSettled, InternalError, Crash
  <2> QED
    BY <1>3, <2>2, <2>3
       DEF WorkerStep, Failure, RecoverStaleLeases, ClaimBatch, ScanRulesAndReminders,
           NextRow, ProcessRow, ProcessSettled, ProcessQuietHours, ProcessLocally,
           ProcessExternal, ProcessExternalRow, AcquireBusy, AcquireSendLock,
           AcquireRuleLock, PhaseASettled, FinalizeSkip, PhaseB0Postpone, PhaseB0,
           ProviderCall, PhaseCSettled, PhaseCAccepted, PhaseCFailed, RecordFailure,
           InternalError, Crash, Finish, Goto, TypeOK
<1> QED
  BY <1>1, <1>2, <1>3 DEF Next

\* What the refinement rests on, besides the types.
Underway == KindsOfSteps /\ KnownRows /\ CancelsOf /\ OneSenderPerRow
            /\ VerdictsHaveCopies /\ DocumentsInPhaseB0

LEMMA AlwaysUnderway == Spec => []Underway
<1>1. Init => VerdictsHaveCopies /\ DocumentsInPhaseB0
  BY DEF Init, VerdictsHaveCopies, DocumentsInPhaseB0
<1> QED
  BY <1>1, TypeCorrect, MutualExclusion, KindsAndKnown, VerdictsInductive, PhaseB0Inductive,
     PTL DEF Spec, Underway

-----------------------------------------------------------------------------
\* The refinement, row by row.
FateOf(s) == CASE s = "absent" -> "absent"
               [] s \in {"queued", "sending"} -> "pending"
               [] s \in {"delivered", "accepted"} -> "reached"
               [] s = "cancelled" -> "withdrawn"
               [] s \in {"failed", "skipped"} -> "failed"

\* Worker w has a delivery of row r open.
Delivers(w, r) == cur[w] = r /\ pc[w] \in {"phaseB0", "call"}

\* The step does nothing that the promise can see of row r.
Unseen(r) == status'[r] = status[r] /\ taken'[r] = taken[r] /\ effects'[r] = effects[r]

LEMMA PromiseOfRow ==
    ASSUME TypeOK, TypeOK', NEW r \in Rows
    PROVE  /\ fateOf[r] = FateOf(status[r]) /\ fateOf'[r] = FateOf(status'[r])
           /\ openOf[r] = \E w \in Workers : Delivers(w, r)
           /\ openOf'[r] = \E w \in Workers : Delivers(w, r)'
           /\ Kind[r] \in {"external", "document"} =>
                copiesOf[r] = taken[r] /\ copiesOf'[r] = taken'[r]
           /\ Kind[r] = "in_app" =>
                copiesOf[r] = effects[r] /\ copiesOf'[r] = effects'[r]
           /\ Kind[r] = "rule_job" =>
                /\ copiesOf[r] = IF status[r] = "delivered" THEN 1 ELSE 0
                /\ copiesOf'[r] = IF status'[r] = "delivered" THEN 1 ELSE 0
<1>1. fateOf[r] = FateOf(status[r]) /\ fateOf'[r] = FateOf(status'[r])
  BY DEF fateOf, FateOf
<1>2. /\ openOf[r] = \E w \in Workers : Delivers(w, r)
      /\ openOf'[r] = \E w \in Workers : Delivers(w, r)'
  BY DEF openOf, Delivers
<1>3. /\ Kind[r] \in {"external", "document"} =>
                copiesOf[r] = taken[r] /\ copiesOf'[r] = taken'[r]
      /\ Kind[r] = "in_app" =>
                copiesOf[r] = effects[r] /\ copiesOf'[r] = effects'[r]
      /\ Kind[r] = "rule_job" =>
                /\ copiesOf[r] = IF status[r] = "delivered" THEN 1 ELSE 0
                /\ copiesOf'[r] = IF status'[r] = "delivered" THEN 1 ELSE 0
  BY DEF copiesOf
<1> QED
  BY <1>1, <1>2, <1>3

\* One worker's step opens, closes or leaves the delivery of a row.
LEMMA OpenOfRow ==
    ASSUME TypeOK, TypeOK', OneSenderPerRow, OneSenderPerRow',
           NEW w \in Workers, OnlyMoves(w), NEW r \in Rows
    PROVE  /\ (Delivers(w, r)' <=> Delivers(w, r)) => openOf'[r] = openOf[r]
           /\ Delivers(w, r) => openOf[r]
           /\ Delivers(w, r) /\ ~Delivers(w, r)' => ~openOf'[r]
           /\ ~Delivers(w, r) /\ Delivers(w, r)' => ~openOf[r] /\ openOf'[r]
<1>1. \A v \in Workers \ {w} : Delivers(v, r)' <=> Delivers(v, r)
  BY DEF OnlyMoves, Delivers
<1>2. /\ openOf[r] = \E v \in Workers : Delivers(v, r)
      /\ openOf'[r] = \E v \in Workers : Delivers(v, r)'
  BY PromiseOfRow
<1>3. Delivers(w, r) => \A v \in Workers \ {w} : ~Delivers(v, r)
  BY DEF OneSenderPerRow, Delivers, Locked
<1>4. Delivers(w, r)' => \A v \in Workers \ {w} : ~Delivers(v, r)'
  BY DEF OneSenderPerRow, Delivers, Locked
<1> HIDE DEF Delivers
<1> QED
  BY <1>1, <1>2, <1>3, <1>4

LEMMA UnseenKeeps ==
    ASSUME TypeOK, TypeOK', NEW r \in Rows, Unseen(r), openOf'[r] = openOf[r]
    PROVE  Promise!Step(r)
<1>1. fateOf'[r] = fateOf[r] /\ copiesOf'[r] = copiesOf[r]
  BY KindAssumption, PromiseOfRow DEF Unseen, Kinds
<1> QED
  BY <1>1 DEF Promise!Step, Promise!Keeps

\* A row settled by a worker, an administrator or a rule's edit.
LEMMA SettledRow ==
    ASSUME TypeOK, TypeOK', NEW r \in Rows, openOf'[r] => openOf[r],
           status[r] \in {"queued", "sending"},
           \/ status'[r] \in {"failed", "skipped", "cancelled"}
           \/ status'[r] = "accepted" /\ copiesOf[r] > 0,
           taken'[r] = taken[r], Kind[r] = "in_app" => effects'[r] = effects[r]
    PROVE  Promise!Step(r)
<1>1. fateOf[r] = "pending"
  BY PromiseOfRow DEF FateOf
<1>2. /\ fateOf'[r] \in {"failed", "withdrawn", "reached"}
      /\ fateOf'[r] = "reached" => status'[r] = "accepted" /\ copiesOf[r] > 0
  BY PromiseOfRow DEF FateOf
<1>3. copiesOf'[r] = copiesOf[r]
  BY KindAssumption, PromiseOfRow DEF Kinds
<1> QED
  BY <1>1, <1>2, <1>3 DEF Promise!Step, Promise!Settle, Promise!Settled

\* A row put into the queue: nobody delivers it yet.
LEMMA SubmittedRow ==
    ASSUME TypeOK, TypeOK', KnownRows, NEW r \in Rows, UNCHANGED <<pc, cur>>,
           status[r] = "absent", status'[r] = "queued", UNCHANGED <<taken, effects>>
    PROVE  Promise!Step(r)
<1>1. ~openOf'[r]
  <2>1. \A w \in Workers : ~Delivers(w, r)'
    BY NullAssumption DEF KnownRows, Delivers
  <2> QED
    BY <2>1, PromiseOfRow
<1>2. fateOf[r] = "absent" /\ fateOf'[r] = "pending"
  BY PromiseOfRow DEF FateOf
<1>3. copiesOf'[r] = copiesOf[r]
  BY KindAssumption, PromiseOfRow DEF Kinds
<1> QED
  BY <1>1, <1>2, <1>3 DEF Promise!Step, Promise!Submit

\* Users, administrators and time keep the promise for every row.
LEMMA RequestKeepsPromise ==
    ASSUME TypeOK, TypeOK', KnownRows, CancelsOf, Request \/ \E q \in Rows : Time(q),
           NEW r \in Rows
    PROVE  Promise!Step(r)
<1>1. UNCHANGED <<pc, cur, taken>>
  BY WorkersRest
<1>2. openOf'[r] = openOf[r]
  <2>1. \A w \in Workers : Delivers(w, r)' <=> Delivers(w, r)
    BY <1>1 DEF Delivers
  <2> QED
    BY <2>1, PromiseOfRow
<1>3. CASE Unseen(r)
  BY <1>2, <1>3, UnseenKeeps
<1>4. ASSUME NEW q \in Rows, Schedule(q)
      PROVE  Promise!Step(r)
  <2>1. UNCHANGED <<taken, effects>> /\ status[q] = "absent"
        /\ status' = [status EXCEPT ![q] = "queued"]
    BY <1>4 DEF Schedule
  <2>2. CASE q = r
    BY <1>1, <2>1, <2>2, SubmittedRow DEF TypeOK
  <2>3. CASE q # r
    BY <1>3, <2>1, <2>3 DEF Unseen, TypeOK
  <2> QED
    BY <2>2, <2>3
<1>5. ASSUME NEW q \in Rows, NEW new \in Rows, AdminRetry(q, new)
      PROVE  Promise!Step(r)
  <2>1. UNCHANGED <<taken, effects>> /\ status[new] = "absent"
        /\ status' = [status EXCEPT ![new] = "queued"]
    BY <1>5 DEF AdminRetry
  <2>2. CASE new = r
    BY <1>1, <2>1, <2>2, SubmittedRow DEF TypeOK
  <2>3. CASE new # r
    BY <1>3, <2>1, <2>3 DEF Unseen, TypeOK
  <2> QED
    BY <2>2, <2>3
<1>6. ASSUME NEW q \in Rows, AdminReadForCancel(q) \/ Time(q)
      PROVE  Promise!Step(r)
  BY <1>3, <1>6 DEF AdminReadForCancel, Time, LeaseLapses, BecomesDue, Unseen
<1>7. ASSUME NEW q \in Rows, AdminWriteCancel(q)
      PROVE  Promise!Step(r)
  <2>1. UNCHANGED <<taken, effects>>
        /\ (status' = status \/ status' = [status EXCEPT ![q] = "cancelled"])
        /\ q \in AdminRows /\ status[q] # "absent" /\ Kind[q] \in {"in_app", "external"}
    BY <1>7, KindAssumption DEF AdminWriteCancel, CancelsOf, OfARule, Kinds
  <2>2. CASE status'[r] = status[r]
    BY <1>3, <2>1, <2>2 DEF Unseen
  <2>3. CASE status'[r] # status[r]
    <3>1. q = r /\ status'[r] = "cancelled"
      BY <2>1, <2>3 DEF TypeOK
    <3>2. CASE status[r] \in {"queued", "sending"}
      BY <1>1, <1>2, <2>1, <3>1, <3>2, SettledRow
    <3>3. CASE status[r] \notin {"queued", "sending"}
      <4>1. fateOf[r] \in {"reached", "withdrawn", "failed"} /\ fateOf'[r] = "withdrawn"
        <5>1. status[r] \in {"delivered", "accepted", "cancelled", "failed", "skipped"}
          BY <2>1, <3>1, <3>3 DEF TypeOK, Statuses
        <5> QED
          BY <3>1, <5>1, PromiseOfRow DEF FateOf
      <4>2. copiesOf'[r] = copiesOf[r]
        BY <2>1, <3>1, PromiseOfRow
      <4> QED
        BY <1>2, <2>1, <3>1, <4>1, <4>2 DEF Promise!Step, Promise!Overwrite, Promise!Settled
    <3> QED
      BY <3>2, <3>3
  <2> QED
    BY <2>2, <2>3
<1>8. ASSUME NEW o \in Objects, CancelPendingForObject(o) \/ UpdateRule(o)
      PROVE  Promise!Step(r)
  <2>1. \/ status'[r] = status[r]
        \/ status[r] \in {"queued", "sending"} /\ status'[r] = "cancelled"
    BY <1>8 DEF CancelPendingForObject, UpdateRule
  <2>2. Kind[r] # "rule_job" => effects'[r] = effects[r]
    BY <1>8 DEF CancelPendingForObject, UpdateRule, RecordExecution, TypeOK
  <2>3. CASE status'[r] = status[r]
    <3>1. fateOf'[r] = fateOf[r]
      BY <2>3, PromiseOfRow
    <3>2. copiesOf'[r] = copiesOf[r]
      BY <1>1, <2>2, <2>3, KindAssumption, PromiseOfRow DEF Kinds
    <3> QED
      BY <1>2, <3>1, <3>2 DEF Promise!Step, Promise!Keeps
  <2>4. CASE status'[r] # status[r]
    BY <1>1, <1>2, <2>1, <2>2, <2>4, SettledRow
  <2> QED
    BY <2>3, <2>4
<1>9. CASE \E q \in Rows : Time(q)
  BY <1>6, <1>9
<1>10. CASE Request
  BY <1>4, <1>5, <1>6, <1>7, <1>8, <1>10, Zenon DEF Request
<1> QED
  BY <1>9, <1>10

\* A row that stays in the queue or under way.
LEMMA PendingRow ==
    ASSUME TypeOK, TypeOK', NEW r \in Rows, openOf'[r] = openOf[r],
           status[r] \in {"queued", "sending"}, status'[r] \in {"queued", "sending"},
           taken'[r] = taken[r], Kind[r] = "in_app" => effects'[r] = effects[r]
    PROVE  Promise!Step(r)
<1>1. fateOf'[r] = fateOf[r]
  BY PromiseOfRow DEF FateOf
<1>2. copiesOf'[r] = copiesOf[r]
  BY KindAssumption, PromiseOfRow DEF Kinds
<1> QED
  BY <1>1, <1>2 DEF Promise!Step, Promise!Keeps

\* A delivery given up without a word about its row.
LEMMA ClosedRow ==
    ASSUME TypeOK, TypeOK', NEW r \in Rows, Unseen(r), openOf[r], ~openOf'[r]
    PROVE  Promise!Step(r)
<1>1. fateOf'[r] = fateOf[r] /\ copiesOf'[r] = copiesOf[r]
  BY KindAssumption, PromiseOfRow DEF Unseen, Kinds
<1> QED
  BY <1>1 DEF Promise!Step, Promise!CloseDelivery

\* Every step of a worker, its failures included, keeps the promise.
LEMMA WorkerKeepsPromise ==
    ASSUME TypeOK, TypeOK', Underway, OneSenderPerRow',
           NEW w \in Workers, WorkerStep(w) \/ Failure(w), NEW r \in Rows
    PROVE  Promise!Step(r)
<1>0. OnlyMoves(w)
  BY OneMoves
<1>1. /\ (Delivers(w, r)' <=> Delivers(w, r)) => openOf'[r] = openOf[r]
      /\ Delivers(w, r) => openOf[r]
      /\ Delivers(w, r) /\ ~Delivers(w, r)' => ~openOf'[r]
      /\ ~Delivers(w, r) /\ Delivers(w, r)' => ~openOf[r] /\ openOf'[r]
  BY <1>0, OpenOfRow DEF Underway
<1>2. (~Delivers(w, r)' /\ ~Delivers(w, r)) => openOf'[r] = openOf[r]
  BY <1>1
<1>3. ASSUME Unseen(r), ~Delivers(w, r)'
      PROVE  Promise!Step(r)
  <2>1. CASE Delivers(w, r)
    BY <1>1, <1>3, <2>1, ClosedRow
  <2>2. CASE ~Delivers(w, r)
    BY <1>2, <1>3, <2>2, UnseenKeeps
  <2> QED
    BY <2>1, <2>2
<1>4. Finish(w) \/ Failure(w) => ~Delivers(w, r)'
  BY DEF Finish, Failure, InternalError, Crash, Goto, Delivers, TypeOK
<1>5. CASE RecoverStaleLeases(w)
  <2>1. PICK S \in SUBSET Stale : Requeue(S)
    BY <1>5 DEF RecoverStaleLeases
  <2>2. openOf'[r] = openOf[r] /\ taken' = taken
    BY <1>2, <1>5 DEF RecoverStaleLeases, Goto, Delivers, TypeOK
  <2>3. Kind[r] = "in_app" => effects'[r] = effects[r]
    BY <2>1 DEF Requeue, RecordExecution
  <2>4. CASE r \in S
    <3>1. status[r] = "sending" /\ status'[r] \in {"failed", "queued"}
      BY <2>1, <2>4 DEF Requeue, Stale
    <3> QED
      BY <2>2, <2>3, <3>1, SettledRow, PendingRow
  <2>5. CASE r \notin S
    BY <2>1, <2>2, <2>5, UnseenKeeps DEF Requeue, RecordExecution, Unseen, TypeOK
  <2> QED
    BY <2>4, <2>5
<1>6. CASE ClaimBatch(w)
  <2>1. openOf'[r] = openOf[r] /\ UNCHANGED <<taken, effects>>
    BY <1>2, <1>6 DEF ClaimBatch, Goto, Delivers, TypeOK
  <2>2. \/ status'[r] = status[r]
        \/ status[r] = "queued" /\ status'[r] = "sending"
    BY <1>6 DEF ClaimBatch
  <2> QED
    BY <2>1, <2>2, UnseenKeeps, PendingRow DEF Unseen
<1>7. CASE UNCHANGED <<status, taken, effects>> /\ ~Delivers(w, r)'
  BY <1>3, <1>7 DEF Unseen
<1>8. CASE ScanRulesAndReminders(w) \/ NextRow(w) \/ ProcessExternal(w)
           \/ AcquireSendLock(w) \/ AcquireRuleLock(w)
  BY <1>7, <1>8 DEF ScanRulesAndReminders, NextRow, ProcessExternal, AcquireSendLock,
     AcquireRuleLock, Goto, Delivers, TypeOK
<1>9. CASE ProcessSettled(w) \/ AcquireBusy(w) \/ PhaseASettled(w) \/ PhaseCSettled(w) \/ Failure(w)
  BY <1>4, <1>7, <1>9 DEF ProcessSettled, AcquireBusy, PhaseASettled, PhaseCSettled,
     Failure, InternalError, Crash
<1>10. CASE ProcessQuietHours(w)
  <2>1. openOf'[r] = openOf[r]
    BY <1>2, <1>4, <1>10 DEF ProcessQuietHours, Delivers
  <2>2. CASE cur[w] = r
    BY <1>10, <2>1, <2>2, PendingRow DEF ProcessQuietHours, Postpone, StillSending, TypeOK
  <2>3. CASE cur[w] # r
    BY <1>4, <1>3, <1>10, <2>3 DEF ProcessQuietHours, Postpone, Unseen, TypeOK
  <2> QED
    BY <2>2, <2>3
<1>11. CASE ProcessLocally(w)
  <2>1. openOf'[r] = openOf[r]
    BY <1>2, <1>4, <1>11 DEF ProcessLocally, Delivers
  <2>2. CASE cur[w] # r
    BY <1>4, <1>3, <1>11, <2>2 DEF ProcessLocally, DeliverInApp, RecordExecution, Unseen, TypeOK
  <2>3. CASE cur[w] = r
    <3>1. status[r] = "sending" /\ status'[r] = "delivered" /\ Kind[r] \in {"in_app", "rule_job"}
      BY <1>11, <2>3 DEF ProcessLocally, StillSending, TypeOK
    <3>2. fateOf[r] = "pending" /\ fateOf'[r] = "reached"
      BY <3>1, PromiseOfRow DEF FateOf
    <3>3. CASE Kind[r] = "rule_job"
      <4>1. copiesOf[r] = 0 /\ copiesOf'[r] = 1
        BY <3>1, <3>3, PromiseOfRow
      <4> QED
        BY <2>1, <3>2, <4>1 DEF Promise!Step, Promise!DeliverAtOnce
    <3>4. CASE Kind[r] = "in_app"
      <4>1. effects'[r] = IF effects[r] > 0 THEN effects[r] ELSE 1
        BY <1>11, <2>3, <3>4 DEF ProcessLocally, DeliverInApp, TypeOK
      <4>2. copiesOf[r] = effects[r] /\ copiesOf'[r] = effects'[r] /\ effects[r] \in Nat
        BY <3>4, PromiseOfRow DEF TypeOK
      <4>3. CASE effects[r] > 0
        BY <2>1, <3>2, <4>1, <4>2, <4>3 DEF Promise!Step, Promise!Settle, Promise!Settled
      <4>4. CASE effects[r] = 0
        BY <2>1, <3>2, <4>1, <4>2, <4>4 DEF Promise!Step, Promise!DeliverAtOnce
      <4> QED
        BY <4>2, <4>3, <4>4
    <3> QED
      BY <3>1, <3>3, <3>4
  <2> QED
    BY <2>2, <2>3
<1>12. CASE PhaseA(w)
  <2>1. Unseen(r)
    BY <1>12 DEF PhaseA, Unseen
  <2>2. CASE cur[w] # r
    BY <1>3, <1>12, <2>1, <2>2 DEF PhaseA, Delivers
  <2>3. CASE cur[w] = r
    <3>1. ~openOf[r] /\ openOf'[r]
      BY <1>1, <1>12, <2>3 DEF PhaseA, Goto, Delivers, TypeOK
    <3>2. fateOf[r] = "pending" /\ fateOf'[r] = "pending"
      BY <1>12, <2>3, PromiseOfRow DEF PhaseA, StillSending, FateOf
    <3>3. copiesOf'[r] = copiesOf[r]
      BY <2>1, KindAssumption, PromiseOfRow DEF Unseen, Kinds
    <3> QED
      BY <3>1, <3>2, <3>3 DEF Promise!Step, Promise!OpenDelivery
  <2> QED
    BY <2>2, <2>3
<1>13. CASE PhaseB0(w)
  <2>1. Delivers(w, r)' <=> Delivers(w, r)
    BY <1>13 DEF PhaseB0, Goto, Delivers, TypeOK
  <2> QED
    BY <1>1, <1>13, <2>1, UnseenKeeps DEF PhaseB0, Unseen
<1>14. CASE ProviderCall(w)
  <2>1. ~Delivers(w, r)'
    BY <1>14 DEF ProviderCall, Goto, Delivers, TypeOK
  <2>2. CASE cur[w] # r
    BY <1>3, <1>14, <2>1, <2>2 DEF ProviderCall, Unseen, TypeOK
  <2>3. CASE cur[w] = r
    <3>1. openOf[r] /\ ~openOf'[r]
      BY <1>1, <1>14, <2>1, <2>3 DEF ProviderCall, Delivers
    <3>2. Kind[r] \in {"external", "document"}
      BY <1>14, <2>3 DEF ProviderCall, Underway, KindsOfSteps, Locked
    <3>3. fateOf'[r] = fateOf[r]
      BY <1>14, PromiseOfRow DEF ProviderCall
    <3>4. copiesOf'[r] \in {copiesOf[r], copiesOf[r] + 1}
      <4>1. taken[r] \in Nat /\ taken'[r] \in {taken[r], taken[r] + 1}
        BY <1>14, <2>3 DEF ProviderCall, TypeOK
      <4> QED
        BY <3>2, <4>1, PromiseOfRow
    <3> QED
      BY <3>1, <3>3, <3>4 DEF Promise!Step, Promise!CloseDelivery
  <2> QED
    BY <2>2, <2>3
<1>15. CASE FinalizeSkip(w)
  <2>1. Finish(w) /\ UNCHANGED <<taken, effects>>
    BY <1>15, Zenon DEF FinalizeSkip, results
  <2>2. CASE ~StillSending(w)
    BY <1>4, <1>7, <1>15, <2>1, <2>2 DEF FinalizeSkip
  <2>3. CASE StillSending(w)
    <3>1. status' = [status EXCEPT ![cur[w]] = "skipped"]
      BY <1>15, <2>3, Zenon DEF FinalizeSkip
    <3>2. CASE cur[w] # r
      BY <1>3, <1>4, <2>1, <3>1, <3>2 DEF Unseen, TypeOK
    <3>3. CASE cur[w] = r
      <4>1. openOf'[r] => openOf[r]
        BY <1>1, <1>4, <2>1
      <4>2. status[r] = "sending" /\ status'[r] = "skipped"
        BY <2>3, <3>1, <3>3 DEF StillSending, TypeOK
      <4> QED
        BY <2>1, <4>1, <4>2, SettledRow
    <3> QED
      BY <3>2, <3>3
  <2> QED
    BY <2>2, <2>3
<1>16. CASE PhaseB0Postpone(w)
  <2>1. Finish(w) /\ UNCHANGED <<taken, effects>> /\ status' = [status EXCEPT ![cur[w]] = "queued"]
    BY <1>16, Zenon DEF PhaseB0Postpone, Postpone, results
  <2>2. CASE cur[w] # r
    BY <1>3, <1>4, <2>1, <2>2 DEF Unseen, TypeOK
  <2>3. CASE cur[w] = r
    <3>1. openOf[r] /\ ~openOf'[r]
      BY <1>1, <1>4, <1>16, <2>1, <2>3 DEF PhaseB0Postpone, Delivers
    <3>2. Kind[r] = "document" /\ status[r] \in {"queued", "sending", "failed"}
      BY <1>16, <2>3 DEF PhaseB0Postpone, Underway, DocumentsInPhaseB0
    <3>3. fateOf[r] \in {"pending", "failed"} /\ fateOf'[r] = "pending"
      BY <2>1, <2>3, <3>2, PromiseOfRow DEF FateOf, TypeOK
    <3>4. copiesOf'[r] = copiesOf[r] /\ copiesOf[r] \in {copiesOf[r], copiesOf[r] + 1}
      BY <2>1, <3>2, PromiseOfRow
    <3> QED
      BY <3>1, <3>2, <3>3, <3>4 DEF Promise!Step, Promise!CloseDelivery, Promise!Reopen
  <2> QED
    BY <2>2, <2>3
<1>17. CASE PhaseCAccepted(w) \/ PhaseCFailed(w)
  <2>1. /\ Finish(w) /\ UNCHANGED <<taken, effects>> /\ status[cur[w]] = "sending"
        /\ pc[w] = "phaseC"
    BY <1>17 DEF PhaseCAccepted, PhaseCFailed, StillSending, results
  <2>2. \/ /\ status' = [status EXCEPT ![cur[w]] = "accepted"]
           /\ outcome[w] = "accepted"
        \/ \E s \in {"failed", "queued"} : status' = [status EXCEPT ![cur[w]] = s]
    BY <1>17 DEF PhaseCAccepted, PhaseCFailed, FailedAttempt, Accepted
  <2>3. CASE cur[w] # r
    BY <1>3, <1>4, <2>1, <2>2, <2>3 DEF Unseen, TypeOK
  <2>4. CASE cur[w] = r
    <3>1. openOf'[r] = openOf[r]
      BY <1>2, <1>4, <2>1 DEF Delivers
    <3>2. Kind[r] \in {"external", "document"}
      BY <2>1, <2>4 DEF Underway, KindsOfSteps, Locked
    <3>3. \/ status'[r] = "accepted" /\ copiesOf[r] > 0
          \/ status'[r] \in {"failed", "queued"}
      BY <2>1, <2>2, <2>4, <3>2, PromiseOfRow DEF Underway, VerdictsHaveCopies, TypeOK
    <3> QED
      BY <2>1, <2>4, <3>1, <3>3, SettledRow, PendingRow
  <2> QED
    BY <2>3, <2>4
<1>18. CASE RecordFailure(w)
  <2>1. Finish(w) /\ pc[w] = "fail" /\ taken' = taken
    BY <1>18, Zenon DEF RecordFailure
  <2>2. CASE ~StillSending(w)
    BY <1>4, <1>7, <1>18, <2>1, <2>2 DEF RecordFailure
  <2>3. CASE StillSending(w)
    <3>1. /\ FailedAttempt(cur[w], Spent(cur[w]))
          /\ RecordExecution(IF Spent(cur[w]) THEN {cur[w]} ELSE {})
      BY <1>18, <2>3, Zenon DEF RecordFailure
    <3>2. openOf'[r] = openOf[r]
      BY <1>2, <1>4, <2>1 DEF Delivers
    <3>3. CASE cur[w] # r
      <4>1. status'[r] = status[r] /\ effects'[r] = effects[r]
        BY <3>1, <3>3 DEF FailedAttempt, RecordExecution, TypeOK
      <4> QED
        BY <2>1, <3>2, <4>1, UnseenKeeps DEF Unseen
    <3>4. CASE cur[w] = r
      <4>1. status[r] = "sending" /\ status'[r] \in {"failed", "queued"}
        BY <2>3, <3>1, <3>4 DEF StillSending, FailedAttempt, TypeOK
      <4>2. Kind[r] = "in_app" => effects'[r] = effects[r]
        BY <3>1 DEF RecordExecution
      <4> QED
        BY <2>1, <3>2, <4>1, <4>2, SettledRow, PendingRow
    <3> QED
      BY <3>3, <3>4
  <2> QED
    BY <2>2, <2>3
<1> QED
  BY <1>5, <1>6, <1>8, <1>9, <1>10, <1>11, <1>12, <1>13, <1>14, <1>15, <1>16, <1>17, <1>18
     DEF WorkerStep, ProcessRow, ProcessExternalRow

\* The outbox and its workers, with every crash, exception, lapsed lease and
\* concurrent request, implement DeliveryPromise: each step is a step of the
\* promise for every row, or invisible to it.
THEOREM PromiseKept == Spec => KeepsPromise
<1>1. Init => Promise!Init
  <2> SUFFICES ASSUME Init
               PROVE  Promise!Init
    OBVIOUS
  <2>1. fateOf = [m \in Rows |-> "absent"]
    BY DEF Init, fateOf
  <2>2. openOf = [m \in Rows |-> FALSE]
    BY DEF Init, openOf
  <2>3. copiesOf = [m \in Rows |-> 0]
    BY DEF Init, copiesOf
  <2> QED
    BY <2>1, <2>2, <2>3 DEF Promise!Init
<1>2. TypeOK /\ Underway /\ [Next]_vars /\ TypeOK' /\ Underway' => [Promise!Next]_(Promise!promise)
  <2> SUFFICES ASSUME TypeOK, Underway, [Next]_vars, TypeOK', Underway'
               PROVE  [Promise!Next]_(Promise!promise)
    OBVIOUS
  <2>1. CASE UNCHANGED vars
    BY <2>1 DEF Promise!promise, fateOf, openOf, copiesOf
  <2>2. CASE Next
    <3>1. fateOf' \in [Rows -> Promise!Fates]
      BY DEF fateOf, Promise!Fates, TypeOK, Statuses
    <3>2. DOMAIN openOf' = Rows /\ DOMAIN copiesOf' = Rows
      BY DEF openOf, copiesOf
    <3>3. ASSUME NEW m \in Rows
          PROVE  Promise!Step(m)
      BY <2>2, RequestKeepsPromise, WorkerKeepsPromise DEF Next, Underway
    <3> QED
      BY <3>1, <3>2, <3>3 DEF Promise!Next
  <2> QED
    BY <2>1, <2>2
<1> QED
  BY <1>1, <1>2, TypeCorrect, AlwaysUnderway, PTL DEF Spec, KeepsPromise, Promise!Spec

-----------------------------------------------------------------------------
(***************************************************************************)
(* Messages by hand, as MCSending puts them beside the outbox.  The insert *)
(* of a request finds its key taken or free; its rows are the only ones of *)
(* the key because every row has a stored request.                         *)
(***************************************************************************)

MessageRows == [type : Messages!Types, key : Keys, channel : Channels, version : Nat,
                status : {"queued", "sending", "cancelled", "accepted", "skipped"}]
Answers == [payload : Messages!Payloads, rows : SUBSET Nat]
MessageCalls == [payload : Messages!Payloads, at : {"asked", "checked", "answered"},
                 rows : SUBSET Nat, version : Nat]

SendingType ==
    /\ interview \in [status : {"scheduled", "cancelled"}, version : Nat]
    /\ allowed \subseteq Channels
    /\ requests \in [Keys -> Answers \cup {Nothing}]
    /\ queue \in Seq(MessageRows)
    /\ call \in [Workers -> MessageCalls \cup {Nothing}]

\* Every row belongs to a stored request.
RowsAreStored ==
    \A i \in DOMAIN queue :
        /\ requests[queue[i].key] # Nothing
        /\ i \in requests[queue[i].key].rows

OneRowPerChannel ==
    \A i, j \in DOMAIN queue :
        queue[i].key = queue[j].key /\ queue[i].channel = queue[j].channel => i = j

AnswersAreStored ==
    \A c \in Workers : call[c] # Nothing /\ call[c].at = "answered" =>
        requests[call[c].payload.key] = [payload |-> call[c].payload, rows |-> call[c].rows]

SendingInv == SendingType /\ RowsAreStored /\ OneRowPerChannel /\ AnswersAreStored

LEMMA SetAsSequence ==
    ASSUME NEW S, IsFiniteSet(S)
    PROVE  /\ Messages!SetToSeq(S) \in Seq(S)
           /\ \A i, j \in 1..Len(Messages!SetToSeq(S)) :
                 Messages!SetToSeq(S)[i] = Messages!SetToSeq(S)[j] => i = j
<1> DEFINE n == Cardinality(S)
<1>1. n \in Nat /\ ExistsBijection(1..n, S)
  BY FS_CardinalityType
<1>2. \E f \in [1..n -> S] : Messages!IsInjective(f)
  BY <1>1 DEF ExistsBijection, Bijection, Injection, IsInjective, Messages!IsInjective
<1>3. Messages!Cardinality(S) = n
  BY Zenon DEF Cardinality, Messages!Cardinality
<1>4. Messages!SetToSeq(S) = CHOOSE f \in [1..n -> S] : Messages!IsInjective(f)
  BY <1>3, Zenon DEF Messages!SetToSeq
<1>5. Messages!SetToSeq(S) \in [1..n -> S] /\ Messages!IsInjective(Messages!SetToSeq(S))
  BY <1>2, <1>4, Zenon
<1> QED
  BY <1>1, <1>5 DEF Messages!IsInjective

LEMMA SameDomainSeq ==
    ASSUME NEW S, NEW s \in Seq(S), NEW f, DOMAIN f = DOMAIN s, f = [i \in DOMAIN s |-> f[i]],
           \A i \in DOMAIN s : f[i] \in S
    PROVE  f \in Seq(S)
  OBVIOUS

\* What happens to the rows that are there changes neither their keys nor their channels.
LEMMA RowsStayThoseOfTheirKeys ==
    ASSUME SendingInv, requests' = requests, queue' \in Seq(MessageRows),
           DOMAIN queue' = DOMAIN queue,
           \A i \in DOMAIN queue : queue'[i].key = queue[i].key /\ queue'[i].channel = queue[i].channel
    PROVE  RowsAreStored' /\ OneRowPerChannel'
  BY DEF SendingInv, RowsAreStored, OneRowPerChannel

LEMMA WithdrawnRows ==
    ASSUME queue \in Seq(MessageRows), NEW gone, queue' = Messages!Withdrawn(gone)
    PROVE  /\ queue' \in Seq(MessageRows) /\ DOMAIN queue' = DOMAIN queue
           /\ \A i \in DOMAIN queue : queue'[i].key = queue[i].key /\ queue'[i].channel = queue[i].channel
<1>1. /\ DOMAIN queue' = DOMAIN queue
      /\ \A i \in DOMAIN queue :
            queue'[i] = queue[i] \/ queue'[i] = [queue[i] EXCEPT !.status = "cancelled"]
  BY DEF Messages!Withdrawn, Messages!Ids
<1>2. \A i \in DOMAIN queue : queue[i] \in MessageRows
  OBVIOUS
<1>3. \A x \in MessageRows : /\ [x EXCEPT !.status = "cancelled"] \in MessageRows
                             /\ [x EXCEPT !.status = "cancelled"].key = x.key
                             /\ [x EXCEPT !.status = "cancelled"].channel = x.channel
  BY DEF MessageRows
<1>4. queue' = [i \in DOMAIN queue |-> queue'[i]]
  BY DEF Messages!Withdrawn, Messages!Ids
<1>5. \A i \in DOMAIN queue : queue'[i] \in MessageRows
  BY <1>1, <1>2, <1>3
<1>6. queue' \in Seq(MessageRows)
  BY <1>1, <1>4, <1>5, SameDomainSeq
<1> QED
  BY <1>1, <1>2, <1>3, <1>6

LEMMA CommittedRows ==
    ASSUME allowed \subseteq Channels, NEW payload \in Messages!Payloads, NEW version \in Nat
    PROVE  LET queued == Messages!SetToSeq({Messages!Row(payload, ch, version) :
                                              ch \in Messages!Reaches(payload)})
           IN  /\ queued \in Seq(MessageRows)
               /\ \A i \in 1..Len(queued) : queued[i].key = payload.key
               /\ \A i, j \in 1..Len(queued) : queued[i].channel = queued[j].channel => i = j
<1> DEFINE reached == Messages!Reaches(payload)
           made == {Messages!Row(payload, ch, version) : ch \in reached}
           queued == Messages!SetToSeq(made)
<1>1. IsFiniteSet(reached)
  <2>1. reached \in SUBSET Channels
    BY DEF Messages!Reaches
  <2> QED
    BY <2>1, FS_Subset, MCSendingAssumption
<1>2. IsFiniteSet(made)
  <2> DEFINE f == [ch \in reached |-> Messages!Row(payload, ch, version)]
  <2>1. f \in Surjection(reached, made)
    BY Zenon DEF Surjection
  <2> QED
    BY <1>1, <2>1, FS_Surjection
<1>3. /\ queued \in Seq(made)
      /\ \A i, j \in 1..Len(queued) : queued[i] = queued[j] => i = j
  BY <1>2, SetAsSequence
<1>4. payload.type \in Messages!Types /\ payload.key \in Keys
  BY DEF Messages!Payloads
<1>5. \A x \in made : /\ x \in MessageRows
                      /\ \E ch \in reached : x = Messages!Row(payload, ch, version) /\ x.channel = ch
                      /\ x.key = payload.key
  BY <1>4 DEF Messages!Row, MessageRows, Messages!Reaches
<1>6. \A x, y \in made : x.channel = y.channel => x = y
  BY <1>5
<1>7. \A i \in 1..Len(queued) : queued[i] \in made
  <2> HIDE DEF made, queued
  <2> QED
    BY <1>3
<1>8. queued \in Seq(MessageRows)
  BY <1>3, <1>5
<1> QED
  BY <1>3, <1>5, <1>6, <1>7, <1>8

LEMMA CallsMove ==
    ASSUME call \in [Workers -> MessageCalls \cup {Nothing}], NEW c \in Workers,
           NEW v \in MessageCalls \cup {Nothing}
    PROVE  /\ [call EXCEPT ![c] = v] \in [Workers -> MessageCalls \cup {Nothing}]
           /\ [call EXCEPT ![c] = v][c] = v
           /\ \A d \in Workers \ {c} : [call EXCEPT ![c] = v][d] = call[d]
  OBVIOUS

\* A call that is answered for its key, where the stored request agrees.
LEMMA AnsweredFromStore ==
    ASSUME SendingType, AnswersAreStored, NEW c \in Workers, call[c] \in MessageCalls,
           requests[call[c].payload.key] # Nothing, Messages!AnswerFromKey(c), requests' = requests
    PROVE  call' \in [Workers -> MessageCalls \cup {Nothing}] /\ AnswersAreStored'
<1> DEFINE payload == call[c].payload
           stored == requests[payload.key]
<1>1. payload \in Messages!Payloads /\ payload.key \in Keys
  BY DEF MessageCalls, Messages!Payloads
<1>2. stored \in Answers
  BY <1>1 DEF SendingType
<1>3. stored = [payload |-> stored.payload, rows |-> stored.rows] /\ stored.rows \in SUBSET Nat
  BY <1>2 DEF Answers
<1>4. CASE stored.payload = payload
  <2> DEFINE answered == [payload |-> payload, at |-> "answered", rows |-> stored.rows, version |-> 0]
  <2>1. call' = [call EXCEPT ![c] = answered]
    BY <1>4 DEF Messages!AnswerFromKey, Messages!SameOperation, Messages!Answer
  <2>2. answered \in MessageCalls
    BY <1>1, <1>3 DEF MessageCalls
  <2>3. /\ call' \in [Workers -> MessageCalls \cup {Nothing}]
        /\ call'[c] = answered /\ \A d \in Workers \ {c} : call'[d] = call[d]
    BY <2>1, <2>2, CallsMove DEF SendingType
  <2>4. requests[answered.payload.key] = [payload |-> answered.payload, rows |-> answered.rows]
    BY <1>3, <1>4
  <2> QED
    BY <2>3, <2>4 DEF AnswersAreStored
<1>5. CASE stored.payload # payload
  <2>1. call' = [call EXCEPT ![c] = Nothing]
    BY <1>5 DEF Messages!AnswerFromKey, Messages!SameOperation, Messages!Drop
  <2>2. /\ call' \in [Workers -> MessageCalls \cup {Nothing}]
        /\ call'[c] = Nothing /\ \A d \in Workers \ {c} : call'[d] = call[d]
    BY <2>1, CallsMove DEF SendingType
  <2> QED
    BY <2>2 DEF AnswersAreStored
<1> QED
  BY <1>4, <1>5

LEMMA CallStep ==
    ASSUME SendingInv, NEW c \in Workers,
           \/ \E payload \in Messages!Payloads : Messages!Begin(c, payload)
           \/ Messages!Check(c) \/ Messages!Leave(c)
    PROVE  SendingInv'
<1> USE DEF SendingInv
<1>1. UNCHANGED <<owner, interview, allowed, requests, queue>>
  BY DEF Messages!Begin, Messages!Check, Messages!Leave
<1>2. RowsAreStored' /\ OneRowPerChannel'
  BY <1>1 DEF RowsAreStored, OneRowPerChannel
<1>3. ASSUME NEW v \in MessageCalls \cup {Nothing}, call' = [call EXCEPT ![c] = v],
             v = Nothing \/ v.at # "answered"
      PROVE  SendingInv'
  <2>1. /\ call' \in [Workers -> MessageCalls \cup {Nothing}]
        /\ call'[c] = v /\ \A d \in Workers \ {c} : call'[d] = call[d]
    BY <1>3, CallsMove DEF SendingType
  <2> QED
    BY <1>1, <1>2, <1>3, <2>1 DEF SendingType, AnswersAreStored
<1>4. ASSUME NEW payload \in Messages!Payloads, Messages!Begin(c, payload) PROVE SendingInv'
  <2> DEFINE v == [payload |-> payload, at |-> "asked", rows |-> {}, version |-> 0]
  <2>1. v \in MessageCalls /\ v.at # "answered"
    BY DEF MessageCalls
  <2> QED
    BY <1>3, <1>4, <2>1 DEF Messages!Begin
<1>5. CASE Messages!Leave(c)
  BY <1>3, <1>5 DEF Messages!Leave, Messages!Drop
<1>6. CASE Messages!Check(c)
  <2>1. call[c] # Nothing /\ call[c] \in MessageCalls
    BY <1>6 DEF Messages!Check, Messages!At, SendingType
  <2>2. CASE requests[call[c].payload.key] # Nothing
    <3>1. Messages!AnswerFromKey(c)
      BY <1>6, <2>2 DEF Messages!Check
    <3>2. call' \in [Workers -> MessageCalls \cup {Nothing}] /\ AnswersAreStored'
      BY <1>1, <2>1, <2>2, <3>1, AnsweredFromStore
    <3> QED
      BY <1>1, <1>2, <3>2 DEF SendingType
  <2>3. CASE requests[call[c].payload.key] = Nothing
    <3> DEFINE v == [call[c] EXCEPT !.at = "checked", !.version = interview.version]
    <3>1. \/ Messages!Drop(c)
          \/ call' = [call EXCEPT ![c].at = "checked", ![c].version = interview.version]
      BY <1>6, <2>3 DEF Messages!Check
    <3>2. interview.version \in Nat
      BY DEF SendingType
    <3>3. v \in MessageCalls
      BY <2>1, <3>2, Zenon DEF MessageCalls
    <3>4. v.at = "checked"
      BY <2>1 DEF MessageCalls
    <3>5. call' = [call EXCEPT ![c] = Nothing] \/ call' = [call EXCEPT ![c] = v]
      BY <3>1, Zenon DEF Messages!Drop
    <3> HIDE DEF v
    <3> QED
      BY <1>3, <3>3, <3>4, <3>5
  <2> QED
    BY <2>2, <2>3
<1> QED
  BY <1>4, <1>5, <1>6

LEMMA CommitStep ==
    ASSUME SendingInv, NEW c \in Workers, Messages!Commit(c)
    PROVE  SendingInv'
<1> DEFINE payload == call[c].payload
           queued == Messages!SetToSeq({Messages!Row(payload, ch, call[c].version) :
                                          ch \in Messages!Reaches(payload)})
           ids == (Len(queue) + 1)..(Len(queue) + Len(queued))
           stored == [payload |-> payload, rows |-> ids]
           answered == [payload |-> payload, at |-> "answered", rows |-> ids, version |-> 0]
<1>1. call[c] # Nothing /\ call[c] \in MessageCalls /\ UNCHANGED <<interview, allowed>>
  BY DEF Messages!Commit, Messages!At, SendingInv, SendingType
<1>2. payload \in Messages!Payloads /\ payload.key \in Keys /\ call[c].version \in Nat
  BY <1>1 DEF MessageCalls, Messages!Payloads
<1>3. CASE requests[payload.key] # Nothing
  <2>1. Messages!AnswerFromKey(c) /\ UNCHANGED <<requests, queue>>
    BY <1>3 DEF Messages!Commit, Messages!KeyTaken
  <2>2. call' \in [Workers -> MessageCalls \cup {Nothing}] /\ AnswersAreStored'
    BY <1>1, <1>3, <2>1, AnsweredFromStore DEF SendingInv
  <2> QED
    BY <1>1, <2>1, <2>2 DEF SendingInv, SendingType, RowsAreStored, OneRowPerChannel
<1>4. CASE requests[payload.key] = Nothing
  <2>1. /\ requests' = [requests EXCEPT ![payload.key] = stored]
        /\ queue' = queue \o queued
        /\ call' = [call EXCEPT ![c] = answered]
    BY <1>4, Zenon DEF Messages!Commit, Messages!KeyTaken, Messages!Answer
  <2>2. /\ queued \in Seq(MessageRows)
        /\ \A i \in 1..Len(queued) : queued[i].key = payload.key
        /\ \A i, j \in 1..Len(queued) : queued[i].channel = queued[j].channel => i = j
    BY <1>2, CommittedRows DEF SendingInv, SendingType
  <2> HIDE DEF queued
  <2>3. queue \in Seq(MessageRows) /\ Len(queue) \in Nat /\ Len(queued) \in Nat
    BY <2>2 DEF SendingInv, SendingType
  <2>4. /\ queue' \in Seq(MessageRows)
        /\ DOMAIN queue' = 1..(Len(queue) + Len(queued))
        /\ \A i \in 1..Len(queue) : queue'[i] = queue[i]
        /\ \A i \in ids : queue'[i] = queued[i - Len(queue)] /\ i - Len(queue) \in 1..Len(queued)
    BY <2>1, <2>2, <2>3
  <2>5. stored \in Answers /\ stored # Nothing
    <3>1. ids \in SUBSET Nat
      BY <2>3
    <3>2. stored \in Answers
      BY <1>2, <3>1 DEF Answers
    <3> QED
      BY <3>2, MCSendingAssumption DEF Answers
  <2>6. answered \in MessageCalls
    BY <1>2, <2>5 DEF MessageCalls, Answers
  <2>7. /\ call' \in [Workers -> MessageCalls \cup {Nothing}]
        /\ call'[c] = answered /\ \A d \in Workers \ {c} : call'[d] = call[d]
    BY <2>1, <2>6, CallsMove DEF SendingInv, SendingType
  <2>8. /\ requests' \in [Keys -> Answers \cup {Nothing}]
        /\ requests'[payload.key] = stored
        /\ \A k \in Keys \ {payload.key} : requests'[k] = requests[k]
    BY <1>2, <2>1, <2>5 DEF SendingInv, SendingType
  <2>9. \A i \in DOMAIN queue : /\ i \in 1..Len(queue) /\ queue[i].key \in Keys \ {payload.key}
                                /\ queue'[i] = queue[i]
    <3>1. \A i \in DOMAIN queue : i \in 1..Len(queue) /\ queue[i] \in MessageRows
      BY <2>3
    <3>2. \A x \in MessageRows : x.key \in Keys
      BY DEF MessageRows
    <3>3. \A i \in DOMAIN queue : requests[queue[i].key] # Nothing
      BY DEF SendingInv, RowsAreStored
    <3> HIDE DEF payload
    <3> QED
      BY <1>4, <2>4, <3>1, <3>2, <3>3
  <2>10. \A i \in ids : queue'[i].key = payload.key
    BY <2>2, <2>4
  <2>11. \A i \in DOMAIN queue' : i \in DOMAIN queue \/ i \in ids
    BY <2>3, <2>4
  <2> HIDE DEF stored, answered, payload, ids
  <2>12. RowsAreStored'
    <3>1. stored.rows = ids
      BY DEF stored
    <3> QED
      BY <2>5, <2>8, <2>9, <2>10, <2>11, <3>1 DEF RowsAreStored, SendingInv
  <2>13. OneRowPerChannel'
    <3> SUFFICES ASSUME NEW i \in DOMAIN queue', NEW j \in DOMAIN queue',
                        queue'[i].key = queue'[j].key, queue'[i].channel = queue'[j].channel
                 PROVE  i = j
      BY DEF OneRowPerChannel
    <3>1. CASE i \in ids /\ j \in ids
      <4>1. i \in Int /\ j \in Int
        BY <2>3, <3>1 DEF ids
      <4> QED
        BY <2>2, <2>3, <2>4, <3>1, <4>1
    <3>2. CASE i \in DOMAIN queue /\ j \in DOMAIN queue
      BY <2>9, <3>2 DEF SendingInv, OneRowPerChannel
    <3> QED
      BY <2>9, <2>10, <2>11, <3>1, <3>2
  <2>14. AnswersAreStored'
    <3> SUFFICES ASSUME NEW d \in Workers, call'[d] # Nothing, call'[d].at = "answered"
                 PROVE  requests'[call'[d].payload.key] = [payload |-> call'[d].payload, rows |-> call'[d].rows]
      BY DEF AnswersAreStored
    <3>1. CASE d = c
      BY <2>7, <2>8, <3>1 DEF answered, stored
    <3>2. CASE d # c
      <4>1. call'[d] = call[d] /\ call[d] \in MessageCalls
        BY <2>7, <3>2 DEF SendingInv, SendingType
      <4>2. call[d].payload.key \in Keys /\ call[d].rows \in SUBSET Nat /\ call[d].payload \in Messages!Payloads
        BY <4>1 DEF MessageCalls, Messages!Payloads
      <4>3. [payload |-> call[d].payload, rows |-> call[d].rows] \in Answers
        BY <4>2 DEF Answers
      <4>4. requests[call[d].payload.key] = [payload |-> call[d].payload, rows |-> call[d].rows]
        BY <4>1 DEF SendingInv, AnswersAreStored
      <4>5. call[d].payload.key # payload.key
        BY <1>4, <4>3, <4>4, MCSendingAssumption DEF Answers
      <4> QED
        BY <2>8, <4>1, <4>2, <4>4, <4>5
    <3> QED
      BY <3>1, <3>2
  <2> QED
    BY <1>1, <2>4, <2>7, <2>8, <2>12, <2>13, <2>14 DEF SendingInv, SendingType
<1> QED
  BY <1>3, <1>4

LEMMA RowStep ==
    ASSUME SendingInv,
           \/ \E ch \in Channels : Messages!Consent(ch)
           \/ \E next \in {"scheduled", "cancelled"} : Messages!EditEvent(next)
           \/ \E u \in Users : Messages!Transfer(u) \/ \E i \in Messages!Ids : Messages!CancelMessage(u, i)
           \/ \E i \in Messages!Ids : Messages!Deliver(i)
    PROVE  SendingInv'
<1>1. UNCHANGED <<requests, call>>
  BY DEF Messages!Consent, Messages!EditEvent, Messages!Transfer, Messages!CancelMessage, Messages!Deliver
<1>2. interview' \in [status : {"scheduled", "cancelled"}, version : Nat]
  <2>1. interview.version \in Nat
    BY DEF SendingInv, SendingType
  <2>2. \/ interview' = interview
        \/ \E next \in {"scheduled", "cancelled"} :
              interview' = [status |-> next, version |-> interview.version + 1]
    BY DEF Messages!Consent, Messages!EditEvent, Messages!Transfer, Messages!CancelMessage,
       Messages!Deliver
  <2> QED
    BY <2>1, <2>2 DEF SendingInv, SendingType
<1>3. allowed' \subseteq Channels
  <2>1. allowed' = allowed \/ \E ch \in Channels : allowed' \in {allowed \ {ch}, allowed \cup {ch}}
    BY DEF Messages!Consent, Messages!EditEvent, Messages!Transfer, Messages!CancelMessage,
       Messages!Deliver
  <2> QED
    BY <2>1 DEF SendingInv, SendingType
<1>4. \/ queue' = queue \/ \E gone : queue' = Messages!Withdrawn(gone)
      \/ \E i \in DOMAIN queue, next \in {"cancelled", "accepted", "skipped"} :
            queue' = [queue EXCEPT ![i].status = next]
  BY DEF Messages!Consent, Messages!EditEvent, Messages!Transfer, Messages!CancelMessage,
     Messages!Deliver, Messages!Ids
<1>5. ASSUME NEW i \in DOMAIN queue, NEW next \in {"cancelled", "accepted", "skipped"},
             queue' = [queue EXCEPT ![i].status = next]
      PROVE  /\ queue' \in Seq(MessageRows) /\ DOMAIN queue' = DOMAIN queue
             /\ \A j \in DOMAIN queue : queue'[j].key = queue[j].key /\ queue'[j].channel = queue[j].channel
  <2>1. queue \in Seq(MessageRows)
    BY DEF SendingInv, SendingType
  <2>2. \A j \in DOMAIN queue : queue[j] \in MessageRows
    BY <2>1
  <2>3. \A x \in MessageRows : /\ [x EXCEPT !.status = next] \in MessageRows
                               /\ [x EXCEPT !.status = next].key = x.key
                               /\ [x EXCEPT !.status = next].channel = x.channel
    BY DEF MessageRows
  <2>4. /\ DOMAIN queue' = DOMAIN queue
        /\ \A j \in DOMAIN queue : queue'[j] = queue[j] \/ queue'[j] = [queue[j] EXCEPT !.status = next]
    BY <1>5
  <2>5. queue' = [j \in DOMAIN queue |-> queue'[j]]
    BY <1>5, Zenon
  <2>6. \A j \in DOMAIN queue : queue'[j] \in MessageRows
    BY <2>2, <2>3, <2>4
  <2>7. queue' \in Seq(MessageRows)
    BY <2>1, <2>4, <2>5, <2>6, SameDomainSeq
  <2> QED
    BY <2>2, <2>3, <2>4, <2>7
<1>6. /\ queue' \in Seq(MessageRows) /\ DOMAIN queue' = DOMAIN queue
      /\ \A j \in DOMAIN queue : queue'[j].key = queue[j].key /\ queue'[j].channel = queue[j].channel
  BY <1>4, <1>5, WithdrawnRows DEF SendingInv, SendingType
<1>7. RowsAreStored' /\ OneRowPerChannel'
  BY <1>1, <1>6, RowsStayThoseOfTheirKeys
<1> QED
  BY <1>1, <1>2, <1>3, <1>6, <1>7 DEF SendingInv, SendingType, AnswersAreStored

\* A key of a manual message sends once (send_candidate_message): whatever calls ask
\* with it at a time, all rows belong to the request that is stored under it, at
\* most one for each channel, and every answered call asked for that operation and
\* got these rows; for any number of calls, keys, users and channels.
THEOREM OneSend == MCSpec => []OneSendPerKey
<1>1. Messages!Init => SendingInv
  BY DEF Messages!Init, SendingInv, SendingType, RowsAreStored, OneRowPerChannel, AnswersAreStored
<1>2. SendingInv /\ [MCNext]_<<vars, stage, sendVars>> => SendingInv'
  <2>1. ASSUME SendingInv, Messages!Next PROVE SendingInv'
    BY <2>1, CallStep, CommitStep, RowStep, Zenon DEF Messages!Next
  <2>2. ASSUME SendingInv, UNCHANGED sendVars PROVE SendingInv'
    BY <2>2 DEF sendVars, SendingInv, SendingType, RowsAreStored, OneRowPerChannel, AnswersAreStored
  <2> QED
    BY <2>1, <2>2, Zenon DEF MCNext, sendVars
<1>3. SendingInv => OneSendPerKey
  BY DEF SendingInv, RowsAreStored, OneRowPerChannel, AnswersAreStored, OneSendPerKey,
     Messages!OneSendPerKey, Messages!At, Messages!Ids
<1> QED
  BY <1>1, <1>2, <1>3, PTL DEF MCSpec, MCInit
=============================================================================
