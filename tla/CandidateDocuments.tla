--------------------------- MODULE CandidateDocuments ---------------------------
(***************************************************************************)
(* The documents asked of one candidate: versions of a list, the snapshots *)
(* of it given to the candidate, receipts, a personal rule with its jobs,  *)
(* and the messages about what is missing.  Sources: documents.py,         *)
(* document_rules.py, document_messages.py and their routers.              *)
(*                                                                         *)
(* A request is one transaction: it waits for the candidate's or the       *)
(* rule's lock, reads, and commits.  A job and a send of the worker hold   *)
(* both locks from one transaction to the next.  A card edit and a         *)
(* transfer take neither.  A refused request (a stale expected version, no *)
(* access) changes nothing and is left out.  Consents, quiet hours, leases *)
(* and retries are in EmailConsent and NotificationOutbox: a recovered row *)
(* is queued again.                                                        *)
(***************************************************************************)
EXTENDS Naturals, Sequences, FiniteSets, SequencesExt

CONSTANTS
    Users, RuleOwner,   \* HR managers; the one whose rule it is
    Versions, ItemsOf,  \* of the list: versions with their required items
    Workers,
    MaxSets, MaxMarks, MaxFacts, MaxRuleEdits, MaxRows,  \* bounds
    Free

ASSUME LockAssumption == Free \notin Workers  \* a lock is held by a worker or free

VARIABLES
    version,             \* document_list_versions: the state of each
    stage, owner,        \* of the candidate
    sets,                \* candidate_document_sets in order, with their receipts
    facts,               \* analytics_facts: transitions a rule by stage discovers
    rule,                \* document_rules
    rows,                \* notification_outbox: jobs and messages, in order
    worker,              \* what each worker does
    ruleLock, candidateLock

vars == <<version, stage, owner, sets, facts, rule, rows, worker,
          ruleLock, candidateLock>>

Triggers == {"stage_transition", "scheduled_reminder"}
Actions == {"apply_list", "document_request"}
Idle == [row |-> 0, at |-> "idle"]

Init ==
    /\ version = [v \in Versions |-> "absent"]
    /\ stage = "new" /\ owner \in Users
    /\ sets = <<>> /\ facts = <<>>
    /\ \E t \in Triggers, a \in Actions :
         /\ t = "scheduled_reminder" => a = "document_request"
         /\ rule = [trigger |-> t, action |-> a, enabled |-> TRUE, version |-> 1]
    /\ rows = <<>> /\ worker = [w \in Workers |-> Idle]
    /\ ruleLock = Free /\ candidateLock = Free

-----------------------------------------------------------------------------

CanAccess(u) == owner = u
Current == Last(sets)
Missing == IF sets = <<>> THEN {} ELSE ItemsOf[Current.version] \ Current.received
Published == {v \in Versions : version[v] = "published"}
Ids == DOMAIN rows

NoMutationLock == TRUE
CandidateUnlocked == candidateLock = Free
RuleUnlocked == ruleLock = Free

-----------------------------------------------------------------------------
(* The list.                                                               *)

NewVersion(v) ==
    /\ version[v] = "absent"
    /\ version' = [version EXCEPT ![v] = "draft"]
    /\ UNCHANGED <<stage, owner, sets, facts, rule, rows, worker, ruleLock, candidateLock>>

Publish(v) ==
    /\ version[v] = "draft"
    /\ version' = [x \in Versions |-> IF x = v THEN "published"
                                      ELSE IF x \in Published THEN "archived" ELSE version[x]]
    /\ UNCHANGED <<stage, owner, sets, facts, rule, rows, worker, ruleLock, candidateLock>>

Archive(v) ==
    /\ version[v] \in {"draft", "published"}
    /\ version' = [version EXCEPT ![v] = "archived"]
    /\ UNCHANGED <<stage, owner, sets, facts, rule, rows, worker, ruleLock, candidateLock>>

-----------------------------------------------------------------------------
(* The candidate: snapshots, receipts, messages by hand, the card.         *)

\* apply_version: every item of a new snapshot is missing again.
Applied(v) == Append(sets, [version |-> v, received |-> {}, marks |-> 0])

Apply(u, v) ==
    /\ CandidateUnlocked /\ CanAccess(u) /\ v \in Published /\ Len(sets) < MaxSets
    /\ sets' = Applied(v)
    /\ UNCHANGED <<version, stage, owner, facts, rule, rows, worker, ruleLock, candidateLock>>

MarkItem(u, item) ==
    /\ CandidateUnlocked /\ CanAccess(u) /\ sets # <<>>
    /\ Current.marks < MaxMarks /\ item \in ItemsOf[Current.version]
    /\ LET received == IF item \in Current.received THEN Current.received \ {item}
                       ELSE Current.received \cup {item}
       IN sets' = [sets EXCEPT ![Len(sets)].received = received, ![Len(sets)].marks = @ + 1]
    /\ UNCHANGED <<version, stage, owner, facts, rule, rows, worker, ruleLock, candidateLock>>

\* queue_documents: the text names what is missing now; the set and its marks
\* (or the job) are the key that admits it once.
Message(u, key, ruleVersion) ==
    [kind |-> "message", key |-> key, status |-> "queued", by |-> u, rule |-> ruleVersion,
     set |-> Len(sets), items |-> Missing]
Queued(message) ==
    IF \E i \in Ids : rows[i].key = message.key THEN rows ELSE Append(rows, message)

SendByHand(u) ==
    /\ CandidateUnlocked /\ CanAccess(u) /\ Missing # {} /\ Len(rows) < MaxRows
    /\ rows' = Queued(Message(u, <<"set", Len(sets), Current.marks>>, 0))
    /\ UNCHANGED <<version, stage, owner, sets, facts, rule, worker, ruleLock, candidateLock>>

CancelMessage(i) ==
    /\ CandidateUnlocked
    /\ rows[i].kind = "message" /\ rows[i].status = "queued"
    /\ rows' = [rows EXCEPT ![i].status = "cancelled"]
    /\ UNCHANGED <<version, stage, owner, sets, facts, rule, worker, ruleLock, candidateLock>>

\* update_candidate and transfer_candidate, for which no lock is waited.
EditStage(s) ==
    /\ s # stage /\ stage' = s
    /\ IF s = "documents" /\ rule.trigger = "stage_transition"
       THEN Len(facts) < MaxFacts /\ facts' = Append(facts, rule.version)
       ELSE UNCHANGED facts
    /\ UNCHANGED <<version, owner, sets, rule, rows, worker, ruleLock, candidateLock>>

Transfer(u) ==
    /\ u # owner /\ owner' = u
    /\ UNCHANGED <<version, stage, sets, facts, rule, rows, worker, ruleLock, candidateLock>>

-----------------------------------------------------------------------------
(* The rule: its edits, and the scan for what triggers it.                 *)

\* validate_rule_access, when a rule is saved enabled
RuleAllowed == Published # {}

UpdateRule(enabled) ==
    /\ RuleUnlocked /\ rule.version <= MaxRuleEdits
    /\ enabled => RuleAllowed
    /\ rule' = [rule EXCEPT !.enabled = enabled, !.version = @ + 1]
    /\ rows' = [i \in Ids |-> IF rows[i].rule # 0 /\ rows[i].status \in {"queued", "sending"}
                              THEN [rows[i] EXCEPT !.status = "cancelled"] ELSE rows[i]]
    /\ UNCHANGED <<version, stage, owner, sets, facts, worker, ruleLock, candidateLock>>

JobKey(t) == <<"job", rule.version, t>>
Handled(t) == \E i \in Ids : rows[i].key = JobKey(t)
Discovered ==
    IF rule.trigger = "stage_transition"
    THEN {t \in DOMAIN facts : facts[t] >= rule.version}
    ELSE DOMAIN sets
Job(t) ==
    [kind |-> "job", key |-> JobKey(t), status |-> "queued", by |-> RuleOwner,
     rule |-> rule.version, set |-> t, items |-> {}]

Scan ==
    /\ RuleUnlocked /\ rule.enabled /\ CanAccess(RuleOwner) /\ Len(rows) < MaxRows
    /\ \E t \in Discovered : ~Handled(t) /\ rows' = Append(rows, Job(t))
    /\ UNCHANGED <<version, stage, owner, sets, facts, rule, worker, ruleLock, candidateLock>>

-----------------------------------------------------------------------------
(* The worker.                                                             *)

RowOf(w) == rows[worker[w].row]
At(w, step) == worker[w].at = step
Go(w, step) == worker' = [worker EXCEPT ![w].at = step]
Leave(w) ==
    /\ worker' = [worker EXCEPT ![w] = Idle]
    /\ ruleLock' = IF ruleLock = w THEN Free ELSE ruleLock
    /\ candidateLock' = IF candidateLock = w THEN Free ELSE candidateLock
Finish(w, status) ==
    IF RowOf(w).status = "sending" THEN [rows EXCEPT ![worker[w].row].status = status] ELSE rows

Claim(w, i) ==
    /\ At(w, "idle") /\ rows[i].status = "queued"
    /\ rows' = [rows EXCEPT ![i].status = "sending"]
    /\ worker' = [worker EXCEPT ![w] = [row |-> i, at |-> IF rows[i].rule = 0 THEN "second" ELSE "claimed"]]
    /\ UNCHANGED <<version, stage, owner, sets, facts, rule, ruleLock, candidateLock>>

\* _acquire_send_locks, perform_job: the rule's lock, then the candidate's; a job
\* whose owner may not see the candidate goes on without it.
CandidateFirst(w) == ~At(w, "idle") /\ RowOf(w).kind = "job"
RuleFirst(w) == FALSE
Reversed(w) == RuleFirst(w)

TakeRuleLock(w) ==
    /\ At(w, IF Reversed(w) THEN "second" ELSE "claimed") /\ RuleUnlocked
    /\ ruleLock' = w
    /\ Go(w, IF Reversed(w) THEN "locked" ELSE "second")
    /\ UNCHANGED <<version, stage, owner, sets, facts, rule, rows, candidateLock>>

TakeCandidateLock(w) ==
    /\ At(w, IF Reversed(w) THEN "claimed" ELSE "second")
    /\ IF RowOf(w).kind = "job" /\ ~CanAccess(RuleOwner)
       THEN UNCHANGED candidateLock
       ELSE CandidateUnlocked /\ candidateLock' = w
    /\ Go(w, IF Reversed(w) THEN "second" ELSE "locked")
    /\ UNCHANGED <<version, stage, owner, sets, facts, rule, rows, ruleLock>>

RuleStands(w) == rule.enabled /\ rule.version = RowOf(w).rule /\ stage = "documents"

\* perform_job: the list for a candidate without one, or a message about the
\* snapshot, for a reminder only while it is the one that triggered it.  Access
\* lost while the job waited for the candidate is a 404: it ends as in Crash.
PerformJob(w) ==
    LET acts == RuleStands(w) /\ CanAccess(RuleOwner)
        done == Finish(w, "done")
    IN
    /\ At(w, "locked") /\ RowOf(w).kind = "job" /\ Len(rows) < MaxRows
    /\ CanAccess(RuleOwner) \/ candidateLock # w
    /\ \/ /\ RowOf(w).status = "sending" /\ acts
          /\ rule.action = "apply_list" /\ sets = <<>> /\ Published # {}
          /\ \E v \in Published : sets' = Applied(v)
          /\ rows' = done
       \/ /\ RowOf(w).status = "sending" /\ acts
          /\ rule.action = "document_request" /\ Missing # {}
          /\ rule.trigger = "scheduled_reminder" => Len(sets) = RowOf(w).set
          /\ rows' = Append(done, Message(RuleOwner, <<"action", worker[w].row>>, rule.version))
          /\ UNCHANGED sets
       \/ /\ rows' = done /\ UNCHANGED sets
          /\ \/ RowOf(w).status # "sending" \/ ~acts
             \/ rule.action = "apply_list" /\ (sets # <<>> \/ Published = {})
             \/ /\ rule.action = "document_request"
                /\ \/ Missing = {}
                   \/ rule.trigger = "scheduled_reminder" /\ Len(sets) # RowOf(w).set
    /\ Leave(w)
    /\ UNCHANGED <<version, stage, owner, facts, rule>>

\* revalidate_documents
Valid(w) ==
    /\ CanAccess(RowOf(w).by)
    /\ RowOf(w).rule # 0 => RuleStands(w)
    /\ Len(sets) = RowOf(w).set /\ RowOf(w).items \subseteq Missing

Revalidate(w, from, to) ==
    /\ At(w, from) /\ RowOf(w).kind = "message"
    /\ IF RowOf(w).status = "sending" /\ Valid(w)
       THEN Go(w, to) /\ UNCHANGED <<rows, ruleLock, candidateLock>>
       ELSE Leave(w) /\ rows' = Finish(w, "skipped")
    /\ UNCHANGED <<version, stage, owner, sets, facts, rule>>

PhaseA(w) == Revalidate(w, "locked", "resolved")
PhaseB0(w) == Revalidate(w, "resolved", "calling")

PhaseC(w) ==
    /\ At(w, "calling")
    /\ rows' = Finish(w, "accepted")
    /\ Leave(w)
    /\ UNCHANGED <<version, stage, owner, sets, facts, rule>>

\* The end of a connection frees its locks; the lease runs out.
Crash(w) ==
    /\ ~At(w, "idle")
    /\ rows' = Finish(w, "queued")
    /\ Leave(w)
    /\ UNCHANGED <<version, stage, owner, sets, facts, rule>>

Next ==
    \/ \E v \in Versions : NewVersion(v) \/ Publish(v) \/ Archive(v)
    \/ \E u \in Users :
          \/ SendByHand(u) \/ Transfer(u)
          \/ \E v \in Versions : Apply(u, v) \/ \E item \in ItemsOf[v] : MarkItem(u, item)
    \/ \E s \in {"new", "documents"} : EditStage(s)
    \/ \E e \in BOOLEAN : UpdateRule(e)
    \/ Scan
    \/ \E i \in Ids : CancelMessage(i) \/ \E w \in Workers : Claim(w, i)
    \/ \E w \in Workers :
          \/ TakeRuleLock(w) \/ TakeCandidateLock(w) \/ PerformJob(w)
          \/ PhaseA(w) \/ PhaseB0(w) \/ PhaseC(w) \/ Crash(w)

Spec == Init /\ [][Next]_vars

-----------------------------------------------------------------------------

\* What a message asks for while it is handed over is what the candidate's
\* current list still misses: no receipt, new list or rule's job overtakes it
\* (revalidate_documents: "without sending already received positions").
OnlyMissingIsAskedFor ==
    \A w \in Workers : At(w, "calling") =>
        Len(sets) = RowOf(w).set /\ RowOf(w).items \subseteq Missing

\* Two workers never wait for each other's lock (_SendLocks: "no deadlock cycle
\* can form").
NoLockCycle ==
    \A w, q \in Workers :
        ~ (candidateLock = w /\ At(w, "second") /\ ruleLock = q /\ At(q, "second"))

\* Refuted: who asked may still see the candidate while the message is handed
\* over.  A transfer waits for no lock ("the unavoidable check-then-call
\* micro-window", process_external_row).
AccessAtHandOff == \A w \in Workers : At(w, "calling") => CanAccess(RowOf(w).by)

\* Refuted: an accepted request by hand leaves a message on its way or sent.  One
\* with the same list and marks as a cancelled or skipped row is answered with it.
AcceptedIsSent ==
    \A i \in Ids : rows[i].kind = "message" /\ rows[i].rule = 0 =>
        rows[i].status \notin {"cancelled", "skipped"}
=============================================================================
