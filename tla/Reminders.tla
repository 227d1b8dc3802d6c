------------------------------- MODULE Reminders -------------------------------
(***************************************************************************)
(* Personal reminders, the calendar events they are linked to, and the     *)
(* worker pass that fires the due ones.  Sources: routers/reminders.py,    *)
(* event_reminders.py, routers/events.py (the part that touches the linked *)
(* reminder), and scan_due_reminders of worker.py.                         *)
(*                                                                         *)
(* A pass selects its batch FOR UPDATE SKIP LOCKED; the locks last until   *)
(* the first commit or rollback.  The rest of the batch is then reloaded,  *)
(* one reminder at a time and without a lock, and written back by columns. *)
(* A request of a user is one transaction on the locked row.               *)
(*                                                                         *)
(* A fan-out of a notification to several channels is one row here; what   *)
(* becomes of a queued row is the subject of NotificationOutbox.  Titles,  *)
(* assignees and the optimistic versions, which refuse an edit based on an *)
(* older row, are left out.                                                *)
(***************************************************************************)
EXTENDS Naturals, Sequences, FiniteSets

CONSTANTS
    Reminders, Events, Workers,
    BatchSize,      \* worker_batch_size
    Period, Grace,  \* to the next occurrence; until a reminder is overdue
    MaxTime,        \* bound: the clock and the moments users choose
    MaxEdits,       \* bound: requests of users
    MaxFaults,      \* bound: failed reminders and crashes
    MaxOccurrence,  \* bound: a pass takes no reminder beyond it
    NoTime, NoReminder

ASSUME BatchAssumption == IsFiniteSet(Reminders) /\ BatchSize \in Nat \ {0}
ASSUME TimeAssumption ==
    /\ Period \in Nat \ {0} /\ Grace \in Nat /\ MaxTime \in Nat
    /\ MaxEdits \in Nat /\ MaxFaults \in Nat /\ MaxOccurrence \in Nat
ASSUME NullAssumption == NoTime \notin Nat /\ NoReminder \notin Reminders

VARIABLES
    clock,
    status, due, recurring, occurrence, stamped,  \* reminders (completed_at set)
    eventStatus, moment, linked,                  \* events; linked: by reminders.event_id
    queued, cancelled, delivered,                 \* outbox rows, by idempotency key
    step, now, batch, held, seen,                 \* passes of the workers
    refused,                                      \* history: events whose edit the database refused
    edits, faults

reminders == <<status, due, recurring, occurrence, stamped>>
events    == <<eventStatus, moment, linked>>
outbox    == <<queued, cancelled, delivered>>
passes    == <<step, now, batch, held, seen>>
vars      == <<clock, reminders, events, outbox, passes, refused, edits, faults>>

Moments == 0..MaxTime
Row     == [of : Reminders, occurrence : Nat, kind : {"due", "overdue"}]
Rows    == queued \cup cancelled \cup delivered
Read    == [due : Nat, recurring : BOOLEAN, occurrence : Nat]

TypeOK ==
    /\ clock \in Moments
    /\ status \in [Reminders -> {"absent", "active", "completed", "cancelled"}]
    /\ due \in [Reminders -> Nat]
    /\ recurring \in [Reminders -> BOOLEAN]
    /\ occurrence \in [Reminders -> Nat]
    /\ stamped \in [Reminders -> BOOLEAN]
    /\ \A r \in Reminders : stamped[r] <=> status[r] = "completed"
    /\ eventStatus \in [Events -> {"absent", "open", "completed", "cancelled"}]
    /\ moment \in [Events -> Moments \cup {NoTime}]
    /\ linked \in [Events -> Reminders \cup {NoReminder}]
    /\ queued \subseteq Row /\ cancelled \subseteq Row /\ delivered \subseteq Row
    /\ queued \cap cancelled = {} /\ (queued \cup cancelled) \cap delivered = {}
    /\ step \in [Workers -> {"idle", "load", "write"}]
    /\ now \in [Workers -> Moments]
    /\ batch \in [Workers -> Seq(Reminders)]
    /\ held \in [Workers -> BOOLEAN]
    /\ seen \in [Workers -> Read]
    /\ \A w \in Workers : step[w] = "idle" <=> batch[w] = <<>>
    /\ refused \subseteq Events
    /\ edits \in 0..MaxEdits /\ faults \in 0..MaxFaults

Unread == [due |-> 0, recurring |-> FALSE, occurrence |-> 0]

\* Events of before, if any, remind of nothing.
Init ==
    /\ clock = 0
    /\ status = [r \in Reminders |-> "absent"]
    /\ due = [r \in Reminders |-> 0]
    /\ recurring = [r \in Reminders |-> FALSE]
    /\ occurrence = [r \in Reminders |-> 1]
    /\ stamped = [r \in Reminders |-> FALSE]
    /\ eventStatus \in [Events -> {"absent", "open", "cancelled"}]
    /\ moment = [e \in Events |-> NoTime]
    /\ linked = [e \in Events |-> NoReminder]
    /\ queued = {} /\ cancelled = {} /\ delivered = {}
    /\ step = [w \in Workers |-> "idle"]
    /\ now = [w \in Workers |-> 0]
    /\ batch = [w \in Workers |-> <<>>]
    /\ held = [w \in Workers |-> FALSE]
    /\ seen = [w \in Workers |-> Unread]
    /\ refused = {}
    /\ edits = 0 /\ faults = 0

Members(s) == {s[i] : i \in DOMAIN s}

\* Rows a pass holds locked: its whole batch until its first commit.
ForgotForUpdate(w) == {}
LockedBy(w) == IF held[w] THEN Members(batch[w]) ELSE {}
Unlocked(r) == \A w \in Workers : r \notin LockedBy(w)

\* cancel_pending_for_object("reminder", r)
QueuedOf(r) == {row \in queued : row.of = r}

CancelPending(r) ==
    /\ queued' = queued \ QueuedOf(r)
    /\ cancelled' = cancelled \cup QueuedOf(r)
    /\ UNCHANGED delivered

Request ==
    /\ edits < MaxEdits /\ edits' = edits + 1
    /\ UNCHANGED <<clock, passes, faults>>

-----------------------------------------------------------------------------
(* Reminders: the requests of their owners.                                *)

Insert(r, d, rec) ==
    /\ status[r] = "absent"
    /\ status' = [status EXCEPT ![r] = "active"]
    /\ due' = [due EXCEPT ![r] = d]
    /\ recurring' = [recurring EXCEPT ![r] = rec]
    /\ UNCHANGED <<occurrence, stamped>>

CreateReminder(r, d, rec) ==
    /\ Request /\ Insert(r, d, rec)
    /\ UNCHANGED <<events, outbox, refused>>

\* The event_id of the payload is stored as it comes: the database asks that the event
\* exists, in whatever status, and has no reminder yet (uq_reminders_event_id).
CreateLinked(r, d, rec, e) ==
    /\ Request /\ Insert(r, d, rec)
    /\ eventStatus[e] # "absent" /\ linked[e] = NoReminder
    /\ linked' = [linked EXCEPT ![e] = r]
    /\ UNCHANGED <<eventStatus, moment, outbox, refused>>

UpdateReminder(r, d, rec) ==
    /\ Request /\ Unlocked(r) /\ status[r] = "active"
    /\ due' = [due EXCEPT ![r] = d]
    /\ recurring' = [recurring EXCEPT ![r] = rec]
    /\ CancelPending(r)
    /\ UNCHANGED <<status, occurrence, stamped, events, refused>>

CompleteReminder(r) ==
    /\ Request /\ Unlocked(r) /\ status[r] = "active"
    /\ status' = [status EXCEPT ![r] = "completed"]
    /\ stamped' = [stamped EXCEPT ![r] = TRUE]
    /\ CancelPending(r)
    /\ UNCHANGED <<due, recurring, occurrence, events, refused>>

CancelReminder(r) ==
    /\ Request /\ Unlocked(r) /\ status[r] = "active"
    /\ status' = [status EXCEPT ![r] = "cancelled"]
    /\ CancelPending(r)
    /\ UNCHANGED <<due, recurring, occurrence, stamped, events, refused>>

-----------------------------------------------------------------------------
(* Events, each with the part of sync_event_reminder its edit comes to.    *)

CreateEvent(e, m) ==
    /\ Request /\ eventStatus[e] = "absent"
    /\ eventStatus' = [eventStatus EXCEPT ![e] = "open"]
    /\ moment' = [moment EXCEPT ![e] = m]
    /\ IF m = NoTime
       THEN UNCHANGED <<linked, reminders>>
       ELSE \E r \in Reminders : /\ Insert(r, m, FALSE)
                                 /\ linked' = [linked EXCEPT ![e] = r]
    /\ UNCHANGED <<outbox, refused>>

\* The first moment of an event that had none.
EditGivesMoment(e, m) ==
    /\ Request /\ eventStatus[e] = "open" /\ linked[e] = NoReminder
    /\ m # NoTime
    /\ moment' = [moment EXCEPT ![e] = m]
    /\ \E r \in Reminders : /\ Insert(r, m, FALSE)
                            /\ linked' = [linked EXCEPT ![e] = r]
    /\ UNCHANGED <<eventStatus, outbox, refused>>

\* The moment is cleared, or there was none: an active reminder stands alone from now on.
EditDropsMoment(e) ==
    LET r == linked[e] IN
    /\ Request /\ eventStatus[e] = "open" /\ r # NoReminder /\ Unlocked(r)
    /\ moment' = [moment EXCEPT ![e] = NoTime]
    /\ IF status[r] = "active"
       THEN linked' = [linked EXCEPT ![e] = NoReminder] /\ CancelPending(r)
       ELSE UNCHANGED <<linked, outbox>>
    /\ UNCHANGED <<eventStatus, reminders, refused>>

\* The linked reminder is pointed at the event's moment and made active.  It
\* keeps its completed_at, which the database allows in completed rows only.
EditPointsReminder(e, m, retitled) ==
    LET r == linked[e]
        moved == due[r] # m \/ retitled \/ status[r] # "active" IN
    /\ Request /\ eventStatus[e] = "open" /\ r # NoReminder /\ Unlocked(r)
    /\ m # NoTime /\ ~stamped[r]
    /\ moment' = [moment EXCEPT ![e] = m]
    /\ due' = [due EXCEPT ![r] = m]
    /\ status' = [status EXCEPT ![r] = "active"]
    /\ IF moved THEN CancelPending(r) ELSE UNCHANGED outbox
    /\ UNCHANGED <<recurring, occurrence, stamped, eventStatus, linked, refused>>

EditRefused(e) ==
    /\ Request /\ eventStatus[e] = "open" /\ linked[e] # NoReminder
    /\ Unlocked(linked[e]) /\ stamped[linked[e]]
    /\ refused' = refused \cup {e}
    /\ UNCHANGED <<reminders, events, outbox>>

\* What closing an event does to its reminder.
LeftActive(r) == "active"
Closed(r) == "cancelled"

CloseEvent(e, s) ==
    LET r == linked[e] IN
    /\ Request /\ eventStatus[e] = "open"
    /\ eventStatus' = [eventStatus EXCEPT ![e] = s]
    /\ r = NoReminder \/ Unlocked(r)
    /\ IF r # NoReminder /\ status[r] = "active"
       THEN status' = [status EXCEPT ![r] = Closed(r)] /\ CancelPending(r)
       ELSE UNCHANGED <<status, outbox>>
    /\ UNCHANGED <<due, recurring, occurrence, stamped, moment, linked, refused>>

-----------------------------------------------------------------------------
(* The worker pass.                                                        *)

\* WHERE status = 'active' AND due_at <= now ... SKIP LOCKED
AnyStatus(t) == {r \in Reminders : due[r] <= t /\ Unlocked(r)}
DueThisPass(t) ==
    {r \in Reminders : /\ status[r] = "active" /\ due[r] = t /\ Unlocked(r)
                       /\ occurrence[r] < MaxOccurrence}
Available(t) ==
    {r \in Reminders : /\ status[r] = "active" /\ due[r] <= t /\ Unlocked(r)
                       /\ occurrence[r] < MaxOccurrence}

\* ORDER BY due_at LIMIT BatchSize
Batches(t) ==
    LET A == Available(t)
        n == IF Cardinality(A) < BatchSize THEN Cardinality(A) ELSE BatchSize IN
    {b \in [1..n -> A] :
        /\ Cardinality(Members(b)) = n
        /\ \A i, j \in 1..n : i < j => due[b[i]] <= due[b[j]]
        /\ \A r \in A \ Members(b), i \in 1..n : due[b[i]] <= due[r]}

Scan(w) ==
    /\ step[w] = "idle" /\ Available(clock) # {}
    /\ \E b \in Batches(clock) : batch' = [batch EXCEPT ![w] = b]
    /\ now' = [now EXCEPT ![w] = clock]
    /\ held' = [held EXCEPT ![w] = TRUE]
    /\ step' = [step EXCEPT ![w] = "load"]
    /\ UNCHANGED <<clock, reminders, events, outbox, seen, refused, edits, faults>>

\* The next reminder of the batch is read; no lock is taken, and neither its
\* status nor its due time is compared again.
Load(w) ==
    /\ step[w] = "load"
    /\ LET r == Head(batch[w]) IN
       seen' = [seen EXCEPT ![w] = [due |-> due[r], recurring |-> recurring[r],
                                    occurrence |-> occurrence[r]]]
    /\ step' = [step EXCEPT ![w] = "write"]
    /\ UNCHANGED <<clock, reminders, events, outbox, now, batch, held, refused, edits, faults>>

\* The transaction ends: the locks go, the next reminder comes.
Proceed(w) ==
    /\ batch' = [batch EXCEPT ![w] = Tail(@)]
    /\ step' = [step EXCEPT ![w] = IF Len(batch[w]) = 1 THEN "idle" ELSE "load"]
    /\ held' = [held EXCEPT ![w] = FALSE]
    /\ seen' = [seen EXCEPT ![w] = Unread]
    /\ UNCHANGED now

\* The idempotency key: type, reminder and occurrence.
OneKeyPerReminder(w, r) == [of |-> r, occurrence |-> 1, kind |-> "due"]
Key(w, r) ==
    [of |-> r, occurrence |-> seen[w].occurrence,
     kind |-> IF now[w] >= seen[w].due + Grace THEN "overdue" ELSE "due"]

\* INSERT under the unique key, or nothing when the key is taken.
WithoutKey(row) == {row}
Fresh(row) == {row} \ Rows

Process(w) ==
    LET r == Head(batch[w]) IN
    /\ step[w] = "write"
    /\ \A v \in Workers \ {w} : r \notin LockedBy(v)
    /\ queued' = queued \cup Fresh(Key(w, r))
    /\ IF seen[w].recurring
       THEN /\ due' = [due EXCEPT ![r] = seen[w].due + Period]
            /\ occurrence' = [occurrence EXCEPT ![r] = seen[w].occurrence + 1]
            /\ UNCHANGED <<status, stamped>>
       ELSE /\ status' = [status EXCEPT ![r] = "completed"]
            /\ stamped' = [stamped EXCEPT ![r] = TRUE]
            /\ UNCHANGED <<due, occurrence>>
    /\ Proceed(w)
    /\ UNCHANGED <<clock, recurring, events, cancelled, delivered, refused, edits, faults>>

\* An error in one reminder is rolled back; the pass goes on with the next.
ProcessFails(w) ==
    /\ step[w] = "write" /\ faults < MaxFaults
    /\ faults' = faults + 1
    /\ Proceed(w)
    /\ UNCHANGED <<clock, reminders, events, outbox, refused, edits>>

Crash(w) ==
    /\ step[w] # "idle" /\ faults < MaxFaults
    /\ faults' = faults + 1
    /\ step' = [step EXCEPT ![w] = "idle"]
    /\ batch' = [batch EXCEPT ![w] = <<>>]
    /\ held' = [held EXCEPT ![w] = FALSE]
    /\ seen' = [seen EXCEPT ![w] = Unread]
    /\ UNCHANGED <<clock, reminders, events, outbox, now, refused, edits>>

-----------------------------------------------------------------------------

Tick ==
    /\ clock < MaxTime /\ clock' = clock + 1
    /\ UNCHANGED <<reminders, events, outbox, passes, refused, edits, faults>>

\* A queued row is delivered, at once or after quiet hours.
Deliver(row) ==
    /\ row \in queued
    /\ queued' = queued \ {row}
    /\ delivered' = delivered \cup {row}
    /\ UNCHANGED <<clock, reminders, events, cancelled, passes, refused, edits, faults>>

Pass(w) == Scan(w) \/ Load(w) \/ Process(w)

Next ==
    \/ Tick
    \/ \E r \in Reminders, d \in Moments, rec \in BOOLEAN :
         \/ CreateReminder(r, d, rec) \/ UpdateReminder(r, d, rec)
         \/ \E e \in Events : CreateLinked(r, d, rec, e)
    \/ \E r \in Reminders : CompleteReminder(r) \/ CancelReminder(r)
    \/ \E e \in Events, m \in Moments \cup {NoTime} :
         \/ CreateEvent(e, m) \/ EditGivesMoment(e, m)
         \/ \E retitled \in BOOLEAN : EditPointsReminder(e, m, retitled)
    \/ \E e \in Events : EditDropsMoment(e) \/ EditRefused(e)
    \/ \E e \in Events, s \in {"completed", "cancelled"} : CloseEvent(e, s)
    \/ \E w \in Workers : Pass(w) \/ ProcessFails(w) \/ Crash(w)
    \/ \E row \in queued : Deliver(row)

Spec == Init /\ [][Next]_vars

\* Every worker keeps making passes.
FairSpec == Spec /\ \A w \in Workers : WF_vars(Pass(w))

-----------------------------------------------------------------------------
(* Properties.                                                             *)

\* No occurrence is passed over in silence: a recurring reminder advances only
\* past occurrences that have their notification (worker.py, _process_reminder;
\* two passes may write the same reminder in any order).
NoOccurrenceSkipped ==
    \A r \in Reminders : \A n \in 1..(occurrence[r] - 1) :
        \E row \in Rows : row.of = r /\ row.occurrence = n

\* An event that is closed stops reminding (event_reminders.py: "Completed/cancelled
\* events stop reminding"): closing it leaves no active reminder, and nothing that is
\* written afterwards makes one active again, whatever a pass has read before, whoever
\* linked it.  Only a reminder created for an event that is closed already is active.
RemindsOfClosed(e) ==
    /\ eventStatus[e] \in {"completed", "cancelled"}
    /\ linked[e] # NoReminder /\ status[linked[e]] = "active"
ClosedEventsStopReminding ==
    [][\A e \in Events : RemindsOfClosed(e)' =>
          \/ RemindsOfClosed(e) /\ linked'[e] = linked[e]
          \/ eventStatus[e] # "open" /\ status[linked'[e]] = "absent"]_vars

\* While a pass still holds its locks it notifies only of reminders that are
\* active and due at that moment, whatever users and other passes do
\* (scan_due_reminders: "Each reminder is claimed with SKIP LOCKED").
LockedPassFiresDueOnly ==
    [][\A w \in Workers, row \in Rows' \ Rows :
        held[w] /\ batch'[w] # batch[w]
            => status[row.of] = "active" /\ due[row.of] <= clock]_vars

\* A due reminder is fired in the end, unless a user closes or moves it.
DueRemindersFire ==
    \A r \in Reminders :
        status[r] = "active" /\ due[r] <= clock
            ~> status[r] # "active" \/ due[r] > clock

-----------------------------------------------------------------------------
(* Statements of the code base that the code does not keep.                *)

\* A notification is made only for a reminder that is active and due when it is
\* made (scan_due_reminders: "Deliver due personal reminders").
OnlyDueRemindersFire ==
    [][\A row \in Rows' \ Rows :
        status[row.of] = "active" /\ due[row.of] <= clock]_vars

\* One occurrence makes one notification (models.py, Reminder.occurrence: "a
\* repeated worker pass can never deliver one occurrence twice").
OccurrenceFiresOnce ==
    \A x, y \in Rows : x.of = y.of /\ x.occurrence = y.occurrence => x = y

\* "Completed/cancelled events stop reminding" (event_reminders.py), whenever the
\* reminder was created: POST /reminders does not ask for the event's status.
ClosedEventsNeverRemind == \A e \in Events : ~RemindsOfClosed(e)

\* Closing an event stops what its reminder still has to deliver
\* (event_reminders.py: "completing, cancelling or rescheduling the event
\* cancels the pending deliveries of the linked reminder").
ClosedEventsAreSilent ==
    [][\A e \in Events :
        eventStatus[e] = "open" /\ eventStatus'[e] # "open" /\ linked[e] # NoReminder
            => \A row \in queued' : row.of # linked[e]]_vars

\* An open event can be edited: sync_event_reminder is "safe to call
\* repeatedly for the same event".
EditsAreAccepted == refused = {}
=============================================================================
