----------------------------- MODULE EventLifecycle -----------------------------
(***************************************************************************)
(* One calendar event about a candidate, the notifications and letters its *)
(* edits plan and withdraw, and the workers that send them.  Sources:      *)
(* routers/events.py (create_event, update_event), the planners of         *)
(* notification_service.py and candidate_messages.py, and the send-time    *)
(* check _candidate_event_is_stale of worker.py.                           *)
(*                                                                         *)
(* An edit is one transaction on the locked event and replans its rows in  *)
(* it.  No lock orders it with a row a worker has already claimed.  A      *)
(* letter is checked twice before it is handed over, a notification of a   *)
(* user never.                                                             *)
(*                                                                         *)
(* The candidate has one channel with a consent (see EmailConsent), and    *)
(* quiet hours are over.  A row is its record: the idempotency key is the  *)
(* event's version and what the row is about.  Left out: the notice of a   *)
(* change that goes to the assignee at once, the linked reminder (see      *)
(* Reminders), a request based on an older version, which expected_version *)
(* refuses, and events of deleted candidates.                              *)
(***************************************************************************)
EXTENDS Naturals, FiniteSets

CONSTANTS
    Users,        \* who may be assigned, or edit
    Candidate,    \* the recipient of letters
    Lead,         \* hours before the start of the approach notice and reminder
    Capacity,     \* rows the workers hold at a time: their batches together
    MaxTime,      \* bound: the clock and the starts users choose
    MaxEdits,     \* bound: edits of the event
    MaxFaults,    \* bound: sends that fail or are recovered
    NoUser

ASSUME BoundAssumption ==
    /\ Lead \in Nat /\ Capacity \in Nat \ {0}
    /\ MaxTime \in Nat /\ MaxEdits \in Nat /\ MaxFaults \in Nat
ASSUME RecipientAssumption == Candidate \notin Users /\ NoUser \notin Users

VARIABLES
    clock,
    status, kind, starts, assignee, version,  \* the event
    outbox,          \* the rows planned so far and where each is
    caught, resumed, \* history: rows in flight at a replan; POSTPONED undone as is
    faults

event   == <<status, kind, starts, assignee, version>>
history == <<caught, resumed>>
vars    == <<clock, event, outbox, history, faults>>

Moments  == 0..MaxTime
Abouts   == {"approaching", "overdue", "scheduled", "rescheduled", "reminder", "cancelled"}
Row      == [about : Abouts, to : Users \cup {Candidate}, version : Nat,
             starts : Moments, at : Moments]
InFlight == {"claimed", "resolved", "calling"}
Places   == {"queued", "sent", "skipped", "cancelled"} \cup InFlight
Rows     == DOMAIN outbox
Held     == {r \in Rows : outbox[r] \in InFlight}
Open     == {"scheduled", "postponed"}

TypeOK ==
    /\ clock \in Moments
    /\ status \in {"absent", "completed", "cancelled"} \cup Open
    /\ kind \in {"interview", "call", "reminder"}
    /\ starts \in Moments /\ version \in 0..MaxEdits + 1
    /\ assignee \in Users \cup {NoUser}
    /\ assignee = NoUser <=> status = "absent"
    /\ Rows \subseteq Row
    /\ \A r \in Rows : outbox[r] \in Places /\ r.version \in 1..version
    /\ caught \subseteq Rows /\ resumed \in BOOLEAN
    /\ faults \in 0..MaxFaults

Init ==
    /\ clock = 0
    /\ status = "absent" /\ starts = 0 /\ assignee = NoUser /\ version = 0
    /\ kind \in {"interview", "call", "reminder"}
    /\ outbox = [r \in {} |-> "queued"]
    /\ caught = {} /\ resumed = FALSE
    /\ faults = 0

-----------------------------------------------------------------------------
(* Plans: sets of rows for version v of an event that starts at t.  Some   *)
(* definitions here follow one with a plausible mistake a run must notice. *)

About(what, to, v, t, at) ==
    [about |-> what, to |-> to, version |-> v, starts |-> t, at |-> at]

\* A row Lead before the start, unless that moment has passed.
ForgotPast(what, to, v, t) == {About(what, to, v, t, t - Lead)}
Ahead(what, to, v, t) ==
    IF t > clock + Lead THEN {About(what, to, v, t, t - Lead)} ELSE {}

\* _plan_approaching_and_overdue
Notices(u, v, t) ==
    (IF kind = "reminder" THEN {} ELSE Ahead("approaching", u, v, t))
    \cup {About("overdue", u, v, t, t)}

\* plan_candidate_interview_messages
Letters(what, s, v, t) ==
    IF kind = "interview" /\ s = "scheduled"
    THEN {About(what, Candidate, v, t, clock)} \cup Ahead("reminder", Candidate, v, t)
    ELSE {}

\* plan_candidate_interview_cancelled, which looks at neither kind nor status
CancelledLetter(v, t) == {About("cancelled", Candidate, v, t, clock)}

\* cancel_pending_for_object, then one INSERT for every key not yet taken.
LeaveQueued == outbox
Withdrawn == [r \in Rows |-> IF outbox[r] = "queued" THEN "cancelled" ELSE outbox[r]]

Replan(plan) ==
    /\ outbox' = [r \in Rows \cup plan |-> IF r \in Rows THEN Withdrawn[r] ELSE "queued"]
    /\ caught' = caught \cup Held
    /\ resumed' = FALSE

SameVersion == version
NextVersion == version + 1

-----------------------------------------------------------------------------
(* Requests.                                                               *)

CreateEvent(t, u) ==
    /\ status = "absent"
    /\ status' = "scheduled" /\ starts' = t /\ assignee' = u /\ version' = 1
    /\ Replan(Notices(u, 1, t) \cup Letters("scheduled", "scheduled", 1, t))
    /\ UNCHANGED <<clock, kind, faults>>

\* What every accepted PATCH does to the event: status s, start t, assignee u.
Edit(s, t, u) ==
    /\ status \in Open /\ version <= MaxEdits
    /\ status' = s /\ starts' = t /\ assignee' = u /\ version' = NextVersion
    /\ UNCHANGED <<clock, kind, faults>>

\* Title, note, end or reminder moment; and a postponed event that is taken up
\* again without a new date.  Nothing is replanned.
EditDetails(s) ==
    /\ s \in {status, "scheduled"}
    /\ Edit(s, starts, assignee)
    /\ resumed' = (resumed \/ (status = "postponed" /\ s = "scheduled"))
    /\ UNCHANGED <<outbox, caught>>

\* The start moves, the event is postponed or passes to another user.
Reschedule(s, t, u) ==
    LET moved == t # starts \/ (s = "postponed" /\ status # "postponed") IN
    /\ s \in Open /\ (moved \/ u # assignee)
    /\ Edit(s, t, u)
    /\ Replan((IF moved THEN Letters("rescheduled", s, NextVersion, t) ELSE {})
              \cup (IF s = "scheduled" THEN Notices(u, NextVersion, t) ELSE {}))

\* A request that closes the event may change its other fields too, to no
\* effect on what is planned: the closed event keeps them here.
Complete ==
    /\ Edit("completed", starts, assignee)
    /\ Replan({})

Cancel ==
    /\ Edit("cancelled", starts, assignee)
    /\ Replan(CancelledLetter(NextVersion, starts))

-----------------------------------------------------------------------------
(* Workers.                                                                *)

Move(r, place) ==
    /\ outbox' = [outbox EXCEPT ![r] = place]
    /\ UNCHANGED <<clock, event, history>>

\* _CANDIDATE_EVENT_FRESH_TYPES, and _candidate_event_is_stale
EveryType == Abouts
FreshTypes == {"scheduled", "rescheduled", "reminder"}

SameStatus(r) == r.about \in FreshTypes /\ (status # "scheduled" \/ starts <= clock)
Stale(r) ==
    r.about \in FreshTypes /\
    (status # "scheduled" \/ version # r.version \/ starts <= clock)

\* claim_batch: ORDER BY scheduled_at
Claim(r) ==
    /\ outbox[r] = "queued" /\ r.at <= clock
    /\ \A q \in Rows : outbox[q] = "queued" => r.at <= q.at
    /\ Cardinality(Held) < Capacity
    /\ Move(r, "claimed") /\ UNCHANGED faults

Notify(r) ==
    /\ outbox[r] = "claimed" /\ r.to # Candidate
    /\ Move(r, "sent") /\ UNCHANGED faults

PhaseA(r) ==
    /\ outbox[r] = "claimed" /\ r.to = Candidate
    /\ Move(r, IF Stale(r) THEN "skipped" ELSE "resolved") /\ UNCHANGED faults

PhaseB0(r) ==
    /\ outbox[r] = "resolved"
    /\ Move(r, IF Stale(r) THEN "skipped" ELSE "calling") /\ UNCHANGED faults

HandOver(r) ==
    /\ outbox[r] = "calling"
    /\ Move(r, "sent") /\ UNCHANGED faults

\* A temporary failure or an expired lease.
Requeue(r) ==
    /\ outbox[r] \in InFlight /\ faults < MaxFaults
    /\ faults' = faults + 1
    /\ Move(r, "queued")

Tick ==
    /\ clock < MaxTime /\ clock' = clock + 1
    /\ UNCHANGED <<event, outbox, history, faults>>

Send(r) == Claim(r) \/ Notify(r) \/ PhaseA(r) \/ PhaseB0(r) \/ HandOver(r)

Request ==
    \/ \E t \in Moments, u \in Users :
         \/ CreateEvent(t, u)
         \/ \E s \in Open : Reschedule(s, t, u)
    \/ \E s \in Open : EditDetails(s)
    \/ Complete \/ Cancel

Next == Tick \/ Request \/ \E r \in Rows : Send(r) \/ Requeue(r)

Spec == Init /\ [][Next]_vars

-----------------------------------------------------------------------------
(* Properties.                                                             *)

\* A letter passes its last check only if what it says still holds: the
\* interview is on, ahead, and at the time the letter names
\* (_candidate_event_is_stale: "must not leave after the interview was moved,
\* cancelled, completed or already began").
LettersTellTheTruth ==
    [][\A r \in Rows :
        /\ outbox[r] # "calling" /\ outbox'[r] = "calling"
        /\ r.about \in {"scheduled", "rescheduled", "reminder"}
        => status = "scheduled" /\ starts = r.starts /\ clock < starts]_vars

\* Only rows a worker held when the event changed outlive the change: any other
\* row in the queue tells of the event as it is, and an approach or overdue
\* notice goes to the assignee (update_event, "the stale plan").
QueueFollowsEvent ==
    \A r \in Rows : outbox[r] = "queued" /\ r \notin caught =>
        /\ r.starts = starts
        /\ r.about # "cancelled" => status \in Open
        /\ r.about \in {"approaching", "overdue"} =>
             r.to = assignee /\ status = "scheduled"

\* What must be said is planned and kept, whatever withdraws the rows around it.
\* A scheduled event has an overdue notice at its start for its assignee, unless a
\* postponement was undone without a new date (plan_event_notifications); the
\* letter that calls an interview off is never dropped or withdrawn
\* (update_event: "tell the candidate the interview is off").
OverdueIsPlanned ==
    status = "scheduled" /\ ~resumed =>
        \E r \in Rows : /\ r.about = "overdue" /\ outbox[r] # "cancelled"
                        /\ r.starts = starts /\ r.to = assignee
CancellationIsKept ==
    status = "cancelled" /\ kind = "interview" =>
        \E r \in Rows : /\ r.about = "cancelled" /\ r.to = Candidate
                        /\ outbox[r] \notin {"cancelled", "skipped"}

\* The rows tell of the event as it is, and what must be said is among them.
PlanFitsEvent == QueueFollowsEvent /\ OverdueIsPlanned /\ CancellationIsKept

-----------------------------------------------------------------------------
(* Statements of the code base that the code does not keep.                *)

\* A letter is dropped as stale only for what the docstring names: the interview
\* was moved, cancelled, completed or began (_candidate_event_is_stale).
OnlyStaleLettersAreDropped ==
    [][\A r \in Rows : outbox[r] # "skipped" /\ outbox'[r] = "skipped" =>
        status # "scheduled" \/ starts # r.starts \/ starts <= clock]_vars

\* A new date of an interview is announced (update_event: "interview moved, and
\* a fresh reminder").
NewDateIsAnnounced ==
    [][kind = "interview" /\ status \in Open /\ status' \in Open /\ starts' # starts =>
        \E r \in DOMAIN outbox' :
            r.to = Candidate /\ outbox'[r] = "queued" /\ r.starts = starts']_vars

\* Letters are about interviews (plan_candidate_interview_cancelled).
LettersAreAboutInterviews == \A r \in Rows : r.to = Candidate => kind = "interview"
=============================================================================
