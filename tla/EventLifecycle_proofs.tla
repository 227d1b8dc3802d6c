-------------------------- MODULE EventLifecycle_proofs --------------------------
(***************************************************************************)
(* Theorems about EventLifecycle, for every set of users, every lead time, *)
(* every capacity of the workers and every bound, and about the sessions   *)
(* and the bell that MCEventLifecycle puts beside it.                      *)
(***************************************************************************)
EXTENDS MCEventLifecycle, TLAPS

USE DEF event, history, vars

\* What a row says still holds of the event.
Follows(r) ==
    /\ r.starts = starts
    /\ r.about # "cancelled" => status \in Open
    /\ r.about \in {"approaching", "overdue"} =>
         r.to = assignee /\ status = "scheduled"

\* A row that may come back to the queue, and was not in flight at a replan.
Live == {"queued"} \cup InFlight
LiveRowsFollow == \A r \in Rows : outbox[r] \in Live /\ r \notin caught => Follows(r)

\* A row of the event's version names its start.
VersionsTell == \A r \in Rows : r.version = version => r.starts = starts

\* Before it is created an event has no version, and so no rows.
NoneYet == status = "absent" => version = 0

PlanHolds ==
    /\ NoneYet /\ LiveRowsFollow /\ VersionsTell
    /\ OverdueIsPlanned /\ CancellationIsKept

-----------------------------------------------------------------------------
(* The operators the actions are built from.                               *)

\* What a replan leaves: the rows before it are withdrawn or known as caught, the
\* new ones queue up.
LEMMA Replanned ==
    ASSUME TypeOK, NEW plan \in SUBSET Row, Replan(plan)
    PROVE  /\ Rows' = Rows \cup plan
           /\ \A r \in Rows : /\ outbox'[r] = Withdrawn[r]
                              /\ outbox'[r] \in Live => r \in caught'
           /\ \A r \in plan \ Rows : outbox'[r] = "queued"
           /\ \A r \in Rows' : outbox'[r] \in Places
           /\ caught' \subseteq Rows' /\ resumed' = FALSE
BY DEF Replan, Withdrawn, Held, Live, Rows, TypeOK, Places, InFlight

\* A row of a plan is of its version and start.
LEMMA AheadIs ==
    ASSUME TypeOK, NEW what \in Abouts, NEW to \in Users \cup {Candidate},
           NEW v \in Nat, NEW t \in Moments, NEW r \in Ahead(what, to, v, t)
    PROVE  r \in Row /\ r.about = what /\ r.to = to /\ r.version = v /\ r.starts = t
<1>1. clock \in Nat /\ t \in Nat /\ MaxTime \in Nat /\ clock <= MaxTime /\ t <= MaxTime
  BY BoundAssumption DEF TypeOK, Moments
<1>2. t > clock + Lead /\ r = About(what, to, v, t, t - Lead)
  BY DEF Ahead
<1>3. t - Lead \in Moments
  BY <1>1, <1>2, BoundAssumption DEF Moments
<1> QED
  BY <1>2, <1>3 DEF About, Row

LEMMA NoticesAre ==
    ASSUME TypeOK, NEW u \in Users, NEW v \in Nat, NEW t \in Moments
    PROVE  /\ \A r \in Notices(u, v, t) :
                 /\ r \in Row /\ r.about \in {"approaching", "overdue"}
                 /\ r.to = u /\ r.version = v /\ r.starts = t
           /\ \E r \in Notices(u, v, t) : r.about = "overdue" /\ r.to = u /\ r.starts = t
<1> DEFINE o == About("overdue", u, v, t, t)
<1>1. /\ o \in Row /\ o.about = "overdue" /\ o.to = u /\ o.version = v /\ o.starts = t
      /\ o \in Notices(u, v, t)
  BY DEF About, Row, Abouts, Notices
<1>2. ASSUME NEW r \in Notices(u, v, t), r # o
      PROVE  r \in Ahead("approaching", u, v, t)
  BY <1>2 DEF Notices
<1>3. ASSUME NEW r \in Ahead("approaching", u, v, t)
      PROVE  r \in Row /\ r.about = "approaching" /\ r.to = u /\ r.version = v /\ r.starts = t
  BY AheadIs DEF Abouts
<1> HIDE DEF o
<1> QED
  BY <1>1, <1>2, <1>3

LEMMA LettersAre ==
    ASSUME TypeOK, NEW what \in {"scheduled", "rescheduled"}, NEW s,
           NEW v \in Nat, NEW t \in Moments, NEW r \in Letters(what, s, v, t)
    PROVE  /\ r \in Row /\ r.about \in {"scheduled", "rescheduled", "reminder"}
           /\ r.to = Candidate /\ r.version = v /\ r.starts = t /\ s = "scheduled"
<1>1. s = "scheduled"
  BY DEF Letters
<1>2. CASE r = About(what, Candidate, v, t, clock)
  BY <1>1, <1>2 DEF About, Row, Abouts, TypeOK
<1>3. CASE r \in Ahead("reminder", Candidate, v, t)
  BY <1>1, <1>3, AheadIs DEF Abouts
<1> QED
  BY <1>2, <1>3 DEF Letters

LEMMA CancelledLetterIs ==
    ASSUME TypeOK, NEW v \in Nat
    PROVE  \E r \in Row : /\ CancelledLetter(v, starts) = {r}
                          /\ r.about = "cancelled" /\ r.to = Candidate
                          /\ r.version = v /\ r.starts = starts
<1> DEFINE c == About("cancelled", Candidate, v, starts, clock)
<1>1. /\ c \in Row /\ c.about = "cancelled" /\ c.to = Candidate
      /\ c.version = v /\ c.starts = starts
  BY DEF About, Row, Abouts, TypeOK
<1>2. CancelledLetter(v, starts) = {c}
  BY DEF CancelledLetter
<1> HIDE DEF c
<1> QED
  BY <1>1, <1>2

-----------------------------------------------------------------------------
(* The requests, as the proofs see them: each plans rows that tell of the  *)
(* event it leaves, or touches no row.                                     *)

\* A request that replans, with its plan.
Planned(plan) ==
    /\ plan \subseteq Row /\ Replan(plan)
    /\ version' = version + 1 /\ UNCHANGED <<clock, kind, faults>>
    /\ version' \in 1..MaxEdits + 1
    /\ status \in {"absent"} \cup Open /\ status' # "absent"
    /\ status' \in {"completed", "cancelled"} \cup Open
    /\ starts' \in Moments /\ assignee' \in Users
    /\ \A r \in plan : r.version = version' /\ Follows(r)'
    /\ status' = "scheduled" =>
         \E r \in plan : r.about = "overdue" /\ r.starts = starts' /\ r.to = assignee'
    /\ status' = "cancelled" => \E r \in plan : r.about = "cancelled" /\ r.to = Candidate

LEMMA RequestsPlan ==
    ASSUME TypeOK, NoneYet, Request
    PROVE  (\E plan : Planned(plan)) \/ \E s \in Open : EditDetails(s)
<1>0. /\ version \in Nat /\ MaxEdits \in Nat /\ version + 1 \in Nat
      /\ version <= MaxEdits => version + 1 \in 1..MaxEdits + 1
      /\ 1 \in 1..MaxEdits + 1
  BY BoundAssumption DEF TypeOK
<1>a. status \in Open => assignee \in Users
  BY DEF TypeOK, Open
<1>1. ASSUME NEW t \in Moments, NEW u \in Users, CreateEvent(t, u)
      PROVE  \E plan : Planned(plan)
  <2> DEFINE plan == Notices(u, 1, t) \cup Letters("scheduled", "scheduled", 1, t)
  <2>1. version = 0 /\ version' = 1 /\ status' = "scheduled" /\ starts' = t /\ assignee' = u
    BY <1>1 DEF CreateEvent, NoneYet
  <2>2. \A r \in plan : r \in Row /\ r.version = 1 /\ r.starts = t
    BY NoticesAre, LettersAre
  <2>3. \A r \in plan : r.about \in {"approaching", "overdue"} => r.to = u
    BY NoticesAre, LettersAre
  <2>4. \A r \in plan : Follows(r)'
    BY <2>1, <2>2, <2>3 DEF Follows, Open
  <2>5. \E r \in plan : r.about = "overdue" /\ r.starts = t /\ r.to = u
    BY NoticesAre
  <2>6. status = "absent" /\ Replan(plan) /\ UNCHANGED <<clock, kind, faults>>
    BY <1>1 DEF CreateEvent
  <2> HIDE DEF plan
  <2>7. Planned(plan)
    BY <1>0, <2>1, <2>2, <2>4, <2>5, <2>6 DEF Planned, Open
  <2> QED
    BY <2>7
<1>2. ASSUME NEW s \in Open, NEW t \in Moments, NEW u \in Users, Reschedule(s, t, u)
      PROVE  \E plan : Planned(plan)
  <2> DEFINE moved == t # starts \/ (s = "postponed" /\ status # "postponed")
             letters == IF moved THEN Letters("rescheduled", s, NextVersion, t) ELSE {}
             notices == IF s = "scheduled" THEN Notices(u, NextVersion, t) ELSE {}
             plan == letters \cup notices
  <2>1. /\ version' = version + 1 /\ status' = s /\ starts' = t /\ assignee' = u
        /\ status \in Open /\ version <= MaxEdits /\ UNCHANGED <<clock, kind, faults>>
    BY <1>2 DEF Reschedule, Edit, NextVersion
  <2>2. Replan(plan)
    BY <1>2 DEF Reschedule
  <2>3. NextVersion = version + 1 /\ NextVersion \in Nat
    BY <1>0 DEF NextVersion
  <2>4. \A r \in letters : /\ r \in Row /\ r.about \in {"scheduled", "rescheduled", "reminder"}
                           /\ r.version = NextVersion /\ r.starts = t /\ s = "scheduled"
    BY <2>3, LettersAre
  <2>5. /\ \A r \in notices : /\ r \in Row /\ r.about \in {"approaching", "overdue"} /\ r.to = u
                              /\ r.version = NextVersion /\ r.starts = t /\ s = "scheduled"
        /\ s = "scheduled" => \E r \in notices : r.about = "overdue" /\ r.starts = t /\ r.to = u
    BY <2>3, NoticesAre
  <2> HIDE DEF letters, notices
  <2>6. \A r \in plan : r \in Row /\ r.version = version' /\ Follows(r)'
    BY <2>1, <2>3, <2>4, <2>5 DEF Follows, Open
  <2>7. Planned(plan)
    BY <1>0, <2>1, <2>2, <2>5, <2>6 DEF Planned, Open
  <2> QED
    BY <2>7
<1>3. ASSUME Complete
      PROVE  \E plan : Planned(plan)
  <2>1. Planned({})
    BY <1>0, <1>3, <1>a DEF Complete, Edit, NextVersion, Planned, TypeOK, Open
  <2> QED
    BY <2>1
<1>4. ASSUME Cancel
      PROVE  \E plan : Planned(plan)
  <2>1. /\ version' = version + 1 /\ status' = "cancelled" /\ starts' = starts
        /\ assignee' = assignee /\ status \in Open /\ version <= MaxEdits
        /\ UNCHANGED <<clock, kind, faults>>
        /\ Replan(CancelledLetter(version + 1, starts))
    BY <1>4 DEF Cancel, Edit, NextVersion
  <2>2. PICK r \in Row : /\ CancelledLetter(version + 1, starts) = {r}
                         /\ r.about = "cancelled" /\ r.to = Candidate
                         /\ r.version = version + 1 /\ r.starts = starts
    BY <1>0, CancelledLetterIs
  <2>3. Follows(r)'
    BY <2>1, <2>2 DEF Follows
  <2>4. starts \in Moments
    BY DEF TypeOK
  <2>5. Planned({r})
    BY <1>0, <1>a, <2>1, <2>2, <2>3, <2>4 DEF Planned, Open
  <2> QED
    BY <2>5
<1> QED
  BY <1>1, <1>2, <1>3, <1>4 DEF Request

-----------------------------------------------------------------------------
(* The steps of the workers.                                               *)

\* A worker moves one row that may still move, and never withdraws it.
Moved(r, place) ==
    /\ outbox' = [outbox EXCEPT ![r] = place] /\ UNCHANGED <<clock, event, history>>
    /\ faults' \in 0..MaxFaults
    /\ place \in {"queued", "sent", "skipped"} \cup InFlight
    /\ outbox[r] \in Live
    /\ place = "skipped" => r.about \in FreshTypes
    /\ place = "calling" => outbox[r] = "resolved" /\ ~Stale(r)

LEMMA WorkersMove ==
    ASSUME TypeOK, NEW r \in Rows, Send(r) \/ Requeue(r)
    PROVE  \E place \in Places : Moved(r, place)
<1> USE DEF Move, Moved, Places, InFlight, Live
<1>0. faults \in 0..MaxFaults /\ (faults < MaxFaults => faults + 1 \in 0..MaxFaults)
  BY BoundAssumption DEF TypeOK
<1>1. Claim(r) => Moved(r, "claimed")
  BY <1>0 DEF Claim
<1>2. Notify(r) => Moved(r, "sent")
  BY <1>0 DEF Notify
<1>3. PhaseA(r) => Moved(r, "skipped") \/ Moved(r, "resolved")
  BY <1>0 DEF PhaseA, Stale
<1>4. PhaseB0(r) => Moved(r, "skipped") \/ Moved(r, "calling")
  BY <1>0 DEF PhaseB0, Stale
<1>5. HandOver(r) => Moved(r, "sent")
  BY <1>0 DEF HandOver
<1>6. Requeue(r) => Moved(r, "queued")
  BY <1>0 DEF Requeue
<1> HIDE DEF Moved
<1> QED
  BY <1>1, <1>2, <1>3, <1>4, <1>5, <1>6 DEF Send

LEMMA MovedRows ==
    ASSUME NEW r \in Rows, NEW place, Moved(r, place)
    PROVE  /\ Rows' = Rows /\ outbox'[r] = place
           /\ \A q \in Rows \ {r} : outbox'[q] = outbox[q]
BY DEF Moved, Rows

LEMMA NextSplit ==
    Next => Tick \/ Request \/ \E r \in Rows : Send(r) \/ Requeue(r)
BY Zenon DEF Next

-----------------------------------------------------------------------------
(* Types.                                                                  *)

Typed == TypeOK /\ NoneYet

LEMMA TypesInductive == Typed /\ [Next]_vars => Typed'
<1> SUFFICES ASSUME Typed, [Next]_vars PROVE Typed'
  OBVIOUS
<1> USE DEF Typed
<1>1. ASSUME NEW plan, Planned(plan)
      PROVE  Typed'
  <2>1. /\ plan \in SUBSET Row /\ Replan(plan)
        /\ version' = version + 1 /\ UNCHANGED <<clock, kind, faults>>
        /\ version' \in 1..MaxEdits + 1
        /\ status' \in {"completed", "cancelled"} \cup Open /\ status' # "absent"
        /\ starts' \in Moments /\ assignee' \in Users
        /\ \A r \in plan : r.version = version'
    BY <1>1 DEF Planned
  <2>2. /\ Rows' = Rows \cup plan /\ caught' \subseteq Rows' /\ resumed' = FALSE
        /\ \A r \in Rows' : outbox'[r] \in Places
    BY <2>1, Replanned
  <2>3. \A r \in Rows' : r \in Row /\ r.version \in 1..version'
    BY <2>1, <2>2, BoundAssumption DEF TypeOK
  <2>4. assignee' # NoUser
    BY <2>1, RecipientAssumption
  <2>5. version' \in 0..MaxEdits + 1 /\ Rows' \subseteq Row /\ assignee' \in Users \cup {NoUser}
    BY <2>1, <2>3, BoundAssumption
  <2>6. UNCHANGED <<clock, kind, faults>> /\ resumed' \in BOOLEAN
    BY <2>1, <2>2
  <2>7. clock \in Moments /\ kind \in {"interview", "call", "reminder"} /\ faults \in 0..MaxFaults
    BY DEF TypeOK
  <2> QED
    BY <2>1, <2>2, <2>3, <2>4, <2>5, <2>6, <2>7 DEF TypeOK, NoneYet
<1>2. ASSUME NEW s \in Open, EditDetails(s)
      PROVE  Typed'
  <2>1. /\ status \in Open /\ status' = s /\ starts' = starts /\ assignee' = assignee
        /\ version' = version + 1 /\ version <= MaxEdits
        /\ UNCHANGED <<clock, kind, faults, outbox, caught>> /\ resumed' \in BOOLEAN
    BY <1>2 DEF EditDetails, Edit, NextVersion
  <2>2. version' \in 0..MaxEdits + 1
    BY <2>1, BoundAssumption DEF TypeOK
  <2>3. \A r \in Rows : r.version \in 1..version'
    BY <2>1, BoundAssumption DEF TypeOK
  <2>4. status # "absent" /\ status' # "absent"
    BY <2>1 DEF Open
  <2> QED
    BY <2>1, <2>2, <2>3, <2>4 DEF TypeOK, NoneYet, Rows
<1>3. ASSUME NEW r \in Rows, Send(r) \/ Requeue(r)
      PROVE  Typed'
  <2>1. PICK place \in Places : Moved(r, place)
    BY <1>3, WorkersMove
  <2>2. Rows' = Rows /\ \A q \in Rows : outbox'[q] \in Places
    BY <2>1, MovedRows DEF TypeOK
  <2> QED
    BY <2>1, <2>2 DEF TypeOK, NoneYet, Moved
<1>4. ASSUME Tick
      PROVE  Typed'
  <2>1. clock' \in Moments
    BY <1>4, BoundAssumption DEF Tick, TypeOK, Moments
  <2> QED
    BY <1>4, <2>1 DEF Tick, TypeOK, NoneYet, Rows
<1>5. CASE UNCHANGED vars
  BY <1>5 DEF TypeOK, NoneYet, Rows
<1> QED
  BY <1>1, <1>2, <1>3, <1>4, <1>5, NextSplit, RequestsPlan

LEMMA TypesAtFirst == Init => Typed
<1> SUFFICES ASSUME Init PROVE Typed
  OBVIOUS
<1>1. 0 \in Moments /\ 0 \in 0..MaxEdits + 1 /\ 0 \in 0..MaxFaults
  BY BoundAssumption DEF Moments
<1>2. Rows = {}
  BY DEF Init, Rows
<1> QED
  BY <1>1, <1>2 DEF Init, Typed, TypeOK, NoneYet

\* The model's types, for every value of the constants (models.py: the columns of
\* CalendarEvent, and the statuses of a row of the outbox).
THEOREM TypeCorrect == Spec => []TypeOK
<1>1. Typed => TypeOK
  BY DEF Typed
<1> QED
  BY TypesAtFirst, TypesInductive, <1>1, PTL DEF Spec

-----------------------------------------------------------------------------
(* The plan fits the event.                                                *)

\* A replan leaves a plan that fits: what was queued is withdrawn, what was in
\* flight is known, and the new rows tell of the event.
LEMMA PlansFit ==
    ASSUME Typed, PlanHolds, NEW plan, Planned(plan)
    PROVE  PlanHolds'
<1>1. /\ plan \in SUBSET Row /\ Replan(plan) /\ version' = version + 1
      /\ \A r \in plan : r.version = version' /\ Follows(r)'
      /\ status' = "scheduled" =>
           \E r \in plan : r.about = "overdue" /\ r.starts = starts' /\ r.to = assignee'
      /\ status' = "cancelled" => \E r \in plan : r.about = "cancelled" /\ r.to = Candidate
  BY DEF Planned
<1>2. /\ Rows' = Rows \cup plan
      /\ \A r \in Rows : outbox'[r] \in Live => r \in caught'
      /\ \A r \in plan \ Rows : outbox'[r] = "queued"
  BY <1>1, Replanned DEF Typed
<1>3. version \in Nat /\ \A r \in Rows : r.version \in 1..version
  BY BoundAssumption DEF Typed, TypeOK
<1>4. plan \cap Rows = {}
  BY <1>1, <1>3
<1>5. LiveRowsFollow'
  BY <1>1, <1>2 DEF LiveRowsFollow
<1>6. VersionsTell'
  <2>1. \A r \in plan : r.starts = starts'
    BY <1>1 DEF Follows
  <2> QED
    BY <1>1, <1>2, <1>3, <2>1 DEF VersionsTell
<1>7. OverdueIsPlanned' /\ CancellationIsKept'
  BY <1>1, <1>2, <1>4 DEF OverdueIsPlanned, CancellationIsKept
<1>8. NoneYet'
  BY DEF Planned, NoneYet
<1> QED
  BY <1>5, <1>6, <1>7, <1>8 DEF PlanHolds

\* An edit that replans nothing leaves start, assignee and, but for a postponement
\* that is undone, the status.
LEMMA DetailsFit ==
    ASSUME Typed, PlanHolds, NEW s \in Open, EditDetails(s)
    PROVE  PlanHolds'
<1>1. /\ status \in Open /\ status' = s /\ s \in {status, "scheduled"}
      /\ starts' = starts /\ assignee' = assignee /\ version' = version + 1
      /\ UNCHANGED <<outbox, caught, kind>>
      /\ resumed' = (resumed \/ (status = "postponed" /\ s = "scheduled"))
  BY DEF EditDetails, Edit, NextVersion
<1>2. Rows' = Rows
  BY <1>1 DEF Rows
<1>3. LiveRowsFollow'
  BY <1>1, <1>2 DEF PlanHolds, LiveRowsFollow, Follows, Open
<1>4. VersionsTell'
  <2>1. version \in Nat /\ \A r \in Rows : r.version \in 1..version
    BY BoundAssumption DEF Typed, TypeOK
  <2> QED
    BY <1>1, <1>2, <2>1 DEF VersionsTell
<1>5. OverdueIsPlanned' /\ CancellationIsKept' /\ NoneYet'
  BY <1>1, <1>2 DEF PlanHolds, OverdueIsPlanned, CancellationIsKept, NoneYet, Open
<1> QED
  BY <1>3, <1>4, <1>5 DEF PlanHolds

\* A worker never withdraws a row, and skips only letters that must be fresh.
LEMMA MovesFit ==
    ASSUME Typed, PlanHolds, NEW r \in Rows, NEW place \in Places, Moved(r, place)
    PROVE  PlanHolds'
<1>1. /\ Rows' = Rows /\ outbox'[r] = place
      /\ \A q \in Rows \ {r} : outbox'[q] = outbox[q]
  BY MovedRows
<1>2. UNCHANGED <<event, history>> /\ place # "cancelled" /\ outbox[r] \in Live
      /\ (place = "skipped" => r.about # "cancelled")
  BY DEF Moved, InFlight, FreshTypes
<1>3. LiveRowsFollow'
  BY <1>1, <1>2 DEF PlanHolds, LiveRowsFollow, Follows
<1>4. VersionsTell'
  BY <1>1, <1>2 DEF PlanHolds, VersionsTell
<1>5. OverdueIsPlanned'
  BY <1>1, <1>2 DEF PlanHolds, OverdueIsPlanned
<1>6. CancellationIsKept' /\ NoneYet'
  BY <1>1, <1>2 DEF PlanHolds, CancellationIsKept, NoneYet
<1> QED
  BY <1>3, <1>4, <1>5, <1>6 DEF PlanHolds

LEMMA PlanInductive == Typed /\ PlanHolds /\ [Next]_vars => PlanHolds'
<1> SUFFICES ASSUME Typed, PlanHolds, [Next]_vars PROVE PlanHolds'
  OBVIOUS
<1>1. ASSUME Request
      PROVE  PlanHolds'
  BY <1>1, RequestsPlan, PlansFit, DetailsFit DEF Typed
<1>2. ASSUME NEW r \in Rows, Send(r) \/ Requeue(r)
      PROVE  PlanHolds'
  BY <1>2, WorkersMove, MovesFit DEF Typed
<1>3. UNCHANGED <<event, outbox, history>> => PlanHolds'
  BY DEF PlanHolds, NoneYet, LiveRowsFollow, VersionsTell, OverdueIsPlanned,
         CancellationIsKept, Follows, Rows
<1> QED
  BY <1>1, <1>2, <1>3, NextSplit DEF Tick

\* The rows tell of the event as it is, and what must be said is among them,
\* whatever edits, sends, failures and recovered leases meet (routers/events.py,
\* update_event; notification_service.py, plan_event_notifications).
THEOREM PlanIsRight == Spec => []PlanFitsEvent
<1>1. Init => PlanHolds
  BY DEF Init, PlanHolds, NoneYet, LiveRowsFollow, VersionsTell, OverdueIsPlanned,
         CancellationIsKept, Rows
<1>2. PlanHolds => PlanFitsEvent
  BY DEF PlanHolds, PlanFitsEvent, LiveRowsFollow, Follows, Live, QueueFollowsEvent,
         Open
<1> QED
  BY TypesAtFirst, TypesInductive, PlanInductive, <1>1, <1>2, PTL DEF Spec

\* A letter passes its last check only while what it says holds.  The check compares
\* versions: that the start is the one the letter names is by the invariant that
\* every row of the event's version names its start (worker.py,
\* _candidate_event_is_stale).
THEOREM LettersAreTrue == Spec => LettersTellTheTruth
<1>1. Init => PlanHolds
  BY DEF Init, PlanHolds, NoneYet, LiveRowsFollow, VersionsTell, OverdueIsPlanned,
         CancellationIsKept, Rows
<1>2. ASSUME Typed, PlanHolds, [Next]_vars, NEW r \in Rows,
             outbox[r] # "calling", outbox'[r] = "calling",
             r.about \in {"scheduled", "rescheduled", "reminder"}
      PROVE  status = "scheduled" /\ starts = r.starts /\ clock < starts
  <2>1. PICK q \in Rows : Send(q) \/ Requeue(q)
    <3>1. \A plan : ~Planned(plan)
      BY <1>2, Replanned DEF Planned, Typed, Withdrawn
    <3>2. \A s \in Open : ~EditDetails(s)
      BY <1>2 DEF EditDetails
    <3>3. ~Tick /\ ~UNCHANGED vars
      BY <1>2 DEF Tick
    <3> QED
      BY <1>2, <3>1, <3>2, <3>3, NextSplit, RequestsPlan DEF Typed
  <2>2. PICK place \in Places : Moved(q, place)
    BY <1>2, <2>1, WorkersMove DEF Typed
  <2>3. q = r /\ place = "calling"
    BY <1>2, <2>2, MovedRows
  <2>4. ~Stale(r)
    BY <2>2, <2>3 DEF Moved
  <2>5. status = "scheduled" /\ version = r.version /\ ~(starts <= clock)
    BY <1>2, <2>4 DEF Stale, FreshTypes
  <2>6. starts \in Nat /\ clock \in Nat
    BY <1>2, BoundAssumption DEF Typed, TypeOK, Moments
  <2> QED
    BY <1>2, <2>5, <2>6 DEF PlanHolds, VersionsTell
<1>3. Typed /\ PlanHolds /\ [Next]_vars =>
        [\A r \in Rows :
            /\ outbox[r] # "calling" /\ outbox'[r] = "calling"
            /\ r.about \in {"scheduled", "rescheduled", "reminder"}
            => status = "scheduled" /\ starts = r.starts /\ clock < starts]_vars
  BY <1>2
<1> QED
  BY TypesAtFirst, TypesInductive, PlanInductive, <1>1, <1>3, PTL DEF Spec, LettersTellTheTruth
-----------------------------------------------------------------------------
(* The sessions that MCEventLifecycle puts beside the event.               *)

\* A row of a session runs Ttl from its last slide, which a request made that passed.
RowsRun ==
    \A t \in Signed!Made :
        /\ session[t].expires = session[t].seen + Ttl
        /\ session[t].seen <= used[t]
        /\ t \in turned \/ used[t] < session[t].seen + Interval

\* What a request carries between its steps; the row it read is not ahead of the
\* stored one, unless an overtaken request has moved that back.
RequestsCarry ==
    \A q \in Requests :
        /\ request[q].at = "arrived" =>
             /\ request[q].of \in Signed!Made
             /\ request[q].saw \in Signed!Row
             /\ \/ request[q].of \in turned
                \/ request[q].saw.seen <= session[request[q].of].seen
        /\ request[q].at = "sliding" =>
             request[q].of \in Signed!Made /\ request[q].now \in Signed!Times
        /\ request[q].op = "login" => request[q].now \in Signed!Times
        /\ request[q].op = "logout" => request[q].of \in Signed!Made

SessionsInv == Signed!TypeOK /\ RowsRun /\ RequestsCarry

\* The steps of Sessions by what they do to the stored rows.
Untouched == UNCHANGED <<session, turned>>

LEMMA SessionTypes ==
    ASSUME SessionsInv
    PROVE  /\ Ttl \in Nat /\ Interval \in Nat /\ Interval > 0
           /\ time \in Nat
           /\ \A t \in Signed!Made :
                /\ t \in Tickets /\ session[t] \in Signed!Row
                /\ session[t].seen \in Nat /\ session[t].expires \in Nat
                /\ session[t].revoked \in BOOLEAN
           /\ \A t \in Tickets : used[t] \in Nat
           /\ \A t \in Tickets : t \in Signed!Made \/ session[t] = Nothing
BY MCEventAssumption DEF SessionsInv, Signed!TypeOK, Signed!Times, Signed!Made, Signed!Row

LEMMA NewRows ==
    ASSUME NEW now \in Signed!Times
    PROVE  Signed!New(now) \in Signed!Row /\ Signed!New(now) # Nothing
<1>1. now \in Nat /\ now + Ttl \in Nat
  BY MCEventAssumption DEF Signed!Times
<1>2. Signed!New(now) \in Signed!Row
  BY <1>1 DEF Signed!New, Signed!Row
<1> QED
  BY <1>2, MCEventAssumption

LEMMA SlidRows ==
    ASSUME NEW now \in Signed!Times, NEW r \in Signed!Row
    PROVE  /\ Signed!Slid(r, now) \in Signed!Row /\ Signed!Slid(r, now) # Nothing
           /\ Signed!Slid(r, now).seen = now /\ Signed!Slid(r, now).expires = now + Ttl
           /\ Signed!Slid(r, now).revoked = r.revoked
<1>1. now \in Nat /\ now + Ttl \in Nat
  BY MCEventAssumption DEF Signed!Times
<1>2. /\ Signed!Slid(r, now) \in Signed!Row
      /\ Signed!Slid(r, now).seen = now /\ Signed!Slid(r, now).expires = now + Ttl
      /\ Signed!Slid(r, now).revoked = r.revoked
  BY <1>1 DEF Signed!Slid, Signed!Row
<1> QED
  BY <1>2, MCEventAssumption

\* A request that finishes, or takes up a new row, keeps RequestsCarry when the
\* stored rows stay.
LEMMA RequestsFinish ==
    ASSUME SessionsInv, NEW q \in Requests, Signed!Finish(q), Untouched
    PROVE  RequestsCarry'
BY MCEventAssumption
   DEF SessionsInv, Signed!TypeOK, RequestsCarry, Signed!Finish, Signed!Idle, Signed!Made, Untouched,
       Signed!Times

LEMMA SessionSteps ==
    ASSUME SessionsInv, Signed!Next
    PROVE  SessionsInv'
<1> USE DEF sessionVars
<1>1. ASSUME NEW q \in Requests, Signed!SignIn(q)
      PROVE  SessionsInv'
  <2>1. Signed!TypeOK'
    BY <1>1 DEF Signed!SignIn, SessionsInv, Signed!TypeOK, Signed!Ops
  <2>2. RowsRun'
    BY <1>1 DEF Signed!SignIn, SessionsInv, RowsRun, Signed!Made
  <2>3. RequestsCarry'
    BY <1>1 DEF Signed!SignIn, SessionsInv, Signed!TypeOK, RequestsCarry, Signed!Made, Signed!Times
  <2> QED
    BY <2>1, <2>2, <2>3 DEF SessionsInv
<1>2. ASSUME NEW q \in Requests, NEW t \in Tickets, Signed!Issue(q, t)
      PROVE  SessionsInv'
  <2> DEFINE now == request[q].now
  <2>1. now \in Signed!Times /\ t \notin Signed!Made
    BY <1>2 DEF Signed!Issue, SessionsInv, RequestsCarry
  <2>2. /\ session' = [session EXCEPT ![t] = Signed!New(now)]
        /\ used' = [used EXCEPT ![t] = now] /\ turned' = turned
    BY <1>2 DEF Signed!Issue
  <2>3. Signed!New(now) \in Signed!Row /\ Signed!New(now) # Nothing
    BY <2>1, NewRows
  <2>4. Signed!TypeOK'
    BY <1>2, <2>1, <2>2, <2>3 DEF Signed!Issue, SessionsInv, Signed!TypeOK, Signed!Finish
  <2>5. /\ \A u \in Signed!Made : u # t /\ u \in Signed!Made' /\ session'[u] = session[u]
        /\ \A u \in Signed!Made' : u # t => u \in Signed!Made /\ used'[u] = used[u]
        /\ session'[t] = Signed!New(now) /\ used'[t] = now
    BY <2>1, <2>2, <2>3 DEF SessionsInv, Signed!TypeOK, Signed!Made
  <2>6. RowsRun'
    <3> SUFFICES ASSUME NEW u \in Signed!Made'
                 PROVE  /\ session'[u].expires = session'[u].seen + Ttl
                        /\ session'[u].seen <= used'[u]
                        /\ u \in turned' \/ used'[u] < session'[u].seen + Interval
      BY DEF RowsRun
    <3>1. CASE u = t
      BY <3>1, <2>1, <2>5, SessionTypes DEF Signed!New, Signed!Times
    <3>2. CASE u # t
      BY <3>2, <2>2, <2>5 DEF SessionsInv, RowsRun
    <3> QED
      BY <3>1, <3>2
  <2>7. RequestsCarry'
    <3>1. \A p \in Requests : p # q => request'[p] = request[p]
      BY <1>2 DEF Signed!Issue, Signed!Finish, SessionsInv, Signed!TypeOK
    <3>2. request'[q] = Signed!Idle
      BY <1>2 DEF Signed!Issue, Signed!Finish, SessionsInv, Signed!TypeOK
    <3>3. Signed!Idle.at \notin {"arrived", "sliding"} /\ Signed!Idle.op # "login"
      BY MCEventAssumption DEF Signed!Idle
    <3>4. Signed!Idle.op # "logout"
      BY DEF Signed!Idle
    <3> SUFFICES ASSUME NEW p \in Requests, p # q
                 PROVE  /\ request[p].at = "arrived" =>
                             /\ request[p].of \in Signed!Made'
                             /\ request[p].saw \in Signed!Row
                             /\ \/ request[p].of \in turned'
                                \/ request[p].saw.seen <= session'[request[p].of].seen
                        /\ request[p].at = "sliding" =>
                             request[p].of \in Signed!Made' /\ request[p].now \in Signed!Times
                        /\ request[p].op = "login" => request[p].now \in Signed!Times
                        /\ request[p].op = "logout" => request[p].of \in Signed!Made'
      BY <3>1, <3>2, <3>3, <3>4 DEF RequestsCarry, Signed!Times, Signed!Row
    <3> QED
      BY <2>2, <2>5 DEF SessionsInv, RequestsCarry
  <2> QED
    BY <2>4, <2>6, <2>7 DEF SessionsInv
<1>3. ASSUME NEW q \in Requests, NEW t \in Tickets, NEW op \in {"use", "logout"},
             Signed!Arrive(q, t, op)
      PROVE  SessionsInv'
  <2>1. t \in Signed!Made /\ session[t] \in Signed!Row /\ session[t].seen \in Nat
    BY <1>3, SessionTypes DEF Signed!Arrive
  <2>2. Signed!TypeOK'
    BY <1>3, <2>1 DEF Signed!Arrive, SessionsInv, Signed!TypeOK, Signed!Ops
  <2>3. RowsRun'
    BY <1>3 DEF Signed!Arrive, SessionsInv, RowsRun, Signed!Made
  <2>4. \A p \in Requests : request'[p] =
            IF p = q THEN [op |-> op, of |-> t, at |-> "arrived", saw |-> session[t], now |-> Nothing]
            ELSE request[p]
    BY <1>3 DEF Signed!Arrive, SessionsInv, Signed!TypeOK
  <2>5. RequestsCarry'
    BY <1>3, <2>1, <2>4 DEF Signed!Arrive, SessionsInv, RequestsCarry, Signed!Made, Signed!Times
  <2> QED
    BY <2>2, <2>3, <2>5 DEF SessionsInv
<1>4. ASSUME NEW q \in Requests, Signed!Admit(q)
      PROVE  SessionsInv'
  <2> DEFINE t == request[q].of
  <2>1. /\ t \in Signed!Made /\ request[q].saw \in Signed!Row
        /\ t \in turned \/ request[q].saw.seen <= session[t].seen
    BY <1>4 DEF Signed!Admit, SessionsInv, RequestsCarry
  <2>2. /\ session' = session /\ turned' = turned /\ time' = time
        /\ used' \in [Tickets -> Signed!Times]
        /\ \A u \in Tickets : u # t => used'[u] = used[u]
        /\ used'[t] = used[t] \/ (used'[t] = time /\ used[t] <= time /\ ~Signed!Due(q))
    <3>1. time \in Signed!Times /\ used \in [Tickets -> Signed!Times]
      BY DEF SessionsInv, Signed!TypeOK
    <3>2. CASE Signed!Due(q)
      BY <1>4, <3>1, <3>2 DEF Signed!Admit
    <3>3. CASE ~Signed!Due(q)
      <4>1. used' = [used EXCEPT ![t] = IF time > used[t] THEN time ELSE used[t]]
        BY <1>4, <3>1, <3>3 DEF Signed!Admit, Signed!Passes
      <4>2. t \in Tickets /\ used[t] \in Nat /\ time \in Nat
        BY <2>1, SessionTypes
      <4> QED
        BY <1>4, <3>1, <3>3, <4>1, <4>2 DEF Signed!Admit
    <3> QED
      BY <3>2, <3>3
  <2>3. /\ request[q].op \in Signed!Ops
        /\ \A p \in Requests : p # q => request'[p] = request[p]
        /\ \E at \in {"sliding", "passed"} :
             request' = [request EXCEPT ![q].now = time, ![q].at = at]
    <3>1. request[q] # Signed!Idle
      BY <1>4, MCEventAssumption DEF Signed!Admit, Signed!Idle
    <3>2. request[q].op \in Signed!Ops
      BY <3>1 DEF SessionsInv, Signed!TypeOK
    <3> QED
      BY <1>4, <3>2 DEF Signed!Admit, SessionsInv, Signed!TypeOK
  <2>4. Signed!TypeOK'
    BY <1>4, <2>1, <2>2, <2>3, MCEventAssumption
       DEF Signed!Admit, SessionsInv, Signed!TypeOK, Signed!Idle, Signed!Made
  <2>5. RowsRun'
    <3> SUFFICES ASSUME NEW u \in Signed!Made
                 PROVE  /\ session[u].expires = session[u].seen + Ttl
                        /\ session[u].seen <= used'[u]
                        /\ u \in turned \/ used'[u] < session[u].seen + Interval
      BY <2>2 DEF RowsRun, Signed!Made
    <3>1. CASE used'[u] = used[u]
      BY <3>1 DEF SessionsInv, RowsRun
    <3>2. CASE used'[u] # used[u]
      <4>1. u = t /\ used'[t] = time /\ used[t] <= time
        BY <2>2, <3>2, SessionTypes
      <4>2. time - request[q].saw.seen < Interval
        <5>1. ~(time - request[q].saw.seen >= Interval)
          BY <2>2, <3>2, <4>1 DEF Signed!Due
        <5>2. request[q].saw.seen \in Nat
          BY <2>1 DEF Signed!Row, Signed!Times
        <5> QED
          BY <5>1, <5>2, SessionTypes
      <4>3. request[q].saw.seen \in Nat
        BY <2>1 DEF Signed!Row, Signed!Times
      <4> QED
        BY <2>1, <4>1, <4>2, <4>3, SessionTypes DEF SessionsInv, RowsRun
    <3> QED
      BY <3>1, <3>2
  <2>6. RequestsCarry'
    <3>1. /\ request'[q].at \in {"sliding", "passed"} /\ request'[q].of = t
          /\ request'[q].now = time
      BY <2>3 DEF SessionsInv, Signed!TypeOK, Signed!Idle
    <3>2. time \in Signed!Times
      BY DEF SessionsInv, Signed!TypeOK
    <3> QED
      BY <2>1, <2>2, <2>3, <3>1, <3>2 DEF SessionsInv, RequestsCarry, Signed!Made, Signed!Times
  <2> QED
    BY <2>4, <2>5, <2>6 DEF SessionsInv
<1>5. ASSUME NEW q \in Requests, Signed!Slide(q)
      PROVE  SessionsInv'
  <2> DEFINE t == request[q].of
             now == request[q].now
  <2>1. t \in Signed!Made /\ t \in Tickets /\ now \in Signed!Times /\ now \in Nat
    BY <1>5, SessionTypes DEF Signed!Slide, SessionsInv, RequestsCarry, Signed!Times
  <2>2. /\ session' = [session EXCEPT ![t] = Signed!Slid(session[t], now)]
        /\ turned' = IF session[t].seen > now THEN turned \cup {t} ELSE turned
        /\ used' = [used EXCEPT ![t] = IF now > used[t] THEN now ELSE used[t]]
        /\ request' = [request EXCEPT ![q].at = "passed"]
        /\ UNCHANGED <<time, enabled, switches>>
    BY <1>5, <2>1 DEF Signed!Slide, Signed!Passes, SessionsInv, Signed!TypeOK
  <2>3. /\ session[t] \in Signed!Row
        /\ Signed!Slid(session[t], now) \in Signed!Row /\ Signed!Slid(session[t], now) # Nothing
        /\ Signed!Slid(session[t], now).seen = now
        /\ Signed!Slid(session[t], now).expires = now + Ttl
    BY <2>1, SlidRows, SessionTypes
  <2>4. request[q] # Signed!Idle
    BY <1>5, MCEventAssumption DEF Signed!Slide, Signed!Idle
  <2>5. Signed!TypeOK'
    BY <2>1, <2>2, <2>3, <2>4 DEF SessionsInv, Signed!TypeOK
  <2>6. /\ Signed!Made' = Signed!Made
        /\ \A u \in Signed!Made : u # t => session'[u] = session[u] /\ used'[u] = used[u]
        /\ session'[t] = Signed!Slid(session[t], now)
        /\ used'[t] = IF now > used[t] THEN now ELSE used[t]
        /\ turned \subseteq turned' /\ (session[t].seen > now => t \in turned')
    BY <2>1, <2>2, <2>3 DEF SessionsInv, Signed!TypeOK, Signed!Made
  <2>7. RowsRun'
    <3> SUFFICES ASSUME NEW u \in Signed!Made
                 PROVE  /\ session'[u].expires = session'[u].seen + Ttl
                        /\ session'[u].seen <= used'[u]
                        /\ u \in turned' \/ used'[u] < session'[u].seen + Interval
      BY <2>6 DEF RowsRun
    <3>1. CASE u # t
      BY <3>1, <2>6 DEF SessionsInv, RowsRun
    <3>2. CASE u = t
      <4>1. used[t] \in Nat /\ session[t].seen \in Nat /\ Interval \in Nat /\ Interval > 0
        BY <2>1, SessionTypes
      <4>2. t \in turned \/ used[t] < session[t].seen + Interval
        BY <2>1 DEF SessionsInv, RowsRun
      <4> QED
        BY <3>2, <2>1, <2>3, <2>6, <4>1, <4>2
    <3> QED
      BY <3>1, <3>2
  <2>8. RequestsCarry'
    <3> SUFFICES ASSUME NEW p \in Requests
                 PROVE  /\ request'[p].at = "arrived" =>
                             /\ request'[p].of \in Signed!Made
                             /\ request'[p].saw \in Signed!Row
                             /\ \/ request'[p].of \in turned'
                                \/ request'[p].saw.seen <= session'[request'[p].of].seen
                        /\ request'[p].at = "sliding" =>
                             request'[p].of \in Signed!Made /\ request'[p].now \in Signed!Times
                        /\ request'[p].op = "login" => request'[p].now \in Signed!Times
                        /\ request'[p].op = "logout" => request'[p].of \in Signed!Made
      BY <2>6 DEF RequestsCarry, Signed!Times, Signed!Row
    <3>1. CASE p = q
      BY <2>1, <2>2, <2>4, <3>1 DEF SessionsInv, Signed!TypeOK
    <3>2. CASE p # q
      <4>1. request'[p] = request[p]
        BY <2>2, <3>2 DEF SessionsInv, Signed!TypeOK
      <4>2. ASSUME request[p].at = "arrived", request[p].of = t, t \notin turned'
            PROVE  request[p].saw.seen <= session'[t].seen
        <5>1. request[p].saw.seen <= session[t].seen /\ request[p].saw.seen \in Nat
          BY <4>2, <2>6 DEF SessionsInv, RequestsCarry, Signed!Row, Signed!Times
        <5> QED
          BY <4>2, <5>1, <2>1, <2>3, <2>6, SessionTypes
      <4> QED
        BY <2>6, <4>1, <4>2 DEF SessionsInv, RequestsCarry
    <3> QED
      BY <3>1, <3>2
  <2> QED
    BY <2>5, <2>7, <2>8 DEF SessionsInv
<1>6. ASSUME NEW q \in Requests, Signed!SignOut(q)
      PROVE  SessionsInv'
  <2> DEFINE t == request[q].of
  <2>1. /\ session' = [session EXCEPT ![t].revoked = TRUE]
        /\ UNCHANGED <<time, enabled, used, turned, switches>> /\ Signed!Finish(q)
    BY <1>6 DEF Signed!SignOut
  <2>2. t \in Signed!Made
    BY <1>6 DEF Signed!SignOut, SessionsInv, RequestsCarry
  <2>3. session[t] \in Signed!Row /\ t \in Tickets
    BY <2>2, SessionTypes
  <2>4. /\ [session[t] EXCEPT !.revoked = TRUE] \in Signed!Row
        /\ [session[t] EXCEPT !.revoked = TRUE].seen = session[t].seen
        /\ [session[t] EXCEPT !.revoked = TRUE].expires = session[t].expires
        /\ [session[t] EXCEPT !.revoked = TRUE] # Nothing
    BY <2>3, MCEventAssumption DEF Signed!Row
  <2>5. Signed!TypeOK'
    BY <2>1, <2>3, <2>4 DEF SessionsInv, Signed!TypeOK, Signed!Finish
  <2>6. /\ Signed!Made' = Signed!Made
        /\ \A u \in Signed!Made : /\ session'[u].seen = session[u].seen
                                  /\ session'[u].expires = session[u].expires
    BY <2>1, <2>2, <2>3, <2>4 DEF SessionsInv, Signed!TypeOK, Signed!Made
  <2>7. RowsRun'
    BY <2>1, <2>6 DEF SessionsInv, RowsRun
  <2>8. \A p \in Requests : request'[p] = IF p = q THEN Signed!Idle ELSE request[p]
    BY <2>1 DEF Signed!Finish, SessionsInv, Signed!TypeOK
  <2>9. RequestsCarry'
    BY <2>1, <2>6, <2>8, MCEventAssumption
       DEF SessionsInv, RequestsCarry, Signed!Idle, Signed!Times, Signed!Row
  <2> QED
    BY <2>5, <2>7, <2>9 DEF SessionsInv
<1>7. ASSUME NEW q \in Requests, Signed!Do(q) \/ Signed!GiveUp(q)
      PROVE  SessionsInv'
  <2>1. Signed!Finish(q) /\ UNCHANGED <<time, enabled, session, used, turned, switches>>
    BY <1>7 DEF Signed!Do, Signed!GiveUp
  <2>2. Signed!TypeOK'
    BY <2>1 DEF SessionsInv, Signed!TypeOK, Signed!Finish
  <2>3. RowsRun'
    BY <2>1 DEF SessionsInv, RowsRun, Signed!Made
  <2> QED
    BY <2>1, <2>2, <2>3, RequestsFinish DEF SessionsInv, Untouched
<1>8. ASSUME Signed!Switch \/ Signed!Tick
      PROVE  SessionsInv'
  <2>1. UNCHANGED <<session, request, used, turned>>
    BY <1>8 DEF Signed!Switch, Signed!Tick
  <2>2. Signed!TypeOK'
    <3>1. time' \in Signed!Times /\ enabled' \in BOOLEAN /\ switches' \in 0..MaxSwitches
      <4>1. time \in Signed!Times /\ enabled \in BOOLEAN /\ switches \in 0..MaxSwitches
        BY DEF SessionsInv, Signed!TypeOK
      <4>2. CASE Signed!Switch
        BY <4>1, <4>2, MCEventAssumption DEF Signed!Switch
      <4>3. CASE Signed!Tick
        BY <4>1, <4>3, MCEventAssumption DEF Signed!Tick, Signed!Times
      <4> QED
        BY <1>8, <4>2, <4>3
    <3>2. /\ session \in [Tickets -> Signed!Row \cup {Nothing}]
          /\ used \in [Tickets -> Signed!Times] /\ turned \in SUBSET Tickets
          /\ request \in [Requests -> {Signed!Idle} \cup
               [op : Signed!Ops, of : Tickets \cup {Nothing}, at : {"arrived", "sliding", "passed"},
                saw : Signed!Row \cup {Nothing}, now : Signed!Times \cup {Nothing}]]
      BY DEF SessionsInv, Signed!TypeOK
    <3>3. session' = session /\ request' = request /\ used' = used /\ turned' = turned
      BY <2>1
    <3> QED
      BY ONLY <3>1, <3>2, <3>3 DEF Signed!TypeOK, Signed!Times, Signed!Row, Signed!Idle, Signed!Ops
  <2>3. RowsRun'
    BY <2>1 DEF SessionsInv, RowsRun, Signed!Made
  <2>4. RequestsCarry'
    BY <2>1 DEF SessionsInv, RequestsCarry, Signed!Made, Signed!Times, Signed!Row
  <2> QED
    BY <2>2, <2>3, <2>4 DEF SessionsInv
<1> QED
  BY <1>1, <1>2, <1>3, <1>4, <1>5, <1>6, <1>7, <1>8 DEF Signed!Next

LEMMA SessionsAtFirst ==
    ASSUME Signed!Init
    PROVE  SessionsInv
<1>1. Signed!TypeOK
  <2>1. 0 \in Signed!Times /\ 0 \in 0..MaxSwitches
    BY MCEventAssumption DEF Signed!Times
  <2> QED
    BY <2>1 DEF Signed!Init, Signed!TypeOK
<1>2. RowsRun
  BY DEF Signed!Init, RowsRun, Signed!Made
<1>3. RequestsCarry
  BY MCEventAssumption DEF Signed!Init, RequestsCarry, Signed!Idle
<1> QED
  BY <1>1, <1>2, <1>3 DEF SessionsInv

LEMMA SessionsStutter ==
    ASSUME SessionsInv, UNCHANGED sessionVars
    PROVE  SessionsInv'
BY DEF SessionsInv, sessionVars, Signed!TypeOK, RowsRun, RequestsCarry, Signed!Made, Signed!Times,
       Signed!Row

\* A step neither takes the end off a session that was revoked nor revives one that is
\* over, unless a request came for it before.
NothingRevives ==
    \A t \in Signed!Made :
        /\ session[t].revoked => session'[t].revoked
        /\ ~Signed!Live(t) /\ ~Signed!Using(t) => ~Signed!Live(t)'

LEMMA NothingIsRevived ==
    ASSUME SessionsInv, Signed!Next
    PROVE  NothingRevives
<1> SUFFICES ASSUME NEW t \in Signed!Made
             PROVE  /\ session[t].revoked => session'[t].revoked
                    /\ ~Signed!Live(t) /\ ~Signed!Using(t) => ~Signed!Live(t)'
  BY DEF NothingRevives
<1>1. /\ t \in Tickets /\ session[t] \in Signed!Row /\ session[t].expires \in Nat
      /\ session[t].revoked \in BOOLEAN /\ time \in Nat
      /\ session \in [Tickets -> Signed!Row \cup {Nothing}]
  BY SessionTypes DEF SessionsInv, Signed!TypeOK
<1>2. ASSUME session'[t] = session[t], time' = time \/ time' = time + 1
      PROVE  /\ session[t].revoked => session'[t].revoked
             /\ ~Signed!Live(t) => ~Signed!Live(t)'
  BY <1>1, <1>2 DEF Signed!Live
<1>3. ASSUME NEW q \in Requests, NEW u \in Tickets, Signed!Issue(q, u)
      PROVE  session'[t] = session[t] /\ time' = time
  BY <1>3, <1>1 DEF Signed!Issue, Signed!Made
<1>4. ASSUME NEW q \in Requests, Signed!Slide(q)
      PROVE  \/ session'[t] = session[t] /\ time' = time
             \/ Signed!Using(t) /\ session'[t].revoked = session[t].revoked
  <2>1. request[q].now \in Signed!Times
    BY <1>4 DEF Signed!Slide, SessionsInv, RequestsCarry
  <2>2. CASE request[q].of = t
    <3>1. session'[t] = Signed!Slid(session[t], request[q].now)
      BY <1>1, <1>4, <2>2 DEF Signed!Slide
    <3> QED
      BY <1>1, <2>1, <2>2, <3>1, SlidRows DEF Signed!Using
  <2>3. CASE request[q].of # t
    BY <1>1, <1>4, <2>3 DEF Signed!Slide
  <2> QED
    BY <2>2, <2>3
<1>5. ASSUME NEW q \in Requests, Signed!SignOut(q)
      PROVE  \/ session'[t] = session[t] /\ time' = time
             \/ session'[t].revoked = TRUE
  <2>1. session' = [session EXCEPT ![request[q].of].revoked = TRUE] /\ time' = time
    BY <1>5 DEF Signed!SignOut
  <2>2. CASE request[q].of = t
    BY <1>1, <2>1, <2>2 DEF Signed!Row
  <2>3. CASE request[q].of # t
    BY <1>1, <2>1, <2>3
  <2> QED
    BY <2>2, <2>3
<1>6. ASSUME NEW q \in Requests,
             \/ Signed!SignIn(q) \/ Signed!Admit(q) \/ Signed!Do(q) \/ Signed!GiveUp(q)
             \/ \E u \in Tickets : Signed!Arrive(q, u, "use") \/ Signed!Arrive(q, u, "logout")
      PROVE  session'[t] = session[t] /\ time' = time
  BY <1>6 DEF Signed!SignIn, Signed!Admit, Signed!Do, Signed!GiveUp, Signed!Arrive
<1>7. ASSUME Signed!Switch \/ Signed!Tick
      PROVE  session'[t] = session[t] /\ (time' = time \/ time' = time + 1)
  BY <1>7 DEF Signed!Switch, Signed!Tick
<1>8. CASE session'[t] = session[t] /\ (time' = time \/ time' = time + 1)
  BY <1>2, <1>8
<1>9. CASE session'[t].revoked = TRUE
  BY <1>9 DEF Signed!Live
<1>10. CASE Signed!Using(t) /\ session'[t].revoked = session[t].revoked
  BY <1>10
<1> QED
  BY <1>3, <1>4, <1>5, <1>6, <1>7, <1>8, <1>9, <1>10 DEF Signed!Next

\* A session ends when it was idle for its time, less at most the interval of the
\* slides, unless an overtaken request moved its end back; and once it is over only a
\* request that came before can bring it back, signing out for good (deps.py,
\* _slide_session; routers/auth.py, logout).  For any numbers of sessions and of
\* requests at a time, and any lengths of time.
THEOREM IdleSessionsEnd == MCSpec => SessionsEnd
<1>1. MCInit => SessionsInv
  BY SessionsAtFirst DEF MCInit
<1>2. [MCNext]_<<vars, stage, quietVars, centreVars, sessionVars>> => [Signed!Next]_sessionVars
  BY DEF MCNext
<1>3. SessionsInv /\ [MCNext]_<<vars, stage, quietVars, centreVars, sessionVars>> => SessionsInv'
  BY <1>2, SessionSteps, SessionsStutter
<1>4. ASSUME SessionsInv
      PROVE  Signed!IdleTimeIsKept
  <2> SUFFICES ASSUME NEW t \in Signed!Made
               PROVE  /\ session[t].expires <= used[t] + Ttl
                      /\ t \in turned \/ session[t].expires + Interval > used[t] + Ttl
    BY DEF Signed!IdleTimeIsKept
  <2>1. /\ session[t].expires = session[t].seen + Ttl /\ session[t].seen <= used[t]
        /\ t \in turned \/ used[t] < session[t].seen + Interval
    BY <1>4 DEF SessionsInv, RowsRun
  <2>2. used[t] \in Nat /\ session[t].seen \in Nat /\ Ttl \in Nat /\ Interval \in Nat
    BY <1>4, SessionTypes
  <2> QED
    BY <2>1, <2>2
<1>5. SessionsInv /\ [MCNext]_<<vars, stage, quietVars, centreVars, sessionVars>>
        => [NothingRevives]_sessionVars
  BY <1>2, NothingIsRevived
<1> QED
  BY <1>1, <1>3, <1>4, <1>5, PTL
     DEF MCSpec, SessionsEnd, Signed!SessionsEnd, Signed!EndedSessionsStayEnded, NothingRevives,
         Signed!vars, sessionVars

-----------------------------------------------------------------------------
(* The bell of the notification centre.                                    *)

\* The records that the steps of the bell update.
BellFields == bell = [busy |-> bell.busy, shown |-> bell.shown, seen |-> bell.seen, count |-> bell.count]
IsPoll(p) == p = [number |-> p.number, after |-> p.after, rows |-> p.rows, count |-> p.count]

\* Polls have numbers of their own, none above the last.
PollsAreNumbered ==
    /\ sequence \in Nat
    /\ \A p \in polls : IsPoll(p) /\ p.number \in Nat /\ p.number <= sequence
    /\ \A p, q \in polls : p.number = q.number => p = q

\* What an answer says is read was read; and the last poll, which was asked after all
\* that the bell shows was answered, has read what it shows as read.
AnswersAreRead ==
    \A p \in polls : p.rows # Unasked =>
        \A r \in p.rows :
            /\ r[2] \in BOOLEAN
            /\ r[2] => r[1] \in read
            /\ p.number = sequence /\ r[1] \in bell.seen => r[2]

BellInv == BellFields /\ PollsAreNumbered /\ AnswersAreRead /\ bell.seen \subseteq read

BellForward == bell.seen \cap bell'.shown \subseteq bell'.seen

LEMMA BellAtFirst ==
    ASSUME Centre!Init
    PROVE  BellInv
BY DEF Centre!Init, Centre!Quiet, BellInv, BellFields, PollsAreNumbered, AnswersAreRead

\* A poll is added with the next number, and not answered yet.
LEMMA BellAsks ==
    ASSUME BellInv, NEW after, Centre!Ask(after), BellFields', bell'.seen = bell.seen
    PROVE  BellInv'
<1> DEFINE new == [number |-> sequence + 1, after |-> after, rows |-> Unasked, count |-> Unasked]
<1>1. /\ sequence \in Nat /\ sequence' = sequence + 1
      /\ polls' = polls \cup {new} /\ read' = read
  BY DEF Centre!Ask, BellInv, PollsAreNumbered
<1>2. IsPoll(new) /\ new.number = sequence + 1 /\ new.rows = Unasked
  BY DEF IsPoll
<1> HIDE DEF new
<1>3. PollsAreNumbered'
  BY <1>1, <1>2 DEF BellInv, PollsAreNumbered, IsPoll
<1>4. AnswersAreRead'
  BY <1>1, <1>2 DEF BellInv, PollsAreNumbered, AnswersAreRead
<1> QED
  BY <1>1, <1>3, <1>4 DEF BellInv

\* One of the two requests of a poll is answered.
LEMMA BellServes ==
    ASSUME BellInv, NEW p \in polls, Centre!Serve(p)
    PROVE  BellInv' /\ BellForward
<1>1. UNCHANGED <<read, bell, sequence>>
  BY DEF Centre!Serve
<1>2. PICK q :
        /\ polls' = (polls \ {p}) \cup {q}
        /\ IsPoll(q) /\ q.number = p.number
        /\ q.rows = p.rows \/ q.rows = {<<n, n \in read>> : n \in Centre!Own(Me)}
  <2>1. IsPoll(p)
    BY DEF BellInv, PollsAreNumbered
  <2>2. ASSUME NEW rows
        PROVE  [p EXCEPT !.rows = rows] =
                 [number |-> p.number, after |-> p.after, rows |-> rows, count |-> p.count]
    BY <2>1 DEF IsPoll
  <2>3. ASSUME NEW count
        PROVE  [p EXCEPT !.count = count] =
                 [number |-> p.number, after |-> p.after, rows |-> p.rows, count |-> count]
    BY <2>1 DEF IsPoll
  <2>4. CASE /\ p.count = Unasked
             /\ polls' = (polls \ {p}) \cup {[p EXCEPT !.count = Centre!UnreadCount(Me)]}
    <3> DEFINE q == [number |-> p.number, after |-> p.after, rows |-> p.rows,
                     count |-> Centre!UnreadCount(Me)]
    <3>1. IsPoll(q) /\ q.number = p.number /\ q.rows = p.rows
      BY DEF IsPoll
    <3>2. polls' = (polls \ {p}) \cup {q}
      BY <2>3, <2>4
    <3> QED
      BY <3>1, <3>2
  <2>5. CASE polls' = (polls \ {p}) \cup
               {[p EXCEPT !.rows = {<<n, n \in read>> : n \in Centre!Own(Me)}]}
    <3> DEFINE answer == {<<n, n \in read>> : n \in Centre!Own(Me)}
               q == [number |-> p.number, after |-> p.after, rows |-> answer, count |-> p.count]
    <3>1. IsPoll(q) /\ q.number = p.number /\ q.rows = answer
      BY DEF IsPoll
    <3>2. polls' = (polls \ {p}) \cup {q}
      BY <2>2, <2>5
    <3> QED
      BY <3>1, <3>2
  <2> QED
    BY <2>4, <2>5 DEF Centre!Serve
<1>3. PollsAreNumbered'
  BY <1>1, <1>2 DEF BellInv, PollsAreNumbered, IsPoll
<1>4. ASSUME q.rows = {<<n, n \in read>> : n \in Centre!Own(Me)}, NEW r \in q.rows
      PROVE  r[2] \in BOOLEAN /\ (r[2] => r[1] \in read) /\ (r[1] \in bell.seen => r[2])
  <2>1. PICK n \in Centre!Own(Me) : r = <<n, n \in read>>
    BY <1>4
  <2>2. r[1] = n /\ r[2] = (n \in read)
    BY <2>1
  <2>3. n \in bell.seen => n \in read
    BY DEF BellInv
  <2>4. CASE n \in read
    <3>1. r[2] = TRUE
      BY <2>2, <2>4
    <3> QED
      BY <2>2, <2>4, <3>1
  <2>5. CASE n \notin read
    <3>1. r[2] = FALSE
      <4>1. (n \in read) = FALSE
        BY <2>5
      <4> QED
        BY <2>2, <4>1, Zenon
    <3> QED
      BY <2>2, <2>3, <2>5, <3>1
  <2> QED
    BY <2>4, <2>5
<1>5. AnswersAreRead'
  BY <1>1, <1>2, <1>4 DEF BellInv, AnswersAreRead
<1> QED
  BY <1>1, <1>3, <1>5 DEF BellInv, BellFields, BellForward

LEMMA BellAnswers ==
    ASSUME BellInv, NEW p \in polls, Centre!Answer(p)
    PROVE  BellInv' /\ BellForward
<1>1. /\ UNCHANGED <<read, sequence>> /\ polls' = polls \ {p} /\ p.rows # Unasked
      /\ BellFields'
      /\ bell'.shown = IF p.number = sequence THEN {r[1] : r \in p.rows} ELSE bell.shown
      /\ bell'.seen = IF p.number = sequence THEN {r[1] : r \in {x \in p.rows : x[2]}} ELSE bell.seen
  BY DEF Centre!Answer, Centre!IsLast, BellFields
<1>2. PollsAreNumbered'
  BY <1>1 DEF BellInv, PollsAreNumbered, IsPoll
<1>3. \A r \in p.rows : /\ r[2] => r[1] \in read
                        /\ p.number = sequence /\ r[1] \in bell.seen => r[2]
  BY <1>1 DEF BellInv, AnswersAreRead
<1>4. bell'.seen \subseteq read
  BY <1>1, <1>3 DEF BellInv
<1>5. BellForward
  BY <1>1, <1>3 DEF BellForward, BellInv
<1>6. AnswersAreRead'
  <2>1. ASSUME p.number = sequence, NEW q \in polls'
        PROVE  q.number # sequence
    BY <1>1, <2>1 DEF BellInv, PollsAreNumbered
  <2> QED
    BY <1>1, <2>1 DEF BellInv, AnswersAreRead
<1> QED
  BY <1>1, <1>2, <1>4, <1>5, <1>6 DEF BellInv

\* The other steps ask nothing and show nothing.
LEMMA BellRests ==
    ASSUME BellInv, read \subseteq read', BellFields',
           bell'.seen = bell.seen, bell'.shown = bell.shown,
           sequence' = sequence \/ sequence' = sequence + 1,
           polls' \subseteq polls
    PROVE  BellInv' /\ BellForward
<1>1. PollsAreNumbered'
  BY DEF BellInv, PollsAreNumbered, IsPoll
<1>2. AnswersAreRead'
  BY DEF BellInv, PollsAreNumbered, AnswersAreRead
<1>3. bell.seen \cap bell.shown \subseteq bell.seen
  OBVIOUS
<1> QED
  BY <1>1, <1>2 DEF BellInv, BellForward

LEMMA BellSteps ==
    ASSUME BellInv, Centre!Server \/ Centre!Pages \/ Centre!Bell
    PROVE  BellInv' /\ BellForward
<1>1. CASE Centre!Server
  <2>1. read \subseteq read' /\ UNCHANGED <<bell, polls, sequence>>
    BY <1>1 DEF Centre!Server, Centre!DeliverInApp, Centre!MarkRead, Centre!Dismiss
  <2> QED
    BY <2>1, BellRests DEF BellInv, BellFields
<1>2. CASE Centre!Pages
  <2>1. UNCHANGED <<read, bell, polls, sequence>>
    BY <1>2 DEF Centre!Pages, Centre!Open, Centre!Count, Centre!ReadRows, Centre!Forward
  <2> QED
    BY <2>1, BellRests DEF BellInv, BellFields
<1>3. CASE Centre!Bell
  <2>1. CASE Centre!Poll \/ Centre!Refresh
    <3>1. PICK after \in BOOLEAN : Centre!Ask(after)
      BY <2>1 DEF Centre!Poll, Centre!Refresh
    <3>2. BellFields' /\ bell'.seen = bell.seen /\ bell'.shown = bell.shown
      BY <2>1 DEF Centre!Poll, Centre!Refresh, BellInv, BellFields
    <3> QED
      BY <3>1, <3>2, BellAsks DEF BellForward
  <2>2. CASE Centre!ReadAll \/ Centre!AllMarked \/ Centre!NotMarked
    <3>1. /\ BellFields' /\ bell'.seen = bell.seen /\ bell'.shown = bell.shown
          /\ read \subseteq read' /\ polls' = polls
          /\ sequence' = sequence \/ sequence' = sequence + 1
      BY <2>2 DEF Centre!ReadAll, Centre!AllMarked, Centre!NotMarked, Centre!MarkAllRead,
                  BellInv, BellFields
    <3> QED
      BY <3>1, BellRests
  <2>3. CASE \E p \in polls : Centre!Lost(p)
    <3>1. /\ BellFields' /\ bell'.seen = bell.seen /\ bell'.shown = bell.shown
          /\ UNCHANGED <<read, sequence>> /\ polls' \subseteq polls
      BY <2>3 DEF Centre!Lost, BellInv, BellFields
    <3> QED
      BY <3>1, BellRests
  <2> QED
    BY <1>3, <2>1, <2>2, <2>3, BellServes, BellAnswers DEF Centre!Bell
<1> QED
  BY <1>1, <1>2, <1>3

\* Whatever order the answers to its polls come in and whichever are lost, the bell never
\* shows as unread what it has shown as read (NotificationBell.tsx), for any number of polls.
THEOREM BellStaysForward == MCSpec => Centre!BellGoesForward
<1>1. MCInit => BellInv
  BY BellAtFirst DEF MCInit
<1>2. BellInv /\ [MCNext]_<<vars, stage, quietVars, centreVars, sessionVars>>
        => BellInv' /\ (UNCHANGED bell \/ BellForward)
  <2> SUFFICES ASSUME BellInv, [MCNext]_<<vars, stage, quietVars, centreVars, sessionVars>>
               PROVE  BellInv' /\ (UNCHANGED bell \/ BellForward)
    OBVIOUS
  <2>1. (Centre!Server \/ Centre!Pages \/ Centre!Bell) \/ UNCHANGED centreVars
    BY DEF MCNext
  <2>2. CASE UNCHANGED centreVars
    BY <2>2 DEF centreVars, BellInv, BellFields, PollsAreNumbered, AnswersAreRead, IsPoll
  <2> QED
    BY <2>1, <2>2, BellSteps
<1>3. BellInv /\ [MCNext]_<<vars, stage, quietVars, centreVars, sessionVars>>
        => [BellForward]_centreVars
  BY <1>2 DEF BellForward, centreVars, BellInv
<1> QED
  BY <1>1, <1>2, <1>3, PTL DEF MCSpec, Centre!BellGoesForward, BellForward, Centre!vars, centreVars
=============================================================================
