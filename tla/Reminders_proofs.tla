---------------------------- MODULE Reminders_proofs ----------------------------
(***************************************************************************)
(* Theorems about Reminders, for every number of reminders, events and     *)
(* workers, every batch size and every bound.                              *)
(***************************************************************************)
EXTENDS Reminders, FiniteSetTheorems, SequenceTheorems, TLAPS

USE DEF reminders, events, outbox, passes, vars

\* What a pass has read before it writes: the occurrences before have their rows.
SeenCovered ==
    \A w \in Workers : step[w] = "write" =>
        \A n \in 1..(seen[w].occurrence - 1) :
            \E row \in Rows : row.of = Head(batch[w]) /\ row.occurrence = n

\* A reminder belongs to one event.
LinksAreOwn ==
    /\ \A e \in Events : linked[e] # NoReminder => status[linked[e]] # "absent"
    /\ \A e, f \in Events : linked[e] = linked[f] /\ linked[e] # NoReminder => e = f

\* The locked rows of a pass are nobody else's, active and due.
LocksHold ==
    \A w \in Workers : held[w] =>
        /\ step[w] # "idle" /\ now[w] <= clock
        /\ \A r \in Members(batch[w]) : status[r] = "active" /\ due[r] <= now[w]
        /\ \A v \in Workers \ {w} : LockedBy(v) \cap LockedBy(w) = {}

-----------------------------------------------------------------------------
(* The operators the actions are built from.                               *)

LEMMA RowsStay ==
    ASSUME TypeOK, NEW r \in Reminders, CancelPending(r)
    PROVE  /\ queued' \subseteq Row /\ cancelled' \subseteq Row /\ delivered' \subseteq Row
           /\ queued' \cap cancelled' = {} /\ (queued' \cup cancelled') \cap delivered' = {}
           /\ Rows' = Rows
BY DEF TypeOK, CancelPending, QueuedOf, Rows

LEMMA BatchesAreLists ==
    ASSUME TypeOK, NEW t \in Moments, Available(t) # {}, NEW b \in Batches(t)
    PROVE  /\ b \in Seq(Reminders) /\ b # <<>>
           /\ Members(b) \subseteq Available(t)
<1> DEFINE A == Available(t)
           n == IF Cardinality(A) < BatchSize THEN Cardinality(A) ELSE BatchSize
<1>1. A \subseteq Reminders
  BY DEF Available
<1>2. IsFiniteSet(A) /\ Cardinality(A) \in Nat /\ Cardinality(A) # 0
  BY <1>1, BatchAssumption, FS_Subset, FS_EmptySet, FS_CardinalityType
<1>3. n \in Nat /\ n >= 1
  BY <1>2, BatchAssumption
<1>4. b \in [1..n -> A]
  BY DEF Batches
<1> HIDE DEF n, A
<1>5. b \in Seq(Reminders)
  <2>1. b \in [1..n -> Reminders]
    BY <1>1, <1>4
  <2> QED
    BY <2>1, <1>3
<1>6. Members(b) \subseteq A
  BY <1>4 DEF Members
<1>7. 1 \in DOMAIN b
  BY <1>3, <1>4
<1> QED
  BY <1>5, <1>6, <1>7 DEF A

LEMMA HeadsAndTails ==
    ASSUME TypeOK, NEW w \in Workers, step[w] # "idle"
    PROVE  /\ Head(batch[w]) \in Reminders
           /\ Head(batch[w]) \in Members(batch[w])
           /\ Tail(batch[w]) \in Seq(Reminders)
           /\ Tail(batch[w]) = <<>> <=> Len(batch[w]) = 1
<1>1. batch[w] \in Seq(Reminders) /\ batch[w] # <<>>
  BY DEF TypeOK
<1>2. /\ Head(batch[w]) \in Reminders /\ Tail(batch[w]) \in Seq(Reminders)
      /\ Len(Tail(batch[w])) = Len(batch[w]) - 1
  BY <1>1, HeadTailProperties
<1>3. Len(batch[w]) \in Nat /\ Len(batch[w]) # 0
  BY <1>1
<1>4. Head(batch[w]) = batch[w][1] /\ 1 \in DOMAIN batch[w]
  BY <1>1, <1>3
<1>5. Tail(batch[w]) = <<>> <=> Len(Tail(batch[w])) = 0
  BY <1>2, EmptySeq
<1> QED
  BY <1>2, <1>3, <1>4, <1>5 DEF Members

-----------------------------------------------------------------------------
(* Types.                                                                  *)

\* The steps of users and of time, and those of the passes.
UserStep ==
    \/ \E r \in Reminders, d \in Moments, rec \in BOOLEAN :
         \/ CreateReminder(r, d, rec) \/ UpdateReminder(r, d, rec)
         \/ \E e \in Events : CreateLinked(r, d, rec, e)
    \/ \E r \in Reminders : CompleteReminder(r) \/ CancelReminder(r)
    \/ \E e \in Events, m \in Moments \cup {NoTime} :
         \/ CreateEvent(e, m) \/ EditGivesMoment(e, m)
         \/ \E retitled \in BOOLEAN : EditPointsReminder(e, m, retitled)
    \/ \E e \in Events : EditDropsMoment(e) \/ EditRefused(e)
    \/ \E e \in Events, s \in {"completed", "cancelled"} : CloseEvent(e, s)

PassStep(w) == Scan(w) \/ Load(w) \/ Process(w) \/ ProcessFails(w) \/ Crash(w)

LEMMA NextSplit ==
    Next => Tick \/ UserStep \/ (\E w \in Workers : PassStep(w)) \/ \E row \in queued : Deliver(row)
BY Zenon DEF Next, UserStep, PassStep, Pass

\* What TypeOK says of the reminders, of the events, of the rows, of the passes.
RemindersTyped ==
    /\ status \in [Reminders -> {"absent", "active", "completed", "cancelled"}]
    /\ due \in [Reminders -> Nat]
    /\ recurring \in [Reminders -> BOOLEAN]
    /\ occurrence \in [Reminders -> Nat]
    /\ stamped \in [Reminders -> BOOLEAN]
    /\ \A r \in Reminders : stamped[r] <=> status[r] = "completed"
EventsTyped ==
    /\ eventStatus \in [Events -> {"absent", "open", "completed", "cancelled"}]
    /\ moment \in [Events -> Moments \cup {NoTime}]
    /\ linked \in [Events -> Reminders \cup {NoReminder}]
RowsTyped ==
    /\ queued \subseteq Row /\ cancelled \subseteq Row /\ delivered \subseteq Row
    /\ queued \cap cancelled = {} /\ (queued \cup cancelled) \cap delivered = {}
PassesTyped ==
    /\ step \in [Workers -> {"idle", "load", "write"}]
    /\ now \in [Workers -> Moments]
    /\ batch \in [Workers -> Seq(Reminders)]
    /\ held \in [Workers -> BOOLEAN]
    /\ seen \in [Workers -> Read]
    /\ \A w \in Workers : step[w] = "idle" <=> batch[w] = <<>>
CountersTyped ==
    /\ clock \in Moments /\ refused \subseteq Events
    /\ edits \in 0..MaxEdits /\ faults \in 0..MaxFaults

LEMMA TypeParts ==
    /\ TypeOK <=> RemindersTyped /\ EventsTyped /\ RowsTyped /\ PassesTyped /\ CountersTyped
    /\ TypeOK' <=> RemindersTyped' /\ EventsTyped' /\ RowsTyped' /\ PassesTyped' /\ CountersTyped'
BY Zenon DEF TypeOK, RemindersTyped, EventsTyped, RowsTyped, PassesTyped, CountersTyped

LEMMA Unchanged ==
    ASSUME TypeOK
    PROVE  /\ UNCHANGED reminders => RemindersTyped'
           /\ UNCHANGED events => EventsTyped'
           /\ UNCHANGED outbox => RowsTyped'
           /\ UNCHANGED passes => PassesTyped'
<1>1. RemindersTyped /\ EventsTyped /\ RowsTyped /\ PassesTyped
  BY TypeParts
<1>2. UNCHANGED reminders => RemindersTyped'
  BY <1>1 DEF RemindersTyped
<1>3. UNCHANGED events => EventsTyped'
  BY <1>1 DEF EventsTyped
<1>4. UNCHANGED outbox => RowsTyped'
  BY <1>1 DEF RowsTyped
<1>5. UNCHANGED passes => PassesTyped'
  BY <1>1 DEF PassesTyped
<1> QED
  BY <1>2, <1>3, <1>4, <1>5

LEMMA Requested ==
    ASSUME TypeOK, Request
    PROVE  /\ PassesTyped'
           /\ refused' \subseteq Events => CountersTyped'
<1>1. PassesTyped'
  BY Unchanged DEF Request
<1>2. edits' \in 0..MaxEdits
  BY TimeAssumption DEF TypeOK, Request
<1> QED
  BY <1>1, <1>2 DEF Request, CountersTyped, TypeOK

LEMMA Inserted ==
    ASSUME TypeOK, NEW r \in Reminders, NEW d \in Moments, NEW rec \in BOOLEAN, Insert(r, d, rec)
    PROVE  RemindersTyped'
<1>1. d \in Nat
  BY TimeAssumption DEF Moments
<1> QED
  BY <1>1 DEF Insert, TypeOK, RemindersTyped

LEMMA UserTypes ==
    ASSUME TypeOK, UserStep
    PROVE  TypeOK'
<1>a. MaxTime \in Nat /\ Moments \subseteq Nat
  BY TimeAssumption DEF Moments
<1>1. ASSUME NEW r \in Reminders, NEW d \in Moments, NEW rec \in BOOLEAN, CreateReminder(r, d, rec)
      PROVE  TypeOK'
  <2>1. RemindersTyped' /\ EventsTyped' /\ RowsTyped' /\ PassesTyped'
    BY <1>1, Inserted, Requested, Unchanged, Zenon DEF CreateReminder
  <2>2. CountersTyped'
    BY <1>1, Requested DEF CreateReminder, TypeOK
  <2> QED
    BY <2>1, <2>2, TypeParts
<1>2. ASSUME NEW r \in Reminders, NEW d \in Moments, NEW rec \in BOOLEAN, UpdateReminder(r, d, rec)
      PROVE  TypeOK'
  <2>1. EventsTyped' /\ PassesTyped' /\ RowsTyped'
    BY <1>2, RowsStay, Requested, Unchanged DEF UpdateReminder, RowsTyped
  <2>2. CountersTyped'
    BY <1>2, Requested DEF UpdateReminder, TypeOK
  <2>3. RemindersTyped'
    BY <1>2, <1>a DEF UpdateReminder, TypeOK, RemindersTyped
  <2> QED
    BY <2>1, <2>2, <2>3, TypeParts
<1>3. ASSUME NEW r \in Reminders, CompleteReminder(r) \/ CancelReminder(r)
      PROVE  TypeOK'
  <2>1. EventsTyped' /\ PassesTyped' /\ RowsTyped'
    BY <1>3, RowsStay, Requested, Unchanged DEF CompleteReminder, CancelReminder, RowsTyped
  <2>2. CountersTyped'
    BY <1>3, Requested DEF CompleteReminder, CancelReminder, TypeOK
  <2>3. CompleteReminder(r) => RemindersTyped'
    BY DEF CompleteReminder, TypeOK, RemindersTyped
  <2>4. CancelReminder(r) => RemindersTyped'
    BY DEF CancelReminder, TypeOK, RemindersTyped
  <2> QED
    BY <1>3, <2>1, <2>2, <2>3, <2>4, TypeParts
<1>4. ASSUME NEW e \in Events, NEW m \in Moments \cup {NoTime},
             CreateEvent(e, m) \/ EditGivesMoment(e, m)
      PROVE  TypeOK'
  <2>1. Request /\ UNCHANGED <<outbox, refused>>
    BY <1>4 DEF CreateEvent, EditGivesMoment
  <2>2. RowsTyped' /\ PassesTyped' /\ CountersTyped'
    BY <2>1, Requested, Unchanged DEF TypeOK
  <2>3. \/ UNCHANGED <<linked, reminders>>
        \/ m # NoTime /\ \E r \in Reminders : Insert(r, m, FALSE)
                                              /\ linked' = [linked EXCEPT ![e] = r]
    BY <1>4, Zenon DEF CreateEvent, EditGivesMoment
  <2>4. RemindersTyped'
    BY <2>3, Inserted, Unchanged
  <2>5. linked' \in [Events -> Reminders \cup {NoReminder}]
    BY <2>3 DEF TypeOK
  <2>6. EventsTyped'
    BY <1>4, <2>5 DEF CreateEvent, EditGivesMoment, EventsTyped, TypeOK
  <2> QED
    BY <2>2, <2>4, <2>6, TypeParts
<1>5. ASSUME NEW e \in Events, NEW m \in Moments \cup {NoTime}, NEW retitled \in BOOLEAN,
             EditPointsReminder(e, m, retitled)
      PROVE  TypeOK'
  <2> DEFINE r == linked[e]
  <2>1. r \in Reminders /\ m \in Nat /\ Request /\ UNCHANGED refused
    BY <1>5, <1>a DEF EditPointsReminder, TypeOK
  <2>2. RowsTyped'
    BY <1>5, <2>1, RowsStay, Unchanged DEF EditPointsReminder, RowsTyped
  <2>3. PassesTyped' /\ CountersTyped'
    BY <2>1, Requested DEF TypeOK
  <2>4. RemindersTyped' /\ EventsTyped'
    BY <1>5, <2>1 DEF EditPointsReminder, RemindersTyped, EventsTyped, TypeOK
  <2> QED
    BY <2>2, <2>3, <2>4, TypeParts
<1>6. ASSUME NEW e \in Events, EditDropsMoment(e)
      PROVE  TypeOK'
  <2> DEFINE r == linked[e]
  <2>1. r \in Reminders /\ Request /\ UNCHANGED <<reminders, refused>>
    BY <1>6 DEF EditDropsMoment, TypeOK
  <2>2. RowsTyped'
    BY <1>6, <2>1, RowsStay, Unchanged DEF EditDropsMoment, RowsTyped
  <2>3. PassesTyped' /\ CountersTyped' /\ RemindersTyped'
    BY <2>1, Requested, Unchanged DEF TypeOK
  <2>4. EventsTyped'
    BY <1>6, <2>1 DEF EditDropsMoment, EventsTyped, TypeOK
  <2> QED
    BY <2>2, <2>3, <2>4, TypeParts
<1>7. ASSUME NEW e \in Events, EditRefused(e)
      PROVE  TypeOK'
  <2>1. CountersTyped'
    BY <1>7, Requested DEF EditRefused, TypeOK
  <2>2. RemindersTyped' /\ EventsTyped' /\ RowsTyped' /\ PassesTyped'
    BY <1>7, Requested, Unchanged, Zenon DEF EditRefused
  <2> QED
    BY <2>1, <2>2, TypeParts
<1>8. ASSUME NEW e \in Events, NEW s \in {"completed", "cancelled"}, CloseEvent(e, s)
      PROVE  TypeOK'
  <2> DEFINE r == linked[e]
  <2>1. Request /\ UNCHANGED refused
    BY <1>8 DEF CloseEvent
  <2>2. r \in Reminders \/ r = NoReminder
    BY DEF TypeOK
  <2>3. RowsTyped'
    BY <1>8, <2>2, RowsStay, Unchanged DEF CloseEvent, RowsTyped
  <2>4. PassesTyped' /\ CountersTyped'
    BY <2>1, Requested DEF TypeOK
  <2>5. RemindersTyped'
    BY <1>8, <2>2 DEF CloseEvent, Closed, RemindersTyped, TypeOK
  <2>6. EventsTyped'
    BY <1>8 DEF CloseEvent, EventsTyped, TypeOK
  <2> QED
    BY <2>3, <2>4, <2>5, <2>6, TypeParts
<1>9. ASSUME NEW r \in Reminders, NEW d \in Moments, NEW rec \in BOOLEAN, NEW e \in Events,
             CreateLinked(r, d, rec, e)
      PROVE  TypeOK'
  <2>1. RemindersTyped' /\ RowsTyped' /\ PassesTyped'
    BY <1>9, Inserted, Requested, Unchanged, Zenon DEF CreateLinked
  <2>2. CountersTyped' /\ EventsTyped'
    BY <1>9, Requested DEF CreateLinked, EventsTyped, TypeOK
  <2> QED
    BY <2>1, <2>2, TypeParts
<1> QED
  BY <1>1, <1>2, <1>3, <1>4, <1>5, <1>6, <1>7, <1>8, <1>9, Zenon DEF UserStep

\* Passes move on through their batch, or stop.
LEMMA Proceeds ==
    ASSUME TypeOK, NEW w \in Workers, step[w] = "write", Proceed(w)
    PROVE  PassesTyped'
<1>1. /\ Tail(batch[w]) \in Seq(Reminders)
      /\ Tail(batch[w]) = <<>> <=> Len(batch[w]) = 1
  BY HeadsAndTails
<1>2. Unread \in Read
  BY DEF Unread, Read
<1>3. batch' \in [Workers -> Seq(Reminders)]
  BY <1>1 DEF Proceed, TypeOK
<1>4. \A v \in Workers : step'[v] = "idle" <=> batch'[v] = <<>>
  <2>1. step'[w] = "idle" <=> batch'[w] = <<>>
    BY <1>1 DEF Proceed, TypeOK
  <2>2. \A v \in Workers \ {w} : step'[v] = step[v] /\ batch'[v] = batch[v]
    BY DEF Proceed, TypeOK
  <2> QED
    BY <2>1, <2>2 DEF TypeOK
<1>5. seen' \in [Workers -> Read]
  BY <1>2 DEF Proceed, TypeOK
<1>6. step' \in [Workers -> {"idle", "load", "write"}] /\ held' \in [Workers -> BOOLEAN]
  BY DEF Proceed, TypeOK
<1> QED
  BY <1>3, <1>4, <1>5, <1>6 DEF PassesTyped, Proceed, TypeOK

LEMMA PassTypes ==
    ASSUME TypeOK, NEW w \in Workers, PassStep(w)
    PROVE  TypeOK'
<1>0. RemindersTyped /\ EventsTyped /\ RowsTyped /\ PassesTyped /\ CountersTyped
  BY TypeParts
<1>1. CASE Scan(w)
  <2>1. RemindersTyped' /\ EventsTyped' /\ RowsTyped' /\ CountersTyped'
    BY <1>0, <1>1, Unchanged DEF Scan, CountersTyped
  <2>2. PICK b \in Batches(clock) : batch' = [batch EXCEPT ![w] = b]
    BY <1>1 DEF Scan
  <2>3. b \in Seq(Reminders) /\ b # <<>>
    BY <1>1, BatchesAreLists DEF Scan, TypeOK
  <2>4. \A v \in Workers : step'[v] = "idle" <=> batch'[v] = <<>>
    BY <1>1, <2>2, <2>3 DEF Scan, TypeOK
  <2>5. batch' \in [Workers -> Seq(Reminders)]
    BY <2>2, <2>3 DEF TypeOK
  <2>6. PassesTyped'
    BY <1>1, <2>4, <2>5 DEF Scan, PassesTyped, TypeOK
  <2> QED
    BY <2>1, <2>6, TypeParts
<1>2. CASE Load(w)
  <2>1. RemindersTyped' /\ EventsTyped' /\ RowsTyped' /\ CountersTyped'
    BY <1>0, <1>2, Unchanged DEF Load, CountersTyped
  <2>2. Head(batch[w]) \in Reminders
    BY <1>2, HeadsAndTails DEF Load
  <2>3. seen' \in [Workers -> Read]
    BY <1>2, <2>2 DEF Load, Read, TypeOK
  <2>4. PassesTyped'
    BY <1>2, <2>3 DEF Load, PassesTyped, TypeOK
  <2> QED
    BY <2>1, <2>4, TypeParts
<1>3. CASE Process(w)
  <2> DEFINE r == Head(batch[w])
  <2>1. PassesTyped'
    BY <1>3, Proceeds DEF Process
  <2>2. EventsTyped' /\ CountersTyped'
    BY <1>0, <1>3, Unchanged DEF Process, CountersTyped
  <2>3. r \in Reminders /\ seen[w] \in Read
    BY <1>3, HeadsAndTails DEF Process, TypeOK
  <2>4. seen[w].due \in Nat /\ seen[w].occurrence \in Nat
    BY <2>3 DEF Read
  <2>5. Key(w, r) \in Row
    BY <2>3, <2>4 DEF Key, Row
  <2>6. RowsTyped'
    BY <1>0, <1>3, <2>5 DEF Process, Fresh, Rows, RowsTyped
  <2>7. RemindersTyped'
    <3>1. CASE seen[w].recurring
      <4>1. /\ due' = [due EXCEPT ![r] = seen[w].due + Period]
            /\ occurrence' = [occurrence EXCEPT ![r] = seen[w].occurrence + 1]
            /\ UNCHANGED <<status, stamped, recurring>>
        BY <1>3, <3>1 DEF Process
      <4>2. seen[w].due + Period \in Nat /\ seen[w].occurrence + 1 \in Nat
        BY <2>4, TimeAssumption
      <4> HIDE DEF r
      <4> QED
        BY <1>0, <2>3, <4>1, <4>2 DEF RemindersTyped
    <3>2. CASE ~seen[w].recurring
      <4>1. /\ status' = [status EXCEPT ![r] = "completed"]
            /\ stamped' = [stamped EXCEPT ![r] = TRUE]
            /\ UNCHANGED <<due, occurrence, recurring>>
        BY <1>3, <3>2 DEF Process
      <4> HIDE DEF r
      <4> QED
        BY <1>0, <2>3, <4>1 DEF RemindersTyped
    <3> QED
      BY <3>1, <3>2
  <2> QED
    BY <2>1, <2>2, <2>6, <2>7, TypeParts
<1>4. CASE ProcessFails(w)
  <2>1. PassesTyped'
    BY <1>4, Proceeds DEF ProcessFails
  <2>2. faults' \in 0..MaxFaults
    BY <1>4, TimeAssumption DEF ProcessFails, TypeOK
  <2>3. RemindersTyped' /\ EventsTyped' /\ RowsTyped' /\ CountersTyped'
    BY <1>0, <1>4, <2>2, Unchanged DEF ProcessFails, CountersTyped
  <2> QED
    BY <2>1, <2>3, TypeParts
<1>5. CASE Crash(w)
  <2>1. Unread \in Read
    BY DEF Unread, Read
  <2>2. PassesTyped'
    BY <1>5, <2>1 DEF Crash, PassesTyped, TypeOK
  <2>3. faults' \in 0..MaxFaults
    BY <1>5, TimeAssumption DEF Crash, TypeOK
  <2>4. RemindersTyped' /\ EventsTyped' /\ RowsTyped' /\ CountersTyped'
    BY <1>0, <1>5, <2>3, Unchanged DEF Crash, CountersTyped
  <2> QED
    BY <2>2, <2>4, TypeParts
<1> QED
  BY <1>1, <1>2, <1>3, <1>4, <1>5 DEF PassStep

LEMMA TypesInductive == TypeOK /\ [Next]_vars => TypeOK'
<1>0. TypeOK => RemindersTyped /\ EventsTyped /\ RowsTyped /\ PassesTyped /\ CountersTyped
  BY TypeParts
<1>1. ASSUME TypeOK, Tick
      PROVE  TypeOK'
  <2>1. clock' \in Moments
    BY <1>1, TimeAssumption DEF Tick, TypeOK, Moments
  <2>2. RemindersTyped' /\ EventsTyped' /\ RowsTyped' /\ PassesTyped' /\ CountersTyped'
    BY <1>0, <1>1, <2>1, Unchanged DEF Tick, CountersTyped
  <2> QED
    BY <2>2, TypeParts
<1>2. ASSUME TypeOK, NEW row \in queued, Deliver(row)
      PROVE  TypeOK'
  <2>1. RowsTyped'
    BY <1>0, <1>2 DEF Deliver, RowsTyped
  <2>2. RemindersTyped' /\ EventsTyped' /\ PassesTyped' /\ CountersTyped'
    BY <1>0, <1>2, Unchanged DEF Deliver, CountersTyped
  <2> QED
    BY <2>1, <2>2, TypeParts
<1>3. ASSUME TypeOK, UNCHANGED vars
      PROVE  TypeOK'
  BY <1>3 DEF TypeOK, Rows
<1> QED
  BY <1>1, <1>2, <1>3, UserTypes, PassTypes, NextSplit

LEMMA TypesAtFirst == Init => TypeOK
<1> SUFFICES ASSUME Init PROVE TypeOK
  OBVIOUS
<1>1. 0 \in Moments /\ 0 \in 0..MaxEdits /\ 0 \in 0..MaxFaults
  BY TimeAssumption DEF Moments
<1>2. <<>> \in Seq(Reminders) /\ Unread \in Read
  BY DEF Unread, Read
<1> QED
  BY <1>1, <1>2 DEF Init, TypeOK

\* The model's types, for every value of the constants (models.py: the status
\* and completion columns of Reminder, with the check that ties them together).
THEOREM TypeCorrect == Spec => []TypeOK
<1> QED
  BY TypesAtFirst, TypesInductive, PTL DEF Spec

-----------------------------------------------------------------------------
(* No occurrence is skipped.                                               *)

\* A request moves no occurrence, takes no row away and touches no pass.
LEMMA UsersOnlyEdit ==
    ASSUME TypeOK, UserStep
    PROVE  Rows' = Rows /\ occurrence' = occurrence /\ UNCHANGED <<clock, passes>>
<1>1. \A r \in Reminders : CancelPending(r) => Rows' = Rows
  BY RowsStay
<1>2. UNCHANGED outbox => Rows' = Rows
  BY DEF Rows
<1>3. \A e \in Events : linked[e] # NoReminder => linked[e] \in Reminders
  BY DEF TypeOK
<1>4. ASSUME NEW r \in Reminders, NEW d \in Moments, NEW rec \in BOOLEAN,
             CreateReminder(r, d, rec) \/ UpdateReminder(r, d, rec)
      PROVE  Rows' = Rows /\ occurrence' = occurrence /\ UNCHANGED <<clock, passes>>
  BY <1>1, <1>2, <1>4 DEF CreateReminder, UpdateReminder, Request, Insert
<1>5. ASSUME NEW r \in Reminders, CompleteReminder(r) \/ CancelReminder(r)
      PROVE  Rows' = Rows /\ occurrence' = occurrence /\ UNCHANGED <<clock, passes>>
  BY <1>1, <1>5 DEF CompleteReminder, CancelReminder, Request
<1>6. ASSUME NEW e \in Events, NEW m \in Moments \cup {NoTime},
             CreateEvent(e, m) \/ EditGivesMoment(e, m)
      PROVE  Rows' = Rows /\ occurrence' = occurrence /\ UNCHANGED <<clock, passes>>
  BY <1>2, <1>6 DEF CreateEvent, EditGivesMoment, Request, Insert
<1>7. ASSUME NEW e \in Events, NEW m \in Moments \cup {NoTime}, NEW retitled \in BOOLEAN,
             EditPointsReminder(e, m, retitled)
      PROVE  Rows' = Rows /\ occurrence' = occurrence /\ UNCHANGED <<clock, passes>>
  BY <1>1, <1>2, <1>3, <1>7 DEF EditPointsReminder, Request
<1>8. ASSUME NEW e \in Events, EditDropsMoment(e) \/ EditRefused(e)
      PROVE  Rows' = Rows /\ occurrence' = occurrence /\ UNCHANGED <<clock, passes>>
  BY <1>1, <1>2, <1>3, <1>8 DEF EditDropsMoment, EditRefused, Request
<1>9. ASSUME NEW e \in Events, NEW s \in {"completed", "cancelled"}, CloseEvent(e, s)
      PROVE  Rows' = Rows /\ occurrence' = occurrence /\ UNCHANGED <<clock, passes>>
  BY <1>1, <1>2, <1>3, <1>9 DEF CloseEvent, Request
<1>10. ASSUME NEW r \in Reminders, NEW d \in Moments, NEW rec \in BOOLEAN, NEW e \in Events,
              CreateLinked(r, d, rec, e)
       PROVE  Rows' = Rows /\ occurrence' = occurrence /\ UNCHANGED <<clock, passes>>
  BY <1>2, <1>10 DEF CreateLinked, Request, Insert
<1> QED
  BY <1>4, <1>5, <1>6, <1>7, <1>8, <1>9, <1>10, Zenon DEF UserStep

\* What a pass writes: nothing, or the next row of the reminder at its head.
LEMMA PassesWrite ==
    ASSUME TypeOK, NEW w \in Workers, PassStep(w)
    PROVE  \/ Rows' = Rows /\ UNCHANGED reminders
           \/ /\ Process(w) /\ step[w] = "write"
              /\ Head(batch[w]) \in Reminders
              /\ Rows' = Rows \cup {Key(w, Head(batch[w]))}
<1>1. CASE Process(w)
  <2>1. Head(batch[w]) \in Reminders
    BY <1>1, HeadsAndTails DEF Process
  <2>2. queued' = queued \cup Fresh(Key(w, Head(batch[w]))) /\ UNCHANGED <<cancelled, delivered>>
    BY <1>1 DEF Process
  <2>3. Rows' = Rows \cup {Key(w, Head(batch[w]))}
    BY <2>2 DEF Rows, Fresh
  <2> QED
    BY <1>1, <2>1, <2>3 DEF Process
<1>2. CASE Scan(w) \/ Load(w) \/ ProcessFails(w) \/ Crash(w)
  <2>1. UNCHANGED outbox /\ UNCHANGED reminders
    BY <1>2 DEF Scan, Load, ProcessFails, Crash
  <2> QED
    BY <2>1 DEF Rows
<1> QED
  BY <1>1, <1>2 DEF PassStep

Told == SeenCovered /\ NoOccurrenceSkipped

LEMMA ToldInductive ==
    ASSUME TypeOK, Told, [Next]_vars
    PROVE  Told'
<1> USE DEF SeenCovered, NoOccurrenceSkipped
<1>1. ASSUME Rows \subseteq Rows', occurrence' = occurrence, UNCHANGED passes
      PROVE  Told'
  BY <1>1 DEF Told
<1>2. ASSUME NEW w \in Workers, PassStep(w)
      PROVE  Told'
  <2>1. Rows \subseteq Rows'
    BY <1>2, PassesWrite
  <2>2. \A v \in Workers \ {w} : /\ step'[v] = step[v] /\ seen'[v] = seen[v]
                                 /\ batch'[v] = batch[v]
    BY <1>2 DEF PassStep, Scan, Load, Process, ProcessFails, Crash, Proceed, TypeOK
  <2>3. step'[w] = "write" => Load(w)
    BY <1>2 DEF PassStep, Scan, Process, ProcessFails, Crash, Proceed, TypeOK
  <2>4. ASSUME Load(w)
        PROVE  /\ seen'[w].occurrence = occurrence[Head(batch[w])]
               /\ batch'[w] = batch[w] /\ Head(batch[w]) \in Reminders
    <3>1. Head(batch[w]) \in Reminders
      BY <2>4, HeadsAndTails DEF Load
    <3> QED
      BY <2>4, <3>1 DEF Load, TypeOK
  <2>5. SeenCovered'
    <3> SUFFICES ASSUME NEW v \in Workers, step'[v] = "write",
                        NEW n \in 1..(seen'[v].occurrence - 1)
                 PROVE  \E row \in Rows' : row.of = Head(batch'[v]) /\ row.occurrence = n
      OBVIOUS
    <3>1. CASE v # w
      BY <2>1, <2>2, <3>1 DEF Told
    <3>2. CASE v = w
      BY <2>1, <2>3, <2>4, <3>2 DEF Told
    <3> QED
      BY <3>1, <3>2
  <2>6. NoOccurrenceSkipped'
    <3> SUFFICES ASSUME NEW r \in Reminders, NEW n \in 1..(occurrence'[r] - 1)
                 PROVE  \E row \in Rows' : row.of = r /\ row.occurrence = n
      OBVIOUS
    <3>1. CASE occurrence'[r] = occurrence[r]
      BY <2>1, <3>1 DEF Told
    <3>2. CASE occurrence'[r] # occurrence[r]
      <4>1. /\ Process(w) /\ step[w] = "write"
            /\ Rows' = Rows \cup {Key(w, Head(batch[w]))}
        BY <1>2, <3>2, PassesWrite
      <4>2. r = Head(batch[w]) /\ occurrence'[r] = seen[w].occurrence + 1
        BY <3>2, <4>1 DEF Process, TypeOK
      <4>3. seen[w].occurrence \in Nat
        BY DEF TypeOK, Read
      <4>4. /\ Key(w, r) \in Rows'
            /\ Key(w, r).of = r /\ Key(w, r).occurrence = seen[w].occurrence
        BY <4>1, <4>2 DEF Key
      <4>5. n = seen[w].occurrence \/ n \in 1..(seen[w].occurrence - 1)
        BY <4>2, <4>3
      <4>6. CASE n = seen[w].occurrence
        BY <4>4, <4>6
      <4>7. CASE n \in 1..(seen[w].occurrence - 1)
        BY <2>1, <4>1, <4>2, <4>7 DEF Told
      <4> QED
        BY <4>5, <4>6, <4>7
    <3> QED
      BY <3>1, <3>2
  <2> QED
    BY <2>5, <2>6 DEF Told
<1>3. Tick => Rows' = Rows /\ occurrence' = occurrence /\ UNCHANGED passes
  BY DEF Tick, Rows
<1>4. \A row \in queued : Deliver(row) =>
         Rows \subseteq Rows' /\ occurrence' = occurrence /\ UNCHANGED passes
  BY DEF Deliver, Rows
<1>5. UNCHANGED vars => Rows' = Rows /\ occurrence' = occurrence /\ UNCHANGED passes
  BY DEF Rows
<1>6. UserStep => Rows' = Rows /\ occurrence' = occurrence /\ UNCHANGED passes
  BY UsersOnlyEdit
<1> QED
  BY <1>1, <1>2, <1>3, <1>4, <1>5, <1>6, NextSplit

\* No occurrence is passed over in silence, however many passes write the same
\* reminder from readings of their own (worker.py, _process_reminder).
THEOREM EveryOccurrenceTold == Spec => []NoOccurrenceSkipped
<1>1. Init => Told
  BY DEF Init, Told, SeenCovered, NoOccurrenceSkipped
<1>2. TypeOK /\ Told /\ [Next]_vars => TypeOK' /\ Told'
  BY TypesInductive, ToldInductive
<1>3. Told => NoOccurrenceSkipped
  BY DEF Told
<1> QED
  BY TypesAtFirst, <1>1, <1>2, <1>3, PTL DEF Spec

-----------------------------------------------------------------------------
(* Closed events stop reminding.                                           *)

\* What ClosedEventsStopReminding says of a step.
StopsReminding ==
    \A e \in Events : RemindsOfClosed(e)' =>
        \/ RemindsOfClosed(e) /\ linked'[e] = linked[e]
        \/ eventStatus[e] # "open" /\ status[linked'[e]] = "absent"

\* The links stay whole, and no closed event comes to remind.
LinksHold == LinksAreOwn' /\ StopsReminding

\* A pass completes reminders, and does nothing else to them or to the events.
LEMMA PassesOnlyComplete ==
    ASSUME TypeOK, NEW w \in Workers, PassStep(w)
    PROVE  /\ UNCHANGED events
           /\ \A r \in Reminders : status'[r] = status[r] \/ status'[r] = "completed"
<1>1. CASE Process(w)
  <2>1. UNCHANGED events /\ (status' = status \/ status' = [status EXCEPT ![Head(batch[w])] = "completed"])
    BY <1>1 DEF Process
  <2> QED
    BY <2>1 DEF TypeOK
<1>2. CASE Scan(w) \/ Load(w) \/ ProcessFails(w) \/ Crash(w)
  BY <1>2 DEF Scan, Load, ProcessFails, Crash
<1> QED
  BY <1>1, <1>2 DEF PassStep

\* A new reminder is linked to an event that has none.
LEMMA LinkIsNew ==
    ASSUME TypeOK, LinksAreOwn, NEW e \in Events, NEW r \in Reminders, status[r] = "absent",
           status' = [status EXCEPT ![r] = "active"], linked' = [linked EXCEPT ![e] = r]
    PROVE  /\ linked'[e] = r /\ r # NoReminder /\ LinksAreOwn'
           /\ \A f \in Events \ {e} :
                 /\ linked'[f] = linked[f]
                 /\ linked[f] # NoReminder => status'[linked[f]] = status[linked[f]]
<1>1. linked'[e] = r /\ status'[r] = "active" /\ r # NoReminder
  BY NullAssumption DEF TypeOK
<1>2. \A f \in Events \ {e} : linked'[f] = linked[f] /\ linked[f] # r
  BY NullAssumption DEF TypeOK, LinksAreOwn
<1>3. \A f \in Events \ {e} : linked[f] # NoReminder => status'[linked[f]] = status[linked[f]]
  BY <1>2 DEF TypeOK
<1>4. LinksAreOwn'
  BY <1>1, <1>2, <1>3 DEF LinksAreOwn
<1> QED
  BY <1>1, <1>2, <1>3, <1>4

\* Closing an event, like moving it, touches its own reminder only.
LEMMA LinksByUsers ==
    ASSUME TypeOK, LinksAreOwn, UserStep
    PROVE  LinksHold
<1> USE DEF LinksHold, StopsReminding, RemindsOfClosed
<1>1. ASSUME NEW r \in Reminders, NEW d \in Moments, NEW rec \in BOOLEAN,
             CreateReminder(r, d, rec) \/ UpdateReminder(r, d, rec)
      PROVE  LinksHold
  <2>1. UNCHANGED events
    BY <1>1 DEF CreateReminder, UpdateReminder
  <2>2. \/ status' = status
        \/ status[r] = "absent" /\ status' = [status EXCEPT ![r] = "active"]
    BY <1>1 DEF CreateReminder, UpdateReminder, Insert
  <2>3. \A e \in Events : linked[e] # NoReminder => status'[linked[e]] = status[linked[e]]
    BY <2>2 DEF TypeOK, LinksAreOwn
  <2> QED
    BY <2>1, <2>3 DEF LinksAreOwn
<1>2. ASSUME NEW r \in Reminders, CompleteReminder(r) \/ CancelReminder(r)
      PROVE  LinksHold
  <2>1. UNCHANGED events
    BY <1>2 DEF CompleteReminder, CancelReminder
  <2>2. \E s \in {"completed", "cancelled"} : status' = [status EXCEPT ![r] = s]
    BY <1>2 DEF CompleteReminder, CancelReminder
  <2>3. \A q \in Reminders : status'[q] = status[q] \/ status'[q] \in {"completed", "cancelled"}
    BY <2>2 DEF TypeOK
  <2>4. \A e \in Events : linked[e] # NoReminder => linked[e] \in Reminders
    BY DEF TypeOK
  <2> QED
    BY <2>1, <2>3, <2>4 DEF LinksAreOwn
<1>3. ASSUME NEW e \in Events, NEW m \in Moments \cup {NoTime},
             CreateEvent(e, m) \/ EditGivesMoment(e, m)
      PROVE  LinksHold
  <2>1. \/ UNCHANGED <<linked, status>>
        \/ \E r \in Reminders : /\ status[r] = "absent" /\ status' = [status EXCEPT ![r] = "active"]
                                /\ linked' = [linked EXCEPT ![e] = r]
    BY <1>3 DEF CreateEvent, EditGivesMoment, Insert
  <2>2. /\ eventStatus'[e] = "open"
        /\ \A f \in Events \ {e} : eventStatus'[f] = eventStatus[f]
    BY <1>3 DEF CreateEvent, EditGivesMoment, TypeOK
  <2>3. CASE UNCHANGED <<linked, status>>
    BY <2>2, <2>3 DEF LinksAreOwn
  <2>4. ASSUME NEW r \in Reminders, status[r] = "absent", status' = [status EXCEPT ![r] = "active"],
               linked' = [linked EXCEPT ![e] = r]
        PROVE  LinksHold
    <3>1. /\ LinksAreOwn'
          /\ \A f \in Events \ {e} :
                /\ linked'[f] = linked[f]
                /\ linked[f] # NoReminder => status'[linked[f]] = status[linked[f]]
      BY <2>4, LinkIsNew
    <3>2. ~RemindsOfClosed(e)'
      BY <2>2
    <3>3. \A f \in Events \ {e} : RemindsOfClosed(f)' => RemindsOfClosed(f) /\ linked'[f] = linked[f]
      BY <2>2, <3>1
    <3> QED
      BY <3>1, <3>2, <3>3
  <2> QED
    BY <2>1, <2>3, <2>4
<1>4. ASSUME NEW e \in Events, NEW m \in Moments \cup {NoTime}, NEW retitled \in BOOLEAN,
             EditPointsReminder(e, m, retitled)
      PROVE  LinksHold
  <2>1. /\ linked[e] # NoReminder /\ eventStatus[e] = "open"
        /\ UNCHANGED <<linked, eventStatus>>
        /\ status' = [status EXCEPT ![linked[e]] = "active"]
    BY <1>4 DEF EditPointsReminder
  <2>2. linked[e] \in Reminders
    BY <2>1 DEF TypeOK
  <2>3. \A f \in Events \ {e} : linked[f] # NoReminder => status'[linked[f]] = status[linked[f]]
    BY <2>1, <2>2 DEF TypeOK, LinksAreOwn
  <2>4. status'[linked[e]] = "active"
    BY <2>1, <2>2 DEF TypeOK
  <2> QED
    BY <2>1, <2>3, <2>4 DEF LinksAreOwn
<1>5. ASSUME NEW e \in Events, EditDropsMoment(e) \/ EditRefused(e)
      PROVE  LinksHold
  <2>1. UNCHANGED <<status, eventStatus>>
    BY <1>5 DEF EditDropsMoment, EditRefused
  <2>2. linked' = linked \/ linked' = [linked EXCEPT ![e] = NoReminder]
    BY <1>5 DEF EditDropsMoment, EditRefused
  <2>3. \A f \in Events : linked'[f] = linked[f] \/ linked'[f] = NoReminder
    BY <2>2 DEF TypeOK
  <2>4. LinksAreOwn'
    BY <2>1, <2>3 DEF LinksAreOwn
  <2>5. StopsReminding
    BY <2>1, <2>3
  <2> QED
    BY <2>4, <2>5
<1>6. ASSUME NEW e \in Events, NEW s \in {"completed", "cancelled"}, CloseEvent(e, s)
      PROVE  LinksHold
  <2>1. /\ UNCHANGED linked /\ eventStatus' = [eventStatus EXCEPT ![e] = s]
        /\ IF linked[e] # NoReminder /\ status[linked[e]] = "active"
           THEN status' = [status EXCEPT ![linked[e]] = "cancelled"] ELSE status' = status
    BY <1>6 DEF CloseEvent, Closed
  <2>2. /\ \A f \in Events \ {e} : eventStatus'[f] = eventStatus[f]
        /\ eventStatus'[e] = s
    BY <2>1 DEF TypeOK
  <2>3. \A r \in Reminders : status'[r] = status[r] \/ status'[r] = "cancelled"
    BY <2>1 DEF TypeOK
  <2>4. linked[e] # NoReminder => status'[linked[e]] # "active"
    BY <2>1 DEF TypeOK
  <2>5. \A f \in Events : linked[f] # NoReminder => linked[f] \in Reminders
    BY DEF TypeOK
  <2> QED
    BY <2>1, <2>2, <2>3, <2>4, <2>5 DEF LinksAreOwn
<1>7. ASSUME NEW r \in Reminders, NEW d \in Moments, NEW rec \in BOOLEAN, NEW e \in Events,
             CreateLinked(r, d, rec, e)
      PROVE  LinksHold
  <2>1. /\ status[r] = "absent" /\ status' = [status EXCEPT ![r] = "active"]
        /\ linked' = [linked EXCEPT ![e] = r] /\ UNCHANGED eventStatus
    BY <1>7 DEF CreateLinked, Insert
  <2>2. /\ linked'[e] = r /\ LinksAreOwn'
        /\ \A f \in Events \ {e} :
              /\ linked'[f] = linked[f]
              /\ linked[f] # NoReminder => status'[linked[f]] = status[linked[f]]
    BY <2>1, LinkIsNew
  <2> QED
    BY <2>1, <2>2
<1> QED
  BY <1>1, <1>2, <1>3, <1>4, <1>5, <1>6, <1>7, Zenon DEF UserStep

\* Closing an event leaves it no active reminder, and what a pass that read it before
\* writes afterwards makes none active (event_reminders.py: "Completed/cancelled events
\* stop reminding"): only an open event's edit makes a reminder active again, and a
\* reminder belongs to one event, also one that its owner linked to it (POST /reminders).
THEOREM ClosedEventsStaySilent == Spec => ClosedEventsStopReminding
<1>1. Init => LinksAreOwn
  BY DEF Init, LinksAreOwn
<1>2. ASSUME TypeOK, LinksAreOwn, [Next]_vars
      PROVE  LinksHold
  <2> DEFINE OnlyCompletes == \A r \in Reminders : \/ status'[r] = status[r]
                                                  \/ status'[r] = "completed"
  <2>1. UNCHANGED events /\ OnlyCompletes => LinksHold
    <3> SUFFICES ASSUME UNCHANGED events, OnlyCompletes PROVE LinksHold
      OBVIOUS
    <3>1. \A e \in Events : linked[e] # NoReminder =>
             status'[linked[e]] = status[linked[e]] \/ status'[linked[e]] = "completed"
      BY <1>2 DEF TypeOK
    <3>2. LinksAreOwn /\ UNCHANGED <<linked, eventStatus>>
      BY <1>2
    <3> HIDE DEF OnlyCompletes
    <3>3. LinksAreOwn'
      BY <3>1, <3>2 DEF LinksAreOwn
    <3>4. ASSUME NEW e \in Events, RemindsOfClosed(e)'
          PROVE  RemindsOfClosed(e) /\ linked'[e] = linked[e]
      <4>1. /\ linked'[e] = linked[e] /\ eventStatus'[e] = eventStatus[e]
            /\ linked[e] # NoReminder /\ status'[linked[e]] = "active"
            /\ eventStatus[e] \in {"completed", "cancelled"}
        BY <3>2, <3>4 DEF RemindsOfClosed
      <4>2. status[linked[e]] = "active"
        BY <3>1, <4>1
      <4> QED
        BY <4>1, <4>2 DEF RemindsOfClosed
    <3> QED
      BY <3>3, <3>4 DEF LinksHold, StopsReminding
  <2>2. ASSUME NEW w \in Workers, PassStep(w)
        PROVE  LinksHold
    BY <1>2, <2>1, <2>2, PassesOnlyComplete
  <2>3. Tick \/ UNCHANGED vars => UNCHANGED events /\ OnlyCompletes
    BY DEF Tick
  <2>4. \A row \in queued : Deliver(row) => UNCHANGED events /\ OnlyCompletes
    BY DEF Deliver
  <2> HIDE DEF OnlyCompletes
  <2> QED
    BY <1>2, <2>1, <2>2, <2>3, <2>4, LinksByUsers, NextSplit
<1>3. TypeOK /\ LinksAreOwn /\ [Next]_vars
        => TypeOK' /\ LinksAreOwn' /\ [StopsReminding]_vars
  BY <1>2, TypesInductive DEF LinksHold
<1> QED
  BY TypesAtFirst, <1>1, <1>3, PTL DEF Spec, ClosedEventsStopReminding, StopsReminding

-----------------------------------------------------------------------------
(* Under its locks a pass fires what is due.                               *)

\* A request changes a reminder that no pass has locked, or makes a new one.
LEMMA UsersWaitForLocks ==
    ASSUME TypeOK, UserStep, NEW q \in Reminders
    PROVE  \/ status'[q] = status[q] /\ due'[q] = due[q]
           \/ Unlocked(q) \/ status[q] = "absent"
<1> DEFINE Kept == \/ status'[q] = status[q] /\ due'[q] = due[q]
                   \/ Unlocked(q) \/ status[q] = "absent"
<1>0. UNCHANGED reminders => Kept
  OBVIOUS
<1>1. ASSUME NEW r \in Reminders, NEW d \in Moments, NEW rec \in BOOLEAN,
             CreateReminder(r, d, rec) \/ UpdateReminder(r, d, rec)
      PROVE  Kept
  BY <1>1 DEF CreateReminder, UpdateReminder, Insert, TypeOK
<1>2. ASSUME NEW r \in Reminders, CompleteReminder(r) \/ CancelReminder(r)
      PROVE  Kept
  BY <1>2 DEF CompleteReminder, CancelReminder, TypeOK
<1>3. ASSUME NEW e \in Events, NEW m \in Moments \cup {NoTime},
             CreateEvent(e, m) \/ EditGivesMoment(e, m)
      PROVE  Kept
  <2>1. UNCHANGED reminders \/ \E r \in Reminders : Insert(r, m, FALSE)
    BY <1>3 DEF CreateEvent, EditGivesMoment
  <2> QED
    BY <2>1 DEF Insert, TypeOK
<1>4. ASSUME NEW e \in Events, NEW m \in Moments \cup {NoTime}, NEW retitled \in BOOLEAN,
             EditPointsReminder(e, m, retitled)
      PROVE  Kept
  <2>1. linked[e] \in Reminders /\ Unlocked(linked[e])
    BY <1>4 DEF EditPointsReminder, TypeOK
  <2>2. /\ due' = [due EXCEPT ![linked[e]] = m]
        /\ status' = [status EXCEPT ![linked[e]] = "active"]
    BY <1>4 DEF EditPointsReminder
  <2> QED
    BY <2>1, <2>2 DEF TypeOK
<1>5. ASSUME NEW e \in Events, EditDropsMoment(e) \/ EditRefused(e)
      PROVE  Kept
  BY <1>0, <1>5 DEF EditDropsMoment, EditRefused
<1>6. ASSUME NEW e \in Events, NEW s \in {"completed", "cancelled"}, CloseEvent(e, s)
      PROVE  Kept
  <2>1. /\ UNCHANGED due
        /\ \/ status' = status
           \/ Unlocked(linked[e]) /\ status' = [status EXCEPT ![linked[e]] = "cancelled"]
    BY <1>6 DEF CloseEvent, Closed
  <2> QED
    BY <2>1 DEF TypeOK
<1>7. ASSUME NEW r \in Reminders, NEW d \in Moments, NEW rec \in BOOLEAN, NEW e \in Events,
             CreateLinked(r, d, rec, e)
      PROVE  Kept
  BY <1>7 DEF CreateLinked, Insert, TypeOK
<1> HIDE DEF Kept
<1>8. Kept
  BY <1>1, <1>2, <1>3, <1>4, <1>5, <1>6, <1>7, Zenon DEF UserStep
<1> QED
  BY <1>8 DEF Kept

\* LocksHold, worker by worker.
LockHeld(w) ==
    /\ step[w] # "idle" /\ now[w] <= clock
    /\ \A r \in Members(batch[w]) : status[r] = "active" /\ due[r] <= now[w]
    /\ \A v \in Workers \ {w} : LockedBy(v) \cap LockedBy(w) = {}

LEMMA LocksAre == /\ LocksHold <=> \A w \in Workers : held[w] => LockHeld(w)
                  /\ LocksHold' <=> \A w \in Workers : held'[w] => LockHeld(w)'
BY Zenon DEF LocksHold, LockHeld

LEMMA MembersTyped ==
    ASSUME TypeOK, NEW w \in Workers
    PROVE  Members(batch[w]) \subseteq Reminders
<1>1. batch[w] \in Seq(Reminders)
  BY DEF TypeOK
<1>2. \A i \in DOMAIN batch[w] : batch[w][i] \in Reminders
  BY <1>1
<1> QED
  BY <1>2 DEF Members

LEMMA LocksByUsers ==
    ASSUME TypeOK, LocksHold, UserStep
    PROVE  LocksHold'
<1>1. UNCHANGED <<clock, passes>>
  BY UsersOnlyEdit
<1>2. ASSUME NEW w \in Workers, held[w]
      PROVE  \A r \in Members(batch[w]) : status'[r] = status[r] /\ due'[r] = due[r]
  <2> SUFFICES ASSUME NEW r \in Members(batch[w])
               PROVE  status'[r] = status[r] /\ due'[r] = due[r]
    OBVIOUS
  <2>1. r \in Reminders
    BY MembersTyped
  <2>2. ~Unlocked(r)
    BY <1>2 DEF Unlocked, LockedBy
  <2>3. status[r] = "active"
    BY <1>2, LocksAre DEF LockHeld
  <2> QED
    BY <2>1, <2>2, <2>3, UsersWaitForLocks
<1>3. \A w \in Workers : LockedBy(w)' = LockedBy(w)
  BY <1>1 DEF LockedBy, Members
<1> QED
  BY <1>1, <1>2, <1>3, LocksAre DEF LockHeld, Members

LEMMA LocksByPasses ==
    ASSUME TypeOK, LocksHold, NEW w \in Workers, PassStep(w)
    PROVE  LocksHold'
<1>0. UNCHANGED clock
  BY DEF PassStep, Scan, Load, Process, ProcessFails, Crash
<1>1. \A v \in Workers \ {w} : /\ step'[v] = step[v] /\ now'[v] = now[v] /\ held'[v] = held[v]
                               /\ batch'[v] = batch[v]
  BY DEF PassStep, Scan, Load, Process, ProcessFails, Crash, Proceed, TypeOK
<1>2. \A v \in Workers \ {w} : LockedBy(v)' = LockedBy(v)
  BY <1>1 DEF LockedBy, Members
<1>3. ASSUME LockedBy(w)' \subseteq LockedBy(w), held'[w] => LockHeld(w)',
             \A v \in Workers \ {w} : held[v] => \A r \in Members(batch[v]) :
                  status'[r] = status[r] /\ due'[r] = due[r]
      PROVE  LocksHold'
  <2>1. ASSUME NEW v \in Workers \ {w}, held'[v]
        PROVE  LockHeld(v)'
    <3>1. LockHeld(v) /\ held[v]
      BY <1>1, <2>1, LocksAre
    <3>2. \A u \in Workers \ {v} : LockedBy(u)' \subseteq LockedBy(u)
      BY <1>2, <1>3
    <3>3. Members(batch'[v]) = Members(batch[v])
      BY <1>1 DEF Members
    <3> QED
      BY <1>0, <1>1, <1>2, <1>3, <3>1, <3>2, <3>3 DEF LockHeld
  <2> QED
    BY <1>3, <2>1, LocksAre
<1>4. CASE Scan(w)
  <2>1. PICK b \in Batches(clock) : batch' = [batch EXCEPT ![w] = b]
    BY <1>4 DEF Scan
  <2>2. Members(b) \subseteq Available(clock)
    BY <1>4, BatchesAreLists DEF Scan, TypeOK
  <2>3. batch'[w] = b /\ held'[w] /\ now'[w] = clock /\ step'[w] = "load"
    BY <1>4, <2>1 DEF Scan, TypeOK
  <2>4. UNCHANGED <<status, due>>
    BY <1>4 DEF Scan
  <2>5. LockedBy(w)' = Members(b)
    BY <2>3 DEF LockedBy, Members
  <2>6. \A v \in Workers \ {w} : LockedBy(v)' \cap LockedBy(w)' = {}
    BY <1>2, <2>2, <2>5 DEF Available, Unlocked
  <2>7. \A r \in Members(b) : status'[r] = "active" /\ due'[r] <= now'[w]
    BY <2>2, <2>3, <2>4 DEF Available
  <2>8. clock \in Nat
    BY TimeAssumption DEF TypeOK, Moments
  <2>9. LockHeld(w)'
    BY <1>0, <2>3, <2>6, <2>7, <2>8 DEF LockHeld, Members
  <2>10. ASSUME NEW v \in Workers \ {w}, held'[v]
         PROVE  LockHeld(v)'
    <3>1. LockHeld(v)
      BY <1>1, <2>10, LocksAre
    <3>2. \A u \in Workers \ {v} : LockedBy(u)' \cap LockedBy(v)' = {}
      BY <1>2, <2>6, <3>1 DEF LockHeld
    <3> QED
      BY <1>0, <1>1, <2>4, <3>1, <3>2 DEF LockHeld, Members
  <2> QED
    BY <2>9, <2>10, LocksAre
<1>5. CASE Load(w)
  <2>1. UNCHANGED <<status, due, batch, held, now, clock>> /\ step'[w] = "write"
    BY <1>5 DEF Load, TypeOK
  <2>2. \A v \in Workers : LockedBy(v)' = LockedBy(v)
    BY <2>1 DEF LockedBy, Members
  <2>3. held'[w] => LockHeld(w)'
    BY <2>1, <2>2, LocksAre DEF LockHeld, Members
  <2> QED
    BY <1>3, <2>1, <2>2, <2>3
<1>6. CASE Process(w) \/ ProcessFails(w) \/ Crash(w)
  <2>1. ~held'[w]
    BY <1>6 DEF Process, ProcessFails, Crash, Proceed, TypeOK
  <2>2. LockedBy(w)' = {}
    BY <2>1 DEF LockedBy
  <2>3. ASSUME NEW v \in Workers \ {w}, held[v], NEW r \in Members(batch[v])
        PROVE  status'[r] = status[r] /\ due'[r] = due[r]
    <3>1. r \in Reminders /\ r \in LockedBy(v)
      BY <2>3, MembersTyped DEF LockedBy
    <3>2. Process(w) => r # Head(batch[w])
      BY <3>1 DEF Process
    <3> QED
      BY <1>6, <3>1, <3>2 DEF Process, ProcessFails, Crash, TypeOK
  <2> QED
    BY <1>3, <2>1, <2>2, <2>3
<1> QED
  BY <1>4, <1>5, <1>6 DEF PassStep

LEMMA LocksInductive == TypeOK /\ LocksHold /\ [Next]_vars => LocksHold'
<1> SUFFICES ASSUME TypeOK, LocksHold, [Next]_vars PROVE LocksHold'
  OBVIOUS
<1>1. ASSUME UNCHANGED <<status, due, passes>>, clock <= clock', clock' \in Nat
      PROVE  LocksHold'
  <2>1. \A v \in Workers : LockedBy(v)' = LockedBy(v) /\ Members(batch'[v]) = Members(batch[v])
    BY <1>1 DEF LockedBy, Members
  <2>2. \A v \in Workers : now'[v] = now[v] /\ now[v] \in Nat /\ clock \in Nat
    BY <1>1, TimeAssumption DEF TypeOK, Moments
  <2>3. \A v \in Workers : held[v] => LockHeld(v)
    BY LocksAre
  <2>4. \A v \in Workers : held'[v] => LockHeld(v)'
    BY <1>1, <2>1, <2>2, <2>3 DEF LockHeld
  <2> QED
    BY <2>4, LocksAre
<1>2. clock \in Nat
  BY TimeAssumption DEF TypeOK, Moments
<1>3. Tick => LocksHold'
  BY <1>1, <1>2 DEF Tick
<1>4. \A row \in queued : Deliver(row) => LocksHold'
  BY <1>1, <1>2 DEF Deliver
<1>5. UNCHANGED vars => LocksHold'
  BY <1>1, <1>2
<1> QED
  BY <1>3, <1>4, <1>5, LocksByUsers, LocksByPasses, NextSplit

\* While a pass has its locks, every notification it makes is of a reminder that
\* is active and due at that moment, whatever users and other passes do
\* (worker.py, scan_due_reminders).  Nothing of the kind holds of the rest of its
\* batch, which it reloads without a lock.
THEOREM LockedPassIsRight == Spec => LockedPassFiresDueOnly
<1>1. Init => LocksHold
  BY DEF Init, LocksHold
<1>2. ASSUME TypeOK, LocksHold, Next
      PROVE  \A w \in Workers, row \in Rows' \ Rows :
                 held[w] /\ batch'[w] # batch[w]
                     => status[row.of] = "active" /\ due[row.of] <= clock
  <2> SUFFICES ASSUME NEW w \in Workers, NEW row \in Rows' \ Rows, held[w], batch'[w] # batch[w]
               PROVE  status[row.of] = "active" /\ due[row.of] <= clock
    OBVIOUS
  <2>1. PICK v \in Workers : PassStep(v)
    <3>1. ~UserStep
      BY <1>2, UsersOnlyEdit
    <3>2. ~Tick /\ \A x \in queued : ~Deliver(x)
      BY DEF Tick, Deliver
    <3> QED
      BY <1>2, <3>1, <3>2, NextSplit
  <2>2. /\ Process(v) /\ step[v] = "write"
        /\ Rows' = Rows \cup {Key(v, Head(batch[v]))}
    BY <1>2, <2>1, PassesWrite
  <2>3. v = w
    BY <1>2, <2>2 DEF Process, Proceed, TypeOK
  <2>4. row.of = Head(batch[w]) /\ Head(batch[w]) \in Members(batch[w])
        /\ Head(batch[w]) \in Reminders
    BY <1>2, <2>2, <2>3, HeadsAndTails DEF Key
  <2>5. LockHeld(w)
    BY <1>2, LocksAre
  <2>6. now[w] \in Nat /\ clock \in Nat /\ due[Head(batch[w])] \in Nat
    BY <1>2, <2>4, TimeAssumption DEF TypeOK, Moments
  <2> QED
    BY <2>4, <2>5, <2>6 DEF LockHeld
<1>3. TypeOK /\ LocksHold /\ [Next]_vars
        => [\A w \in Workers, row \in Rows' \ Rows :
               held[w] /\ batch'[w] # batch[w]
                   => status[row.of] = "active" /\ due[row.of] <= clock]_vars
  BY <1>2
<1> QED
  BY TypesAtFirst, TypesInductive, LocksInductive, <1>1, <1>3, PTL DEF Spec, LockedPassFiresDueOnly
=============================================================================
