------------------------ MODULE CandidateDocuments_proofs ------------------------
(***************************************************************************)
(* Theorems about CandidateDocuments, for every set of users, versions and *)
(* workers, every content of the list and every bound, and about           *)
(* DocumentTemplates as MCDocuments composes it.                           *)
(***************************************************************************)
EXTENDS MCDocuments, FiniteSetTheorems, SequenceTheorems, TLAPS

USE DEF vars

Items    == UNION {ItemsOf[v] : v \in Versions}
Set      == [version : Versions, received : SUBSET Items, marks : Nat]
Keys     == ({"set"} \X Nat \X Nat) \cup ({"job"} \X Nat \X Nat) \cup ({"action"} \X Nat)
Statuses == {"queued", "sending", "done", "accepted", "skipped", "cancelled"}
Row      == [kind : {"job", "message"}, key : Keys, status : Statuses, by : Users \cup {RuleOwner},
             rule : Nat, set : Nat, items : SUBSET Items]
Sending  == {"locked", "resolved", "calling"}
Steps    == {"idle", "claimed", "second"} \cup Sending

Typed ==
    /\ sets \in Seq(Set) /\ facts \in Seq(Nat) /\ rows \in Seq(Row)
    /\ rule \in [trigger : Triggers, action : Actions, enabled : BOOLEAN, version : Nat]
    /\ worker \in [Workers -> [row : Nat, at : Steps]]
    /\ ruleLock \in Workers \cup {Free} /\ candidateLock \in Workers \cup {Free}

\* A worker that is at something is at a row; only messages are checked and sent.
AtRows ==
    \A w \in Workers : ~At(w, "idle") =>
        /\ worker[w].row \in Ids
        /\ At(w, "resolved") \/ At(w, "calling") => RowOf(w).kind = "message"

\* The rule's lock is taken first, and both are kept to the end.
LocksInOrder ==
    \A w \in Workers :
        /\ candidateLock = w => worker[w].at \in Sending
        /\ ruleLock = w => worker[w].at \in Sending \cup {"second"}

\* A message is checked and sent under its candidate's lock.
SentUnderLock ==
    \A w \in Workers :
        worker[w].at \in Sending /\ RowOf(w).kind = "message" => candidateLock = w

\* A message is about a snapshot.
MessagesHaveSets == \A i \in Ids : rows[i].kind = "message" => rows[i].set # 0

-----------------------------------------------------------------------------
(* The operators the actions are built from.                               *)

LEMMA RowsAre ==
    ASSUME Typed
    PROVE  /\ Len(rows) \in Nat /\ Ids = 1..Len(rows)
           /\ \A i \in Ids : rows[i] \in Row
BY DEF Typed, Ids

\* What is missing of the current snapshot.
LEMMA SetsAre ==
    ASSUME Typed
    PROVE  /\ Len(sets) \in Nat /\ (sets # <<>> <=> Len(sets) # 0)
           /\ sets # <<>> => Len(sets) \in DOMAIN sets /\ Current = sets[Len(sets)] /\ Current \in Set
           /\ Missing \subseteq Items
           /\ Missing # {} => Len(sets) # 0
<1>1. sets \in Seq(Set) /\ Len(sets) \in Nat
  BY DEF Typed
<1>2. sets # <<>> <=> Len(sets) # 0
  BY <1>1, EmptySeq
<1>3. sets # <<>> => Len(sets) \in DOMAIN sets /\ Current = sets[Len(sets)] /\ Current \in Set
  BY <1>1, <1>2 DEF Current, Last
<1>4. Missing \subseteq Items
  BY <1>3 DEF Missing, Items, Set
<1>5. Missing # {} => Len(sets) # 0
  BY <1>2 DEF Missing
<1> QED
  BY <1>1, <1>2, <1>3, <1>4, <1>5

\* A row changes its status, and nothing that says what it is.
Tells(row, old) == row.kind = old.kind /\ row.set = old.set /\ row.items = old.items

LEMMA StatusOnly ==
    ASSUME NEW r \in Seq(Row), NEW i \in DOMAIN r, NEW s \in Statuses
    PROVE  /\ [r EXCEPT ![i].status = s] \in Seq(Row)
           /\ DOMAIN [r EXCEPT ![i].status = s] = DOMAIN r
           /\ \A j \in DOMAIN r : Tells([r EXCEPT ![i].status = s][j], r[j])
<1> DEFINE row == [r[i] EXCEPT !.status = s]
           new == [r EXCEPT ![i] = row]
<1>1. r[i] \in Row /\ Len(r) \in Nat /\ DOMAIN r = 1..Len(r)
  BY ElementOfSeq
<1>2. row \in Row /\ Tells(row, r[i])
  BY <1>1 DEF Row, Tells
<1>3. [r EXCEPT ![i].status = s] = new
  OBVIOUS
<1> HIDE DEF row
<1>4. new \in Seq(Row) /\ DOMAIN new = DOMAIN r
  BY <1>1, <1>2
<1>5. \A j \in DOMAIN r : Tells(new[j], r[j])
  BY <1>2 DEF Tells
<1> QED
  BY <1>3, <1>4, <1>5

LEMMA Finished ==
    ASSUME Typed, AtRows, NEW w \in Workers, ~At(w, "idle"), NEW s \in Statuses
    PROVE  /\ Finish(w, s) \in Seq(Row) /\ DOMAIN Finish(w, s) = Ids
           /\ \A j \in Ids : Tells(Finish(w, s)[j], rows[j])
<1>1. worker[w].row \in DOMAIN rows /\ rows \in Seq(Row)
  BY DEF AtRows, Ids, Typed
<1>2. CASE RowOf(w).status = "sending"
  <2>1. Finish(w, s) = [rows EXCEPT ![worker[w].row].status = s]
    BY <1>2 DEF Finish
  <2> QED
    BY <1>1, <2>1, StatusOnly DEF Ids
<1>3. CASE RowOf(w).status # "sending"
  BY <1>1, <1>3 DEF Finish, Ids, Tells
<1> QED
  BY <1>2, <1>3

LEMMA Appended ==
    ASSUME NEW r \in Seq(Row), NEW row \in Row, row.kind = "message" => row.set # 0
    PROVE  /\ Append(r, row) \in Seq(Row) /\ DOMAIN r \subseteq DOMAIN Append(r, row)
           /\ \A i \in DOMAIN r : Append(r, row)[i] = r[i]
           /\ \A i \in DOMAIN Append(r, row) \ DOMAIN r :
                 Append(r, row)[i].kind = "message" => Append(r, row)[i].set # 0
<1>1. Len(r) \in Nat /\ DOMAIN r = 1..Len(r)
  OBVIOUS
<1>2. /\ Append(r, row) \in Seq(Row) /\ Len(Append(r, row)) = Len(r) + 1
      /\ \A i \in 1..Len(r) : Append(r, row)[i] = r[i]
      /\ Append(r, row)[Len(r) + 1] = row
  BY AppendProperties
<1>3. DOMAIN Append(r, row) = 1..Len(r) + 1
  BY <1>1, <1>2
<1> QED
  BY <1>1, <1>2, <1>3

LEMMA MessageIs ==
    ASSUME Typed, Missing # {}, NEW u \in Users \cup {RuleOwner}, NEW key \in Keys, NEW v \in Nat
    PROVE  /\ Message(u, key, v) \in Row /\ Message(u, key, v).set # 0
BY SetsAre DEF Message, Row, Statuses

-----------------------------------------------------------------------------
(* What a step may do to the rows and to the snapshots.                    *)

RowsGrow ==
    /\ rows' \in Seq(Row) /\ Ids \subseteq Ids'
    /\ \A i \in Ids : Tells(rows'[i], rows[i])
    /\ \A i \in Ids' \ Ids : rows'[i].kind = "message" => rows'[i].set # 0

LEMMA UnchangedGrow ==
    ASSUME Typed, UNCHANGED rows
    PROVE  RowsGrow
BY DEF Typed, RowsGrow, Tells, Ids

LEMMA AppendGrow ==
    ASSUME Typed, NEW row \in Row, row.kind = "message" => row.set # 0,
           rows' = Append(rows, row)
    PROVE  RowsGrow
BY Appended DEF Typed, RowsGrow, Tells, Ids

LEMMA StatusGrow ==
    ASSUME Typed, NEW i \in Ids, NEW s \in Statuses, rows' = [rows EXCEPT ![i].status = s]
    PROVE  RowsGrow
BY StatusOnly DEF Typed, RowsGrow, Ids

LEMMA FinishGrow ==
    ASSUME Typed, AtRows, NEW w \in Workers, ~At(w, "idle"), NEW s \in Statuses,
           rows' = Finish(w, s)
    PROVE  RowsGrow
BY Finished DEF RowsGrow, Ids

LEMMA ByHandGrows ==
    ASSUME Typed, NEW u \in Users, SendByHand(u)
    PROVE  RowsGrow
<1> DEFINE key == <<"set", Len(sets), Current.marks>>
           m   == Message(u, key, 0)
<1>1. Missing # {} /\ rows' = Queued(m)
  BY DEF SendByHand
<1>2. Len(sets) \in Nat /\ Current \in Set
  BY <1>1, SetsAre
<1>3. key \in Keys
  BY <1>2 DEF Keys, Set
<1> HIDE DEF key
<1>4. m \in Row /\ m.set # 0
  BY <1>1, <1>3, MessageIs
<1> HIDE DEF m
<1>5. rows' = rows \/ rows' = Append(rows, m)
  BY <1>1 DEF Queued
<1> QED
  BY <1>4, <1>5, UnchangedGrow, AppendGrow

LEMMA UpdateGrows ==
    ASSUME Typed, NEW e \in BOOLEAN, UpdateRule(e)
    PROVE  RowsGrow
<1> DEFINE new(i) == IF rows[i].rule # 0 /\ rows[i].status \in {"queued", "sending"}
                     THEN [rows[i] EXCEPT !.status = "cancelled"] ELSE rows[i]
<1>1. rows' = [i \in Ids |-> new(i)]
  BY DEF UpdateRule
<1>2. ASSUME NEW i \in Ids
      PROVE  new(i) \in Row /\ Tells(new(i), rows[i])
  <2>1. rows[i] \in Row
    BY RowsAre
  <2> QED
    BY <2>1 DEF Row, Tells, Statuses
<1> HIDE DEF new
<1>3. rows' \in [1..Len(rows) -> Row] /\ Len(rows) \in Nat /\ DOMAIN rows' = Ids
  BY <1>1, <1>2, RowsAre
<1>4. rows' \in Seq(Row)
  BY <1>3
<1> QED
  BY <1>1, <1>2, <1>3, <1>4 DEF RowsGrow, Ids

LEMMA ScanGrows ==
    ASSUME Typed, Scan
    PROVE  RowsGrow
<1>1. PICK t \in Discovered : rows' = Append(rows, Job(t))
  BY DEF Scan
<1>2. t \in Nat
  <2>1. DOMAIN facts \subseteq Nat /\ DOMAIN sets \subseteq Nat
    BY DEF Typed
  <2> QED
    BY <2>1 DEF Discovered
<1>3. Job(t) \in Row /\ Job(t).kind = "job"
  BY <1>2 DEF Job, Row, JobKey, Keys, Statuses, Typed
<1> QED
  BY <1>1, <1>3, AppendGrow

LEMMA PerformGrows ==
    ASSUME Typed, AtRows, NEW w \in Workers, PerformJob(w)
    PROVE  /\ RowsGrow
           /\ sets' \in Seq(Set)
           /\ sets' = sets \/ sets = <<>>
<1> DEFINE done == Finish(w, "done")
           key  == <<"action", worker[w].row>>
           m    == Message(RuleOwner, key, rule.version)
<1>1. ~At(w, "idle") /\ "done" \in Statuses
  BY DEF PerformJob, At, Statuses
<1>2. /\ done \in Seq(Row) /\ DOMAIN done = Ids
      /\ \A j \in Ids : Tells(done[j], rows[j])
  BY <1>1, Finished
<1>3. \/ rows' = done /\ sets = <<>> /\ \E v \in Published : sets' = Applied(v)
      \/ rows' = Append(done, m) /\ Missing # {} /\ sets' = sets
      \/ rows' = done /\ sets' = sets
  BY DEF PerformJob
<1> HIDE DEF done
<1>4. rows' = done => RowsGrow
  BY <1>2 DEF RowsGrow, Ids
<1>5. rows' = Append(done, m) /\ Missing # {} => RowsGrow
  <2>1. key \in Keys /\ rule.version \in Nat
    BY DEF Typed, Keys
  <2> HIDE DEF key
  <2>2. Missing # {} => m \in Row /\ m.set # 0
    BY <2>1, MessageIs
  <2> HIDE DEF m
  <2>3. Missing # {} =>
          /\ Append(done, m) \in Seq(Row) /\ Ids \subseteq DOMAIN Append(done, m)
          /\ \A i \in Ids : Append(done, m)[i] = done[i]
          /\ \A i \in DOMAIN Append(done, m) \ Ids :
                Append(done, m)[i].kind = "message" => Append(done, m)[i].set # 0
    BY <1>2, <2>2, Appended
  <2> QED
    BY <1>2, <2>3 DEF RowsGrow, Ids
<1>6. sets \in Seq(Set)
  BY DEF Typed
<1>7. ASSUME NEW v \in Published
      PROVE  Applied(v) \in Seq(Set)
  <2>1. [version |-> v, received |-> {}, marks |-> 0] \in Set
    BY DEF Published, Set
  <2> QED
    BY <1>6, <2>1, AppendProperties DEF Applied
<1> QED
  BY <1>3, <1>4, <1>5, <1>6, <1>7

\* The steps by who makes them: users and the scan, and each worker.
UserStep ==
    \/ \E v \in Versions : NewVersion(v) \/ Publish(v) \/ Archive(v)
    \/ \E u \in Users :
          \/ SendByHand(u) \/ Transfer(u)
          \/ \E v \in Versions : Apply(u, v) \/ \E item \in ItemsOf[v] : MarkItem(u, item)
    \/ \E s \in {"new", "documents"} : EditStage(s)
    \/ \E e \in BOOLEAN : UpdateRule(e)
    \/ Scan
    \/ \E i \in Ids : CancelMessage(i)

WorkerStep(w) ==
    \/ \E i \in Ids : Claim(w, i)
    \/ TakeRuleLock(w) \/ TakeCandidateLock(w) \/ PerformJob(w)
    \/ PhaseA(w) \/ PhaseB0(w) \/ PhaseC(w) \/ Crash(w)

LEMMA NextSplit == Next => UserStep \/ \E w \in Workers : WorkerStep(w)
BY Zenon DEF Next, UserStep, WorkerStep

\* Whoever is not a worker changes the snapshots only while nobody has the
\* candidate's lock.
LEMMA UsersWait ==
    ASSUME Typed, UserStep
    PROVE  /\ RowsGrow
           /\ sets' \in Seq(Set) /\ (sets' = sets \/ candidateLock = Free)
           /\ facts' \in Seq(Nat)
           /\ rule' \in [trigger : Triggers, action : Actions, enabled : BOOLEAN, version : Nat]
           /\ UNCHANGED <<worker, ruleLock, candidateLock>>
<1> DEFINE Rules == [trigger : Triggers, action : Actions, enabled : BOOLEAN, version : Nat]
           Waits == /\ RowsGrow
                    /\ sets' \in Seq(Set) /\ (sets' = sets \/ candidateLock = Free)
                    /\ facts' \in Seq(Nat) /\ rule' \in Rules
                    /\ UNCHANGED <<worker, ruleLock, candidateLock>>
<1>0. sets \in Seq(Set) /\ facts \in Seq(Nat) /\ rule \in Rules
  BY DEF Typed
<1>1. ASSUME NEW v \in Versions, NewVersion(v) \/ Publish(v) \/ Archive(v)
      PROVE  Waits
  BY <1>0, <1>1, UnchangedGrow DEF NewVersion, Publish, Archive
<1>2. ASSUME NEW u \in Users, SendByHand(u)
      PROVE  Waits
  BY <1>0, <1>2, ByHandGrows DEF SendByHand
<1>3. ASSUME NEW u \in Users, Transfer(u)
      PROVE  Waits
  BY <1>0, <1>3, UnchangedGrow DEF Transfer
<1>4. ASSUME NEW u \in Users, NEW v \in Versions, Apply(u, v)
      PROVE  Waits
  <2>1. sets' = Applied(v) /\ candidateLock = Free
    BY <1>4 DEF Apply, CandidateUnlocked
  <2>2. [version |-> v, received |-> {}, marks |-> 0] \in Set
    BY DEF Set
  <2>3. Applied(v) \in Seq(Set)
    BY <1>0, <2>2, AppendProperties DEF Applied
  <2> QED
    BY <1>0, <1>4, <2>1, <2>3, UnchangedGrow DEF Apply
<1>5. ASSUME NEW u \in Users, NEW v \in Versions, NEW item \in ItemsOf[v], MarkItem(u, item)
      PROVE  Waits
  <2> DEFINE n == Len(sets)
             received == IF item \in Current.received THEN Current.received \ {item}
                         ELSE Current.received \cup {item}
             set == [sets[n] EXCEPT !.received = received, !.marks = @ + 1]
  <2>1. sets # <<>> /\ candidateLock = Free
        /\ sets' = [sets EXCEPT ![Len(sets)].received = received, ![Len(sets)].marks = @ + 1]
    BY <1>5 DEF MarkItem, CandidateUnlocked
  <2>2. n \in DOMAIN sets /\ Current = sets[n] /\ Current \in Set
    BY <2>1, SetsAre
  <2>3. received \subseteq Items
    BY <2>2 DEF Items, Set
  <2> HIDE DEF received
  <2>4. set \in Set
    <3>1. sets[n] \in Set
      BY <2>2
    <3>2. ASSUME NEW x \in Set
          PROVE  [x EXCEPT !.received = received, !.marks = @ + 1] \in Set
      <4>1. \A y \in Set, k \in Nat : [y EXCEPT !.marks = k] \in Set
        BY DEF Set
      <4>2. [x EXCEPT !.received = received] \in Set /\ x.marks + 1 \in Nat
        BY <2>3 DEF Set
      <4>3. [[x EXCEPT !.received = received] EXCEPT !.marks = x.marks + 1] \in Set
        BY <4>1, <4>2
      <4> QED
        BY <4>3
    <3> HIDE DEF n
    <3> QED
      BY <3>1, <3>2
  <2>5. sets' = [sets EXCEPT ![n] = set]
    BY <1>0, <2>1, <2>2
  <2> HIDE DEF set, n
  <2>6. sets' \in Seq(Set)
    BY <1>0, <2>2, <2>4, <2>5
  <2> QED
    BY <1>0, <1>5, <2>1, <2>6, UnchangedGrow DEF MarkItem
<1>6. ASSUME NEW s \in {"new", "documents"}, EditStage(s)
      PROVE  Waits
  <2>1. facts' = facts \/ facts' = Append(facts, rule.version)
    BY <1>6 DEF EditStage
  <2>2. facts' \in Seq(Nat)
    <3>1. rule.version \in Nat /\ facts \in Seq(Nat)
      BY DEF Typed
    <3>2. Append(facts, rule.version) \in Seq(Nat)
      BY <3>1, AppendProperties
    <3> QED
      BY <2>1, <3>1, <3>2
  <2> QED
    BY <1>0, <1>6, <2>2, UnchangedGrow DEF EditStage
<1>7. ASSUME NEW e \in BOOLEAN, UpdateRule(e)
      PROVE  Waits
  <2>1. rule' \in Rules
    <3>1. rule' = [rule EXCEPT !.enabled = e, !.version = @ + 1]
      BY <1>7 DEF UpdateRule
    <3>2. ASSUME NEW x \in Rules
          PROVE  [x EXCEPT !.enabled = e, !.version = @ + 1] \in Rules
      <4>1. \A y \in Rules, k \in Nat : [y EXCEPT !.version = k] \in Rules
        OBVIOUS
      <4>2. [x EXCEPT !.enabled = e] \in Rules /\ x.version + 1 \in Nat
        OBVIOUS
      <4>3. [[x EXCEPT !.enabled = e] EXCEPT !.version = x.version + 1] \in Rules
        BY <4>1, <4>2
      <4> QED
        BY <4>3
    <3>3. rule \in Rules
      BY DEF Typed
    <3> HIDE DEF Rules
    <3> QED
      BY <3>1, <3>2, <3>3
  <2> QED
    BY <1>0, <1>7, <2>1, UpdateGrows DEF UpdateRule
<1>8. ASSUME Scan
      PROVE  Waits
  BY <1>0, <1>8, ScanGrows DEF Scan
<1>9. ASSUME NEW i \in Ids, CancelMessage(i)
      PROVE  Waits
  BY <1>0, <1>9, StatusGrow DEF CancelMessage, Statuses
<1> HIDE DEF Waits
<1>10. Waits
  BY <1>1, <1>2, <1>3, <1>4, <1>5, <1>6, <1>7, <1>8, <1>9, Zenon DEF UserStep
<1> QED
  BY <1>10 DEF Waits

-----------------------------------------------------------------------------
(* What a worker does.                                                     *)

\* It leaves, and with it go the locks it has, or it goes on.
GoesOn(w) ==
    \/ /\ \E i \in Ids : /\ rows[i].status = "queued"
                         /\ \E s \in {"claimed", "second"} :
                              worker' = [worker EXCEPT ![w] = [row |-> i, at |-> s]]
       /\ At(w, "idle") /\ UNCHANGED <<sets, ruleLock, candidateLock>>
    \/ /\ At(w, "claimed") /\ ruleLock = Free /\ ruleLock' = w /\ Go(w, "second")
       /\ UNCHANGED <<rows, sets, candidateLock>>
    \/ /\ At(w, "second") /\ Go(w, "locked") /\ UNCHANGED <<rows, sets, ruleLock>>
       /\ \/ candidateLock = Free /\ candidateLock' = w
          \/ RowOf(w).kind = "job" /\ UNCHANGED candidateLock
    \/ /\ At(w, "locked") /\ RowOf(w).kind = "message" /\ Go(w, "resolved")
       /\ UNCHANGED <<rows, sets, ruleLock, candidateLock>>
    \/ /\ At(w, "resolved") /\ RowOf(w).kind = "message" /\ Go(w, "calling") /\ Valid(w)
       /\ UNCHANGED <<rows, sets, ruleLock, candidateLock>>

LEMMA WorkersAct ==
    ASSUME Typed, AtRows, NEW w \in Workers, WorkerStep(w)
    PROVE  /\ Leave(w) \/ GoesOn(w)
           /\ RowsGrow
           /\ sets' \in Seq(Set) /\ (sets' = sets \/ sets = <<>>)
           /\ UNCHANGED <<facts, rule>>
<1> DEFINE Acts == /\ Leave(w) \/ GoesOn(w)
                   /\ RowsGrow
                   /\ sets' \in Seq(Set) /\ (sets' = sets \/ sets = <<>>)
                   /\ UNCHANGED <<facts, rule>>
<1>0. sets \in Seq(Set) /\ {"queued", "sending", "skipped", "accepted"} \subseteq Statuses
  BY DEF Typed, Statuses
<1>1. ASSUME NEW i \in Ids, Claim(w, i)
      PROVE  Acts
  <2>1. RowsGrow
    BY <1>0, <1>1, StatusGrow DEF Claim
  <2>2. GoesOn(w)
    BY <1>1 DEF Claim, GoesOn
  <2> QED
    BY <1>0, <1>1, <2>1, <2>2 DEF Claim
<1>2. ASSUME TakeRuleLock(w)
      PROVE  Acts
  <2>1. GoesOn(w)
    BY <1>2 DEF TakeRuleLock, GoesOn, Reversed, RuleFirst, RuleUnlocked
  <2> QED
    BY <1>0, <1>2, <2>1, UnchangedGrow DEF TakeRuleLock
<1>3. ASSUME TakeCandidateLock(w)
      PROVE  Acts
  <2>1. GoesOn(w)
    BY <1>3 DEF TakeCandidateLock, GoesOn, Reversed, RuleFirst, CandidateUnlocked
  <2> QED
    BY <1>0, <1>3, <2>1, UnchangedGrow DEF TakeCandidateLock
<1>4. ASSUME PerformJob(w)
      PROVE  Acts
  BY <1>4, PerformGrows DEF PerformJob
<1>5. ASSUME PhaseA(w) \/ PhaseB0(w)
      PROVE  Acts
  <2>1. ~At(w, "idle")
    BY <1>5 DEF PhaseA, PhaseB0, Revalidate, At
  <2>2. \/ UNCHANGED rows /\ GoesOn(w)
        \/ rows' = Finish(w, "skipped") /\ Leave(w)
    BY <1>5 DEF PhaseA, PhaseB0, Revalidate, GoesOn
  <2>3. RowsGrow
    BY <1>0, <2>1, <2>2, UnchangedGrow, FinishGrow
  <2> QED
    BY <1>0, <1>5, <2>2, <2>3 DEF PhaseA, PhaseB0, Revalidate
<1>6. ASSUME PhaseC(w) \/ Crash(w)
      PROVE  Acts
  <2>1. ~At(w, "idle") /\ Leave(w)
    BY <1>6 DEF PhaseC, Crash, At
  <2>2. RowsGrow
    BY <1>0, <1>6, <2>1, FinishGrow DEF PhaseC, Crash
  <2> QED
    BY <1>0, <1>6, <2>1, <2>2 DEF PhaseC, Crash
<1> HIDE DEF Acts
<1>7. Acts
  BY <1>1, <1>2, <1>3, <1>4, <1>5, <1>6 DEF WorkerStep
<1> QED
  BY <1>7 DEF Acts

\* A worker changes nothing of the others, and takes a lock only when it is free.
LEMMA OnlyItself ==
    ASSUME Typed, AtRows, NEW w \in Workers, Leave(w) \/ GoesOn(w)
    PROVE  /\ worker' \in [Workers -> [row : Nat, at : Steps]]
           /\ ruleLock' \in Workers \cup {Free} /\ candidateLock' \in Workers \cup {Free}
           /\ \A q \in Workers \ {w} :
                /\ worker'[q] = worker[q]
                /\ ruleLock' = q <=> ruleLock = q
                /\ candidateLock' = q <=> candidateLock = q
<1> USE DEF Typed
<1>1. CASE Leave(w)
  BY <1>1, LockAssumption DEF Leave, Idle, Steps
<1>2. CASE GoesOn(w)
  <2>1. \A i \in Ids : i \in Nat
    BY RowsAre
  <2>2. /\ worker' \in [Workers -> [row : Nat, at : Steps]]
        /\ \A q \in Workers \ {w} : worker'[q] = worker[q]
    <3>1. \/ \E i \in Nat, s \in {"claimed", "second"} :
                worker' = [worker EXCEPT ![w] = [row |-> i, at |-> s]]
          \/ \E s \in {"second", "locked", "resolved", "calling"} :
                worker' = [worker EXCEPT ![w].at = s]
      BY <1>2, <2>1 DEF GoesOn, Go
    <3>2. {"claimed", "second", "locked", "resolved", "calling"} \subseteq Steps
      BY DEF Steps, Sending
    <3> DEFINE Work == [row : Nat, at : Steps]
    <3>3. ASSUME NEW v \in Work, worker' = [worker EXCEPT ![w] = v]
          PROVE  /\ worker' \in [Workers -> Work]
                 /\ \A q \in Workers \ {w} : worker'[q] = worker[q]
      BY <3>3
    <3>4. \A i \in Nat, s \in {"claimed", "second"} : [row |-> i, at |-> s] \in Work
      BY <3>2
    <3>5. \A s \in {"second", "locked", "resolved", "calling"} : [worker[w] EXCEPT !.at = s] \in Work
      BY <3>2
    <3>6. \A s : [worker EXCEPT ![w].at = s] = [worker EXCEPT ![w] = [worker[w] EXCEPT !.at = s]]
      OBVIOUS
    <3> HIDE DEF Work
    <3>7. \E v \in Work : worker' = [worker EXCEPT ![w] = v]
      BY <3>1, <3>4, <3>5, <3>6
    <3> QED
      BY <3>3, <3>7 DEF Work
  <2>3. /\ ruleLock' = ruleLock \/ (ruleLock = Free /\ ruleLock' = w)
        /\ candidateLock' = candidateLock \/ (candidateLock = Free /\ candidateLock' = w)
    BY <1>2 DEF GoesOn
  <2> QED
    BY <2>2, <2>3, LockAssumption
<1> QED
  BY <1>1, <1>2

\* Where a worker that acts is afterwards, and with which locks.
Placed(w) ==
    \/ /\ worker'[w].at = "idle" /\ ruleLock' # w /\ candidateLock' # w
    \/ /\ worker'[w].row \in Ids /\ worker'[w].at \in {"claimed", "second"} /\ At(w, "idle")
       /\ UNCHANGED <<ruleLock, candidateLock>>
    \/ /\ worker'[w].row = worker[w].row /\ ~At(w, "idle")
       /\ \/ /\ At(w, "claimed") /\ worker'[w].at = "second" /\ UNCHANGED candidateLock
          \/ /\ At(w, "second") /\ worker'[w].at = "locked" /\ UNCHANGED ruleLock
             /\ candidateLock' = w \/ RowOf(w).kind = "job"
          \/ /\ worker[w].at \in {"locked", "resolved"} /\ RowOf(w).kind = "message"
             /\ worker'[w].at \in {"resolved", "calling"} /\ UNCHANGED <<ruleLock, candidateLock>>
             /\ worker'[w].at = "calling" =>
                  At(w, "resolved") /\ Valid(w) /\ UNCHANGED <<rows, sets>>

LEMMA WorkersPlaced ==
    ASSUME Typed, NEW w \in Workers, Leave(w) \/ GoesOn(w)
    PROVE  Placed(w)
<1> USE DEF Typed, At
<1>1. CASE Leave(w)
  BY <1>1, LockAssumption DEF Leave, Idle, Placed
<1>2. CASE GoesOn(w)
  <2>1. CASE \E i \in Ids, s \in {"claimed", "second"} :
                /\ worker' = [worker EXCEPT ![w] = [row |-> i, at |-> s]]
                /\ At(w, "idle") /\ UNCHANGED <<sets, ruleLock, candidateLock>>
    BY <2>1 DEF Placed
  <2>2. \A s : Go(w, s) => worker'[w].at = s /\ worker'[w].row = worker[w].row
    BY DEF Go
  <2>3. CASE /\ At(w, "claimed") /\ ruleLock = Free /\ ruleLock' = w /\ Go(w, "second")
             /\ UNCHANGED <<rows, sets, candidateLock>>
    BY <2>2, <2>3 DEF Placed
  <2>4. CASE /\ At(w, "second") /\ Go(w, "locked") /\ UNCHANGED <<rows, sets, ruleLock>>
             /\ \/ candidateLock = Free /\ candidateLock' = w
                \/ RowOf(w).kind = "job" /\ UNCHANGED candidateLock
    BY <2>2, <2>4 DEF Placed
  <2>5. CASE /\ At(w, "locked") /\ RowOf(w).kind = "message" /\ Go(w, "resolved")
             /\ UNCHANGED <<rows, sets, ruleLock, candidateLock>>
    BY <2>2, <2>5 DEF Placed
  <2>6. CASE /\ At(w, "resolved") /\ RowOf(w).kind = "message" /\ Go(w, "calling") /\ Valid(w)
             /\ UNCHANGED <<rows, sets, ruleLock, candidateLock>>
    BY <2>2, <2>6 DEF Placed
  <2> HIDE DEF At
  <2> QED
    BY <1>2, <2>1, <2>3, <2>4, <2>5, <2>6, Zenon DEF GoesOn
<1> QED
  BY <1>1, <1>2

-----------------------------------------------------------------------------
(* Locks.                                                                  *)

Locked == Typed /\ AtRows /\ LocksInOrder /\ SentUnderLock /\ MessagesHaveSets

LEMMA RowsKeepKinds ==
    ASSUME RowsGrow
    PROVE  \A i \in Ids : /\ i \in Ids' /\ rows'[i].kind = rows[i].kind
                          /\ rows'[i].set = rows[i].set /\ rows'[i].items = rows[i].items
BY DEF RowsGrow, Tells

LEMMA LocksByUsers ==
    ASSUME Locked, UserStep
    PROVE  Locked'
<1>1. /\ RowsGrow /\ sets' \in Seq(Set) /\ facts' \in Seq(Nat)
      /\ rule' \in [trigger : Triggers, action : Actions, enabled : BOOLEAN, version : Nat]
      /\ UNCHANGED <<worker, ruleLock, candidateLock>>
  BY UsersWait DEF Locked
<1>2. Typed'
  BY <1>1 DEF Locked, Typed, RowsGrow
<1>3. AtRows'
  BY <1>1, RowsKeepKinds DEF Locked, AtRows, At, RowOf
<1>4. LocksInOrder'
  BY <1>1 DEF Locked, LocksInOrder
<1>5. SentUnderLock'
  <2>1. \A w \in Workers : worker[w].at \in Sending => worker[w].row \in Ids
    BY DEF Locked, AtRows, At, Sending
  <2> QED
    BY <1>1, <2>1, RowsKeepKinds DEF Locked, SentUnderLock, RowOf
<1>6. MessagesHaveSets'
  BY <1>1 DEF Locked, MessagesHaveSets, RowsGrow, Tells
<1> QED
  BY <1>2, <1>3, <1>4, <1>5, <1>6 DEF Locked

LEMMA LocksByWorkers ==
    ASSUME Locked, NEW w \in Workers, WorkerStep(w)
    PROVE  Locked'
<1>1. /\ Leave(w) \/ GoesOn(w)
      /\ RowsGrow /\ sets' \in Seq(Set) /\ UNCHANGED <<facts, rule>>
  BY WorkersAct DEF Locked
<1>2. /\ worker' \in [Workers -> [row : Nat, at : Steps]]
      /\ ruleLock' \in Workers \cup {Free} /\ candidateLock' \in Workers \cup {Free}
      /\ \A q \in Workers \ {w} : /\ worker'[q] = worker[q]
                                  /\ ruleLock' = q <=> ruleLock = q
                                  /\ candidateLock' = q <=> candidateLock = q
  BY <1>1, OnlyItself DEF Locked
<1>3. Placed(w)
  BY <1>1, WorkersPlaced DEF Locked
<1>4. Typed'
  BY <1>1, <1>2 DEF Locked, Typed, RowsGrow
<1>5. ASSUME NEW q \in Workers, worker[q].at # "idle"
      PROVE  worker[q].row \in Ids /\ (worker[q].at \in {"resolved", "calling"} => RowOf(q).kind = "message")
  BY <1>5 DEF Locked, AtRows, At
<1>6. AtRows'
  <2>1. ASSUME NEW q \in Workers, worker'[q].at # "idle"
        PROVE  /\ worker'[q].row \in Ids'
               /\ worker'[q].at \in {"resolved", "calling"} => rows'[worker'[q].row].kind = "message"
    <3>1. CASE q # w
      BY <1>1, <1>2, <1>5, <2>1, <3>1, RowsKeepKinds DEF RowOf
    <3>2. CASE q = w
      BY <1>1, <1>3, <1>5, <2>1, <3>2, RowsKeepKinds DEF Placed, At, RowOf
    <3> QED
      BY <3>1, <3>2
  <2> QED
    BY <2>1 DEF AtRows, At, RowOf
<1>7. LocksInOrder'
  <2>1. ASSUME NEW q \in Workers
        PROVE  /\ candidateLock' = q => worker'[q].at \in Sending
               /\ ruleLock' = q => worker'[q].at \in Sending \cup {"second"}
    <3>1. CASE q # w
      BY <1>2, <3>1 DEF Locked, LocksInOrder
    <3>2. CASE q = w
      BY <1>3, <3>2 DEF Locked, LocksInOrder, Placed, At, Sending
    <3> QED
      BY <3>1, <3>2
  <2> QED
    BY <2>1 DEF LocksInOrder
<1>8. SentUnderLock'
  <2>1. ASSUME NEW q \in Workers, worker'[q].at \in Sending, rows'[worker'[q].row].kind = "message"
        PROVE  candidateLock' = q
    <3>1. CASE q # w
      <4>1. worker[q].at \in Sending /\ RowOf(q).kind = "message"
        BY <1>1, <1>2, <1>5, <2>1, <3>1, RowsKeepKinds DEF RowOf, Sending
      <4> QED
        BY <1>2, <3>1, <4>1 DEF Locked, SentUnderLock
    <3>2. CASE q = w
      <4>1. /\ worker'[w].row = worker[w].row /\ worker[w].at # "idle"
            /\ \/ candidateLock' = w \/ RowOf(w).kind = "job"
               \/ worker[w].at \in Sending /\ UNCHANGED candidateLock
        BY <1>3, <2>1, <3>2 DEF Placed, At, Sending
      <4>2. RowOf(w).kind = "message"
        BY <1>1, <1>5, <2>1, <3>2, <4>1, RowsKeepKinds DEF RowOf
      <4> QED
        BY <3>2, <4>1, <4>2 DEF Locked, SentUnderLock
    <3> QED
      BY <3>1, <3>2
  <2> QED
    BY <2>1 DEF SentUnderLock, RowOf
<1>9. MessagesHaveSets'
  BY <1>1 DEF Locked, MessagesHaveSets, RowsGrow, Tells
<1> QED
  BY <1>4, <1>6, <1>7, <1>8, <1>9 DEF Locked

LEMMA LocksInductive == Locked /\ [Next]_vars => Locked'
<1>1. Locked /\ UNCHANGED vars => Locked'
  BY DEF Locked, Typed, AtRows, LocksInOrder, SentUnderLock, MessagesHaveSets, At, RowOf, Ids
<1> QED
  BY <1>1, LocksByUsers, LocksByWorkers, NextSplit

LEMMA LocksAtFirst == Init => Locked
<1> SUFFICES ASSUME Init PROVE Locked
  OBVIOUS
<1>1. rule \in [trigger : Triggers, action : Actions, enabled : BOOLEAN, version : Nat]
  BY DEF Init
<1>2. Idle \in [row : Nat, at : Steps] /\ Ids = {}
  BY DEF Init, Idle, Steps, Ids
<1>3. Typed
  BY <1>1, <1>2 DEF Init, Typed
<1> QED
  BY <1>2, <1>3, LockAssumption DEF Init, Locked, AtRows, LocksInOrder, SentUnderLock, MessagesHaveSets,
                    At, Idle, Sending

\* The types, and that a worker checks and sends a message only under the lock of
\* its candidate, for every value of the constants (worker.py, process_external_row).
THEOREM SendsAreLocked == Spec => [](Typed /\ SentUnderLock)
<1>1. Locked => Typed /\ SentUnderLock
  BY DEF Locked
<1> QED
  BY LocksAtFirst, LocksInductive, <1>1, PTL DEF Spec

\* Two workers never wait for each other's lock: who has the candidate's is past
\* the rule's (worker.py, _acquire_send_locks; document_rules.py, perform_job).
THEOREM LocksNeverCycle == Spec => []NoLockCycle
<1>1. Locked => NoLockCycle
  BY DEF Locked, LocksInOrder, NoLockCycle, At, Sending
<1> QED
  BY LocksAtFirst, LocksInductive, <1>1, PTL DEF Spec

-----------------------------------------------------------------------------
(* What a message asks for.                                                *)

LEMMA AskedInductive ==
    ASSUME Locked, OnlyMissingIsAskedFor, [Next]_vars
    PROVE  OnlyMissingIsAskedFor'
<1>1. sets' = sets => Missing' = Missing
  BY DEF Missing, Current, Last
<1>2. ASSUME NEW q \in Workers, At(q, "calling")
      PROVE  /\ worker[q].row \in Ids /\ candidateLock = q /\ sets # <<>>
             /\ Len(sets) = RowOf(q).set /\ RowOf(q).items \subseteq Missing
  <2>1. worker[q].row \in Ids /\ RowOf(q).kind = "message"
    BY <1>2 DEF Locked, AtRows, At
  <2>2. candidateLock = q
    BY <1>2, <2>1 DEF Locked, SentUnderLock, At, Sending
  <2>3. RowOf(q).set # 0 /\ Len(sets) = RowOf(q).set /\ RowOf(q).items \subseteq Missing
    BY <1>2, <2>1 DEF Locked, MessagesHaveSets, RowOf, OnlyMissingIsAskedFor
  <2>4. sets # <<>>
    BY <2>3
  <2> QED
    BY <2>1, <2>2, <2>3, <2>4
<1>3. ASSUME NEW q \in Workers, At(q, "calling"), worker'[q] = worker[q], RowsGrow, sets' = sets
      PROVE  Len(sets') = RowOf(q)'.set /\ RowOf(q)'.items \subseteq Missing'
  BY <1>1, <1>2, <1>3, RowsKeepKinds DEF RowOf
<1>4. ASSUME UserStep
      PROVE  OnlyMissingIsAskedFor'
  <2>1. RowsGrow /\ (sets' = sets \/ candidateLock = Free) /\ UNCHANGED worker
    BY <1>4, UsersWait DEF Locked
  <2> QED
    BY <1>2, <1>3, <2>1, LockAssumption DEF OnlyMissingIsAskedFor, At
<1>5. ASSUME NEW w \in Workers, WorkerStep(w)
      PROVE  OnlyMissingIsAskedFor'
  <2>1. RowsGrow /\ (sets' = sets \/ sets = <<>>) /\ (Leave(w) \/ GoesOn(w))
    BY <1>5, WorkersAct DEF Locked
  <2>2. \A q \in Workers \ {w} : worker'[q] = worker[q]
    BY <2>1, OnlyItself DEF Locked
  <2>3. Placed(w)
    BY <2>1, WorkersPlaced DEF Locked
  <2>4. ASSUME NEW q \in Workers \ {w}, At(q, "calling")'
        PROVE  Len(sets') = RowOf(q)'.set /\ RowOf(q)'.items \subseteq Missing'
    BY <1>2, <1>3, <2>1, <2>2, <2>4 DEF At
  <2>5. ASSUME At(w, "calling")'
        PROVE  Len(sets') = RowOf(w)'.set /\ RowOf(w)'.items \subseteq Missing'
    <3>1. Valid(w) /\ UNCHANGED <<rows, sets>> /\ worker'[w].row = worker[w].row
      BY <2>3, <2>5 DEF Placed, At
    <3> QED
      BY <1>1, <3>1 DEF Valid, RowOf
  <2> QED
    BY <2>4, <2>5 DEF OnlyMissingIsAskedFor
<1>6. CASE UNCHANGED vars
  BY <1>1, <1>6 DEF OnlyMissingIsAskedFor, At, RowOf
<1> QED
  BY <1>4, <1>5, <1>6, NextSplit

\* While a message is handed over, what it asks for is what the candidate's current
\* list misses: no receipt, new list or job of a rule overtakes it, though a job
\* without access never takes the candidate's lock (document_messages.py,
\* revalidate_documents).
THEOREM OnlyMissingAsked == Spec => []OnlyMissingIsAskedFor
<1>1. Init => OnlyMissingIsAskedFor
  BY DEF Init, OnlyMissingIsAskedFor, At, Idle
<1>2. Locked /\ OnlyMissingIsAskedFor /\ [Next]_vars => OnlyMissingIsAskedFor'
  BY AskedInductive
<1> QED
  BY LocksAtFirst, LocksInductive, <1>1, <1>2, PTL DEF Spec

-----------------------------------------------------------------------------
(* Templates and the documents made of them.                               *)

Managers   == Workers \cup {"manager"}
TemplateOf == [name : Names \cup {BuiltIn}, builtIn : BOOLEAN, revision : Nat,
               versions : Seq({"draft", "active", "archived"})]
Document   == [candidate : Applicants, key : RequestKeys, template : Nat, version : Nat,
               revision : Nat]
Asking     == [candidate : Applicants, key : RequestKeys, template : Nat, version : Nat,
               at : {"asked", "rendered", "answered"}, revision : Nat, document : Nat]

OneActive(versions) ==
    \A i, j \in DOMAIN versions : versions[i] = "active" /\ versions[j] = "active" => i = j

\* What a manager looks at is a template as it was at its revision.
SeenIsOld ==
    \A m \in Managers : seen[m] # Nothing =>
        /\ seen[m].id \in DOMAIN templates
        /\ seen[m].template.revision \in Nat
        /\ seen[m].template.revision <= templates[seen[m].id].revision
        /\ seen[m].template.revision = templates[seen[m].id].revision =>
              seen[m] = [id |-> seen[m].id, template |-> templates[seen[m].id]]

TemplatesKept ==
    /\ templates \in Seq(TemplateOf)
    /\ seen = [m \in Managers |-> seen[m]] /\ asked = [m \in Managers |-> asked[m]]
    /\ \A m \in Managers : asked[m] # Nothing => asked[m] \in Names
    /\ \A t \in DOMAIN templates : OneActive(templates[t].versions)
    /\ \A t, u \in DOMAIN templates : templates[t].builtIn /\ templates[u].builtIn => t = u
    /\ SeenIsOld

OfCandidate(docs, candidate, n) == {e \in 1..n : docs[e].candidate = candidate}

\* Whoever renders a document holds the candidate, and the number it drew is the next.
Rendering ==
    \A c \in Workers : request[c] # Nothing /\ request[c].at = "rendered" =>
        /\ lock[request[c].candidate] = c
        /\ request[c].revision = Cardinality(OfCandidate(documents, request[c].candidate, Len(documents))) + 1

DocumentsKept ==
    /\ documents \in Seq(Document)
    /\ request = [c \in Workers |-> request[c]]
    /\ \A c \in Workers : request[c] # Nothing => request[c] \in Asking
    /\ lock \in [Applicants -> Workers \cup {Free}]
    /\ \A d, e \in DOMAIN documents : documents[d].key = documents[e].key => d = e
    /\ \A d \in DOMAIN documents :
          documents[d].revision = Cardinality(OfCandidate(documents, documents[d].candidate, d))
    /\ Rendering

LEMMA SameCount == \A S : Templates!Cardinality(S) = Cardinality(S)
  BY DEF Templates!Cardinality, Cardinality

LEMMA AtMostOne ==
    ASSUME NEW S, \A x, y \in S : x = y
    PROVE  Cardinality(S) <= 1
<1>1. CASE S = {}
  BY <1>1, FS_EmptySet
<1>2. CASE S # {}
  <2>1. PICK x \in S : TRUE
    BY <1>2
  <2>2. S = {x}
    BY <2>1
  <2> QED
    BY <2>2, FS_Singleton
<1> QED
  BY <1>1, <1>2

LEMMA TemplatesAre ==
    ASSUME TemplatesKept
    PROVE  \A t \in DOMAIN templates :
             /\ templates[t] \in TemplateOf
             /\ templates[t].revision \in Nat /\ templates[t].builtIn \in BOOLEAN
             /\ templates[t].versions \in Seq({"draft", "active", "archived"})
             /\ OneActive(templates[t].versions)
<1> SUFFICES ASSUME NEW t \in DOMAIN templates
             PROVE  /\ templates[t] \in TemplateOf
                    /\ templates[t].revision \in Nat /\ templates[t].builtIn \in BOOLEAN
                    /\ templates[t].versions \in Seq({"draft", "active", "archived"})
                    /\ OneActive(templates[t].versions)
  OBVIOUS
<1>1. templates[t] \in TemplateOf /\ OneActive(templates[t].versions)
  BY DEF TemplatesKept
<1> QED
  BY <1>1 DEF TemplateOf

-----------------------------------------------------------------------------
(* Managers and starts.                                                    *)

\* A template that comes in addition: one active version at most, and built in only
\* if none is.
LEMMA AdditionKeeps ==
    ASSUME TemplatesKept, NEW template \in TemplateOf, OneActive(template.versions),
           template.builtIn => ~Templates!Provisioned,
           templates' = Append(templates, template), seen' = seen,
           asked' = asked \/ \E m \in Managers : asked' = [asked EXCEPT ![m] = Nothing]
    PROVE  TemplatesKept' /\ Templates!Informed
<1>1. /\ templates' \in Seq(TemplateOf)
      /\ DOMAIN templates' = 1..Len(templates) + 1 /\ DOMAIN templates = 1..Len(templates)
      /\ Len(templates) \in Nat
      /\ \A t \in DOMAIN templates : templates'[t] = templates[t]
      /\ templates'[Len(templates) + 1] = template
  BY DEF TemplatesKept
<1>2. \A t \in DOMAIN templates' : t \in DOMAIN templates \/ t = Len(templates) + 1
  BY <1>1
<1>3. \A t \in DOMAIN templates' : OneActive(templates'[t].versions)
  BY <1>1, <1>2 DEF TemplatesKept
<1>4. \A t, u \in DOMAIN templates' : templates'[t].builtIn /\ templates'[u].builtIn => t = u
  <2>1. template.builtIn => \A t \in DOMAIN templates : ~templates[t].builtIn
    BY DEF Templates!Provisioned, Templates!Ids
  <2> QED
    BY <1>1, <1>2, <2>1 DEF TemplatesKept
<1>5. SeenIsOld'
  BY <1>1 DEF TemplatesKept, SeenIsOld
<1>6. /\ asked' = [m \in Managers |-> asked'[m]]
      /\ \A m \in Managers : asked'[m] # Nothing => asked'[m] \in Names
  BY DEF TemplatesKept
<1>7. Templates!Informed
  BY <1>1 DEF Templates!Informed, Templates!Ids
<1> QED
  BY <1>1, <1>3, <1>4, <1>5, <1>6, <1>7 DEF TemplatesKept

\* An edit of what its author looks at: the revision counts, the others are as they were.
LEMMA EditKeeps ==
    ASSUME TemplatesKept, NEW m \in Managers, seen[m] # Nothing, NEW template \in TemplateOf,
           template.revision = templates[seen[m].id].revision,
           template.builtIn = templates[seen[m].id].builtIn,
           OneActive(template.versions), Templates!Write(m, template)
    PROVE  TemplatesKept' /\ Templates!Informed
<1> DEFINE id == seen[m].id
           edited == [template EXCEPT !.revision = @ + 1]
<1>1. /\ id \in DOMAIN templates /\ templates' = [templates EXCEPT ![id] = edited]
      /\ UNCHANGED <<seen, asked>>
      /\ templates[id].revision = seen[m].template.revision
  BY DEF Templates!Write, Templates!Parent, TemplatesKept, SeenIsOld
<1>2. /\ edited \in TemplateOf /\ edited.versions = template.versions
      /\ edited.builtIn = templates[id].builtIn
      /\ edited.revision = templates[id].revision + 1
  BY DEF TemplateOf
<1> HIDE DEF edited
<1>3. /\ templates' \in Seq(TemplateOf) /\ DOMAIN templates' = DOMAIN templates
      /\ templates'[id] = edited
      /\ \A t \in DOMAIN templates \ {id} : templates'[t] = templates[t]
  BY <1>1, <1>2 DEF TemplatesKept
<1>4. \A t \in DOMAIN templates : templates[t] \in TemplateOf /\ templates[t].revision \in Nat
  BY TemplatesAre
<1>5. \A t \in DOMAIN templates' : OneActive(templates'[t].versions)
  BY <1>2, <1>3 DEF TemplatesKept
<1>6. \A t, u \in DOMAIN templates' : templates'[t].builtIn /\ templates'[u].builtIn => t = u
  <2>1. \A t \in DOMAIN templates' : templates'[t].builtIn = templates[t].builtIn
    BY <1>2, <1>3
  <2> QED
    BY <1>3, <2>1 DEF TemplatesKept
<1>7. SeenIsOld'
  <2> SUFFICES ASSUME NEW q \in Managers, seen[q] # Nothing
               PROVE  /\ seen[q].id \in DOMAIN templates'
                      /\ seen[q].template.revision \in Nat
                      /\ seen[q].template.revision <= templates'[seen[q].id].revision
                      /\ seen[q].template.revision = templates'[seen[q].id].revision =>
                            seen[q] = [id |-> seen[q].id, template |-> templates'[seen[q].id]]
    BY <1>1 DEF SeenIsOld
  <2>1. /\ seen[q].id \in DOMAIN templates /\ seen[q].template.revision \in Nat
        /\ seen[q].template.revision <= templates[seen[q].id].revision
        /\ seen[q].template.revision = templates[seen[q].id].revision =>
              seen[q] = [id |-> seen[q].id, template |-> templates[seen[q].id]]
    BY DEF TemplatesKept, SeenIsOld
  <2>2. CASE seen[q].id = id
    BY <1>1, <1>2, <1>3, <1>4, <2>1, <2>2
  <2>3. CASE seen[q].id # id
    BY <1>3, <2>1, <2>3
  <2> QED
    BY <2>2, <2>3
<1>8. Templates!Informed
  <2> SUFFICES ASSUME NEW t \in DOMAIN templates, templates'[t] # templates[t]
               PROVE  /\ \E q \in Managers : seen[q] = [id |-> t, template |-> templates[t]]
                      /\ Cardinality(Templates!Active(templates'[t].versions)) <= 1
    BY SameCount DEF Templates!Informed, Templates!Ids, Managers
  <2>1. t = id
    BY <1>3
  <2>2. seen[m] = [id |-> t, template |-> templates[t]]
    BY <1>1, <2>1 DEF TemplatesKept, SeenIsOld
  <2>3. \A i, j \in Templates!Active(templates'[t].versions) : i = j
    BY <1>3, <1>5 DEF OneActive, Templates!Active
  <2> QED
    BY <2>2, <2>3, AtMostOne
<1> QED
  BY <1>1, <1>3, <1>5, <1>6, <1>7, <1>8 DEF TemplatesKept

LEMMA ManagersKeep ==
    ASSUME TemplatesKept, NEW m \in Managers,
           \/ \E t \in Templates!Ids : Templates!Look(m, t)
           \/ \E name \in Names : \/ Templates!Create(m, name) \/ Templates!Ask(m, name)
                                  \/ Templates!Rename(m, name)
           \/ Templates!Import(m) \/ Templates!AddVersion(m) \/ Templates!ImportVersion(m)
           \/ \E n \in Nat : Templates!Activate(m, n) \/ Templates!Archive(m, n)
    PROVE  TemplatesKept' /\ Templates!Informed
<1> DEFINE id == seen[m].id
           t0 == templates[id]
           versions == Seq({"draft", "active", "archived"})
<1>1. seen[m] # Nothing => /\ t0 \in TemplateOf /\ OneActive(t0.versions)
                           /\ t0.versions \in versions
  BY TemplatesAre DEF TemplatesKept, SeenIsOld
<1>2. ASSUME NEW t \in Templates!Ids, Templates!Look(m, t)
      PROVE  TemplatesKept' /\ Templates!Informed
  <2>1. /\ seen' = [seen EXCEPT ![m] = [id |-> t, template |-> templates[t]]]
        /\ UNCHANGED <<templates, asked>>
    BY <1>2 DEF Templates!Look
  <2>2. t \in DOMAIN templates /\ templates[t].revision \in Nat
    BY TemplatesAre DEF Templates!Ids
  <2>3. seen' = [q \in Managers |-> seen'[q]]
    BY <2>1 DEF TemplatesKept
  <2>4. SeenIsOld'
    BY <2>1, <2>2 DEF TemplatesKept, SeenIsOld
  <2>5. Templates!Informed
    BY <2>1 DEF Templates!Informed
  <2> QED
    BY <2>1, <2>3, <2>4, <2>5 DEF TemplatesKept
<1>3. ASSUME NEW name \in Names, Templates!Create(m, name) \/ (Templates!Import(m) /\ asked[m] = name)
      PROVE  TemplatesKept' /\ Templates!Informed
  <2> DEFINE new == Templates!Template(name, "draft", FALSE)
  <2>1. /\ templates' = Append(templates, new) /\ seen' = seen
        /\ asked' = asked \/ asked' = [asked EXCEPT ![m] = Nothing]
    BY <1>3 DEF Templates!Create, Templates!Import
  <2>2. new \in TemplateOf /\ OneActive(new.versions) /\ ~new.builtIn
    BY DEF TemplateOf, OneActive, Templates!Template
  <2> QED
    BY <2>1, <2>2, AdditionKeeps
<1>4. CASE Templates!Import(m)
  <2>1. asked[m] \in Names
    BY <1>4 DEF Templates!Import, TemplatesKept
  <2> QED
    BY <1>3, <1>4, <2>1
<1>5. ASSUME NEW name \in Names, Templates!Ask(m, name)
      PROVE  TemplatesKept' /\ Templates!Informed
  <2>1. asked' = [asked EXCEPT ![m] = name] /\ UNCHANGED <<templates, seen>>
    BY <1>5 DEF Templates!Ask
  <2>2. SeenIsOld' /\ Templates!Informed
    BY <2>1 DEF TemplatesKept, SeenIsOld, Templates!Informed
  <2> QED
    BY <2>1, <2>2 DEF TemplatesKept
<1>6. ASSUME NEW name \in Names, Templates!Rename(m, name)
      PROVE  TemplatesKept' /\ Templates!Informed
  <2> DEFINE new == [t0 EXCEPT !.name = name]
  <2>1. seen[m] # Nothing /\ Templates!Write(m, new)
    BY <1>6 DEF Templates!Rename
  <2>2. /\ new \in TemplateOf /\ new.versions = t0.versions
        /\ new.builtIn = t0.builtIn /\ new.revision = t0.revision
    BY <1>1, <2>1 DEF TemplateOf
  <2> HIDE DEF new
  <2> QED
    BY <1>1, <2>1, <2>2, EditKeeps
<1>7. CASE Templates!AddVersion(m) \/ Templates!ImportVersion(m)
  <2> DEFINE more == Append(t0.versions, "draft")
             new == [t0 EXCEPT !.versions = more]
  <2>1. seen[m] # Nothing /\ Templates!Write(m, new)
    BY <1>7 DEF Templates!AddVersion, Templates!ImportVersion
  <2>2. more \in versions /\ OneActive(more)
    BY <1>1, <2>1 DEF OneActive
  <2> HIDE DEF more
  <2>3. /\ new \in TemplateOf /\ new.versions = more
        /\ new.builtIn = t0.builtIn /\ new.revision = t0.revision
    BY <1>1, <2>1, <2>2 DEF TemplateOf
  <2> HIDE DEF new
  <2> QED
    BY <2>1, <2>2, <2>3, EditKeeps
<1>8. ASSUME NEW n \in Nat, Templates!Activate(m, n)
      PROVE  TemplatesKept' /\ Templates!Informed
  <2> DEFINE published == [k \in DOMAIN t0.versions |->
                 IF k = n THEN "active" ELSE IF t0.versions[k] = "active" THEN "archived"
                 ELSE t0.versions[k]]
             new == [t0 EXCEPT !.versions = published]
  <2>1. seen[m] # Nothing /\ Templates!Write(m, new)
    BY <1>8 DEF Templates!Activate
  <2>2. published \in versions
    BY <1>1, <2>1
  <2>3. OneActive(published)
    BY DEF OneActive
  <2> HIDE DEF published
  <2>4. /\ new \in TemplateOf /\ new.versions = published
        /\ new.builtIn = t0.builtIn /\ new.revision = t0.revision
    BY <1>1, <2>1, <2>2 DEF TemplateOf
  <2> HIDE DEF new
  <2> QED
    BY <2>1, <2>3, <2>4, EditKeeps
<1>9. ASSUME NEW n \in Nat, Templates!Archive(m, n)
      PROVE  TemplatesKept' /\ Templates!Informed
  <2> DEFINE archived == [t0.versions EXCEPT ![n] = "archived"]
             new == [t0 EXCEPT !.versions[n] = "archived"]
  <2>1. seen[m] # Nothing /\ Templates!Write(m, new) /\ n \in DOMAIN t0.versions
    BY <1>9 DEF Templates!Archive
  <2>2. archived \in versions
    BY <1>1, <2>1
  <2>3. OneActive(archived)
    BY <1>1, <2>1 DEF OneActive
  <2>4. new = [t0 EXCEPT !.versions = archived]
    BY <1>1, <2>1 DEF TemplateOf
  <2> HIDE DEF archived, new
  <2>5. /\ new \in TemplateOf /\ new.versions = archived
        /\ new.builtIn = t0.builtIn /\ new.revision = t0.revision
    BY <1>1, <2>1, <2>2, <2>4 DEF TemplateOf
  <2> QED
    BY <2>1, <2>3, <2>5, EditKeeps
<1> QED
  BY <1>2, <1>3, <1>4, <1>5, <1>6, <1>7, <1>8, <1>9

\* seed_library provisions what is missing, once, however many processes start.
LEMMA StartsKeep ==
    ASSUME TemplatesKept, NEW p \in Workers,
           Templates!Start(p) \/ Templates!Seed(p) \/ Templates!Stop(p)
    PROVE  TemplatesKept' /\ Templates!Informed
<1> DEFINE new == Templates!Template(BuiltIn, "active", TRUE)
<1>1. seen' = seen /\ asked' = asked
  BY DEF Templates!Start, Templates!Seed, Templates!Stop
<1>2. CASE templates' = templates
  BY <1>1, <1>2 DEF TemplatesKept, SeenIsOld, Templates!Informed
<1>3. CASE templates' # templates
  <2>1. templates' = Append(templates, new) /\ ~Templates!Provisioned
    BY <1>3 DEF Templates!Start, Templates!Seed, Templates!Stop, Templates!SeedIndex
  <2>2. new \in TemplateOf /\ OneActive(new.versions)
    BY DEF TemplateOf, OneActive, Templates!Template
  <2> QED
    BY <1>1, <2>1, <2>2, AdditionKeeps
<1> QED
  BY <1>2, <1>3

-----------------------------------------------------------------------------
(* Requests for documents.                                                 *)

LEMMA DocumentsAre ==
    ASSUME DocumentsKept
    PROVE  /\ Len(documents) \in Nat /\ DOMAIN documents = 1..Len(documents)
           /\ \A d \in DOMAIN documents : documents[d] \in Document
           /\ \A candidate : Templates!Cardinality({d \in DOMAIN documents :
                                  documents[d].candidate = candidate})
                    = Cardinality(OfCandidate(documents, candidate, Len(documents)))
<1>1. Len(documents) \in Nat /\ DOMAIN documents = 1..Len(documents)
      /\ \A d \in DOMAIN documents : documents[d] \in Document
  BY DEF DocumentsKept
<1> QED
  BY <1>1, SameCount DEF OfCandidate

LEMMA CountsAreNat ==
    ASSUME NEW docs, NEW candidate, NEW n \in Nat
    PROVE  /\ IsFiniteSet(OfCandidate(docs, candidate, n))
           /\ Cardinality(OfCandidate(docs, candidate, n)) \in Nat
<1>1. OfCandidate(docs, candidate, n) \subseteq 1..n
  BY DEF OfCandidate
<1>2. IsFiniteSet(1..n)
  BY FS_Interval
<1> QED
  BY <1>1, <1>2, FS_Subset, FS_CardinalityType

\* One request moves on and gives its locks back or takes one that is free; the
\* documents, and what the others render, stay.
LEMMA OthersRender ==
    ASSUME DocumentsKept, NEW c \in Workers, documents' = documents,
           request' = [q \in Workers |-> request'[q]],
           \A q \in Workers \ {c} : request'[q] = request[q],
           request'[c] # Nothing => request'[c] \in Asking /\ request'[c].at # "rendered",
           lock' = lock \/ Templates!Release(c)
    PROVE  DocumentsKept'
<1>1. lock' \in [Applicants -> Workers \cup {Free}]
  BY DEF DocumentsKept, Templates!Release
<1>2. \A q \in Workers \ {c}, k \in Applicants : lock[k] = q => lock'[k] = q
  BY DEF DocumentsKept, Templates!Release
<1>3. \A q \in Workers : request'[q] # Nothing => request'[q] \in Asking
  BY DEF DocumentsKept
<1>5. Rendering'
  <2> SUFFICES ASSUME NEW q \in Workers, request'[q] # Nothing, request'[q].at = "rendered"
               PROVE  /\ lock'[request'[q].candidate] = q
                      /\ request'[q].revision
                         = Cardinality(OfCandidate(documents, request'[q].candidate, Len(documents))) + 1
    BY DEF Rendering
  <2>1. q # c /\ request'[q] = request[q]
    OBVIOUS
  <2>2. request[q].candidate \in Applicants
    BY <2>1 DEF DocumentsKept, Asking
  <2> QED
    BY <1>2, <2>1, <2>2 DEF DocumentsKept, Rendering
<1> QED
  BY <1>1, <1>3, <1>5 DEF DocumentsKept

\* Request, Forget and the answers to Generate and Insert.
LEMMA AnswersKeep ==
    ASSUME DocumentsKept, TemplatesKept, NEW c \in Workers, documents' = documents,
           \/ \E candidate \in Applicants, key \in RequestKeys, t \in Templates!Ids :
                \E n \in DOMAIN templates[t].versions : Templates!Request(c, candidate, key, t, n)
           \/ /\ \/ request[c] # Nothing /\ \E d \in Nat : Templates!Answer(c, d)
                 \/ request' = [request EXCEPT ![c] = Nothing]
              /\ lock' = lock \/ Templates!Release(c)
    PROVE  DocumentsKept'
<1>1. CASE \E candidate \in Applicants, key \in RequestKeys, t \in Templates!Ids :
             \E n \in DOMAIN templates[t].versions : Templates!Request(c, candidate, key, t, n)
  <2>1. PICK candidate \in Applicants, key \in RequestKeys, t \in Templates!Ids :
             \E n \in DOMAIN templates[t].versions : Templates!Request(c, candidate, key, t, n)
    BY <1>1
  <2>2. PICK n \in DOMAIN templates[t].versions : Templates!Request(c, candidate, key, t, n)
    BY <2>1
  <2> DEFINE new == [candidate |-> candidate, key |-> key, template |-> t, version |-> n,
                     at |-> "asked", revision |-> 0, document |-> 0]
  <2>3. request' = [request EXCEPT ![c] = new] /\ lock' = lock
    BY <2>2 DEF Templates!Request
  <2>4. t \in Nat
    BY DEF TemplatesKept, Templates!Ids
  <2>5. n \in Nat
    <3>1. templates[t].versions \in Seq({"draft", "active", "archived"})
      BY TemplatesAre DEF Templates!Ids
    <3> QED
      BY <3>1
  <2>6. new \in Asking /\ new.at # "rendered"
    BY <2>4, <2>5 DEF Asking
  <2> HIDE DEF new
  <2>7. /\ request' = [q \in Workers |-> request'[q]] /\ request'[c] = new
        /\ \A q \in Workers \ {c} : request'[q] = request[q]
    BY <2>3 DEF DocumentsKept
  <2> QED
    BY <2>3, <2>6, <2>7, OthersRender
<1>2. CASE request' = [request EXCEPT ![c] = Nothing] /\ (lock' = lock \/ Templates!Release(c))
  <2>1. /\ request' = [q \in Workers |-> request'[q]] /\ request'[c] = Nothing
        /\ \A q \in Workers \ {c} : request'[q] = request[q]
    BY <1>2 DEF DocumentsKept
  <2> QED
    BY <1>2, <2>1, OthersRender
<1>3. ASSUME request[c] # Nothing, NEW d \in Nat, Templates!Answer(c, d),
             lock' = lock \/ Templates!Release(c)
      PROVE  DocumentsKept'
  <2> DEFINE new == [request[c] EXCEPT !.at = "answered", !.document = d]
  <2>1. request' = [request EXCEPT ![c] = new]
    BY <1>3 DEF Templates!Answer
  <2>2. request[c] \in Asking
    BY <1>3 DEF DocumentsKept
  <2>3. new \in Asking /\ new.at # "rendered"
    BY <2>2 DEF Asking
  <2> HIDE DEF new
  <2>4. /\ request' = [q \in Workers |-> request'[q]] /\ request'[c] = new
        /\ \A q \in Workers \ {c} : request'[q] = request[q]
    BY <2>1 DEF DocumentsKept
  <2> QED
    BY <1>3, <2>3, <2>4, OthersRender
<1> QED
  BY <1>1, <1>2, <1>3

\* A request that finds its version published takes the candidate and the next number.
LEMMA RenderKeeps ==
    ASSUME DocumentsKept, NEW c \in Workers, documents' = documents, request[c] # Nothing,
           lock[request[c].candidate] = Free,
           lock' = [lock EXCEPT ![request[c].candidate] = c],
           request' = [request EXCEPT ![c].at = "rendered", ![c].revision =
               Cardinality(OfCandidate(documents, request[c].candidate, Len(documents))) + 1]
    PROVE  DocumentsKept'
<1> DEFINE candidate == request[c].candidate
           next == Cardinality(OfCandidate(documents, candidate, Len(documents))) + 1
           new == [request[c] EXCEPT !.at = "rendered", !.revision = next]
<1>1. request[c] \in Asking /\ candidate \in Applicants
  BY DEF DocumentsKept, Asking
<1>2. next \in Nat
  BY DocumentsAre, CountsAreNat
<1>3. request' = [request EXCEPT ![c] = new]
  BY <1>1 DEF DocumentsKept, Asking
<1> HIDE DEF next
<1>4. /\ new \in Asking /\ new.candidate = candidate /\ new.revision = next
      /\ new.at = "rendered"
  BY <1>1, <1>2 DEF Asking
<1> HIDE DEF new
<1>5. /\ request' = [q \in Workers |-> request'[q]] /\ request'[c] = new
      /\ \A q \in Workers \ {c} : request'[q] = request[q]
  BY <1>3 DEF DocumentsKept
<1>6. lock' \in [Applicants -> Workers \cup {Free}] /\ lock'[candidate] = c
      /\ \A k \in Applicants : lock[k] # Free => lock'[k] = lock[k]
  BY <1>1 DEF DocumentsKept
<1>8. Rendering'
  <2> SUFFICES ASSUME NEW q \in Workers, request'[q] # Nothing, request'[q].at = "rendered"
               PROVE  /\ lock'[request'[q].candidate] = q
                      /\ request'[q].revision
                         = Cardinality(OfCandidate(documents, request'[q].candidate, Len(documents))) + 1
    BY DEF Rendering
  <2>1. CASE q = c
    BY <1>4, <1>5, <1>6, <2>1 DEF next
  <2>2. CASE q # c
    <3>1. request'[q] = request[q] /\ request[q].candidate \in Applicants
      BY <1>5, <2>2 DEF DocumentsKept, Asking
    <3>2. lock[request[q].candidate] = q
      BY <3>1 DEF DocumentsKept, Rendering
    <3> QED
      BY <1>6, <3>1, <3>2, LockAssumption DEF DocumentsKept, Rendering
  <2> QED
    BY <2>1, <2>2
<1>9. \A q \in Workers : request'[q] # Nothing => request'[q] \in Asking
  BY <1>4, <1>5 DEF DocumentsKept
<1> QED
  BY <1>5, <1>6, <1>8, <1>9 DEF DocumentsKept

\* The document of a key nobody has used is numbered after those of its candidate,
\* which nobody else adds to meanwhile.
LEMMA MadeKeeps ==
    ASSUME DocumentsKept, NEW c \in Workers, request[c] # Nothing, request[c].at = "rendered",
           Templates!Of(request[c].key) = {},
           documents' = Append(documents,
               [candidate |-> request[c].candidate, key |-> request[c].key,
                template |-> request[c].template, version |-> request[c].version,
                revision |-> request[c].revision]),
           Templates!Answer(c, Len(documents) + 1), Templates!Release(c)
    PROVE  DocumentsKept'
<1> DEFINE r == request[c]
           n == Len(documents)
           new == [candidate |-> r.candidate, key |-> r.key, template |-> r.template,
                   version |-> r.version, revision |-> r.revision]
           answer == [r EXCEPT !.at = "answered", !.document = n + 1]
           Count(docs, k, m) == Cardinality(OfCandidate(docs, k, m))
<1>1. /\ r \in Asking /\ new \in Document /\ n \in Nat /\ DOMAIN documents = 1..n
      /\ lock[r.candidate] = c /\ r.revision = Count(documents, r.candidate, n) + 1
  BY DEF DocumentsKept, Rendering, Asking, Document
<1>2. /\ documents' \in Seq(Document) /\ Len(documents') = n + 1 /\ DOMAIN documents' = 1..n + 1
      /\ documents'[n + 1] = new /\ \A d \in 1..n : documents'[d] = documents[d]
  <2>1. documents \in Seq(Document) /\ documents' = Append(documents, new)
    BY DEF DocumentsKept
  <2> HIDE DEF new
  <2> QED
    BY <1>1, <2>1
<1>3. \A k, m : m \in 1..n => OfCandidate(documents', k, m) = OfCandidate(documents, k, m)
  BY <1>1, <1>2 DEF OfCandidate
<1>4. \A k : OfCandidate(documents', k, n + 1)
             = OfCandidate(documents, k, n) \cup (IF k = r.candidate THEN {n + 1} ELSE {})
  <2>1. new.candidate = r.candidate
    OBVIOUS
  <2> HIDE DEF new, r
  <2> QED
    BY <1>1, <1>2, <2>1 DEF OfCandidate
<1>5. /\ Count(documents', r.candidate, n + 1) = r.revision
      /\ \A k : k # r.candidate => Count(documents', k, n + 1) = Count(documents, k, n)
  <2>1. n + 1 \notin OfCandidate(documents, r.candidate, n)
    BY <1>1 DEF OfCandidate
  <2>2. Count(documents', r.candidate, n + 1) = Count(documents, r.candidate, n) + 1
    BY <1>1, <1>4, <2>1, CountsAreNat, FS_AddElement
  <2> QED
    BY <1>1, <1>4, <2>2
<1>6. \A d \in DOMAIN documents' :
          documents'[d].revision = Count(documents', documents'[d].candidate, d)
  <2>1. \A d \in 1..n : documents[d].revision = Count(documents, documents[d].candidate, d)
    BY <1>1 DEF DocumentsKept
  <2>2. new.candidate = r.candidate /\ new.revision = r.revision
    OBVIOUS
  <2> HIDE DEF new, r, Count
  <2>3. \A d \in 1..n : documents'[d].revision = Count(documents', documents'[d].candidate, d)
    BY <1>2, <1>3, <2>1 DEF Count
  <2> QED
    BY <1>1, <1>2, <1>5, <2>2, <2>3
<1>7. \A d, e \in DOMAIN documents' : documents'[d].key = documents'[e].key => d = e
  <2>1. \A d \in 1..n : documents[d].key # r.key
    BY <1>1 DEF Templates!Of
  <2>2. \A d, e \in 1..n : documents[d].key = documents[e].key => d = e
    BY <1>1 DEF DocumentsKept
  <2>3. new.key = r.key
    OBVIOUS
  <2> HIDE DEF new, r
  <2> QED
    BY <1>1, <1>2, <2>1, <2>2, <2>3
<1>8. /\ request' = [q \in Workers |-> request'[q]] /\ request'[c] = answer
      /\ \A q \in Workers \ {c} : request'[q] = request[q]
  BY DEF DocumentsKept, Templates!Answer
<1>9. answer \in Asking /\ answer.at = "answered"
  <2>1. n + 1 \in Nat
    BY <1>1
  <2> DEFINE d == n + 1
  <2> HIDE DEF d
  <2>2. d \in Nat
    BY <2>1 DEF d
  <2>3. [r EXCEPT !.at = "answered", !.document = d] \in Asking
    BY <1>1, <2>2 DEF Asking
  <2>4. [r EXCEPT !.at = "answered", !.document = d].at = "answered"
    BY <1>1 DEF Asking
  <2> QED
    BY <2>3, <2>4 DEF d
<1>10. \A q \in Workers : request'[q] # Nothing => request'[q] \in Asking
  BY <1>8, <1>9 DEF DocumentsKept
<1>11. /\ lock' \in [Applicants -> Workers \cup {Free}]
       /\ \A q \in Workers \ {c}, k \in Applicants : lock[k] = q => lock'[k] = q
  BY DEF DocumentsKept, Templates!Release
<1>12. Rendering'
  <2> SUFFICES ASSUME NEW q \in Workers, request'[q] # Nothing, request'[q].at = "rendered"
               PROVE  /\ lock'[request'[q].candidate] = q
                      /\ request'[q].revision = Count(documents', request'[q].candidate, n + 1) + 1
    BY <1>2 DEF Rendering
  <2>1. q # c /\ request'[q] = request[q]
    BY <1>8, <1>9
  <2>2. request[q].candidate \in Applicants
    BY <2>1 DEF DocumentsKept, Asking
  <2>3. /\ lock[request[q].candidate] = q
        /\ request[q].revision = Count(documents, request[q].candidate, n) + 1
    BY <2>1 DEF DocumentsKept, Rendering
  <2>4. request[q].candidate # r.candidate
    BY <1>1, <2>1, <2>3
  <2> HIDE DEF Count, r
  <2> QED
    BY <1>5, <1>11, <2>1, <2>2, <2>3, <2>4
<1> QED
  BY <1>2, <1>6, <1>7, <1>8, <1>10, <1>11, <1>12 DEF DocumentsKept

LEMMA ClientsKeep ==
    ASSUME DocumentsKept, TemplatesKept, NEW c \in Workers,
           \/ \E candidate \in Applicants, key \in RequestKeys, t \in Templates!Ids :
                \E n \in DOMAIN templates[t].versions : Templates!Request(c, candidate, key, t, n)
           \/ Templates!Generate(c) \/ Templates!Insert(c) \/ Templates!Forget(c)
    PROVE  DocumentsKept'
<1>1. CASE \E candidate \in Applicants, key \in RequestKeys, t \in Templates!Ids :
             \E n \in DOMAIN templates[t].versions : Templates!Request(c, candidate, key, t, n)
  <2>1. documents' = documents
    BY <1>1 DEF Templates!Request
  <2> QED
    BY <1>1, <2>1, AnswersKeep
<1>2. \A key : Templates!Of(key) \subseteq Nat
  BY DocumentsAre DEF Templates!Of
<1>3. CASE Templates!Generate(c)
  <2>1. documents' = documents /\ request[c] # Nothing /\ lock[request[c].candidate] = Free
    BY <1>3 DEF Templates!Generate, Templates!At
  <2>2. \/ /\ \E d \in Templates!Of(request[c].key) : Templates!Answer(c, d)
           /\ lock' = lock
        \/ request' = [request EXCEPT ![c] = Nothing] /\ lock' = lock
        \/ /\ lock' = [lock EXCEPT ![request[c].candidate] = c]
           /\ request' = [request EXCEPT ![c].at = "rendered", ![c].revision =
                  Templates!Cardinality({d \in DOMAIN documents :
                        documents[d].candidate = request[c].candidate}) + 1]
    BY <1>3 DEF Templates!Generate
  <2>3. Templates!Cardinality({d \in DOMAIN documents : documents[d].candidate = request[c].candidate})
        = Cardinality(OfCandidate(documents, request[c].candidate, Len(documents)))
    BY DocumentsAre
  <2>4. CASE \/ lock' = lock /\ \E d \in Templates!Of(request[c].key) : Templates!Answer(c, d)
             \/ lock' = lock /\ request' = [request EXCEPT ![c] = Nothing]
    BY <1>2, <2>1, <2>4, AnswersKeep
  <2> QED
    BY <2>1, <2>2, <2>3, <2>4, RenderKeeps
<1>4. CASE Templates!Insert(c)
  <2>1. request[c] # Nothing /\ request[c].at = "rendered" /\ Templates!Release(c)
    BY <1>4 DEF Templates!Insert, Templates!At
  <2>2. CASE Templates!Of(request[c].key) # {}
    <3>1. /\ documents' = documents
          /\ \/ \E d \in Templates!Of(request[c].key) : Templates!Answer(c, d)
             \/ request' = [request EXCEPT ![c] = Nothing]
      BY <1>4, <2>2 DEF Templates!Insert, Templates!KeyIndex
    <3> QED
      BY <1>2, <2>1, <3>1, AnswersKeep
  <2>3. CASE Templates!Of(request[c].key) = {}
    <3>1. /\ documents' = Append(documents,
                 [candidate |-> request[c].candidate, key |-> request[c].key,
                  template |-> request[c].template, version |-> request[c].version,
                  revision |-> request[c].revision])
          /\ Templates!Answer(c, Len(documents) + 1)
      BY <1>4, <2>3 DEF Templates!Insert, Templates!KeyIndex
    <3> QED
      BY <2>1, <2>3, <3>1, MadeKeeps
  <2> QED
    BY <2>2, <2>3
<1>5. CASE Templates!Forget(c)
  <2>1. /\ request' = [request EXCEPT ![c] = Nothing]
        /\ Templates!Release(c) /\ documents' = documents
    BY <1>5 DEF Templates!Forget
  <2> QED
    BY <2>1, AnswersKeep
<1> QED
  BY <1>1, <1>3, <1>4, <1>5

LEMMA MakingKeeps ==
    ASSUME TemplatesKept, DocumentsKept, [MCNext]_<<part, queue, vars, made>>
    PROVE  TemplatesKept' /\ DocumentsKept' /\ Templates!Informed
<1>1. UNCHANGED <<templates, seen, asked>> => TemplatesKept' /\ Templates!Informed
  BY DEF TemplatesKept, SeenIsOld, Templates!Informed
<1>2. UNCHANGED <<documents, request, lock>> => DocumentsKept'
  BY DEF DocumentsKept, Rendering
<1>3. CASE UNCHANGED made
  BY <1>1, <1>2, <1>3 DEF made
<1>4. CASE Templates!Next
  <2>1. ASSUME NEW m \in Managers,
               \/ \E t \in Templates!Ids : Templates!Look(m, t)
               \/ \E name \in Names : \/ Templates!Create(m, name) \/ Templates!Ask(m, name)
                                      \/ Templates!Rename(m, name)
               \/ Templates!Import(m) \/ Templates!AddVersion(m) \/ Templates!ImportVersion(m)
               \/ \E n \in Nat : Templates!Activate(m, n) \/ Templates!Archive(m, n)
        PROVE  TemplatesKept' /\ DocumentsKept' /\ Templates!Informed
    <3>1. UNCHANGED <<documents, request, lock>>
      BY <2>1 DEF Templates!Look, Templates!Create, Templates!Ask, Templates!Rename, Templates!Import,
                  Templates!AddVersion, Templates!ImportVersion, Templates!Activate, Templates!Archive,
                  Templates!Write
    <3> QED
      BY <1>2, <2>1, <3>1, ManagersKeep
  <2>2. ASSUME NEW p \in Workers, Templates!Start(p) \/ Templates!Seed(p) \/ Templates!Stop(p)
        PROVE  TemplatesKept' /\ DocumentsKept' /\ Templates!Informed
    <3>1. UNCHANGED <<documents, request, lock>>
      BY <2>2 DEF Templates!Start, Templates!Seed, Templates!Stop
    <3> QED
      BY <1>2, <2>2, <3>1, StartsKeep
  <2>3. ASSUME NEW c \in Workers,
               \/ \E candidate \in Applicants, key \in RequestKeys, t \in Templates!Ids :
                    \E n \in DOMAIN templates[t].versions : Templates!Request(c, candidate, key, t, n)
               \/ Templates!Generate(c) \/ Templates!Insert(c) \/ Templates!Forget(c)
        PROVE  TemplatesKept' /\ DocumentsKept' /\ Templates!Informed
    <3>1. UNCHANGED <<templates, seen, asked>>
      BY <2>3 DEF Templates!Request, Templates!Generate, Templates!Insert, Templates!Forget
    <3> QED
      BY <1>1, <2>3, <3>1, ClientsKeep
  <2>4. \A n \in 1..MaxVersions : n \in Nat
    OBVIOUS
  <2> QED
    BY <1>4, <2>1, <2>2, <2>3, <2>4 DEF Templates!Next, Managers
<1> QED
  BY <1>3, <1>4 DEF MCNext

LEMMA MakingBegins == Templates!Init => TemplatesKept /\ DocumentsKept
<1> SUFFICES ASSUME Templates!Init
             PROVE  TemplatesKept /\ DocumentsKept
  OBVIOUS
<1>1. /\ templates = <<>> /\ documents = <<>>
      /\ seen = [m \in Managers |-> Nothing] /\ asked = [m \in Managers |-> Nothing]
      /\ request = [c \in Workers |-> Nothing] /\ lock = [k \in Applicants |-> Free]
  BY DEF Templates!Init, Managers
<1>2. TemplatesKept
  BY <1>1 DEF TemplatesKept, SeenIsOld
<1>3. DocumentsKept
  BY <1>1 DEF DocumentsKept, Rendering
<1> QED
  BY <1>2, <1>3

\* A key has one document, whoever asks for it and however often; those of a candidate
\* are numbered without gaps; the built-in material is there once (generate, _replay,
\* seed_library): for any requests, managers and starts.
THEOREM DocumentsMadeOnce == MCSpec => []MadeOnce
<1>1. MCInit => TemplatesKept /\ DocumentsKept
  BY MakingBegins DEF MCInit
<1>2. TemplatesKept /\ DocumentsKept /\ [MCNext]_<<part, queue, vars, made>>
      => TemplatesKept' /\ DocumentsKept'
  BY MakingKeeps
<1>3. TemplatesKept /\ DocumentsKept => MadeOnce
  <2> SUFFICES ASSUME TemplatesKept, DocumentsKept
               PROVE  MadeOnce
    OBVIOUS
  <2>1. \A key \in RequestKeys : Cardinality(Templates!Of(key)) <= 1
    <3> SUFFICES ASSUME NEW key \in RequestKeys
                 PROVE  Cardinality(Templates!Of(key)) <= 1
      OBVIOUS
    <3>1. \A d, e \in Templates!Of(key) : d = e
      BY DEF DocumentsKept, Templates!Of
    <3> QED
      BY <3>1, AtMostOne
  <2>2. \A d \in DOMAIN documents : documents[d].revision =
            Cardinality({e \in 1..d : documents[e].candidate = documents[d].candidate})
    BY DEF DocumentsKept, OfCandidate
  <2>3. Cardinality({t \in DOMAIN templates : templates[t].builtIn}) <= 1
    <3>1. \A t, u \in {v \in DOMAIN templates : templates[v].builtIn} : t = u
      BY DEF TemplatesKept
    <3> QED
      BY <3>1, AtMostOne
  <2> QED
    BY <2>1, <2>2, <2>3, SameCount DEF MadeOnce, Templates!MadeOnce, Templates!Ids
<1> QED
  BY <1>1, <1>2, <1>3, PTL DEF MCSpec

\* No edit of a template overwrites one its author has not seen, and one version of it
\* is published at most (_parent, activate_version), for any managers and templates.
THEOREM EditsSeeTheLast == MCSpec => EditsAreInformed
<1>1. MCInit => TemplatesKept /\ DocumentsKept
  BY MakingBegins DEF MCInit
<1>2. TemplatesKept /\ DocumentsKept /\ [MCNext]_<<part, queue, vars, made>>
      => TemplatesKept' /\ DocumentsKept' /\ [Templates!Informed]_<<part, queue, vars, made>>
  BY MakingKeeps
<1> QED
  BY <1>1, <1>2, PTL DEF MCSpec, EditsAreInformed
=============================================================================
