----------------------------- MODULE CandidateCard -----------------------------
(***************************************************************************)
(* One candidate's card under concurrent requests: its creation with the   *)
(* check for duplicates, edits, notes, soft deletion, transfers to another *)
(* HR manager, and the two operations of the imported schedule that touch  *)
(* it (assignment by row, import).  Sources: routers/candidates.py,        *)
(* analytics_ledger.py, routers/work_schedule.py.                          *)
(*                                                                         *)
(* A request reads the card when it begins.  Its commit waits for the row  *)
(* lock of the card and writes the columns whose new value differs from    *)
(* what it read; only a transfer locks the card and reads it again.  The   *)
(* active source row of the card is locked by assignments and replaced by  *)
(* imports.  Names, texts, positions and the interview part are left out.  *)
(***************************************************************************)
EXTENDS Naturals, Sequences, SequencesExt

CONSTANTS
    HRs, Managers,  \* users: who may own cards; who see them all
    Requests,       \* requests in progress at the same time
    MaxRequests,    \* bound: requests altogether
    NoUser, Free

ASSUME LockAssumption == Free \notin Requests  \* a lock is held by a request or free

VARIABLES
    card,             \* candidates: the card
    source,           \* schedule_import_rows: its active row, by generation
    cardLock, rowLock,
    req,              \* requests: what they do, for whom, what they have read
    handovers,        \* candidate_transfers and the audited assignments, in order
    facts,            \* analytics_facts of the card
    ledger,           \* history: the facts name the owner and continue each other
    doubled,          \* history: a second card was created without a confirmation
    requests

vars == <<card, source, cardLock, rowLock, req, handovers, facts, ledger, doubled, requests>>

Stages == {"new", "offer", "started"}
StartStages == {"offer", "started"}
Card(owner) == [there |-> TRUE, owner |-> owner, stage |-> "new", dated |-> FALSE, deleted |-> FALSE]
Absent == [Card(NoUser) EXCEPT !.there = FALSE]
NoSource == [generation |-> 0, owner |-> NoUser]
Idle == [op |-> "idle", by |-> NoUser, saw |-> Absent, row |-> NoSource]

Init ==
    /\ \/ card = Absent /\ source = NoSource /\ handovers = <<>>
       \/ \E o \in HRs \cup {NoUser} :
            /\ card = Card(o)
            /\ source \in {NoSource, [generation |-> 1, owner |-> o]}
            /\ o = NoUser => source # NoSource
            /\ handovers = <<[how |-> "creation", from |-> NoUser, to |-> o]>>
    /\ cardLock = Free /\ rowLock = Free
    /\ req = [r \in Requests |-> Idle]
    /\ facts = <<>> /\ ledger = {} /\ doubled = FALSE /\ requests = 0

-----------------------------------------------------------------------------

CanSee(u, c) == u \in Managers \/ c.owner = u

NoWait(r) == TRUE
Unlocked(r) == cardLock \in {Free, r}
CardFree(r) == Unlocked(r)
RowFree(r) == rowLock \in {Free, r}

Release(r) ==
    /\ req' = [req EXCEPT ![r] = Idle]
    /\ cardLock' = IF cardLock = r THEN Free ELSE cardLock
    /\ rowLock' = IF rowLock = r THEN Free ELSE rowLock

\* A commit writes the changed columns.
Overwrite(row, saw, new) == new
Merge(row, saw, new) == [f \in DOMAIN row |-> IF new[f] = saw[f] THEN row[f] ELSE new[f]]
Write(r, new) == card' = Merge(card, req[r].saw, new)

\* record_fact, with the owner and stages that the request has read.
Record(r, fact) ==
    IF req[r].saw.owner = NoUser
    THEN UNCHANGED <<facts, ledger>>
    ELSE /\ facts' = Append(facts, fact)
         /\ ledger' = ledger
              \cup (IF fact.owner # card.owner THEN {"misattributed"} ELSE {})
              \cup (IF fact.kind = "stage" /\ fact.from # card.stage THEN {"broken"} ELSE {})

-----------------------------------------------------------------------------
(* _get_visible_candidate: what a request may begin with.                  *)

Begin(r, u, op) ==
    /\ req[r] = Idle /\ requests < MaxRequests /\ requests' = requests + 1
    /\ CASE op = "create" -> TRUE
         [] op \in {"edit", "note", "delete"} -> card.there /\ CanSee(u, card) /\ ~card.deleted
         [] op = "transfer" -> card.there /\ CanSee(u, card) /\ ~card.deleted /\ card.owner # NoUser
         [] op = "restore" -> card.there /\ CanSee(u, card) /\ card.deleted
         [] op = "import" ->
              /\ card.there /\ source # NoSource /\ ~card.deleted
              /\ CanSee(u, card) \/ card.owner = NoUser
              /\ \A q \in Requests : req[q].op # "import"    \* _serialize_schedule_import
    /\ req' = [req EXCEPT ![r] = [op |-> op, by |-> u, saw |-> card, row |-> source]]
    /\ UNCHANGED <<card, source, cardLock, rowLock, handovers, facts, ledger, doubled>>

\* _find_duplicates, when the request began.  A request that found the other
\* card asks for a confirmation, which is given.
Found(r) == req[r].saw.there

Create(r, owner) ==
    /\ req[r].op = "create"
    /\ req[r].by \in HRs => owner = req[r].by
    /\ IF card.there
       THEN /\ doubled' = (doubled \/ ~Found(r))
            /\ UNCHANGED <<card, handovers, facts>>
       ELSE /\ card' = Card(owner)
            /\ handovers' = <<[how |-> "creation", from |-> NoUser, to |-> owner]>>
            /\ facts' = Append(facts, [kind |-> "created", owner |-> owner])
            /\ UNCHANGED doubled
    /\ Release(r)
    /\ UNCHANGED <<source, ledger, requests>>

Edit(r, stage, dated) ==
    LET saw == req[r].saw
        new == [saw EXCEPT !.stage = stage, !.dated = dated]
    IN
    /\ req[r].op = "edit" /\ CardFree(r)
    /\ dated /\ ~saw.dated => stage \in StartStages
    /\ stage = "started" => dated
    /\ Write(r, new)
    /\ IF stage # saw.stage
       THEN Record(r, [kind |-> "stage", owner |-> saw.owner, from |-> saw.stage, to |-> stage])
       ELSE UNCHANGED <<facts, ledger>>
    /\ Release(r)
    /\ UNCHANGED <<source, handovers, doubled, requests>>

\* A note's foreign key waits for the lock.
Note(r, kind) ==
    /\ req[r].op = "note" /\ CardFree(r)
    /\ Record(r, [kind |-> kind, owner |-> req[r].saw.owner])
    /\ Release(r)
    /\ UNCHANGED <<card, source, handovers, doubled, requests>>

AddInteraction(r) == Note(r, "interaction")
CreateTermination(r) == Note(r, "termination")

Delete(r) ==
    /\ req[r].op = "delete" /\ CardFree(r)
    /\ Write(r, [req[r].saw EXCEPT !.deleted = TRUE])
    /\ Release(r)
    /\ UNCHANGED <<source, handovers, facts, ledger, doubled, requests>>

Restore(r) ==
    /\ req[r].op = "restore" /\ CardFree(r)
    /\ Write(r, [req[r].saw EXCEPT !.deleted = FALSE])
    /\ Release(r)
    /\ UNCHANGED <<source, handovers, facts, ledger, doubled, requests>>

-----------------------------------------------------------------------------
(* transfer_candidate: the card is locked and read again, then the active  *)
(* source row is read.                                                     *)

Lock(r) ==
    LET same == ~card.deleted /\ CanSee(req[r].by, card) /\ card.owner = req[r].saw.owner IN
    /\ req[r].op = "transfer" /\ CardFree(r)
    /\ IF same
       THEN /\ cardLock' = r
            /\ req' = [req EXCEPT ![r].op = "hand over", ![r].saw = card, ![r].row = source]
            /\ UNCHANGED rowLock
       ELSE Release(r)
    /\ UNCHANGED <<card, source, handovers, facts, ledger, doubled, requests>>

\* A row that does not change is not written, and not waited for.
HandOver(r, to) ==
    LET row == req[r].row
        writes == row # NoSource /\ row.owner # to
    IN
    /\ req[r].op = "hand over" /\ to # req[r].saw.owner
    /\ writes => RowFree(r)
    /\ source' = IF writes /\ source.generation = row.generation
                 THEN [source EXCEPT !.owner = to] ELSE source
    /\ Write(r, [req[r].saw EXCEPT !.owner = to])
    /\ handovers' = Append(handovers, [how |-> "transfer", from |-> req[r].saw.owner, to |-> to])
    /\ facts' = Append(facts, [kind |-> "transfer", owner |-> to])
    /\ Release(r)
    /\ UNCHANGED <<ledger, doubled, requests>>

-----------------------------------------------------------------------------
(* assign_import_rows: the row is locked first, then the card is read.     *)

Select(r, u) ==
    /\ req[r] = Idle /\ requests < MaxRequests /\ requests' = requests + 1
    /\ source # NoSource /\ rowLock = Free
    /\ rowLock' = r
    /\ req' = [req EXCEPT ![r] = [op |-> "assign", by |-> u, saw |-> card, row |-> source]]
    /\ UNCHANGED <<card, source, cardLock, handovers, facts, ledger, doubled>>

Assign(r, to) ==
    /\ req[r].op = "assign" /\ CardFree(r)
    /\ Write(r, [req[r].saw EXCEPT !.owner = to])
    /\ source' = [source EXCEPT !.owner = to]
    /\ handovers' = IF to = req[r].saw.owner THEN handovers
                    ELSE Append(handovers, [how |-> "assignment", from |-> req[r].saw.owner, to |-> to])
    /\ Release(r)
    /\ UNCHANGED <<facts, ledger, doubled, requests>>

\* confirm_work_schedule_import, for the row of this card: the old row gives
\* place to a new one, the date follows the file.
Import(r, dated) ==
    /\ req[r].op = "import" /\ RowFree(r)
    /\ dated # req[r].saw.dated => CardFree(r)
    /\ Write(r, [req[r].saw EXCEPT !.dated = dated])
    /\ source' = [generation |-> source.generation + 1, owner |-> req[r].saw.owner]
    /\ Release(r)
    /\ UNCHANGED <<handovers, facts, ledger, doubled, requests>>

\* A transfer holds the card and waits for the row, an assignment the reverse:
\* PostgreSQL ends one of them.
WaitForEachOther(r, q) ==
    /\ req[r].op = "hand over" /\ req[q].op = "assign"
    /\ req[r].row # NoSource

Victim(r, q, v) ==
    /\ WaitForEachOther(r, q) /\ v \in {r, q}
    /\ Release(v)
    /\ UNCHANGED <<card, source, handovers, facts, ledger, doubled, requests>>

Next ==
    \/ \E r \in Requests :
          \/ \E u \in HRs \cup Managers,
               op \in {"create", "edit", "note", "delete", "restore", "transfer", "import"} :
               Begin(r, u, op)
          \/ \E o \in HRs : Create(r, o) \/ HandOver(r, o)
          \/ \E stage \in Stages, dated \in BOOLEAN : Edit(r, stage, dated)
          \/ AddInteraction(r) \/ CreateTermination(r) \/ Delete(r) \/ Restore(r) \/ Lock(r)
          \/ \E u \in Managers : Select(r, u)
          \/ \E o \in HRs \cup {NoUser} : Assign(r, o)
          \/ \E dated \in BOOLEAN : Import(r, dated)
          \/ \E q, v \in Requests : Victim(r, q, v)

Spec == Init /\ [][Next]_vars

-----------------------------------------------------------------------------

\* The owner is explained: every transfer takes the card from the user to whom
\* it was handed before, and the last handover names the owner.  No edit,
\* note, deletion or import that read the card earlier undoes a transfer
\* (transfer_candidate: "never overwrite a concurrent transfer silently").
OwnerIsExplained ==
    card.there =>
      /\ Last(handovers).to = card.owner
      /\ \A i \in DOMAIN handovers :
           handovers[i].how = "transfer" => handovers[i].from = handovers[i - 1].to

\* Refuted: the stage "started" has a date ("transition without a date is
\* impossible"): another request, or an import, takes the date away.
StartedHasDate == card.stage = "started" => card.dated

\* Refuted: a fact names the owner at its moment ("snapshots the responsible HR
\* at the fact moment", analytics_ledger.py); the request had read another.
FactsNameTheOwner == "misattributed" \notin ledger

\* Refuted: the stage facts of a card continue each other.
StageFactsChain == "broken" \notin ledger

\* Refuted: an import writes the owner it has read into the new row.
RowFollowsCard == source # NoSource /\ req = [r \in Requests |-> Idle] => source.owner = card.owner

\* Refuted: nobody gets a second card without a confirmation.
NoUnconfirmedDuplicate == ~doubled

\* Refuted: a transfer and an assignment never wait for each other.
NoLockCycle == \A r, q \in Requests : ~WaitForEachOther(r, q)
=============================================================================
