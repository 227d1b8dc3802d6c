----------------------------- MODULE ScheduleEntries -----------------------------
(***************************************************************************)
(* The schedule of starts: one service entry that is created, edited and   *)
(* deleted by hand and rewritten by imports, and the list of a period that *)
(* is read beside the changes.  Sources: routers/work_schedule.py,         *)
(* work_schedule.py, models.ScheduleEntry.                                 *)
(*                                                                         *)
(* A request reads the entry, then its rights, and commits; a statement    *)
(* sees what is committed before it.  How imports match rows is in         *)
(* ScheduleImport, how cards change in CandidateCard: here both just       *)
(* change.  Filters by text and columns of text are left out.             *)
(***************************************************************************)
EXTENDS Integers, Sequences, FiniteSets, SequencesExt

CONSTANTS
    Users,
    Requests, Readers,   \* requests to change the entry, and to list, in progress
    Times, Days,
    Cards,               \* candidates, numbered in the order of their names
    MaxChanges,          \* bound: requests to change the entry, and changes elsewhere
    Nothing

VARIABLES
    entry,               \* the row of schedule_entries, or Nothing
    sees,                \* the users who see all candidates, by role or by grant
    card,                \* of each candidate, what the list shows
    call,                \* requests: what they do, for whom, what they read
    list,                \* requests to list
    changes,             \* the counter behind the bound
    could                \* history: what the user of a request could do since it began

vars == <<entry, sees, card, call, list, changes, could>>

Idle == [at |-> "idle", op |-> "none", user |-> Nothing, saw |-> Nothing, arg |-> <<>>]
NoList == [at |-> "idle", user |-> Nothing, owner |-> Nothing, rejected |-> FALSE,
           all |-> FALSE, rows |-> {}]

\* Either bound of the interval may be missing.
Entry == [from : Times \cup {Nothing}, to : Times \cup {Nothing},
          day : Days, active : {TRUE}, author : Users]
Reversed(e) == e.from # Nothing /\ e.to # Nothing /\ e.to < e.from
Patches ==
    UNION {[{f} -> Times \cup {Nothing}] : f \in {"from", "to"}}
    \cup [{"from", "to"} -> Times]

Init ==
    /\ entry \in {Nothing} \cup {e \in Entry : ~Reversed(e)}
    /\ sees \in SUBSET Users
    /\ card \in [Cards -> [owner : Users, day : Days, time : Times \cup {Nothing},
                           stage : {"offer"}, linked : {TRUE}, deleted : {FALSE}]]
    /\ call = [q \in Requests |-> Idle] /\ list = [r \in Readers |-> NoList]
    /\ changes = 0 /\ could = [q \in Requests \cup Readers |-> {}]

-----------------------------------------------------------------------------
(* The entry.                                                              *)

\* can_manage_entry
Manages(u, e) == u = e.author \/ u \in sees

Create(u, e) ==
    /\ entry = Nothing /\ changes < MaxChanges /\ changes' = changes + 1
    /\ e.author = u /\ ~Reversed(e)
    /\ entry' = e
    /\ UNCHANGED <<sees, card, call, list>>

\* _entry_or_404; an import is no request for an entry, and needs no right to it
Begin(q, op, u, arg) ==
    /\ call[q].at = "idle" /\ entry # Nothing /\ changes < MaxChanges
    /\ changes' = changes + 1
    /\ call' = [call EXCEPT ![q] =
          [at |-> IF op = "import" THEN "write" ELSE "rights",
           op |-> op, user |-> u, saw |-> entry, arg |-> arg]]
    /\ UNCHANGED <<entry, sees, card, list>>

\* _check_entry_manageable
CheckRights(q) ==
    /\ call[q].at = "rights"
    /\ call' = [call EXCEPT ![q] =
          IF Manages(@.user, @.saw) THEN [@ EXCEPT !.at = "write"] ELSE Idle]
    /\ UNCHANGED <<entry, sees, card, list, changes>>

\* What the request changes of what it read, and what that makes of the row now.
Changed(c) == {f \in DOMAIN c.arg : c.arg[f] # c.saw[f]}
OverWhole(e, c, fields) == [f \in DOMAIN e |-> IF f \in fields THEN c.arg[f] ELSE c.saw[f]]
Over(e, c, fields) == [f \in DOMAIN e |-> IF f \in fields THEN c.arg[f] ELSE e[f]]

\* ck_schedule_entries_time_order: the check of the table, when the statement writes
TimeOrder(e) == ~Reversed(e)
Accepted(e) == TimeOrder(e)

\* A row that is gone fails the UPDATE, and so does the check.
Write(q) ==
    LET c == call[q]
        new == Over(entry, c, Changed(c))
    IN  /\ c.at = "write" /\ c.op \in {"edit", "import"}
        /\ entry' = IF \/ c.op = "edit" /\ Reversed(Over(c.saw, c, Changed(c)))
                       \/ Changed(c) = {} \/ entry = Nothing \/ ~Accepted(new)
                    THEN entry ELSE new
        /\ call' = [call EXCEPT ![q] = Idle]
        /\ UNCHANGED <<sees, card, list, changes>>

\* delete_schedule_entry; a second DELETE finds nothing, and is no failure
Delete(q) ==
    /\ call[q].at = "write" /\ call[q].op = "delete"
    /\ entry' = Nothing
    /\ call' = [call EXCEPT ![q] = Idle]
    /\ UNCHANGED <<sees, card, list, changes>>

-----------------------------------------------------------------------------
(* The list (list_work_schedule, export_work_schedule by build_rows).      *)

\* _check_owner_filter
BeginList(r, u, owner, rejected) ==
    /\ list[r].at = "idle"
    /\ owner \in {Nothing, u} \/ u \in sees
    /\ list' = [list EXCEPT ![r] =
          [NoList EXCEPT !.at = "rights", !.user = u, !.owner = owner, !.rejected = rejected]]
    /\ UNCHANGED <<entry, sees, card, call, changes>>

\* visible_candidate_conditions asks for the rights once more.
ReadRights(r) ==
    /\ list[r].at = "rights"
    /\ list' = [list EXCEPT ![r].at = "cards", ![r].all = list[r].user \in sees]
    /\ UNCHANGED <<entry, sees, card, call, changes>>

CardRow(c) == [kind |-> "candidate", id |-> c, day |-> card[c].day, time |-> card[c].time,
               owner |-> card[c].owner, stage |-> card[c].stage]
EntryRow == [kind |-> "entry", id |-> 0, day |-> entry.day, time |-> entry.from,
             owner |-> entry.author, stage |-> "none"]

Scoped(r, c) == IF list[r].all THEN list[r].owner \in {Nothing, card[c].owner}
                ELSE card[c].owner = list[r].user
ReadCards(r) ==
    /\ list[r].at = "cards"
    /\ list' = [list EXCEPT ![r].at = "links",
                            ![r].rows = {CardRow(c) : c \in {x \in Cards :
                                           ~card[x].deleted /\ Scoped(r, x)}}]
    /\ UNCHANGED <<entry, sees, card, call, changes>>

\* A card of an import is listed while a row of the table stands for it.
ReadLinks(r) ==
    /\ list[r].at = "links"
    /\ list' = [list EXCEPT ![r].at = "entries", ![r].rows = {w \in @ : card[w.id].linked}]
    /\ UNCHANGED <<entry, sees, card, call, changes>>

\* The owner is no filter of the entries for those who see only their own cards.
Chosen(l, w) ==
    IF w.kind = "candidate" THEN w.stage = "rejected" => l.rejected
    ELSE l.all => l.owner \in {Nothing, w.owner}
ReadEntries(r) ==
    /\ list[r].at = "entries"
    /\ list' = [list EXCEPT ![r].at = "answered",
                            ![r].rows = {w \in @ \cup (IF entry = Nothing \/ ~entry.active THEN {}
                                                       ELSE {EntryRow}) : Chosen(list[r], w)}]
    /\ UNCHANGED <<entry, sees, card, call, changes>>

Answer(r) ==
    /\ list[r].at = "answered"
    /\ list' = [list EXCEPT ![r] = NoList]
    /\ UNCHANGED <<entry, sees, card, call, changes>>

\* _sort_key: by day, rows without a time at its end, then candidates by name.
Untimed(w) == IF w.time = Nothing THEN 1 ELSE 0
Before(v, w) ==
    \/ v.day < w.day
    \/ v.day = w.day /\ Untimed(v) < Untimed(w)
    \/ v.day = w.day /\ Untimed(v) = 0 /\ Untimed(w) = 0 /\ v.time < w.time
    \/ /\ v.day = w.day /\ v.time = w.time
       /\ \/ v.kind = "candidate" /\ w.kind = "entry"
          \/ v.kind = w.kind /\ v.id < w.id
Sorted(rows) == SetToSortSeq(rows, Before)

\* _number_rows: counted from one after each change of the day
Numbers(s) ==
    LET n[i \in DOMAIN s] == IF i = 1 \/ s[i - 1].day # s[i].day THEN 1 ELSE n[i - 1] + 1
    IN  n

\* day_summaries: of each day in turn its candidates and its rows
Summaries(s) ==
    FoldLeft(LAMBDA days, w :
        LET planned == IF w.kind = "candidate" THEN 1 ELSE 0
            last == IF days = <<>> THEN [day |-> Nothing] ELSE days[Len(days)]
        IN  IF last.day = w.day
            THEN [days EXCEPT ![Len(days)].planned = @ + planned, ![Len(days)].total = @ + 1]
            ELSE Append(days, [day |-> w.day, planned |-> planned, total |-> 1]),
        <<>>, s)

-----------------------------------------------------------------------------
(* What changes elsewhere: grants, cards, the table that was imported.     *)

\* change_grant: the grant of all candidates is given, or revoked.
ChangeGrant(u) == sees' = (sees \ {u}) \cup ({u} \ sees)

Change ==
    /\ changes < MaxChanges /\ changes' = changes + 1
    /\ \/ \E u \in Users : ChangeGrant(u) /\ UNCHANGED <<entry, card>>
       \/ \E c \in Cards :
            /\ \/ \E u \in Users : card' = [card EXCEPT ![c].owner = u]
               \/ \E d \in Days : card' = [card EXCEPT ![c].day = d]
               \/ card' = [card EXCEPT ![c].stage = "rejected"]
               \/ card' = [card EXCEPT ![c].linked = ~@]
               \/ card' = [card EXCEPT ![c].deleted = TRUE]
            /\ UNCHANGED <<entry, sees>>
       \/ /\ entry # Nothing /\ entry.active
          /\ entry' = [entry EXCEPT !.active = FALSE]
          /\ UNCHANGED <<sees, card>>
    /\ UNCHANGED <<call, list>>

Step ==
    \/ Change
    \/ \E u \in Users, e \in Entry : Create(u, e)
    \/ \E q \in Requests, u \in Users :
          (\E p \in Patches : Begin(q, "edit", u, p)) \/ Begin(q, "delete", u, <<>>)
    \/ \E q \in Requests, u \in sees, from, to \in Times :
          Begin(q, "import", u, [from |-> from, to |-> to, active |-> TRUE])
    \/ \E q \in Requests : CheckRights(q) \/ Write(q) \/ Delete(q)
    \/ \E r \in Readers, u \in Users, o \in Users \cup {Nothing}, b \in BOOLEAN : BeginList(r, u, o, b)
    \/ \E r \in Readers : ReadRights(r) \/ ReadCards(r) \/ ReadLinks(r) \/ ReadEntries(r) \/ Answer(r)

\* Of each request, whether its user managed the entry, and the cards it could see.
CouldNow(q) ==
    IF q \in Requests
    THEN IF call'[q].at # "idle" /\ (call'[q].user \in sees' \/ call'[q].user = call'[q].saw.author)
         THEN {"manage"} ELSE {}
    ELSE IF list'[q].at = "idle" THEN {}
         ELSE {c \in Cards : ~card'[c].deleted /\
                             (list'[q].user \in sees' \/ card'[c].owner = list'[q].user)}
Next ==
    /\ Step
    /\ could' = [q \in DOMAIN could |->
          (IF (q \in Requests /\ call[q].at = "idle") \/ (q \in Readers /\ list[q].at = "idle")
           THEN {} ELSE could[q]) \cup CouldNow(q)]

Spec == Init /\ [][Next]_vars

-----------------------------------------------------------------------------

\* What the schedule shows holds together: an interval is never reversed, whichever
\* edits of its two ends overlap; a list shows a card only to who could see it since the
\* request began, and an answer is numbered as its days are counted ("so that the screen,
\* Excel and the print agree", _number_rows, day_summaries).
ListsAgree ==
    \A r \in Readers : list[r].at = "answered" =>
      LET s == Sorted(list[r].rows)
          OfDay(d) == {i \in DOMAIN s : s[i].day = d}
          days == Summaries(s)
      IN  /\ {w.id : w \in list[r].rows} \subseteq could[r] \cup {0}
          /\ \A d \in {w.day : w \in list[r].rows} :
               /\ {Numbers(s)[i] : i \in OfDay(d)} = 1..Cardinality(OfDay(d))
               /\ Cardinality({i \in DOMAIN days : days[i].day = d
                                 /\ days[i].total = Cardinality(OfDay(d))}) = 1

\* An entry is changed only by who could manage it since the request began, only in the
\* columns the request names, however edits, deletions and imports overlap; an entry that
\* was deleted is not brought back by them (update_schedule_entry).
KeepsApart(q) ==
    call[q].at = "write" /\ call'[q].at = "idle" /\ entry' # entry =>
        /\ call[q].op = "import" \/ could[q] # {}
        /\ entry # Nothing
        /\ entry' # Nothing => \A f \in DOMAIN entry : entry'[f] # entry[f] => f \in DOMAIN call[q].arg

ScheduleHoldsTogether ==
    /\ [](ListsAgree /\ (entry # Nothing => ~Reversed(entry)))
    /\ [][\A q \in Requests : KeepsApart(q)]_vars

\* Refuted: a list for an owner shows cards of that owner only (_check_owner_filter: those
\* who see only their own cards "used to get their own rows and silently did not
\* understand"); a grant revoked between its two reads drops the filter.
FilterIsKept ==
    \A r \in Readers : list[r].at = "answered" /\ list[r].owner # Nothing =>
        \A w \in list[r].rows : w.kind = "candidate" => w.owner = list[r].owner
=============================================================================
