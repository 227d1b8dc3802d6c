--------------------------- MODULE NotificationCentre ---------------------------
(***************************************************************************)
(* The notification centre: the in-app notifications of the users, the     *)
(* list of them that is read by pages, and the bell that asks for the      *)
(* latest again and again.  Sources: routers/notifications.py and          *)
(* deliver_in_app; the clients of the list are those of the frontend       *)
(* (NotificationCenterPage.tsx, NotificationBell.tsx).                     *)
(*                                                                         *)
(* A page is two statements, a count and the rows, and the bell asks two   *)
(* requests at a time: what commits between them is seen by the second.    *)
(* What a notification says, its delivery history and the check of access  *)
(* behind its link are left out.                                           *)
(***************************************************************************)
EXTENDS FiniteSets, SequencesExt

CONSTANTS
    Users,
    Me,            \* whose centre it is, one of Users
    Limit,         \* rows of a page
    MaxNotices,    \* bound: notifications of all users
    MaxPolls,      \* bound: requests of the bell, and marks of all
    Unasked        \* what was not answered yet

VARIABLES
    list,          \* notifications, latest created_at first
    read,          \* those with read_at
    dismissed,     \* those with dismissed_at
    page,          \* the list of the centre, as far as it was read
    bell,          \* what the bell shows, and whether it marks all as read
    polls,         \* its requests in flight
    sequence       \* the number of its last request

vars == <<list, read, dismissed, page, bell, polls, sequence>>

Ids == 1..MaxNotices
Closed == [at |-> "closed"]
Quiet == [busy |-> "no", shown |-> {}, seen |-> {}, count |-> 0]

TypeOK ==
    /\ list \in Seq([id : Ids, user : Users]) /\ read \subseteq Ids /\ dismissed \subseteq Ids
    /\ page \in {Closed} \cup
         [at : {"counting", "reading", "shown"}, unread : BOOLEAN, offset : Nat, total : Nat,
          due : SUBSET Ids, seen : SUBSET Ids, before : SUBSET Ids, late : SUBSET Ids]
    /\ bell \in [busy : {"no", "sent", "marked", "refreshing"}, shown : SUBSET Ids,
                 seen : SUBSET Ids, count : Nat]
    /\ sequence \in 0..MaxPolls
    /\ polls \in SUBSET [number : 1..MaxPolls, after : BOOLEAN,
                         rows : {Unasked} \cup SUBSET (Ids \X BOOLEAN), count : {Unasked} \cup Nat]

Init ==
    /\ list = <<>> /\ read = {} /\ dismissed = {}
    /\ page = Closed
    /\ bell = Quiet /\ polls = {} /\ sequence = 0

IdsOf(rows) == {rows[i].id : i \in DOMAIN rows}
Own(u) == {n \in IdsOf(list) : \E i \in DOMAIN list : list[i] = [id |-> n, user |-> u]}

\* What the list of a user is made of: dismissed notifications are history and stay.
Matching(u, unread) ==
    SelectSeq(list, LAMBDA n : n.user = u /\ (unread => n.id \notin read))

UnreadCount(u) == Cardinality(Own(u) \ (read \cup dismissed))

-----------------------------------------------------------------------------

\* A worker delivers in the app.  created_at is its clock when it took the row, and
\* workers that took theirs later may have committed before.
DeliverInApp(u, place) ==
    LET id == Len(list) + 1 IN
    /\ id \in Ids
    /\ list' = InsertAt(list, place, [id |-> id, user |-> u])
    /\ page' = IF page.at = "reading" THEN [page EXCEPT !.late = @ \cup {id}] ELSE page
    /\ UNCHANGED <<read, dismissed, bell, polls, sequence>>

\* Requests of another window, with any ids: those of other users are left alone.
MarkRead(u, ids) ==
    /\ read' = read \cup (ids \cap Own(u))
    /\ UNCHANGED <<list, dismissed, page, bell, polls, sequence>>

MarkAllRead(u) == read' = read \cup Own(u)

Dismiss(u, ids) ==
    /\ dismissed' = dismissed \cup (ids \cap Own(u))
    /\ UNCHANGED <<list, read, page, bell, polls, sequence>>

-----------------------------------------------------------------------------

\* The page of the centre.  What is due to it is the list when it was opened.
Open(unread) ==
    /\ page = Closed
    /\ page' = [at |-> "counting", unread |-> unread, offset |-> 0, total |-> 0,
                due |-> IdsOf(Matching(Me, unread)), seen |-> {}, before |-> read, late |-> {}]
    /\ UNCHANGED <<list, read, dismissed, bell, polls, sequence>>

Count ==
    /\ page.at = "counting"
    /\ page' = [page EXCEPT !.at = "reading", !.total = Len(Matching(Me, page.unread)), !.late = {}]
    /\ UNCHANGED <<list, read, dismissed, bell, polls, sequence>>

Slice(rows, offset) == {rows[i].id : i \in DOMAIN rows \cap (offset + 1)..(offset + Limit)}

ReadRows ==
    /\ page.at = "reading"
    /\ page' = [page EXCEPT !.at = "shown", !.seen = @ \cup Slice(Matching(Me, page.unread), page.offset)]
    /\ UNCHANGED <<list, read, dismissed, bell, polls, sequence>>

LastPage == page.offset + Limit >= page.total

Forward ==
    /\ page.at = "shown" /\ ~LastPage
    /\ page' = [page EXCEPT !.at = "counting", !.offset = @ + Limit]
    /\ UNCHANGED <<list, read, dismissed, bell, polls, sequence>>

-----------------------------------------------------------------------------

\* The bell asks for the unread count and for the latest rows.
Ask(after) ==
    /\ sequence < MaxPolls
    /\ sequence' = sequence + 1
    /\ polls' = polls \cup {[number |-> sequence + 1, after |-> after,
                             rows |-> Unasked, count |-> Unasked]}
    /\ UNCHANGED <<list, read, dismissed, page>>

\* Every thirty seconds, unless all are being marked.
Poll == bell.busy = "no" /\ Ask(FALSE) /\ UNCHANGED bell

Serve(p) ==
    /\ \/ /\ p.rows = Unasked
          /\ polls' = (polls \ {p}) \cup
               {[p EXCEPT !.rows = {<<n, n \in read>> : n \in Own(Me)}]}
       \/ /\ p.count = Unasked
          /\ polls' = (polls \ {p}) \cup {[p EXCEPT !.count = UnreadCount(Me)]}
    /\ UNCHANGED <<list, read, dismissed, page, bell, sequence>>

\* The answers as they come.
AnyAnswer(p) == TRUE

\* Only the answers to the last request are shown.
IsLast(p) == p.number = sequence

Answer(p) ==
    /\ p.rows # Unasked /\ p.count # Unasked
    /\ polls' = polls \ {p}
    /\ bell' = [busy |-> IF p.after THEN "no" ELSE bell.busy,
                shown |-> IF IsLast(p) THEN {r[1] : r \in p.rows} ELSE bell.shown,
                seen |-> IF IsLast(p) THEN {r[1] : r \in {x \in p.rows : x[2]}} ELSE bell.seen,
                count |-> IF IsLast(p) THEN p.count ELSE bell.count]
    /\ UNCHANGED <<list, read, dismissed, page, sequence>>

Lost(p) ==
    /\ polls' = polls \ {p}
    /\ bell' = IF p.after THEN [bell EXCEPT !.busy = "no"] ELSE bell
    /\ UNCHANGED <<list, read, dismissed, page, sequence>>

\* "Mark all as read" puts off the polls, and what they have asked is not shown.
ReadAll ==
    /\ bell.busy = "no" /\ sequence < MaxPolls
    /\ bell' = [bell EXCEPT !.busy = "sent"]
    /\ sequence' = sequence + 1
    /\ UNCHANGED <<list, read, dismissed, page, polls>>

AllMarked ==
    /\ bell.busy = "sent"
    /\ MarkAllRead(Me)
    /\ bell' = [bell EXCEPT !.busy = "marked"]
    /\ UNCHANGED <<list, dismissed, page, polls, sequence>>

Refresh ==
    /\ bell.busy = "marked"
    /\ Ask(TRUE)
    /\ bell' = [bell EXCEPT !.busy = "refreshing"]

\* The request or its answer is lost.
NotMarked ==
    /\ bell.busy \in {"sent", "marked"}
    /\ bell' = [bell EXCEPT !.busy = "no"]
    /\ UNCHANGED <<list, read, dismissed, page, polls, sequence>>

Server ==
    \E u \in Users :
        \/ \E place \in 1..Len(list) + 1 : DeliverInApp(u, place)
        \/ \E ids \in SUBSET IdsOf(list) : MarkRead(u, ids) \/ Dismiss(u, ids)

Pages == (\E unread \in BOOLEAN : Open(unread)) \/ Count \/ ReadRows \/ Forward

Bell ==
    \/ Poll \/ ReadAll \/ AllMarked \/ Refresh \/ NotMarked
    \/ \E p \in polls : Serve(p) \/ Answer(p) \/ Lost(p)

Next == Server \/ Pages \/ Bell

Spec == Init /\ [][Next]_vars

-----------------------------------------------------------------------------

\* A list read to its last page misses nothing that was due when it was opened
\* (list_notifications, NotificationCenterPage), although notifications come and are
\* dismissed meanwhile; except as many as came between the last count and its rows,
\* and, in the list of unread ones, as were read meanwhile.
PagesMissNothing ==
    page.at = "shown" /\ LastPage =>
        Cardinality(page.due \ (page.seen \cup read)) <=
            Cardinality(page.late) + (IF page.unread THEN Cardinality(read \ page.before) ELSE 0)

\* Answers that come out of order do not take the bell back: what it showed as read
\* it never shows as unread (NotificationBell, "Polls must not race the mutation").
BellGoesForward ==
    [][bell.seen \cap bell'.shown \subseteq bell'.seen]_vars

CentreIsHonest == []PagesMissNothing /\ BellGoesForward
=============================================================================
