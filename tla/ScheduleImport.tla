----------------------------- MODULE ScheduleImport -----------------------------
(***************************************************************************)
(* The import of the master table of starts from Excel: the rows of a file *)
(* are reconciled with the active rows of the import before, linked to     *)
(* cards of candidates or to service entries, and take their place; beside *)
(* it people are assigned to HR managers by row, cards are created and     *)
(* deleted, entries removed by hand.  Sources: routers/work_schedule.py,   *)
(* schedule_import.py, work_schedule.py.                                   *)
(*                                                                         *)
(* A file is a sequence of rows that have been parsed.  A row has an       *)
(* identity: the phone of a person, the title of a service line.  Names    *)
(* that are only alike, rows that cannot be parsed and the columns that    *)
(* are copied (date, time, place, shift, comment) are left out; whether a  *)
(* row was edited since the last import is not.                            *)
(***************************************************************************)
EXTENDS Naturals, Sequences, FiniteSets

CONSTANTS
    Persons, Services,    \* identities: phones of people, titles of service lines
    Name(_),              \* the name beside a phone: people may share one
    Importers, SeesAll,   \* users; those who see the cards of all of them
    MaxRows, MaxImports, MaxCards, MaxHands,      \* bounds
    None

VARIABLES
    master,           \* active rows of the source table
    cards, entries,   \* candidates and service entries, in the order of creation
    importLock,       \* holder of the lock of _serialize_schedule_import
    import,           \* what each importer does
    imports, hands,   \* counters of the bounds
    overridden        \* cards that an import renamed after another person, or could not see

vars == <<master, cards, entries, importLock, import, imports, hands, overridden>>

Identities == Persons \cup Services
Files == UNION {[1..n -> Identities] : n \in 1..MaxRows}
Card(id, owner, excel) ==
    [phone |-> id, name |-> Name(id), owner |-> owner, excel |-> excel, live |-> TRUE]
Auto == [row |-> 0, action |-> "skip", card |-> None]
Resting == [at |-> "idle", file |-> <<>>, edited |-> FALSE, decided |-> Auto,
            rows |-> {}, cards |-> <<>>]

Init ==
    /\ master = {} /\ cards = <<>> /\ entries = <<>>
    /\ importLock = None /\ import = [i \in Importers |-> Resting]
    /\ imports = 0 /\ hands = 0 /\ overridden = FALSE

-----------------------------------------------------------------------------
(* _reconcile_source_rows: by identity, the nearest row first; what is left *)
(* by the place in the sheet, so that a name edited in place keeps its row. *)

Distance(a, b) == IF a > b THEN a - b ELSE b - a
Nearest(rows, k) ==
    CHOOSE o \in rows : \A p \in rows \ {o} :
        \/ Distance(o.order, k) < Distance(p.order, k)
        \/ Distance(o.order, k) = Distance(p.order, k) /\ o.order <= p.order

ByIdentity(file, old) ==
    LET taken[k \in 0..Len(file)] ==
            IF k = 0 THEN <<>>
            ELSE LET before == taken[k - 1]
                     fits == {o \in old : o.id = file[k] /\ \A j \in 1..(k - 1) : before[j] # o}
                 IN Append(before, IF fits = {} THEN None ELSE Nearest(fits, k))
    IN taken[Len(file)]

SameKind(a, b) == a \in Persons <=> b \in Persons

\* The place in the sheet before the identity.
PlaceFirst(file, old) ==
    [k \in DOMAIN file |->
        LET there == {o \in old : o.order = k /\ SameKind(o.id, file[k])}
            fits == {o \in old : o.id = file[k] /\ \A j \in DOMAIN file : o.order # j}
        IN CASE there # {} -> CHOOSE o \in there : TRUE
             [] there = {} /\ fits # {} -> Nearest(fits, k)
             [] OTHER -> None]

Reconcile(file, old) ==
    LET first == ByIdentity(file, old) IN
    [k \in DOMAIN file |->
        LET left == {o \in old : /\ o.order = k /\ SameKind(o.id, file[k])
                                 /\ \A j \in DOMAIN file : first[j] # o}
        IN IF first[k] # None \/ left = {} THEN first[k] ELSE CHOOSE o \in left : TRUE]

\* A new row gets the key of its identity with the first number that no row
\* above it has.  Its place in the sheet is no part of it.
RowKey(id, occurrence) == <<id, occurrence>>

Keys(file, matched) ==
    LET Above(k) == Cardinality({j \in 1..(k - 1) : file[j] = file[k]})
        keys[k \in 0..Len(file)] ==
            IF k = 0 THEN <<>>
            ELSE LET used == {keys[k - 1][j] : j \in 1..(k - 1)}
                     free == {n \in Above(k)..(Above(k) + k) : RowKey(file[k], n) \notin used}
                 IN Append(keys[k - 1],
                           IF matched[k] # None THEN matched[k].key
                           ELSE RowKey(file[k], CHOOSE n \in free : \A m \in free : n <= m))
    IN keys[Len(file)]

-----------------------------------------------------------------------------
(* The plan of an import, from what it read.                               *)

Seen(i) == import[i].cards
Visible(i, c) == Seen(i)[c].live /\ (i \in SeesAll \/ Seen(i)[c].owner = i)

\* _linked_source_candidate: a card without an owner stays within reach of the
\* row that is linked to it.
Mapped(i, old) ==
    /\ old # None /\ old.card # None
    /\ \/ Visible(i, old.card)
       \/ Seen(i)[old.card].live /\ Seen(i)[old.card].owner \in {None, i}

\* build_row_matches: one card with the phone, else the cards with the name.
Matches(i, id) ==
    LET within == {c \in DOMAIN Seen(i) : Visible(i, c)}
        phone == {c \in within : Seen(i)[c].phone = id}
    IN IF Cardinality(phone) = 1 THEN phone ELSE {c \in within : Seen(i)[c].name = Name(id)}

Suggested(i, id, old) ==
    CASE old # None /\ old.decision = "skip" -> "skip"
      [] id \in Services -> "service"
      [] old # None /\ old.card # None -> IF Mapped(i, old) THEN "match" ELSE "skip"
      [] OTHER -> IF Matches(i, id) # {} THEN "match" ELSE "create"

\* The action of a row and the card it is matched with; None where the code
\* answers 422 before the first write.
Planned(i, k, old) ==
    LET c == import[i]
        id == c.file[k]
        decided == c.decided.row = k
        action == IF decided THEN c.decided.action ELSE Suggested(i, id, old)
        chosen == IF decided THEN c.decided.card
                  ELSE IF Mapped(i, old) THEN old.card
                  ELSE IF Cardinality(Matches(i, id)) = 1 THEN CHOOSE m \in Matches(i, id) : TRUE
                  ELSE None
        reachable == chosen # None /\ (Visible(i, chosen) \/ (Mapped(i, old) /\ chosen = old.card))
        refused == \/ action \in {"match", "create"} /\ id \in Services
                   \/ action = "match" /\ ~reachable
                   \/ action = "create" /\ old # None /\ old.card # None
    IN IF refused THEN None
       ELSE [action |-> action, card |-> IF action = "match" THEN chosen ELSE None]

-----------------------------------------------------------------------------
(* The rows are carried out one after the other.                           *)

\* _apply_start_fields: a card that came from Excel follows the phone of its
\* row, and the name unless it was changed by hand.
Follow(card, id, old) ==
    IF ~card.excel THEN card
    ELSE [card EXCEPT !.phone = id,
                      !.name = IF old = None \/ Name(old.id) = card.name THEN Name(id) ELSE @]

Lives(es, e) == e # None /\ es[e] # "deleted"
Withdraw(es, e) == IF Lives(es, e) THEN [es EXCEPT ![e] = "inactive"] ELSE es

\* The owner of a row is that of its card, as it was read; a service line and
\* a skipped row without one keep their own.
OwnerOfRow(i, action, owner, card, cs) ==
    LET cardOwner == CASE card = None -> None
                       [] card \in DOMAIN Seen(i) -> Seen(i)[card].owner
                       [] OTHER -> cs[card].owner
    IN CASE action \in {"create", "match"} -> cardOwner
         [] action = "skip" /\ cardOwner # None -> cardOwner
         [] OTHER -> owner

\* _source_row_changed: another text in a cell, or another place in the sheet.
Changed(i, k, old) ==
    old = None \/ old.id # import[i].file[k] \/ old.order # k \/ import[i].edited

\* A service line keeps its entry and makes it active again, or gets a new one.
Entered(es, e) ==
    IF e # None THEN [link |-> e, all |-> [es EXCEPT ![e] = "active"]]
    ELSE [link |-> Len(es) + 1, all |-> Append(es, "active")]

\* A step of confirm_work_schedule_import's loop on the state s, in which
\* s.made are the cards created from this file.
Carry(s, i, k, old, key, plan) ==
    LET id == import[i].file[k]
        entry == IF old # None /\ Lives(s.entries, old.entry) THEN old.entry ELSE None
        owner == IF old # None THEN old.owner ELSE None
        linked == IF old # None THEN old.card ELSE None
        row(cs, card, e) ==
            [key |-> key, id |-> id, order |-> k, card |-> card, entry |-> e,
             owner |-> OwnerOfRow(i, plan.action, owner, card, cs), decision |-> plan.action,
             by |-> i]
        unchanged == /\ ~Changed(i, k, old)
                     /\ \/ plan.action = "match" /\ plan.card = old.card
                        \/ plan.action = "service" /\ entry # None /\ s.entries[entry] = "active"
        twins == {c \in s.made : s.first[c] = Name(id)}
        With(card, e, cs, es, mine) ==
            [s EXCEPT !.rows = @ \cup {row(cs, card, e)}, !.cards = cs, !.entries = es, !.made = mine]
    IN CASE unchanged -> With(linked, entry, s.cards, s.entries, s.made)
         [] plan.action = "skip" -> With(linked, entry, s.cards, Withdraw(s.entries, entry), s.made)
         [] plan.action = "create" /\ twins # {} /\ ~unchanged ->
              LET c == CHOOSE c \in twins : TRUE IN
              With(c, entry, [s.cards EXCEPT ![c] = Follow(@, id, old)], s.entries, s.made)
         [] plan.action = "create" /\ twins = {} /\ ~unchanged ->
              LET c == Len(s.cards) + 1 IN
              [With(c, entry, Append(s.cards, Card(id, owner, TRUE)), s.entries, s.made \cup {c})
                 EXCEPT !.first = [x \in DOMAIN s.first \cup {c} |->
                                     IF x = c THEN Name(id) ELSE s.first[x]]]
         [] plan.action = "match" /\ ~unchanged ->
              With(plan.card, entry, [s.cards EXCEPT ![plan.card] = Follow(@, id, old)],
                   s.entries, s.made)
         [] OTHER ->
              LET kept == Entered(s.entries, entry) IN
              With(linked, kept.link, s.cards, kept.all, s.made)

Carried(i, matched, keys, plans) ==
    LET file == import[i].file
        missing == {o \in import[i].rows : \A k \in DOMAIN file : matched[k] # o}
        start == [rows |-> {}, cards |-> cards, made |-> {}, first |-> [x \in {} |-> None],
                  entries |-> [e \in DOMAIN entries |->
                                 IF entries[e] # "deleted" /\ \E o \in missing : o.entry = e
                                 THEN "inactive" ELSE entries[e]]]
        done[k \in 0..Len(file)] ==
            IF k = 0 THEN start
            ELSE Carry(done[k - 1], i, k, matched[k], keys[k], plans[k])
    IN done[Len(file)]

-----------------------------------------------------------------------------
(* An import reads under the lock of the master and commits once.          *)

MasterFree == importLock = None

\* What a user may answer to a row of the preview.  A preview holds no lock and
\* writes nothing; by the time it is answered the table and the cards may be others.
Answers(k) ==
    {[row |-> k, action |-> a, card |-> None] : a \in {"create", "service", "skip"}}
    \cup {[row |-> k, action |-> "match", card |-> c] : c \in DOMAIN cards}

Decisions(file) == {Auto} \cup UNION {Answers(k) : k \in DOMAIN file}

\* A decision of the user, or an edited row, costs one of the moves by hand.
Read(i, file, edited, decided) ==
    /\ import[i].at = "idle" /\ imports < MaxImports
    /\ MasterFree /\ importLock' = i
    /\ imports' = imports + 1
    /\ hands' = hands + (IF edited THEN 1 ELSE 0) + (IF decided # Auto THEN 1 ELSE 0)
    /\ hands' <= MaxHands
    /\ import' = [import EXCEPT ![i] = [at |-> "read", file |-> file, edited |-> edited,
                    decided |-> decided, rows |-> master, cards |-> cards]]
    /\ UNCHANGED <<master, cards, entries, overridden>>

Distinct(keys) == \A j, k \in DOMAIN keys : keys[j] = keys[k] => j = k

\* Cards come and go by number, at most MaxCards of them.  Rows read long ago
\* are deactivated again, rows that another import added meanwhile are not.
Commit(i) ==
    LET file == import[i].file
        matched == Reconcile(file, import[i].rows)
        keys == Keys(file, matched)
        plans == [k \in DOMAIN file |-> Planned(i, k, matched[k])]
        end == Carried(i, matched, keys, plans)
        \* The new row refers to an entry that was deleted after the read.
        dangling == \E k \in DOMAIN file :
                       /\ matched[k] # None /\ matched[k].entry # None
                       /\ entries[matched[k].entry] = "deleted" /\ plans[k].action # "service"
    IN
    /\ import[i].at = "read"
    /\ importLock' = IF importLock = i THEN None ELSE importLock
    /\ import' = [import EXCEPT ![i] = Resting]
    /\ IF (\E k \in DOMAIN file : plans[k] = None) \/ dangling \/ ~Distinct(keys)
       THEN UNCHANGED <<master, cards, entries, overridden>>
       ELSE /\ Len(end.cards) <= MaxCards
            /\ master' = {r \in master : \A o \in import[i].rows : o.key # r.key \/ o.by # r.by}
                           \cup end.rows
            /\ cards' = end.cards /\ entries' = end.entries
            /\ overridden' = (overridden
                 \/ (\E k \in DOMAIN file : plans[k].action = "match"
                                            /\ cards[plans[k].card].phone # file[k])
                 \/ (\E k \in DOMAIN file : import[i].decided.row = k)
                 \/ (\E k \in DOMAIN file, c \in DOMAIN Seen(i) :
                        Seen(i)[c].live /\ Seen(i)[c].phone = file[k] /\ ~Visible(i, c)))
    /\ UNCHANGED <<imports, hands>>

-----------------------------------------------------------------------------
(* By hand.                                                                *)

ByHand == hands < MaxHands /\ hands' = hands + 1

\* assign_import_rows: the row and its card.  An import that has read them
\* already does not see it.
Assign(r, u) ==
    /\ ByHand /\ r.id \in Persons
    /\ master' = (master \ {r}) \cup {[r EXCEPT !.owner = u]}
    /\ cards' = IF r.card = None THEN cards ELSE [cards EXCEPT ![r.card].owner = u]
    /\ UNCHANGED <<entries, importLock, import, imports, overridden>>

CreateCard(id, u) ==
    /\ ByHand /\ Len(cards) < MaxCards
    /\ cards' = Append(cards, Card(id, u, FALSE))
    /\ UNCHANGED <<master, entries, importLock, import, imports, overridden>>

DeleteCard(c) ==
    /\ ByHand /\ cards[c].live
    /\ cards' = [cards EXCEPT ![c].live = FALSE]
    /\ UNCHANGED <<master, entries, importLock, import, imports, overridden>>

\* The links of rows to the entry are set to NULL.
DeleteEntry(e) ==
    /\ ByHand /\ entries[e] # "deleted"
    /\ entries' = [entries EXCEPT ![e] = "deleted"]
    /\ master' = {[r EXCEPT !.entry = IF @ = e THEN None ELSE @] : r \in master}
    /\ UNCHANGED <<cards, importLock, import, imports, overridden>>

Next ==
    \/ \E i \in Importers :
          \/ \E file \in Files, edited \in BOOLEAN : \E d \in Decisions(file) : Read(i, file, edited, d)
          \/ Commit(i)
    \/ \E r \in master, u \in Importers \cup {None} : Assign(r, u)
    \/ \E id \in Persons, u \in Importers \cup {None} : CreateCard(id, u)
    \/ \E c \in DOMAIN cards : DeleteCard(c)
    \/ \E e \in DOMAIN entries : DeleteEntry(e)

Spec == Init /\ [][Next]_vars

-----------------------------------------------------------------------------
(* work_schedule.build_rows: what the schedule shows.                      *)
Shown ==
    {<<"card", c>> : c \in {x \in DOMAIN cards : cards[x].live /\
        (cards[x].excel => \E r \in master : r.id \in Persons /\ r.card = x)}}
    \cup {<<"entry", e>> : e \in {x \in DOMAIN entries : entries[x] = "active"}}

\* Links do not shift: a row whose identity the table has once before and once
\* after an import keeps its key, and the card it was linked to, wherever it
\* moved and whatever was inserted or renamed beside it (_reconcile_source_rows:
\* "inserted/reordered source rows do not shift all existing links").
Once(id, rows) == Cardinality({r \in rows : r.id = id}) = 1
LinksDoNotShift ==
    [][\A i \in Importers :
         import[i].at = "read" /\ import'[i].at = "idle" /\ master' # master =>
           \A old \in import[i].rows, new \in master' :
             /\ new.id = old.id
             /\ Once(old.id, import[i].rows) /\ Once(old.id, master')
             => /\ new.key = old.key
                /\ old.card # None /\ import[i].decided = Auto => new.card = old.card]_vars

\* An import does not give a person a second card, unless it was told to, its
\* user does not see the first one, or a row was overwritten with another
\* person, whose card then followed it.
NoSecondCard ==
    ~overridden =>
      \A c, d \in DOMAIN cards :
        cards[c].excel /\ cards[d].excel /\ cards[c].live /\ cards[d].live
          /\ cards[c].phone = cards[d].phone => c = d

\* Imports neither move a card to another row nor give it a double.
ImportsKeepCards == LinksDoNotShift /\ []NoSecondCard

\* Claimed: "so each source line has a distinct key" (_reconcile_source_rows).
\* A row renamed in place keeps the key of its old identity; that identity
\* comes back above it.
EachLineHasItsKey ==
    \A i \in Importers : import[i].at = "read" =>
        Distinct(Keys(import[i].file, Reconcile(import[i].file, import[i].rows)))

\* Refuted: a row is shown at most once.  A person once decided to be a service
\* line gets a card in the next import, and the entry stays.
ShownOnce ==
    \A r \in master : r.card # None /\ r.entry # None =>
        ~(<<"card", r.card>> \in Shown /\ <<"entry", r.entry>> \in Shown)

\* Refuted: an assignment of a row without a card outlives an import that had
\* read the row before.
AssignmentsStick ==
    [][\A i \in Importers :
         import[i].at = "read" /\ import'[i].at = "idle" /\ master' # master =>
           \A old \in master, new \in master' :
             new.key = old.key /\ old.card = None /\ new.card = None => new.owner = old.owner]_vars
=============================================================================
