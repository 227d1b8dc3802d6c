------------------------------- MODULE MCPlanning -------------------------------
(***************************************************************************)
(* The reminders and the schedule of starts, for TLC: a behaviour is one   *)
(* of                                                                      *)
(*   - reminders, their events and the passes of the workers;              *)
(*   - the same, where no pass fails, after an event was closed;           *)
(*   - requests that overlap on one entry of the schedule;                 *)
(*   - a list of the schedule, read while a card, a grant or the entry     *)
(*     changes;                                                            *)
(*   - a file with the schedule that is read row by row.                   *)
(***************************************************************************)
EXTENDS Reminders, TLC

CONSTANTS Users, Requests, Readers, Times, Days, Cards, MaxChanges, Nothing,
          MaxSheets, MaxParsed, MaxExtra, MaxComment, MaxRows

VARIABLES stage, entry, sees, card, call, list, changes, could,
          reading, sheets, sheet, day, parsed

schedule == <<entry, sees, card, call, list, changes, could>>
table == <<reading, sheets, sheet, day, parsed>>

S == INSTANCE ScheduleEntries

\* Cells that hold a date with and without a year, a time, both, or neither.
Written(on, year) == [on |-> on, year |-> year]
Name(kind, date) == [kind |-> kind, day |-> date]
Time(form, date, from, to) == [form |-> form, day |-> date, from |-> from, to |-> to]
NoName == Name("blank", Nothing)
Someone == Name("candidate", Nothing)
NoClock == Time("blank", Nothing, Nothing, Nothing)
Text(phone, number) == [phone |-> phone, number |-> number, size |-> 1]
Line(name, time, place, comment, extra) ==
    [name |-> name, time |-> time, place |-> place, comment |-> comment, extra |-> extra]
Dated(name, time) == Line(name, time, FALSE, Nothing, <<>>)

DayLines ==
    {Dated(Name("skip", Written(1, 2026)), NoClock), Dated(Name("skip", Written(2, Nothing)), NoClock),
     Dated(Name("candidate", Written(1, Nothing)), NoClock),
     Line(Name("candidate", Written(1, Nothing)), NoClock, TRUE, Nothing, <<>>),
     Dated(NoName, Time("date", Written(1, 2027), Nothing, Nothing)),
     Dated(NoName, Time("pair", Written(2, Nothing), 2, Nothing))}
TimeLines ==
    {Dated(Someone, time) : time \in
        {NoClock, Time("clock", Nothing, 1, Nothing), Time("range", Nothing, 1, 2),
         Time("range", Nothing, 2, 1), Time("date", Written(1, 2026), 1, Nothing),
         Time("serial", Written(2, 2026), Nothing, Nothing),
         Time("dated", Written(1, Nothing), 2, Nothing),
         Time("dated", Written(2, 2027), Nothing, Nothing),
         Time("date only", Written(2, Nothing), Nothing, Nothing),
         Time("pair", Written(2, 2027), 2, Nothing),
         Time("words", Written(1, Nothing), Nothing, Nothing),
         Time("note", Nothing, Nothing, Nothing)}}
LongText == [phone |-> FALSE, number |-> 3, size |-> MaxComment]
OtherLines ==
    {Line(NoName, NoClock, FALSE, Text(FALSE, 1), <<>>), Line(NoName, NoClock, TRUE, Nothing, <<>>),
     Dated(Name("skip", Nothing), NoClock), Dated(Name("service", Nothing), Time("clock", Nothing, 1, Nothing)),
     Line(Someone, NoClock, FALSE, Text(FALSE, 1), <<Nothing, Text(TRUE, 1)>>),
     Line(Someone, NoClock, TRUE, Text(TRUE, 1), <<Text(TRUE, 2), Text(TRUE, 2)>>),
     Line(Someone, NoClock, TRUE, Text(FALSE, 1), <<Text(TRUE, 1), LongText, Text(FALSE, 2)>>),
     Line(Someone, Time("note", Nothing, Nothing, Nothing), TRUE, Text(TRUE, 1), <<Text(FALSE, 2)>>),
     Line(Someone, Time("note", Nothing, Nothing, Nothing), TRUE, Text(FALSE, 1), <<Text(FALSE, 2)>>)}
Files == [size : {0, 1, 2}, content : {"workbook", "macros", "broken"}]

Sheet == INSTANCE ScheduleSheet WITH
    Uploads <- Files, Rows <- DayLines \cup TimeLines \cup OtherLines, MaxFile <- 1,
    ThisYear <- 2026, Unread <- Text(FALSE, 0), None <- Nothing

\* The owner and the days of the cards matter to a list, and the ends of the interval to edits.
AnEntry == [from |-> 1, to |-> 2, day |-> 1, active |-> TRUE, author |-> CHOOSE u \in Users : TRUE]
ACard == [owner |-> CHOOSE u \in Users : TRUE, day |-> 1, time |-> 1, stage |-> "offer",
          linked |-> TRUE, deleted |-> FALSE]

MCInit ==
    /\ Init /\ S!Init /\ Sheet!Init
    /\ \/ stage \in {"reminders", "afterwards"} /\ entry = Nothing /\ sees = {} /\ card = [c \in Cards |-> ACard]
       \/ /\ stage = "editing" /\ entry \in {Nothing, AnEntry} /\ card = [c \in Cards |-> ACard]
          /\ sees = Users \ {AnEntry.author}
       \/ /\ stage = "listing" /\ entry = AnEntry
          /\ \A c \in Cards : card[c].time \in {1, Nothing}
          /\ \E c \in Cards : card[c] = ACard
       \/ stage = "file" /\ entry = Nothing /\ sees = {} /\ card = [c \in Cards |-> ACard]
    /\ \A e \in Events : eventStatus[e] = IF stage = "afterwards" THEN "cancelled" ELSE "absent"

MCNext ==
    \/ stage = "reminders" /\ Next /\ UNCHANGED <<stage, schedule, table>>
    \/ stage = "afterwards" /\ Next /\ faults' = 0 /\ UNCHANGED <<stage, schedule, table>>
    \/ stage = "editing" /\ S!Next /\ UNCHANGED <<stage, vars, card, list, table>>
    \/ stage = "listing" /\ S!Next /\ changes' <= 1 /\ UNCHANGED <<stage, vars, call, table>>
    \/ stage = "file" /\ Sheet!Next /\ UNCHANGED <<stage, vars, schedule>>

MCFairSpec ==
    MCInit /\ [][MCNext]_<<vars, stage, schedule, table>> /\ \A w \in Workers : WF_vars(Pass(w))

\* ScheduleEntries: overlapping edits stay apart, and what is shown holds together.
ScheduleHoldsTogether == S!ScheduleHoldsTogether

=============================================================================
