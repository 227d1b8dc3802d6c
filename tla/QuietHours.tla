------------------------------- MODULE QuietHours -------------------------------
(***************************************************************************)
(* When a message may go out, and when a reminder comes again.  Sources:   *)
(* quiet_hours.py, document_send_time in documents.py, the postponement in *)
(* process_row of worker.py, put_preferences in routers/preferences.py.    *)
(*                                                                         *)
(* Instants are counted in half minutes of UTC, so that an instant need    *)
(* not be a whole minute; a day has Day minutes and a week Week days.  A   *)
(* zone is an offset that changes once: forward, so that the local times   *)
(* in between do not exist, or back, so that they come twice.  One row of  *)
(* the outbox is looked at by a worker at any instant, one reminder fires. *)
(***************************************************************************)
EXTENDS Integers, FiniteSets, FiniteSetsExt

CONSTANTS
    Day, Week,          \* minutes in a day, days in a week
    Zones,              \* [change, before, after]: offsets in minutes, and when they change
    Hours,              \* minutes of the day at which quiet hours may start or end
    Horizon, MaxSaves   \* bounds: of the clock; how often preferences are saved

VARIABLES
    clock, saves,
    preference,         \* notification_preferences, or what the settings say
    row,                \* of notification_outbox: its time and its fate
    reminder            \* when it is due, and the local time it was set for

vars == <<clock, saves, preference, row, reminder>>

Minute == 2
Never == -1             \* RuntimeError of a scan that found nothing
Weekdays == 1..Week
Preferences == [zone : Zones, start : Hours, end : Hours, workdays : SUBSET Weekdays \ {{}}]

-----------------------------------------------------------------------------
(* Local time.                                                             *)

Local(t, zone) == t + Minute * (IF t < zone.change THEN zone.before ELSE zone.after)

\* zoneinfo with fold=0: of a time that comes twice the first, and one that does
\* not exist by the offset before the change.
LocalToUtc(local, zone) ==
    LET first  == local - Minute * zone.before
        second == local - Minute * zone.after
    IN  IF first < zone.change \/ second < zone.change THEN first ELSE second

Exists(local, zone) == Local(LocalToUtc(local, zone), zone) = local

MinuteOfDay(local) == (local \div Minute) % Day
Weekday(local) == ((local \div (Minute * Day)) % Week) + 1

-----------------------------------------------------------------------------
(* The scans.                                                              *)

EveningOnly(minute, p) == minute >= p.start
Overnight(minute, p) == minute >= p.start \/ minute < p.end
InQuietPeriod(t, p) ==
    LET minute == MinuteOfDay(Local(t, p.zone)) IN
    /\ p.start # p.end
    /\ IF p.start < p.end THEN p.start <= minute /\ minute < p.end
       ELSE Overnight(minute, p)

IsWorkday(t, p) == Weekday(Local(t, p.zone)) \in p.workdays

\* The first minute of a working day.
ApplyWorkdays(t, p) ==
    LET days == {n \in 0..(Week * Day) : IsWorkday(t + n * Minute, p)} IN
    IF days = {} THEN Never ELSE t + Min(days) * Minute

\* The whole minute at or after an instant.
Ceiling(t) == t + (t % Minute)

\* Minute by minute out of the quiet period, over days off when minding.
ScanQuiet(t, p, minding) ==
    LET Found(s) == s = Never \/ ~InQuietPeriod(s, p)
        Onwards(s) == IF minding THEN ApplyWorkdays(s + Minute, p) ELSE s + Minute
        scan[n \in 0..((Week + 1) * Day)] ==
            IF n = 0 THEN t
            ELSE LET s == scan[n - 1] IN IF Found(s) THEN s ELSE Onwards(s)
        last == scan[(Week + 1) * Day]
    IN  IF Found(last) THEN last ELSE Never

\* minding: workdays are given
NextAllowedTime(t, p, minding) ==
    ScanQuiet(IF minding THEN ApplyWorkdays(Ceiling(t), p) ELSE Ceiling(t), p, minding)

Later(s, t) == IF s > t THEN s ELSE t

\* The calls differ only in the instant they start from.
EffectiveSendTime(scheduled, p, now) ==
    LET at == Later(scheduled, now) IN
    IF InQuietPeriod(at, p) THEN NextAllowedTime(at, p, FALSE) ELSE at

DocumentSendTime(scheduled, p, now) ==
    LET at == Later(scheduled, now) IN
    IF IsWorkday(at, p) /\ ~InQuietPeriod(at, p) THEN at ELSE NextAllowedTime(at, p, TRUE)

\* next_occurrence: the same local time on a later day.
DaysAhead(local, p) ==
    CASE reminder.recurrence = "daily"    -> 1
      [] reminder.recurrence = "weekly"   -> Week
      [] reminder.recurrence = "workdays" ->
            Min({n \in Weekdays : Weekday(local + n * Minute * Day) \in p.workdays})

NextOccurrence(due, p) ==
    LET local == Local(due, p.zone) IN
    LocalToUtc(local + DaysAhead(local, p) * Minute * Day, p.zone)

-----------------------------------------------------------------------------

NoRow == [scheduled |-> 0, next |-> 0, status |-> "none", document |-> FALSE]
NoReminder == [due |-> 0, recurrence |-> "none", set |-> 0]

\* A row that is due soon, or a reminder of the first day.
Init ==
    /\ clock = 0 /\ saves = 0 /\ preference \in Preferences
    /\ \/ /\ row \in [scheduled : 0..Minute, next : {0}, status : {"queued"}, document : BOOLEAN]
          /\ reminder = NoReminder
       \/ /\ row = NoRow
          /\ \E t \in 0..(Minute * Day - 1), recurrence \in {"daily", "workdays", "weekly"} :
                reminder = [due |-> t, recurrence |-> recurrence,
                            set |-> MinuteOfDay(Local(t, preference.zone))]

Tick ==
    /\ clock < Horizon /\ clock' = clock + 1
    /\ UNCHANGED <<saves, preference, row, reminder>>

\* put_preferences; the reminder keeps its own zone, the owner's, here the same
SavePreferences(p) ==
    /\ saves < MaxSaves /\ saves' = saves + 1
    /\ preference' = p /\ p.zone = preference.zone
    /\ UNCHANGED <<clock, row, reminder>>

Effective ==
    IF row.document THEN DocumentSendTime(row.scheduled, preference, clock)
    ELSE EffectiveSendTime(row.scheduled, preference, clock)

\* claim_batch takes it, process_row postpones it or lets it go.
Process ==
    /\ row.status = "queued" /\ row.scheduled <= clock /\ row.next <= clock
    /\ row' = IF Effective > clock THEN [row EXCEPT !.next = Effective]
              ELSE [row EXCEPT !.status = "sent"]
    /\ UNCHANGED <<clock, saves, preference, reminder>>

Fire ==
    /\ reminder.recurrence # "none" /\ reminder.due <= clock
    /\ reminder' = [reminder EXCEPT !.due = NextOccurrence(reminder.due, preference)]
    /\ UNCHANGED <<clock, saves, preference, row>>

Next == Tick \/ Process \/ Fire \/ \E p \in Preferences : SavePreferences(p)

Spec == Init /\ [][Next]_vars

-----------------------------------------------------------------------------

\* What the scans are to find: minutes outside the circular interval from start to
\* end, for the messages about documents on workdays.
Allowed(t, p) ==
    LET local == Local(t, p.zone) IN
    /\ (MinuteOfDay(local) - p.start) % Day >= (p.end - p.start) % Day
    /\ row.document => Weekday(local) \in p.workdays

\* "First minute at/after now_utc allowed by quiet hours (and, when workdays is
\* given, by the workday set)", next_allowed_time; "DST-safe".  A row goes out in an
\* allowed minute, a postponed one waits for the first, also over midnight and over
\* the change of the clocks, and no scan gives up.  A reminder comes again later, at
\* the same local time of an allowed day if that time exists there.
TimesAreKept ==
    [][/\ row' # row =>
           IF row'.status = "sent" THEN Allowed(clock, preference)
           ELSE /\ row'.next > clock /\ row'.next % Minute = 0 /\ Allowed(row'.next, preference)
                /\ \A t \in clock..(row'.next - 1) : ~Allowed(t, preference)
       /\ reminder' # reminder =>
           LET local == Local(reminder.due, preference.zone)
               again == Local(reminder'.due, preference.zone)
               there == local + DaysAhead(local, preference) * Minute * Day
           IN  /\ reminder'.due > reminder.due
               /\ Exists(there, preference.zone) =>
                     /\ MinuteOfDay(again) = MinuteOfDay(local)
                     /\ reminder.recurrence = "workdays" => Weekday(again) \in preference.workdays]_vars

\* Refuted: "daily 09:00 stays 09:00 local time across DST changes"
\* (next_occurrence).  An occurrence that falls into the missing hour is moved behind
\* it, and every later one is computed from there.
StaysAtItsTime ==
    LET local == Local(reminder.due, preference.zone)
        midnight == local - (local % (Minute * Day))
    IN  \/ reminder.recurrence = "none" \/ MinuteOfDay(local) = reminder.set
        \/ ~Exists(midnight + Minute * reminder.set, preference.zone)
=============================================================================
