---------------------------- MODULE MCEventLifecycle ----------------------------
(***************************************************************************)
(* A calendar event, the moments of its messages, and the user who gets    *)
(* them, for TLC: a behaviour is one of                                    *)
(*   - an event and the rows planned for it;                               *)
(*   - a row or a reminder around a change of the clocks (Quiet), with     *)
(*     days of four minutes and weeks of two days;                         *)
(*   - the notifications of the centre read by pages, with those of        *)
(*     another user between them (Centre);                                 *)
(*   - the bell, with at most one notification;                            *)
(*   - the session of a user (Signed).                                     *)
(***************************************************************************)
EXTENDS EventLifecycle, Sequences, FiniteSets, TLC

CONSTANTS Me, Another, Limit, MaxNotices, MaxPolls, Unasked,
          Tickets, Requests, Ttl, Interval, MaxSwitches, Nothing

VARIABLES stage, instant, saves, preference, row, reminder,
          list, read, dismissed, page, bell, polls, sequence,
          time, enabled, session, request, used, turned, switches

quietVars == <<instant, saves, preference, row, reminder>>
centreVars == <<list, read, dismissed, page, bell, polls, sequence>>
sessionVars == <<time, enabled, session, request, used, turned, switches>>

\* On the second day the clocks go forward by a quarter of a day, or back.
Clocks == {[change |-> 12, before |-> 1, after |-> after] : after \in {0, 2}}
Quiet == INSTANCE QuietHours WITH
    Day <- 4, Week <- 2, Zones <- Clocks, Hours <- {1, 3}, Horizon <- 28, MaxSaves <- 1,
    clock <- instant

Centre == INSTANCE NotificationCentre WITH Users <- {Me, Another}
Signed == INSTANCE Sessions WITH MaxTime <- Ttl + Interval

\* Of the constants of the centre and of the sessions.
ASSUME MCEventAssumption ==
    /\ Limit \in Nat \ {0} /\ MaxNotices \in Nat /\ MaxPolls \in Nat
    /\ Ttl \in Nat /\ Interval \in Nat \ {0} /\ MaxSwitches \in Nat
    /\ Nothing \notin Tickets \cup Signed!Row \cup {"arrived", "sliding", "passed"}

Symmetric == Permutations(Users) \cup Permutations(Requests)

NoTimes ==
    /\ preference = CHOOSE p \in Quiet!Preferences : TRUE
    /\ reminder = Quiet!NoReminder /\ row.scheduled = 0 /\ ~row.document

MCInit ==
    /\ Init /\ Quiet!Init /\ Centre!Init /\ Signed!Init
    /\ \/ stage = "event" /\ NoTimes
       \/ stage = "times" /\ kind = "reminder"
       \/ stage \in {"pages", "bell", "session"} /\ NoTimes /\ kind = "reminder"

\* Marks of the other's own matter to nobody here, and one dismissal is as good as more.
FewMarks == read \cup dismissed \subseteq Centre!Own(Me) /\ Cardinality(dismissed) <= 1

MCNext ==
    \/ stage = "event" /\ Next /\ UNCHANGED <<stage, quietVars, centreVars, sessionVars>>
    \/ stage = "times" /\ Quiet!Next /\ UNCHANGED <<stage, vars, centreVars, sessionVars>>
    \/ /\ stage = "pages" /\ (Centre!Server \/ Centre!Pages) /\ FewMarks'
       /\ UNCHANGED <<stage, vars, quietVars, sessionVars>>
    \/ /\ stage = "bell" /\ (Centre!Server \/ Centre!Bell) /\ Len(list') <= 1
       /\ UNCHANGED <<stage, vars, quietVars, sessionVars>>
    \/ stage = "session" /\ Signed!Next /\ UNCHANGED <<stage, vars, quietVars, centreVars>>

MCSpec == MCInit /\ [][MCNext]_<<vars, stage, quietVars, centreVars, sessionVars>>

\* QuietHours: messages go out and reminders return when the preferences allow.
TimesAreKept == Quiet!TimesAreKept

\* NotificationCentre: the list misses nothing and the bell does not go back.
CentreIsHonest == Centre!CentreIsHonest

\* Sessions: they end when they were idle, and what ended stays ended.
SessionsEnd == Signed!SessionsEnd
=============================================================================
