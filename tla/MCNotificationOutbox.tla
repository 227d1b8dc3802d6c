------------------------- MODULE MCNotificationOutbox -------------------------
(* Instances of NotificationOutbox for TLC.                                 *)
EXTENDS NotificationOutbox, TLC

CONSTANTS r1, r2, w1, w2, o1

\* Two rows of the same object: two external ones, or a rule's document with
\* the job that records it.
KindPair     == (r1 :> "external") @@ (r2 :> "external")
KindDocument == (r1 :> "document") @@ (r2 :> "rule_job")
SameObject   == [r \in Rows |-> o1]
WorkerSymmetry == Permutations(Workers)

\* A rule and its job, while no quiet hours and no administrator interfere.
RuleSpec == Init /\ [][Next /\ UNCHANGED <<deferrals, cancelRead>>]_vars /\ Fairness
=============================================================================
