---------------------------- MODULE DeliveryPromise ----------------------------
(***************************************************************************)
(* What the notification queue promises about one message, with no worker, *)
(* lease, lock or retry in sight.  A submitted message is pending until it *)
(* is given its fate once; deliveries of it are opened one at a time, only *)
(* while it is pending, and only an open delivery can put a copy in front  *)
(* of the recipient; it is "reached" only if a copy arrived.               *)
(*                                                                         *)
(* Several messages may step at once (one transaction settles many rows).  *)
(***************************************************************************)
EXTENDS Naturals

CONSTANTS
    Messages,
    Revocable,    \* messages whose fate an administrator may overwrite
    Reopenable    \* messages that may return to the queue after a failure

VARIABLES fate, open, copies

promise == <<fate, open, copies>>

Fates    == {"absent", "pending", "reached", "failed", "withdrawn"}
Settled  == {"reached", "failed", "withdrawn"}

Init ==
    /\ fate = [m \in Messages |-> "absent"]
    /\ open = [m \in Messages |-> FALSE]
    /\ copies = [m \in Messages |-> 0]

Keeps(m) == fate'[m] = fate[m] /\ open'[m] = open[m] /\ copies'[m] = copies[m]

Submit(m) ==
    /\ fate[m] = "absent" /\ fate'[m] = "pending"
    /\ ~open'[m] /\ copies'[m] = copies[m]

OpenDelivery(m) ==
    /\ fate[m] = "pending" /\ fate'[m] = fate[m]
    /\ ~open[m] /\ open'[m]
    /\ copies'[m] = copies[m]

\* The delivery ends, with or without a copy having arrived, at any time: its
\* message may have been settled under it.
CloseDelivery(m) ==
    /\ open[m] /\ ~open'[m]
    /\ fate'[m] = fate[m]
    /\ copies'[m] \in {copies[m], copies[m] + 1}

\* A message that finds no recipient is given up within its open delivery.
Settle(m) ==
    /\ fate[m] = "pending" /\ fate'[m] \in Settled
    /\ fate'[m] = "reached" => copies'[m] > 0
    /\ open'[m] => open[m]
    /\ copies'[m] = copies[m]

\* A message whose recipient shares the queue's database arrives and is settled
\* in one step, once.
DeliverAtOnce(m) ==
    /\ fate[m] = "pending" /\ fate'[m] = "reached"
    /\ copies[m] = 0 /\ copies'[m] = 1
    /\ open'[m] = open[m]

Overwrite(m) ==
    /\ m \in Revocable
    /\ fate[m] \in Settled /\ fate'[m] = "withdrawn"
    /\ open'[m] = open[m] /\ copies'[m] = copies[m]

Reopen(m) ==
    /\ m \in Reopenable
    /\ fate[m] = "failed" /\ fate'[m] = "pending"
    /\ open[m] /\ ~open'[m]
    /\ copies'[m] = copies[m]

Step(m) ==
    \/ Keeps(m) \/ Submit(m) \/ OpenDelivery(m) \/ CloseDelivery(m)
    \/ Settle(m) \/ DeliverAtOnce(m) \/ Overwrite(m) \/ Reopen(m)

Next ==
    /\ fate' \in [Messages -> Fates]
    /\ DOMAIN open' = Messages /\ DOMAIN copies' = Messages
    /\ \A m \in Messages : Step(m)

Spec == Init /\ [][Next]_promise
=============================================================================
