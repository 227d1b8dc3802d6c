------------------------------- MODULE MCSending -------------------------------
(***************************************************************************)
(* For TLC, a message on its way: a behaviour is one of                    *)
(*   - workers and the rows of the outbox;                                 *)
(*   - two calls that send a message by hand under one key (Messages).     *)
(* The calls share their names with the workers, which halves what the     *)
(* symmetry has to permute.                                                *)
(***************************************************************************)
EXTENDS MCNotificationOutbox

CONSTANTS Users, Keys, Channels, MaxRows, MaxEdits, Nothing
VARIABLES stage, owner, interview, allowed, requests, queue, call

sendVars == <<owner, interview, allowed, requests, queue, call>>

Messages == INSTANCE MessageRequests WITH
    Calls <- Workers, event <- interview, rows <- queue

\* There are finitely many channels, and nothing is neither a call nor a request.
ASSUME MCSendingAssumption ==
    /\ IsFiniteSet(Channels)
    /\ Nothing \notin [payload : Messages!Payloads, rows : SUBSET Nat]

Symmetric == WorkerSymmetry \cup Permutations(Users)

MCInit ==
    /\ Init /\ Messages!Init
    /\ stage \in {"outbox", "messages"}
    /\ stage = "outbox" => owner = CHOOSE u \in Users : TRUE

MCNext ==
    \/ stage = "outbox" /\ Next /\ UNCHANGED <<stage, sendVars>>
    \/ stage = "messages" /\ Messages!Next /\ UNCHANGED <<stage, vars>>

MCSpec == MCInit /\ [][MCNext]_<<vars, stage, sendVars>>

\* MessageRequests: a key sends once.
OneSendPerKey == Messages!OneSendPerKey
=============================================================================
