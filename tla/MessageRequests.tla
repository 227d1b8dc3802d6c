---------------------------- MODULE MessageRequests ----------------------------
(***************************************************************************)
(* Messages HR sends to one candidate by hand: the key of a request, its   *)
(* stored answer, and the rows it queues.  Sources: send_candidate_message *)
(* and its helpers in routers/candidate_messages.py,                       *)
(* queue_candidate_message_all_channels in candidate_messages.py.          *)
(*                                                                         *)
(* A send takes no lock.  It looks the key up, checks, and in a later step *)
(* inserts the request, which waits for another insert of the key, queues  *)
(* and commits.  In between anything may happen to the candidate, the      *)
(* interview or the key.  A call that is refused is left out unless the    *)
(* key is what refuses it.  The delivery of a row is one step, see         *)
(* EmailConsent and EventLifecycle for what meets it.                      *)
(***************************************************************************)
EXTENDS Naturals, Sequences, FiniteSets, SequencesExt

CONSTANTS
    Users, Calls,       \* HR managers; calls of the endpoint in flight
    Keys, Channels,     \* idempotency keys; e-mail and Telegram
    MaxRows, MaxEdits,  \* bounds: rows queued, edits of the interview
    Nothing

VARIABLES
    owner,      \* of the candidate
    event,      \* the interview: status and version
    allowed,    \* channels with a current consent and an address
    requests,   \* candidate_message_requests: what is stored under each key
    rows,       \* notification_outbox, rows of the candidate in order
    call        \* what each call asks for, and how far it is

vars == <<owner, event, allowed, requests, rows, call>>

Types == {"interview_reminder", "interview_scheduled"}
Pending == {"queued", "sending"}
Ids == DOMAIN rows

Init ==
    /\ owner \in Users
    /\ event = [status |-> "scheduled", version |-> 1]
    /\ allowed = Channels
    /\ requests = [k \in Keys |-> Nothing]
    /\ rows = <<>>
    /\ call = [c \in Calls |-> Nothing]

-----------------------------------------------------------------------------

CanAccess(u) == owner = u
\* _validate_send_payload: only a reminder asks for an open interview.
ValidPayload(type) == type = "interview_reminder" => event.status = "scheduled"

\* allowed_candidate_channels, narrowed to the one asked for
Reaches(payload) == {ch \in allowed : payload.only \in {"all", ch}}

\* _pending_duplicate_exists
PendingDuplicate(type) == \E i \in Ids : rows[i].type = type /\ rows[i].status \in Pending

At(c, step) == call[c] # Nothing /\ call[c].at = step
Answer(c, ids) ==
    call' = [call EXCEPT ![c] = [payload |-> call[c].payload, at |-> "answered", rows |-> ids,
                                 version |-> 0]]
Drop(c) == call' = [call EXCEPT ![c] = Nothing]

\* _manual_payload_hash: the user, the type and the channel a key is bound to.
SameOperation(key, payload) == requests[key].payload = payload
AnswerFromKey(c) ==
    LET payload == call[c].payload IN
    IF SameOperation(payload.key, payload)
    THEN Answer(c, requests[payload.key].rows) ELSE Drop(c)

-----------------------------------------------------------------------------
(* The endpoint.                                                           *)

Begin(c, payload) ==
    /\ call[c] = Nothing
    /\ call' = [call EXCEPT ![c] =
                   [payload |-> payload, at |-> "asked", rows |-> {}, version |-> 0]]
    /\ UNCHANGED <<owner, event, allowed, requests, rows>>

Check(c) ==
    LET payload == call[c].payload IN
    /\ At(c, "asked") /\ CanAccess(payload.by) /\ ValidPayload(payload.type)
    /\ IF requests[payload.key] # Nothing
       THEN AnswerFromKey(c)
       ELSE IF Reaches(payload) = {} \/ PendingDuplicate(payload.type)
       THEN Drop(c)
       ELSE call' = [call EXCEPT ![c].at = "checked", ![c].version = event.version]
    /\ UNCHANGED <<owner, event, allowed, requests, rows>>

NoUniqueKey(key) == FALSE
KeyTaken(key) == requests[key] # Nothing

\* The flush of the request and queue_candidate_message_all_channels, which reads
\* the consents again.
Row(payload, channel, version) ==
    [type |-> payload.type, key |-> payload.key, channel |-> channel,
     version |-> version, status |-> "queued"]

Commit(c) ==
    LET payload == call[c].payload
        queued == SetToSeq({Row(payload, ch, call[c].version) : ch \in Reaches(payload)})
        ids == (Len(rows) + 1)..(Len(rows) + Len(queued))
    IN
    /\ At(c, "checked") /\ Len(rows) < MaxRows
    /\ IF KeyTaken(payload.key)
       THEN AnswerFromKey(c) /\ UNCHANGED <<requests, rows>>
       ELSE /\ requests' = [requests EXCEPT ![payload.key] = [payload |-> payload, rows |-> ids]]
            /\ rows' = rows \o queued
            /\ Answer(c, ids)
    /\ UNCHANGED <<owner, event, allowed>>

\* The answer arrives or is lost, or the backend is killed; the client may ask again.
Leave(c) ==
    /\ call[c] # Nothing /\ Drop(c)
    /\ UNCHANGED <<owner, event, allowed, requests, rows>>

-----------------------------------------------------------------------------
(* The candidate, the interview and the worker.                            *)

Withdrawn(gone) ==
    [i \in Ids |-> IF rows[i].status = "queued" /\ i \in gone
                   THEN [rows[i] EXCEPT !.status = "cancelled"] ELSE rows[i]]

\* A consent granted, or refused by HR: set_email_consent, confirm_telegram_link
Consent(ch) ==
    /\ allowed' = IF ch \in allowed THEN allowed \ {ch} ELSE allowed \cup {ch}
    /\ rows' = IF ch \in allowed THEN Withdrawn({i \in Ids : rows[i].channel = ch}) ELSE rows
    /\ UNCHANGED <<owner, event, requests, call>>

EditEvent(status) ==
    /\ event.version <= MaxEdits /\ event.status = "scheduled"
    /\ event' = [status |-> status, version |-> event.version + 1]
    /\ rows' = Withdrawn(Ids)
    /\ UNCHANGED <<owner, allowed, requests, call>>

CancelMessage(u, i) ==
    /\ CanAccess(u) /\ rows[i].status = "queued"
    /\ rows' = [rows EXCEPT ![i].status = "cancelled"]
    /\ UNCHANGED <<owner, event, allowed, requests, call>>

Transfer(u) ==
    /\ u # owner /\ owner' = u
    /\ UNCHANGED <<event, allowed, requests, rows, call>>

Deliver(i) ==
    /\ rows[i].status = "queued"
    /\ rows' = [rows EXCEPT ![i].status =
          IF rows[i].channel \in allowed /\ rows[i].version = event.version
          THEN "accepted" ELSE "skipped"]
    /\ UNCHANGED <<owner, event, allowed, requests, call>>

Payloads == [by : Users, type : Types, only : Channels \cup {"all"}, key : Keys]

Next ==
    \/ \E c \in Calls :
          \/ \E payload \in Payloads : Begin(c, payload)
          \/ Check(c) \/ Commit(c) \/ Leave(c)
    \/ \E ch \in Channels : Consent(ch)
    \/ \E status \in {"scheduled", "cancelled"} : EditEvent(status)
    \/ \E u \in Users : Transfer(u) \/ \E i \in Ids : CancelMessage(u, i)
    \/ \E i \in Ids : Deliver(i)

Spec == Init /\ [][Next]_vars

-----------------------------------------------------------------------------

\* A key sends once: every row belongs to the request stored under its key, which
\* has one row per channel at most, and every call that was answered for the key
\* asked for that operation and got these rows ("Concurrent identical requests
\* produce exactly one logical send", send_candidate_message).
OneSendPerKey ==
    /\ \A i \in Ids : i \in requests[rows[i].key].rows
    /\ \A i, j \in Ids :
          rows[i].key = rows[j].key /\ rows[i].channel = rows[j].channel => i = j
    /\ \A c \in Calls : At(c, "answered") =>
          requests[call[c].payload.key] = [payload |-> call[c].payload, rows |-> call[c].rows]

\* Refuted: no two messages of a type wait for the candidate.  Calls with two keys
\* both pass the check ("Duplicate pending messages of the same type are refused").
NoPendingDuplicates ==
    \A i, j \in Ids :
        /\ rows[i].type = rows[j].type /\ rows[i].channel = rows[j].channel
        /\ rows[i].status \in Pending /\ rows[j].status \in Pending
        => i = j

\* Refuted: a send that is accepted reaches a channel.  The last consent may be
\* withdrawn between the check and the queueing.
AcceptedReaches == \A k \in Keys : requests[k] # Nothing => requests[k].rows # {}
=============================================================================
