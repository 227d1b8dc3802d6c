----------------------------- MODULE EmailConsent -----------------------------
(***************************************************************************)
(* The double opt-in of one candidate's e-mail channel: the card address,  *)
(* the recorded consent, the one-time confirmation links, and the sends    *)
(* they gate.  Sources: routers/candidate_messages.py,                     *)
(* candidate_messages.py, notification_service.py, routers/candidates.py   *)
(* (card edits) and the locked phases of worker.py.                        *)
(*                                                                         *)
(* A worker holds the candidate's advisory lock from before its            *)
(* re-validation until after the provider call; the consent and link       *)
(* endpoints take it for their transaction, so each of those is one step   *)
(* enabled while the lock is free.  Card edits, deletion and the queueing  *)
(* of new messages do not take it.                                         *)
(*                                                                         *)
(* Addresses are normalised ones.  The leases and retry counters of the    *)
(* rows are the subject of NotificationOutbox: here a claimed row may be   *)
(* recovered at any time, and a failed send is queued again or given up.   *)
(***************************************************************************)
EXTENDS Naturals, FiniteSets

CONSTANTS
    Addresses,   \* normalised e-mail addresses
    Tokens,      \* confirmation links that may be issued
    Messages,    \* regular messages that may be queued
    Workers,     \* worker processes
    Requests,    \* HR requests in progress at the same time
    NoAddress, NoRow, Free

\* The confirmation letter of a link is the outbox row named after it.
Rows == Tokens \cup Messages

ASSUME DisjointAssumption == Tokens \cap Messages = {}
ASSUME NullAssumption ==
    NoAddress \notin Addresses /\ NoRow \notin Rows /\ Free \notin Workers

VARIABLES
    email, deleted,       \* the candidate's card
    decision, covered,    \* candidate_channel_consents: granted?, address
    token, bound, expired,\* candidate_email_confirm_tokens
    status,               \* notification_outbox.status of each row
    lock,                 \* holder of advisory lock "candidate-send:<id>"
    pc, cur, target,      \* the workers
    request, seen,        \* HR requests and the address they have read
    mailed                \* history: addresses each letter was handed to

card     == <<email, deleted>>
consent  == <<decision, covered>>
links    == <<token, bound, expired>>
workers  == <<lock, pc, cur, target>>
clients  == <<request, seen>>
vars     == <<card, consent, links, status, workers, clients, mailed>>

Known    == Addresses \cup {NoAddress}
Locked   == {"phaseA", "phaseB0", "call", "phaseC"}
Busy     == Locked \cup {"acquire", "wait"}

TypeOK ==
    /\ email \in Known /\ deleted \in BOOLEAN
    /\ decision \in {"none", "granted", "refused"} /\ covered \in Known
    /\ token \in [Tokens -> {"unissued", "active", "superseded", "confirmed"}]
    /\ bound \in [Tokens -> Known]
    /\ expired \in [Tokens -> BOOLEAN]
    /\ status \in [Rows -> {"absent", "queued", "sending", "accepted",
                            "skipped", "failed", "cancelled"}]
    /\ lock \in Workers \cup {Free}
    /\ pc \in [Workers -> Busy \cup {"idle"}]
    /\ cur \in [Workers -> Rows \cup {NoRow}]
    /\ target \in [Workers -> Known]
    /\ \A w \in Workers : pc[w] = "idle" <=> cur[w] = NoRow
    /\ \A w \in Workers : pc[w] = "call" => target[w] \in Addresses
    /\ request \in [Requests -> {"idle", "initiate", "queue", "revoke"}]
    /\ seen \in [Requests -> Known]
    /\ mailed \in [Tokens -> SUBSET Addresses]

Init ==
    /\ email \in Known /\ deleted = FALSE
    /\ decision = "none" /\ covered = NoAddress
    /\ token = [t \in Tokens |-> "unissued"]
    /\ bound = [t \in Tokens |-> NoAddress]
    /\ expired = [t \in Tokens |-> FALSE]
    /\ status = [r \in Rows |-> "absent"]
    /\ lock = Free
    /\ pc = [w \in Workers |-> "idle"]
    /\ cur = [w \in Workers |-> NoRow]
    /\ target = [w \in Workers |-> NoAddress]
    /\ request = [q \in Requests |-> "idle"]
    /\ seen = [q \in Requests |-> NoAddress]
    /\ mailed = [t \in Tokens |-> {}]

\* The helpers of the steps, each after the mistakes a run must notice.

Unconsumed == {t \in Tokens : token[t] = "active"}

\* UPDATE ... SET status = 'cancelled' WHERE status = 'queued' AND id IN rs
CancelQueued(rs) ==
    [r \in Rows |-> IF r \in rs /\ status[r] = "queued" THEN "cancelled" ELSE status[r]]

\* The consent endpoints wait for pg_advisory_xact_lock on the candidate.
NoMutationLock == TRUE
CandidateUnlocked == lock = Free

\* The token's address is still the card's.
ForgotAddress(t) == email # NoAddress
LinkMatchesCard(t) == email # NoAddress /\ bound[t] = email

\* A granted consent that covers the card address.
ForgotCoverage == decision = "granted" /\ email # NoAddress
ConsentCurrent == decision = "granted" /\ email # NoAddress /\ covered = email

\* Superseding: what becomes of the unconsumed links.
KeepOldLinks(ts) == token
Supersede(ts) == [t \in Tokens |-> IF t \in ts THEN "superseded" ELSE token[t]]

-----------------------------------------------------------------------------
(* The candidate's card.  A patch cannot clear the address.                *)

EditCard(a) ==
    /\ ~deleted /\ a # email
    /\ email' = a
    /\ UNCHANGED <<deleted, consent, links, status, workers, clients, mailed>>

DeleteOrRestore ==
    /\ deleted' = ~deleted
    /\ UNCHANGED <<email, consent, links, status, workers, clients, mailed>>

(* HR endpoints.  Each reads the card before it waits for the lock.        *)

BeginInitiate(q) ==
    /\ request[q] = "idle" /\ ~deleted /\ email # NoAddress
    /\ request' = [request EXCEPT ![q] = "initiate"]
    /\ seen' = [seen EXCEPT ![q] = email]
    /\ UNCHANGED <<card, consent, links, status, workers, mailed>>

Initiate(q, t) ==
    /\ request[q] = "initiate" /\ CandidateUnlocked
    /\ token[t] = "unissued"
    /\ token' = [Supersede(Unconsumed) EXCEPT ![t] = "active"]
    /\ bound' = [bound EXCEPT ![t] = seen[q]]
    /\ status' = [CancelQueued(Unconsumed) EXCEPT ![t] = "queued"]
    /\ request' = [request EXCEPT ![q] = "idle"]
    /\ seen' = [seen EXCEPT ![q] = NoAddress]
    /\ UNCHANGED <<card, consent, expired, workers, mailed>>

BeginRevoke(q) ==
    /\ request[q] = "idle" /\ ~deleted
    /\ request' = [request EXCEPT ![q] = "revoke"]
    /\ seen' = [seen EXCEPT ![q] = email]
    /\ UNCHANGED <<card, consent, links, status, workers, mailed>>

Revoke(q) ==
    /\ request[q] = "revoke" /\ CandidateUnlocked
    /\ decision' = "refused"
    /\ covered' = seen[q]
    /\ status' = CancelQueued(Rows)
    /\ request' = [request EXCEPT ![q] = "idle"]
    /\ seen' = [seen EXCEPT ![q] = NoAddress]
    /\ UNCHANGED <<card, links, workers, mailed>>

(* A message is queued for the channels allowed when they were read; the   *)
(* insert follows in the same transaction, without the candidate lock.     *)
BeginQueue(q) ==
    /\ request[q] = "idle" /\ ~deleted /\ ConsentCurrent
    /\ request' = [request EXCEPT ![q] = "queue"]
    /\ UNCHANGED <<card, consent, links, status, workers, seen, mailed>>

Queue(q, m) ==
    /\ request[q] = "queue" /\ status[m] = "absent"
    /\ status' = [status EXCEPT ![m] = "queued"]
    /\ request' = [request EXCEPT ![q] = "idle"]
    /\ UNCHANGED <<card, consent, links, workers, seen, mailed>>

CancelMessage(r) ==
    /\ CandidateUnlocked /\ ~deleted /\ status[r] = "queued"
    /\ status' = [status EXCEPT ![r] = "cancelled"]
    /\ UNCHANGED <<card, consent, links, workers, clients, mailed>>

(* The candidate.  Only who received the letter knows the link.            *)
Click(t) ==
    /\ mailed[t] # {} /\ CandidateUnlocked
    /\ token[t] = "active" /\ ~expired[t]
    /\ ~deleted /\ LinkMatchesCard(t)
    /\ token' = [Supersede(Unconsumed) EXCEPT ![t] = "confirmed"]
    /\ status' = CancelQueued(Unconsumed \ {t})
    /\ decision' = "granted"
    /\ covered' = email
    /\ UNCHANGED <<card, bound, expired, workers, clients, mailed>>

LinkExpires(t) ==
    /\ token[t] = "active" /\ ~expired[t]
    /\ expired' = [expired EXCEPT ![t] = TRUE]
    /\ UNCHANGED <<card, consent, token, bound, status, workers, clients, mailed>>

-----------------------------------------------------------------------------
(* The worker.                                                             *)

\* _resolve_candidate_target for this channel.
Sendable(r) ==
    /\ ~deleted
    /\ IF r \in Tokens
       THEN token[r] = "active" /\ ~expired[r] /\ LinkMatchesCard(r)
       ELSE ConsentCurrent

\* The row is re-read under its row lock in every phase.
StillSending(w) == status[cur[w]] = "sending"

\* Drop the row's send lock and, when held, the candidate's.
DropRow(w) == NoRow
KeepLock(w) == lock
Unlock(w) == IF lock = w THEN Free ELSE lock

Leave(w) ==
    /\ pc' = [pc EXCEPT ![w] = "idle"]
    /\ cur' = [cur EXCEPT ![w] = DropRow(w)]
    /\ target' = [target EXCEPT ![w] = NoAddress]
    /\ lock' = Unlock(w)

Claim(w, r) ==
    /\ pc[w] = "idle" /\ status[r] = "queued"
    /\ status' = [status EXCEPT ![r] = "sending"]
    /\ pc' = [pc EXCEPT ![w] = "acquire"]
    /\ cur' = [cur EXCEPT ![w] = r]
    /\ UNCHANGED <<card, consent, links, lock, target, clients, mailed>>

\* Recovery of an expired lease, its worker dead or merely slow.
Recover(r) ==
    /\ status[r] = "sending"
    /\ \E s \in {"queued", "failed"} : status' = [status EXCEPT ![r] = s]
    /\ UNCHANGED <<card, consent, links, workers, clients, mailed>>

\* pg_try_advisory_lock on the row; a busy row is left to its sender.
TryRowLock(w) ==
    /\ pc[w] = "acquire"
    /\ IF \E v \in Workers \ {w} : cur[v] = cur[w] /\ pc[v] \in Locked \cup {"wait"}
       THEN Leave(w)
       ELSE pc' = [pc EXCEPT ![w] = "wait"] /\ UNCHANGED <<cur, target, lock>>
    /\ UNCHANGED <<card, consent, links, status, clients, mailed>>

\* pg_advisory_lock on the candidate, held until Leave.
TakeCandidateLock(w) == lock = Free /\ lock' = w

LockCandidate(w) ==
    /\ pc[w] = "wait" /\ TakeCandidateLock(w)
    /\ pc' = [pc EXCEPT ![w] = "phaseA"]
    /\ UNCHANGED <<card, consent, links, status, cur, target, clients, mailed>>

Skip(w) ==
    /\ status' = IF StillSending(w) THEN [status EXCEPT ![cur[w]] = "skipped"] ELSE status
    /\ Leave(w)
    /\ UNCHANGED <<card, consent, links, clients, mailed>>

PhaseA(w) ==
    /\ pc[w] = "phaseA" /\ StillSending(w) /\ Sendable(cur[w])
    /\ pc' = [pc EXCEPT ![w] = "phaseB0"]
    /\ UNCHANGED <<card, consent, links, status, cur, target, lock, clients, mailed>>

\* Either re-validation may end the send; phase A also when the row was taken.
PhaseAStops(w) ==
    /\ pc[w] = "phaseA" /\ ~(StillSending(w) /\ Sendable(cur[w]))
    /\ Skip(w)

PhaseB0(w) ==
    /\ pc[w] = "phaseB0" /\ Sendable(cur[w])
    /\ pc' = [pc EXCEPT ![w] = "call"]
    /\ target' = [target EXCEPT ![w] = email]
    /\ UNCHANGED <<card, consent, links, status, cur, lock, clients, mailed>>

PhaseB0Stops(w) ==
    /\ pc[w] = "phaseB0" /\ ~Sendable(cur[w])
    /\ Skip(w)

\* The provider takes the message, or fails with or without having taken it.
ProviderCall(w) ==
    /\ pc[w] = "call"
    /\ pc' = [pc EXCEPT ![w] = "phaseC"]
    /\ \/ cur[w] \in Tokens
          /\ mailed' = [mailed EXCEPT ![cur[w]] = @ \cup {target[w]}]
       \/ UNCHANGED mailed
    /\ UNCHANGED <<card, consent, links, status, cur, target, lock, clients>>

PhaseC(w) ==
    /\ pc[w] = "phaseC"
    /\ IF StillSending(w)
       THEN \E s \in {"accepted", "queued", "failed"} :
              status' = [status EXCEPT ![cur[w]] = s]
       ELSE UNCHANGED status
    /\ Leave(w)
    /\ UNCHANGED <<card, consent, links, clients, mailed>>

\* A dead worker's connection closes, which frees its locks.
Crash(w) ==
    /\ pc[w] # "idle"
    /\ Leave(w)
    /\ UNCHANGED <<card, consent, links, status, clients, mailed>>

-----------------------------------------------------------------------------

Send(w) == \/ TryRowLock(w) \/ LockCandidate(w) \/ PhaseA(w) \/ PhaseAStops(w)
           \/ PhaseB0(w) \/ PhaseB0Stops(w) \/ ProviderCall(w) \/ PhaseC(w)

Next ==
    \/ \E a \in Addresses : EditCard(a)
    \/ DeleteOrRestore
    \/ \E q \in Requests : BeginInitiate(q) \/ BeginRevoke(q) \/ Revoke(q) \/ BeginQueue(q)
    \/ \E q \in Requests, t \in Tokens : Initiate(q, t)
    \/ \E q \in Requests, m \in Messages : Queue(q, m)
    \/ \E r \in Rows : CancelMessage(r) \/ Recover(r)
    \/ \E t \in Tokens : Click(t) \/ LinkExpires(t)
    \/ \E w \in Workers : Send(w) \/ Crash(w) \/ \E r \in Rows : Claim(w, r)

Spec == Init /\ [][Next]_vars

\* Workers run, provider calls time out, and PostgreSQL serves the waiters of
\* an advisory lock in turn.
Fairness ==
    /\ \A w \in Workers : WF_vars(Send(w)) /\ SF_vars(LockCandidate(w))
    /\ \A q \in Requests : SF_vars(Revoke(q))

FairSpec == Spec /\ Fairness

-----------------------------------------------------------------------------
(* Properties.                                                             *)

\* The candidate lock is held by exactly the worker inside the send phases.
\* It makes the next properties inductive.
LockHeldInPhases == \A w \in Workers : pc[w] \in Locked <=> lock = w

\* When a regular message is handed to the provider (worker.py, phase B), the
\* candidate's consent is in force at that moment and covers the very address
\* the message goes to, whatever HR, the candidate or another worker did since
\* the re-validation.
ConsentAtHandOff ==
    \A w \in Workers : pc[w] = "call" /\ cur[w] \in Messages =>
        decision = "granted" /\ covered = target[w]

\* A confirmation letter is handed over only while its link is the candidate's
\* live one, and to the address the link confirms (_resolve_candidate_target).
LiveLinkAtHandOff ==
    \A w \in Workers : pc[w] = "call" /\ cur[w] \in Tokens =>
        token[cur[w]] = "active" /\ bound[cur[w]] = target[w]

\* Whatever is handed to the provider, the candidate has agreed to it, or asked
\* for it with a link that still stands.
HandOffsAreCovered == ConsentAtHandOff /\ LiveLinkAtHandOff

\* A granted consent is the candidate's own: a link issued for that address,
\* mailed to it and to no other, was used (confirm_candidate_email).
DoubleOptIn ==
    decision = "granted" =>
        \E t \in Tokens : /\ token[t] = "confirmed"
                          /\ bound[t] = covered
                          /\ mailed[t] = {covered}

\* At most one link is unconsumed (models.py, uq_..._one_active): initiation
\* never meets the unique index.
OneActiveLink == \A t, u \in Unconsumed : t = u

\* A granted consent is for the address a link was mailed to and used from, and one
\* link at a time is live, whatever requests initiate them.
ConsentsAreTheCandidates == DoubleOptIn /\ OneActiveLink

\* A link leads to its address only: no letter strays to another mailbox.
LettersReachTheirAddress == \A t \in Tokens : mailed[t] \subseteq {bound[t]}

\* A revocation that has to wait for sends in flight is recorded in the end
\* (set_email_consent: "applies right after it").
RevocationTakesEffect ==
    \A q \in Requests : request[q] = "revoke" ~> request[q] = "idle"
=============================================================================
