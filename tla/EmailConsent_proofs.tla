-------------------------- MODULE EmailConsent_proofs --------------------------
(***************************************************************************)
(* Theorems about EmailConsent, for any number of workers, requests,       *)
(* links, messages and addresses, and about the calls to the providers     *)
(* (ProviderClients), for any number of attempts and any longest wait.     *)
(***************************************************************************)
EXTENDS MCEmailConsent, TLAPS

USE DEF card, consent, links, workers, clients, vars

\* A worker that leaves its row is idle, and has nothing left of it.
LEMMA LeaveType ==
    ASSUME TypeOK, NEW w \in Workers, Leave(w)
    PROVE  /\ pc' \in [Workers -> Busy \cup {"idle"}]
           /\ cur' \in [Workers -> Rows \cup {NoRow}]
           /\ target' \in [Workers -> Known]
           /\ lock' \in Workers \cup {Free}
           /\ \A v \in Workers : pc'[v] = "idle" <=> cur'[v] = NoRow
           /\ \A v \in Workers : pc'[v] = "call" => target'[v] \in Addresses
  BY DEF TypeOK, Leave, DropRow, Unlock, Known

\* Superseding, and cancelling queued letters, keep the columns' types.
LEMMA ColumnTypes ==
    ASSUME TypeOK, NEW S
    PROVE  /\ Supersede(S) \in
                [Tokens -> {"unissued", "active", "superseded", "confirmed"}]
           /\ CancelQueued(S) \in
                [Rows -> {"absent", "queued", "sending", "accepted",
                          "skipped", "failed", "cancelled"}]
  BY DEF TypeOK, Supersede, CancelQueued

\* Type correctness, with the fact that a worker is at a row exactly while it is
\* inside process_external_row (worker.py).
THEOREM TypeCorrect == Spec => []TypeOK
<1>1. Init => TypeOK
  <2> SUFFICES ASSUME Init
               PROVE  TypeOK
    OBVIOUS
  <2>1. mailed \in [Tokens -> SUBSET Addresses]
    BY DEF Init
  <2>2. \A w \in Workers : pc[w] = "idle" <=> cur[w] = NoRow
    BY DEF Init
  <2> QED
    BY <2>1, <2>2 DEF Init, TypeOK, Known
<1>2. TypeOK /\ [Next]_vars => TypeOK'
  <2> SUFFICES ASSUME TypeOK, [Next]_vars
               PROVE  TypeOK'
    OBVIOUS
  <2> USE NullAssumption DEF TypeOK, Known
  <2>1. ASSUME NEW a \in Addresses, EditCard(a)
        PROVE  TypeOK'
    BY <2>1 DEF EditCard
  <2>2. CASE DeleteOrRestore
    BY <2>2 DEF DeleteOrRestore
  <2>3. ASSUME NEW q \in Requests,
               BeginInitiate(q) \/ BeginRevoke(q) \/ Revoke(q) \/ BeginQueue(q)
        PROVE  TypeOK'
    <3>1. CASE BeginInitiate(q)
      BY <3>1 DEF BeginInitiate
    <3>2. CASE BeginRevoke(q)
      BY <3>2 DEF BeginRevoke
    <3>3. CASE Revoke(q)
      BY <3>3, ColumnTypes DEF Revoke
    <3>4. CASE BeginQueue(q)
      BY <3>4 DEF BeginQueue
    <3> QED
      BY <2>3, <3>1, <3>2, <3>3, <3>4
  <2>4. ASSUME NEW q \in Requests, NEW t \in Tokens, Initiate(q, t)
        PROVE  TypeOK'
    <3>1. token' \in [Tokens -> {"unissued", "active", "superseded", "confirmed"}]
      BY <2>4, ColumnTypes DEF Initiate
    <3>2. status' \in [Rows -> {"absent", "queued", "sending", "accepted",
                                "skipped", "failed", "cancelled"}]
      BY <2>4, ColumnTypes DEF Initiate
    <3> QED
      BY <2>4, <3>1, <3>2 DEF Initiate
  <2>5. ASSUME NEW q \in Requests, NEW m \in Messages, Queue(q, m)
        PROVE  TypeOK'
    BY <2>5 DEF Queue
  <2>6. ASSUME NEW r \in Rows, CancelMessage(r) \/ Recover(r)
        PROVE  TypeOK'
    BY <2>6 DEF CancelMessage, Recover
  <2>7. ASSUME NEW t \in Tokens, Click(t) \/ LinkExpires(t)
        PROVE  TypeOK'
    <3>1. CASE Click(t)
      <4>1. token' \in [Tokens -> {"unissued", "active", "superseded", "confirmed"}]
        BY <3>1, ColumnTypes DEF Click
      <4>2. status' \in [Rows -> {"absent", "queued", "sending", "accepted",
                                  "skipped", "failed", "cancelled"}]
        BY <3>1, ColumnTypes DEF Click
      <4> QED
        BY <3>1, <4>1, <4>2 DEF Click
    <3>2. CASE LinkExpires(t)
      BY <3>2 DEF LinkExpires
    <3> QED
      BY <2>7, <3>1, <3>2
  <2>8. ASSUME NEW w \in Workers, Send(w) \/ Crash(w) \/ \E r \in Rows : Claim(w, r)
        PROVE  TypeOK'
    <3>1. CASE TryRowLock(w)
      BY <3>1, LeaveType DEF TryRowLock, Busy, Locked
    <3>2. CASE LockCandidate(w)
      BY <3>2 DEF LockCandidate, TakeCandidateLock, Busy, Locked
    <3>3. CASE PhaseA(w)
      BY <3>3 DEF PhaseA, Busy, Locked
    <3>4. CASE PhaseAStops(w) \/ PhaseB0Stops(w)
      BY <3>4, LeaveType DEF PhaseAStops, PhaseB0Stops, Skip
    <3>5. CASE PhaseB0(w)
      <4>1. email \in Addresses
        BY <3>5 DEF PhaseB0, Sendable, LinkMatchesCard, ConsentCurrent
      <4> QED
        BY <3>5, <4>1 DEF PhaseB0, Busy, Locked
    <3>6. CASE ProviderCall(w)
      <4>1. mailed' \in [Tokens -> SUBSET Addresses]
        BY <3>6 DEF ProviderCall
      <4> QED
        BY <3>6, <4>1 DEF ProviderCall, Busy, Locked
    <3>7. CASE PhaseC(w)
      BY <3>7, LeaveType DEF PhaseC
    <3>8. CASE Crash(w)
      BY <3>8, LeaveType DEF Crash
    <3>9. ASSUME NEW r \in Rows, Claim(w, r)
          PROVE  TypeOK'
      BY <3>9 DEF Claim, Busy
    <3> QED
      BY <2>8, <3>1, <3>2, <3>3, <3>4, <3>5, <3>6, <3>7, <3>8, <3>9 DEF Send
  <2>9. CASE UNCHANGED vars
    BY <2>9
  <2> QED
    BY <2>1, <2>2, <2>3, <2>4, <2>5, <2>6, <2>7, <2>8, <2>9 DEF Next
<1> QED
  BY <1>1, <1>2, PTL DEF Spec

-----------------------------------------------------------------------------
\* Leaving a row frees the candidate's lock if this worker has it, and no other.
LEMMA LeaveLock ==
    ASSUME TypeOK, LockHeldInPhases, NEW w \in Workers, Leave(w)
    PROVE  LockHeldInPhases'
<1>1. pc'[w] = "idle" /\ \A v \in Workers \ {w} : pc'[v] = pc[v]
  BY DEF TypeOK, Leave
<1>2. lock' = IF lock = w THEN Free ELSE lock
  BY DEF Leave, Unlock
<1> QED
  BY <1>1, <1>2, NullAssumption DEF LockHeldInPhases, Locked

\* The candidate's lock is a mutex around the send phases (worker.py,
\* _acquire_send_locks to _release_send_locks).
THEOREM LockIsMutex == Spec => []LockHeldInPhases
<1>1. Init => LockHeldInPhases
  BY NullAssumption DEF Init, LockHeldInPhases, Locked
<1>2. TypeOK /\ LockHeldInPhases /\ [Next]_vars => LockHeldInPhases'
  <2> SUFFICES ASSUME TypeOK, LockHeldInPhases, [Next]_vars
               PROVE  LockHeldInPhases'
    OBVIOUS
  <2>1. CASE UNCHANGED <<pc, lock>>
    BY <2>1 DEF LockHeldInPhases
  <2>2. ASSUME NEW w \in Workers, Leave(w)
        PROVE  LockHeldInPhases'
    BY <2>2, LeaveLock
  <2>3. ASSUME NEW w \in Workers, TryRowLock(w)
        PROVE  LockHeldInPhases'
    <3>1. CASE Leave(w)
      BY <3>1, <2>2
    <3>2. CASE /\ pc[w] = "acquire" /\ lock' = lock
               /\ pc' = [pc EXCEPT ![w] = "wait"]
      BY <3>2 DEF LockHeldInPhases, TypeOK, Locked
    <3> QED
      BY <2>3, <3>1, <3>2 DEF TryRowLock
  <2>4. ASSUME NEW w \in Workers, LockCandidate(w)
        PROVE  LockHeldInPhases'
    BY <2>4, NullAssumption
       DEF LockCandidate, TakeCandidateLock, LockHeldInPhases, TypeOK, Locked
  <2>5. ASSUME NEW w \in Workers, PhaseA(w) \/ PhaseB0(w) \/ ProviderCall(w)
        PROVE  LockHeldInPhases'
    <3>1. /\ pc[w] \in Locked /\ pc'[w] \in Locked /\ lock' = lock
          /\ \A v \in Workers \ {w} : pc'[v] = pc[v]
      BY <2>5 DEF PhaseA, PhaseB0, ProviderCall, TypeOK, Locked
    <3> QED
      BY <3>1 DEF LockHeldInPhases
  <2>6. ASSUME NEW w \in Workers, NEW r \in Rows, Claim(w, r)
        PROVE  LockHeldInPhases'
    BY <2>6 DEF Claim, LockHeldInPhases, TypeOK, Locked
  <2> QED
    BY <2>1, <2>2, <2>3, <2>4, <2>5, <2>6
       DEF Next, Send, PhaseAStops, PhaseB0Stops, Skip, PhaseC, Crash, EditCard,
           DeleteOrRestore, BeginInitiate, BeginRevoke, Revoke, BeginQueue,
           Initiate, Queue, CancelMessage, Recover, Click, LinkExpires
<1> QED
  BY <1>1, <1>2, TypeCorrect, PTL DEF Spec

-----------------------------------------------------------------------------
\* A worker reaches its provider call by phase B0 only.
LEMMA CallsBegin ==
    ASSUME TypeOK, [Next]_vars, NEW w \in Workers, pc'[w] = "call"
    PROVE  \/ PhaseB0(w)
           \/ /\ pc[w] = "call" /\ cur'[w] = cur[w] /\ target'[w] = target[w]
<1>1. ASSUME NEW v \in Workers, Leave(v)
      PROVE  /\ v # w
             /\ pc[w] = "call" /\ cur'[w] = cur[w] /\ target'[w] = target[w]
  BY <1>1 DEF Leave, TypeOK
<1>2. ASSUME NEW v \in Workers, TryRowLock(v)
      PROVE  pc[w] = "call" /\ cur'[w] = cur[w] /\ target'[w] = target[w]
  <2>1. CASE Leave(v)
    BY <2>1, <1>1
  <2>2. CASE pc' = [pc EXCEPT ![v] = "wait"] /\ UNCHANGED <<cur, target>>
    BY <2>2 DEF TypeOK
  <2> QED
    BY <1>2, <2>1, <2>2 DEF TryRowLock
<1>3. ASSUME NEW v \in Workers, LockCandidate(v) \/ PhaseA(v) \/ ProviderCall(v)
      PROVE  pc[w] = "call" /\ cur'[w] = cur[w] /\ target'[w] = target[w]
  BY <1>3 DEF LockCandidate, PhaseA, ProviderCall, TypeOK
<1>4. ASSUME NEW v \in Workers, NEW r \in Rows, Claim(v, r)
      PROVE  pc[w] = "call" /\ cur'[w] = cur[w] /\ target'[w] = target[w]
  BY <1>4 DEF Claim, TypeOK
<1>5. ASSUME NEW v \in Workers, PhaseB0(v), v # w
      PROVE  pc[w] = "call" /\ cur'[w] = cur[w] /\ target'[w] = target[w]
  BY <1>5 DEF PhaseB0, TypeOK
<1>6. CASE UNCHANGED <<pc, cur, target>>
  BY <1>6
<1> QED
  BY <1>1, <1>2, <1>3, <1>4, <1>5, <1>6
     DEF Next, Send, PhaseAStops, PhaseB0Stops, Skip, PhaseC, Crash, EditCard,
         DeleteOrRestore, BeginInitiate, BeginRevoke, Revoke, BeginQueue,
         Initiate, Queue, CancelMessage, Recover, Click, LinkExpires

\* While the candidate's lock is held, nobody changes the consent or the links.
LEMMA LockedIsStable ==
    ASSUME TypeOK, [Next]_vars, ~CandidateUnlocked
    PROVE  UNCHANGED <<decision, covered, token, bound>>
  BY DEF Next, Send, TryRowLock, LockCandidate, PhaseA, PhaseAStops, PhaseB0,
         PhaseB0Stops, ProviderCall, Skip, PhaseC, Crash, Claim, EditCard,
         DeleteOrRestore, BeginInitiate, BeginRevoke, Revoke, BeginQueue,
         Initiate, Queue, CancelMessage, Recover, Click, LinkExpires

\* Nothing reaches the provider without a consent in force for the very address
\* it goes to, whatever happens between the re-validation and the call.
THEOREM ConsentProtectsSends == Spec => []ConsentAtHandOff
<1>1. Init => ConsentAtHandOff
  BY DEF Init, ConsentAtHandOff
<1>2. /\ TypeOK /\ LockHeldInPhases /\ ConsentAtHandOff /\ [Next]_vars
      => ConsentAtHandOff'
  <2> SUFFICES ASSUME TypeOK, LockHeldInPhases, ConsentAtHandOff, [Next]_vars,
                      NEW w \in Workers, pc'[w] = "call", cur'[w] \in Messages
               PROVE  decision' = "granted" /\ covered' = target'[w]
    BY DEF ConsentAtHandOff
  <2>1. CASE PhaseB0(w)
    <3>1. cur[w] \in Messages /\ cur[w] \notin Tokens
      BY <2>1, DisjointAssumption DEF PhaseB0
    <3>2. ConsentCurrent
      BY <2>1, <3>1 DEF PhaseB0, Sendable
    <3> QED
      BY <2>1, <3>2 DEF PhaseB0, ConsentCurrent, TypeOK
  <2>2. CASE pc[w] = "call" /\ cur'[w] = cur[w] /\ target'[w] = target[w]
    <3>1. UNCHANGED <<decision, covered, token, bound>>
      BY <2>2, LockedIsStable, NullAssumption
         DEF LockHeldInPhases, Locked, CandidateUnlocked
    <3> QED
      BY <2>2, <3>1 DEF ConsentAtHandOff
  <2> QED
    BY <2>1, <2>2, CallsBegin
<1> QED
  BY <1>1, <1>2, TypeCorrect, LockIsMutex, PTL DEF Spec

\* A confirmation letter leaves only while its link is live, and to the address
\* the link confirms.
THEOREM LiveLinksOnly == Spec => []LiveLinkAtHandOff
<1>1. Init => LiveLinkAtHandOff
  BY DEF Init, LiveLinkAtHandOff
<1>2. /\ TypeOK /\ LockHeldInPhases /\ LiveLinkAtHandOff /\ [Next]_vars
      => LiveLinkAtHandOff'
  <2> SUFFICES ASSUME TypeOK, LockHeldInPhases, LiveLinkAtHandOff, [Next]_vars,
                      NEW w \in Workers, pc'[w] = "call", cur'[w] \in Tokens
               PROVE  token'[cur'[w]] = "active" /\ bound'[cur'[w]] = target'[w]
    BY DEF LiveLinkAtHandOff
  <2>1. CASE PhaseB0(w)
    <3>1. cur[w] \in Tokens /\ Sendable(cur[w])
      BY <2>1 DEF PhaseB0
    <3>2. token[cur[w]] = "active" /\ bound[cur[w]] = email
      BY <3>1 DEF Sendable, LinkMatchesCard
    <3> QED
      BY <2>1, <3>2 DEF PhaseB0, TypeOK
  <2>2. CASE pc[w] = "call" /\ cur'[w] = cur[w] /\ target'[w] = target[w]
    <3>1. UNCHANGED <<decision, covered, token, bound>>
      BY <2>2, LockedIsStable, NullAssumption
         DEF LockHeldInPhases, Locked, CandidateUnlocked
    <3> QED
      BY <2>2, <3>1 DEF LiveLinkAtHandOff
  <2> QED
    BY <2>1, <2>2, CallsBegin
<1> QED
  BY <1>1, <1>2, TypeCorrect, LockIsMutex, PTL DEF Spec

\* Whatever a worker hands to the provider is covered, a message by the consent and a
\* letter by its link (worker.py, phase B).
THEOREM HandOffsCovered == Spec => []HandOffsAreCovered
<1>1. ConsentAtHandOff /\ LiveLinkAtHandOff => HandOffsAreCovered
  BY DEF HandOffsAreCovered
<1> QED
  BY <1>1, ConsentProtectsSends, LiveLinksOnly, PTL

-----------------------------------------------------------------------------
\* One confirmation link at a time, whichever order requests commit in: the
\* unique index on active links is never met.
THEOREM LinksAreExclusive == Spec => []OneActiveLink
<1>1. Init => OneActiveLink
  BY DEF Init, OneActiveLink, Unconsumed
<1>2. TypeOK /\ OneActiveLink /\ [Next]_vars => OneActiveLink'
  <2> SUFFICES ASSUME TypeOK, OneActiveLink, [Next]_vars
               PROVE  OneActiveLink'
    OBVIOUS
  <2>1. CASE UNCHANGED token
    BY <2>1 DEF OneActiveLink, Unconsumed
  <2>2. ASSUME NEW q \in Requests, NEW t \in Tokens, Initiate(q, t)
        PROVE  OneActiveLink'
    <3>1. \A u \in Tokens \ {t} : token'[u] # "active"
      BY <2>2 DEF Initiate, Supersede, Unconsumed, TypeOK
    <3> QED
      BY <3>1 DEF OneActiveLink, Unconsumed
  <2>3. ASSUME NEW t \in Tokens, Click(t)
        PROVE  OneActiveLink'
    <3>1. \A u \in Tokens : token'[u] # "active"
      BY <2>3 DEF Click, Supersede, Unconsumed, TypeOK
    <3> QED
      BY <3>1 DEF OneActiveLink, Unconsumed
  <2> QED
    BY <2>1, <2>2, <2>3
       DEF Next, Send, TryRowLock, LockCandidate, PhaseA, PhaseAStops, PhaseB0,
           PhaseB0Stops, ProviderCall, Skip, PhaseC, Crash, Claim, EditCard,
           DeleteOrRestore, BeginInitiate, BeginRevoke, Revoke, BeginQueue,
           Queue, CancelMessage, Recover, LinkExpires
<1> QED
  BY <1>1, <1>2, TypeCorrect, PTL DEF Spec

-----------------------------------------------------------------------------
\* Why a consent is the candidate's own: a link has been mailed nowhere before
\* it is issued, to its own address only afterwards, and the consent on record
\* comes from such a link.
LinkHistory ==
    /\ \A t \in Tokens : token[t] = "unissued" => mailed[t] = {}
    /\ LettersReachTheirAddress
    /\ DoubleOptIn

\* A granted consent was given by a link that went to its address and to no
\* other (confirm_candidate_email).
THEOREM ConsentIsTheCandidates == Spec => []DoubleOptIn
<1>1. Init => LinkHistory
  BY DEF Init, LinkHistory, LettersReachTheirAddress, DoubleOptIn
<1>2. /\ TypeOK /\ LiveLinkAtHandOff /\ LinkHistory /\ [Next]_vars
      => LinkHistory'
  <2> SUFFICES ASSUME TypeOK, LiveLinkAtHandOff, LinkHistory, [Next]_vars
               PROVE  LinkHistory'
    OBVIOUS
  <2>1. CASE UNCHANGED <<decision, covered, token, bound, mailed>>
    BY <2>1 DEF LinkHistory, LettersReachTheirAddress, DoubleOptIn
  <2>2. ASSUME NEW q \in Requests, NEW t \in Tokens, Initiate(q, t)
        PROVE  LinkHistory'
    <3>1. /\ token[t] = "unissued" /\ token'[t] = "active" /\ mailed[t] = {}
          /\ UNCHANGED <<decision, covered, mailed>>
      BY <2>2 DEF Initiate, Supersede, TypeOK, LinkHistory
    <3>2. \A u \in Tokens \ {t} :
            /\ bound'[u] = bound[u]
            /\ token[u] = "confirmed" => token'[u] = "confirmed"
            /\ token'[u] = "unissued" => token[u] = "unissued"
      BY <2>2 DEF Initiate, Supersede, Unconsumed, TypeOK
    <3>3. LettersReachTheirAddress'
      BY <3>1, <3>2 DEF LinkHistory, LettersReachTheirAddress
    <3>4. DoubleOptIn'
      BY <3>1, <3>2 DEF LinkHistory, DoubleOptIn
    <3> QED
      BY <3>1, <3>2, <3>3, <3>4 DEF LinkHistory
  <2>3. ASSUME NEW q \in Requests, Revoke(q)
        PROVE  LinkHistory'
    BY <2>3 DEF Revoke, LinkHistory, LettersReachTheirAddress, DoubleOptIn
  <2>4. ASSUME NEW t \in Tokens, Click(t)
        PROVE  LinkHistory'
    <3>1. /\ token'[t] = "confirmed" /\ bound'[t] = covered'
          /\ UNCHANGED <<bound, mailed>>
      BY <2>4 DEF Click, Supersede, TypeOK, LinkMatchesCard
    <3>2. mailed'[t] = {covered'}
      <4>1. mailed[t] # {} /\ mailed[t] \subseteq {bound[t]}
        BY <2>4 DEF Click, LinkHistory, LettersReachTheirAddress
      <4> QED
        BY <3>1, <4>1
    <3>3. \A u \in Tokens : token'[u] = "unissued" => token[u] = "unissued"
      BY <2>4 DEF Click, Supersede, TypeOK
    <3> QED
      BY <3>1, <3>2, <3>3 DEF LinkHistory, LettersReachTheirAddress, DoubleOptIn
  <2>5. ASSUME NEW w \in Workers, ProviderCall(w)
        PROVE  LinkHistory'
    <3>1. CASE cur[w] \in Tokens
               /\ mailed' = [mailed EXCEPT ![cur[w]] = @ \cup {target[w]}]
      <4>1. token[cur[w]] = "active" /\ bound[cur[w]] = target[w]
        BY <2>5, <3>1 DEF ProviderCall, LiveLinkAtHandOff
      <4>2. \A u \in Tokens : u # cur[w] => mailed'[u] = mailed[u]
        BY <3>1 DEF TypeOK
      <4>3. mailed'[cur[w]] = mailed[cur[w]] \cup {bound[cur[w]]}
        BY <3>1, <4>1 DEF TypeOK
      <4>4. UNCHANGED <<decision, covered, token, bound>>
        BY <2>5 DEF ProviderCall
      <4>5. LettersReachTheirAddress'
        BY <4>2, <4>3, <4>4 DEF LinkHistory, LettersReachTheirAddress
      <4> QED
        BY <4>1, <4>2, <4>4, <4>5 DEF LinkHistory, DoubleOptIn
    <3>2. CASE UNCHANGED mailed
      BY <2>1, <2>5, <3>2 DEF ProviderCall
    <3> QED
      BY <2>5, <3>1, <3>2 DEF ProviderCall
  <2> QED
    BY <2>1, <2>2, <2>3, <2>4, <2>5
       DEF Next, Send, TryRowLock, LockCandidate, PhaseA, PhaseAStops, PhaseB0,
           PhaseB0Stops, Skip, PhaseC, Crash, Claim, EditCard, DeleteOrRestore,
           BeginInitiate, BeginRevoke, BeginQueue, Queue, CancelMessage, Recover,
           LinkExpires
<1>3. LinkHistory => DoubleOptIn
  BY DEF LinkHistory
<1> QED
  BY <1>1, <1>2, <1>3, TypeCorrect, LiveLinksOnly, PTL DEF Spec

\* A granted consent is for the address a link was mailed to and used from, and one
\* link at a time is live, whatever requests initiate links and edit the card
\* (routers/candidate_messages.py, confirm_candidate_email).
THEOREM ConsentsAreTheirs == Spec => []ConsentsAreTheCandidates
BY ConsentIsTheCandidates, LinksAreExclusive, PTL DEF ConsentsAreTheCandidates

-----------------------------------------------------------------------------
(* The calls to a provider: what a verdict says is what the provider said. *)

Steps == {"connect", "starttls", "login", "mail", "rcpt", "data", "body"}
Spoken == Steps \cup {"quit"}
Refusals == {"SMTPConnectError", "SMTPResponseException", "SMTPAuthenticationError",
             "SMTPSenderRefused", "SMTPRecipientsRefused", "SMTPDataError"}
Breaks == {"SMTPServerDisconnected", "TimeoutError", "OSError"}

\* What the variables are, which bounds nothing yet.
CallType ==
    /\ config.channel \in {"email", "telegram"}
    /\ letter \in {"fine", "malformed", "too_large"} /\ purpose \in {"send", "check"}
    /\ at \in Spoken \cup {"idle", "failing", "returned"}
    /\ at \in Spoken \cup {"failing"} => config.channel = "email"

Counters == copies \in Nat /\ unheard \in Nat /\ wait \in Nat /\ wait <= MaxWait

\* Nothing is told before it is said: while the session goes on towards the
\* message the provider has said nothing of it, at the end of a send it has taken it.
ToldInTime ==
    /\ at \in Steps \cup {"idle"} => told = "nothing"
    /\ at \in {"mail", "rcpt", "data", "body"} => purpose = "send"
    /\ at = "quit" => told = IF purpose = "send" THEN "taken" ELSE "nothing"

\* A session that failed did so by a refusal, which was told, or by a break.
FailsFor ==
    at = "failing" =>
        /\ told = IF purpose = "send" /\ error.kind \in Refusals THEN "refused" ELSE "nothing"
        /\ error.kind \in Refusals \cup Breaks

\* The parts of VerdictsAreHonest.
VerdictIsTold ==
    at = "returned" =>
        /\ verdict = "accepted" <=> told = "taken"
        /\ verdict = "perm_error" => told \in {"refused", "chat_gone"} \/ letter # "fine"
        /\ class \in Clients!Revoking => told = "chat_gone"
CopiesHeard == copies <= unheard + (IF told = "taken" THEN 1 ELSE 0)

Honest == CallType /\ Counters /\ ToldInTime /\ FailsFor /\ VerdictIsTold /\ CopiesHeard

LEMMA Follows ==
    ASSUME NEW step \in Steps, purpose \in {"send", "check"},
           step \in {"mail", "rcpt", "data", "body"} => purpose = "send"
    PROVE  /\ Clients!FollowingStep(step) \in Spoken
           /\ Clients!FollowingStep(step) \in {"mail", "rcpt", "data", "body"} => purpose = "send"
           /\ Clients!FollowingStep(step) = "quit" /\ purpose = "send" => step = "body"
           /\ step = "body" => Clients!FollowingStep(step) = "quit"
<1> DEFINE S == Clients!Session
           now == CHOOSE n \in DOMAIN S : S[n] = step
           later == {n \in DOMAIN S : n > now /\ Clients!Needed(S[n])}
           next == CHOOSE n \in later : \A m \in later : n <= m
<1>1. Clients!FollowingStep(step) = S[next]
  BY DEF Clients!FollowingStep
<1>2. /\ DOMAIN S = 1..8
      /\ S[1] = "connect" /\ S[2] = "starttls" /\ S[3] = "login" /\ S[4] = "mail"
      /\ S[5] = "rcpt" /\ S[6] = "data" /\ S[7] = "body" /\ S[8] = "quit"
  BY DEF Clients!Session
<1> HIDE DEF S
<1>3. \E n \in 1..7 : S[n] = step
  BY <1>2 DEF Steps
<1>4. now \in 1..8 /\ S[now] = step
  BY <1>2, <1>3
<1>5. now \in 1..7
  BY <1>2, <1>4 DEF Steps
<1> HIDE DEF now
<1>6. 8 \in later
  BY <1>2, <1>5 DEF Clients!Needed
<1>7. later \subseteq 1..8
  BY <1>2
<1>8. \A n \in 4..7 : n > now /\ purpose = "send" => n \in later
  BY <1>2, <1>5 DEF Clients!Needed
<1>9. \A n \in later : n > now /\ Clients!Needed(S[n])
  OBVIOUS
<1> HIDE DEF later
<1>10. \E n \in later : \A m \in later : n <= m
  BY <1>6, <1>7
<1>11. next \in later /\ \A m \in later : next <= m
  BY <1>10
<1> HIDE DEF next
<1>12. next \in 1..8 /\ next > now /\ Clients!Needed(S[next])
  BY <1>7, <1>9, <1>11
<1>13. next = 8 /\ purpose = "send" => now = 7
  BY <1>5, <1>8, <1>11
<1>14. S[next] \in Spoken
  BY <1>2, <1>12 DEF Spoken, Steps
<1>15. S[next] \in {"mail", "rcpt", "data", "body"} => purpose = "send"
  BY <1>12 DEF Clients!Needed
<1>16. S[next] = "quit" => next = 8
  BY <1>2, <1>12
<1>17. step = "body" => now = 7
  BY <1>2, <1>4, <1>5
<1> QED
  BY <1>1, <1>2, <1>4, <1>12, <1>13, <1>14, <1>15, <1>16, <1>17

LEMMA HonestAtFirst == Clients!Init => Honest
<1> SUFFICES ASSUME Clients!Init
             PROVE  Honest
  OBVIOUS
<1>1. config.channel \in {"email", "telegram"}
  <2> DEFINE mail == [channel : {"email"}, encryption : {"none", "starttls", "tls"}, login : BOOLEAN]
             telegram == [channel |-> "telegram", encryption |-> "tls", login |-> TRUE]
  <2>1. config \in mail \/ config = telegram
    BY Zenon DEF Clients!Init
  <2> QED
    BY <2>1
<1>2. /\ letter \in {"fine", "malformed", "too_large"} /\ purpose \in {"send", "check"}
      /\ at = "idle" /\ told = "nothing"
  BY Zenon DEF Clients!Init
<1>3. CallType
  BY <1>1, <1>2 DEF CallType, Spoken, Steps
<1>4. copies = 0 /\ unheard = 0 /\ wait = 0
  BY Zenon DEF Clients!Init
<1>5. Counters /\ CopiesHeard
  BY <1>4, MCEmailAssumption DEF Counters, CopiesHeard
<1> QED
  BY <1>2, <1>3, <1>5 DEF Honest, ToldInTime, FailsFor, VerdictIsTold, Steps

\* What smtp.py makes of an exception: permanent only what was refused, and never a
\* word of a chat.
LEMMA MailClasses ==
    ASSUME NEW e, e.kind \in Refusals \cup Breaks
    PROVE  /\ Clients!ClassifyMail(e)[1] \in {"perm_error", "temp_error"}
           /\ e.kind \in Breaks => Clients!ClassifyMail(e)[1] = "temp_error"
           /\ Clients!ClassifyMail(e)[2] \notin Clients!Revoking
  BY Zenon DEF Refusals, Breaks, Clients!ClassifyMail, Clients!Revoking

LEMMA MailBegins == ASSUME Honest, Clients!BeginMail PROVE Honest'
<1> USE DEF Honest, Clients!BeginMail, Clients!Return
<1>1. CallType'
  BY DEF CallType, Spoken, Steps
<1>2. ToldInTime' /\ FailsFor'
  BY DEF ToldInTime, FailsFor, Spoken, Steps
<1>3. VerdictIsTold'
  BY DEF VerdictIsTold, CallType, ToldInTime, Clients!Revoking
<1>4. CopiesHeard' /\ Counters'
  BY DEF CopiesHeard, Counters
<1> QED
  BY <1>1, <1>2, <1>3, <1>4

LEMMA Speaks ==
    ASSUME Honest, Clients!Speaking
    PROVE  at \in Steps /\ told = "nothing" /\ config.channel = "email"
<1>1. at \in Steps
  BY DEF Clients!Speaking, Clients!Session, Steps
<1> QED
  BY <1>1 DEF Honest, CallType, ToldInTime, Spoken

LEMMA MailGoesOn == ASSUME Honest, Clients!Complied PROVE Honest'
<1>1. at \in Steps /\ told = "nothing" /\ config.channel = "email" /\ at' = Clients!FollowingStep(at)
  BY Speaks DEF Clients!Complied
<1>2. /\ at' \in Spoken
      /\ at' \in {"mail", "rcpt", "data", "body"} => purpose = "send"
      /\ at' = "quit" /\ purpose = "send" => at = "body"
      /\ at = "body" => at' = "quit" /\ purpose = "send"
  BY <1>1, Follows DEF Honest, CallType, ToldInTime
<1>3. UNCHANGED <<config, letter, purpose, error, verdict, class, wait, attempts, unheard>>
  BY DEF Clients!Complied
<1>4. IF at = "body" THEN copies' = copies + 1 /\ told' = "taken" ELSE UNCHANGED <<copies, told>>
  BY DEF Clients!Complied
<1>5. CallType'
  <2>1. CallType
    BY DEF Honest
  <2> QED
    BY <1>1, <1>2, <1>3, <2>1 DEF CallType
<1>6. ToldInTime'
  <2>1. told' = IF at = "body" THEN "taken" ELSE "nothing"
    BY <1>1, <1>4
  <2>2. at' \in Steps => told' = "nothing"
    BY <1>2, <2>1 DEF Steps
  <2>3. at' = "quit" => told' = IF purpose = "send" THEN "taken" ELSE "nothing"
    BY <1>2, <2>1
  <2>4. at' # "idle"
    BY <1>2 DEF Spoken, Steps
  <2> QED
    BY <1>2, <1>3, <2>2, <2>3, <2>4 DEF ToldInTime
<1>7. FailsFor' /\ VerdictIsTold'
  BY <1>2 DEF FailsFor, VerdictIsTold, Spoken, Steps
<1>8. CopiesHeard' /\ Counters'
  <2>1. Counters /\ CopiesHeard
    BY DEF Honest
  <2> QED
    BY <1>1, <1>3, <1>4, <2>1 DEF CopiesHeard, Counters
<1> QED
  BY <1>5, <1>6, <1>7, <1>8 DEF Honest

LEMMA MailRefused == ASSUME Honest, NEW code \in {4, 5}, Clients!Refused(code) PROVE Honest'
<1>1. at \in Steps /\ told = "nothing" /\ config.channel = "email"
  BY Speaks DEF Clients!Refused
<1>2. Clients!Raised(at, code).kind \in Refusals
  <2>1. Clients!Raised(at, code).kind =
            CASE at = "connect" -> "SMTPConnectError"
              [] at = "starttls" -> "SMTPResponseException"
              [] at = "login" -> "SMTPAuthenticationError"
              [] at = "mail" -> "SMTPSenderRefused"
              [] at = "rcpt" -> "SMTPRecipientsRefused"
              [] at \in {"data", "body"} -> "SMTPDataError"
    BY Zenon DEF Clients!Raised
  <2> QED
    BY <1>1, <2>1, Zenon DEF Steps, Refusals
<1>3. /\ error'.kind \in Refusals /\ at' = "failing"
      /\ told' = IF purpose = "send" THEN "refused" ELSE told
      /\ UNCHANGED <<config, letter, purpose, verdict, class, wait, attempts, copies, unheard>>
  BY <1>2 DEF Clients!Refused
<1> HIDE DEF Refusals
<1>4. CallType'
  BY <1>1, <1>3 DEF Honest, CallType
<1>5. ToldInTime' /\ VerdictIsTold'
  BY <1>3 DEF ToldInTime, VerdictIsTold, Steps
<1>6. FailsFor'
  BY <1>1, <1>3 DEF FailsFor, Honest, CallType
<1>7. CopiesHeard' /\ Counters'
  <2>1. Counters /\ CopiesHeard
    BY DEF Honest
  <2> QED
    BY <1>1, <1>3, <2>1 DEF CopiesHeard, Counters
<1> QED
  BY <1>4, <1>5, <1>6, <1>7 DEF Honest

LEMMA MailBreaks == ASSUME Honest, NEW e \in Clients!Broken, Clients!BreaksOff(e) PROVE Honest'
<1>1. at \in Steps /\ told = "nothing" /\ config.channel = "email"
  BY Speaks DEF Clients!BreaksOff
<1>2. e.kind \in Breaks /\ e.kind \notin Refusals
  BY DEF Clients!Broken, Breaks, Refusals
<1>3. /\ error' = e /\ at' = "failing"
      /\ copies' \in {copies, copies + (IF at = "body" THEN 1 ELSE 0)}
      /\ unheard' = IF purpose = "send" THEN unheard + 1 ELSE unheard
      /\ UNCHANGED <<config, letter, purpose, verdict, class, wait, attempts, told>>
  BY DEF Clients!BreaksOff
<1>4. at = "body" => purpose = "send"
  BY DEF Honest, ToldInTime
<1>5. CallType'
  BY <1>1, <1>3 DEF Honest, CallType
<1>6. ToldInTime' /\ VerdictIsTold'
  BY <1>3 DEF ToldInTime, VerdictIsTold, Steps
<1>7. FailsFor'
  BY <1>1, <1>2, <1>3 DEF FailsFor
<1>8. CopiesHeard' /\ Counters'
  <2>1. Counters /\ CopiesHeard
    BY DEF Honest
  <2> QED
    BY <1>1, <1>3, <1>4, <2>1 DEF CopiesHeard, Counters
<1> QED
  BY <1>5, <1>6, <1>7, <1>8 DEF Honest

LEMMA MailEnds == ASSUME Honest, NEW failed \in BOOLEAN, Clients!Quit(failed) PROVE Honest'
<1>1. /\ at' = "returned" /\ at \in {"quit", "failing"}
      /\ UNCHANGED <<config, letter, purpose, error, wait, attempts, copies, told, unheard>>
  BY DEF Clients!Quit, Clients!Return
<1>2. VerdictIsTold'
  <2>1. CASE at = "quit"
    <3>1. verdict' = Clients!Success /\ class' = "none"
      BY <2>1 DEF Clients!Quit, Clients!Return, Clients!AfterQuit
    <3>2. told = IF purpose = "send" THEN "taken" ELSE "nothing"
      BY <2>1 DEF Honest, ToldInTime
    <3> QED
      BY <1>1, <3>1, <3>2 DEF VerdictIsTold, Clients!Success, Clients!Revoking
  <2>2. CASE at = "failing"
    <3>1. /\ verdict' = IF purpose = "send" THEN Clients!ClassifyMail(error)[1] ELSE "failed"
          /\ class' = Clients!ClassifyMail(error)[2]
      BY <2>2 DEF Clients!Quit, Clients!Return
    <3>2. /\ told = IF purpose = "send" /\ error.kind \in Refusals THEN "refused" ELSE "nothing"
          /\ error.kind \in Refusals \cup Breaks
      BY <2>2 DEF Honest, FailsFor
    <3>3. /\ class' \notin Clients!Revoking /\ verdict' \in {"perm_error", "temp_error", "failed"}
          /\ verdict' = "perm_error" => told = "refused"
      BY <3>1, <3>2, MailClasses
    <3> QED
      BY <1>1, <3>2, <3>3 DEF VerdictIsTold
  <2> QED
    BY <1>1, <2>1, <2>2
<1>3. CallType'
  BY <1>1 DEF Honest, CallType, Spoken, Steps
<1>4. ToldInTime' /\ FailsFor'
  BY <1>1 DEF ToldInTime, FailsFor, Steps
<1>5. CopiesHeard' /\ Counters'
  BY <1>1 DEF Honest, CopiesHeard, Counters
<1> QED
  BY <1>2, <1>3, <1>4, <1>5 DEF Honest

\* What telegram.py makes of an answer.
LEMMA PostClasses ==
    ASSUME NEW a \in Clients!Answers
    PROVE  /\ a.status \notin {400, 401, 403, 404} => Clients!ClassifyPost(a) \in Clients!Temporary
           /\ Clients!ClassifyPost(a) \in Clients!Revoking => a.says \in Clients!Revoking
<1> DEFINE s == a.status
<1>1. s \in {200, 302, 400, 401, 403, 404, 429, 500}
  BY DEF Clients!Answers
<1>2. CASE s = 200
  <2>1. s # 400 /\ s # 401 /\ s # 403 /\ s # 404 /\ s # 429
    BY <1>2
  <2> QED
    <3>1. Clients!ClassifyPost(a) = "bad_response"
      BY <1>2, <2>1, Zenon DEF Clients!ClassifyPost
    <3> QED
      BY <3>1 DEF Clients!Revoking, Clients!Temporary
<1>3. CASE s = 400
  <2>1. s # 200 /\ s # 401 /\ s # 403 /\ s # 404 /\ s # 429
    BY <1>3
  <2> QED
    <3>1. Clients!ClassifyPost(a) = (IF a.says = "chat_not_found" THEN a.says ELSE "bad_request")
      BY <1>3, <2>1, Zenon DEF Clients!ClassifyPost
    <3> QED
      BY <1>3, <2>1, <3>1 DEF Clients!Revoking, Clients!Temporary
<1>4. CASE s = 401
  <2>1. s # 200 /\ s # 400 /\ s # 403 /\ s # 404 /\ s # 429
    BY <1>4
  <2> QED
    <3>1. Clients!ClassifyPost(a) = "unauthorized"
      BY <1>4, <2>1, Zenon DEF Clients!ClassifyPost
    <3> QED
      BY <1>4, <2>1, <3>1 DEF Clients!Revoking, Clients!Temporary
<1>5. CASE s = 403
  <2>1. s # 200 /\ s # 400 /\ s # 401 /\ s # 404 /\ s # 429
    BY <1>5
  <2> QED
    <3>1. Clients!ClassifyPost(a) = (IF a.says \in {"blocked", "deactivated"} THEN a.says ELSE "forbidden")
      BY <1>5, <2>1, Zenon DEF Clients!ClassifyPost
    <3> QED
      BY <1>5, <2>1, <3>1 DEF Clients!Revoking, Clients!Temporary
<1>6. CASE s = 404
  <2>1. s # 200 /\ s # 400 /\ s # 401 /\ s # 403 /\ s # 429
    BY <1>6
  <2> QED
    <3>1. Clients!ClassifyPost(a) = "unauthorized"
      BY <1>6, <2>1, Zenon DEF Clients!ClassifyPost
    <3> QED
      BY <1>6, <2>1, <3>1 DEF Clients!Revoking, Clients!Temporary
<1>7. CASE s = 429
  <2>1. s # 200 /\ s # 400 /\ s # 401 /\ s # 403 /\ s # 404
    BY <1>7
  <2> QED
    <3>1. Clients!ClassifyPost(a) = "rate_limited"
      BY <1>7, <2>1, Zenon DEF Clients!ClassifyPost
    <3> QED
      BY <1>7, <2>1, <3>1 DEF Clients!Revoking, Clients!Temporary
<1>8. CASE s \in {302, 500}
  <2>1. s # 200 /\ s # 400 /\ s # 401 /\ s # 403 /\ s # 404 /\ s # 429
    BY <1>8
  <2> QED
    <3>1. Clients!ClassifyPost(a) = "server"
      BY <2>1, Zenon DEF Clients!ClassifyPost
    <3> QED
      BY <3>1 DEF Clients!Revoking, Clients!Temporary
<1> QED
  BY <1>1, <1>2, <1>3, <1>4, <1>5, <1>6, <1>7, <1>8

LEMMA PostTells ==
    ASSUME NEW a, NEW taken, Clients!Post(a, taken)
    PROVE  told' = IF purpose = "check" THEN told ELSE Clients!Said(a)
  BY DEF Clients!Post

LEMMA PostEnds ==
    ASSUME Honest, NEW a \in Clients!Answers, NEW taken \in BOOLEAN, Clients!Post(a, taken)
    PROVE  Honest'
<1> DEFINE ok == a.status = 200 /\ a.body = "ok"
           kind == Clients!ClassifyPost(a)
           gone == a.says \in Clients!Revoking
           lost == a.status = 500 \/ (a.status = 200 /\ a.body = "unreadable")
<1>0. /\ a.says \in Clients!Revoking => a.status \in {400, 403} /\ a.body = "not_ok"
      /\ a.status \in {400, 401, 403, 404, 429, 302} => ~taken
      /\ a.status = 200 /\ a.body # "unreadable" => (taken <=> a.body = "ok")
      /\ purpose = "check" => a.says = "nothing"
  <2>1. Clients!Possible(a, taken)
    BY DEF Clients!Post
  <2>2. /\ a.status \in {400, 401, 403, 404, 429, 302} => ~taken
        /\ a.status = 200 /\ a.body # "unreadable" => (taken <=> a.body = "ok")
        /\ a.says \in {"blocked", "deactivated"} => a.status = 403 /\ a.body = "not_ok"
        /\ a.says = "chat_not_found" => a.status = 400 /\ a.body = "not_ok"
        /\ purpose = "check" => a.says = "nothing"
    BY <2>1, Zenon DEF Clients!Possible
  <2>3. a.says \in Clients!Revoking => a.status \in {400, 403} /\ a.body = "not_ok"
    <3>0. SUFFICES ASSUME a.says \in Clients!Revoking
                   PROVE  a.status \in {400, 403} /\ a.body = "not_ok"
      OBVIOUS
    <3>1. 403 \in {400, 403} /\ 400 \in {400, 403}
      OBVIOUS
    <3>2. a.says \in {"blocked", "deactivated"} \/ a.says = "chat_not_found"
      BY <3>0, Zenon DEF Clients!Revoking
    <3>3. CASE a.says \in {"blocked", "deactivated"}
      <4>1. a.status = 403 /\ a.body = "not_ok"
        BY <2>2, <3>3, Zenon
      <4> QED
        BY <4>1, <3>1, Zenon
    <3>4. CASE a.says = "chat_not_found"
      <4>1. a.status = 400 /\ a.body = "not_ok"
        BY <2>2, <3>4, Zenon
      <4> QED
        BY <4>1, <3>1, Zenon
    <3> QED
      BY <3>2, <3>3, <3>4
  <2> QED
    BY <2>2, <2>3, Zenon
<1>1. /\ at = "idle" /\ at' = "returned"
      /\ UNCHANGED <<config, letter, purpose, error, attempts>>
  BY DEF Clients!Post, Clients!Return
<1>2. told = "nothing" /\ purpose \in {"send", "check"} /\ copies <= unheard
  <2>1. told = "nothing" /\ purpose \in {"send", "check"}
    BY <1>1 DEF Honest, ToldInTime, CallType
  <2> QED
    BY <2>1 DEF Honest, CopiesHeard, Counters
<1>3. wait' \in Nat /\ wait' <= MaxWait
  <2>1. wait' = IF kind = "rate_limited" /\ a.retry > 0
                THEN (IF a.retry < MaxWait THEN a.retry ELSE MaxWait) ELSE 0
    BY DEF Clients!Post
  <2>2. a.retry \in Nat
    <3>1. a.retry \in 0..MaxWait + 1
      BY DEF Clients!Answers
    <3> QED
      BY <3>1, MCEmailAssumption
  <2> QED
    BY <2>1, <2>2, MCEmailAssumption
<1>4. /\ verdict' = IF ok THEN Clients!Success
                    ELSE IF purpose = "check" THEN "failed"
                    ELSE IF kind \in Clients!Temporary THEN "temp_error" ELSE "perm_error"
      /\ class' = IF ok THEN "none" ELSE kind
  BY DEF Clients!Post, Clients!Return
<1>5. told' = IF purpose = "check" THEN told
              ELSE IF ok THEN "taken"
              ELSE IF gone THEN "chat_gone"
              ELSE IF a.status \in {400, 401, 403, 404} THEN "refused" ELSE "nothing"
  <2>1. told' = IF purpose = "check" THEN told ELSE Clients!Said(a)
    BY PostTells
  <2>2. ~(ok /\ gone) /\ ~(ok /\ a.status \in {400, 401, 403, 404})
    <3>1. ~(ok /\ gone)
      BY <1>0
    <3>2. ~(ok /\ a.status \in {400, 401, 403, 404})
      OBVIOUS
    <3> QED
      BY <3>1, <3>2
  <2> DEFINE refused == a.status \in {400, 401, 403, 404}
  <2>3. Clients!Said(a) = CASE ok -> "taken" [] gone -> "chat_gone"
                            [] refused /\ ~gone -> "refused" [] OTHER -> "nothing"
    BY Zenon DEF Clients!Said
  <2> HIDE DEF ok, gone, refused
  <2>4. Clients!Said(a) = IF ok THEN "taken" ELSE IF gone THEN "chat_gone"
                          ELSE IF refused THEN "refused" ELSE "nothing"
    <3>1. ~(ok /\ gone) /\ ~(ok /\ refused)
      BY <2>2 DEF refused
    <3>2. CASE ok
      BY <2>3, <3>1, <3>2, Zenon
    <3>3. CASE gone
      BY <2>3, <3>1, <3>3, Zenon
    <3>4. CASE refused /\ ~gone
      BY <2>3, <3>1, <3>4, Zenon
    <3>5. CASE ~ok /\ ~gone /\ ~refused
      BY <2>3, <3>5, Zenon
    <3> QED
      BY <3>2, <3>3, <3>4, <3>5
  <2> QED
    BY <2>1, <2>4 DEF refused
<1>6. /\ copies' = IF purpose = "send" /\ taken THEN copies + 1 ELSE copies
      /\ unheard' = IF purpose = "send" /\ lost THEN unheard + 1 ELSE unheard
  BY DEF Clients!Post
<1>7. taken => lost \/ ok
  <2>1. /\ a.status \in {200, 302, 400, 401, 403, 404, 429, 500}
        /\ a.body \in {"ok", "not_ok", "unreadable"}
    BY DEF Clients!Answers
  <2>2. /\ a.status \in {400, 401, 403, 404, 429, 302} => ~taken
        /\ a.status = 200 /\ a.body # "unreadable" => (taken <=> a.body = "ok")
    BY <1>0
  <2>3. CASE a.status = 200
    BY <2>1, <2>2, <2>3
  <2>4. CASE a.status \in {400, 401, 403, 404, 429, 302}
    BY <2>2, <2>4
  <2>5. CASE a.status = 500
    BY <2>5
  <2>6. \/ a.status = 200
        \/ a.status \in {400, 401, 403, 404, 429, 302}
        \/ a.status = 500
    BY <2>1
  <2> QED
    BY <2>3, <2>4, <2>5, <2>6
<1>8. gone => purpose = "send" /\ ~ok
  <2>1. "nothing" \notin Clients!Revoking
    BY DEF Clients!Revoking
  <2>2. /\ purpose = "check" => a.says = "nothing"
        /\ gone => a.body = "not_ok"
    BY <1>0
  <2>3. purpose \in {"send", "check"}
    BY <1>2
  <2> QED
    BY <2>1, <2>2, <2>3
<1>9. ~ok /\ kind \in Clients!Revoking => gone
  BY PostClasses
<1>10. a.status \notin {400, 401, 403, 404} => kind \in Clients!Temporary
  BY PostClasses
<1>11. VerdictIsTold'
  <2>1. verdict' = "accepted" <=> told' = "taken"
    BY <1>2, <1>4, <1>5 DEF Clients!Success
  <2>2. verdict' = "perm_error" => told' \in {"refused", "chat_gone"}
    BY <1>2, <1>4, <1>5, <1>10 DEF Clients!Success
  <2>3. class' \in Clients!Revoking => told' = "chat_gone"
    <3>1. "none" \notin Clients!Revoking
      BY DEF Clients!Revoking
    <3> QED
      BY <1>2, <1>4, <1>5, <1>8, <1>9, <3>1
  <2> QED
    BY <2>1, <2>2, <2>3 DEF VerdictIsTold
<1>12. CopiesHeard' /\ Counters'
  <2>1. purpose = "send" /\ ok => told' = "taken"
    BY <1>5
  <2>2. copies \in Nat /\ unheard \in Nat
    BY DEF Honest, Counters
  <2> QED
    BY <1>2, <1>3, <1>6, <1>7, <2>1, <2>2 DEF CopiesHeard, Counters
<1>13. CallType'
  BY <1>1 DEF Honest, CallType, Spoken, Steps
<1> QED
  BY <1>1, <1>11, <1>12, <1>13 DEF Honest, ToldInTime, FailsFor, Steps

LEMMA PostBreaks ==
    ASSUME Honest, NEW kind \in {"timeout", "network"}, NEW taken \in BOOLEAN,
           Clients!PostBreaksOff(kind, taken)
    PROVE  Honest'
<1> USE DEF Clients!PostBreaksOff, Clients!Return
<1>1. CallType'
  BY DEF Honest, CallType, Spoken, Steps
<1>2. ToldInTime' /\ FailsFor'
  BY DEF ToldInTime, FailsFor, Steps
<1>3. VerdictIsTold'
  BY DEF Honest, ToldInTime, VerdictIsTold, Clients!Revoking
<1>4. CopiesHeard' /\ Counters'
  <2>1. Counters /\ CopiesHeard /\ told = "nothing"
    BY DEF Honest, ToldInTime
  <2> QED
    BY <2>1 DEF CopiesHeard, Counters
<1> QED
  BY <1>1, <1>2, <1>3, <1>4 DEF Honest

\* The next call begins with nothing told, and what came before is counted in unheard.
LEMMA NextCall == ASSUME Honest, Clients!Retry \/ Clients!Another PROVE Honest'
<1>1. /\ at' = "idle" /\ wait' = 0 /\ told' = "nothing"
      /\ UNCHANGED <<config, letter, purpose>>
      /\ \/ copies' = 0 /\ unheard' = 0
         \/ told # "taken" /\ UNCHANGED <<copies, unheard>>
  BY DEF Clients!Retry, Clients!Another, Honest, VerdictIsTold
<1>2. CallType'
  BY <1>1 DEF Honest, CallType, Spoken, Steps
<1>3. CopiesHeard' /\ Counters'
  <2>1. Counters /\ CopiesHeard
    BY DEF Honest
  <2> QED
    BY <1>1, <2>1, MCEmailAssumption DEF CopiesHeard, Counters
<1> QED
  BY <1>1, <1>2, <1>3 DEF Honest, ToldInTime, FailsFor, VerdictIsTold

LEMMA HonestStep ==
    ASSUME Honest, [MCNext]_<<vars, stage, clientVars>>
    PROVE  Honest'
<1>1. CASE Clients!Next
  BY <1>1, MailBegins, MailGoesOn, MailRefused, MailBreaks, MailEnds, PostEnds, PostBreaks, NextCall
     DEF Clients!Next
<1>2. CASE UNCHANGED clientVars
  BY <1>2 DEF clientVars, Honest, CallType, Counters, ToldInTime, FailsFor, VerdictIsTold, CopiesHeard
<1> QED
  BY <1>1, <1>2 DEF MCNext

\* What a call returns is what the provider said (smtp.py, telegram.py), at whichever
\* step the session breaks, for any number of attempts and any wait.
THEOREM HonestVerdicts == MCFairSpec => []VerdictsAreHonest
<1>1. MCInit => Honest
  BY HonestAtFirst DEF MCInit
<1>2. Honest /\ [MCNext]_<<vars, stage, clientVars>> => Honest'
  BY HonestStep
<1>3. Honest => VerdictsAreHonest
  BY DEF Honest, Counters, VerdictIsTold, CopiesHeard, VerdictsAreHonest, Clients!VerdictsAreHonest
<1> QED
  BY <1>1, <1>2, <1>3, PTL DEF MCFairSpec
=============================================================================
