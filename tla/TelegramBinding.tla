---------------------------- MODULE TelegramBinding ----------------------------
(***************************************************************************)
(* Binding Telegram chats to recipients: invitations of candidates and     *)
(* link codes of users, the shared poll of the bot's inbox, the bindings,  *)
(* a candidate's Telegram consent, and the sends that use them.  Sources:  *)
(* routers/candidate_messages.py, routers/integrations.py, telegram.py,    *)
(* candidate_messages.py and the telegram branches of worker.py.           *)
(*                                                                         *)
(* A confirm request is one transaction of several statements.  It reads   *)
(* the invitation, waits for the row lock of TelegramPollState, polls, and *)
(* keeps the lock until it commits or rolls back; its writes appear at the *)
(* commit.  Sessions run at READ COMMITTED, so two reads of one request    *)
(* may see different rows.                                                 *)
(*                                                                         *)
(* Telegram's inbox is external: it hands out updates from an offset on,   *)
(* and drops those below it for good.  The pruning of start events (after  *)
(* a day, when links live minutes) and the partial unique indexes on       *)
(* active chats, which a confirm never reaches while the poll row          *)
(* serialises it, are left out.                                            *)
(***************************************************************************)
EXTENDS Naturals, Sequences, FiniteSets

CONSTANTS
    Candidates, Users,  \* the two kinds of recipient
    Tokens, OwnerOf,    \* invitations and link codes that may be issued, to whom
    Chats,
    Sessions,           \* HTTP requests in progress at the same time
    MaxUpdates,         \* bound: updates in the bot's inbox
    NoChat, NoToken, Free

Recipients == Candidates \cup Users

ASSUME KindAssumption == Candidates \cap Users = {}
ASSUME OwnerAssumption == IsFiniteSet(Tokens) /\ OwnerOf \in [Tokens -> Recipients]
ASSUME BoundAssumption == MaxUpdates \in Nat
ASSUME NullAssumption ==
    /\ NoChat \notin Chats
    /\ NoToken \notin Tokens /\ Free \notin Sessions

VARIABLES
    inbox,                 \* Telegram: the /start updates, by update id
    offset,                \* telegram_poll_state.last_update_id
    started,               \* telegram_start_events: chat seen for a token
    token, expired, born,  \* link tokens; born: order of creation
    chat, revoked,         \* the bindings
    decision,              \* candidate consent
    pollLock,              \* session holding the poll row
    pc, tok, older, polled,\* sessions: step, token, what the UPDATE or the poll saw
    queued, sending, aim,  \* candidate sends: row queued, phase, chat resolved
    blocked,               \* history: chats that block the bot
    hrSaid,                \* history: HR's latest decision
    clashed                \* history: tokens whose start event met a conflict

polling  == <<offset, started>>
tokens   == <<token, expired, born>>
bindings == <<chat, revoked>>
sessions == <<pollLock, pc, tok, older, polled>>
sends    == <<queued, sending, aim>>
ghosts   == <<blocked, hrSaid, clashed>>
vars     == <<inbox, polling, tokens, bindings, decision, sessions, sends, ghosts>>

Phases == {"idle", "phaseB0", "call", "phaseC", "dead"}

TypeOK ==
    /\ inbox \in Seq([token : Tokens, chat : Chats]) /\ Len(inbox) <= MaxUpdates
    /\ offset \in 0..Len(inbox)
    /\ started \in [Tokens -> Chats \cup {NoChat}]
    /\ token \in [Tokens -> {"unissued", "active", "superseded", "linked"}]
    /\ expired \in [Tokens -> BOOLEAN]
    /\ born \in [Tokens -> Nat]
    /\ chat \in [Recipients -> Chats \cup {NoChat}]
    /\ revoked \in [Recipients -> BOOLEAN]
    /\ decision \in [Candidates -> {"none", "granted", "refused"}]
    /\ pollLock \in Sessions \cup {Free}
    /\ pc \in [Sessions -> {"idle", "invite", "confirm", "settle", "consent", "insert"}]
    /\ tok \in [Sessions -> Tokens \cup {NoToken}]
    /\ \A s \in Sessions : pc[s] = "idle" <=> tok[s] = NoToken
    /\ older \in [Sessions -> SUBSET Tokens]
    /\ polled \in [Sessions -> 0..Len(inbox)]
    /\ queued \in [Candidates -> BOOLEAN]
    /\ sending \in [Candidates -> Phases]
    /\ aim \in [Candidates -> Chats \cup {NoChat}]
    /\ blocked \subseteq Chats
    /\ hrSaid \in [Candidates -> {"none", "granted", "refused"}]
    /\ clashed \subseteq Tokens

Init ==
    /\ inbox = <<>> /\ offset = 0
    /\ started = [t \in Tokens |-> NoChat]
    /\ token = [t \in Tokens |-> "unissued"]
    /\ expired = [t \in Tokens |-> FALSE]
    /\ born = [t \in Tokens |-> 0]
    /\ chat = [r \in Recipients |-> NoChat]
    /\ revoked = [r \in Recipients |-> FALSE]
    /\ decision = [c \in Candidates |-> "none"]
    /\ pollLock = Free
    /\ pc = [s \in Sessions |-> "idle"]
    /\ tok = [s \in Sessions |-> NoToken]
    /\ older = [s \in Sessions |-> {}]
    /\ polled = [s \in Sessions |-> 0]
    /\ queued = [c \in Candidates |-> FALSE]
    /\ sending = [c \in Candidates |-> "idle"]
    /\ aim = [c \in Candidates |-> NoChat]
    /\ blocked = {} /\ clashed = {}
    /\ hrSaid = [c \in Candidates |-> "none"]

Active(r) == chat[r] # NoChat /\ ~revoked[r]

-----------------------------------------------------------------------------
(* Telegram and time.                                                      *)

PressStart(t, x) ==
    /\ token[t] # "unissued" /\ x \notin blocked /\ Len(inbox) < MaxUpdates
    /\ inbox' = Append(inbox, [token |-> t, chat |-> x])
    /\ UNCHANGED <<polling, tokens, bindings, decision, sessions, sends, ghosts>>

BlockBot(x) ==
    /\ x \notin blocked
    /\ blocked' = blocked \cup {x}
    /\ UNCHANGED <<inbox, polling, tokens, bindings, decision, sessions, sends,
                   hrSaid, clashed>>

TokenExpires(t) ==
    /\ token[t] = "active" /\ ~expired[t]
    /\ expired' = [expired EXCEPT ![t] = TRUE]
    /\ UNCHANGED <<inbox, polling, token, born, bindings, decision, sessions,
                   sends, ghosts>>

-----------------------------------------------------------------------------
(* Invitations and link codes.  The UPDATE that supersedes older ones sees *)
(* the rows committed before it; the new row is inserted with the commit.  *)

Unconsumed(r) == {t \in Tokens : OwnerOf[t] = r /\ token[t] = "active"}

\* A confirm that consumed a token holds its row until it commits.
RowHeld(t) == \E s \in Sessions : tok[s] = t /\ pc[s] \in {"consent", "insert"}

BeginInvite(s, t) ==
    /\ pc[s] = "idle" /\ token[t] = "unissued" /\ born[t] = 0
    /\ pc' = [pc EXCEPT ![s] = "invite"]
    /\ tok' = [tok EXCEPT ![s] = t]
    /\ older' = [older EXCEPT ![s] = Unconsumed(OwnerOf[t])]
    /\ born' = [born EXCEPT ![t] = 1 + Cardinality({u \in Tokens : born[u] > 0})]
    /\ UNCHANGED <<inbox, polling, token, expired, bindings, decision, pollLock, polled,
                   sends, ghosts>>

CommitInvite(s) ==
    /\ pc[s] = "invite" /\ \A u \in older[s] : ~RowHeld(u)
    /\ token' = [u \in Tokens |->
                   IF u = tok[s] THEN "active"
                   ELSE IF u \in older[s] /\ token[u] = "active" THEN "superseded"
                   ELSE token[u]]
    /\ pc' = [pc EXCEPT ![s] = "idle"]
    /\ tok' = [tok EXCEPT ![s] = NoToken]
    /\ older' = [older EXCEPT ![s] = {}]
    /\ UNCHANGED <<inbox, polling, expired, born, bindings, decision, pollLock, polled,
                   sends, ghosts>>

-----------------------------------------------------------------------------
(* Confirming a link.                                                      *)

\* _active_invite, _active_link_token: the newest live token of its owner.
Newest(t) ==
    /\ token[t] = "active" /\ ~expired[t]
    /\ \A u \in Unconsumed(OwnerOf[t]) : ~expired[u] => born[u] <= born[t]

BeginConfirm(s, t) ==
    /\ pc[s] = "idle" /\ Newest(t)
    /\ pc' = [pc EXCEPT ![s] = "confirm"]
    /\ tok' = [tok EXCEPT ![s] = t]
    /\ UNCHANGED <<inbox, polling, tokens, bindings, decision, pollLock, older, polled,
                   sends, ghosts>>

\* SELECT ... FOR UPDATE of the poll row, then getUpdates from the offset on.
NoPollLock == TRUE
PollRowFree == pollLock = Free

\* max_update_id: what the offset will be when the poll is committed.
PastHighest == Len(inbox) + 1
Highest == Len(inbox)

Poll(s) ==
    /\ pc[s] = "confirm" /\ PollRowFree
    /\ pollLock' = s
    /\ pc' = [pc EXCEPT ![s] = "settle"]
    /\ polled' = [polled EXCEPT ![s] = Highest]
    /\ UNCHANGED <<inbox, polling, tokens, bindings, decision, tok, older, sends, ghosts>>

\* The request ends and releases the poll row.
Finish(s) ==
    /\ pc' = [pc EXCEPT ![s] = "idle"]
    /\ tok' = [tok EXCEPT ![s] = NoToken]
    /\ polled' = [polled EXCEPT ![s] = 0]
    /\ pollLock' = Free
    /\ UNCHANGED older

\* Telegram unreachable, or the process dies: nothing was written.
Rollback(s) ==
    /\ pc[s] \in {"settle", "consent", "insert"}
    /\ Finish(s)
    /\ UNCHANGED <<inbox, polling, tokens, bindings, decision, sends, ghosts>>

\* The start events after the poll: the first chat seen for a token stays.
Seen(s, t) == {i \in offset+1..polled[s] : inbox[i].token = t}
First(S) == CHOOSE i \in S : \A j \in S : i <= j
OwnStartOnly(s) ==
    [t \in Tokens |-> IF t # tok[s] \/ started[t] # NoChat \/ Seen(s, t) = {} THEN started[t]
                      ELSE inbox[First(Seen(s, t))].chat]
Recorded(s) ==
    [t \in Tokens |-> IF started[t] # NoChat \/ Seen(s, t) = {} THEN started[t]
                      ELSE inbox[First(Seen(s, t))].chat]

\* Who already uses chat x, as the two confirm endpoints look it up.
ForgotUsers(r, x) == \E q \in Candidates \ {r} : Active(q) /\ chat[q] = x
Held(r, x) ==
    IF r \in Users THEN \E q \in Users \ {r} : Active(q) /\ chat[q] = x
                   ELSE \E q \in Recipients \ {r} : Active(q) /\ chat[q] = x

\* UPDATE ... WHERE id = :token AND consumed_at IS NULL
ForgotCompare(t) == TRUE
Consumable(t) == token[t] = "active"

\* The writes of a successful confirm.
Bind(s) ==
    LET r == OwnerOf[tok[s]] IN
    /\ offset' = polled[s]
    /\ started' = [Recorded(s) EXCEPT ![tok[s]] = NoChat]
    /\ token' = [token EXCEPT ![tok[s]] = "linked"]
    /\ chat' = [chat EXCEPT ![r] = Recorded(s)[tok[s]]]
    /\ revoked' = [revoked EXCEPT ![r] = FALSE]
    /\ UNCHANGED <<expired, born>>

\* No start event yet: keep the offset and the events, leave the token alone.
NotStarted(s) ==
    /\ pc[s] = "settle" /\ Recorded(s)[tok[s]] = NoChat
    /\ offset' = polled[s] /\ started' = Recorded(s)
    /\ Finish(s)
    /\ UNCHANGED <<inbox, tokens, bindings, decision, sends, ghosts>>

\* The chat is somebody else's: drop the event, leave the token alone.
ChatTaken(s) ==
    LET r == OwnerOf[tok[s]] IN
    /\ pc[s] = "settle" /\ Recorded(s)[tok[s]] # NoChat
    /\ Held(r, Recorded(s)[tok[s]])
    /\ offset' = polled[s]
    /\ started' = [Recorded(s) EXCEPT ![tok[s]] = NoChat]
    /\ clashed' = clashed \cup {tok[s]}
    /\ Finish(s)
    /\ UNCHANGED <<inbox, tokens, bindings, decision, sends, blocked, hrSaid>>

MayBind(s) ==
    /\ pc[s] = "settle" /\ Recorded(s)[tok[s]] # NoChat
    /\ ~Held(OwnerOf[tok[s]], Recorded(s)[tok[s]])

\* The token was superseded or used since it was read.
TokenGone(s) ==
    /\ MayBind(s) /\ ~Consumable(tok[s])
    /\ Finish(s)
    /\ UNCHANGED <<inbox, polling, tokens, bindings, decision, sends, ghosts>>

\* A user, or a candidate whose consent is already decided.
BindKnown(s) ==
    LET r == OwnerOf[tok[s]] IN
    /\ MayBind(s) /\ Consumable(tok[s])
    /\ r \in Candidates => decision[r] # "none"
    /\ Bind(s) /\ Finish(s)
    /\ UNCHANGED <<inbox, decision, sends, ghosts>>

\* A candidate without a decision: the Start is the consent.  The endpoint has
\* seen no consent row and record_candidate_consent reads it a second time...
StartIsConsent(s) ==
    /\ MayBind(s) /\ Consumable(tok[s])
    /\ OwnerOf[tok[s]] \in Candidates /\ decision[OwnerOf[tok[s]]] = "none"
    /\ pc' = [pc EXCEPT ![s] = "consent"]
    /\ UNCHANGED <<inbox, polling, tokens, bindings, decision, pollLock, tok, older,
                   polled, sends, ghosts>>

\* ...and updates the row when there is one by now,
UpdateConsent(s) ==
    /\ pc[s] = "consent" /\ decision[OwnerOf[tok[s]]] # "none"
    /\ decision' = [decision EXCEPT ![OwnerOf[tok[s]]] = "granted"]
    /\ Bind(s) /\ Finish(s)
    /\ UNCHANGED <<inbox, sends, ghosts>>

InsertConsent(s) ==
    /\ pc[s] = "consent" /\ decision[OwnerOf[tok[s]]] = "none"
    /\ pc' = [pc EXCEPT ![s] = "insert"]
    /\ UNCHANGED <<inbox, polling, tokens, bindings, decision, pollLock, tok, older,
                   polled, sends, ghosts>>

\* or inserts it, where the primary key turns a row that appeared meanwhile
\* into an error and a rollback (Rollback).
CommitConsent(s) ==
    /\ pc[s] = "insert" /\ decision[OwnerOf[tok[s]]] = "none"
    /\ decision' = [decision EXCEPT ![OwnerOf[tok[s]]] = "granted"]
    /\ Bind(s) /\ Finish(s)
    /\ UNCHANGED <<inbox, sends, ghosts>>

-----------------------------------------------------------------------------
(* HR on a candidate's channel; unlinking, of candidates and users.        *)

\* set_telegram_consent takes the candidate's lock, which a send in flight has.
NoMutationLock(c) == TRUE
CandidateUnlocked(c) == sending[c] = "idle"

SetConsent(c, d) ==
    /\ CandidateUnlocked(c)
    /\ decision' = [decision EXCEPT ![c] = d]
    /\ hrSaid' = [hrSaid EXCEPT ![c] = d]
    /\ queued' = [queued EXCEPT ![c] = @ /\ d = "granted"]
    /\ UNCHANGED <<inbox, polling, tokens, bindings, sessions, sending, aim,
                   blocked, clashed>>

Unlink(r) ==
    /\ Active(r)
    /\ revoked' = [revoked EXCEPT ![r] = TRUE]
    /\ queued' = [c \in Candidates |-> queued[c] /\ c # r]
    /\ UNCHANGED <<inbox, polling, tokens, chat, decision, sessions, sending, aim, ghosts>>

-----------------------------------------------------------------------------
(* Sends to a candidate: one at a time, the worker holding the candidate's *)
(* lock through its phases.                                                *)

QueueMessage(c) ==
    /\ ~queued[c] /\ Active(c) /\ decision[c] = "granted"
    /\ queued' = [queued EXCEPT ![c] = TRUE]
    /\ UNCHANGED <<inbox, polling, tokens, bindings, decision, sessions, sending, aim,
                   ghosts>>

Sendable(c) == Active(c) /\ decision[c] = "granted"

\* Claim, locks and phase A.
BeginSend(c) ==
    /\ queued[c] /\ sending[c] = "idle"
    /\ queued' = [queued EXCEPT ![c] = FALSE]
    /\ sending' = [sending EXCEPT ![c] = IF Sendable(c) THEN "phaseB0" ELSE "idle"]
    /\ UNCHANGED <<inbox, polling, tokens, bindings, decision, sessions, aim, ghosts>>

PhaseB0(c) ==
    /\ sending[c] = "phaseB0"
    /\ IF Sendable(c)
       THEN /\ sending' = [sending EXCEPT ![c] = "call"]
            /\ aim' = [aim EXCEPT ![c] = chat[c]]
       ELSE sending' = [sending EXCEPT ![c] = "idle"] /\ UNCHANGED aim
    /\ UNCHANGED <<inbox, polling, tokens, bindings, decision, sessions, queued, ghosts>>

\* A chat that blocks the bot is a permanent, revoking error.
ProviderCall(c) ==
    /\ sending[c] = "call"
    /\ sending' = [sending EXCEPT ![c] = IF aim[c] \in blocked THEN "dead" ELSE "phaseC"]
    /\ UNCHANGED <<inbox, polling, tokens, bindings, decision, sessions, queued, aim,
                   ghosts>>

\* Accepted, failed, or queued again after a temporary error.
PhaseC(c) ==
    /\ sending[c] = "phaseC"
    /\ \E again \in BOOLEAN : queued' = [queued EXCEPT ![c] = @ \/ again]
    /\ sending' = [sending EXCEPT ![c] = "idle"]
    /\ aim' = [aim EXCEPT ![c] = NoChat]
    /\ UNCHANGED <<inbox, polling, tokens, bindings, decision, sessions, ghosts>>

\* _auto_revoke_candidate_telegram, in phase C of the failed send.
AutoRevoke(c) ==
    /\ sending[c] = "dead"
    /\ revoked' = [revoked EXCEPT ![c] = TRUE]
    /\ sending' = [sending EXCEPT ![c] = "idle"]
    /\ aim' = [aim EXCEPT ![c] = NoChat]
    /\ UNCHANGED <<inbox, polling, tokens, chat, decision, sessions, queued, ghosts>>

-----------------------------------------------------------------------------

Confirm(s) ==
    \/ Poll(s) \/ Rollback(s) \/ NotStarted(s) \/ ChatTaken(s) \/ TokenGone(s)
    \/ BindKnown(s) \/ StartIsConsent(s) \/ UpdateConsent(s) \/ InsertConsent(s)
    \/ CommitConsent(s)

Next ==
    \/ \E t \in Tokens, x \in Chats : PressStart(t, x)
    \/ \E x \in Chats : BlockBot(x)
    \/ \E t \in Tokens : TokenExpires(t)
    \/ \E s \in Sessions, t \in Tokens : BeginInvite(s, t) \/ BeginConfirm(s, t)
    \/ \E s \in Sessions : CommitInvite(s) \/ Confirm(s)
    \/ \E c \in Candidates, d \in {"granted", "refused"} : SetConsent(c, d)
    \/ \E r \in Recipients : Unlink(r)
    \/ \E c \in Candidates : \/ QueueMessage(c) \/ BeginSend(c) \/ PhaseB0(c)
                             \/ ProviderCall(c) \/ PhaseC(c) \/ AutoRevoke(c)

Spec == Init /\ [][Next]_vars

-----------------------------------------------------------------------------
(* Properties.                                                             *)

\* A /start the offset has passed is never lost to its owner: while its token
\* is live, the chat is on record, whoever's confirm request polled it (both
\* confirm endpoints: "record every observed /start BEFORE advancing").  A
\* token whose event was dropped on a conflict is the exception.
StartsKept ==
    \A i \in 1..offset : LET t == inbox[i].token IN
        token[t] = "active" /\ t \notin clashed => started[t] # NoChat

\* A candidate is never bound to a chat that another candidate or a user has
\* at that moment (confirm_telegram_link: "fail closed, no takeover").
CandidatesNeverTakeOver ==
    [][\A c \in Candidates :
        Active(c)' /\ (~Active(c) \/ chat'[c] # chat[c]) =>
            \A q \in Recipients \ {c} : ~(Active(q)' /\ chat'[q] = chat'[c])]_vars

\* Superseding an invitation is final, also for a confirm that has read it.
SupersededIsDead ==
    [][\A t \in Tokens : token[t] = "superseded" => token'[t] = "superseded"]_vars

\* How a candidate may come to a binding: by a live invitation, to a free chat.
BindingsAreEarned == CandidatesNeverTakeOver /\ SupersededIsDead

\* While a message is handed to Telegram the candidate's consent stands.
ConsentAtHandOff ==
    \A c \in Candidates : sending[c] = "call" => decision[c] = "granted"

-----------------------------------------------------------------------------
(* Statements of the code base that the code does not keep.                *)

\* models.py, CandidateTelegramLink: "one chat never serves two recipients".
OneChatOneRecipient ==
    \A q, r \in Recipients : Active(q) /\ Active(r) /\ chat[q] = chat[r] => q = r

\* confirm_telegram_link: "an explicit HR refusal is never overwritten" by the
\* candidate's Start.
RefusalStands ==
    \A c \in Candidates : hrSaid[c] = "refused" => decision[c] = "refused"

\* _auto_revoke_candidate_telegram revokes "a binding the provider proved
\* dead": the chat the failed send went to.
RevokesProvenDead ==
    [][\A c \in Candidates :
        sending[c] = "dead" /\ Active(c) /\ ~Active(c)' /\ sending'[c] = "idle"
            => chat[c] = aim[c]]_vars

\* create_telegram_invite: "one active invitation per candidate".
OneActiveInvitation == \A r \in Recipients : \A t, u \in Unconsumed(r) : t = u
=============================================================================
