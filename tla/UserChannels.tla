------------------------------ MODULE UserChannels ------------------------------
(***************************************************************************)
(* The external channels of one user: the address and its confirmation,    *)
(* the consents, the chat, and the messages a worker sends over them.      *)
(* Sources: routers/integrations.py, routers/preferences.py,               *)
(* notification_service.py, the phases of worker.py for rows of a user.    *)
(*                                                                         *)
(* A request reads a row, and its commit writes the columns whose value    *)
(* differs from what it read; nothing locks the row.  A worker resolves    *)
(* where a message goes twice, the second time right before the call, by   *)
(* statements that each see what is committed by then.  How a chat is      *)
(* linked is in TelegramBinding; here a user has one or has not, and a     *)
(* link code lives or not.  Rate limits, which may refuse any request, and *)
(* wording are left out.                                                   *)
(***************************************************************************)
EXTENDS Naturals, FiniteSets

CONSTANTS
    Addresses, Chats,
    Requests,       \* of the user, in progress at the same time
    MaxGuesses,     \* EMAIL_VERIFICATION_MAX_ATTEMPTS
    MaxCodes, MaxChanges, MaxRows, \* bounds: codes mailed, requests, messages queued
    Nothing

VARIABLES
    address,        \* user_emails: the row, or Nothing
    preference,     \* notification_preferences, as to the channel: the row, or Nothing
    channel,        \* the one the behaviour is about
    chat,           \* telegram_links: the chat, whether it is revoked, its latest error;
                    \* telegram_link_tokens: whether a code waits, or waited until it expired
    active,         \* users.is_active
    call,           \* requests: what they do and the rows they read
    letters,        \* verification letters: the code and the mailbox
    row,            \* a row of notification_outbox and the worker at it
    bound, agreed,  \* history: bindings, and consents, that stood since phase B0
    mixed,          \* history: a set_email that overlapped one whose address waits
    changes, rows   \* the counters behind the bounds

contact  == <<address, preference, chat, active, channel>>
history  == <<bound, agreed, mixed>>
counters == <<changes, rows>>
vars == <<contact, call, letters, row, history, counters>>

Idle == [op |-> "idle", saw |-> Nothing, arg |-> Nothing]
NoMessage == [at |-> "none", exempt |-> FALSE, to |-> Nothing]
NewAddress == [email |-> Nothing, verified |-> FALSE, pending |-> Nothing, code |-> 0,
               expired |-> FALSE, attempts |-> 0, error |-> "none"]
Defaults == [optIn |-> FALSE, granted |-> FALSE, listed |-> FALSE]

Init ==
    /\ channel \in {"email", "telegram"}
    /\ address \in {Nothing} \cup {[NewAddress EXCEPT !.email = a, !.verified = TRUE] : a \in Addresses}
    /\ chat \in [id : Chats \cup {Nothing}, revoked : {FALSE}, error : {"none"}, code : {"none"}]
    /\ preference \in {Nothing} \cup [optIn : {TRUE}, granted : {TRUE}, listed : {TRUE}]
    /\ IF channel = "email" THEN chat.id = Nothing ELSE address = Nothing
    /\ active = TRUE
    /\ call = [q \in Requests |-> Idle]
    /\ letters = {} /\ row = NoMessage
    /\ bound = {} /\ agreed = FALSE /\ mixed = FALSE
    /\ changes = 0 /\ rows = 0

-----------------------------------------------------------------------------
(* Requests, of a user who is signed in, and so active.                    *)

Begin(q, op, saw, arg) ==
    /\ active /\ call[q] = Idle
    /\ changes < MaxChanges /\ changes' = changes + 1
    /\ call' = [call EXCEPT ![q] = [op |-> op, saw |-> saw, arg |-> arg]]
    /\ UNCHANGED <<contact, letters, row, history, rows>>

\* What the session flushes: an insert, which fails if the row has come to exist, or
\* the columns that changed.  Times are always new, and always written.
Merge(now, saw, new) == [f \in DOMAIN now |-> IF new[f] = saw[f] THEN now[f] ELSE new[f]]
Collides(now, saw) == saw = Nothing /\ now # Nothing
Saved(now, saw, new) ==
    IF Collides(now, saw) THEN now ELSE IF saw = Nothing THEN new ELSE Merge(now, saw, new)

Commit(q) == call' = [call EXCEPT ![q] = Idle]

\* schedule_verification_email: a letter with the code, for the address it is about
Letter(code, to) == [code |-> code, to |-> to]

\* set_email: a new code for the address, mailed by a row of its own.
BeginSet(q, a) == Cardinality(letters) < MaxCodes /\ Begin(q, "set", address, a)
SetEmail(q) ==
    LET saw  == call[q].saw
        code == Cardinality(letters) + 1
        old  == IF saw = Nothing THEN NewAddress ELSE saw
        new  == [old EXCEPT !.pending = call[q].arg, !.code = code,
                            !.expired = FALSE, !.attempts = 0]
    IN  /\ call[q].op = "set"
        /\ IF Collides(address, saw) THEN UNCHANGED <<address, letters, mixed>>
           ELSE /\ address' = [Saved(address, saw, new) EXCEPT !.expired = FALSE]
                /\ letters' = letters \cup {Letter(code, call[q].arg)}
                /\ mixed' = (mixed \/ (saw # Nothing /\ address.pending \notin {Nothing, saw.pending}))
        /\ Commit(q)
        /\ UNCHANGED <<preference, chat, active, channel, row, counters>>

Pending(saw) == saw # Nothing /\ saw.pending # Nothing /\ saw.code # 0

\* confirm_email with a code of some letter, or a wrong one (0).
BeginConfirm(q, code) == Pending(address) /\ Begin(q, "confirm", address, code)
ConfirmEmail(q) ==
    LET saw     == call[q].saw
        counted == [saw EXCEPT !.attempts = IF @ > MaxGuesses THEN @ ELSE @ + 1]
        promoted == [saw EXCEPT !.email = saw.pending, !.verified = TRUE, !.pending = Nothing,
                                !.code = 0, !.expired = FALSE, !.attempts = 0, !.error = "none"]
        tried == counted.attempts <= MaxGuesses
        wrong == call[q].arg # saw.code
    IN  /\ call[q].op = "confirm"
        /\ address' = IF ~tried \/ wrong \/ saw.expired THEN Merge(address, saw, counted)
                      ELSE [Merge(address, saw, promoted) EXCEPT !.verified = TRUE,
                                                                 !.expired = FALSE]
        /\ Commit(q)
        /\ UNCHANGED <<preference, chat, active, channel, letters, row, mixed, counters>>

\* remove_email
BeginRemove(q) ==
    /\ address # Nothing /\ (address.email # Nothing \/ address.pending # Nothing)
    /\ Begin(q, "remove", address, Nothing)
RemoveEmail(q) ==
    /\ call[q].op = "remove"
    /\ address' = Merge(address, call[q].saw, NewAddress)
    /\ Commit(q)
    /\ UNCHANGED <<preference, chat, active, channel, letters, row, mixed, counters>>

CodeExpires ==
    /\ Pending(address) /\ ~address.expired
    /\ address' = [address EXCEPT !.expired = TRUE]
    /\ UNCHANGED <<preference, chat, active, channel, call, letters, row, mixed, counters>>

\* _set_consent: an endpoint for each channel, and flags that must agree.
BeginConsent(q, granted) == Begin(q, "consent", preference, granted)
SaveConsent(q) ==
    LET granted == call[q].arg
    IN  /\ call[q].op = "consent"
        /\ preference' = Saved(preference, call[q].saw,
                               [optIn |-> granted, granted |-> granted, listed |-> granted])
        /\ Commit(q)
        /\ UNCHANGED <<address, chat, active, channel, letters, row, mixed, counters>>

\* put_preferences replaces the list of channels.
BeginPreferences(q, listed) == Begin(q, "preferences", preference, listed)
SavePreferences(q) ==
    LET saw == call[q].saw
        old == IF saw = Nothing THEN Defaults ELSE saw
    IN  /\ call[q].op = "preferences"
        /\ preference' = Saved(preference, saw, [old EXCEPT !.listed = call[q].arg])
        /\ Commit(q)
        /\ UNCHANGED <<address, chat, active, channel, letters, row, mixed, counters>>

\* create_link_code, also for a user who has a chat; it supersedes older codes.
CreateLinkCode ==
    /\ channel = "telegram" /\ active
    /\ changes < MaxChanges /\ changes' = changes + 1
    /\ chat' = [chat EXCEPT !.code = "waits"]
    /\ UNCHANGED <<address, preference, active, channel, call, letters, row, mixed, rows>>
LinkCodeExpires ==
    /\ chat.code = "waits"
    /\ chat' = [chat EXCEPT !.code = "expired"]
    /\ UNCHANGED <<address, preference, active, channel, call, letters, row, mixed, counters>>

\* confirm_link, with the chat it binds (see TelegramBinding), and unlink_telegram.  The
\* code may expire under way, and another may wait, of two created at once.
Link(x) ==
    /\ chat.code # "none"
    /\ \E code \in {"none", chat.code} :
         chat' = [id |-> x, revoked |-> FALSE, error |-> "none", code |-> code]
    /\ UNCHANGED <<address, preference, active, channel, call, letters, row, mixed, counters>>
Unlink ==
    /\ chat.id # Nothing /\ ~chat.revoked
    /\ chat' = [chat EXCEPT !.revoked = TRUE]
    /\ UNCHANGED <<address, preference, active, channel, call, letters, row, mixed, counters>>

Disable ==
    /\ active /\ active' = FALSE
    /\ UNCHANGED <<address, preference, chat, channel, call, letters, row, mixed, counters>>

-----------------------------------------------------------------------------
(* Messages.                                                               *)

\* has_channel_consent, of the channel the behaviour is about
HasConsent == preference # Nothing /\ preference.optIn /\ preference.granted

\* The binding the channel delivers to.
Binding ==
    IF channel = "telegram" THEN (IF chat.revoked THEN Nothing ELSE chat.id)
    ELSE IF address # Nothing /\ address.verified THEN address.email ELSE Nothing

\* external_channels_for: a channel new messages are queued for
Eligible == HasConsent /\ Binding # Nothing

\* What the status page says of the channel (_telegram_state, _email_state); an error is
\* of the last hour.  A link code that waits comes before the chat there is, a pending
\* address after the one there is.
LinkWaits == channel = "telegram" /\ chat.code = "waits"
AddressWaits == channel = "email" /\ Pending(address) /\ ~address.expired
State ==
    IF LinkWaits \/ (AddressWaits /\ Binding = Nothing) THEN "pending"
    ELSE IF channel = "telegram" /\ chat.id # Nothing /\ chat.revoked THEN "revoked"
    ELSE IF Binding = Nothing \/ ~HasConsent THEN "not_configured"
    ELSE IF "temporary" \in {chat.error} \cup (IF address = Nothing THEN {} ELSE {address.error})
    THEN "temporarily_unavailable" ELSE "works"

\* A test of the own channel, which needs no consent (telegram_test, admin_smtp_test_send).
ChannelTest == [at |-> "queued", exempt |-> TRUE, to |-> Nothing]
QueueTest ==
    /\ row.at = "none" /\ rows < MaxRows /\ rows' = rows + 1
    /\ active /\ Binding # Nothing
    /\ row' = ChannelTest
    /\ UNCHANGED <<contact, call, letters, mixed, changes>>
\* A message of somebody or something else (schedule_fan_out).
QueueMessage ==
    /\ row.at = "none" /\ rows < MaxRows /\ rows' = rows + 1
    /\ Eligible
    /\ row' = [at |-> "queued", exempt |-> FALSE, to |-> Nothing]
    /\ UNCHANGED <<contact, call, letters, mixed, changes>>

Skip == row' = NoMessage

\* _resolve_external_target: the account and the binding are read first, the consent
\* last.  Phase A resolves to be told early what can be skipped, and commits.
PhaseA ==
    /\ row.at = "queued"
    /\ IF active /\ Binding # Nothing /\ (row.exempt \/ HasConsent)
       THEN row' = [row EXCEPT !.at = "resolved", !.to = Binding]
       ELSE Skip
    /\ UNCHANGED <<contact, call, letters, mixed, counters>>

\* db.expire_all: phase B0 reads afresh what phase A has read.
KeptTarget == row.to
FreshTarget == Binding
PhaseB0ReadsBinding ==
    /\ row.at = "resolved"
    /\ IF active /\ FreshTarget # Nothing
       THEN row' = [row EXCEPT !.at = IF row.exempt THEN "calling" ELSE "bound",
                               !.to = FreshTarget]
       ELSE Skip
    /\ UNCHANGED <<contact, call, letters, mixed, counters>>
PhaseB0ReadsConsent ==
    /\ row.at = "bound"
    /\ IF HasConsent THEN row' = [row EXCEPT !.at = "calling"] ELSE Skip
    /\ UNCHANGED <<contact, call, letters, mixed, counters>>

\* Phase C notes the outcome on whatever binding the user has by then; a chat that is
\* dead is revoked (_note_external_success, _note_external_error, _auto_revoke_telegram).
PhaseC(outcome) ==
    /\ row.at = "calling"
    /\ LET error == IF outcome = "accepted" THEN "none" ELSE outcome
       IN  /\ address' = IF channel = "email" /\ address # Nothing
                         THEN [address EXCEPT !.error = error] ELSE address
           /\ chat' = IF channel = "telegram" /\ chat.id # Nothing
                      THEN [chat EXCEPT !.error = error,
                                        !.revoked = @ \/ outcome = "dead"] ELSE chat
    /\ row' = IF outcome = "temporary" THEN [row EXCEPT !.at = "queued", !.to = Nothing]
              ELSE NoMessage
    /\ UNCHANGED <<preference, active, channel, call, letters, mixed, counters>>

-----------------------------------------------------------------------------

Step ==
    \/ \E q \in Requests : SetEmail(q) \/ ConfirmEmail(q) \/ RemoveEmail(q)
    \/ \E q \in Requests : SaveConsent(q) \/ SavePreferences(q)
    \/ CodeExpires \/ CreateLinkCode \/ LinkCodeExpires \/ Unlink \/ Disable
    \/ \E x \in Chats : Link(x)
    \/ QueueTest \/ QueueMessage \/ PhaseA \/ PhaseB0ReadsBinding \/ PhaseB0ReadsConsent
    \/ \E outcome \in {"accepted", "temporary", "dead"} : PhaseC(outcome)

\* What stood at some moment since phase B0 began.
Remember ==
    LET sending == row'.at \in {"bound", "calling"}
        fresh == row.at = "resolved"
    IN  /\ bound' = IF sending THEN (IF fresh THEN {} ELSE bound) \cup ({Binding'} \ {Nothing})
                    ELSE {}
        /\ agreed' = (sending /\ ((~fresh /\ agreed) \/ HasConsent'))

Next ==
    \/ Step /\ Remember
    \/ \E q \in Requests :
        \/ \E a \in Addresses : BeginSet(q, a)
        \/ \E code \in {0} \cup {l.code : l \in letters} : BeginConfirm(q, code)
        \/ BeginRemove(q)
        \/ \E value \in BOOLEAN : BeginConsent(q, value) \/ BeginPreferences(q, value)

Spec == Init /\ [][Next]_vars

-----------------------------------------------------------------------------

\* Refuted on its own: an address "becomes usable only after the mailed token is
\* confirmed" (set_email).  Of two addresses set at once the row keeps one, and the code
\* of the other, if it is the one that was pending before.
CodeProvesAddress ==
    address # Nothing /\ address.pending # Nothing /\ address.code # 0 =>
        Letter(address.code, address.pending) \in letters

\* The user decides what arrives where.  A code is for the address that waits for it,
\* whatever requests overlap, except for two that set an address (set_email).  The two
\* flags of a consent agree (_set_consent: "no silent activation").  The page calls a
\* channel working exactly when messages are queued for it and no link code waits: who
\* has asked for a new code reads "pending" while messages still go to the chat.  A
\* message is handed over only to a binding, and by a consent, that stood since phase
\* B0 began, whatever phase A saw ("re-validated here at send time",
\* _resolve_external_target).
UserDecides ==
    /\ ~mixed => CodeProvesAddress
    /\ preference # Nothing => preference.optIn = preference.granted
    /\ State \in {"works", "temporarily_unavailable"} <=> Eligible /\ ~LinkWaits
    /\ row.at = "calling" => row.to \in bound /\ (row.exempt \/ agreed)

\* Refuted: "this list stays coherent" (_set_consent); saved preferences replace it.
ListFollowsConsent ==
    preference # Nothing => (preference.listed <=> preference.optIn)

\* Refuted: a chat is revoked for what its own message proved (_auto_revoke_telegram).
RevokesWhatFailed ==
    [][row.at = "calling" /\ chat'.revoked /\ ~chat.revoked /\ row'.at = "none" =>
        chat.id = row.to]_vars
=============================================================================
