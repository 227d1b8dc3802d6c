---------------------------- MODULE ProviderClients ----------------------------
(***************************************************************************)
(* One message, the calls a worker makes to hand it over, and the provider *)
(* at the other end: the SMTP session of smtp.py and the Bot API call of   *)
(* telegram.py, step by step, with the classification of what comes back   *)
(* and the retries of phase C in worker.py.  The connection may break at   *)
(* any step, before the provider acts on it or after.                      *)
(*                                                                         *)
(* What smtplib raises at which step is external, as are the two           *)
(* providers.  Texts, headers and the token are left out.                  *)
(***************************************************************************)
EXTENDS Naturals, Sequences

CONSTANTS
    MaxAttempts,    \* worker_max_attempts
    MaxWait         \* MAX_RETRY_AFTER_S, in units of the waits the Bot API asks for

VARIABLES
    config,         \* channel, encryption, login: the settings
    letter,         \* "fine", "malformed" or "too_large", as rendered
    purpose,        \* "send", or "check" of the settings by an administrator
    at,             \* the step of the call that comes next
    error,          \* the exception or the reply the call ends with
    verdict, class, wait,  \* what the call returned
    attempts,
    copies,         \* of the message at the provider
    told,           \* history: did the provider say it has taken this one, or refused it?
    unheard         \* history: calls whose answer never came or could not be read

call == <<at, error, verdict, class, wait, told>>
vars == <<config, letter, purpose, call, attempts, copies, unheard>>

Session == <<"connect", "starttls", "login", "mail", "rcpt", "data", "body", "quit">>
Nothing == [kind |-> "none", code |-> 0]

Init ==
    /\ config \in [channel : {"email"}, encryption : {"none", "starttls", "tls"}, login : BOOLEAN]
                  \cup {[channel |-> "telegram", encryption |-> "tls", login |-> TRUE]}
    /\ letter \in {"fine", "malformed", "too_large"}
    /\ config.channel = "telegram" => letter = "fine"
    /\ purpose \in {"send", "check"}
    /\ at = "idle" /\ error = Nothing
    /\ verdict = "none" /\ class = "none" /\ wait = 0 /\ told = "nothing"
    /\ attempts = 0 /\ copies = 0 /\ unheard = 0

Return(outcome, errorClass) ==
    /\ at' = "returned" /\ verdict' = outcome /\ class' = errorClass

Success == IF purpose = "send" THEN "accepted" ELSE "ok"

-----------------------------------------------------------------------------
(* smtp.py                                                                 *)

\* send_email and check_connection begin alike; render_message and
\* validate_mailbox raise before a connection is opened.
BeginMail ==
    /\ at = "idle" /\ config.channel = "email"
    /\ IF letter = "malformed" \/ (letter = "too_large" /\ purpose = "send")
       THEN Return(IF purpose = "send" THEN "perm_error" ELSE "failed",
                   IF letter = "too_large" THEN "message_too_large"
                   ELSE IF purpose = "send" THEN "invalid_address" ELSE "config")
       ELSE at' = "connect" /\ UNCHANGED <<verdict, class>>
    /\ UNCHANGED <<config, letter, purpose, error, wait, attempts, copies, told, unheard>>

\* _connect secures and logs in as configured; only a send goes on to the message.
Needed(step) ==
    /\ step = "starttls" => config.encryption = "starttls"
    /\ step = "login" => config.login
    /\ step \in {"mail", "rcpt", "data", "body"} => purpose = "send"

FollowingStep(step) ==
    LET now == CHOOSE n \in DOMAIN Session : Session[n] = step
        later == {n \in DOMAIN Session : n > now /\ Needed(Session[n])}
    IN  Session[CHOOSE n \in later : \A m \in later : n <= m]

\* What smtplib makes of a refusal at a step; code is the first digit of the reply.
Raised(step, code) ==
    [kind |-> CASE step = "connect" -> "SMTPConnectError"
                [] step = "starttls" -> "SMTPResponseException"
                [] step = "login" -> "SMTPAuthenticationError"
                [] step = "mail" -> "SMTPSenderRefused"
                [] step = "rcpt" -> "SMTPRecipientsRefused"
                [] step \in {"data", "body"} -> "SMTPDataError",
     code |-> code]
Broken == [kind : {"SMTPServerDisconnected", "TimeoutError", "OSError"}, code : {0}]

\* _classify_smtp_exception: the verdict and its class.
ClassifyMail(e) ==
    CASE e.kind = "SMTPAuthenticationError" -> <<"perm_error", "auth">>
      [] e.kind = "SMTPRecipientsRefused" -> <<"perm_error", "recipient_refused">>
      [] e.kind = "SMTPSenderRefused" -> <<"perm_error", "config">>
      [] e.kind = "SMTPDataError" ->
            IF e.code = 4 THEN <<"temp_error", "temporary">>
            ELSE <<"perm_error", "recipient_refused">>
      [] e.kind \in {"SMTPConnectError", "SMTPServerDisconnected"} -> <<"temp_error", "network">>
      [] e.kind = "SMTPResponseException" ->
            IF e.code = 5 THEN <<"perm_error", "recipient_refused">>
            ELSE <<"temp_error", "temporary">>
      [] e.kind = "TimeoutError" -> <<"temp_error", "timeout">>
      [] e.kind = "OSError" -> <<"temp_error", "network">>

Speaking == \E n \in DOMAIN Session : at = Session[n] /\ at # "quit"

Complied ==
    /\ Speaking
    /\ at' = FollowingStep(at)
    /\ IF at = "body" THEN copies' = copies + 1 /\ told' = "taken" ELSE UNCHANGED <<copies, told>>
    /\ UNCHANGED <<config, letter, purpose, error, verdict, class, wait, attempts, unheard>>

Refused(code) ==
    /\ Speaking
    /\ error' = Raised(at, code) /\ at' = "failing"
    /\ told' = IF purpose = "send" THEN "refused" ELSE told
    /\ UNCHANGED <<config, letter, purpose, verdict, class, wait, attempts, copies, unheard>>

\* The last dot of the message may have arrived.
BreaksOff(e) ==
    /\ Speaking
    /\ error' = e /\ at' = "failing"
    /\ copies' \in {copies, copies + (IF at = "body" THEN 1 ELSE 0)}
    /\ unheard' = IF purpose = "send" THEN unheard + 1 ELSE unheard
    /\ UNCHANGED <<config, letter, purpose, verdict, class, wait, attempts, told>>

\* client.quit() under contextlib.suppress: whether it fails changes nothing.
NotSuppressed(failed) == IF failed THEN "temp_error" ELSE Success
AfterQuit(failed) == Success

Quit(failed) ==
    /\ \/ at = "quit" /\ Return(AfterQuit(failed), "none")
       \/ at = "failing" /\ config.channel = "email"
            /\ Return(IF purpose = "send" THEN ClassifyMail(error)[1] ELSE "failed",
                      ClassifyMail(error)[2])
    /\ UNCHANGED <<config, letter, purpose, error, wait, attempts, copies, told, unheard>>

-----------------------------------------------------------------------------
(* telegram.py                                                             *)

\* What the Bot API answers: a status, whether the body is its JSON, and what it says.
Answers ==
    [status : {200, 302, 400, 401, 403, 404, 429, 500}, body : {"ok", "not_ok", "unreadable"},
     says : {"nothing", "blocked", "deactivated", "chat_not_found"}, retry : 0..MaxWait + 1]

\* A message is taken, or something is amiss; what is said of a refusal goes with its
\* status, and a 5xx or a body that cannot be read leaves open what happened.
Possible(a, taken) ==
    /\ a.body = "ok" => a.status = 200
    /\ a.status \in {400, 401, 403, 404, 429, 302} => ~taken
    /\ a.status = 200 /\ a.body # "unreadable" => (taken <=> a.body = "ok")
    /\ a.says \in {"blocked", "deactivated"} => a.status = 403 /\ a.body = "not_ok"
    /\ a.says = "chat_not_found" => a.status = 400 /\ a.body = "not_ok"
    /\ a.retry > 0 => a.status = 429 /\ a.body = "not_ok"
    /\ purpose = "check" => a.says = "nothing"

\* _classify_send_error
ClassifyPost(a) ==
    CASE a.status = 429 -> "rate_limited"
      [] a.status \in {401, 404} -> "unauthorized"
      [] a.status = 403 -> IF a.says \in {"blocked", "deactivated"} THEN a.says ELSE "forbidden"
      [] a.status = 400 -> IF a.says = "chat_not_found" THEN a.says ELSE "bad_request"
      [] a.status = 200 -> "bad_response"
      [] OTHER -> "server"

Temporary == {"rate_limited", "timeout", "network", "server", "bad_response"}
Revoking  == {"blocked", "deactivated", "chat_not_found"}

\* What the provider has said with it of the message.
Said(a) ==
    CASE a.status = 200 /\ a.body = "ok" -> "taken"
      [] a.says \in Revoking -> "chat_gone"
      [] a.status \in {400, 401, 403, 404} /\ a.says \notin Revoking -> "refused"
      [] OTHER -> "nothing"

\* _default_http_post, _parse_json_body, then send_message, or check_connection (getMe).
Post(a, taken) ==
    /\ at = "idle" /\ config.channel = "telegram"
    /\ Possible(a, taken)
    /\ LET ok == a.status = 200 /\ a.body = "ok"
           kind == ClassifyPost(a)
       IN  /\ IF ok THEN Return(Success, "none")
              ELSE Return(IF purpose = "check" THEN "failed"
                          ELSE IF kind \in Temporary THEN "temp_error" ELSE "perm_error", kind)
           /\ wait' = IF kind = "rate_limited" /\ a.retry > 0
                      THEN (IF a.retry < MaxWait THEN a.retry ELSE MaxWait) ELSE 0
    /\ copies' = IF purpose = "send" /\ taken THEN copies + 1 ELSE copies
    /\ told' = IF purpose = "check" THEN told ELSE Said(a)
    /\ unheard' = IF purpose = "send" /\ (a.status = 500 \/ (a.status = 200 /\ a.body = "unreadable"))
                  THEN unheard + 1 ELSE unheard
    /\ UNCHANGED <<config, letter, purpose, error, attempts>>

\* TelegramTimeoutError, TelegramNetworkError, or whatever else the transport raises.
PostBreaksOff(kind, taken) ==
    /\ at = "idle" /\ config.channel = "telegram"
    /\ Return(IF purpose = "send" THEN "temp_error" ELSE "failed", kind)
    /\ copies' = IF purpose = "send" /\ taken THEN copies + 1 ELSE copies
    /\ unheard' = IF purpose = "send" THEN unheard + 1 ELSE unheard
    /\ UNCHANGED <<config, letter, purpose, error, wait, attempts, told>>

-----------------------------------------------------------------------------

\* Phase C of the worker, for a row no one else touches: one more attempt counted, a
\* bounded retry after a temporary failure.
Retry ==
    /\ at = "returned" /\ purpose = "send" /\ verdict = "temp_error"
    /\ attempts + 1 < MaxAttempts
    /\ attempts' = attempts + 1
    /\ at' = "idle" /\ verdict' = "none" /\ class' = "none" /\ wait' = 0
    /\ error' = Nothing /\ told' = "nothing"
    /\ UNCHANGED <<config, letter, purpose, copies, unheard>>

\* The row is finished, or the check is answered; the next one knows nothing of it.
Another ==
    /\ at = "returned"
    /\ purpose = "send" /\ verdict = "temp_error" => attempts + 1 >= MaxAttempts
    /\ at' = "idle" /\ verdict' = "none" /\ class' = "none" /\ wait' = 0
    /\ error' = Nothing /\ told' = "nothing"
    /\ attempts' = 0 /\ copies' = 0 /\ unheard' = 0
    /\ UNCHANGED <<config, letter, purpose>>

Next ==
    \/ BeginMail \/ Complied \/ Retry \/ Another
    \/ \E code \in {4, 5} : Refused(code)
    \/ \E e \in Broken : BreaksOff(e)
    \/ \E failed \in BOOLEAN : Quit(failed)
    \/ \E a \in Answers, taken \in BOOLEAN : Post(a, taken)
    \/ \E kind \in {"timeout", "network"}, taken \in BOOLEAN : PostBreaksOff(kind, taken)

Spec == Init /\ [][Next]_vars

-----------------------------------------------------------------------------

\* What a call returns is what the provider said.  "accepted only after the relay
\* confirmed receipt" (send_email), and always then, however the session ends; a
\* failure is permanent only if nothing has been taken in this call; a chat is taken
\* for dead only on the provider's word; a message arrives twice only if the answer
\* to an earlier call was not heard (telegram.py: "may theoretically duplicate").
VerdictsAreHonest ==
    /\ at = "returned" =>
        /\ verdict = "accepted" <=> told = "taken"
        /\ verdict = "perm_error" => told \in {"refused", "chat_gone"} \/ letter # "fine"
        /\ class \in Revoking => told = "chat_gone"
    /\ copies <= unheard + (IF told = "taken" THEN 1 ELSE 0)
    /\ wait <= MaxWait

\* Refuted: "4xx responses, timeouts and connection failures are temporary and feed
\* the worker's bounded retry" (smtp.py).  A relay that defers the sender, the
\* recipient or the login with a 4xx fails the message for good.
DeferredIsRetried ==
    at = "returned" /\ config.channel = "email" /\ error.code = 4 => verdict # "perm_error"
=============================================================================
