------------------------------- MODULE MCDocuments -------------------------------
(***************************************************************************)
(* The documents of candidates, for TLC, and the outbox that carries them. *)
(* They share the workers and their locks but no states worth multiplying  *)
(* (a row of CandidateDocuments is abstract), so a behaviour is one of     *)
(*   - one candidate's list, rule and messages, two workers;               *)
(*   - the same with three rows and an unedited rule (Jobs);               *)
(*   - a rule's message and an in-app row in the queue (Outbox);           *)
(*   - two managers who edit two templates ("editors");                    *)
(*   - two requests for documents, one key ("clients");                    *)
(*   - two starts that provision the built-in material ("starts").         *)
(***************************************************************************)
EXTENDS CandidateDocuments, TLC

CONSTANTS Nothing, NoRow, NoWorker,
          Applicants, RequestKeys, Names, BuiltIn,
          MaxTemplates, MaxVersions, MaxRevision, MaxDocuments
VARIABLES part,
          status, attempts, lease, due, effects, taken, alerted,
          pc, batch, cur, outcome, sendLock, cancelRead,
          interrupted, withdrawn, deferrals, crashes, dbErrors,
          templates, seen, asked, starting, documents, request, lock

queue == <<status, attempts, lease, due, effects, taken, alerted,
           pc, batch, cur, outcome, sendLock, cancelRead,
           interrupted, withdrawn, deferrals, crashes, dbErrors>>
made == <<templates, seen, asked, starting, documents, request, lock>>

ListItems == "v" :> {"passport"}
WorkerSymmetry == Permutations(Workers)

Jobs == INSTANCE CandidateDocuments WITH MaxRuleEdits <- 0, MaxRows <- 3
Outbox == INSTANCE NotificationOutbox WITH
    Rows <- {"document", "notice"},
    Kind <- ("document" :> "document") @@ ("notice" :> "in_app"),
    ObjectOf <- [r \in {"document", "notice"} |-> "rule"], AdminRows <- {"document"},
    MaxAttempts <- 2, BatchSize <- 1, MaxDeferrals <- 1, MaxCrashes <- 1, MaxDbErrors <- 0
Templates == INSTANCE DocumentTemplates WITH
    Managers <- Workers \cup {"manager"}, Starts <- Workers, Clients <- Workers,
    Candidates <- Applicants, Keys <- RequestKeys

Rests ==
    Init /\ owner # RuleOwner /\ rule.trigger = "scheduled_reminder"

MCInit ==
    /\ Outbox!Init /\ Templates!Init
    /\ \/ part \in {"documents", "jobs"} /\ Init
       \/ part \in {"outbox", "editors", "clients", "starts"} /\ Rests

EditorsAlone ==
    /\ seen'["manager"] = Nothing /\ asked'["manager"] = Nothing
    /\ UNCHANGED <<starting, documents, request, lock>>
\* One manager, and templates of one name.
OneManager ==
    /\ \A w \in Workers : seen'[w] = Nothing /\ asked'[w] = Nothing
    /\ asked'["manager"] \in {BuiltIn, Nothing}
    /\ \A t \in DOMAIN templates' : templates'[t].name = BuiltIn
ClientsAlone == OneManager /\ UNCHANGED starting /\ Len(templates') <= 1
StartsAlone == OneManager /\ UNCHANGED <<documents, request, lock>>

MCNext ==
    \/ part = "documents" /\ Next /\ UNCHANGED <<part, queue, made>>
    \/ part = "jobs" /\ Jobs!Next /\ UNCHANGED <<part, queue, made>>
    \/ part = "outbox" /\ Outbox!Next /\ UNCHANGED <<part, vars, made>>
    \/ /\ part \in {"editors", "clients", "starts"}
       /\ Templates!Next /\ UNCHANGED <<part, queue, vars>>
       /\ part = "editors" => EditorsAlone
       /\ part = "clients" => ClientsAlone
       /\ part = "starts" => StartsAlone

MCSpec == MCInit /\ [][MCNext]_<<part, queue, vars, made>>

\* DocumentTemplates: one document of a key, numbered; one built-in material.
MadeOnce == Templates!MadeOnce

\* DocumentTemplates: no edit overwrites one its author has not seen.
EditsAreInformed == [][Templates!Informed]_<<part, queue, vars, made>>
=============================================================================
