-------------------------- MODULE CandidateAttachments --------------------------
(***************************************************************************)
(* The files attached to one candidate's card.  Sources:                   *)
(* candidate_attachments.py and routers/candidate_attachments.py.          *)
(*                                                                         *)
(* A request checks the access first and reads the upload afterwards, in   *)
(* between the card may be handed over or deleted.  The quota is counted   *)
(* under the candidate's advisory lock, which the flush of the new row and *)
(* its commit end; a deletion looks the file up and locks its row after.   *)
(* Of a file the code tells apart its declared name and type, what its     *)
(* first bytes are, whether anything in it may act, and its size.  A       *)
(* download changes nothing but the audit, which is left out.              *)
(***************************************************************************)
EXTENDS Naturals, Sequences, FiniteSets, FiniteSetsExt

CONSTANTS
    Owners, Leaders,     \* HR managers; those who may see every card
    Uploads,             \* files: name, extension, magic, harmless, size
    SafeName,            \* [names -> names]: what sanitize_filename makes of them
    MaxFile, MaxTotal, MaxCount,     \* AttachmentLimits
    MaxFiles,            \* bound: rows of candidate_attachments
    Nobody, Free

VARIABLES
    owner, deleted,      \* of the candidate
    files,               \* candidate_attachments in order
    lock,                \* candidate_attachments:<id>
    request              \* of each user

vars == <<owner, deleted, files, lock, request>>

Viewers == Owners \cup Leaders
Idle == [at |-> "idle"]
Ids == DOMAIN files

Init ==
    /\ owner \in Owners /\ deleted = FALSE
    /\ files = <<>> /\ lock = Free
    /\ request = [u \in Viewers |-> Idle]

-----------------------------------------------------------------------------

CanView(u) == ~deleted /\ (u \in Leaders \/ u = owner)

\* list_attachments, _totals: those not deleted
Active == {i \in Ids : files[i].deletedBy = Nobody}
Total == MapThenSumSet(LAMBDA i : files[i].size, Active)

\* detect_kind: by the first bytes, which must agree with the extension; what a
\* document contains may not act when it is opened.
Kinds == {"docx", "pdf"}
KindOf(file) == CASE file.magic = "zip" -> "docx" [] file.magic = "%PDF-" -> "pdf" [] OTHER -> "none"
Readable(file) ==
    /\ file.extension \in Kinds /\ KindOf(file) = file.extension
    /\ file.harmless

At(u, step) == request[u].at = step
Reply(u) == request' = [request EXCEPT ![u] = Idle]

-----------------------------------------------------------------------------
(* Upload.                                                                 *)

BeginUpload(u, file) ==
    /\ At(u, "idle") /\ CanView(u)
    /\ request' = [request EXCEPT ![u] = [at |-> "reading", file |-> file]]
    /\ UNCHANGED <<owner, deleted, files, lock>>

\* read_upload_limited, detect_kind
Refuse(u) ==
    /\ At(u, "reading")
    /\ request[u].file.size > MaxFile \/ ~Readable(request[u].file)
    /\ Reply(u)
    /\ UNCHANGED <<owner, deleted, files, lock>>

NoLock == TRUE
LockFree == lock = Free

Fits(file) ==
    Cardinality(Active) < MaxCount /\ Total + file.size <= MaxTotal

Count(u) ==
    LET file == request[u].file IN
    /\ At(u, "reading") /\ LockFree
    /\ file.size <= MaxFile /\ Readable(file)
    /\ IF Fits(file)
       THEN lock' = u /\ request' = [request EXCEPT ![u].at = "counted"]
       ELSE Reply(u) /\ UNCHANGED lock
    /\ UNCHANGED <<owner, deleted, files>>

\* The flush: the index on active names refuses the second of two files of a
\* name, the commit frees the lock.
Insert(u) ==
    LET name == SafeName[request[u].file.name] IN
    /\ At(u, "counted") /\ Len(files) < MaxFiles
    /\ files' = IF \E i \in Active : files[i].name = name THEN files
                ELSE Append(files, [name |-> name, size |-> request[u].file.size,
                                    deletedBy |-> Nobody])
    /\ lock' = Free /\ Reply(u)
    /\ UNCHANGED <<owner, deleted>>

-----------------------------------------------------------------------------
(* Deletion.                                                               *)

BeginDelete(u, i) ==
    /\ At(u, "idle") /\ CanView(u) /\ i \in Active
    /\ request' = [request EXCEPT ![u] = [at |-> "deleting", id |-> i]]
    /\ UNCHANGED <<owner, deleted, files, lock>>

\* The row is read again under FOR UPDATE; the second of two deletions is a 409.
Delete(u) ==
    /\ At(u, "deleting")
    /\ files' = IF request[u].id \in Active
                THEN [files EXCEPT ![request[u].id].deletedBy = u] ELSE files
    /\ Reply(u)
    /\ UNCHANGED <<owner, deleted, lock>>

\* The backend is killed, or the client breaks its upload off.
Break(u) ==
    /\ ~At(u, "idle") /\ Reply(u)
    /\ lock' = IF lock = u THEN Free ELSE lock
    /\ UNCHANGED <<owner, deleted, files>>

-----------------------------------------------------------------------------
(* The card, see CandidateCard.                                            *)

HandOver(u) ==
    /\ ~deleted /\ u # owner /\ owner' = u
    /\ UNCHANGED <<deleted, files, lock, request>>

DeleteOrRestore ==
    /\ deleted' = ~deleted
    /\ UNCHANGED <<owner, files, lock, request>>

Next ==
    \/ \E u \in Viewers :
          \/ \E file \in Uploads : BeginUpload(u, file)
          \/ Refuse(u) \/ Count(u) \/ Insert(u)
          \/ \E i \in Ids : BeginDelete(u, i)
          \/ Delete(u) \/ Break(u)
    \/ \E u \in Owners : HandOver(u)
    \/ DeleteOrRestore

Spec == Init /\ [][Next]_vars

-----------------------------------------------------------------------------

\* Whatever uploads and deletions meet, the active files of a candidate stay
\* within the limits and have names of their own (create_attachment: "two parallel
\* uploads cannot exceed the limit together").
QuotaKept ==
    /\ Cardinality(Active) <= MaxCount /\ Total <= MaxTotal
    /\ \A i, j \in Active : files[i].name = files[j].name => i = j

\* A deletion keeps its author: it is neither undone nor overwritten by a second
\* one that looked the file up before.
DeletionStands ==
    [][\A i \in Ids : files[i].deletedBy # Nobody => files'[i] = files[i]]_vars

\* Refuted: a file is stored by somebody who may see the card.  The access is
\* checked before the upload is read, and not again ("checked here on every
\* request", can_manage).
AccessWhenStored ==
    [][\A u \in Viewers : Insert(u) /\ files' # files => CanView(u)]_vars
=============================================================================
