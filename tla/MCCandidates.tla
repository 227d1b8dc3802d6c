------------------------------ MODULE MCCandidates ------------------------------
(***************************************************************************)
(* The card of a candidate, for TLC, with what comes to it: a behaviour is *)
(* one of                                                                  *)
(*   - requests to the card;                                               *)
(*   - files attached to it by two users (Attachments);                    *)
(*   - imports of the schedule that make cards and link them (Imports).    *)
(* They share no states worth multiplying.  The people of the schedule     *)
(* share their names with users, which leaves the symmetry less to permute.*)
(***************************************************************************)
EXTENDS CandidateCard, TLC

CONSTANTS Owners, Services, Importers, SeesAll, MaxRows, MaxImports, MaxCards, MaxHands, None
VARIABLES stage,
          owner, deleted, files, lock, upload,
          master, cards, entries, importLock, import, imports, hands, overridden

fileVars == <<owner, deleted, files, lock, upload>>
schedule == <<master, cards, entries, importLock, import, imports, hands, overridden>>

\* A scan under two names that are cleaned to one, a form, and one with macros.
File(name, extension, magic, harmless, size) ==
    [name |-> name, extension |-> extension, magic |-> magic,
     harmless |-> harmless, size |-> size]
Scans == {File("scan.pdf", "pdf", "%PDF-", TRUE, 2), File("c:/scan.pdf", "pdf", "%PDF-", TRUE, 1)}
Forms == {File("form.docx", "docx", "zip", harmless, 2) : harmless \in BOOLEAN}
Cleaned ==
    [name \in {"scan.pdf", "c:/scan.pdf", "form.docx"} |->
        IF name = "c:/scan.pdf" THEN "scan.pdf" ELSE name]
Attachments == INSTANCE CandidateAttachments WITH
    Leaders <- {}, Uploads <- Scans \cup Forms, SafeName <- Cleaned,
    MaxFile <- 2, MaxTotal <- 3, MaxCount <- 2, MaxFiles <- 3, Nobody <- NoUser,
    request <- upload

NameOf(id) == id
Imports == INSTANCE ScheduleImport WITH Persons <- HRs, Name <- NameOf

Symmetric == Permutations(HRs) \cup Permutations(Requests)

NoCard == card = Absent
NoFiles == owner = CHOOSE u \in Owners : TRUE

MCInit ==
    /\ Init /\ Attachments!Init /\ Imports!Init
    /\ \/ stage = "card" /\ NoFiles
       \/ stage = "files" /\ NoCard
       \/ stage = "schedule" /\ NoCard /\ NoFiles

MCNext ==
    \/ stage = "card" /\ Next /\ UNCHANGED <<stage, fileVars, schedule>>
    \/ stage = "files" /\ Attachments!Next /\ UNCHANGED <<stage, vars, schedule>>
    \/ stage = "schedule" /\ Imports!Next /\ UNCHANGED <<stage, vars, fileVars>>

MCSpec == MCInit /\ [][MCNext]_<<vars, stage, fileVars, schedule>>

\* CandidateAttachments: the files of a candidate stay within the limits.
QuotaKept == Attachments!QuotaKept

\* ScheduleImport: rows keep their keys and cards; nobody gets a second card.
ImportsKeepCards == Imports!ImportsKeepCards
EachLineHasItsKey == Imports!EachLineHasItsKey
=============================================================================
