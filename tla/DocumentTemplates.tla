--------------------------- MODULE DocumentTemplates ---------------------------
(***************************************************************************)
(* Templates of documents and what is generated from them.  Sources:       *)
(* document_templates.py, template_import.py, template_render.py,          *)
(* library.py, library_seed.py and routers/document_templates.py.          *)
(*                                                                         *)
(* Managers edit a template they have looked at earlier; an import asks    *)
(* whether the name is taken and creates in a later step; a backend that   *)
(* starts provisions the built-in material; a document is generated under  *)
(* the candidate's lock, but from a template nobody locks.  A refused      *)
(* request changes nothing and is left out, and so are the texts: what a   *)
(* file or a body must be is that it is accepted.                          *)
(***************************************************************************)
EXTENDS Naturals, Sequences, FiniteSets

CONSTANTS
    Managers, Starts,        \* people with the right; processes that start
    Clients, Candidates, Keys,   \* requests for documents; idempotency keys
    Names, BuiltIn,          \* names of templates; the name of the built-in one
    MaxTemplates, MaxVersions, MaxRevision, MaxDocuments,    \* bounds
    Nothing, Free

VARIABLES
    templates,   \* document_templates in order, with their versions
    seen,        \* what a manager looks at
    asked,       \* the name whose import was told that it is not taken
    starting,    \* what a start read of the provisioned material
    documents,   \* candidate_document_generations in order
    request,     \* what each client asks for, and how far it is
    lock         \* of each candidate

vars == <<templates, seen, asked, starting, documents, request, lock>>

Init ==
    /\ templates = <<>>
    /\ seen = [m \in Managers |-> Nothing]
    /\ asked = [m \in Managers |-> Nothing]
    /\ starting = [p \in Starts |-> "stopped"]
    /\ documents = <<>>
    /\ request = [c \in Clients |-> Nothing]
    /\ lock = [c \in Candidates |-> Free]

Ids == DOMAIN templates
Template(name, state, builtIn) ==
    [name |-> name, builtIn |-> builtIn, revision |-> 1, versions |-> <<state>>]
Active(versions) == {n \in DOMAIN versions : versions[n] = "active"}

-----------------------------------------------------------------------------
(* Managers.                                                               *)

Look(m, t) ==
    /\ seen' = [seen EXCEPT ![m] = [id |-> t, template |-> templates[t]]]
    /\ UNCHANGED <<templates, asked, starting, documents, request, lock>>

Create(m, name) ==
    /\ Len(templates) < MaxTemplates
    /\ templates' = Append(templates, Template(name, "draft", FALSE))
    /\ UNCHANGED <<seen, asked, starting, documents, request, lock>>

\* import_template: the name is compared first, the file's template is created
\* in the same request but without a lock.
Ask(m, name) ==
    /\ asked[m] = Nothing /\ \A t \in Ids : templates[t].name # name
    /\ asked' = [asked EXCEPT ![m] = name]
    /\ UNCHANGED <<templates, seen, starting, documents, request, lock>>

Import(m) ==
    /\ asked[m] # Nothing /\ Len(templates) < MaxTemplates
    /\ templates' = Append(templates, Template(asked[m], "draft", FALSE))
    /\ asked' = [asked EXCEPT ![m] = Nothing]
    /\ UNCHANGED <<seen, starting, documents, request, lock>>

\* _parent: an edit of the revision the manager saw, counted.
Unchecked(m) == seen[m] # Nothing
Parent(m) == Unchecked(m) /\ templates[seen[m].id].revision = seen[m].template.revision

Write(m, template) ==
    /\ Parent(m) /\ template.revision < MaxRevision
    /\ templates' = [templates EXCEPT ![seen[m].id] =
                        [template EXCEPT !.revision = @ + 1]]
    /\ UNCHANGED <<seen, asked, starting, documents, request, lock>>

Rename(m, name) ==
    LET t == templates[seen[m].id] IN
    /\ seen[m] # Nothing /\ name # t.name
    /\ Write(m, [t EXCEPT !.name = name])

AddVersion(m) ==
    LET t == templates[seen[m].id] IN
    /\ seen[m] # Nothing /\ Len(t.versions) < MaxVersions
    /\ Write(m, [t EXCEPT !.versions = Append(@, "draft")])

\* import_template_version: the text of a file, as a version of its own.
ImportVersion(m) == AddVersion(m)

Activate(m, n) ==
    LET t == templates[seen[m].id] IN
    /\ seen[m] # Nothing /\ n \in DOMAIN t.versions /\ t.versions[n] = "draft"
    /\ Write(m, [t EXCEPT !.versions = [k \in DOMAIN @ |->
            IF k = n THEN "active" ELSE IF @[k] = "active" THEN "archived" ELSE @[k]]])

Archive(m, n) ==
    LET t == templates[seen[m].id] IN
    /\ seen[m] # Nothing /\ n \in DOMAIN t.versions /\ t.versions[n] # "archived"
    /\ Write(m, [t EXCEPT !.versions[n] = "archived"])

-----------------------------------------------------------------------------
(* seed_library, at the start of a process: what is there is read, what is *)
(* not is inserted; the index on seed_key stops the second of two starts.  *)

Provisioned == \E t \in Ids : templates[t].builtIn

Start(p) ==
    /\ starting[p] = "stopped"
    /\ starting' = [starting EXCEPT ![p] = IF Provisioned THEN "up" ELSE "missing"]
    /\ UNCHANGED <<templates, seen, asked, documents, request, lock>>

NoSeedIndex == FALSE
SeedIndex == Provisioned

Seed(p) ==
    /\ starting[p] = "missing" /\ Len(templates) < MaxTemplates
    /\ templates' = IF SeedIndex THEN templates
                    ELSE Append(templates, Template(BuiltIn, "active", TRUE))
    /\ starting' = [starting EXCEPT ![p] = "up"]
    /\ UNCHANGED <<seen, asked, documents, request, lock>>

Stop(p) ==
    /\ starting[p] # "stopped"
    /\ starting' = [starting EXCEPT ![p] = "stopped"]
    /\ UNCHANGED <<templates, seen, asked, documents, request, lock>>

-----------------------------------------------------------------------------
(* generate: one user's requests.                                          *)

Of(key) == {d \in DOMAIN documents : documents[d].key = key}
\* _replay: the document of the key, if it is the one asked for now; else 409.
Replay(r) == \E d \in Of(r.key) : documents[d].candidate = r.candidate
                                  /\ documents[d].template = r.template
                                  /\ documents[d].version = r.version

Answer(c, d) ==
    request' = [request EXCEPT ![c] = [@ EXCEPT !.at = "answered", !.document = d]]
Release(c) ==
    lock' = [k \in Candidates |-> IF lock[k] = c THEN Free ELSE lock[k]]

\* A client asks for a version it was shown, or asks again.
Request(c, candidate, key, t, n) ==
    /\ request[c] = Nothing
    /\ request' = [request EXCEPT ![c] =
          [candidate |-> candidate, key |-> key, template |-> t, version |-> n,
           at |-> "asked", revision |-> 0, document |-> 0]]
    /\ UNCHANGED <<templates, seen, asked, starting, documents, lock>>

At(c, step) == request[c] # Nothing /\ request[c].at = step

\* candidate_for(mutate), _replay, then the version and the next revision.
Generate(c) ==
    LET r == request[c] IN
    /\ At(c, "asked") /\ lock[r.candidate] = Free
    /\ \/ /\ Replay(r)
          /\ \E d \in Of(r.key) : Answer(c, d)
          /\ UNCHANGED lock
       \/ /\ Of(r.key) = {}
          /\ r.version \in Active(templates[r.template].versions)
          /\ lock' = [lock EXCEPT ![r.candidate] = c]
          /\ request' = [request EXCEPT ![c].at = "rendered", ![c].revision =
                Cardinality({d \in DOMAIN documents :
                                documents[d].candidate = r.candidate}) + 1]
       \/ /\ ~Replay(r)
          /\ Of(r.key) = {} => r.version \notin Active(templates[r.template].versions)
          /\ request' = [request EXCEPT ![c] = Nothing]
          /\ UNCHANGED lock
    /\ UNCHANGED <<templates, seen, asked, starting, documents>>

NoKeyIndex(key) == FALSE
KeyIndex(key) == Of(key) # {}

\* The flush: a document of the same key committed by a request for another
\* candidate rolls this one back, and its document answers or refuses.
Insert(c) ==
    LET r == request[c] IN
    /\ At(c, "rendered") /\ Len(documents) < MaxDocuments
    /\ IF KeyIndex(r.key)
       THEN /\ UNCHANGED documents
            /\ IF Replay(r) THEN \E d \in Of(r.key) : Answer(c, d)
               ELSE request' = [request EXCEPT ![c] = Nothing]
       ELSE /\ documents' = Append(documents,
                 [candidate |-> r.candidate, key |-> r.key, template |-> r.template,
                  version |-> r.version, revision |-> r.revision])
            /\ Answer(c, Len(documents) + 1)
    /\ Release(c)
    /\ UNCHANGED <<templates, seen, asked, starting>>

\* The answer is lost, the backend is killed, or the client is done.
Forget(c) ==
    /\ request[c] # Nothing
    /\ request' = [request EXCEPT ![c] = Nothing]
    /\ Release(c)
    /\ UNCHANGED <<templates, seen, asked, starting, documents>>

-----------------------------------------------------------------------------

Next ==
    \/ \E m \in Managers :
          \/ \E t \in Ids : Look(m, t)
          \/ \E name \in Names : Create(m, name) \/ Ask(m, name) \/ Rename(m, name)
          \/ Import(m) \/ AddVersion(m) \/ ImportVersion(m)
          \/ \E n \in 1..MaxVersions : Activate(m, n) \/ Archive(m, n)
    \/ \E p \in Starts : Start(p) \/ Seed(p) \/ Stop(p)
    \/ \E c \in Clients :
          \/ \E candidate \in Candidates, key \in Keys, t \in Ids :
                \E n \in DOMAIN templates[t].versions : Request(c, candidate, key, t, n)
          \/ Generate(c) \/ Insert(c) \/ Forget(c)

Spec == Init /\ [][Next]_vars

-----------------------------------------------------------------------------

\* Documents of a key are one, however often and for whichever candidate it was
\* asked for, those of a candidate are numbered without gaps in the order they
\* were made, and the built-in material is there once, whatever was done to it.
MadeOnce ==
    /\ \A key \in Keys : Cardinality(Of(key)) <= 1
    /\ \A d \in DOMAIN documents : documents[d].revision =
          Cardinality({e \in 1..d : documents[e].candidate = documents[d].candidate})
    /\ Cardinality({t \in Ids : templates[t].builtIn}) <= 1

\* A template changes only for a manager who looks at what it was until then: no
\* edit overwrites one its author has not seen, and one version is published.
Informed ==
    \A t \in Ids : templates'[t] # templates[t] =>
        /\ \E m \in Managers : seen[m] = [id |-> t, template |-> templates[t]]
        /\ Cardinality(Active(templates'[t].versions)) <= 1
EditsAreInformed == [][Informed]_vars

\* Refuted: imports that are not forced never breed look-alikes ("A plain retry
\* can therefore never quietly breed look-alike templates", import_template).
NoLookAlikes ==
    [][\A m \in Managers : Import(m) => \A t \in Ids : templates[t].name # asked[m]]_vars

\* Refuted: a document is inserted while its version is published.
PublishedWhenMade ==
    [][\A c \in Clients : Insert(c) /\ documents' # documents =>
          request[c].version \in Active(templates[request[c].template].versions)]_vars
=============================================================================
