-------------------------- MODULE CandidateCard_proofs --------------------------
(***************************************************************************)
(* That the owner of a card is explained by its handovers, for any users   *)
(* and any number of overlapping requests.                                 *)
(***************************************************************************)
EXTENDS CandidateCard, SequenceTheorems, TLAPS

USE DEF vars

Users  == HRs \cup Managers
Owners == HRs \cup {NoUser}
Cards  == [there : BOOLEAN, owner : Owners, stage : Stages, dated : BOOLEAN, deleted : BOOLEAN]
Ops    == {"idle", "create", "edit", "note", "delete", "restore", "transfer", "hand over",
           "import", "assign"}
Sources == [generation : Nat, owner : Owners]
Request == [op : Ops, by : Users \cup {NoUser}, saw : Cards, row : Sources]
Handovers == [how : {"creation", "transfer", "assignment"}, from : Owners, to : Owners]

TypeOK ==
    /\ card \in Cards
    /\ source \in Sources
    /\ cardLock \in Requests \cup {Free} /\ rowLock \in Requests \cup {Free}
    /\ req \in [Requests -> Request]
    /\ handovers \in Seq(Handovers)

\* Only a creation works without a card, and a source row belongs to one.
CardExists ==
    /\ source # NoSource => card.there
    /\ \A r \in Requests : req[r].op \notin {"idle", "create"} => card.there

\* A transfer past its second read holds the card, whose owner is the one it read.
TransferHolds ==
    \A r \in Requests : req[r].op = "hand over" =>
        cardLock = r /\ req[r].saw.owner = card.owner

\* The handovers begin with the creation of the card.
BeginsWithCreation ==
    card.there => handovers # <<>> /\ handovers[1].how = "creation"

Explained == TypeOK /\ CardExists /\ TransferHolds /\ BeginsWithCreation /\ OwnerIsExplained

-----------------------------------------------------------------------------
(* How a commit changes the card.                                          *)

LEMMA RequestFields ==
    ASSUME TypeOK, NEW r \in Requests
    PROVE  /\ req[r] \in Request /\ req[r].saw \in Cards
           /\ req[r].saw.owner \in Owners /\ req[r].row \in Sources
  BY DEF TypeOK, Request, Sources, Cards

\* A commit writes the owner only when the request changed it, and never whether the
\* card is there.
LEMMA MergedCard ==
    ASSUME card \in Cards, NEW saw \in Cards, NEW new \in Cards, new.there = saw.there
    PROVE  /\ Merge(card, saw, new) \in Cards
           /\ Merge(card, saw, new).there = card.there
           /\ Merge(card, saw, new).owner = IF new.owner = saw.owner THEN card.owner ELSE new.owner
  BY DEF Merge, Cards

LEMMA Written ==
    ASSUME TypeOK, NEW r \in Requests, NEW new \in Cards, Write(r, new),
           new.there = req[r].saw.there
    PROVE  /\ card' \in Cards /\ card'.there = card.there
           /\ card'.owner = IF new.owner = req[r].saw.owner THEN card.owner ELSE new.owner
<1>1. req[r].saw \in Cards /\ card \in Cards
  BY RequestFields DEF TypeOK
<1> QED
  BY <1>1, MergedCard DEF Write

-----------------------------------------------------------------------------
(* How a request ends.                                                     *)

LEMMA IdleRequest == Idle \in Request
  BY DEF Idle, Request, Ops, Absent, Card, Cards, Owners, Stages, NoSource, Sources

LEMMA Released ==
    ASSUME TypeOK, NEW r \in Requests, Release(r)
    PROVE  /\ req' \in [Requests -> Request]
           /\ cardLock' \in Requests \cup {Free} /\ rowLock' \in Requests \cup {Free}
           /\ req'[r].op = "idle"
           /\ \A q \in Requests \ {r} : /\ req'[q] = req[q]
                                        /\ cardLock = q => cardLock' = q
<1>1. req \in [Requests -> Request]
  BY DEF TypeOK, Request, Sources
<1>2. req' = [req EXCEPT ![r] = Idle]
  BY DEF Release
<1>3. req' \in [Requests -> Request] /\ req'[r] = Idle
      /\ \A q \in Requests \ {r} : req'[q] = req[q]
  BY <1>1, <1>2, IdleRequest
<1> QED
  BY <1>3 DEF Release, TypeOK, Idle

\* Request r ends, and the card keeps its owner.
KeepsOwner(r) ==
    /\ Release(r)
    /\ card' \in Cards /\ card'.owner = card.owner /\ card'.there = card.there
    /\ handovers' = handovers
    /\ source' \in Sources /\ (source' # NoSource => card.there)

LEMMA EditsKeepOwner ==
    ASSUME TypeOK, CardExists, NEW r \in Requests,
           \/ \E stage \in Stages, dated \in BOOLEAN : Edit(r, stage, dated)
           \/ AddInteraction(r) \/ CreateTermination(r) \/ Delete(r) \/ Restore(r)
    PROVE  KeepsOwner(r)
<1>1. source \in Sources /\ (source # NoSource => card.there) /\ card \in Cards
  BY DEF TypeOK, CardExists, Sources
<1>2. req[r].saw \in Cards
  BY RequestFields
<1>3. ASSUME NEW stage \in Stages, NEW dated \in BOOLEAN, Edit(r, stage, dated)
      PROVE  KeepsOwner(r)
  <2> DEFINE new == [req[r].saw EXCEPT !.stage = stage, !.dated = dated]
  <2>1. new \in Cards /\ new.there = req[r].saw.there /\ new.owner = req[r].saw.owner
    BY <1>2 DEF Cards
  <2>2. Write(r, new) /\ Release(r) /\ handovers' = handovers /\ source' = source
    BY <1>3 DEF Edit
  <2> QED
    BY <1>1, <2>1, <2>2, Written DEF KeepsOwner
<1>4. ASSUME Note(r, "interaction") \/ Note(r, "termination") PROVE KeepsOwner(r)
  BY <1>1, <1>4 DEF Note, KeepsOwner
<1>5. ASSUME NEW b \in BOOLEAN, Write(r, [req[r].saw EXCEPT !.deleted = b]), Release(r),
             handovers' = handovers, source' = source
      PROVE  KeepsOwner(r)
  <2>1. [req[r].saw EXCEPT !.deleted = b] \in Cards
        /\ [req[r].saw EXCEPT !.deleted = b].there = req[r].saw.there
        /\ [req[r].saw EXCEPT !.deleted = b].owner = req[r].saw.owner
    BY <1>2 DEF Cards
  <2> QED
    BY <1>1, <1>5, <2>1, Written DEF KeepsOwner
<1> QED
  BY <1>3, <1>4, <1>5 DEF AddInteraction, CreateTermination, Delete, Restore

LEMMA ImportsKeepOwner ==
    ASSUME TypeOK, CardExists, NEW r \in Requests,
           \/ \E dated \in BOOLEAN : Import(r, dated)
           \/ \E p, q \in Requests : Victim(p, q, r)
    PROVE  KeepsOwner(r)
<1>1. source \in Sources /\ (source # NoSource => card.there) /\ card \in Cards
  BY DEF TypeOK, CardExists, Sources
<1>2. req[r].saw \in Cards /\ req[r].saw.owner \in Owners
  BY RequestFields
<1>3. ASSUME NEW dated \in BOOLEAN, Import(r, dated)
      PROVE  KeepsOwner(r)
  <2> DEFINE new == [req[r].saw EXCEPT !.dated = dated]
  <2>1. new \in Cards /\ new.there = req[r].saw.there /\ new.owner = req[r].saw.owner
    BY <1>2 DEF Cards
  <2>2. Write(r, new) /\ Release(r) /\ handovers' = handovers
    BY <1>3 DEF Import
  <2>3. source' \in Sources /\ card.there
    BY <1>1, <1>2, <1>3 DEF Import, Sources, CardExists
  <2> QED
    BY <1>1, <2>1, <2>2, <2>3, Written DEF KeepsOwner
<1> QED
  BY <1>1, <1>3 DEF Victim, KeepsOwner

\* Request r begins, or comes to its next step, and nothing it reads changes.
Goes(r) ==
    /\ card' = card /\ source' = source /\ handovers' = handovers
    /\ cardLock' \in Requests \cup {Free} /\ rowLock' \in Requests \cup {Free}
    /\ req' \in [Requests -> Request]
    /\ \A q \in Requests \ {r} : req'[q] = req[q] /\ (cardLock = q => cardLock' = q)
    /\ req'[r].op \notin {"idle", "create"} => card.there
    /\ req'[r].op = "hand over" => cardLock' = r /\ req'[r].saw.owner = card.owner

LEMMA Beginnings ==
    ASSUME TypeOK, CardExists, NEW r \in Requests,
           \/ \E u \in Users, op \in {"create", "edit", "note", "delete", "restore", "transfer",
                                      "import"} : Begin(r, u, op)
           \/ \E u \in Managers : Select(r, u)
    PROVE  Goes(r)
<1>1. req \in [Requests -> Request] /\ card \in Cards /\ source \in Sources
      /\ cardLock \in Requests \cup {Free} /\ rowLock \in Requests \cup {Free}
  BY DEF TypeOK, Request, Sources
<1>2. ASSUME NEW u \in Users, NEW op \in {"create", "edit", "note", "delete", "restore",
                                          "transfer", "import"}, Begin(r, u, op)
      PROVE  Goes(r)
  <2> DEFINE new == [op |-> op, by |-> u, saw |-> card, row |-> source]
  <2>1. new \in Request
    BY <1>1 DEF Request, Ops
  <2>2. req' = [req EXCEPT ![r] = new] /\ (op # "create" => card.there)
        /\ card' = card /\ source' = source /\ handovers' = handovers
        /\ cardLock' = cardLock /\ rowLock' = rowLock
    BY <1>2 DEF Begin
  <2> QED
    BY <1>1, <2>1, <2>2 DEF Goes
<1>3. ASSUME NEW u \in Managers, Select(r, u)
      PROVE  Goes(r)
  <2> DEFINE new == [op |-> "assign", by |-> u, saw |-> card, row |-> source]
  <2>1. new \in Request
    BY <1>1 DEF Request, Ops, Users
  <2>2. req' = [req EXCEPT ![r] = new] /\ card.there
        /\ card' = card /\ source' = source /\ handovers' = handovers
        /\ cardLock' = cardLock /\ rowLock' = r
    BY <1>3 DEF Select, CardExists
  <2> QED
    BY <1>1, <2>1, <2>2 DEF Goes
<1> QED
  BY <1>2, <1>3

\* The second read of a transfer: under the lock, of the owner it saw before.
LEMMA LockedRead ==
    ASSUME TypeOK, CardExists, NEW r \in Requests, Lock(r)
    PROVE  Goes(r)
<1>1. req \in [Requests -> Request] /\ card \in Cards /\ source \in Sources
      /\ cardLock \in Requests \cup {Free} /\ rowLock \in Requests \cup {Free}
  BY DEF TypeOK, Request, Sources
<1>2. card' = card /\ source' = source /\ handovers' = handovers
      /\ req[r].op = "transfer" /\ cardLock \in {Free, r} /\ card.there
  BY DEF Lock, CardFree, Unlocked, CardExists
<1>3. CASE Release(r)
  BY <1>2, <1>3, Released DEF Goes
<1>4. CASE /\ cardLock' = r /\ rowLock' = rowLock
           /\ req' = [req EXCEPT ![r].op = "hand over", ![r].saw = card, ![r].row = source]
  <2> DEFINE a == [req[r] EXCEPT !.op = "hand over"]
             b == [a EXCEPT !.saw = card]
             new == [b EXCEPT !.row = source]
  <2>1. req[r] \in Request
    BY <1>1
  <2>2. a \in Request /\ a.op = "hand over"
    BY <2>1 DEF Request, Ops
  <2>3. b \in Request /\ b.op = "hand over" /\ b.saw = card
    BY <1>1, <2>2 DEF Request
  <2>4. new \in Request /\ new.op = "hand over" /\ new.saw = card
    BY <1>1, <2>3 DEF Request
  <2>5. req' = [req EXCEPT ![r] = new]
    BY <1>1, <1>4
  <2> HIDE DEF new
  <2>6. req' \in [Requests -> Request] /\ req'[r] = new
        /\ \A q \in Requests \ {r} : req'[q] = req[q]
    BY <1>1, <2>4, <2>5
  <2>7. req'[r].op = "hand over" /\ req'[r].saw.owner = card.owner
    BY <2>4, <2>6
  <2>8. \A q \in Requests \ {r} : cardLock # q
    BY <1>2, LockAssumption
  <2> QED
    BY <1>1, <1>2, <1>4, <2>6, <2>7, <2>8 DEF Goes
<1> QED
  BY <1>3, <1>4 DEF Lock

-----------------------------------------------------------------------------
(* The steps that hand the card over.                                      *)

\* Request r ends and gives the card the owner of the handover it appends.
HandsTo(r, to, how) ==
    /\ Release(r) /\ card.there /\ to \in Owners
    /\ card' \in Cards /\ card'.there = card.there /\ card'.owner = to
    /\ source' \in Sources
    /\ handovers' = Append(handovers, [how |-> how, from |-> req[r].saw.owner, to |-> to])

LEMMA Transfers ==
    ASSUME TypeOK, CardExists, NEW r \in Requests, NEW to \in HRs, HandOver(r, to)
    PROVE  req[r].op = "hand over" /\ HandsTo(r, to, "transfer")
<1>1. source \in Sources /\ card \in Cards /\ req[r].saw \in Cards /\ to \in Owners
  BY RequestFields DEF TypeOK, Sources, Owners
<1> DEFINE new == [req[r].saw EXCEPT !.owner = to]
<1>2. new \in Cards /\ new.there = req[r].saw.there /\ new.owner = to
  BY <1>1 DEF Cards
<1>3. Write(r, new) /\ Release(r) /\ req[r].op = "hand over" /\ to # req[r].saw.owner
      /\ handovers' = Append(handovers, [how |-> "transfer", from |-> req[r].saw.owner, to |-> to])
  BY DEF HandOver
<1>4. source' \in Sources
  BY <1>1 DEF HandOver, Sources
<1>5. card.there
  BY <1>3 DEF CardExists
<1> QED
  BY <1>1, <1>2, <1>3, <1>4, <1>5, Written DEF HandsTo

LEMMA Assignments ==
    ASSUME TypeOK, CardExists, NEW r \in Requests, NEW to \in Owners, Assign(r, to)
    PROVE  CardFree(r) /\ (KeepsOwner(r) \/ HandsTo(r, to, "assignment"))
<1>1. source \in Sources /\ card \in Cards /\ req[r].saw \in Cards
  BY RequestFields DEF TypeOK, Sources
<1> DEFINE new == [req[r].saw EXCEPT !.owner = to]
<1>2. new \in Cards /\ new.there = req[r].saw.there /\ new.owner = to
  BY <1>1 DEF Cards
<1>3. Write(r, new) /\ Release(r) /\ card.there /\ CardFree(r)
  BY DEF Assign, CardExists
<1>4. source' \in Sources
  BY <1>1 DEF Assign, Sources
<1>5. CASE to = req[r].saw.owner
  BY <1>1, <1>2, <1>3, <1>4, <1>5, Written DEF Assign, KeepsOwner
<1>6. CASE to # req[r].saw.owner
  BY <1>1, <1>2, <1>3, <1>4, <1>6, Written DEF Assign, HandsTo
<1> QED
  BY <1>3, <1>5, <1>6

LEMMA Creations ==
    ASSUME TypeOK, CardExists, NEW r \in Requests, NEW o \in HRs, Create(r, o)
    PROVE  KeepsOwner(r) \/ /\ ~card.there /\ Release(r) /\ card' = Card(o) /\ source' = source
                            /\ handovers' = <<[how |-> "creation", from |-> NoUser, to |-> o]>>
<1>1. source \in Sources /\ card \in Cards /\ (source # NoSource => card.there)
  BY DEF TypeOK, CardExists
<1> QED
  BY <1>1 DEF Create, KeepsOwner

-----------------------------------------------------------------------------
(* Each kind of step keeps the account.                                    *)

\* The account of the handovers is a matter of the card's owner and of them.
LEMMA SameAccount ==
    ASSUME BeginsWithCreation, OwnerIsExplained, handovers' = handovers,
           card'.there = card.there, card'.owner = card.owner
    PROVE  BeginsWithCreation' /\ OwnerIsExplained'
  BY DEF BeginsWithCreation, OwnerIsExplained, Last

LEMMA LongerAccount ==
    ASSUME handovers \in Seq(Handovers), BeginsWithCreation, OwnerIsExplained, card.there,
           NEW h \in Handovers, handovers' = Append(handovers, h),
           h.how = "transfer" => h.from = card.owner, card'.owner = h.to
    PROVE  BeginsWithCreation' /\ OwnerIsExplained'
<1> DEFINE n == Len(handovers)
<1>1. n \in Nat \ {0} /\ handovers[n].to = card.owner /\ handovers[1].how = "creation"
  BY EmptySeq, LenProperties DEF BeginsWithCreation, OwnerIsExplained, Last
<1>2. /\ Len(handovers') = n + 1 /\ handovers'[n + 1] = h /\ DOMAIN handovers' = 1..(n + 1)
      /\ \A i \in 1..n : handovers'[i] = handovers[i]
      /\ DOMAIN handovers = 1..n
  BY AppendProperties, LenProperties
<1>3. handovers' # <<>> /\ handovers'[1].how = "creation"
  BY <1>1, <1>2, EmptySeq
<1>4. Last(handovers').to = card'.owner
  BY <1>2 DEF Last
<1>5. ASSUME NEW i \in DOMAIN handovers', handovers'[i].how = "transfer"
      PROVE  handovers'[i].from = handovers'[i - 1].to
  <2>1. CASE i = n + 1
    <3>1. h.from = handovers[n].to /\ i - 1 \in 1..n
      BY <1>1, <1>2, <1>5, <2>1
    <3> QED
      BY <1>2, <2>1, <3>1
  <2>2. CASE i \in 1..n /\ i # 1
    BY <1>1, <1>2, <1>5, <2>2 DEF OwnerIsExplained
  <2> QED
    BY <1>1, <1>2, <1>3, <1>5, <2>1, <2>2
<1> QED
  BY <1>3, <1>4, <1>5 DEF BeginsWithCreation, OwnerIsExplained

LEMMA EndingKeeps ==
    ASSUME Explained, NEW r \in Requests, KeepsOwner(r)
    PROVE  Explained'
<1>1. /\ req' \in [Requests -> Request]
      /\ cardLock' \in Requests \cup {Free} /\ rowLock' \in Requests \cup {Free}
      /\ req'[r].op = "idle"
      /\ \A q \in Requests \ {r} : req'[q] = req[q] /\ (cardLock = q => cardLock' = q)
  BY Released DEF Explained, KeepsOwner
<1>2. TypeOK'
  BY <1>1 DEF Explained, KeepsOwner, TypeOK
<1>3. CardExists'
  BY <1>1 DEF Explained, KeepsOwner, CardExists
<1>4. TransferHolds'
  BY <1>1 DEF Explained, KeepsOwner, TransferHolds
<1> QED
  BY <1>2, <1>3, <1>4, SameAccount DEF Explained, KeepsOwner

LEMMA GoingKeeps ==
    ASSUME Explained, NEW r \in Requests, Goes(r)
    PROVE  Explained'
<1>1. TypeOK'
  BY DEF Explained, Goes, TypeOK
<1>2. CardExists'
  BY DEF Explained, Goes, CardExists
<1>3. TransferHolds'
  BY DEF Explained, Goes, TransferHolds
<1> QED
  BY <1>1, <1>2, <1>3, SameAccount DEF Explained, Goes

\* While the card is free of transfers past their second read, its owner may change.
LEMMA HandingKeeps ==
    ASSUME Explained, NEW r \in Requests, NEW to, NEW how \in {"transfer", "assignment"},
           HandsTo(r, to, how), how = "transfer" => req[r].op = "hand over",
           \A q \in Requests \ {r} : req[q].op # "hand over"
    PROVE  Explained'
<1>1. /\ req' \in [Requests -> Request]
      /\ cardLock' \in Requests \cup {Free} /\ rowLock' \in Requests \cup {Free}
      /\ req'[r].op = "idle"
      /\ \A q \in Requests \ {r} : req'[q] = req[q] /\ (cardLock = q => cardLock' = q)
  BY Released DEF Explained, HandsTo
<1> DEFINE h == [how |-> how, from |-> req[r].saw.owner, to |-> to]
<1>2. h \in Handovers /\ handovers' = Append(handovers, h)
  BY RequestFields DEF Explained, HandsTo, Handovers
<1>3. TypeOK'
  <2>1. handovers \in Seq(Handovers)
    BY DEF Explained, TypeOK
  <2>2. handovers' \in Seq(Handovers)
    BY <1>2, <2>1, AppendProperties
  <2> QED
    BY <1>1, <2>2 DEF HandsTo, TypeOK
<1>4. CardExists'
  BY <1>1 DEF Explained, HandsTo, CardExists
<1>5. TransferHolds'
  BY <1>1 DEF TransferHolds
<1>6. how = "transfer" => h.from = card.owner
  BY DEF Explained, TransferHolds
<1>7. BeginsWithCreation' /\ OwnerIsExplained'
  BY <1>2, <1>6, LongerAccount DEF Explained, HandsTo, TypeOK
<1> QED
  BY <1>3, <1>4, <1>5, <1>7 DEF Explained

LEMMA CreatingKeeps ==
    ASSUME Explained, NEW r \in Requests, NEW o \in HRs, ~card.there, Release(r),
           card' = Card(o), source' = source,
           handovers' = <<[how |-> "creation", from |-> NoUser, to |-> o]>>
    PROVE  Explained'
<1>1. /\ req' \in [Requests -> Request]
      /\ cardLock' \in Requests \cup {Free} /\ rowLock' \in Requests \cup {Free}
      /\ req'[r].op = "idle"
      /\ \A q \in Requests \ {r} : req'[q] = req[q]
  BY Released DEF Explained
<1>2. card' \in Cards /\ card'.there /\ card'.owner = o
  BY DEF Card, Cards, Owners, Stages
<1> DEFINE h == [how |-> "creation", from |-> NoUser, to |-> o]
<1>3. h \in Handovers /\ handovers' \in Seq(Handovers)
      /\ Len(handovers') = 1 /\ handovers'[1] = h /\ handovers' # <<>>
  BY DEF Handovers, Owners
<1>4. TypeOK'
  BY <1>1, <1>2, <1>3 DEF Explained, TypeOK
<1>5. CardExists'
  BY <1>2 DEF CardExists
<1>6. TransferHolds'
  BY <1>1 DEF Explained, CardExists, TransferHolds
<1>7. BeginsWithCreation'
  BY <1>3 DEF BeginsWithCreation
<1>8. OwnerIsExplained'
  <2>1. DOMAIN handovers' = {1}
    BY <1>3, LenProperties
  <2> QED
    BY <1>2, <1>3, <2>1 DEF OwnerIsExplained, Last
<1> QED
  BY <1>4, <1>5, <1>6, <1>7, <1>8 DEF Explained

LEMMA ExplainedInductive ==
    ASSUME Explained, [Next]_vars
    PROVE  Explained'
<1>1. TypeOK /\ CardExists /\ TransferHolds
  BY DEF Explained
<1>2. ASSUME NEW r \in Requests, NEW u \in Users, NEW op \in {"create", "edit", "note", "delete",
                               "restore", "transfer", "import"}, Begin(r, u, op)
      PROVE  Explained'
  BY <1>1, <1>2, Beginnings, GoingKeeps
<1>3. ASSUME NEW r \in Requests, NEW u \in Managers, Select(r, u)
      PROVE  Explained'
  BY <1>1, <1>3, Beginnings, GoingKeeps
<1>4. ASSUME NEW r \in Requests, Lock(r)
      PROVE  Explained'
  BY <1>1, <1>4, LockedRead, GoingKeeps
<1>5. ASSUME NEW r \in Requests, NEW o \in HRs, Create(r, o)
      PROVE  Explained'
  BY <1>1, <1>5, Creations, EndingKeeps, CreatingKeeps
<1>6. ASSUME NEW r \in Requests, NEW stage \in Stages, NEW dated \in BOOLEAN, Edit(r, stage, dated)
      PROVE  Explained'
  BY <1>1, <1>6, EditsKeepOwner, EndingKeeps
<1>7. ASSUME NEW r \in Requests,
             AddInteraction(r) \/ CreateTermination(r) \/ Delete(r) \/ Restore(r)
      PROVE  Explained'
  BY <1>1, <1>7, EditsKeepOwner, EndingKeeps
<1>8. ASSUME NEW r \in Requests, NEW dated \in BOOLEAN, Import(r, dated)
      PROVE  Explained'
  BY <1>1, <1>8, ImportsKeepOwner, EndingKeeps
<1>9. ASSUME NEW r \in Requests, NEW q \in Requests, NEW v \in Requests, Victim(r, q, v)
      PROVE  Explained'
  BY <1>1, <1>9, ImportsKeepOwner, EndingKeeps
<1>10. ASSUME NEW r \in Requests, NEW to \in HRs, HandOver(r, to)
       PROVE  Explained'
  <2>1. req[r].op = "hand over" /\ HandsTo(r, to, "transfer")
    BY <1>1, <1>10, Transfers
  <2>2. \A q \in Requests \ {r} : req[q].op # "hand over"
    BY <1>1, <2>1 DEF TransferHolds
  <2> QED
    BY <2>1, <2>2, HandingKeeps
<1>11. ASSUME NEW r \in Requests, NEW to \in HRs \cup {NoUser}, Assign(r, to)
       PROVE  Explained'
  <2>1. CardFree(r) /\ (KeepsOwner(r) \/ HandsTo(r, to, "assignment"))
    BY <1>1, <1>11, Assignments DEF Owners
  <2>2. \A q \in Requests \ {r} : req[q].op # "hand over"
    BY <1>1, <2>1, LockAssumption DEF TransferHolds, CardFree, Unlocked
  <2> QED
    BY <2>1, <2>2, HandingKeeps, EndingKeeps
<1>12. CASE UNCHANGED vars
  BY <1>12 DEF Explained, TypeOK, CardExists, TransferHolds, BeginsWithCreation,
     OwnerIsExplained, Last
<1> QED
  BY <1>2, <1>3, <1>4, <1>5, <1>6, <1>7, <1>8, <1>9, <1>10, <1>11, <1>12, Zenon DEF Next, Users

LEMMA ExplainedAtFirst == Init => Explained
<1> SUFFICES ASSUME Init PROVE Explained
  OBVIOUS
<1>1. TypeOK /\ CardExists /\ TransferHolds
  <2>1. card \in Cards /\ source \in Sources /\ (source # NoSource => card.there)
    <3>1. \A o \in Owners : Card(o) \in Cards /\ Card(o).there
      BY DEF Card, Cards, Owners, Stages
    <3>2. Absent \in Cards
      BY DEF Absent, Card, Cards, Owners, Stages
    <3>3. NoSource \in Sources /\ \A o \in Owners : [generation |-> 1, owner |-> o] \in Sources
      BY DEF NoSource, Sources, Owners
    <3> QED
      BY <3>1, <3>2, <3>3 DEF Init, Owners
  <2>2. req \in [Requests -> Request] /\ \A r \in Requests : req[r].op = "idle"
    BY IdleRequest DEF Init, Idle
  <2>3. handovers \in Seq(Handovers)
    <3>1. CASE handovers = <<>>
      BY <3>1
    <3>2. CASE \E o \in Owners : handovers = <<[how |-> "creation", from |-> NoUser, to |-> o]>>
      <4>1. PICK o \in Owners : handovers = <<[how |-> "creation", from |-> NoUser, to |-> o]>>
        BY <3>2
      <4>2. [how |-> "creation", from |-> NoUser, to |-> o] \in Handovers
        BY DEF Handovers, Owners
      <4> QED
        BY <4>1, <4>2
    <3> QED
      BY <3>1, <3>2 DEF Init, Owners
  <2> QED
    BY <2>1, <2>2, <2>3 DEF Init, TypeOK, CardExists, TransferHolds
<1>2. BeginsWithCreation /\ OwnerIsExplained
  BY DEF Init, BeginsWithCreation, OwnerIsExplained, Last, Card, Absent
<1> QED
  BY <1>1, <1>2 DEF Explained

\* The owner of a card is whom its last handover names, and a transfer takes it from
\* the user it was handed to before, whatever edits, notes, deletions, assignments and
\* imports have read the card earlier and write afterwards.
THEOREM OwnersExplained == Spec => []OwnerIsExplained
<1>1. Explained => OwnerIsExplained
  BY DEF Explained
<1> QED
  BY <1>1, ExplainedAtFirst, ExplainedInductive, PTL DEF Spec

\* A transfer that has read the card again holds its lock until it commits, and the
\* owner it read is still the owner (transfer_candidate, the second read).
THEOREM TransfersHoldTheCard == Spec => [](TypeOK /\ TransferHolds)
<1>1. Explained => TypeOK /\ TransferHolds
  BY DEF Explained
<1> QED
  BY <1>1, ExplainedAtFirst, ExplainedInductive, PTL DEF Spec
=============================================================================
