------------------------- MODULE TelegramBinding_proofs -------------------------
(***************************************************************************)
(* Theorems about TelegramBinding, for every number of recipients, tokens, *)
(* chats and requests, and every length of the inbox, and about the        *)
(* channels of a user (UserChannels), for every number of addresses and    *)
(* requests and any bounds.                                                *)
(***************************************************************************)
EXTENDS MCContacts, FiniteSetTheorems, WellFoundedInduction, SequenceTheorems, TLAPS

USE DEF polling, tokens, bindings, sessions, sends, ghosts, vars

\* From the poll to its end a request has the poll row, and nobody else advances
\* the offset.
Polling(s) == pc[s] \in {"settle", "consent", "insert"}
PollHeld == \A s \in Sessions : Polling(s) => pollLock = s /\ offset <= polled[s]

\* An invitation that is being written is nobody else's, and no chat knows it.
InvitesAreNew ==
    \A s \in Sessions : pc[s] = "invite" =>
        /\ token[tok[s]] = "unissued" /\ born[tok[s]] # 0
        /\ \A q \in Sessions : pc[q] = "invite" /\ tok[q] = tok[s] => q = s
StartsAreIssued == \A i \in 1..Len(inbox) : token[inbox[i].token] # "unissued"

\* What a confirm has claimed stays so until it commits: its token, the chat
\* that pressed Start, and that nobody else has that chat.
ClaimsHold ==
    \A s \in Sessions : pc[s] \in {"consent", "insert"} =>
        /\ token[tok[s]] = "active"
        /\ OwnerOf[tok[s]] \in Candidates
        /\ Recorded(s)[tok[s]] # NoChat
        /\ ~Held(OwnerOf[tok[s]], Recorded(s)[tok[s]])

LEMMA SmallestOf ==
    ASSUME NEW S \in SUBSET Nat, S # {}
    PROVE  \E i \in S : \A j \in S : i <= j
<1> DEFINE R == {ss \in Nat \X Nat : ss[1] < ss[2]}
<1>1. IsWellFoundedOn(R, Nat)
  BY NatLessThanWellFounded DEF OpToRel
<1>2. \A i, j \in Nat : <<j, i>> \in R <=> j < i
  OBVIOUS
<1> HIDE DEF R
<1>3. PICK i \in S : \A j \in S : ~ (<<j, i>> \in R)
  BY <1>1, WFMin
<1>4. ASSUME NEW j \in S
      PROVE  i <= j
  <2>1. i \in Nat /\ j \in Nat /\ <<j, i>> \notin R
    BY <1>3
  <2>2. ~ (j < i)
    BY <2>1, <1>2
  <2> QED
    BY <2>1, <2>2
<1> QED
  BY <1>4

LEMMA FirstIn ==
    ASSUME NEW S \in SUBSET Nat, S # {}
    PROVE  First(S) \in S
BY SmallestOf DEF First

LEMMA InboxEntries ==
    ASSUME TypeOK
    PROVE  /\ Len(inbox) \in Nat
           /\ \A i \in 1..Len(inbox) : /\ inbox[i] \in [token : Tokens, chat : Chats]
                                       /\ inbox[i].token \in Tokens
<1>1. inbox \in Seq([token : Tokens, chat : Chats])
  BY DEF TypeOK
<1>2. Len(inbox) \in Nat
  BY <1>1
<1>3. \A i \in 1..Len(inbox) : inbox[i] \in [token : Tokens, chat : Chats]
  BY <1>1, ElementOfSeq
<1> QED
  BY <1>2, <1>3

\* What a poll records: every chat seen for a token without one.
LEMMA RecordedStarts ==
    ASSUME TypeOK, NEW s \in Sessions
    PROVE  /\ Recorded(s) \in [Tokens -> Chats \cup {NoChat}]
           /\ \A t \in Tokens : started[t] # NoChat => Recorded(s)[t] = started[t]
           /\ \A i \in offset+1..polled[s] : Recorded(s)[inbox[i].token] # NoChat
<1>a. offset \in 0..Len(inbox) /\ polled[s] \in 0..Len(inbox)
  BY DEF TypeOK
<1>0. /\ offset \in Nat /\ polled[s] \in 0..Len(inbox) /\ Len(inbox) \in Nat
      /\ \A i \in 1..Len(inbox) : inbox[i] \in [token : Tokens, chat : Chats]
  BY <1>a, InboxEntries
<1>1. ASSUME NEW t \in Tokens, Seen(s, t) # {}
      PROVE  inbox[First(Seen(s, t))].chat \in Chats
  <2>1. Seen(s, t) \in SUBSET Nat
    BY <1>0 DEF Seen
  <2>2. First(Seen(s, t)) \in Seen(s, t)
    BY <1>1, <2>1, FirstIn
  <2>3. First(Seen(s, t)) \in 1..Len(inbox)
    BY <1>0, <2>2 DEF Seen
  <2> QED
    BY <1>0, <2>3
<1>2. ASSUME NEW t \in Tokens
      PROVE  /\ Recorded(s)[t] \in Chats \cup {NoChat}
             /\ started[t] # NoChat => Recorded(s)[t] = started[t]
             /\ Seen(s, t) # {} => Recorded(s)[t] # NoChat
  BY <1>1, NullAssumption DEF Recorded, TypeOK
<1>3. ASSUME NEW i \in offset+1..polled[s]
      PROVE  Recorded(s)[inbox[i].token] # NoChat
  <2>1. inbox[i].token \in Tokens /\ i \in Seen(s, inbox[i].token)
    BY <1>0 DEF Seen
  <2> QED
    BY <1>2, <2>1
<1>4. Recorded(s) \in [Tokens -> Chats \cup {NoChat}]
  <2> DEFINE R(t) == IF started[t] # NoChat \/ Seen(s, t) = {} THEN started[t]
                     ELSE inbox[First(Seen(s, t))].chat
  <2>1. \A t \in Tokens : R(t) \in Chats \cup {NoChat}
    BY <1>1 DEF TypeOK
  <2>2. Recorded(s) = [t \in Tokens |-> R(t)]
    BY DEF Recorded
  <2> HIDE DEF R
  <2> QED
    BY <2>1, <2>2
<1> QED
  BY <1>2, <1>3, <1>4

-----------------------------------------------------------------------------
\* The steps of a session, and those of everybody else.
OfSession(s) ==
    \/ \E t \in Tokens : BeginInvite(s, t) \/ BeginConfirm(s, t)
    \/ CommitInvite(s) \/ Confirm(s)

Elsewhere ==
    \/ \E t \in Tokens, x \in Chats : PressStart(t, x)
    \/ \E x \in Chats : BlockBot(x)
    \/ \E t \in Tokens : TokenExpires(t)
    \/ \E c \in Candidates, d \in {"granted", "refused"} : SetConsent(c, d)
    \/ \E r \in Recipients : Unlink(r)
    \/ \E c \in Candidates : \/ QueueMessage(c) \/ BeginSend(c) \/ PhaseB0(c)
                             \/ ProviderCall(c) \/ PhaseC(c) \/ AutoRevoke(c)

LEMMA NextSplit == Next => Elsewhere \/ \E s \in Sessions : OfSession(s)
BY Zenon DEF Next, Elsewhere, OfSession

\* Outside the sessions a start is pressed or a binding is revoked, and no more.
LEMMA ElsewhereLeaves ==
    ASSUME TypeOK, Elsewhere
    PROVE  /\ UNCHANGED <<polling, token, born, sessions, chat, clashed>>
           /\ \A r \in Recipients : revoked[r] => revoked'[r]
           /\ \/ inbox' = inbox
              \/ \E t \in Tokens, x \in Chats :
                   token[t] # "unissued" /\ inbox' = Append(inbox, [token |-> t, chat |-> x])
<1>1. CASE \/ \E x \in Chats : BlockBot(x)
           \/ \E t \in Tokens : TokenExpires(t)
           \/ \E c \in Candidates, d \in {"granted", "refused"} : SetConsent(c, d)
           \/ \E c \in Candidates : \/ QueueMessage(c) \/ BeginSend(c) \/ PhaseB0(c)
                                    \/ ProviderCall(c) \/ PhaseC(c)
  BY <1>1 DEF BlockBot, TokenExpires, SetConsent, QueueMessage, BeginSend, PhaseB0,
     ProviderCall, PhaseC
<1>2. ASSUME NEW t \in Tokens, NEW x \in Chats, PressStart(t, x)
      PROVE  /\ token[t] # "unissued" /\ inbox' = Append(inbox, [token |-> t, chat |-> x])
             /\ UNCHANGED <<polling, token, born, sessions, bindings, clashed>>
  BY <1>2, Zenon DEF PressStart
<1>3. ASSUME NEW r \in Recipients, Unlink(r) \/ AutoRevoke(r)
      PROVE  /\ revoked' = [revoked EXCEPT ![r] = TRUE]
             /\ UNCHANGED <<inbox, polling, token, born, sessions, chat, clashed>>
  BY <1>3 DEF Unlink, AutoRevoke
<1>4. Candidates \subseteq Recipients
  BY DEF Recipients
<1>5. ASSUME NEW r \in Recipients, Unlink(r) \/ AutoRevoke(r)
      PROVE  \A q \in Recipients : revoked[q] => revoked'[q]
  BY <1>3, <1>5 DEF TypeOK
<1> QED
  BY <1>1, <1>2, <1>3, <1>4, <1>5 DEF Elsewhere

\* A session moves alone.
LEMMA OneSession ==
    ASSUME TypeOK, NEW s \in Sessions, OfSession(s)
    PROVE  /\ inbox' = inbox /\ UNCHANGED <<sends, blocked, hrSaid>>
           /\ \A q \in Sessions \ {s} :
                pc'[q] = pc[q] /\ tok'[q] = tok[q] /\ polled'[q] = polled[q]
<1>1. CASE \E t \in Tokens : BeginInvite(s, t) \/ BeginConfirm(s, t)
  BY <1>1 DEF BeginInvite, BeginConfirm, TypeOK
<1>2. CASE CommitInvite(s)
  BY <1>2 DEF CommitInvite, TypeOK
<1>3. CASE Poll(s) \/ StartIsConsent(s) \/ InsertConsent(s)
  BY <1>3 DEF Poll, StartIsConsent, InsertConsent, TypeOK
<1>4. CASE \/ Rollback(s) \/ NotStarted(s) \/ ChatTaken(s) \/ TokenGone(s)
           \/ BindKnown(s) \/ UpdateConsent(s) \/ CommitConsent(s)
  <2>1. Finish(s) /\ inbox' = inbox /\ UNCHANGED <<sends, blocked, hrSaid>>
    BY <1>4 DEF Rollback, NotStarted, ChatTaken, TokenGone, BindKnown, UpdateConsent, CommitConsent
  <2> QED
    BY <2>1 DEF Finish, TypeOK
<1> QED
  BY <1>1, <1>2, <1>3, <1>4 DEF OfSession, Confirm

\* The rows a confirm leaves behind.
LEMMA BindTypes ==
    ASSUME TypeOK, NEW s \in Sessions, Bind(s), tok[s] \in Tokens
    PROVE  /\ offset' = polled[s] /\ UNCHANGED <<expired, born>>
           /\ started' = [Recorded(s) EXCEPT ![tok[s]] = NoChat]
           /\ started' \in [Tokens -> Chats \cup {NoChat}]
           /\ token' = [token EXCEPT ![tok[s]] = "linked"]
           /\ OwnerOf[tok[s]] \in Recipients
           /\ chat' = [chat EXCEPT ![OwnerOf[tok[s]]] = Recorded(s)[tok[s]]]
           /\ chat' \in [Recipients -> Chats \cup {NoChat}]
           /\ revoked' = [revoked EXCEPT ![OwnerOf[tok[s]]] = FALSE]
<1>1. /\ offset' = polled[s] /\ UNCHANGED <<expired, born>>
      /\ started' = [Recorded(s) EXCEPT ![tok[s]] = NoChat]
      /\ token' = [token EXCEPT ![tok[s]] = "linked"]
      /\ chat' = [chat EXCEPT ![OwnerOf[tok[s]]] = Recorded(s)[tok[s]]]
      /\ revoked' = [revoked EXCEPT ![OwnerOf[tok[s]]] = FALSE]
  BY DEF Bind
<1>2. Recorded(s) \in [Tokens -> Chats \cup {NoChat}]
  BY RecordedStarts
<1>3. OwnerOf[tok[s]] \in Recipients
  BY OwnerAssumption
<1>4. started' \in [Tokens -> Chats \cup {NoChat}]
  BY <1>1, <1>2
<1>5. chat' \in [Recipients -> Chats \cup {NoChat}]
  BY <1>1, <1>2, <1>3 DEF TypeOK
<1> QED
  BY <1>1, <1>3, <1>4, <1>5

\* The kinds of ways a request ends.
Binds(s) == BindKnown(s) \/ UpdateConsent(s) \/ CommitConsent(s)
GivesUp(s) == Rollback(s) \/ TokenGone(s)

LEMMA Ending ==
    ASSUME TypeOK, NEW s \in Sessions,
           Binds(s) \/ GivesUp(s) \/ NotStarted(s) \/ ChatTaken(s)
    PROVE  /\ Finish(s) /\ Polling(s) /\ tok[s] \in Tokens
           /\ Binds(s) => Bind(s) /\ clashed' = clashed
           /\ GivesUp(s) => UNCHANGED <<polling, tokens, bindings, decision, clashed>>
<1>1. /\ Finish(s) /\ Polling(s)
      /\ Binds(s) => Bind(s) /\ clashed' = clashed
  BY DEF Binds, GivesUp, Rollback, TokenGone, NotStarted, ChatTaken, BindKnown, UpdateConsent,
     CommitConsent, MayBind, Polling
<1>2. GivesUp(s) => UNCHANGED <<polling, tokens, bindings, decision, clashed>>
  BY DEF GivesUp, Rollback, TokenGone
<1>3. tok[s] \in Tokens
  BY <1>1 DEF Polling, TypeOK
<1> QED
  BY <1>1, <1>2, <1>3

LEMMA TypesInductive == TypeOK /\ [Next]_vars => TypeOK'
<1> SUFFICES ASSUME TypeOK, [Next]_vars
             PROVE  TypeOK'
  OBVIOUS
<1>0. /\ Len(inbox) \in Nat
      /\ \A i \in 1..Len(inbox) : inbox[i].token \in Tokens
  BY InboxEntries
<1>1. CASE UNCHANGED vars
  BY <1>1 DEF TypeOK
<1>2. ASSUME NEW t \in Tokens, NEW x \in Chats, PressStart(t, x)
      PROVE  TypeOK'
  <2>1. inbox \in Seq([token : Tokens, chat : Chats]) /\ Len(inbox) < MaxUpdates
    BY <1>2 DEF TypeOK, PressStart
  <2>2. /\ inbox' = Append(inbox, [token |-> t, chat |-> x])
        /\ UNCHANGED <<polling, tokens, bindings, decision, sessions, sends, ghosts>>
    BY <1>2, Zenon DEF PressStart
  <2>3. inbox' \in Seq([token : Tokens, chat : Chats]) /\ Len(inbox') = Len(inbox) + 1
    BY <2>1, <2>2
  <2>4. Len(inbox') <= MaxUpdates
    BY <1>0, <2>1, <2>3, BoundAssumption
  <2>5. offset' \in 0..Len(inbox') /\ polled' \in [Sessions -> 0..Len(inbox')]
    BY <1>0, <2>2, <2>3 DEF TypeOK
  <2> QED
    BY <2>2, <2>3, <2>4, <2>5 DEF TypeOK
<1>3. ASSUME NEW c \in Candidates, NEW d \in {"granted", "refused"}, SetConsent(c, d)
      PROVE  TypeOK'
  BY <1>3 DEF TypeOK, SetConsent
<1>4. CASE \/ \E x \in Chats : BlockBot(x)
           \/ \E t \in Tokens : TokenExpires(t)
  BY <1>4 DEF TypeOK, BlockBot, TokenExpires
<1>5. ASSUME NEW r \in Recipients, Unlink(r)
      PROVE  TypeOK'
  BY <1>5 DEF TypeOK, Unlink
<1>6. ASSUME NEW c \in Candidates,
             QueueMessage(c) \/ BeginSend(c) \/ PhaseB0(c) \/ ProviderCall(c) \/ PhaseC(c)
                 \/ AutoRevoke(c)
      PROVE  TypeOK'
  <2>1. UNCHANGED <<inbox, polling, tokens, chat, decision, sessions, ghosts>>
    BY <1>6, Zenon DEF QueueMessage, BeginSend, PhaseB0, ProviderCall, PhaseC, AutoRevoke
  <2>2. queued' \in [Candidates -> BOOLEAN]
    BY <1>6 DEF TypeOK, QueueMessage, BeginSend, PhaseB0, ProviderCall, PhaseC, AutoRevoke
  <2>3. sending' \in [Candidates -> Phases]
    BY <1>6 DEF TypeOK, QueueMessage, BeginSend, PhaseB0, ProviderCall, PhaseC, AutoRevoke, Phases
  <2>4. aim' \in [Candidates -> Chats \cup {NoChat}]
    <3>1. chat[c] \in Chats \cup {NoChat}
      BY DEF TypeOK, Recipients
    <3>2. \/ aim' = aim
          \/ aim' = [aim EXCEPT ![c] = chat[c]]
          \/ aim' = [aim EXCEPT ![c] = NoChat]
      BY <1>6 DEF QueueMessage, BeginSend, PhaseB0, ProviderCall, PhaseC, AutoRevoke
    <3> QED
      BY <3>1, <3>2 DEF TypeOK
  <2>5. revoked' \in [Recipients -> BOOLEAN]
    BY <1>6 DEF TypeOK, QueueMessage, BeginSend, PhaseB0, ProviderCall, PhaseC, AutoRevoke
  <2> QED
    BY <2>1, <2>2, <2>3, <2>4, <2>5 DEF TypeOK
<1>8. ASSUME NEW s \in Sessions, NEW t \in Tokens, BeginInvite(s, t)
      PROVE  TypeOK'
  <2>1. Cardinality({u \in Tokens : born[u] > 0}) \in Nat
    <3>1. IsFiniteSet({u \in Tokens : born[u] > 0})
      BY OwnerAssumption, FS_Subset
    <3> QED
      BY <3>1, FS_CardinalityType
  <2> DEFINE n == 1 + Cardinality({u \in Tokens : born[u] > 0})
  <2>2. n \in Nat
    BY <2>1
  <2>3. /\ born' = [born EXCEPT ![t] = n]
        /\ UNCHANGED <<inbox, polling, token, expired, bindings, decision, pollLock, polled,
                       sends, ghosts>>
    BY <1>8, Zenon DEF BeginInvite
  <2> HIDE DEF n
  <2>4. born' \in [Tokens -> Nat]
    BY <2>2, <2>3 DEF TypeOK
  <2>5. /\ pc' \in [Sessions -> {"idle", "invite", "confirm", "settle", "consent", "insert"}]
        /\ tok' \in [Sessions -> Tokens \cup {NoToken}]
        /\ \A q \in Sessions : pc'[q] = "idle" <=> tok'[q] = NoToken
        /\ older' \in [Sessions -> SUBSET Tokens]
    BY <1>8, NullAssumption DEF BeginInvite, TypeOK, Unconsumed
  <2> QED
    BY <2>3, <2>4, <2>5 DEF TypeOK
<1>9. ASSUME NEW s \in Sessions, CommitInvite(s)
      PROVE  TypeOK'
  BY <1>9 DEF TypeOK, CommitInvite
<1>10. ASSUME NEW s \in Sessions, NEW t \in Tokens, BeginConfirm(s, t)
       PROVE  TypeOK'
  BY <1>10, NullAssumption DEF TypeOK, BeginConfirm
<1>11. ASSUME NEW s \in Sessions, NEW step \in {"settle", "consent", "insert"},
              pc[s] # "idle", pc' = [pc EXCEPT ![s] = step],
              UNCHANGED <<inbox, polling, tokens, bindings, decision, tok, older, sends, ghosts>>,
              pollLock' \in Sessions \cup {Free}, polled' \in [Sessions -> 0..Len(inbox)]
       PROVE  TypeOK'
  BY <1>11 DEF TypeOK
<1>14. ASSUME NEW s \in Sessions, Poll(s)
       PROVE  TypeOK'
  <2>1. Highest \in 0..Len(inbox)
    BY <1>0 DEF Highest
  <2>2. polled' \in [Sessions -> 0..Len(inbox)]
    BY <1>14, <2>1 DEF Poll, TypeOK
  <2> QED
    BY <1>11, <1>14, <2>2 DEF Poll
<1>15. ASSUME NEW s \in Sessions, StartIsConsent(s) \/ InsertConsent(s)
       PROVE  TypeOK'
  <2>1. /\ pc[s] \in {"settle", "consent"}
        /\ pc' = [pc EXCEPT ![s] = "consent"] \/ pc' = [pc EXCEPT ![s] = "insert"]
    BY <1>15 DEF StartIsConsent, InsertConsent, MayBind
  <2>2. UNCHANGED <<inbox, polling, tokens, bindings, decision, pollLock, tok, older, polled,
                    sends, ghosts>>
    BY <1>15, Zenon DEF StartIsConsent, InsertConsent
  <2> QED
    BY <1>11, <2>1, <2>2 DEF TypeOK
<1>12. ASSUME NEW s \in Sessions, Binds(s) \/ GivesUp(s) \/ NotStarted(s) \/ ChatTaken(s)
       PROVE  TypeOK'
  <2>1. Finish(s) /\ Polling(s) /\ tok[s] \in Tokens
    BY <1>12, Ending
  <2>2. /\ pc' \in [Sessions -> {"idle", "invite", "confirm", "settle", "consent", "insert"}]
        /\ tok' \in [Sessions -> Tokens \cup {NoToken}]
        /\ \A q \in Sessions : pc'[q] = "idle" <=> tok'[q] = NoToken
        /\ older' \in [Sessions -> SUBSET Tokens]
        /\ pollLock' \in Sessions \cup {Free}
    BY <2>1 DEF Finish, TypeOK
  <2>3. inbox' = inbox /\ polled' \in [Sessions -> 0..Len(inbox)] /\ UNCHANGED <<sends, blocked, hrSaid>>
    <3>1. inbox' = inbox /\ UNCHANGED <<sends, blocked, hrSaid>>
      BY <1>12 DEF Binds, GivesUp, Rollback, TokenGone, NotStarted, ChatTaken, BindKnown,
         UpdateConsent, CommitConsent
    <3>2. 0 \in 0..Len(inbox)
      BY <1>0
    <3> QED
      BY <2>1, <3>1, <3>2 DEF Finish, TypeOK
  <2>4. /\ offset' \in 0..Len(inbox) /\ started' \in [Tokens -> Chats \cup {NoChat}]
        /\ token' \in [Tokens -> {"unissued", "active", "superseded", "linked"}]
        /\ expired' \in [Tokens -> BOOLEAN] /\ born' \in [Tokens -> Nat]
        /\ chat' \in [Recipients -> Chats \cup {NoChat}]
        /\ revoked' \in [Recipients -> BOOLEAN]
        /\ clashed' \subseteq Tokens
    <3>1. CASE Binds(s)
      <4>1. Bind(s) /\ clashed' = clashed
        BY <3>1, Ending
      <4>2. /\ offset' = polled[s] /\ UNCHANGED <<expired, born>>
            /\ started' \in [Tokens -> Chats \cup {NoChat}]
            /\ token' = [token EXCEPT ![tok[s]] = "linked"]
            /\ chat' \in [Recipients -> Chats \cup {NoChat}]
            /\ revoked' = [revoked EXCEPT ![OwnerOf[tok[s]]] = FALSE]
        BY <2>1, <4>1, BindTypes
      <4> QED
        BY <4>1, <4>2 DEF TypeOK
    <3>2. CASE GivesUp(s)
      BY <1>12, <3>2, Ending DEF TypeOK
    <3>3. CASE NotStarted(s)
      BY <3>3, RecordedStarts DEF NotStarted, TypeOK
    <3>4. CASE ChatTaken(s)
      <4>1. /\ offset' = polled[s] /\ started' = [Recorded(s) EXCEPT ![tok[s]] = NoChat]
            /\ clashed' = clashed \cup {tok[s]} /\ UNCHANGED <<tokens, bindings>>
        BY <3>4, Zenon DEF ChatTaken
      <4> QED
        BY <2>1, <4>1, RecordedStarts DEF TypeOK
    <3> QED
      BY <1>12, <3>1, <3>2, <3>3, <3>4
  <2>5. decision' \in [Candidates -> {"none", "granted", "refused"}]
    BY <1>12 DEF Binds, GivesUp, Rollback, TokenGone, NotStarted, ChatTaken, BindKnown,
       UpdateConsent, CommitConsent, TypeOK
  <2> QED
    BY <2>2, <2>3, <2>4, <2>5 DEF TypeOK
<1>13. Candidates \subseteq Recipients
  BY DEF Recipients
<1> QED
  BY <1>1, <1>2, <1>3, <1>4, <1>5, <1>6, <1>8, <1>9, <1>10, <1>12, <1>14, <1>15, Zenon
     DEF Next, Confirm, Binds, GivesUp

\* Every row, session and send is what the tables and the code allow.
THEOREM TypeCorrect == Spec => []TypeOK
<1>1. Init => TypeOK
  <2> SUFFICES ASSUME Init
               PROVE  TypeOK
    OBVIOUS
  <2>1. inbox \in Seq([token : Tokens, chat : Chats]) /\ Len(inbox) = 0
    BY DEF Init
  <2> QED
    BY <2>1, BoundAssumption DEF Init, TypeOK, Phases
<1> QED
  BY <1>1, TypesInductive, PTL DEF Spec

-----------------------------------------------------------------------------
\* Who polls has the poll row alone.
LEMMA OnePolls ==
    ASSUME PollHeld, NEW s \in Sessions, Polling(s), NEW q \in Sessions, Polling(q)
    PROVE  q = s
BY DEF PollHeld

LEMMA PollHeldInductive == TypeOK /\ PollHeld /\ [Next]_vars => PollHeld'
<1> SUFFICES ASSUME TypeOK, PollHeld, [Next]_vars
             PROVE  PollHeld'
  OBVIOUS
<1>1. CASE UNCHANGED vars \/ Elsewhere
  BY <1>1, ElsewhereLeaves DEF PollHeld, Polling
<1>2. ASSUME NEW s \in Sessions, OfSession(s)
      PROVE  PollHeld'
  <2>0. \A q \in Sessions \ {s} :
           (Polling(q)' <=> Polling(q)) /\ polled'[q] = polled[q]
    BY <1>2, OneSession DEF Polling
  <2>1. CASE \/ \E t \in Tokens : BeginInvite(s, t) \/ BeginConfirm(s, t)
             \/ CommitInvite(s)
    <3>1. pc'[s] \in {"invite", "confirm", "idle"} /\ UNCHANGED <<offset, pollLock>>
      BY <2>1 DEF BeginInvite, BeginConfirm, CommitInvite, TypeOK
    <3> QED
      BY <2>0, <3>1 DEF PollHeld, Polling
  <2>2. CASE Poll(s)
    <3>1. pollLock = Free /\ pollLock' = s /\ offset' = offset /\ polled'[s] = Len(inbox)
      BY <2>2 DEF Poll, PollRowFree, Highest, TypeOK
    <3>2. \A q \in Sessions : ~Polling(q)
      BY <3>1, NullAssumption DEF PollHeld
    <3>3. offset <= Len(inbox)
      BY InboxEntries DEF TypeOK
    <3> QED
      BY <2>0, <3>1, <3>2, <3>3 DEF PollHeld
  <2>3. CASE StartIsConsent(s) \/ InsertConsent(s)
    <3>1. Polling(s) /\ UNCHANGED <<offset, pollLock, polled>>
      BY <2>3 DEF StartIsConsent, InsertConsent, MayBind, Polling
    <3> QED
      BY <2>0, <3>1 DEF PollHeld
  <2>4. CASE Binds(s) \/ GivesUp(s) \/ NotStarted(s) \/ ChatTaken(s)
    <3>1. Polling(s) /\ Finish(s)
      BY <2>4, Ending
    <3>2. \A q \in Sessions \ {s} : ~Polling(q)'
      BY <2>0, <3>1, OnePolls
    <3>3. ~Polling(s)'
      BY <3>1 DEF Finish, Polling, TypeOK
    <3> QED
      BY <3>2, <3>3 DEF PollHeld
  <2> QED
    BY <1>2, <2>1, <2>2, <2>3, <2>4, Zenon DEF OfSession, Confirm, Binds, GivesUp
<1> QED
  BY <1>1, <1>2, NextSplit

-----------------------------------------------------------------------------
\* What a session does to the tokens: an invitation supersedes live ones and
\* becomes live, a confirm uses up a live one.
LEMMA TokenSteps ==
    ASSUME TypeOK, ClaimsHold, NEW s \in Sessions, OfSession(s)
    PROVE  \/ token' = token
           \/ /\ pc[s] = "invite" /\ pc'[s] = "idle" /\ token'[tok[s]] = "active"
              /\ \A t \in Tokens \ {tok[s]} :
                   \/ token'[t] = token[t]
                   \/ token[t] = "active" /\ token'[t] = "superseded"
              /\ \A t \in Tokens \ {tok[s]} : RowHeld(t) => token'[t] = token[t]
              /\ UNCHANGED <<polling, bindings, clashed, decision>>
           \/ /\ Binds(s) /\ token[tok[s]] = "active"
              /\ token' = [token EXCEPT ![tok[s]] = "linked"]
<1>1. CASE CommitInvite(s)
  <2>1. /\ pc[s] = "invite" /\ pc'[s] = "idle" /\ UNCHANGED <<polling, bindings, clashed, decision>>
        /\ \A u \in older[s] : ~RowHeld(u)
    BY <1>1 DEF CommitInvite, TypeOK
  <2>2. token' = [u \in Tokens |->
                   IF u = tok[s] THEN "active"
                   ELSE IF u \in older[s] /\ token[u] = "active" THEN "superseded"
                   ELSE token[u]]
    BY <1>1, Zenon DEF CommitInvite
  <2>3. token'[tok[s]] = "active"
    BY <2>1, <2>2 DEF TypeOK
  <2>4. ASSUME NEW t \in Tokens \ {tok[s]}
        PROVE  token'[t] = token[t] \/ (token[t] = "active" /\ token'[t] = "superseded")
    BY <2>2
  <2>5. ASSUME NEW t \in Tokens \ {tok[s]}, RowHeld(t)
        PROVE  token'[t] = token[t]
    BY <2>1, <2>2, <2>5
  <2> QED
    BY <2>1, <2>3, <2>4, <2>5
<1>2. CASE Binds(s)
  <2>1. Bind(s) /\ tok[s] \in Tokens
    BY <1>2, Ending
  <2>2. token' = [token EXCEPT ![tok[s]] = "linked"]
    BY <2>1, BindTypes
  <2>3. token[tok[s]] = "active"
    BY <1>2 DEF Binds, BindKnown, UpdateConsent, CommitConsent, Consumable, ClaimsHold
  <2> QED
    BY <1>2, <2>2, <2>3
<1>3. CASE token' = token
  BY <1>3
<1> QED
  BY <1>1, <1>2, <1>3 DEF OfSession, Confirm, Binds, BeginInvite, BeginConfirm, Poll, Rollback,
     NotStarted, ChatTaken, TokenGone, StartIsConsent, InsertConsent

Known == InvitesAreNew /\ StartsAreIssued

LEMMA KnownInductive == TypeOK /\ ClaimsHold /\ Known /\ [Next]_vars => Known'
<1> SUFFICES ASSUME TypeOK, ClaimsHold, Known, [Next]_vars
             PROVE  Known'
  OBVIOUS
<1>0. /\ Len(inbox) \in Nat
      /\ \A i \in 1..Len(inbox) : inbox[i].token \in Tokens
  BY InboxEntries
<1>1. CASE UNCHANGED vars
  BY <1>1 DEF Known, InvitesAreNew, StartsAreIssued
<1>2. CASE Elsewhere
  <2>1. UNCHANGED <<token, born, sessions>>
    BY <1>2, ElsewhereLeaves
  <2>2. StartsAreIssued'
    <3>1. CASE inbox' = inbox
      BY <2>1, <3>1 DEF Known, StartsAreIssued
    <3>2. ASSUME NEW t \in Tokens, NEW x \in Chats, token[t] # "unissued",
                 inbox' = Append(inbox, [token |-> t, chat |-> x])
          PROVE  StartsAreIssued'
      <4>1. inbox \in Seq([token : Tokens, chat : Chats])
        BY DEF TypeOK
      <4>2. /\ Len(inbox') = Len(inbox) + 1 /\ inbox'[Len(inbox) + 1] = [token |-> t, chat |-> x]
            /\ \A i \in 1..Len(inbox) : inbox'[i] = inbox[i]
        BY <3>2, <4>1, AppendProperties
      <4>3. inbox'[Len(inbox) + 1].token = t
        BY <4>2
      <4> QED
        BY <1>0, <2>1, <3>2, <4>2, <4>3 DEF Known, StartsAreIssued
    <3> QED
      BY <1>2, <3>1, <3>2, ElsewhereLeaves
  <2> QED
    BY <2>1, <2>2 DEF Known, InvitesAreNew
<1>3. ASSUME NEW s \in Sessions, OfSession(s)
      PROVE  Known'
  <2>0. /\ inbox' = inbox
        /\ \A q \in Sessions \ {s} : pc'[q] = pc[q] /\ tok'[q] = tok[q]
    BY <1>3, OneSession
  <2>1. \A q \in Sessions : pc[q] = "invite" => tok[q] \in Tokens
    BY DEF TypeOK
  <2>2. \A t \in Tokens : token[t] # "unissued" => token'[t] # "unissued"
    BY <1>3, TokenSteps, <2>1 DEF TypeOK
  <2>3. StartsAreIssued'
    BY <1>0, <2>0, <2>2 DEF Known, StartsAreIssued
  <2>4. CASE \E t \in Tokens : BeginInvite(s, t)
    <3> PICK t \in Tokens : BeginInvite(s, t)
      BY <2>4
    <3> DEFINE n == Cardinality({u \in Tokens : born[u] > 0})
    <3>1. n \in Nat
      <4>1. IsFiniteSet({u \in Tokens : born[u] > 0})
        BY OwnerAssumption, FS_Subset
      <4> QED
        BY <4>1, FS_CardinalityType
    <3>2. /\ token[t] = "unissued" /\ token' = token /\ born[t] = 0
          /\ born' = [born EXCEPT ![t] = 1 + n]
          /\ pc' = [pc EXCEPT ![s] = "invite"] /\ tok' = [tok EXCEPT ![s] = t]
      BY Zenon DEF BeginInvite
    <3> HIDE DEF n
    <3>3. /\ pc'[s] = "invite" /\ tok'[s] = t
          /\ born'[t] # 0 /\ \A u \in Tokens \ {t} : born'[u] = born[u]
      BY <3>1, <3>2 DEF TypeOK
    <3>4. \A q \in Sessions \ {s} : pc[q] = "invite" => tok[q] \in Tokens \ {t} /\ born[tok[q]] # 0
      BY <2>1, <3>2 DEF Known, InvitesAreNew
    <3>5. InvitesAreNew'
      BY <2>0, <3>2, <3>3, <3>4 DEF Known, InvitesAreNew
    <3> QED
      BY <2>3, <3>5 DEF Known
  <2>5. CASE ~ \E t \in Tokens : BeginInvite(s, t)
    <3>1. pc'[s] # "invite" /\ born' = born
      <4>1. CASE Binds(s) \/ GivesUp(s) \/ NotStarted(s) \/ ChatTaken(s)
        <5>1. Finish(s)
          BY <4>1, Ending
        <5>2. born' = born
          BY <4>1, <5>1 DEF Binds, GivesUp, Rollback, TokenGone, NotStarted, ChatTaken, BindKnown,
             UpdateConsent, CommitConsent, Bind
        <5> QED
          BY <5>1, <5>2 DEF Finish, TypeOK
      <4>2. CASE \/ \E t \in Tokens : BeginConfirm(s, t)
                 \/ CommitInvite(s) \/ Poll(s) \/ StartIsConsent(s) \/ InsertConsent(s)
        BY <4>2 DEF BeginConfirm, CommitInvite, Poll, StartIsConsent, InsertConsent, TypeOK
      <4> QED
        BY <1>3, <2>5, <4>1, <4>2, Zenon DEF OfSession, Confirm, Binds, GivesUp
    <3>2. ASSUME NEW q \in Sessions \ {s}, pc[q] = "invite"
          PROVE  token'[tok[q]] = "unissued"
      <4>1. token[tok[q]] = "unissued" /\ tok[q] \in Tokens
        BY <2>1, <3>2 DEF Known, InvitesAreNew
      <4>2. pc[s] = "invite" => tok[q] # tok[s]
        BY <3>2 DEF Known, InvitesAreNew
      <4> QED
        BY <1>3, <4>1, <4>2, TokenSteps DEF TypeOK
    <3>3. InvitesAreNew'
      BY <2>0, <3>1, <3>2 DEF Known, InvitesAreNew
    <3> QED
      BY <2>3, <3>3 DEF Known
  <2> QED
    BY <2>4, <2>5
<1> QED
  BY <1>1, <1>2, <1>3, NextSplit

-----------------------------------------------------------------------------
\* What a request polled stays what it would record, until somebody records.
LEMMA SameRecord ==
    ASSUME TypeOK, NEW q \in Sessions,
           started' = started, offset' = offset, polled'[q] = polled[q],
           \A i \in 1..Len(inbox) : inbox'[i] = inbox[i]
    PROVE  Recorded(q)' = Recorded(q)
<1>1. offset \in 0..Len(inbox) /\ polled[q] \in 0..Len(inbox) /\ Len(inbox) \in Nat
  BY InboxEntries DEF TypeOK
<1>2. \A i \in offset+1..polled[q] : inbox'[i] = inbox[i]
  BY <1>1
<1>3. ASSUME NEW t \in Tokens
      PROVE  Seen(q, t)' = Seen(q, t)
  BY <1>2 DEF Seen
<1>4. ASSUME NEW t \in Tokens, Seen(q, t) # {}
      PROVE  inbox'[First(Seen(q, t))] = inbox[First(Seen(q, t))]
  <2>1. Seen(q, t) \in SUBSET Nat
    BY <1>1 DEF Seen
  <2>2. First(Seen(q, t)) \in Seen(q, t)
    BY <1>4, <2>1, FirstIn
  <2> QED
    BY <1>2, <2>2 DEF Seen
<1> DEFINE R(t) == IF started[t] # NoChat \/ Seen(q, t) = {} THEN started[t]
                   ELSE inbox[First(Seen(q, t))].chat
           N(t) == IF started[t] # NoChat \/ Seen(q, t) = {} THEN started[t]
                   ELSE inbox'[First(Seen(q, t))].chat
<1>5. \A t \in Tokens : N(t) = R(t)
  BY <1>4
<1>6. Recorded(q) = [t \in Tokens |-> R(t)]
  BY DEF Recorded
<1>7. Recorded(q)' = [t \in Tokens |-> N(t)]
  <2>1. Recorded(q)' = [t \in Tokens |-> IF started'[t] # NoChat \/ Seen(q, t)' = {} THEN started'[t]
                        ELSE inbox'[First(Seen(q, t)')].chat]
    BY DEF Recorded, First
  <2> QED
    BY <1>3, <2>1
<1> HIDE DEF R, N
<1> QED
  BY <1>5, <1>6, <1>7

\* An appended start leaves the earlier ones.
LEMMA EarlierStarts ==
    ASSUME TypeOK, [Next]_vars
    PROVE  /\ \A i \in 1..Len(inbox) : inbox'[i] = inbox[i]
           /\ Len(inbox) <= Len(inbox')
<1>0. Len(inbox) \in Nat /\ inbox \in Seq([token : Tokens, chat : Chats])
  BY InboxEntries DEF TypeOK
<1>1. CASE inbox' = inbox
  BY <1>0, <1>1
<1>2. ASSUME NEW t \in Tokens, NEW x \in Chats, inbox' = Append(inbox, [token |-> t, chat |-> x])
      PROVE  /\ \A i \in 1..Len(inbox) : inbox'[i] = inbox[i]
             /\ Len(inbox) <= Len(inbox')
  BY <1>0, <1>2, AppendProperties
<1> QED
  BY <1>1, <1>2, NextSplit, ElsewhereLeaves, OneSession

\* While one request polls, another may only begin, or write an invitation.
LEMMA OthersBegin ==
    ASSUME TypeOK, PollHeld, NEW q \in Sessions, Polling(q),
           NEW s \in Sessions, s # q, OfSession(s)
    PROVE  /\ \/ \E t \in Tokens : BeginInvite(s, t) \/ BeginConfirm(s, t)
              \/ CommitInvite(s)
           /\ UNCHANGED <<polling, bindings, decision, clashed>>
<1>1. ~Polling(s) /\ pollLock = q
  BY OnePolls DEF PollHeld
<1>2. \/ \E t \in Tokens : BeginInvite(s, t) \/ BeginConfirm(s, t)
      \/ CommitInvite(s)
  <2>1. ~(Binds(s) \/ GivesUp(s) \/ NotStarted(s) \/ ChatTaken(s))
    BY <1>1, Ending
  <2>2. ~Poll(s)
    BY <1>1, NullAssumption DEF Poll, PollRowFree
  <2>3. ~StartIsConsent(s) /\ ~InsertConsent(s)
    BY <1>1 DEF StartIsConsent, InsertConsent, MayBind, Polling
  <2> QED
    BY <2>1, <2>2, <2>3, Zenon DEF OfSession, Confirm, Binds, GivesUp
<1>3. UNCHANGED <<polling, bindings, decision, clashed>>
  BY <1>2 DEF BeginInvite, BeginConfirm, CommitInvite
<1> QED
  BY <1>2, <1>3

LEMMA ClaimsInductive == TypeOK /\ PollHeld /\ Known /\ ClaimsHold /\ [Next]_vars => ClaimsHold'
<1> SUFFICES ASSUME TypeOK, PollHeld, Known, ClaimsHold, [Next]_vars,
                    NEW q \in Sessions, pc'[q] \in {"consent", "insert"}
             PROVE  /\ token'[tok'[q]] = "active"
                    /\ OwnerOf[tok'[q]] \in Candidates
                    /\ Recorded(q)'[tok'[q]] # NoChat
                    /\ ~Held(OwnerOf[tok[q]], Recorded(q)[tok[q]])'
  BY DEF ClaimsHold
<1>i. \A i \in 1..Len(inbox) : inbox'[i] = inbox[i]
  BY EarlierStarts
\* A claim stays good if nobody is bound and its token is left alone.
<1>1. ASSUME tok'[q] = tok[q], token[tok[q]] = "active", token'[tok[q]] = "active",
             OwnerOf[tok[q]] \in Candidates, Recorded(q)[tok[q]] # NoChat,
             ~Held(OwnerOf[tok[q]], Recorded(q)[tok[q]]),
             UNCHANGED <<polling, chat>>, polled'[q] = polled[q],
             \A r \in Recipients : revoked[r] => revoked'[r]
      PROVE  /\ token'[tok'[q]] = "active"
             /\ OwnerOf[tok'[q]] \in Candidates
             /\ Recorded(q)'[tok'[q]] # NoChat
             /\ ~Held(OwnerOf[tok[q]], Recorded(q)[tok[q]])'
  <2>1. Recorded(q)' = Recorded(q)
    BY <1>1, <1>i, SameRecord
  <2>2. ~Held(OwnerOf[tok[q]], Recorded(q)[tok[q]])'
    BY <1>1, <2>1 DEF Held, Active, Recipients
  <2> QED
    BY <1>1, <2>1, <2>2
<1>2. CASE UNCHANGED vars \/ Elsewhere
  <2>1. /\ UNCHANGED <<polling, token, sessions, chat>>
        /\ \A r \in Recipients : revoked[r] => revoked'[r]
    BY <1>2, ElsewhereLeaves
  <2> QED
    BY <1>1, <2>1 DEF ClaimsHold
<1>3. ASSUME NEW s \in Sessions, OfSession(s), s # q
      PROVE  /\ token'[tok'[q]] = "active"
             /\ OwnerOf[tok'[q]] \in Candidates
             /\ Recorded(q)'[tok'[q]] # NoChat
             /\ ~Held(OwnerOf[tok[q]], Recorded(q)[tok[q]])'
  <2>1. pc'[q] = pc[q] /\ tok'[q] = tok[q] /\ polled'[q] = polled[q] /\ Polling(q)
    BY <1>3, OneSession DEF Polling
  <2>2. UNCHANGED <<polling, bindings>>
    BY <1>3, <2>1, OthersBegin
  <2>3. token[tok[q]] = "active" /\ RowHeld(tok[q]) /\ tok[q] \in Tokens
    BY <2>1 DEF ClaimsHold, RowHeld, TypeOK
  <2>4. token'[tok[q]] = "active"
    <3>1. ~Binds(s)
      BY <1>3, <2>1, OnePolls, Ending
    <3>2. pc[s] = "invite" => tok[s] # tok[q]
      BY <2>3 DEF Known, InvitesAreNew
    <3> QED
      BY <1>3, <2>3, <3>1, <3>2, TokenSteps
  <2> QED
    BY <1>1, <2>1, <2>2, <2>3, <2>4 DEF ClaimsHold
<1>4. CASE OfSession(q)
  <2>1. ~(Binds(q) \/ GivesUp(q) \/ NotStarted(q) \/ ChatTaken(q))
    <3>1. Finish(q) => pc'[q] = "idle"
      BY DEF Finish, TypeOK
    <3> QED
      BY <3>1, Ending
  <2>2. ~ \E t \in Tokens : BeginInvite(q, t) \/ BeginConfirm(q, t)
    BY DEF BeginInvite, BeginConfirm, TypeOK
  <2>3. ~CommitInvite(q) /\ ~Poll(q)
    BY DEF CommitInvite, Poll, TypeOK
  <2>4. CASE StartIsConsent(q)
    BY <1>1, <2>4 DEF StartIsConsent, MayBind, Consumable
  <2>5. CASE InsertConsent(q)
    BY <1>1, <2>5 DEF InsertConsent, ClaimsHold
  <2> QED
    BY <1>4, <2>1, <2>2, <2>3, <2>4, <2>5, Zenon DEF OfSession, Confirm, Binds, GivesUp
<1> QED
  BY <1>2, <1>3, <1>4, NextSplit

-----------------------------------------------------------------------------
LEMMA StartsInductive ==
    TypeOK /\ PollHeld /\ Known /\ ClaimsHold /\ StartsKept /\ [Next]_vars => StartsKept'
<1> SUFFICES ASSUME TypeOK, PollHeld, Known, ClaimsHold, StartsKept, [Next]_vars,
                    NEW i \in 1..offset', token'[inbox'[i].token] = "active",
                    inbox'[i].token \notin clashed'
             PROVE  started'[inbox'[i].token] # NoChat
  BY DEF StartsKept
<1>0. /\ offset \in 0..Len(inbox) /\ Len(inbox) \in Nat
      /\ \A j \in 1..Len(inbox) : inbox'[j] = inbox[j] /\ inbox[j].token \in Tokens
  BY InboxEntries, EarlierStarts DEF TypeOK
<1>1. CASE UNCHANGED <<polling, clashed>> /\ \A t \in Tokens : token'[t] = "active" => token[t] = "active"
  BY <1>0, <1>1 DEF StartsKept
<1>2. CASE UNCHANGED vars \/ Elsewhere
  BY <1>1, <1>2, ElsewhereLeaves
<1>3. ASSUME NEW s \in Sessions, OfSession(s)
      PROVE  started'[inbox'[i].token] # NoChat
  <2>1. inbox' = inbox
    BY <1>3, OneSession
  <2>2. CASE CommitInvite(s)
    <3>1. UNCHANGED <<polling, clashed>> /\ tok[s] \in Tokens /\ token[tok[s]] = "unissued"
      BY <2>2 DEF CommitInvite, TypeOK, Known, InvitesAreNew
    <3>2. i \in 1..Len(inbox) /\ token[inbox[i].token] # "unissued" /\ inbox[i].token \in Tokens
      BY <1>0, <3>1 DEF Known, StartsAreIssued
    <3>3. token[inbox[i].token] = "active"
      BY <1>0, <2>1, <2>2, <3>1, <3>2 DEF CommitInvite
    <3> QED
      BY <1>0, <2>1, <3>1, <3>2, <3>3 DEF StartsKept
  <2>3. CASE \/ \E t \in Tokens : BeginInvite(s, t) \/ BeginConfirm(s, t)
             \/ Poll(s) \/ StartIsConsent(s) \/ InsertConsent(s) \/ GivesUp(s)
    <3>1. UNCHANGED <<polling, clashed, token>>
      BY <2>3, Zenon DEF BeginInvite, BeginConfirm, Poll, StartIsConsent, InsertConsent, GivesUp,
         Rollback, TokenGone
    <3> QED
      BY <1>1, <3>1
  <2>4. CASE Binds(s) \/ NotStarted(s) \/ ChatTaken(s)
    <3>0. tok[s] \in Tokens /\ Polling(s)
      BY <2>4, Ending
    <3>1. /\ offset' = polled[s] /\ clashed \subseteq clashed'
          /\ \A t \in Tokens \ {tok[s]} : token'[t] = token[t]
          /\ \A t \in Tokens \ {tok[s]} : started'[t] = Recorded(s)[t]
          /\ \/ token'[tok[s]] = "linked"
             \/ tok[s] \in clashed'
             \/ started' = Recorded(s) /\ token' = token
      <4>r. Recorded(s) \in [Tokens -> Chats \cup {NoChat}]
        BY RecordedStarts
      <4>1. CASE Binds(s)
        <5>1. /\ offset' = polled[s] /\ token' = [token EXCEPT ![tok[s]] = "linked"]
              /\ started' = [Recorded(s) EXCEPT ![tok[s]] = NoChat] /\ clashed' = clashed
          BY <3>0, <4>1, Ending, BindTypes
        <5> QED
          BY <3>0, <4>r, <5>1 DEF TypeOK
      <4>2. CASE NotStarted(s)
        BY <4>2 DEF NotStarted
      <4>3. CASE ChatTaken(s)
        <5>1. /\ offset' = polled[s] /\ started' = [Recorded(s) EXCEPT ![tok[s]] = NoChat]
              /\ clashed' = clashed \cup {tok[s]} /\ token' = token
          BY <4>3, Zenon DEF ChatTaken
        <5> QED
          BY <3>0, <4>r, <5>1
      <4> QED
        BY <2>4, <4>1, <4>2, <4>3
    <3>2. polled[s] \in 0..Len(inbox)
      BY DEF TypeOK
    <3>3. i \in 1..Len(inbox) /\ inbox'[i] = inbox[i] /\ inbox[i].token \in Tokens
      BY <1>0, <3>1, <3>2
    <3>4. token[inbox[i].token] = "active" /\ inbox[i].token \notin clashed
          /\ started'[inbox[i].token] = Recorded(s)[inbox[i].token]
      BY <3>1, <3>3 DEF TypeOK
    <3>5. CASE i <= offset
      <4>1. started[inbox[i].token] # NoChat
        BY <1>0, <3>3, <3>4, <3>5 DEF StartsKept
      <4> QED
        BY <3>3, <3>4, <4>1, RecordedStarts
    <3>6. CASE i > offset
      <4>1. i \in offset+1..polled[s]
        BY <1>0, <3>1, <3>2, <3>6
      <4> QED
        BY <3>3, <3>4, <4>1, RecordedStarts
    <3> QED
      BY <1>0, <3>5, <3>6
  <2> QED
    BY <1>3, <2>2, <2>3, <2>4, Zenon DEF OfSession, Confirm, Binds, GivesUp
<1> QED
  BY <1>2, <1>3, NextSplit

\* What the confirm endpoints rely on, whoever polls: see its parts.
Polled == PollHeld /\ Known /\ ClaimsHold

LEMMA PolledAlways == Spec => [](TypeOK /\ Polled)
<1>1. Init => Polled
  BY DEF Init, Polled, PollHeld, Polling, Known, InvitesAreNew, StartsAreIssued, ClaimsHold
<1>2. TypeOK /\ Polled /\ [Next]_vars => Polled'
  BY PollHeldInductive, KnownInductive, ClaimsInductive DEF Polled
<1> QED
  BY <1>1, <1>2, TypeCorrect, PTL DEF Spec

\* A /start the offset has passed is never lost to its owner, whoever's confirm
\* request polled it (confirm_telegram_link, confirm_link).
THEOREM StartsAreKept == Spec => []StartsKept
<1>1. Init => StartsKept
  BY DEF Init, StartsKept
<1>2. TypeOK /\ Polled /\ StartsKept /\ [Next]_vars => StartsKept'
  BY StartsInductive DEF Polled
<1> QED
  BY <1>1, <1>2, PolledAlways, PTL DEF Spec

\* While a message is handed to Telegram the candidate's consent stands: HR's
\* decision waits for the lock the send holds (set_telegram_consent).
THEOREM ConsentStands == Spec => []ConsentAtHandOff
<1>1. Init => ConsentAtHandOff
  BY DEF Init, ConsentAtHandOff
<1>2. TypeOK /\ ConsentAtHandOff /\ [Next]_vars => ConsentAtHandOff'
  <2> SUFFICES ASSUME TypeOK, ConsentAtHandOff, [Next]_vars
               PROVE  ConsentAtHandOff'
    OBVIOUS
  <2>1. CASE UNCHANGED <<sending, decision>>
    BY <2>1 DEF ConsentAtHandOff
  <2>2. ASSUME NEW c \in Candidates, NEW d \in {"granted", "refused"}, SetConsent(c, d)
        PROVE  ConsentAtHandOff'
    BY <2>2 DEF SetConsent, CandidateUnlocked, ConsentAtHandOff, TypeOK
  <2>3. ASSUME NEW c \in Candidates,
               \/ BeginSend(c) \/ PhaseB0(c) \/ ProviderCall(c) \/ PhaseC(c) \/ AutoRevoke(c)
        PROVE  ConsentAtHandOff'
    <3>1. decision' = decision
      BY <2>3, Zenon DEF BeginSend, PhaseB0, ProviderCall, PhaseC, AutoRevoke
    <3>2. \A q \in Candidates \ {c} : sending'[q] = sending[q]
      BY <2>3 DEF BeginSend, PhaseB0, ProviderCall, PhaseC, AutoRevoke, TypeOK
    <3>3. sending'[c] = "call" => decision[c] = "granted"
      BY <2>3 DEF BeginSend, PhaseB0, ProviderCall, PhaseC, AutoRevoke, Sendable, TypeOK
    <3> QED
      BY <3>1, <3>2, <3>3 DEF ConsentAtHandOff
  <2>4. ASSUME NEW s \in Sessions, OfSession(s)
        PROVE  ConsentAtHandOff'
    <3>1. sending' = sending
      BY <2>4, OneSession
    <3>2. \A c \in Candidates : decision[c] = "granted" => decision'[c] = "granted"
      BY <2>4 DEF OfSession, Confirm, BeginInvite, BeginConfirm, CommitInvite, Poll, Rollback,
         NotStarted, ChatTaken, TokenGone, BindKnown, StartIsConsent, UpdateConsent,
         InsertConsent, CommitConsent, TypeOK
    <3> QED
      BY <3>1, <3>2 DEF ConsentAtHandOff
  <2>5. CASE \/ \E t \in Tokens, x \in Chats : PressStart(t, x)
             \/ \E x \in Chats : BlockBot(x)
             \/ \E t \in Tokens : TokenExpires(t)
             \/ \E r \in Recipients : Unlink(r)
             \/ \E c \in Candidates : QueueMessage(c)
    BY <2>1, <2>5 DEF PressStart, BlockBot, TokenExpires, Unlink, QueueMessage
  <2> QED
    BY <2>1, <2>2, <2>3, <2>4, <2>5, NextSplit DEF Elsewhere
<1> QED
  BY <1>1, <1>2, TypeCorrect, PTL DEF Spec

\* Only a confirm that ends well binds anybody, and to a chat nobody else has.
LEMMA BindsToFreeChat ==
    ASSUME TypeOK, ClaimsHold, NEW s \in Sessions, Binds(s), OwnerOf[tok[s]] \in Candidates
    PROVE  ~Held(OwnerOf[tok[s]], Recorded(s)[tok[s]])
BY DEF Binds, BindKnown, UpdateConsent, CommitConsent, MayBind, ClaimsHold

LEMMA OnlyBindsBind ==
    ASSUME TypeOK, NEW s \in Sessions, OfSession(s), ~Binds(s)
    PROVE  UNCHANGED bindings
BY DEF OfSession, Confirm, Binds, BeginInvite, BeginConfirm, CommitInvite, Poll, Rollback,
   NotStarted, ChatTaken, TokenGone, StartIsConsent, InsertConsent

\* A candidate comes to a binding only by a live invitation and to a free chat:
\* no step takes a chat over, and a superseded invitation stays dead.
THEOREM BindingsEarned == Spec => BindingsAreEarned
<1>1. TypeOK /\ Polled /\ [Next]_vars
        => \A c \in Candidates :
             Active(c)' /\ (~Active(c) \/ chat'[c] # chat[c]) =>
                \A q \in Recipients \ {c} : ~(Active(q)' /\ chat'[q] = chat'[c])
  <2> SUFFICES ASSUME TypeOK, Polled, [Next]_vars, NEW c \in Candidates,
                      Active(c)', ~Active(c) \/ chat'[c] # chat[c],
                      NEW q \in Recipients \ {c}, Active(q)', chat'[q] = chat'[c]
               PROVE  FALSE
    OBVIOUS
  <2>0. c \in Recipients
    BY DEF Recipients
  <2>1. CASE chat' = chat /\ \A r \in Recipients : revoked[r] => revoked'[r]
    BY <2>0, <2>1 DEF Active
  <2>2. ASSUME NEW s \in Sessions, Binds(s)
        PROVE  FALSE
    <3> DEFINE r == OwnerOf[tok[s]]
               x == Recorded(s)[tok[s]]
    <3>1. /\ r \in Recipients
          /\ chat' = [chat EXCEPT ![r] = x] /\ revoked' = [revoked EXCEPT ![r] = FALSE]
      BY <2>2, Ending, BindTypes
    <3>2. r \in Candidates => ~Held(r, x)
      BY <2>2, BindsToFreeChat DEF Polled
    <3> HIDE DEF r, x
    <3>3. r = c
      BY <2>0, <3>1 DEF Active, TypeOK
    <3>4. \A p \in Recipients \ {c} : ~(Active(p) /\ chat[p] = x)
      BY <3>2, <3>3, KindAssumption DEF Held
    <3>5. chat'[c] = x /\ chat'[q] = chat[q] /\ revoked'[q] = revoked[q]
      BY <2>0, <3>1, <3>3 DEF TypeOK
    <3> QED
      BY <3>4, <3>5 DEF Active
  <2>3. CASE UNCHANGED vars
    BY <2>1, <2>3
  <2>4. CASE Elsewhere
    BY <2>1, <2>4, ElsewhereLeaves
  <2>5. ASSUME NEW s \in Sessions, OfSession(s)
        PROVE  FALSE
    BY <2>1, <2>2, <2>5, OnlyBindsBind
  <2> QED
    BY <2>3, <2>4, <2>5, NextSplit
<1>2. TypeOK /\ Polled /\ [Next]_vars
        => \A t \in Tokens : token[t] = "superseded" => token'[t] = "superseded"
  <2> SUFFICES ASSUME TypeOK, Polled, [Next]_vars, NEW t \in Tokens, token[t] = "superseded"
               PROVE  token'[t] = "superseded"
    OBVIOUS
  <2>1. CASE UNCHANGED vars \/ Elsewhere
    BY <2>1, ElsewhereLeaves
  <2>2. ASSUME NEW s \in Sessions, OfSession(s)
        PROVE  token'[t] = "superseded"
    <3>1. pc[s] = "invite" => tok[s] # t
      BY DEF Polled, Known, InvitesAreNew
    <3> QED
      BY <2>2, <3>1, TokenSteps DEF Polled, TypeOK
  <2> QED
    BY <2>1, <2>2, NextSplit
<1>3. TypeOK /\ Polled /\ [Next]_vars
        => [\A c \in Candidates :
              Active(c)' /\ (~Active(c) \/ chat'[c] # chat[c]) =>
                 \A q \in Recipients \ {c} : ~(Active(q)' /\ chat'[q] = chat'[c])]_vars
           /\ [\A t \in Tokens : token[t] = "superseded" => token'[t] = "superseded"]_vars
  BY <1>1, <1>2
<1> QED
  BY <1>3, PolledAlways, PTL DEF Spec, BindingsAreEarned, CandidatesNeverTakeOver, SupersededIsDead

-----------------------------------------------------------------------------
(* The channels of a user: which address a code proves, whose consent a    *)
(* message is handed over by, and what the page says of a channel.         *)

AddressFields == {"email", "verified", "pending", "code", "expired", "attempts", "error"}
PreferenceFields == {"optIn", "granted", "listed"}
IsRow(x, fields) == x = [f \in fields |-> x[f]]

\* A row of user_emails, and how many codes have been drawn by then.
IsAddress(x, drawn) == IsRow(x, AddressFields) /\ x.code \in 0..drawn
\* Both flags of a consent are written by whoever writes one of them.
IsPreference(x) == IsRow(x, PreferenceFields) /\ x.optIn = x.granted

Drawn == Cardinality(codes)
LettersAreNumbered ==
    /\ IsFiniteSet(codes)
    /\ \A l \in codes : l.code \in 0..Drawn

\* The code of the row, if one waits, was mailed to the address that waits.
MailedTo == address.pending # NoAddress /\ address.code # 0 =>
    User!Letter(address.code, address.pending) \in codes
AddressIsKnown == IsAddress(address, Drawn) /\ (~mixed => MailedTo)

RowsAre ==
    /\ address # NoAddress => AddressIsKnown
    /\ preference # NoAddress => IsPreference(preference)

\* What a request has read is a row that existed, and still does.
ReadBy(s) ==
    LET saw == call[s].saw
    IN  /\ call[s].op \in {"confirm", "remove"} => saw # NoAddress
        /\ call[s].op = "confirm" => saw.code # 0
        /\ call[s].op \in {"set", "confirm", "remove"} /\ saw # NoAddress =>
              IsAddress(saw, Drawn) /\ AddressIsKnown
        /\ call[s].op \in {"consent", "preferences"} /\ saw # NoAddress =>
              IsPreference(saw) /\ IsPreference(preference)
RequestsRead == IsRow(call, Sessions) /\ \A s \in Sessions : ReadBy(s)

\* From phase B0 on a message has an address that was bound, and later a consent.
MessageFields == {"at", "exempt", "to"}
HandedOver ==
    /\ IsRow(row, MessageFields)
    /\ row.at \in {"bound", "calling"} => row.to \in standing
    /\ row.at = "calling" => row.exempt \/ agreed

Decided ==
    /\ channel \in {"email", "telegram"}
    /\ LettersAreNumbered /\ RowsAre /\ RequestsRead
    /\ HandedOver

-----------------------------------------------------------------------------

LEMMA SameCount == \A S : User!Cardinality(S) = Cardinality(S)
  BY DEF User!Cardinality, Cardinality

\* What a commit makes of the row, field by field.
LEMMA MergedFields ==
    ASSUME NEW F, NEW now, IsRow(now, F), NEW saw, NEW new
    PROVE  User!Merge(now, saw, new) = [f \in F |-> IF new[f] = saw[f] THEN now[f] ELSE new[f]]
<1>1. DOMAIN now = F
  BY DEF IsRow
<1> QED
  BY <1>1 DEF User!Merge

\* A letter with the next code is a new one.
LEMMA NextLetter ==
    ASSUME LettersAreNumbered, NEW to
    PROVE  LET n == Cardinality(codes) + 1
               more == codes \cup {User!Letter(n, to)}
           IN  /\ Drawn \in Nat /\ n = Drawn + 1
               /\ IsFiniteSet(more) /\ Cardinality(more) = n
               /\ \A l \in more : l.code \in 0..n
<1> DEFINE n == Cardinality(codes) + 1
           l0 == User!Letter(n, to)
           more == codes \cup {l0}
<1>1. Cardinality(codes) \in Nat
  BY FS_CardinalityType DEF LettersAreNumbered, Drawn
<1>2. l0.code = n
  BY DEF User!Letter
<1>3. l0 \notin codes
  BY <1>1, <1>2 DEF LettersAreNumbered, Drawn
<1>4. IsFiniteSet(more) /\ Cardinality(more) = n
  BY <1>3, FS_AddElement DEF LettersAreNumbered
<1>5. \A l \in more : l.code \in 0..n
  BY <1>1, <1>2 DEF LettersAreNumbered, Drawn
<1> QED
  BY <1>1, <1>4, <1>5 DEF Drawn

LEMMA DecidedAtFirst == User!Init => Decided
<1> SUFFICES ASSUME User!Init
             PROVE  Decided
  OBVIOUS
<1>1. LettersAreNumbered
  <2>1. codes = {}
    BY Zenon DEF User!Init
  <2> QED
    BY <2>1, FS_EmptySet DEF LettersAreNumbered
<1>2. /\ channel \in {"email", "telegram"}
      /\ row = User!NoMessage /\ call = [s \in Sessions |-> User!Idle]
  BY Zenon DEF User!Init
<1>3. \/ address = NoAddress
      \/ \E a \in Chats : address = [User!NewAddress EXCEPT !.email = a, !.verified = TRUE]
  BY Zenon DEF User!Init
<1>4. address # NoAddress => IsRow(address, AddressFields) /\ address.code = 0
                             /\ address.pending = NoAddress
  BY <1>3 DEF IsRow, AddressFields, User!NewAddress
<1>5. Drawn \in Nat
  BY <1>1, FS_CardinalityType DEF LettersAreNumbered, Drawn
<1>6. preference # NoAddress => preference \in [optIn : {TRUE}, granted : {TRUE}, listed : {TRUE}]
  BY Zenon DEF User!Init
<1>7. preference # NoAddress => IsPreference(preference)
  BY <1>6 DEF IsPreference, IsRow, PreferenceFields
<1>8. RowsAre
  BY <1>4, <1>5, <1>7 DEF RowsAre, AddressIsKnown, MailedTo, IsAddress
<1>9. RequestsRead
  BY <1>2 DEF RequestsRead, ReadBy, IsRow, User!Idle
<1>10. HandedOver
  BY <1>2 DEF HandedOver, IsRow, MessageFields, User!NoMessage
<1> QED
  BY <1>1, <1>2, <1>8, <1>9, <1>10 DEF Decided

\* Whoever else has read a row finds it a row, whatever a commit makes of it.
LEMMA ReadersStay ==
    ASSUME RequestsRead, LettersAreNumbered, LettersAreNumbered',
           IsRow(call', Sessions),
           \A s \in Sessions : call'[s] = call[s] \/ call'[s].op = "idle",
           Drawn <= Drawn',
           AddressIsKnown => AddressIsKnown',
           IsPreference(preference) => IsPreference(preference')
    PROVE  RequestsRead'
<1>1. Drawn \in Nat /\ Drawn' \in Nat
  BY FS_CardinalityType DEF LettersAreNumbered, Drawn
<1>2. \A x : IsAddress(x, Drawn) => IsAddress(x, Drawn')
  BY <1>1 DEF IsAddress
<1>4. ASSUME NEW s \in Sessions
      PROVE  ReadBy(s)'
  <2>1. CASE call'[s].op = "idle"
    BY <2>1 DEF ReadBy
  <2>2. CASE call'[s] = call[s]
    <3>1. ReadBy(s)
      BY DEF RequestsRead
    <3> QED
      BY <1>2, <2>2, <3>1 DEF ReadBy
  <2> QED
    BY <2>1, <2>2
<1> QED
  BY <1>4 DEF RequestsRead

LEMMA Committed ==
    ASSUME RequestsRead, NEW q \in Sessions, User!Commit(q)
    PROVE  /\ IsRow(call', Sessions)
           /\ \A s \in Sessions : call'[s] = call[s] \/ call'[s].op = "idle"
  BY DEF RequestsRead, IsRow, User!Commit, User!Idle

\* set_email: the row gets a code that no letter had, and the letter is its own.
LEMMA SetKeeps ==
    ASSUME Decided, NEW q \in Sessions, User!SetEmail(q)
    PROVE  LettersAreNumbered' /\ RowsAre' /\ RequestsRead'
<1> DEFINE saw == call[q].saw
           to == call[q].arg
           n == Cardinality(codes) + 1
           old == IF saw = NoAddress THEN User!NewAddress ELSE saw
           new == [old EXCEPT !.pending = to, !.code = n, !.expired = FALSE, !.attempts = 0]
<1>1. call[q].op = "set" /\ User!Commit(q) /\ preference' = preference
  BY DEF User!SetEmail
<1>2. LettersAreNumbered /\ RowsAre /\ RequestsRead
  BY DEF Decided
<1>3. /\ LettersAreNumbered' /\ Drawn <= Drawn'
      /\ (AddressIsKnown => AddressIsKnown') /\ (address' # NoAddress => AddressIsKnown')
  <2>1. CASE User!Collides(address, saw)
    <3>1. UNCHANGED <<address, codes, mixed>>
      BY <2>1 DEF User!SetEmail
    <3>2. Drawn' = Drawn /\ Drawn \in Nat
      BY <1>2, <3>1, FS_CardinalityType DEF LettersAreNumbered, Drawn
    <3>3. LettersAreNumbered' /\ Drawn <= Drawn'
      BY <1>2, <3>1, <3>2 DEF LettersAreNumbered
    <3>4. AddressIsKnown => AddressIsKnown'
      BY <3>1, <3>2 DEF AddressIsKnown, MailedTo
    <3> QED
      BY <1>2, <3>1, <3>3, <3>4 DEF RowsAre
  <2>2. CASE ~User!Collides(address, saw)
    <3>1. address' = [User!Saved(address, saw, new) EXCEPT !.expired = FALSE]
      BY <2>2, SameCount DEF User!SetEmail
    <3>2. codes' = codes \cup {User!Letter(n, to)}
      BY <2>2, SameCount DEF User!SetEmail
    <3>3. ~mixed' => saw = NoAddress \/ address.pending \in {NoAddress, saw.pending}
      BY <2>2 DEF User!SetEmail
    <3>4. Drawn \in Nat /\ n = Drawn + 1 /\ Drawn' = n /\ LettersAreNumbered'
      BY <1>2, <3>2, NextLetter DEF LettersAreNumbered, Drawn
    <3>5. saw # NoAddress => IsAddress(saw, Drawn) /\ IsAddress(address, Drawn)
      BY <1>1, <1>2 DEF RequestsRead, ReadBy, AddressIsKnown
    <3>6. IsRow(new, AddressFields) /\ new.code = n /\ new.pending = to
      BY <3>5 DEF IsAddress, IsRow, AddressFields, User!NewAddress
    <3> HIDE DEF new
    <3>7. /\ IsRow(address', AddressFields)
          /\ address'.code = n
          /\ address'.pending = IF saw = NoAddress \/ saw.pending # to THEN to ELSE address.pending
      <4>1. CASE saw = NoAddress
        <5>1. User!Saved(address, saw, new) = new
          BY <2>2, <4>1 DEF User!Saved
        <5> QED
          BY <3>1, <3>6, <4>1, <5>1 DEF IsRow, AddressFields
      <4>2. CASE saw # NoAddress
        <5>1. User!Saved(address, saw, new)
              = [f \in AddressFields |-> IF new[f] = saw[f] THEN address[f] ELSE new[f]]
          BY <2>2, <3>5, <4>2, MergedFields DEF User!Saved, IsAddress
        <5>2. saw.code # n
          BY <3>4, <3>5, <4>2 DEF IsAddress
        <5> QED
          BY <3>1, <3>6, <4>2, <5>1, <5>2 DEF IsRow, AddressFields
      <4> QED
        BY <4>1, <4>2
    <3>8. IsAddress(address', Drawn')
      BY <3>4, <3>7 DEF IsAddress
    <3>9. ~mixed' => MailedTo'
      BY <3>2, <3>3, <3>7 DEF MailedTo
    <3> QED
      BY <3>4, <3>8, <3>9 DEF AddressIsKnown
  <2> QED
    BY <2>1, <2>2
<1>4. RowsAre'
  BY <1>1, <1>2, <1>3 DEF RowsAre
<1> QED
  BY <1>1, <1>2, <1>3, <1>4, Committed, ReadersStay

\* Whoever else writes a row of user_emails leaves alone, or takes away, its code
\* and the address that waits.
AddressKept ==
    /\ codes' = codes /\ mixed' = mixed
    /\ \/ address' = address
       \/ /\ AddressIsKnown /\ IsRow(address', AddressFields)
          /\ address'.code \in {0, address.code}
          /\ address'.code = 0 \/ address'.pending \in {NoAddress, address.pending}

LEMMA KnownStays ==
    ASSUME LettersAreNumbered, RowsAre, AddressKept
    PROVE  /\ LettersAreNumbered' /\ Drawn <= Drawn'
           /\ AddressIsKnown => AddressIsKnown'
           /\ address' # NoAddress => AddressIsKnown'
<1>1. Drawn \in Nat /\ Drawn' = Drawn
  BY FS_CardinalityType DEF LettersAreNumbered, Drawn, AddressKept
<1>2. LettersAreNumbered' /\ Drawn <= Drawn'
  BY <1>1 DEF AddressKept, LettersAreNumbered
<1>3. CASE address' = address
  BY <1>1, <1>2, <1>3 DEF AddressKept, RowsAre, AddressIsKnown, MailedTo
<1>4. CASE address' # address
  <2>1. /\ AddressIsKnown /\ IsRow(address', AddressFields)
        /\ address'.code \in {0, address.code}
        /\ address'.code = 0 \/ address'.pending \in {NoAddress, address.pending}
    BY <1>4 DEF AddressKept
  <2>2. IsAddress(address', Drawn')
    BY <1>1, <2>1 DEF AddressIsKnown, IsAddress
  <2>3. ~mixed' => MailedTo'
    BY <2>1 DEF AddressKept, AddressIsKnown, MailedTo
  <2> QED
    BY <1>2, <2>2, <2>3 DEF AddressIsKnown
<1> QED
  BY <1>3, <1>4

LEMMA ConfirmKeeps ==
    ASSUME Decided, NEW q \in Sessions, User!ConfirmEmail(q)
    PROVE  AddressKept
<1> DEFINE saw == call[q].saw
           counted == [saw EXCEPT !.attempts = IF @ > MaxGuesses THEN @ ELSE @ + 1]
           promoted == [saw EXCEPT !.email = saw.pending, !.verified = TRUE, !.pending = NoAddress,
                                   !.code = 0, !.expired = FALSE, !.attempts = 0, !.error = "none"]
<1>1. call[q].op = "confirm" /\ codes' = codes /\ mixed' = mixed
  BY DEF User!ConfirmEmail
<1>2. IsRow(saw, AddressFields) /\ saw.code # 0 /\ AddressIsKnown
  BY <1>1 DEF Decided, RequestsRead, ReadBy, IsAddress
<1>3. IsRow(address, AddressFields)
  BY <1>2 DEF AddressIsKnown, IsAddress
<1>4. \/ address' = User!Merge(address, saw, counted)
      \/ address' = [User!Merge(address, saw, promoted) EXCEPT !.verified = TRUE, !.expired = FALSE]
  BY DEF User!ConfirmEmail
<1>5. CASE address' = User!Merge(address, saw, counted)
  <2>1. IsRow(counted, AddressFields) /\ counted.code = saw.code /\ counted.pending = saw.pending
    BY <1>2 DEF IsRow, AddressFields
  <2> HIDE DEF counted
  <2>2. address' = [f \in AddressFields |-> IF counted[f] = saw[f] THEN address[f] ELSE counted[f]]
    BY <1>3, <1>5, MergedFields
  <2> QED
    BY <1>1, <1>2, <2>1, <2>2 DEF AddressKept, IsRow, AddressFields
<1>6. CASE address' = [User!Merge(address, saw, promoted) EXCEPT !.verified = TRUE, !.expired = FALSE]
  <2>1. IsRow(promoted, AddressFields) /\ promoted.code = 0
    BY <1>2 DEF IsRow, AddressFields
  <2> HIDE DEF promoted
  <2>2. User!Merge(address, saw, promoted)
        = [f \in AddressFields |-> IF promoted[f] = saw[f] THEN address[f] ELSE promoted[f]]
    BY <1>3, MergedFields
  <2> QED
    BY <1>1, <1>2, <1>6, <2>1, <2>2 DEF AddressKept, IsRow, AddressFields
<1> QED
  BY <1>4, <1>5, <1>6

LEMMA RemoveKeeps ==
    ASSUME Decided, NEW q \in Sessions, User!RemoveEmail(q)
    PROVE  AddressKept
<1> DEFINE saw == call[q].saw
<1>1. /\ call[q].op = "remove" /\ codes' = codes /\ mixed' = mixed
      /\ address' = User!Merge(address, saw, User!NewAddress)
  BY DEF User!RemoveEmail
<1>2. IsRow(saw, AddressFields) /\ AddressIsKnown
  BY <1>1 DEF Decided, RequestsRead, ReadBy, IsAddress
<1>3. IsRow(address, AddressFields)
  BY <1>2 DEF AddressIsKnown, IsAddress
<1>4. address' = [f \in AddressFields |-> IF User!NewAddress[f] = saw[f] THEN address[f]
                                          ELSE User!NewAddress[f]]
  BY <1>1, <1>3, MergedFields
<1>5. /\ address'.code = IF saw.code = 0 THEN address.code ELSE 0
      /\ address'.pending = IF saw.pending = NoAddress THEN address.pending ELSE NoAddress
  BY <1>4 DEF AddressFields, User!NewAddress
<1> QED
  BY <1>1, <1>2, <1>4, <1>5 DEF AddressKept, IsRow

\* A worker notes an error, and a code expires.
LEMMA NoteKeeps ==
    ASSUME Decided,
           User!CodeExpires \/ \E outcome \in {"accepted", "temporary", "dead"} : User!PhaseC(outcome)
    PROVE  AddressKept
<1>1. codes' = codes /\ mixed' = mixed
  BY DEF User!CodeExpires, User!PhaseC
<1>2. \/ address' = address
      \/ address # NoAddress /\ address' = [address EXCEPT !.expired = TRUE]
      \/ address # NoAddress /\ \E e : address' = [address EXCEPT !.error = e]
  BY DEF User!CodeExpires, User!PhaseC, User!Pending
<1>3. address # NoAddress => AddressIsKnown /\ IsRow(address, AddressFields)
  BY DEF Decided, RowsAre, AddressIsKnown, IsAddress
<1> QED
  BY <1>1, <1>2, <1>3 DEF AddressKept, IsRow, AddressFields

\* _set_consent and put_preferences write both flags of a consent or none, also over
\* a row that has changed since.
LEMMA PreferenceKept ==
    ASSUME Decided, NEW q \in Sessions, User!SaveConsent(q) \/ User!SavePreferences(q)
    PROVE  /\ IsPreference(preference) => IsPreference(preference')
           /\ preference' # NoAddress => IsPreference(preference')
<1> DEFINE saw == call[q].saw
           old == IF saw = NoAddress THEN User!Defaults ELSE saw
           Written(new) == IsPreference(new) /\ preference' = User!Saved(preference, saw, new)
<1>1. call[q].op \in {"consent", "preferences"}
  BY DEF User!SaveConsent, User!SavePreferences
<1>2. saw # NoAddress => IsPreference(saw) /\ IsPreference(preference)
  BY <1>1 DEF Decided, RequestsRead, ReadBy
<1>3. preference # NoAddress => IsPreference(preference)
  BY DEF Decided, RowsAre
<1>4. \E new : Written(new)
  <2>1. CASE User!SaveConsent(q)
    <3> DEFINE g == call[q].arg
               new == [optIn |-> g, granted |-> g, listed |-> g]
    <3>1. preference' = User!Saved(preference, saw, new)
      BY <2>1 DEF User!SaveConsent
    <3>2. IsPreference(new)
      BY DEF IsPreference, IsRow, PreferenceFields
    <3> QED
      BY <3>1, <3>2
  <2>2. CASE User!SavePreferences(q)
    <3> DEFINE new == [old EXCEPT !.listed = call[q].arg]
    <3>1. preference' = User!Saved(preference, saw, new)
      BY <2>2 DEF User!SavePreferences
    <3>2. IsPreference(old)
      BY <1>2 DEF IsPreference, IsRow, PreferenceFields, User!Defaults
    <3>3. IsPreference(new)
      BY <3>2 DEF IsPreference, IsRow, PreferenceFields
    <3> QED
      BY <3>1, <3>3
  <2> QED
    BY <2>1, <2>2
<1>5. PICK new : Written(new)
  BY <1>4
<1>6. CASE User!Collides(preference, saw)
  BY <1>3, <1>5, <1>6 DEF User!Saved
<1>7. CASE ~User!Collides(preference, saw) /\ saw = NoAddress
  BY <1>5, <1>7 DEF User!Saved
<1>8. CASE ~User!Collides(preference, saw) /\ saw # NoAddress
  <2>1. IsRow(preference, PreferenceFields)
    BY <1>2, <1>8 DEF IsPreference
  <2>2. preference' = [f \in PreferenceFields |-> IF new[f] = saw[f] THEN preference[f] ELSE new[f]]
    BY <1>5, <1>8, <2>1, MergedFields DEF User!Saved
  <2>3. /\ preference'.optIn = IF new.optIn = saw.optIn THEN preference.optIn ELSE new.optIn
        /\ preference'.granted = IF new.granted = saw.granted THEN preference.granted ELSE new.granted
    BY <2>2 DEF PreferenceFields
  <2>4. /\ new.optIn = new.granted /\ saw.optIn = saw.granted
        /\ preference.optIn = preference.granted
    BY <1>2, <1>5, <1>8 DEF IsPreference
  <2> QED
    BY <2>2, <2>3, <2>4 DEF IsPreference, IsRow
<1> QED
  BY <1>6, <1>7, <1>8

LEMMA StepKeeps ==
    ASSUME Decided, User!Step
    PROVE  LettersAreNumbered' /\ RowsAre' /\ RequestsRead'
<1>1. LettersAreNumbered /\ RowsAre /\ RequestsRead
  BY DEF Decided
<1>2. ASSUME AddressKept, preference' = preference \/ \E q \in Sessions :
                              User!SaveConsent(q) \/ User!SavePreferences(q),
             call' = call \/ \E q \in Sessions : User!Commit(q)
      PROVE  LettersAreNumbered' /\ RowsAre' /\ RequestsRead'
  <2>1. /\ IsPreference(preference) => IsPreference(preference')
        /\ preference' # NoAddress => IsPreference(preference')
    BY <1>1, <1>2, PreferenceKept DEF RowsAre
  <2>2. /\ LettersAreNumbered' /\ Drawn <= Drawn'
        /\ AddressIsKnown => AddressIsKnown'
        /\ address' # NoAddress => AddressIsKnown'
    BY <1>1, <1>2, KnownStays
  <2>3. /\ IsRow(call', Sessions)
        /\ \A s \in Sessions : call'[s] = call[s] \/ call'[s].op = "idle"
    BY <1>1, <1>2, Committed DEF RequestsRead
  <2> QED
    BY <1>1, <2>1, <2>2, <2>3, ReadersStay DEF RowsAre
<1>3. CASE \E q \in Sessions : User!SetEmail(q)
  BY <1>3, SetKeeps
<1>4. CASE \E q \in Sessions : User!ConfirmEmail(q) \/ User!RemoveEmail(q)
  <2>1. AddressKept
    BY <1>4, ConfirmKeeps, RemoveKeeps
  <2>2. preference' = preference /\ \E q \in Sessions : User!Commit(q)
    BY <1>4 DEF User!ConfirmEmail, User!RemoveEmail
  <2> QED
    BY <1>2, <2>1, <2>2
<1>5. CASE \E q \in Sessions : User!SaveConsent(q) \/ User!SavePreferences(q)
  <2>1. AddressKept /\ \E q \in Sessions : User!Commit(q)
    BY <1>5 DEF AddressKept, User!SaveConsent, User!SavePreferences
  <2> QED
    BY <1>2, <1>5, <2>1
<1>6. CASE User!CodeExpires \/ \E outcome \in {"accepted", "temporary", "dead"} : User!PhaseC(outcome)
  <2>1. preference' = preference /\ call' = call
    BY <1>6 DEF User!CodeExpires, User!PhaseC
  <2> QED
    BY <1>2, <1>6, <2>1, NoteKeeps
<1>7. CASE \/ User!CreateLinkCode \/ User!LinkCodeExpires
           \/ User!Unlink \/ User!Disable \/ \E x \in Chats : User!Link(x)
           \/ User!QueueTest \/ User!QueueMessage \/ User!PhaseA
           \/ User!PhaseB0ReadsBinding \/ User!PhaseB0ReadsConsent
  <2>1. UNCHANGED <<address, preference, call, codes, mixed>>
    BY <1>7 DEF User!CreateLinkCode, User!LinkCodeExpires,
                User!Unlink, User!Disable, User!Link, User!QueueTest, User!QueueMessage,
                User!PhaseA, User!PhaseB0ReadsBinding, User!PhaseB0ReadsConsent, User!contact
  <2> QED
    BY <1>2, <2>1 DEF AddressKept
<1> QED
  BY <1>3, <1>4, <1>5, <1>6, <1>7 DEF User!Step

\* A message moves on by phases A, B0 and C alone.
LEMMA RowSteps ==
    ASSUME User!Step, IsRow(row, MessageFields)
    PROVE  /\ IsRow(row', MessageFields)
           /\ row'.at \in {"bound", "calling"} =>
                \/ row' = row
                \/ User!PhaseB0ReadsBinding
                \/ User!PhaseB0ReadsConsent
<1> USE DEF IsRow, MessageFields, User!Skip, User!NoMessage
<1>1. CASE \E q \in Sessions : \/ User!SetEmail(q) \/ User!ConfirmEmail(q) \/ User!RemoveEmail(q)
                               \/ User!SaveConsent(q) \/ User!SavePreferences(q)
  BY <1>1 DEF User!SetEmail, User!ConfirmEmail, User!RemoveEmail, User!SaveConsent, User!SavePreferences
<1>2. CASE \/ User!CodeExpires \/ User!CreateLinkCode \/ User!LinkCodeExpires
           \/ User!Unlink \/ User!Disable \/ \E x \in Chats : User!Link(x)
  BY <1>2 DEF User!CodeExpires, User!CreateLinkCode, User!LinkCodeExpires, User!Unlink, User!Disable, User!Link
<1>3. CASE User!QueueTest \/ User!QueueMessage
  BY <1>3 DEF User!QueueTest, User!QueueMessage, User!ChannelTest
<1>4. CASE User!PhaseA
  <2>1. row' = User!NoMessage \/ \E to : row' = [row EXCEPT !.at = "resolved", !.to = to]
    BY <1>4 DEF User!PhaseA
  <2>2. CASE row' = User!NoMessage
    BY <2>2
  <2>3. ASSUME NEW to, row' = [row EXCEPT !.at = "resolved", !.to = to]
        PROVE  IsRow(row', MessageFields) /\ row'.at = "resolved"
    BY <2>3
  <2> QED
    BY <2>1, <2>2, <2>3
<1>5. CASE User!PhaseB0ReadsBinding \/ User!PhaseB0ReadsConsent
  BY <1>5 DEF User!PhaseB0ReadsBinding, User!PhaseB0ReadsConsent
<1>6. CASE \E outcome \in {"accepted", "temporary", "dead"} : User!PhaseC(outcome)
  <2>1. row' = User!NoMessage \/ row' = [row EXCEPT !.at = "queued", !.to = NoAddress]
    BY <1>6 DEF User!PhaseC
  <2>2. CASE row' = User!NoMessage
    BY <2>2
  <2>3. CASE row' = [row EXCEPT !.at = "queued", !.to = NoAddress]
    BY <2>3
  <2> QED
    BY <2>1, <2>2, <2>3
<1> QED
  BY <1>1, <1>2, <1>3, <1>4, <1>5, <1>6 DEF User!Step

\* Phase B0 reads the binding and then the consent, each as it stands at that moment.
LEMMA HandsOver ==
    ASSUME Decided, User!Step, User!Remember
    PROVE  HandedOver'
<1>1. HandedOver
  BY DEF Decided
<1>2. /\ IsRow(row', MessageFields)
      /\ row'.at \in {"bound", "calling"} =>
            row' = row \/ User!PhaseB0ReadsBinding \/ User!PhaseB0ReadsConsent
  BY <1>1, RowSteps DEF HandedOver
<1>3. SUFFICES ASSUME row'.at \in {"bound", "calling"}
               PROVE  row'.to \in standing' /\ (row'.at = "calling" => row'.exempt \/ agreed')
  BY <1>2 DEF HandedOver
<1>4. standing' = (IF row.at = "resolved" THEN {} ELSE standing) \cup ({User!Binding'} \ {NoAddress})
  BY <1>3 DEF User!Remember
<1>5. row.at # "resolved" /\ agreed => agreed'
  BY <1>3 DEF User!Remember
<1>6. User!HasConsent' => agreed'
  BY <1>3 DEF User!Remember
<1>7. CASE row' = row
  BY <1>1, <1>3, <1>4, <1>5, <1>7 DEF HandedOver
<1>8. CASE User!PhaseB0ReadsBinding
  <2>1. /\ UNCHANGED <<address, preference, linked, channel>>
        /\ row' = [row EXCEPT !.at = IF row.exempt THEN "calling" ELSE "bound",
                              !.to = User!Binding]
        /\ User!Binding # NoAddress
    BY <1>3, <1>8 DEF User!PhaseB0ReadsBinding, User!FreshTarget, User!Skip, User!NoMessage, User!contact
  <2>2. User!Binding' = User!Binding
    BY <2>1 DEF User!Binding
  <2> QED
    BY <1>1, <1>4, <2>1, <2>2 DEF HandedOver, IsRow, MessageFields
<1>9. CASE User!PhaseB0ReadsConsent
  <2>1. /\ row.at = "bound" /\ preference' = preference
        /\ User!HasConsent /\ row' = [row EXCEPT !.at = "calling"]
    BY <1>3, <1>9 DEF User!PhaseB0ReadsConsent, User!Skip, User!NoMessage, User!contact
  <2>2. User!HasConsent'
    BY <2>1 DEF User!HasConsent
  <2> QED
    BY <1>1, <1>4, <1>6, <2>1, <2>2 DEF HandedOver, IsRow, MessageFields
<1> QED
  BY <1>2, <1>3, <1>7, <1>8, <1>9

\* A request begins by reading the row that is there.
LEMMA BeginKeeps ==
    ASSUME Decided, NEW q \in Sessions,
           \/ \E a \in Chats : User!BeginSet(q, a)
           \/ \E code : User!BeginConfirm(q, code)
           \/ User!BeginRemove(q)
           \/ \E value : User!BeginConsent(q, value) \/ User!BeginPreferences(q, value)
    PROVE  Decided'
<1> DEFINE Reads(op, saw) ==
             \E arg : call' = [call EXCEPT ![q] = [op |-> op, saw |-> saw, arg |-> arg]]
<1>1. UNCHANGED <<address, preference, channel, codes, row, standing, agreed, mixed>>
  BY DEF User!BeginSet, User!BeginConfirm, User!BeginRemove, User!BeginConsent,
         User!BeginPreferences, User!Begin, User!contact, User!history
<1>2. \/ Reads("set", address)
      \/ Reads("confirm", address) /\ address # NoAddress /\ address.code # 0
      \/ Reads("remove", address) /\ address # NoAddress
      \/ Reads("consent", preference) \/ Reads("preferences", preference)
  BY DEF User!BeginSet, User!BeginConfirm, User!BeginRemove, User!BeginConsent,
         User!BeginPreferences, User!Begin, User!Pending
<1>3. LettersAreNumbered /\ RowsAre /\ RequestsRead /\ HandedOver
  BY DEF Decided
<1>4. Drawn' = Drawn /\ LettersAreNumbered' /\ RowsAre' /\ HandedOver'
  <2>1. Drawn' = Drawn
    BY <1>1 DEF Drawn
  <2>2. LettersAreNumbered' /\ RowsAre'
    BY <1>1, <1>3, <2>1 DEF LettersAreNumbered, RowsAre, AddressIsKnown, MailedTo
  <2> QED
    BY <1>1, <1>3, <2>1, <2>2 DEF HandedOver
<1>5. AddressIsKnown => AddressIsKnown'
  BY <1>1, <1>4 DEF AddressIsKnown, MailedTo
<1>6. IsRow(call', Sessions) /\ \A s \in Sessions \ {q} : call'[s] = call[s]
  BY <1>2, <1>3 DEF RequestsRead, IsRow
<1>7. ASSUME NEW s \in Sessions \ {q}
      PROVE  ReadBy(s)'
  <2>1. ReadBy(s)
    BY <1>3 DEF RequestsRead
  <2> QED
    BY <1>1, <1>4, <1>5, <1>6, <2>1 DEF ReadBy
<1>8. ReadBy(q)'
  <2>1. ASSUME NEW op, NEW saw, Reads(op, saw)
        PROVE  call'[q].op = op /\ call'[q].saw = saw
    BY <1>3, <2>1 DEF RequestsRead, IsRow
  <2>2. /\ address # NoAddress => AddressIsKnown /\ IsAddress(address, Drawn)
        /\ preference # NoAddress => IsPreference(preference)
    BY <1>3 DEF RowsAre, AddressIsKnown
  <2> HIDE DEF Reads
  <2> QED
    BY <1>1, <1>2, <1>4, <1>5, <2>1, <2>2 DEF ReadBy
<1> QED
  BY <1>1, <1>3, <1>4, <1>6, <1>7, <1>8 DEF Decided, RequestsRead

LEMMA DecidedStep ==
    ASSUME Decided, [MCNext]_<<vars, stage, account>>
    PROVE  Decided'
<1>1. CASE User!Next
  <2>1. CASE User!Step /\ User!Remember
    <3>1. channel' = channel
      BY <2>1 DEF User!Step, User!SetEmail, User!ConfirmEmail, User!RemoveEmail, User!SaveConsent,
                  User!SavePreferences, User!CodeExpires, User!CreateLinkCode,
                  User!LinkCodeExpires, User!Unlink, User!Disable, User!Link,
                  User!QueueTest, User!QueueMessage, User!PhaseA, User!PhaseB0ReadsBinding,
                  User!PhaseB0ReadsConsent, User!PhaseC, User!contact
    <3> QED
      BY <2>1, <3>1, StepKeeps, HandsOver DEF Decided
  <2>2. CASE ~(User!Step /\ User!Remember)
    BY <1>1, <2>2, BeginKeeps DEF User!Next
  <2> QED
    BY <2>1, <2>2
<1>2. CASE UNCHANGED account
  BY <1>2 DEF account, Decided, LettersAreNumbered, Drawn, RowsAre, AddressIsKnown, MailedTo,
              RequestsRead, ReadBy, HandedOver
<1> QED
  BY <1>1, <1>2 DEF MCNext

\* The page calls a channel working exactly when messages are queued for it and no
\* link code waits; a pending address never hides the one there is.
LEMMA PageIsRight ==
    ASSUME channel \in {"email", "telegram"}
    PROVE  User!State \in {"works", "temporarily_unavailable"} <=>
             User!Eligible /\ ~User!LinkWaits
<1> DEFINE gone == channel = "telegram" /\ linked.id # NoAddress /\ linked.revoked
           pending == User!LinkWaits \/ (User!AddressWaits /\ User!Binding = NoAddress)
           working == {"works", "temporarily_unavailable"}
<1>1. User!Eligible <=> User!Binding # NoAddress /\ User!HasConsent
  BY DEF User!Eligible
<1>2. gone => User!Binding = NoAddress
  BY DEF User!Binding
<1>3. pending => User!LinkWaits \/ User!Binding = NoAddress
  OBVIOUS
<1>4. /\ "not_configured" \notin working /\ "revoked" \notin working /\ "pending" \notin working
      /\ "works" \in working /\ "temporarily_unavailable" \in working
  OBVIOUS
<1> QED
  BY <1>1, <1>2, <1>3, <1>4, Zenon DEF User!State

\* The user decides what arrives where (set_email, confirm_email, _set_consent,
\* _resolve_external_target), for any requests at once, any bounds and any order of
\* what the worker and they read and write.
THEOREM TheUserDecides == MCSpec => []UserDecides
<1>1. MCInit => Decided
  BY DecidedAtFirst DEF MCInit
<1>2. Decided /\ [MCNext]_<<vars, stage, account>> => Decided'
  BY DecidedStep
<1>3. Decided => UserDecides
  <2> SUFFICES ASSUME Decided
               PROVE  UserDecides
    OBVIOUS
  <2>1. ~mixed => User!CodeProvesAddress
    BY DEF Decided, RowsAre, AddressIsKnown, MailedTo, User!CodeProvesAddress
  <2>2. preference # NoAddress => preference.optIn = preference.granted
    BY DEF Decided, RowsAre, IsPreference
  <2>3. User!State \in {"works", "temporarily_unavailable"} <=>
           User!Eligible /\ ~User!LinkWaits
    BY PageIsRight DEF Decided
  <2>4. row.at = "calling" => row.to \in standing /\ (row.exempt \/ agreed)
    BY DEF Decided, HandedOver
  <2> QED
    BY <2>1, <2>2, <2>3, <2>4 DEF UserDecides, User!UserDecides
<1> QED
  BY <1>1, <1>2, <1>3, PTL DEF MCSpec
=============================================================================
