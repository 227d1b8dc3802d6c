------------------------------- MODULE MCContacts -------------------------------
(***************************************************************************)
(* An instance of TelegramBinding and UserChannels for TLC.  What a user   *)
(* confirms and what a candidate starts touch each other nowhere; so that  *)
(* the states of one do not multiply those of another, a behaviour is one  *)
(* of                                                                      *)
(*   - Telegram with two tokens, of a candidate and of a user;             *)
(*   - Telegram with two invitations of one candidate (Invites);           *)
(*   - a user who confirms addresses by code (Verifying);                  *)
(*   - a message for a user who changes the channels (Delivering).         *)
(* The addresses and requests of the user share their names with chats     *)
(* and sessions, which halves what the symmetry has to permute.            *)
(***************************************************************************)
EXTENDS TelegramBinding, TLC

CONSTANTS c1, u1, t1, t2, NoAddress, MaxGuesses, MaxCodes, MaxChanges, MaxRows
VARIABLES stage,
          address, preference, channel, linked, active, call, codes, row,
          standing, agreed, mixed, changes, rows

account == <<address, preference, channel, linked, active, call, codes, row,
             standing, agreed, mixed, changes, rows>>

Invites == INSTANCE TelegramBinding WITH OwnerOf <- [t \in Tokens |-> c1]
User == INSTANCE UserChannels WITH
    Addresses <- Chats, Requests <- Sessions, Nothing <- NoAddress,
    chat <- linked, letters <- codes, bound <- standing

CandidateFirst == (t1 :> c1) @@ (t2 :> u1)
Symmetric == Permutations(Chats) \cup Permutations(Sessions)

NoAccount ==
    address = NoAddress /\ preference = NoAddress /\ linked.id = NoAddress /\ channel = "email"

MCInit ==
    /\ Init /\ User!Init
    /\ \/ stage \in {"two recipients", "two invitations"} /\ NoAccount
       \/ stage \in {"verifying", "delivering"}

NoMessages == rows' = 0
NoCodes == changes' < MaxChanges /\ \A s \in Sessions : call'[s].op # "set"

MCNext ==
    \/ stage = "two recipients" /\ Next /\ UNCHANGED <<stage, account>>
    \/ stage = "two invitations" /\ Invites!Next /\ UNCHANGED <<stage, account>>
    \/ stage = "verifying" /\ User!Next /\ NoMessages /\ UNCHANGED <<stage, vars>>
    \/ stage = "delivering" /\ User!Next /\ NoCodes /\ UNCHANGED <<stage, vars>>

MCSpec == MCInit /\ [][MCNext]_<<vars, stage, account>>

\* UserChannels: the user decides what arrives where.
UserDecides == User!UserDecides
=============================================================================
