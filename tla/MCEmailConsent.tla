---------------------------- MODULE MCEmailConsent ----------------------------
(***************************************************************************)
(* The letters of a candidate and how they are handed over, for TLC: a     *)
(* behaviour is one of                                                     *)
(*   - one link and a message, two workers, one request of HR at a time,   *)
(*     two addresses ("sending");                                          *)
(*   - two links that do not expire, one worker, two requests at a time,   *)
(*     one address ("links");                                              *)
(*   - the calls of one worker to a provider (Clients).                    *)
(***************************************************************************)
EXTENDS EmailConsent, TLC

CONSTANTS a1, a2, t1, t2, m1, w1, w2, q1, q2, MaxAttempts, MaxWait
VARIABLES stage,
          config, letter, purpose, at, error, verdict, class, wait, told,
          attempts, copies, unheard

ASSUME MCEmailAssumption == MaxAttempts \in Nat /\ MaxWait \in Nat

clientVars == <<config, letter, purpose, at, error, verdict, class, wait, told,
                attempts, copies, unheard>>

Clients == INSTANCE ProviderClients

OneLinkAtATime == token'[t2] = "unissued" /\ request'[q2] = "idle"

LinksAlone ==
    /\ email' = a1 /\ status'[m1] = "absent" /\ pc'[w2] = "idle"
    /\ \A t \in Tokens : ~expired'[t]
    /\ \A q \in Requests : request'[q] # "queue"
    \* of two that are free the first is used, which no property tells apart
    /\ token'[t2] # "unissued" => token'[t1] # "unissued"
    /\ request[q2] = "idle" /\ request'[q2] # "idle" => request[q1] # "idle"

MCInit ==
    /\ Init /\ Clients!Init
    /\ \/ /\ stage = "sending" \/ (stage = "links" /\ email = a1)
          /\ config.channel = "telegram" /\ purpose = "send"
       \/ stage = "clients" /\ email = NoAddress

MCNext ==
    \/ stage = "sending" /\ Next /\ OneLinkAtATime /\ UNCHANGED <<stage, clientVars>>
    \/ stage = "links" /\ Next /\ LinksAlone /\ UNCHANGED <<stage, clientVars>>
    \/ stage = "clients" /\ Clients!Next /\ UNCHANGED <<stage, vars>>

MCFairSpec == MCInit /\ [][MCNext]_<<vars, stage, clientVars>> /\ Fairness

\* ProviderClients: what a call returns is what the provider said.
VerdictsAreHonest == Clients!VerdictsAreHonest
=============================================================================
