-------------------------- MODULE EntrySyncPromise --------------------------
(***************************************************************************)
(* What the entry-sync outbox promises to the rest of the program: a       *)
(* request to have Data pull an entry is owed until Data has accepted a    *)
(* job for that entry at or after the moment the request was recorded.     *)
(* Crashes, leases, retries and clean-up are invisible here.               *)
(***************************************************************************)
EXTENDS Naturals

CONSTANT Entry

VARIABLES
    owed,      \* owed[e]: some request for e has not been acknowledged
    asked,     \* asked[e]: how many requests for e were ever recorded
    accepted   \* accepted[e]: the youngest request Data's jobs for e cover

promiseVars == <<owed, asked, accepted>>

PromiseInit ==
    /\ owed = [e \in Entry |-> FALSE]
    /\ asked = [e \in Entry |-> 0]
    /\ accepted = [e \in Entry |-> 0]

Ask(e) ==
    /\ asked' = [asked EXCEPT ![e] = @ + 1]
    /\ owed' = [owed EXCEPT ![e] = TRUE]
    /\ UNCHANGED accepted

\* A job accepted now will read the entry as it is now, so it covers every
\* request recorded so far.
Accept(e) ==
    /\ accepted' = [accepted EXCEPT ![e] = asked[e]]
    /\ UNCHANGED <<owed, asked>>

Acknowledge(e) ==
    /\ owed[e]
    /\ accepted[e] = asked[e]
    /\ owed' = [owed EXCEPT ![e] = FALSE]
    /\ UNCHANGED <<asked, accepted>>

PromiseNext == \E e \in Entry : Ask(e) \/ Accept(e) \/ Acknowledge(e)

PromiseSpec == PromiseInit /\ [][PromiseNext]_promiseVars
=============================================================================
