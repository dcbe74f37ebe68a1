------------------------ MODULE FailoverCoordinator ------------------------
(***************************************************************************)
(* The Durable Object of cloudflare/watchdog/src/index.js that keeps the   *)
(* failure streak and hands out the right to change DNS.  Its state is a   *)
(* record; each operation of its fetch handler is an operator from the     *)
(* stored record to the record it writes.  claimAt and mutationAt are kept *)
(* as ages: an age of its TTL or more is stale.  A token never repeats     *)
(* (crypto.randomUUID), so it is named after the run it was issued to.     *)
(***************************************************************************)
EXTENDS Integers

CONSTANTS
    Run,           \* cron invocations that may be alive at once
    NoToken,       \* null
    Threshold,     \* FAILURE_THRESHOLD
    ClaimTtl,      \* CLAIM_TTL_MS, in ticks
    MutationTtl    \* MUTATION_TTL_MS, in ticks

ASSUME CoordinatorAssumption ==
    /\ NoToken \notin Run
    /\ Threshold \in Nat \ {0} /\ ClaimTtl \in Nat \ {0} /\ MutationTtl \in Nat \ {0}

Coordinator == [count: 0..Threshold,
                claim: Run \cup {NoToken}, claimAge: 0..ClaimTtl,
                mutation: Run \cup {NoToken}, mutationAge: 0..MutationTtl]

Cleared(n) == [count |-> n, claim |-> NoToken, claimAge |-> 0,
               mutation |-> NoToken, mutationAge |-> 0]

MutationFresh(c) == c.mutation # NoToken /\ c.mutationAge < MutationTtl
ClaimFresh(c) == c.claim # NoToken /\ c.claimAge < ClaimTtl
Held(c) == MutationFresh(c) \/ ClaimFresh(c)

NextCountUncapped(c) == c.count + 1
NextCount(c) == IF c.count < Threshold THEN c.count + 1 ELSE Threshold

\* record-failure: the run that reaches the threshold receives a token.
ShouldFailover(c) == ~Held(c) /\ NextCount(c) >= Threshold
AfterFailure(c, r) ==
    IF Held(c) THEN c
    ELSE [Cleared(NextCount(c)) EXCEPT !.claim = IF ShouldFailover(c) THEN r ELSE NoToken]

\* reset: refused while a mutation is under way.
AfterReset(c) == IF MutationFresh(c) THEN c ELSE Cleared(0)

AfterConfirm(c) == Cleared(0)

AfterRelease(c) == Cleared(c.count)

\* begin-mutation: c is the state as the handler read it, before it awaited
\* the request's body; a grant writes that state back.
MayBegin(c, r) ==
    /\ ~MutationFresh(c)
    /\ ClaimFresh(c) /\ c.claim = r
    /\ c.count >= Threshold

AfterBegin(c, r) == [c EXCEPT !.mutation = r, !.mutationAge = 0]

\* A tick later.
OlderNever(c) == c
Older(c) ==
    [c EXCEPT !.claimAge = IF c.claim # NoToken /\ @ < ClaimTtl THEN @ + 1 ELSE @,
              !.mutationAge = IF c.mutation # NoToken /\ @ < MutationTtl THEN @ + 1 ELSE @]
=============================================================================
