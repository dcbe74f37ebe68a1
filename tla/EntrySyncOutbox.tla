-------------------------- MODULE EntrySyncOutbox ---------------------------
(***************************************************************************)
(* The durable hand-off ledger bauth.entry_sync_outbox                     *)
(* (lib/entry-sync-outbox.ts) with everything that touches it: a binding   *)
(* or a Mini Program call that records a request, the immediate delivery   *)
(* after it, the minute timer that claims due rows, the HTTP request to    *)
(* Data, the conditional settlement and the retention sweep.               *)
(*                                                                         *)
(* Time is relative: a row stores how long until it is due, how long its   *)
(* lease still lasts and how old its last write is, and Tick moves them    *)
(* all.  A call remembers the time since its delivery began, because the   *)
(* code settles with the `now` it read before the request.                 *)
(***************************************************************************)
EXTENDS Integers, FiniteSets, Sequences

CONSTANTS
    Entry,          \* FPL entries, the primary key of the table
    Token,          \* lease tokens; a UUID is fresh if nothing refers to it
    Client,         \* Mini Program calls of POST /api/miniprogram/entry-sync
    NoToken,        \* the SQL NULL of lease_token
    LeaseTicks,     \* ENTRY_SYNC_OUTBOX_LEASE_MS
    Retention,      \* ENTRY_SYNC_OUTBOX_RETENTION_MS
    Backoff,        \* the `delays` array of retryDelayMilliseconds
    ContractDelay,  \* the one-hour delay of contract failures
    RetryAfter,     \* the Retry-After values Data may answer with
    BatchSize,      \* ENTRY_SYNC_OUTBOX_BATCH_SIZE
    Never,          \* the year 9999 of ENTRY_SYNC_PERMANENT_FAILURE_PARK_UNTIL
    MaxAttempts,    \* ENTRY_SYNC_PERMANENT_FAILURE_MAX_ATTEMPTS
    AttemptsCap,    \* bound: the attempts counter saturates here
    MaxCallAge,     \* bound: the age of a delivery saturates here
    MaxAsked        \* bound: requests recorded per entry

ASSUME OutboxAssumption ==
    /\ NoToken \notin Token
    /\ "cron" \notin Client /\ "bind" \notin Client
    /\ LeaseTicks \in Nat /\ Retention \in Nat
    /\ Backoff \in Seq(Nat) /\ Len(Backoff) > 0
    /\ ContractDelay \in Nat
    /\ RetryAfter \subseteq Nat
    /\ Never \notin Nat
    /\ MaxAttempts \in Nat /\ AttemptsCap \in Nat /\ AttemptsCap >= MaxAttempts
    /\ MaxCallAge \in Nat /\ MaxAsked \in Nat

Least(a, b) == IF a <= b THEN a ELSE b
Most(a, b) == IF a >= b THEN a ELSE b

Owner == Client \cup {"cron", "bind"}

VARIABLES
    row,       \* row[e]: the outbox row of e
    call,      \* call[t]: the delivery that claimed a row under token t
    client,    \* client[c]: a Mini Program call
    asked,     \* history: asked[e], requests recorded for e, purges included
    accepted   \* history: accepted[e], the value of asked[e] at Data's last 202

vars == <<row, call, client, asked, accepted>>

Failure == {"transient", "contract", "permanent"}

\* A row's wait is its next_attempt_at relative to now, lease its lease_until,
\* age the time since updated_at (kept while delivered, when it is read), job
\* the value of asked when Data accepted the job (0: data_job_id is NULL).
Row == [status: {"absent", "pending", "leased", "delivered"},
        gen: Nat, attempts: 0..AttemptsCap, wait: Nat \cup {Never},
        token: Token \cup {NoToken}, lease: 0..LeaseTicks,
        job: Nat, error: {"none"} \cup Failure, age: 0..Retention]

NoRow == [status |-> "absent", gen |-> 0, attempts |-> 0, wait |-> 0,
          token |-> NoToken, lease |-> 0, job |-> 0, error |-> "none", age |-> 0]

\* A delivery in progress: the claimed row as claimRows returned it, the age of
\* the `now` it will settle with, and Data's answer.
Call == [phase: {"claimed", "requesting", "answered"}, owner: Owner,
         entry: Entry, gen: Nat, attempts: 0..AttemptsCap, age: 0..MaxCallAge,
         result: {"none", "ok"} \cup Failure, job: Nat]

Idle == [phase |-> "free"]

\* seen is the request's number in asked[entry]; gen what RETURNING gave it.
Calling == [phase: {"recorded", "missed", "waiting", "queued", "unavailable"},
            entry: Entry, gen: Nat, seen: Nat]

Init ==
    /\ row = [e \in Entry |-> NoRow]
    /\ call = [t \in Token |-> Idle]
    /\ client = [c \in Client |-> Idle]
    /\ asked = [e \in Entry |-> 0]
    /\ accepted = [e \in Entry |-> 0]

-----------------------------------------------------------------------------
(* Recording a request: an upsert that starts the next generation.         *)

RecordedKeepingStatus(r) ==
    [NoRow EXCEPT !.gen = r.gen + 1,
        !.status = IF r.status = "absent" THEN "pending" ELSE r.status]

Recorded(r) ==
    [NoRow EXCEPT !.status = "pending", !.gen = r.gen + 1]

Record(e) ==
    /\ asked[e] < MaxAsked
    /\ row' = [row EXCEPT ![e] = Recorded(@)]
    /\ asked' = [asked EXCEPT ![e] = @ + 1]

\* A binding records in its own transaction; nobody waits for the outcome.
BindRecord(e) == Record(e) /\ UNCHANGED <<call, client, accepted>>

ClientRecord(c, e) ==
    /\ client[c].phase \in {"free", "queued", "unavailable"}
    /\ Record(e)
    /\ client' = [client EXCEPT ![c] =
            [phase |-> "recorded", entry |-> e,
             gen |-> row'[e].gen, seen |-> asked'[e]]]
    /\ UNCHANGED <<call, accepted>>

-----------------------------------------------------------------------------
(* Claiming.                                                               *)

DueIfPending(r) == r.wait = 0 /\ r.status = "pending"

Due(r) ==
    /\ r.wait = 0
    /\ \/ r.status = "pending"
       \/ r.status = "leased" /\ r.lease = 0

FreshToken == {t \in Token : call[t] = Idle /\ \A e \in Entry : row[e].token # t}

ClaimedRow(r, t) ==
    [r EXCEPT !.status = "leased", !.attempts = Least(@ + 1, AttemptsCap),
              !.token = t, !.lease = LeaseTicks]

\* One transaction of claimRows: tok gives every claimed entry its own token.
Claim(tok, who) ==
    /\ \A e \in DOMAIN tok : Due(row[e]) /\ tok[e] \in FreshToken
    /\ \A e, f \in DOMAIN tok : tok[e] = tok[f] => e = f
    /\ row' = [e \in Entry |->
            IF e \in DOMAIN tok THEN ClaimedRow(row[e], tok[e]) ELSE row[e]]
    /\ call' = [t \in Token |->
            IF \E e \in DOMAIN tok : tok[e] = t
            THEN LET e == CHOOSE e \in DOMAIN tok : tok[e] = t
                 IN [phase |-> "claimed", owner |-> who, entry |-> e,
                     gen |-> row[e].gen, attempts |-> row'[e].attempts,
                     age |-> 0, result |-> "none", job |-> 0]
            ELSE call[t]]

\* The timer's batch.  FOR UPDATE SKIP LOCKED may leave out any due row.
CronClaim(S) ==
    /\ S # {} /\ Cardinality(S) <= BatchSize
    /\ \E tok \in [S -> Token] : Claim(tok, "cron")
    /\ UNCHANGED <<client, asked, accepted>>

\* The after() hook of a binding: deliverEntrySyncOutboxNow without a
\* generation claims whatever generation is due.
BindClaim(e) ==
    /\ \E tok \in [{e} -> Token] : Claim(tok, "bind")
    /\ UNCHANGED <<client, asked, accepted>>

ClientClaim(c) ==
    /\ client[c].phase = "recorded"
    /\ row[client[c].entry].gen = client[c].gen
    /\ \E tok \in [{client[c].entry} -> Token] : Claim(tok, c)
    /\ client' = [client EXCEPT ![c].phase = "waiting"]
    /\ UNCHANGED <<asked, accepted>>

\* Not due, another generation, or locked by another transaction.
ClientClaimMiss(c) ==
    /\ client[c].phase = "recorded"
    /\ client' = [client EXCEPT ![c].phase = "missed"]
    /\ UNCHANGED <<row, call, asked, accepted>>

\* currentRow, read in a second transaction.
DeliveredOrLeasedFor(r, gen) ==
    r.status \in {"delivered", "leased"} /\ r.gen = gen

DeliveredFor(r, gen) ==
    r.status = "delivered" /\ r.gen = gen /\ r.job # 0

ClientCheck(c) ==
    /\ client[c].phase = "missed"
    /\ client' = [client EXCEPT ![c].phase =
            IF DeliveredFor(row[client[c].entry], client[c].gen)
            THEN "queued" ELSE "unavailable"]
    /\ UNCHANGED <<row, call, asked, accepted>>

-----------------------------------------------------------------------------
(* The request to Data.                                                    *)

\* The timer reads `now` when a row's turn comes, the others before claiming.
StartDelivery(t) ==
    /\ call[t].phase = "claimed"
    /\ call' = [call EXCEPT ![t].phase = "requesting",
            ![t].age = IF call[t].owner = "cron" THEN 0 ELSE @]
    /\ UNCHANGED <<row, client, asked, accepted>>

\* Data queues a job.  If the 202 is late or lost the caller sees a timeout.
Accept(t, heard) ==
    LET e == call[t].entry IN
    /\ call[t].phase = "requesting"
    /\ accepted' = [accepted EXCEPT ![e] = asked[e]]
    /\ call' = [call EXCEPT ![t].phase = "answered",
            ![t].result = IF heard THEN "ok" ELSE "transient",
            ![t].job = IF heard THEN asked[e] ELSE 0]
    /\ UNCHANGED <<row, client, asked>>

Refuse(t, failure) ==
    /\ call[t].phase = "requesting"
    /\ call' = [call EXCEPT ![t].phase = "answered", ![t].result = failure]
    /\ UNCHANGED <<row, client, asked, accepted>>

-----------------------------------------------------------------------------
(* Settling: an UPDATE that matches entry, generation and lease token.     *)

HoldsByEntry(t) == row[call[t].entry].status = "leased"

HoldsByGeneration(t) == row[call[t].entry].gen = call[t].gen

Holds(t) ==
    LET r == row[call[t].entry] IN
    r.gen = call[t].gen /\ r.token = t

\* What the caller of the delivery under t learns, if a client is waiting.
Reply(t, phase) ==
    client' = [c \in Client |->
        IF c = call[t].owner THEN [client[c] EXCEPT !.phase = phase] ELSE client[c]]

Forget(t) == call' = [call EXCEPT ![t] = Idle]

Settle(t, r) ==
    /\ row' = [row EXCEPT ![call[t].entry] = r]
    /\ Forget(t)
    /\ UNCHANGED <<asked, accepted>>

DeliveredRow(r, a) ==
    [r EXCEPT !.status = "delivered", !.job = a.job, !.token = NoToken,
              !.lease = 0, !.error = "none", !.wait = 0,
              !.age = Least(a.age, Retention)]

Acknowledge(t) ==
    /\ call[t].phase = "answered" /\ call[t].result = "ok"
    /\ Holds(t)
    /\ Settle(t, DeliveredRow(row[call[t].entry], call[t]))
    /\ Reply(t, "queued")

\* retryDelayMilliseconds; after is the Retry-After of the answer.
RetryDelay(a, after) ==
    IF a.result = "transient"
    THEN Most(Backoff[Least(Most(a.attempts, 1), Len(Backoff))], after)
    ELSE ContractDelay

NextWaitParkingAll(a, after) ==
    IF a.attempts >= MaxAttempts
    THEN Never
    ELSE Most(RetryDelay(a, after) - a.age, 0)

NextWait(a, after) ==
    IF a.result = "permanent" /\ a.attempts >= MaxAttempts
    THEN Never
    ELSE Most(RetryDelay(a, after) - a.age, 0)

RetriedRow(r, a, after) ==
    [r EXCEPT !.status = "pending", !.wait = NextWait(a, after),
              !.token = NoToken, !.lease = 0, !.error = a.result]

Retry(t) ==
    /\ call[t].phase = "answered" /\ call[t].result \in Failure
    /\ Holds(t)
    /\ \E after \in RetryAfter :
            Settle(t, RetriedRow(row[call[t].entry], call[t], after))
    /\ Reply(t, "unavailable")

\* The UPDATE matches no row: another generation or another lease.
SettleStale(t) ==
    /\ call[t].phase = "answered"
    /\ ~Holds(t)
    /\ Settle(t, row[call[t].entry])
    /\ Reply(t, "unavailable")

\* The process dies, the run's budget ends before the row's turn, or the
\* settling transaction fails.  The row keeps its lease.
Abandon(t) ==
    /\ call[t] # Idle
    /\ Forget(t)
    /\ Reply(t, "unavailable")
    /\ UNCHANGED <<row, asked, accepted>>

-----------------------------------------------------------------------------
(* Retention and time.                                                     *)

Purgeable(r) == r.status = "delivered" /\ r.age = Retention

\* One batch of the sweep, under its advisory lock.
Purge(S) ==
    /\ S # {} /\ \A e \in S : Purgeable(row[e])
    /\ row' = [e \in Entry |-> IF e \in S THEN NoRow ELSE row[e]]
    /\ UNCHANGED <<call, client, asked, accepted>>

Older(r) ==
    [r EXCEPT !.wait = IF @ = Never THEN Never ELSE Most(@ - 1, 0),
              !.lease = Most(@ - 1, 0),
              !.age = IF r.status = "delivered" THEN Least(@ + 1, Retention) ELSE 0]

Tick ==
    /\ row' = [e \in Entry |-> Older(row[e])]
    /\ call' = [t \in Token |->
            IF call[t] = Idle THEN Idle
            ELSE [call[t] EXCEPT !.age = Least(@ + 1, MaxCallAge)]]
    /\ UNCHANGED <<client, asked, accepted>>

-----------------------------------------------------------------------------
EntryStep(e) == BindRecord(e) \/ BindClaim(e)

ClientStep(c) ==
    \/ \E e \in Entry : ClientRecord(c, e)
    \/ ClientClaim(c) \/ ClientClaimMiss(c) \/ ClientCheck(c)

CallStep(t) ==
    \/ StartDelivery(t)
    \/ \E heard \in BOOLEAN : Accept(t, heard)
    \/ \E failure \in Failure : Refuse(t, failure)
    \/ Acknowledge(t) \/ Retry(t) \/ SettleStale(t) \/ Abandon(t)

Next ==
    \/ \E e \in Entry : EntryStep(e)
    \/ \E c \in Client : ClientStep(c)
    \/ \E t \in Token : CallStep(t)
    \/ \E S \in SUBSET Entry : CronClaim(S) \/ Purge(S)
    \/ Tick

Spec == Init /\ [][Next]_vars

(* Fairness.  The timer fires every minute and time passes; every delivery  *)
(* ends, if only by its timeout or a crash.  The request times out after 3 s *)
(* and the lease lasts 60 s, so a delivery that is not killed ends within    *)
(* its lease; if a row keeps being claimed, then not every process is killed *)
(* at the same point, and Data does not fail every request for ever.         *)
LeaseHolder(e, A(_)) ==
    \E t \in Token : call[t] # Idle /\ call[t].entry = e /\ Holds(t) /\ A(t)
Heard(t) == Accept(t, TRUE)

Fairness ==
    /\ WF_vars(Tick)
    /\ \A t \in Token : WF_vars(CallStep(t))
    /\ \A e \in Entry :
        /\ WF_vars(CronClaim({e}))
        /\ SF_vars(LeaseHolder(e, StartDelivery))
        /\ SF_vars(LeaseHolder(e, Heard))
        /\ SF_vars(LeaseHolder(e, Acknowledge))

FairSpec == Spec /\ Fairness
-----------------------------------------------------------------------------
(* Correctness.                                                            *)

\* Every variable has its type.
TypeOK ==
    /\ row \in [Entry -> Row]
    /\ call \in [Token -> Call \cup {Idle}]
    /\ client \in [Client -> Calling \cup {Idle}]
    /\ asked \in [Entry -> Nat]
    /\ accepted \in [Entry -> Nat]

\* A delivered row names a job that Data queued after the last request for
\* the entry was recorded: no older worker, expired lease or late answer can
\* acknowledge a newer request (the fencing of settleClaim).
DeliveredIsFresh ==
    \A e \in Entry : row[e].status = "delivered" => row[e].job = asked[e]

\* A request that Data has not accepted is still in the table, whatever
\* crashed and however often it was claimed or purged around it.
NoLostRequest ==
    \A e \in Entry :
        accepted[e] < asked[e] => row[e].status \in {"pending", "leased"}

\* POST /api/miniprogram/entry-sync answers queued: true only after Data
\* accepted a job no older than the request this call recorded.
QueuedMeansAccepted ==
    \A c \in Client :
        client[c].phase = "queued" => accepted[client[c].entry] >= client[c].seen

\* A parked row stays where the health query counts it: pending, with the
\* permanent error that parked it and its attempts used up.
ParkedIsVisible ==
    \A e \in Entry :
        row[e].wait = Never =>
            /\ row[e].status = "pending"
            /\ row[e].error = "permanent"
            /\ row[e].attempts >= MaxAttempts

\* Only a new request takes a row out of the park: no late settlement of an
\* earlier lease and no claim does.
ParkedUntilAsked ==
    [][\A e \in Entry :
        row[e].wait = Never => row'[e].wait = Never \/ asked'[e] > asked[e]]_vars

Owed == [e \in Entry |-> row[e].status \in {"pending", "leased"}]

Promise == INSTANCE EntrySyncPromise WITH owed <- Owed

\* The outbox keeps the promise of EntrySyncPromise.
KeepsPromise == Promise!PromiseSpec

(* The inductive invariant: why the fencing works.                         *)

\* An entry without an open request has been accepted in full.
SettledIsAccepted ==
    \A e \in Entry :
        /\ accepted[e] <= asked[e]
        /\ row[e].status \in {"absent", "delivered"} => accepted[e] = asked[e]

\* A delivery whose token is still in a row holds that row's lease, under the
\* attempt number it claimed; if it was accepted, nothing was asked since.
LeaseIsFenced ==
    \A e \in Entry, t \in Token :
        row[e].token = t =>
            /\ row[e].status = "leased"
            /\ call[t] # Idle =>
                /\ call[t].entry = e
                /\ call[t].attempts = row[e].attempts
                /\ call[t].result = "ok" =>
                        call[t].job = asked[e] /\ accepted[e] = asked[e]

\* A client's delivery belongs to a client that waits for it, and for no other.
ClientWaits ==
    \A t \in Token : call[t] # Idle /\ call[t].owner \in Client =>
        /\ client[call[t].owner].phase = "waiting"
        /\ client[call[t].owner].entry = call[t].entry
        /\ \A u \in Token :
                call[u] # Idle /\ call[u].owner = call[t].owner => u = t

SeenWasAsked ==
    \A c \in Client : client[c] # Idle => client[c].seen <= asked[client[c].entry]

\* The conjunction is preserved by every step (checked by TLC and proved).
IInv ==
    /\ TypeOK /\ SettledIsAccepted /\ LeaseIsFenced /\ ClientWaits /\ SeenWasAsked
    /\ DeliveredIsFresh /\ ParkedIsVisible /\ QueuedMeansAccepted

\* Every request is finally acknowledged or parked for an operator to see.
RequestResolved ==
    \A e \in Entry :
        Owed[e] ~> row[e].status = "delivered" \/ row[e].wait = Never
=============================================================================
