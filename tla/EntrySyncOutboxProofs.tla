------------------------ MODULE EntrySyncOutboxProofs ------------------------
(***************************************************************************)
(* What EntrySyncOutbox promises, for every number of entries, tokens,     *)
(* clients and requests, and every lease, delay and retention.             *)
(***************************************************************************)
EXTENDS EntrySyncOutbox, TLAPS

-----------------------------------------------------------------------------
(* The helpers return rows, and calls, of their type.                      *)

\* Least and Most pick one of two naturals.
LEMMA LeastMost ==
    ASSUME NEW a \in Nat, NEW b \in Nat
    PROVE  /\ Least(a, b) \in 0..b /\ Least(a, b) <= a
           /\ Most(a, b) \in Nat /\ Most(a, b) >= a /\ Most(a, b) >= b
  BY DEF Least, Most

\* The empty row is a row.
LEMMA NoRowType == NoRow \in Row
  BY OutboxAssumption DEF NoRow, Row

\* The next generation of a row is a row with no lease, job or error.
LEMMA RecordedType ==
    ASSUME NEW r \in Row
    PROVE  Recorded(r) \in Row
  <1>1. r.gen + 1 \in Nat
    BY DEF Row
  <1>2. QED
    BY <1>1, NoRowType, Zenon DEF Recorded, Row

\* Taking a lease keeps a row a row.
LEMMA ClaimedType ==
    ASSUME NEW r \in Row, NEW t \in Token
    PROVE  ClaimedRow(r, t) \in Row
  <1>1. Least(r.attempts + 1, AttemptsCap) \in 0..AttemptsCap
    BY OutboxAssumption DEF Row, Least
  <1>2. LeaseTicks \in 0..LeaseTicks
    BY OutboxAssumption
  <1>3. QED
    BY <1>1, <1>2, Zenon DEF ClaimedRow, Row

\* Acknowledging keeps a row a row.
LEMMA DeliveredType ==
    ASSUME NEW r \in Row, NEW a \in Call
    PROVE  DeliveredRow(r, a) \in Row
  <1>1. Least(a.age, Retention) \in 0..Retention /\ a.job \in Nat
    BY OutboxAssumption DEF Call, Least
  <1>2. 0 \in 0..LeaseTicks /\ 0 \in Nat
    BY OutboxAssumption
  <1>3. QED
    BY <1>1, <1>2, Zenon DEF DeliveredRow, Row

\* The delay of a failed delivery is never negative, so next_attempt_at is
\* never before the settlement.
LEMMA NextWaitType ==
    ASSUME NEW a \in Call, NEW after \in RetryAfter
    PROVE  NextWait(a, after) \in Nat \cup {Never}
  <1>1. a.attempts \in Nat /\ a.age \in Nat
    BY OutboxAssumption DEF Call
  <1>2. Least(Most(a.attempts, 1), Len(Backoff)) \in 1..Len(Backoff)
    BY <1>1, OutboxAssumption DEF Least, Most
  <1>3. Backoff[Least(Most(a.attempts, 1), Len(Backoff))] \in Nat
    BY <1>2, OutboxAssumption
  <1>4. RetryDelay(a, after) \in Nat
    BY <1>3, OutboxAssumption DEF RetryDelay, Most
  <1>5. QED
    BY <1>1, <1>4 DEF NextWait, Most

\* Scheduling a retry keeps a row a row.
LEMMA RetriedType ==
    ASSUME NEW r \in Row, NEW a \in Call, a.result \in Failure, NEW after \in RetryAfter
    PROVE  RetriedRow(r, a, after) \in Row
  <1>1. NextWait(a, after) \in Nat \cup {Never}
    BY NextWaitType
  <1>2. 0 \in 0..LeaseTicks
    BY OutboxAssumption
  <1>3. QED
    BY <1>1, <1>2, Zenon DEF RetriedRow, Row

\* The passage of time keeps a row a row.
LEMMA OlderType ==
    ASSUME NEW r \in Row
    PROVE  Older(r) \in Row
  <1> DEFINE wait == IF r.wait = Never THEN Never ELSE Most(r.wait - 1, 0)
             age == IF r.status = "delivered" THEN Least(r.age + 1, Retention) ELSE 0
  <1>1. wait \in Nat \cup {Never}
    BY OutboxAssumption DEF Row, Most
  <1>2. age \in 0..Retention
    BY OutboxAssumption DEF Row, Least
  <1>3. Most(r.lease - 1, 0) \in 0..LeaseTicks
    BY OutboxAssumption DEF Row, Most
  <1>4. Older(r) = [r EXCEPT !.wait = wait, !.lease = Most(r.lease - 1, 0), !.age = age]
    BY Zenon DEF Older
  <1> HIDE DEF wait, age
  <1>5. QED
    BY <1>1, <1>2, <1>3, <1>4, Zenon DEF Row

-----------------------------------------------------------------------------
(* Type correctness.                                                       *)

\* A call that is not idle is a delivery, a client that is not idle a call.
LEMMA Busy ==
    ASSUME TypeOK
    PROVE  /\ \A t \in Token : call[t] # Idle => call[t] \in Call
           /\ \A t \in Token : call[t].phase # "free" => call[t] # Idle
           /\ \A c \in Client : client[c] # Idle => client[c] \in Calling
           /\ \A c \in Client : client[c].phase # "free" => client[c] # Idle
           /\ \A c \in Client : Idle # [client[c] EXCEPT !.phase = "waiting"]
  BY DEF TypeOK, Idle, Calling

\* Recording keeps the table and the request counters well typed.
LEMMA RecordStep ==
    ASSUME TypeOK, NEW e \in Entry, Record(e)
    PROVE  /\ row' \in [Entry -> Row]
           /\ asked' \in [Entry -> Nat]
           /\ row'[e] = Recorded(row[e])
           /\ asked'[e] = asked[e] + 1
           /\ \A f \in Entry : f # e => row'[f] = row[f] /\ asked'[f] = asked[f]
  <1>1. Recorded(row[e]) \in Row
    BY RecordedType DEF TypeOK
  <1>2. QED
    BY <1>1 DEF TypeOK, Record

\* What one claiming transaction does to rows and calls.
LEMMA ClaimStep ==
    ASSUME TypeOK, NEW S \in SUBSET Entry, NEW tok \in [S -> Token],
           NEW who \in Owner, Claim(tok, who)
    PROVE  /\ row' \in [Entry -> Row]
           /\ call' \in [Token -> Call \cup {Idle}]
           /\ \A e \in S : Due(row[e]) /\ row'[e] = ClaimedRow(row[e], tok[e])
                           /\ tok[e] \in FreshToken
           /\ \A e \in Entry : e \notin S => row'[e] = row[e]
           /\ \A e \in S : /\ call'[tok[e]] \in Call
                           /\ call'[tok[e]].entry = e
                           /\ call'[tok[e]].owner = who
                           /\ call'[tok[e]].attempts = row'[e].attempts
                           /\ call'[tok[e]].result = "none"
           /\ \A t \in Token : (\A e \in S : tok[e] # t) => call'[t] = call[t]
  <1>1. DOMAIN tok = S
    OBVIOUS
  <1>2. \A e \in S : ClaimedRow(row[e], tok[e]) \in Row
    BY ClaimedType DEF TypeOK
  <1>3. row' = [e \in Entry |->
                IF e \in S THEN ClaimedRow(row[e], tok[e]) ELSE row[e]]
    BY <1>1 DEF Claim
  <1>4. row' \in [Entry -> Row]
    BY <1>2, <1>3 DEF TypeOK
  <1> DEFINE New(e) == [phase |-> "claimed", owner |-> who, entry |-> e,
                        gen |-> row[e].gen, attempts |-> row'[e].attempts,
                        age |-> 0, result |-> "none", job |-> 0]
  <1>5. \A e \in S : New(e) \in Call
    <2> TAKE e \in S
    <2>1. row[e] \in Row /\ row'[e] \in Row
      BY <1>4 DEF TypeOK
    <2>2. row[e].gen \in Nat /\ row'[e].attempts \in 0..AttemptsCap
      BY <2>1 DEF Row
    <2>3. 0 \in 0..MaxCallAge
      BY OutboxAssumption
    <2>4. QED
      BY <2>2, <2>3 DEF Call
  <1>6. call' = [t \in Token |->
                IF \E e \in S : tok[e] = t
                THEN New(CHOOSE e \in S : tok[e] = t) ELSE call[t]]
    BY <1>1, Zenon DEF Claim
  <1>7. \A e \in S : (CHOOSE f \in S : tok[f] = tok[e]) = e
    BY <1>1 DEF Claim
  <1>8. \A e \in S : call'[tok[e]] = New(e)
    BY <1>6, <1>7
  <1>9. \A t \in Token : (\A e \in S : tok[e] # t) => call'[t] = call[t]
    BY <1>6
  <1>10. call' \in [Token -> Call \cup {Idle}]
    <2>1. \A t \in Token : call'[t] \in Call \cup {Idle}
      BY <1>5, <1>8, <1>9 DEF TypeOK
    <2>2. QED
      BY <2>1, <1>6
  <1>11. \A e \in S : Due(row[e]) /\ tok[e] \in FreshToken
    BY <1>1 DEF Claim
  <1>12. \A e \in Entry : (e \notin S => row'[e] = row[e])
                          /\ (e \in S => row'[e] = ClaimedRow(row[e], tok[e]))
    BY <1>3
  <1> HIDE DEF New
  <1>13. \A e \in S : New(e).entry = e /\ New(e).owner = who
                      /\ New(e).attempts = row'[e].attempts /\ New(e).result = "none"
    BY DEF New
  <1>14. QED
    BY <1>4, <1>5, <1>8, <1>9, <1>10, <1>11, <1>12, <1>13

\* The reply to a waiting client changes nothing but that client's phase.
LEMMA ReplyStep ==
    ASSUME TypeOK, NEW t \in Token, call[t] # Idle,
           NEW phase \in {"queued", "unavailable"}, Reply(t, phase),
           client[call[t].owner] # Idle \/ call[t].owner \notin Client
    PROVE  /\ client' \in [Client -> Calling \cup {Idle}]
           /\ \A c \in Client : c # call[t].owner => client'[c] = client[c]
           /\ \A c \in Client : c = call[t].owner =>
                client'[c] = [client[c] EXCEPT !.phase = phase]
  <1>1. \A c \in Client : c = call[t].owner =>
            [client[c] EXCEPT !.phase = phase] \in Calling
    <2> TAKE c \in Client
    <2> HAVE c = call[t].owner
    <2>1. client[c] \in Calling
      BY Busy
    <2>2. QED
      BY <2>1, Zenon DEF Calling
  <1>2. \A c \in Client : client[c] \in Calling \cup {Idle}
    BY DEF TypeOK
  <1>3. QED
    BY <1>1, <1>2 DEF Reply

\* Settling writes one well-typed row and frees the token.
LEMMA SettleStep ==
    ASSUME TypeOK, NEW t \in Token, call[t] # Idle, NEW r \in Row, Settle(t, r)
    PROVE  /\ call[t].entry \in Entry
           /\ row' \in [Entry -> Row]
           /\ row'[call[t].entry] = r
           /\ \A e \in Entry : e # call[t].entry => row'[e] = row[e]
           /\ call' \in [Token -> Call \cup {Idle}]
           /\ call'[t] = Idle
           /\ \A u \in Token : u # t => call'[u] = call[u]
  <1>1. call[t].entry \in Entry
    BY Busy DEF Call
  <1>2. QED
    BY <1>1 DEF TypeOK, Settle, Forget

-----------------------------------------------------------------------------
(* The fields the invariant reads, after each kind of write.               *)

\* A recorded row is open, unleased and due at once.
LEMMA RecordedFields ==
    ASSUME NEW r \in Row
    PROVE  /\ Recorded(r).status = "pending" /\ Recorded(r).token = NoToken
           /\ Recorded(r).wait = 0
  BY Zenon DEF Recorded, NoRow

\* A claimed row is leased to the token and was due.
LEMMA ClaimedFields ==
    ASSUME NEW r \in Row, NEW t \in Token
    PROVE  /\ ClaimedRow(r, t).status = "leased" /\ ClaimedRow(r, t).token = t
           /\ ClaimedRow(r, t).wait = r.wait
  BY Zenon DEF ClaimedRow, Row

\* A delivered row carries the job of the delivery.
LEMMA DeliveredFields ==
    ASSUME NEW r \in Row, NEW a
    PROVE  /\ DeliveredRow(r, a).status = "delivered" /\ DeliveredRow(r, a).token = NoToken
           /\ DeliveredRow(r, a).wait = 0 /\ DeliveredRow(r, a).job = a.job
  BY Zenon DEF DeliveredRow, Row

\* A retried row is pending under the result that failed it.
LEMMA RetriedFields ==
    ASSUME NEW r \in Row, NEW a, NEW after
    PROVE  /\ RetriedRow(r, a, after).status = "pending"
           /\ RetriedRow(r, a, after).token = NoToken
           /\ RetriedRow(r, a, after).wait = NextWait(a, after)
           /\ RetriedRow(r, a, after).error = a.result
           /\ RetriedRow(r, a, after).attempts = r.attempts
  BY Zenon DEF RetriedRow, Row

\* Time changes no status, token, job, error or attempts, and parks nothing.
LEMMA OlderFields ==
    ASSUME NEW r \in Row
    PROVE  /\ Older(r).status = r.status /\ Older(r).token = r.token
           /\ Older(r).job = r.job /\ Older(r).error = r.error
           /\ Older(r).attempts = r.attempts
           /\ (Older(r).wait = Never) = (r.wait = Never)
  <1> DEFINE wait == IF r.wait = Never THEN Never ELSE Most(r.wait - 1, 0)
             lease == Most(r.lease - 1, 0)
             age == IF r.status = "delivered" THEN Least(r.age + 1, Retention) ELSE 0
  <1>1. Older(r) = [r EXCEPT !.wait = wait, !.lease = lease, !.age = age]
    BY Zenon DEF Older
  <1>2. (wait = Never) = (r.wait = Never)
    <2>1. r.wait # Never => Most(r.wait - 1, 0) \in Nat
      BY DEF Row, Most
    <2>2. QED
      BY <2>1, OutboxAssumption
  <1> HIDE DEF wait, lease, age
  <1>3. Older(r).wait = wait
    BY <1>1, Zenon DEF Row
  <1>4. QED
    BY <1>1, <1>2, <1>3, Zenon DEF Row

\* The empty row has no lease and no job.
LEMMA NoRowFields ==
    /\ NoRow.status = "absent" /\ NoRow.token = NoToken /\ NoRow.wait = 0
  BY DEF NoRow

-----------------------------------------------------------------------------
(* The invariant, action by action.                                        *)

\* Nothing is asked, claimed or accepted at first.
LEMMA InitIInv == Init => IInv
  <1> SUFFICES ASSUME Init PROVE IInv
    OBVIOUS
  <1>1. TypeOK
    BY NoRowType DEF Init, TypeOK
  <1>2. \A e \in Entry : row[e] = NoRow /\ accepted[e] = 0 /\ asked[e] = 0
    BY DEF Init
  <1>3. \A t \in Token : call[t] = Idle
    BY DEF Init
  <1>4. \A c \in Client : client[c] = Idle
    BY DEF Init
  <1>5. SettledIsAccepted /\ DeliveredIsFresh /\ ParkedIsVisible /\ LeaseIsFenced
    BY <1>2, <1>3, NoRowFields, OutboxAssumption
    DEF SettledIsAccepted, DeliveredIsFresh, ParkedIsVisible, LeaseIsFenced
  <1>6. ClientWaits /\ SeenWasAsked /\ QueuedMeansAccepted
    BY <1>3, <1>4 DEF ClientWaits, SeenWasAsked, QueuedMeansAccepted, Idle
  <1>7. QED
    BY <1>1, <1>5, <1>6 DEF IInv

\* Recording a request keeps everything that does not speak of clients.
LEMMA RecordRows ==
    ASSUME IInv, NEW e \in Entry, Record(e), UNCHANGED <<call, accepted>>
    PROVE  SettledIsAccepted' /\ LeaseIsFenced' /\ DeliveredIsFresh' /\ ParkedIsVisible'
  <1>1. TypeOK
    BY DEF IInv
  <1>2. /\ row'[e].status = "pending" /\ row'[e].token = NoToken /\ row'[e].wait = 0
    BY <1>1, RecordStep, RecordedFields DEF TypeOK
  <1>3. \A f \in Entry : f # e => row'[f] = row[f] /\ asked'[f] = asked[f]
    BY <1>1, RecordStep
  <1>4. asked'[e] = asked[e] + 1 /\ asked[e] \in Nat /\ accepted[e] \in Nat
    BY <1>1, RecordStep DEF TypeOK
  <1>5. SettledIsAccepted'
    BY <1>2, <1>3, <1>4 DEF IInv, SettledIsAccepted
  <1>6. LeaseIsFenced'
    BY <1>2, <1>3, OutboxAssumption DEF IInv, LeaseIsFenced
  <1>7. DeliveredIsFresh'
    BY <1>2, <1>3 DEF IInv, DeliveredIsFresh
  <1>8. ParkedIsVisible'
    BY <1>2, <1>3, OutboxAssumption DEF IInv, ParkedIsVisible
  <1>9. QED
    BY <1>5, <1>6, <1>7, <1>8

\* A binding's record keeps the invariant.
LEMMA BindRecordIInv == ASSUME IInv, NEW e \in Entry, BindRecord(e) PROVE IInv'
  <1>1. TypeOK /\ Record(e) /\ UNCHANGED <<call, client, accepted>>
    BY DEF BindRecord, IInv
  <1>2. TypeOK'
    BY <1>1, RecordStep DEF TypeOK
  <1>3. \A f \in Entry : asked[f] \in Nat /\ asked'[f] \in Nat /\ asked[f] <= asked'[f]
    BY <1>1, RecordStep DEF TypeOK
  <1>4. SeenWasAsked'
    BY <1>1, <1>3, Busy DEF IInv, SeenWasAsked, Calling
  <1>5. ClientWaits' /\ QueuedMeansAccepted'
    BY <1>1 DEF IInv, ClientWaits, QueuedMeansAccepted
  <1>6. QED
    BY <1>1, <1>2, <1>4, <1>5, RecordRows DEF IInv

\* A Mini Program call's record keeps the invariant: it starts from a client
\* that waits for no delivery.
LEMMA ClientRecordIInv ==
    ASSUME IInv, NEW c \in Client, NEW e \in Entry, ClientRecord(c, e)
    PROVE  IInv'
  <1> DEFINE new == [phase |-> "recorded", entry |-> e, gen |-> row'[e].gen, seen |-> asked'[e]]
  <1>1. TypeOK /\ Record(e) /\ UNCHANGED <<call, accepted>>
    BY DEF ClientRecord, IInv
  <1>2. client' = [client EXCEPT ![c] = new]
    BY DEF ClientRecord
  <1>3. row'[e] \in Row /\ asked'[e] \in Nat
    BY <1>1, RecordStep
  <1>4. new \in Calling
    <2>1. row'[e].gen \in Nat
      BY <1>3 DEF Row
    <2>2. QED
      BY <1>3, <2>1 DEF Calling
  <1>5. TypeOK'
    BY <1>1, <1>2, <1>4, RecordStep DEF TypeOK
  <1>6. client'[c] = new /\ \A d \in Client : d # c => client'[d] = client[d]
    BY <1>1, <1>2 DEF TypeOK
  <1>7. \A f \in Entry : asked[f] \in Nat /\ asked'[f] \in Nat /\ asked[f] <= asked'[f]
    BY <1>1, RecordStep DEF TypeOK
  <1>8. new.phase = "recorded" /\ new.entry = e /\ new.seen = asked'[e]
    OBVIOUS
  <1> HIDE DEF new
  <1>9. SeenWasAsked'
    <2> SUFFICES ASSUME NEW d \in Client, client'[d] # Idle
                 PROVE  client'[d].seen <= asked'[client'[d].entry]
      BY DEF SeenWasAsked
    <2>1. CASE d = c
      BY <2>1, <1>3, <1>6, <1>8
    <2>2. CASE d # c
      BY <2>2, <1>1, <1>6, <1>7, Busy DEF IInv, SeenWasAsked, Calling
    <2>3. QED
      BY <2>1, <2>2
  <1>10. QueuedMeansAccepted'
    BY <1>1, <1>6, <1>8 DEF IInv, QueuedMeansAccepted
  <1>11. \A t \in Token : call[t] # Idle => call[t].owner # c
    BY DEF IInv, ClientWaits, ClientRecord
  <1>12. ClientWaits'
    BY <1>1, <1>6, <1>11 DEF IInv, ClientWaits
  <1>13. QED
    BY <1>1, <1>5, <1>9, <1>10, <1>12, RecordRows DEF IInv

\* A claiming transaction keeps everything that does not speak of clients.
LEMMA ClaimRows ==
    ASSUME IInv, NEW S \in SUBSET Entry, NEW tok \in [S -> Token],
           NEW who \in Owner, Claim(tok, who), UNCHANGED <<asked, accepted>>
    PROVE  SettledIsAccepted' /\ LeaseIsFenced' /\ DeliveredIsFresh' /\ ParkedIsVisible'
  <1>1. TypeOK
    BY DEF IInv
  <1>2. \A e \in S : /\ row'[e].status = "leased" /\ row'[e].token = tok[e]
                     /\ row'[e].wait = 0
                     /\ row[e].status \in {"pending", "leased"}
    <2> TAKE e \in S
    <2>1. row'[e] = ClaimedRow(row[e], tok[e]) /\ Due(row[e])
      BY <1>1, ClaimStep
    <2>2. QED
      BY <1>1, <2>1, ClaimedFields DEF TypeOK, Due
  <1>3. \A e \in Entry : e \notin S => row'[e] = row[e]
    BY <1>1, ClaimStep
  <1>4. SettledIsAccepted'
    BY <1>2, <1>3 DEF IInv, SettledIsAccepted
  <1>5. DeliveredIsFresh'
    BY <1>2, <1>3 DEF IInv, DeliveredIsFresh
  <1>6. ParkedIsVisible'
    BY <1>2, <1>3, OutboxAssumption DEF IInv, ParkedIsVisible
  <1>7. LeaseIsFenced'
    <2> SUFFICES ASSUME NEW e \in Entry, NEW t \in Token, row'[e].token = t
                 PROVE  /\ row'[e].status = "leased"
                        /\ call'[t] # Idle =>
                            /\ call'[t].entry = e
                            /\ call'[t].attempts = row'[e].attempts
                            /\ call'[t].result = "ok" =>
                                call'[t].job = asked[e] /\ accepted[e] = asked[e]
      BY DEF LeaseIsFenced
    <2>1. CASE e \in S
      <3>1. tok[e] = t
        BY <2>1, <1>2
      <3>2. /\ call'[t].entry = e /\ call'[t].attempts = row'[e].attempts
            /\ call'[t].result = "none"
        BY <1>1, <2>1, <3>1, ClaimStep
      <3>3. QED
        BY <2>1, <1>2, <3>2
    <2>2. CASE e \notin S
      <3>1. row[e].token = t /\ row'[e] = row[e]
        BY <2>2, <1>3
      <3>2. t \notin FreshToken
        BY <3>1 DEF FreshToken
      <3>3. call'[t] = call[t]
        BY <1>1, <3>2, ClaimStep
      <3>4. QED
        BY <3>1, <3>3 DEF IInv, LeaseIsFenced
    <2>3. QED
      BY <2>1, <2>2
  <1>8. QED
    BY <1>4, <1>5, <1>6, <1>7

\* A claim by the timer or by a binding's after() hook keeps the invariant.
LEMMA PlainClaimIInv ==
    ASSUME IInv, NEW S \in SUBSET Entry, NEW tok \in [S -> Token],
           NEW who \in {"cron", "bind"}, Claim(tok, who),
           UNCHANGED <<client, asked, accepted>>
    PROVE  IInv'
  <1>1. TypeOK /\ who \in Owner /\ who \notin Client
    BY OutboxAssumption DEF IInv, Owner
  <1>2. TypeOK'
    BY <1>1, ClaimStep DEF TypeOK
  <1>3. ClientWaits'
    <2>1. \A t \in Token : call'[t] = call[t]
                           \/ (call'[t] # Idle /\ call'[t].owner \notin Client)
      <3> TAKE t \in Token
      <3>1. CASE \E e \in S : tok[e] = t
        <4>1. PICK e \in S : tok[e] = t
          BY <3>1
        <4>2. call'[t] \in Call /\ call'[t].owner = who
          BY <1>1, <4>1, ClaimStep
        <4>3. QED
          BY <1>1, <4>2 DEF Call, Idle
      <3>2. CASE \A e \in S : tok[e] # t
        BY <1>1, <3>2, ClaimStep
      <3>3. QED
        BY <3>1, <3>2
    <2>2. QED
      BY <2>1 DEF IInv, ClientWaits
  <1>4. SeenWasAsked' /\ QueuedMeansAccepted'
    BY DEF IInv, SeenWasAsked, QueuedMeansAccepted
  <1>5. QED
    BY <1>1, <1>2, <1>3, <1>4, ClaimRows DEF IInv

\* A Mini Program call's claim keeps the invariant: it had no delivery yet.
LEMMA ClientClaimIInv ==
    ASSUME IInv, NEW c \in Client, ClientClaim(c)
    PROVE  IInv'
  <1> DEFINE e == client[c].entry
  <1>1. TypeOK /\ c \in Owner /\ client[c].phase = "recorded"
    BY DEF IInv, Owner, ClientClaim
  <1>2. client[c] \in Calling /\ e \in Entry
    BY <1>1, Busy DEF Calling
  <1>3. PICK tok \in [{e} -> Token] : Claim(tok, c)
    BY DEF ClientClaim
  <1>4. {e} \in SUBSET Entry /\ UNCHANGED <<asked, accepted>>
    BY <1>2 DEF ClientClaim
  <1>5. [client[c] EXCEPT !.phase = "waiting"] \in Calling
    BY <1>2, Zenon DEF Calling
  <1>6. /\ client'[c] = [client[c] EXCEPT !.phase = "waiting"]
        /\ \A d \in Client : d # c => client'[d] = client[d]
        /\ client' \in [Client -> Calling \cup {Idle}]
    BY <1>1, <1>5 DEF ClientClaim, TypeOK
  <1>7. /\ client'[c].phase = "waiting" /\ client'[c].entry = e
        /\ client'[c].seen = client[c].seen
    BY <1>2, <1>6 DEF Calling
  <1>8. TypeOK'
    BY <1>1, <1>3, <1>4, <1>6, ClaimStep DEF TypeOK
  <1>9. SettledIsAccepted' /\ LeaseIsFenced' /\ DeliveredIsFresh' /\ ParkedIsVisible'
    BY <1>1, <1>3, <1>4, ClaimRows
  <1>10. client[c] # Idle
    BY <1>1, Busy
  <1>11. SeenWasAsked'
    BY <1>4, <1>6, <1>7, <1>10 DEF IInv, SeenWasAsked
  <1>12. QueuedMeansAccepted'
    BY <1>4, <1>6, <1>7 DEF IInv, QueuedMeansAccepted
  <1>13. \A t \in Token : call[t] # Idle => call[t].owner # c
    BY <1>1 DEF IInv, ClientWaits
  <1>14. /\ \A t \in Token : (\A f \in {e} : tok[f] # t) => call'[t] = call[t]
         /\ \A f \in {e} : call'[tok[f]].owner = c /\ call'[tok[f]].entry = f
    <2> HIDE DEF e
    <2>1. QED
      BY <1>1, <1>3, <1>4, ClaimStep
  <1>15. /\ tok[e] \in Token /\ call'[tok[e]].owner = c /\ call'[tok[e]].entry = e
         /\ \A t \in Token : tok[e] # t => call'[t] = call[t]
    <2> HIDE DEF e
    <2>1. QED
      BY <1>14
  <1> HIDE DEF e
  <1>16. ClientWaits'
    <2> SUFFICES ASSUME NEW t \in Token, call'[t] # Idle, call'[t].owner \in Client
                 PROVE  /\ client'[call'[t].owner].phase = "waiting"
                        /\ client'[call'[t].owner].entry = call'[t].entry
                        /\ \A u \in Token :
                            call'[u] # Idle /\ call'[u].owner = call'[t].owner => u = t
      BY DEF ClientWaits
    <2>1. CASE t = tok[e]
      <3>1. call'[t].owner = c /\ call'[t].entry = e
        BY <2>1, <1>15
      <3>2. \A u \in Token : u # t /\ call'[u] # Idle => call'[u].owner # c
        BY <2>1, <1>13, <1>15
      <3>3. QED
        BY <3>1, <3>2, <1>7
    <2>2. CASE t # tok[e]
      <3>1. call'[t] = call[t] /\ call[t].owner # c
        BY <2>2, <1>13, <1>15
      <3>2. /\ client[call[t].owner].phase = "waiting"
            /\ client[call[t].owner].entry = call[t].entry
            /\ \A u \in Token :
                call[u] # Idle /\ call[u].owner = call[t].owner => u = t
        BY <3>1 DEF IInv, ClientWaits
      <3>3. \A u \in Token : call'[u].owner = call[t].owner => u # tok[e]
        BY <3>1, <1>15
      <3>4. QED
        BY <3>1, <3>2, <3>3, <1>6, <1>15
    <2>3. QED
      BY <2>1, <2>2
  <1>17. QED
    BY <1>8, <1>9, <1>11, <1>12, <1>16 DEF IInv

\* The two reads of a call that claimed nothing keep the invariant: "queued"
\* is said only of a delivered row.
LEMMA ClientReadIInv ==
    ASSUME IInv, NEW c \in Client, ClientClaimMiss(c) \/ ClientCheck(c)
    PROVE  IInv'
  <1>1. TypeOK /\ UNCHANGED <<row, call, asked, accepted>>
    BY DEF IInv, ClientClaimMiss, ClientCheck
  <1>2. client[c].phase \in {"recorded", "missed"} /\ client[c] # Idle
    BY <1>1, Busy DEF ClientClaimMiss, ClientCheck
  <1>3. client[c] \in Calling
    BY <1>1, <1>2, Busy
  <1>4. PICK phase \in {"missed", "queued", "unavailable"} :
            /\ client' = [client EXCEPT ![c].phase = phase]
            /\ phase = "queued" => DeliveredFor(row[client[c].entry], client[c].gen)
    BY DEF ClientClaimMiss, ClientCheck
  <1>5. [client[c] EXCEPT !.phase = phase] \in Calling
    BY <1>3, Zenon DEF Calling
  <1>6. /\ client'[c] = [client[c] EXCEPT !.phase = phase]
        /\ \A d \in Client : d # c => client'[d] = client[d]
        /\ client' \in [Client -> Calling \cup {Idle}]
    BY <1>1, <1>4, <1>5 DEF TypeOK
  <1>7. /\ client'[c].phase = phase /\ client'[c].entry = client[c].entry
        /\ client'[c].seen = client[c].seen /\ client[c].entry \in Entry
    BY <1>3, <1>6 DEF Calling
  <1>8. SeenWasAsked'
    BY <1>1, <1>2, <1>6, <1>7 DEF IInv, SeenWasAsked
  <1>9. QueuedMeansAccepted'
    <2>1. phase = "queued" => accepted[client[c].entry] >= client[c].seen
      <3> HAVE phase = "queued"
      <3>1. row[client[c].entry].status = "delivered"
        BY <1>4 DEF DeliveredFor
      <3>2. accepted[client[c].entry] = asked[client[c].entry]
        BY <3>1, <1>7 DEF IInv, SettledIsAccepted
      <3>3. client[c].seen <= asked[client[c].entry]
        BY <1>2 DEF IInv, SeenWasAsked
      <3>4. asked[client[c].entry] \in Nat /\ client[c].seen \in Nat
        BY <1>1, <1>3, <1>7 DEF TypeOK, Calling
      <3>5. QED
        BY <3>2, <3>3, <3>4
    <2>2. QED
      BY <2>1, <1>1, <1>6, <1>7 DEF IInv, QueuedMeansAccepted
  <1>10. ClientWaits'
    <2>1. \A t \in Token : call[t] # Idle => call[t].owner # c
      BY <1>2 DEF IInv, ClientWaits
    <2>2. QED
      BY <2>1, <1>1, <1>6 DEF IInv, ClientWaits
  <1>11. TypeOK'
    BY <1>1, <1>6 DEF TypeOK
  <1>12. SettledIsAccepted' /\ LeaseIsFenced' /\ DeliveredIsFresh' /\ ParkedIsVisible'
    BY <1>1 DEF IInv, SettledIsAccepted, LeaseIsFenced, DeliveredIsFresh, ParkedIsVisible
  <1>13. QED
    BY <1>8, <1>9, <1>10, <1>11, <1>12 DEF IInv

\* A delivery may change its phase, age and answer at will, as long as it
\* claims success only for what Data accepted under everything asked so far.
LEMMA CallUpdate ==
    ASSUME IInv, NEW t \in Token, call[t] # Idle, NEW a \in Call,
           call' = [call EXCEPT ![t] = a],
           a.owner = call[t].owner, a.entry = call[t].entry, a.attempts = call[t].attempts,
           UNCHANGED <<row, client, asked>>,
           accepted' = accepted
             \/ accepted' = [accepted EXCEPT ![call[t].entry] = asked[call[t].entry]],
           a.result = "ok" =>
             \/ call[t].result = "ok" /\ a.job = call[t].job
             \/ a.job = asked[a.entry] /\ accepted'[a.entry] = asked[a.entry]
    PROVE  IInv'
  <1>1. TypeOK
    BY DEF IInv
  <1>2. call[t].entry \in Entry
    BY <1>1, Busy DEF Call
  <1>3. call'[t] = a /\ \A u \in Token : u # t => call'[u] = call[u]
    BY <1>1 DEF TypeOK
  <1>4. TypeOK'
    BY <1>1, <1>2 DEF TypeOK
  <1>5. \A e \in Entry : /\ accepted'[e] \in Nat /\ accepted'[e] >= accepted[e]
                         /\ accepted'[e] = accepted[e] \/ accepted'[e] = asked[e]
                         /\ accepted'[e] <= asked[e]
    BY <1>1, <1>2 DEF IInv, SettledIsAccepted, TypeOK
  <1>6. SettledIsAccepted' /\ DeliveredIsFresh' /\ ParkedIsVisible'
    BY <1>5 DEF IInv, SettledIsAccepted, DeliveredIsFresh, ParkedIsVisible
  <1>7. LeaseIsFenced'
    <2> SUFFICES ASSUME NEW e \in Entry, NEW u \in Token, row[e].token = u
                 PROVE  /\ row[e].status = "leased"
                        /\ call'[u] # Idle =>
                            /\ call'[u].entry = e
                            /\ call'[u].attempts = row[e].attempts
                            /\ call'[u].result = "ok" =>
                                call'[u].job = asked[e] /\ accepted'[e] = asked[e]
      BY DEF LeaseIsFenced
    <2>1. /\ row[e].status = "leased"
          /\ call[u] # Idle =>
                /\ call[u].entry = e
                /\ call[u].attempts = row[e].attempts
                /\ call[u].result = "ok" =>
                    call[u].job = asked[e] /\ accepted[e] = asked[e]
      BY DEF IInv, LeaseIsFenced
    <2>2. CASE u = t
      BY <2>1, <2>2, <1>3, <1>5
    <2>3. CASE u # t
      BY <2>1, <2>3, <1>3, <1>5
    <2>4. QED
      BY <2>2, <2>3
  <1>8. a # Idle
    BY DEF Call, Idle
  <1>9. ClientWaits'
    BY <1>3, <1>8 DEF IInv, ClientWaits
  <1>10. SeenWasAsked'
    BY DEF IInv, SeenWasAsked
  <1>11. QueuedMeansAccepted'
    <2> SUFFICES ASSUME NEW c \in Client, client[c].phase = "queued"
                 PROVE  accepted'[client[c].entry] >= client[c].seen
      BY DEF QueuedMeansAccepted
    <2>1. client[c].entry \in Entry /\ client[c].seen \in Nat
      BY <1>1, Busy DEF Calling
    <2>2. accepted[client[c].entry] \in Nat
      BY <1>1, <2>1 DEF TypeOK
    <2>3. QED
      BY <2>1, <2>2, <1>5 DEF IInv, QueuedMeansAccepted
  <1>12. QED
    BY <1>4, <1>6, <1>7, <1>9, <1>10, <1>11 DEF IInv

\* Starting, accepting and refusing a delivery keep the invariant.
LEMMA RequestIInv ==
    ASSUME IInv, NEW t \in Token,
           \/ StartDelivery(t)
           \/ \E heard \in BOOLEAN : Accept(t, heard)
           \/ \E failure \in Failure : Refuse(t, failure)
    PROVE  IInv'
  <1>1. TypeOK
    BY DEF IInv
  <1>2. call[t] # Idle /\ call[t] \in Call
    BY <1>1, Busy DEF StartDelivery, Accept, Refuse
  <1>3. CASE StartDelivery(t)
    <2> DEFINE age == IF call[t].owner = "cron" THEN 0 ELSE call[t].age
               a == [call[t] EXCEPT !.phase = "requesting", !.age = age]
    <2>1. age \in 0..MaxCallAge
      BY <1>2, OutboxAssumption DEF Call
    <2>2. call' = [call EXCEPT ![t] = a]
      BY <1>3 DEF StartDelivery, TypeOK
    <2> HIDE DEF age
    <2>3. a \in Call /\ a.owner = call[t].owner /\ a.entry = call[t].entry
          /\ a.attempts = call[t].attempts /\ a.result = call[t].result /\ a.job = call[t].job
      BY <1>2, <2>1, Zenon DEF Call
    <2> HIDE DEF a
    <2>4. UNCHANGED <<row, client, asked, accepted>>
      BY <1>3 DEF StartDelivery
    <2>5. QED
      BY <1>2, <2>2, <2>3, <2>4, CallUpdate
  <1>4. ASSUME NEW heard \in BOOLEAN, Accept(t, heard) PROVE IInv'
    <2> DEFINE e == call[t].entry
               job == IF heard THEN asked[e] ELSE 0
               result == IF heard THEN "ok" ELSE "transient"
               a == [call[t] EXCEPT !.phase = "answered", !.result = result, !.job = job]
    <2>1. /\ call' = [call EXCEPT ![t] = a]
          /\ accepted' = [accepted EXCEPT ![e] = asked[e]]
          /\ UNCHANGED <<row, client, asked>>
      BY <1>4, Zenon DEF Accept
    <2>2. e \in Entry
      BY <1>2 DEF Call
    <2>3. accepted'[e] = asked[e] /\ asked[e] \in Nat
      BY <1>1, <2>1, <2>2 DEF TypeOK
    <2>4. job \in Nat /\ result \in {"ok"} \cup Failure /\ (result = "ok" => job = asked[e])
      BY <2>3 DEF Failure
    <2> HIDE DEF job, result
    <2>5. a \in Call /\ a.owner = call[t].owner /\ a.entry = e
          /\ a.attempts = call[t].attempts /\ a.result = result /\ a.job = job
      BY <1>2, <2>4, Zenon DEF Call
    <2> HIDE DEF a
    <2>6. QED
      BY <1>2, <2>1, <2>3, <2>4, <2>5, CallUpdate
  <1>5. ASSUME NEW failure \in Failure, Refuse(t, failure) PROVE IInv'
    <2> DEFINE a == [call[t] EXCEPT !.phase = "answered", !.result = failure]
    <2>1. /\ call' = [call EXCEPT ![t] = a]
          /\ UNCHANGED <<row, client, asked, accepted>>
      BY <1>5, Zenon DEF Refuse
    <2>2. a \in Call /\ a.owner = call[t].owner /\ a.entry = call[t].entry
          /\ a.attempts = call[t].attempts /\ a.result = failure
      BY <1>2, Zenon DEF Call
    <2>3. failure # "ok"
      BY DEF Failure
    <2> HIDE DEF a
    <2>4. QED
      BY <1>2, <2>1, <2>2, <2>3, CallUpdate
  <1>6. QED
    BY <1>3, <1>4, <1>5

\* The end of a delivery: its token is freed, its row (if any) takes a settled
\* form, and the client waiting for it learns the outcome.  Every way a
\* delivery ends is an instance.
LEMMA EndOfCall ==
    ASSUME IInv, NEW t \in Token, call[t] # Idle,
           row' \in [Entry -> Row],
           \A e \in Entry : row'[e] = row[e]
               \/ /\ row[e].token = t /\ row'[e].token = NoToken
                  /\ \/ row'[e].status = "pending"
                     \/ /\ row'[e].status = "delivered"
                        /\ row'[e].job = asked[e] /\ accepted[e] = asked[e]
                  /\ row'[e].wait = Never =>
                        /\ row'[e].status = "pending" /\ row'[e].error = "permanent"
                        /\ row'[e].attempts >= MaxAttempts,
           Forget(t), UNCHANGED <<asked, accepted>>,
           NEW phase \in {"queued", "unavailable"}, Reply(t, phase),
           phase = "queued" => accepted[call[t].entry] = asked[call[t].entry]
    PROVE  IInv'
  <1>1. TypeOK
    BY DEF IInv
  <1>2. call'[t] = Idle /\ \A u \in Token : u # t => call'[u] = call[u]
    BY <1>1 DEF TypeOK, Forget
  <1>3. call[t].owner \in Client =>
            /\ client[call[t].owner] # Idle
            /\ client[call[t].owner].entry = call[t].entry
    BY <1>1, Busy DEF IInv, ClientWaits, Idle
  <1>4. /\ client' \in [Client -> Calling \cup {Idle}]
        /\ \A c \in Client : c # call[t].owner => client'[c] = client[c]
        /\ \A c \in Client : c = call[t].owner =>
                client'[c] = [client[c] EXCEPT !.phase = phase]
    BY <1>1, <1>3, ReplyStep
  <1>5. \A c \in Client : c = call[t].owner =>
            /\ client'[c].phase = phase /\ client'[c].entry = client[c].entry
            /\ client'[c].seen = client[c].seen
    BY <1>1, <1>3, <1>4, Busy DEF Calling
  <1>6. TypeOK'
    <2>1. call' \in [Token -> Call \cup {Idle}]
      BY <1>1 DEF Forget, TypeOK
    <2>2. QED
      BY <1>1, <1>4, <2>1 DEF TypeOK
  <1>7. SettledIsAccepted' /\ DeliveredIsFresh' /\ ParkedIsVisible'
    BY DEF IInv, SettledIsAccepted, DeliveredIsFresh, ParkedIsVisible
  <1>8. LeaseIsFenced'
    <2>1. \A e \in Entry, u \in Token : row'[e].token = u => row'[e] = row[e]
      BY OutboxAssumption
    <2>2. QED
      BY <2>1, <1>2 DEF IInv, LeaseIsFenced
  <1>9. SeenWasAsked'
    <2> SUFFICES ASSUME NEW c \in Client, client'[c] # Idle
                 PROVE  client'[c].seen <= asked[client'[c].entry]
      BY DEF SeenWasAsked
    <2>1. CASE c = call[t].owner
      BY <2>1, <1>3, <1>5 DEF IInv, SeenWasAsked
    <2>2. CASE c # call[t].owner
      BY <2>2, <1>4 DEF IInv, SeenWasAsked
    <2>3. QED
      BY <2>1, <2>2
  <1>10. QueuedMeansAccepted'
    <2> SUFFICES ASSUME NEW c \in Client, client'[c].phase = "queued"
                 PROVE  accepted[client'[c].entry] >= client'[c].seen
      BY DEF QueuedMeansAccepted
    <2>1. CASE c = call[t].owner
      <3>1. /\ accepted[client[c].entry] = asked[client[c].entry]
            /\ client[c].seen <= asked[client[c].entry]
        BY <2>1, <1>3, <1>5 DEF IInv, SeenWasAsked
      <3>2. client[c].entry \in Entry /\ client[c].seen \in Nat
        BY <2>1, <1>1, <1>3, Busy DEF Calling
      <3>3. asked[client[c].entry] \in Nat
        BY <3>2, <1>1 DEF TypeOK
      <3>4. QED
        BY <2>1, <1>5, <3>1, <3>2, <3>3
    <2>2. CASE c # call[t].owner
      BY <2>2, <1>4 DEF IInv, QueuedMeansAccepted
    <2>3. QED
      BY <2>1, <2>2
  <1>11. ClientWaits'
    <2> SUFFICES ASSUME NEW u \in Token, call'[u] # Idle, call'[u].owner \in Client
                 PROVE  /\ client'[call'[u].owner].phase = "waiting"
                        /\ client'[call'[u].owner].entry = call'[u].entry
                        /\ \A v \in Token :
                            call'[v] # Idle /\ call'[v].owner = call'[u].owner => v = u
      BY DEF ClientWaits
    <2>1. u # t /\ call'[u] = call[u]
      BY <1>2
    <2>2. call[u].owner # call[t].owner
      BY <2>1 DEF IInv, ClientWaits
    <2>3. QED
      BY <2>1, <2>2, <1>2, <1>4 DEF IInv, ClientWaits
  <1>12. QED
    BY <1>6, <1>7, <1>8, <1>9, <1>10, <1>11 DEF IInv

\* Every way a delivery ends keeps the invariant: an answer writes the row
\* only while its lease is fenced, so the job is fresh and the attempts are
\* the row's own.
LEMMA EndIInv ==
    ASSUME IInv, NEW t \in Token,
           Acknowledge(t) \/ Retry(t) \/ SettleStale(t) \/ Abandon(t)
    PROVE  IInv'
  <1> DEFINE e == call[t].entry
  <1>1. TypeOK
    BY DEF IInv
  <1>2. call[t] # Idle /\ call[t] \in Call
    BY <1>1, Busy DEF Acknowledge, Retry, SettleStale, Abandon
  <1>3. e \in Entry /\ row[e] \in Row
    BY <1>1, <1>2 DEF Call, TypeOK
  <1>4. Holds(t) => /\ row[e].token = t /\ row[e].attempts = call[t].attempts
                    /\ call[t].result = "ok" =>
                            call[t].job = asked[e] /\ accepted[e] = asked[e]
    BY <1>2, <1>3 DEF IInv, LeaseIsFenced, Holds
  <1>5. CASE Acknowledge(t)
    <2>1. Holds(t) /\ call[t].result = "ok" /\ Reply(t, "queued")
      BY <1>5 DEF Acknowledge
    <2>2. DeliveredRow(row[e], call[t]) \in Row
      BY <1>2, <1>3, DeliveredType
    <2>3. Settle(t, DeliveredRow(row[e], call[t]))
      BY <1>5 DEF Acknowledge
    <2>4. /\ row' \in [Entry -> Row] /\ row'[e] = DeliveredRow(row[e], call[t])
          /\ \A f \in Entry : f # e => row'[f] = row[f]
      BY <1>1, <1>2, <2>2, <2>3, SettleStep
    <2>5. /\ row'[e].status = "delivered" /\ row'[e].token = NoToken
          /\ row'[e].wait = 0 /\ row'[e].job = call[t].job
      BY <1>3, <2>4, DeliveredFields
    <2>6. Forget(t) /\ UNCHANGED <<asked, accepted>>
      BY <2>3 DEF Settle
    <2>7. 0 # Never
      BY OutboxAssumption
    <2>8. QED
      BY <1>2, <1>4, <2>1, <2>4, <2>5, <2>6, <2>7, EndOfCall
  <1>6. CASE Retry(t)
    <2>1. Holds(t) /\ call[t].result \in Failure /\ Reply(t, "unavailable")
      BY <1>6 DEF Retry
    <2>2. PICK after \in RetryAfter : Settle(t, RetriedRow(row[e], call[t], after))
      BY <1>6 DEF Retry
    <2>3. RetriedRow(row[e], call[t], after) \in Row
      BY <1>2, <1>3, <2>1, RetriedType
    <2>4. /\ row' \in [Entry -> Row] /\ row'[e] = RetriedRow(row[e], call[t], after)
          /\ \A f \in Entry : f # e => row'[f] = row[f]
      BY <1>1, <1>2, <2>2, <2>3, SettleStep
    <2>5. /\ row'[e].status = "pending" /\ row'[e].token = NoToken
          /\ row'[e].wait = NextWait(call[t], after)
          /\ row'[e].error = call[t].result /\ row'[e].attempts = row[e].attempts
      BY <1>3, <2>4, RetriedFields
    <2>6. NextWait(call[t], after) = Never =>
                call[t].result = "permanent" /\ call[t].attempts >= MaxAttempts
      <3>1. RetryDelay(call[t], after) - call[t].age \in Int
        <4>1. call[t].attempts \in Nat /\ call[t].age \in Nat
          BY <1>2, OutboxAssumption DEF Call
        <4>2. Least(Most(call[t].attempts, 1), Len(Backoff)) \in 1..Len(Backoff)
          BY <4>1, OutboxAssumption DEF Least, Most
        <4>3. QED
          BY <4>1, <4>2, OutboxAssumption DEF RetryDelay, Most
      <3>2. Most(RetryDelay(call[t], after) - call[t].age, 0) \in Nat
        BY <3>1 DEF Most
      <3>3. QED
        BY <3>2, OutboxAssumption DEF NextWait
    <2>7. Forget(t) /\ UNCHANGED <<asked, accepted>>
      BY <2>2 DEF Settle
    <2>8. QED
      BY <1>2, <1>4, <2>1, <2>4, <2>5, <2>6, <2>7, EndOfCall
  <1>7. CASE SettleStale(t)
    <2>1. Settle(t, row[e]) /\ Reply(t, "unavailable")
      BY <1>7 DEF SettleStale
    <2>2. row' \in [Entry -> Row] /\ \A f \in Entry : row'[f] = row[f]
      BY <1>1, <1>2, <1>3, <2>1, SettleStep
    <2>3. Forget(t) /\ UNCHANGED <<asked, accepted>>
      BY <2>1 DEF Settle
    <2>4. QED
      BY <1>2, <2>1, <2>2, <2>3, EndOfCall
  <1>8. CASE Abandon(t)
    <2>1. Forget(t) /\ Reply(t, "unavailable") /\ UNCHANGED <<row, asked, accepted>>
      BY <1>8 DEF Abandon
    <2>2. row' \in [Entry -> Row]
      BY <1>1, <2>1 DEF TypeOK
    <2>3. QED
      BY <1>2, <2>1, <2>2, EndOfCall
  <1>9. QED
    BY <1>5, <1>6, <1>7, <1>8

\* The sweep and the passage of time keep the invariant.
LEMMA TimeIInv ==
    ASSUME IInv, (\E S \in SUBSET Entry : Purge(S)) \/ Tick
    PROVE  IInv'
  <1>1. TypeOK
    BY DEF IInv
  <1>2. CASE \E S \in SUBSET Entry : Purge(S)
    <2>1. PICK S \in SUBSET Entry : Purge(S)
      BY <1>2
    <2>2. \A e \in Entry : row'[e] = IF e \in S THEN NoRow ELSE row[e]
      BY <2>1 DEF Purge
    <2>3. \A e \in S : row[e].status = "delivered" /\ row'[e] = NoRow
      BY <2>1, <2>2 DEF Purge, Purgeable
    <2>4. \A e \in Entry : row'[e] = row[e] \/ (row[e].status = "delivered" /\ row'[e] = NoRow)
      BY <2>2, <2>3
    <2>5. UNCHANGED <<call, client, asked, accepted>>
      BY <2>1 DEF Purge
    <2>6. TypeOK'
      BY <1>1, <2>1, <2>5, NoRowType DEF Purge, TypeOK
    <2>7. SettledIsAccepted' /\ DeliveredIsFresh' /\ ParkedIsVisible' /\ LeaseIsFenced'
      BY <2>4, <2>5, NoRowFields, OutboxAssumption
      DEF IInv, SettledIsAccepted, DeliveredIsFresh, ParkedIsVisible, LeaseIsFenced
    <2>8. ClientWaits' /\ SeenWasAsked' /\ QueuedMeansAccepted'
      BY <2>5 DEF IInv, ClientWaits, SeenWasAsked, QueuedMeansAccepted
    <2>9. QED
      BY <2>6, <2>7, <2>8 DEF IInv
  <1>3. CASE Tick
    <2> DEFINE Aged(a) == [a EXCEPT !.age = Least(@ + 1, MaxCallAge)]
    <2>1. UNCHANGED <<client, asked, accepted>>
      BY <1>3 DEF Tick
    <2>2. \A e \in Entry : row'[e] = Older(row[e]) /\ row[e] \in Row
      BY <1>1, <1>3 DEF Tick, TypeOK
    <2>3. row' \in [Entry -> Row]
      BY <1>1, <1>3, OlderType DEF Tick, TypeOK
    <2>4. \A e \in Entry :
            /\ row'[e].status = row[e].status /\ row'[e].token = row[e].token
            /\ row'[e].job = row[e].job /\ row'[e].error = row[e].error
            /\ row'[e].attempts = row[e].attempts
            /\ (row'[e].wait = Never) = (row[e].wait = Never)
      BY <2>2, OlderFields
    <2>5. \A a \in Call : /\ Aged(a) \in Call
                          /\ Aged(a).owner = a.owner /\ Aged(a).entry = a.entry
                          /\ Aged(a).attempts = a.attempts /\ Aged(a).result = a.result
                          /\ Aged(a).job = a.job
      <3> TAKE a \in Call
      <3>1. Least(a.age + 1, MaxCallAge) \in 0..MaxCallAge
        BY OutboxAssumption DEF Call, Least
      <3>2. QED
        BY <3>1, Zenon DEF Call
    <2>6. \A t \in Token : call'[t] = IF call[t] = Idle THEN Idle ELSE Aged(call[t])
      BY <1>3, Zenon DEF Tick
    <2>7. call' \in [Token -> Call \cup {Idle}]
      BY <1>1, <1>3, <2>5, Busy DEF Tick
    <2> HIDE DEF Aged
    <2>8. \A t \in Token :
            /\ (call'[t] = Idle) = (call[t] = Idle)
            /\ call[t] # Idle =>
                /\ call'[t].owner = call[t].owner /\ call'[t].entry = call[t].entry
                /\ call'[t].attempts = call[t].attempts
                /\ call'[t].result = call[t].result /\ call'[t].job = call[t].job
      <3> TAKE t \in Token
      <3>1. CASE call[t] = Idle
        BY <3>1, <2>6
      <3>2. CASE call[t] # Idle
        <4>1. call[t] \in Call /\ call'[t] = Aged(call[t])
          BY <1>1, <3>2, <2>6, Busy
        <4>2. Aged(call[t]) # Idle
          BY <4>1, <2>5 DEF Call, Idle
        <4>3. QED
          BY <3>2, <4>1, <4>2, <2>5
      <3>3. QED
        BY <3>1, <3>2
    <2>9. TypeOK'
      BY <1>1, <2>1, <2>3, <2>7 DEF TypeOK
    <2>10. SettledIsAccepted' /\ DeliveredIsFresh'
      BY <2>1, <2>4 DEF IInv, SettledIsAccepted, DeliveredIsFresh
    <2>11. ParkedIsVisible'
      BY <2>4 DEF IInv, ParkedIsVisible
    <2>12. LeaseIsFenced'
      BY <2>1, <2>4, <2>8 DEF IInv, LeaseIsFenced
    <2>13. ClientWaits'
      BY <2>1, <2>8 DEF IInv, ClientWaits
    <2>14. SeenWasAsked' /\ QueuedMeansAccepted'
      BY <2>1 DEF IInv, SeenWasAsked, QueuedMeansAccepted
    <2>15. QED
      BY <2>9, <2>10, <2>11, <2>12, <2>13, <2>14 DEF IInv
  <1>4. QED
    BY <1>2, <1>3

\* Every step of the outbox preserves the invariant.
LEMMA NextIInv == IInv /\ [Next]_vars => IInv'
  <1> SUFFICES ASSUME IInv, [Next]_vars PROVE IInv'
    OBVIOUS
  <1>1. ASSUME NEW e \in Entry, BindRecord(e) PROVE IInv'
    BY <1>1, BindRecordIInv
  <1>2. ASSUME NEW e \in Entry, BindClaim(e) PROVE IInv'
    <2>1. PICK tok \in [{e} -> Token] : Claim(tok, "bind")
      BY <1>2 DEF BindClaim
    <2>2. UNCHANGED <<client, asked, accepted>>
      BY <1>2 DEF BindClaim
    <2>3. QED
      BY <2>1, <2>2, PlainClaimIInv
  <1>3. ASSUME NEW c \in Client, ClientStep(c) PROVE IInv'
    BY <1>3, ClientRecordIInv, ClientClaimIInv, ClientReadIInv DEF ClientStep
  <1>4. ASSUME NEW t \in Token, CallStep(t) PROVE IInv'
    BY <1>4, RequestIInv, EndIInv DEF CallStep
  <1>5. ASSUME NEW S \in SUBSET Entry, CronClaim(S) PROVE IInv'
    <2>1. PICK tok \in [S -> Token] : Claim(tok, "cron")
      BY <1>5 DEF CronClaim
    <2>2. UNCHANGED <<client, asked, accepted>>
      BY <1>5 DEF CronClaim
    <2>3. QED
      BY <2>1, <2>2, PlainClaimIInv
  <1>6. CASE (\E S \in SUBSET Entry : Purge(S)) \/ Tick
    BY <1>6, TimeIInv
  <1>7. CASE UNCHANGED vars
    BY <1>7 DEF vars, IInv, TypeOK, SettledIsAccepted, LeaseIsFenced, ClientWaits,
                SeenWasAsked, DeliveredIsFresh, ParkedIsVisible, QueuedMeansAccepted
  <1>8. QED
    BY <1>1, <1>2, <1>3, <1>4, <1>5, <1>6, <1>7 DEF Next, EntryStep

\* The inductive invariant of the outbox.
THEOREM InductiveInvariant == Spec => []IInv
  BY InitIInv, NextIInv, PTL DEF Spec

\* Every reachable state is well typed.
THEOREM TypeCorrect == Spec => []TypeOK
  <1>1. IInv => TypeOK
    BY DEF IInv
  <1>2. QED
    BY <1>1, InductiveInvariant, PTL

\* No expired lease, superseded worker or late answer acknowledges a request
\* newer than the job it obtained.
THEOREM DeliveredFresh == Spec => []DeliveredIsFresh
  <1>1. IInv => DeliveredIsFresh
    BY DEF IInv
  <1>2. QED
    BY <1>1, InductiveInvariant, PTL

\* Crashes, lost answers, retries and the retention sweep lose no request.
THEOREM NothingLost == Spec => []NoLostRequest
  <1>1. IInv => NoLostRequest
    <2> SUFFICES ASSUME IInv, NEW e \in Entry, accepted[e] < asked[e]
                 PROVE  row[e].status \in {"pending", "leased"}
      BY DEF NoLostRequest
    <2>1. row[e].status \in {"absent", "pending", "leased", "delivered"}
      BY DEF IInv, TypeOK, Row
    <2>2. accepted[e] \in Nat /\ asked[e] \in Nat
      BY DEF IInv, TypeOK
    <2>3. QED
      BY <2>1, <2>2 DEF IInv, SettledIsAccepted
  <1>2. QED
    BY <1>1, InductiveInvariant, PTL

\* "queued" is answered only for a request Data's job covers.
THEOREM QueuedAccepted == Spec => []QueuedMeansAccepted
  <1>1. IInv => QueuedMeansAccepted
    BY DEF IInv
  <1>2. QED
    BY <1>1, InductiveInvariant, PTL

\* A parked row is where the health query counts it.
THEOREM ParkedVisible == Spec => []ParkedIsVisible
  <1>1. IInv => ParkedIsVisible
    BY DEF IInv
  <1>2. QED
    BY <1>1, InductiveInvariant, PTL

-----------------------------------------------------------------------------
(* What a step does to one row, in the terms of the promise.               *)

\* The steps that ask, accept and acknowledge are those of the promise, every
\* other step leaves the debt as it is; none but asking unparks a row.
LEMMA StepShape ==
    ASSUME IInv, [Next]_vars
    PROVE  \/ \E e \in Entry :
                /\ asked' = [asked EXCEPT ![e] = @ + 1] /\ UNCHANGED accepted
                /\ row'[e].status = "pending"
                /\ \A f \in Entry : f # e => row'[f] = row[f]
           \/ \E e \in Entry :
                /\ accepted' = [accepted EXCEPT ![e] = asked[e]] /\ UNCHANGED <<row, asked>>
           \/ \E e \in Entry :
                /\ UNCHANGED <<asked, accepted>>
                /\ row[e].status = "leased" /\ row'[e].status = "delivered"
                /\ accepted[e] = asked[e] /\ row[e].wait # Never
                /\ \A f \in Entry : f # e => row'[f] = row[f]
           \/ /\ UNCHANGED <<asked, accepted>>
              /\ \A e \in Entry :
                    /\ (row'[e].status \in {"pending", "leased"})
                          = (row[e].status \in {"pending", "leased"})
                    /\ row[e].wait = Never => row'[e].wait = Never
  <1> DEFINE Asks == \E e \in Entry :
                /\ asked' = [asked EXCEPT ![e] = @ + 1] /\ UNCHANGED accepted
                /\ row'[e].status = "pending"
                /\ \A f \in Entry : f # e => row'[f] = row[f]
             Accepts == \E e \in Entry :
                /\ accepted' = [accepted EXCEPT ![e] = asked[e]] /\ UNCHANGED <<row, asked>>
             Acks == \E e \in Entry :
                /\ UNCHANGED <<asked, accepted>>
                /\ row[e].status = "leased" /\ row'[e].status = "delivered"
                /\ accepted[e] = asked[e] /\ row[e].wait # Never
                /\ \A f \in Entry : f # e => row'[f] = row[f]
             Rest ==
              /\ UNCHANGED <<asked, accepted>>
              /\ \A e \in Entry :
                    /\ (row'[e].status \in {"pending", "leased"})
                          = (row[e].status \in {"pending", "leased"})
                    /\ row[e].wait = Never => row'[e].wait = Never
  <1>1. TypeOK
    BY DEF IInv
  <1>2. \A e \in Entry : Record(e) /\ UNCHANGED accepted => Asks
    <2> SUFFICES ASSUME NEW e \in Entry, Record(e), UNCHANGED accepted PROVE Asks
      OBVIOUS
    <2>1. row'[e].status = "pending" /\ \A f \in Entry : f # e => row'[f] = row[f]
      BY <1>1, RecordStep, RecordedFields DEF TypeOK
    <2>2. QED
      BY <2>1 DEF Record
  <1>3. \A S \in SUBSET Entry : \A tok \in [S -> Token] : \A who \in Owner :
            Claim(tok, who) /\ UNCHANGED <<asked, accepted>> => Rest
    <2> SUFFICES ASSUME NEW S \in SUBSET Entry, NEW tok \in [S -> Token],
                        NEW who \in Owner, Claim(tok, who), UNCHANGED <<asked, accepted>>
                 PROVE  Rest
      OBVIOUS
    <2>1. \A e \in S : /\ row'[e].status = "leased" /\ row[e].wait = 0
                       /\ row[e].status \in {"pending", "leased"}
      <3> TAKE e \in S
      <3>1. row'[e] = ClaimedRow(row[e], tok[e]) /\ Due(row[e])
        BY <1>1, ClaimStep
      <3>2. QED
        BY <1>1, <3>1, ClaimedFields DEF TypeOK, Due
    <2>2. \A e \in Entry : e \notin S => row'[e] = row[e]
      BY <1>1, ClaimStep
    <2>3. QED
      BY <2>1, <2>2, OutboxAssumption
  <1>4. \A t \in Token : Acknowledge(t) => Acks
    <2> SUFFICES ASSUME NEW t \in Token, Acknowledge(t) PROVE Acks
      OBVIOUS
    <2> DEFINE e == call[t].entry
    <2>1. call[t] # Idle /\ call[t] \in Call /\ Holds(t) /\ call[t].result = "ok"
      BY <1>1, Busy DEF Acknowledge
    <2>2. e \in Entry /\ row[e] \in Row
      BY <1>1, <2>1 DEF Call, TypeOK
    <2>3. row[e].status = "leased" /\ accepted[e] = asked[e]
      BY <2>1, <2>2 DEF IInv, LeaseIsFenced, Holds
    <2>4. row[e].wait # Never
      BY <2>2, <2>3 DEF IInv, ParkedIsVisible
    <2>5. DeliveredRow(row[e], call[t]) \in Row
      BY <2>1, <2>2, DeliveredType
    <2>6. Settle(t, DeliveredRow(row[e], call[t]))
      BY DEF Acknowledge
    <2>7. /\ row'[e] = DeliveredRow(row[e], call[t])
          /\ \A f \in Entry : f # e => row'[f] = row[f]
      BY <1>1, <2>1, <2>5, <2>6, SettleStep
    <2>8. row'[e].status = "delivered"
      BY <2>2, <2>7, DeliveredFields
    <2>9. UNCHANGED <<asked, accepted>>
      BY <2>6 DEF Settle
    <2> HIDE DEF e
    <2>10. QED
      BY <2>2, <2>3, <2>4, <2>7, <2>8, <2>9
  <1>5. \A t \in Token : Retry(t) => Rest
    <2> SUFFICES ASSUME NEW t \in Token, Retry(t) PROVE Rest
      OBVIOUS
    <2> DEFINE e == call[t].entry
    <2>1. call[t] # Idle /\ call[t] \in Call /\ Holds(t) /\ call[t].result \in Failure
      BY <1>1, Busy DEF Retry
    <2>2. e \in Entry /\ row[e] \in Row
      BY <1>1, <2>1 DEF Call, TypeOK
    <2>3. row[e].status = "leased"
      BY <2>1, <2>2 DEF IInv, LeaseIsFenced, Holds
    <2>4. row[e].wait # Never
      BY <2>2, <2>3 DEF IInv, ParkedIsVisible
    <2>5. PICK after \in RetryAfter : Settle(t, RetriedRow(row[e], call[t], after))
      BY DEF Retry
    <2>6. RetriedRow(row[e], call[t], after) \in Row
      BY <2>1, <2>2, RetriedType
    <2>7. /\ row'[e] = RetriedRow(row[e], call[t], after)
          /\ \A f \in Entry : f # e => row'[f] = row[f]
      BY <1>1, <2>1, <2>5, <2>6, SettleStep
    <2>8. row'[e].status = "pending"
      BY <2>2, <2>7, RetriedFields
    <2>9. UNCHANGED <<asked, accepted>>
      BY <2>5 DEF Settle
    <2> HIDE DEF e
    <2>10. QED
      BY <2>2, <2>3, <2>4, <2>7, <2>8, <2>9
  <1>6. \A t \in Token : SettleStale(t) => Rest
    <2> SUFFICES ASSUME NEW t \in Token, SettleStale(t) PROVE Rest
      OBVIOUS
    <2>1. call[t] # Idle /\ call[t] \in Call
      BY <1>1, Busy DEF SettleStale
    <2>2. row[call[t].entry] \in Row
      BY <1>1, <2>1 DEF Call, TypeOK
    <2>3. Settle(t, row[call[t].entry])
      BY DEF SettleStale
    <2>4. \A f \in Entry : row'[f] = row[f]
      BY <1>1, <2>1, <2>2, <2>3, SettleStep
    <2>5. UNCHANGED <<asked, accepted>>
      BY <2>3 DEF Settle
    <2>6. QED
      BY <2>4, <2>5
  <1>7. \A t \in Token : CallStep(t) => Accepts \/ Acks \/ Rest
    <2> SUFFICES ASSUME NEW t \in Token, CallStep(t) PROVE Accepts \/ Acks \/ Rest
      OBVIOUS
    <2>1. CASE StartDelivery(t) \/ Abandon(t) \/ \E failure \in Failure : Refuse(t, failure)
      BY <2>1 DEF StartDelivery, Abandon, Refuse
    <2>2. CASE \E heard \in BOOLEAN : Accept(t, heard)
      <3>1. call[t].entry \in Entry
        BY <1>1, <2>2, Busy DEF Accept, Call
      <3>2. QED
        BY <2>2, <3>1 DEF Accept
    <2>3. CASE Acknowledge(t) \/ Retry(t) \/ SettleStale(t)
      BY <2>3, <1>4, <1>5, <1>6
    <2>4. QED
      BY <2>1, <2>2, <2>3 DEF CallStep
  <1>8. \A S \in SUBSET Entry : Purge(S) => Rest
    <2> SUFFICES ASSUME NEW S \in SUBSET Entry, Purge(S) PROVE Rest
      OBVIOUS
    <2>1. \A e \in Entry : row'[e] = IF e \in S THEN NoRow ELSE row[e]
      BY DEF Purge
    <2>2. \A e \in S : row[e].status = "delivered" /\ row'[e].status = "absent"
      BY <2>1, NoRowFields DEF Purge, Purgeable
    <2>3. \A e \in S : row[e].wait # Never
      BY <2>2 DEF IInv, ParkedIsVisible
    <2>4. QED
      BY <2>1, <2>2, <2>3 DEF Purge
  <1>9. Tick => Rest
    <2> SUFFICES ASSUME Tick PROVE Rest
      OBVIOUS
    <2>1. \A e \in Entry : row'[e] = Older(row[e]) /\ row[e] \in Row
      BY <1>1 DEF Tick, TypeOK
    <2>2. QED
      BY <2>1, OlderFields DEF Tick
  <1>10. \A e \in Entry : EntryStep(e) => Asks \/ Rest
    <2> SUFFICES ASSUME NEW e \in Entry, EntryStep(e) PROVE Asks \/ Rest
      OBVIOUS
    <2>1. CASE BindRecord(e)
      BY <2>1, <1>2 DEF BindRecord
    <2>2. CASE BindClaim(e)
      <3>1. {e} \in SUBSET Entry /\ "bind" \in Owner
        BY DEF Owner
      <3>2. QED
        BY <2>2, <3>1, <1>3 DEF BindClaim
    <2>3. QED
      BY <2>1, <2>2 DEF EntryStep
  <1>11. \A c \in Client : ClientStep(c) => Asks \/ Rest
    <2> SUFFICES ASSUME NEW c \in Client, ClientStep(c) PROVE Asks \/ Rest
      OBVIOUS
    <2>1. CASE \E e \in Entry : ClientRecord(c, e)
      BY <2>1, <1>2 DEF ClientRecord
    <2>2. CASE ClientClaim(c)
      <3>1. client[c] # Idle
        BY <2>2, <1>1, Busy DEF ClientClaim
      <3>2. {client[c].entry} \in SUBSET Entry /\ c \in Owner
        BY <3>1, <1>1, Busy DEF Calling, Owner
      <3>3. QED
        BY <2>2, <3>2, <1>3 DEF ClientClaim
    <2>3. CASE ClientClaimMiss(c) \/ ClientCheck(c)
      BY <2>3 DEF ClientClaimMiss, ClientCheck
    <2>4. QED
      BY <2>1, <2>2, <2>3 DEF ClientStep
  <1>12. \A S \in SUBSET Entry : CronClaim(S) => Rest
    <2>1. "cron" \in Owner
      BY DEF Owner
    <2>2. QED
      BY <2>1, <1>3 DEF CronClaim
  <1>13. UNCHANGED vars => Rest
    BY DEF vars
  <1> HIDE DEF Asks, Accepts, Acks, Rest
  <1>14. Asks \/ Accepts \/ Acks \/ Rest
    BY <1>7, <1>8, <1>9, <1>10, <1>11, <1>12, <1>13 DEF Next
  <1>15. QED
    BY <1>14 DEF Asks, Accepts, Acks, Rest

\* Only a new request takes a row out of the park.
THEOREM ParkedStays == Spec => ParkedUntilAsked
  <1> DEFINE Stays == \A e \in Entry :
                row[e].wait = Never => row'[e].wait = Never \/ asked'[e] > asked[e]
  <1>1. IInv /\ [Next]_vars => [Stays]_vars
    <2> SUFFICES ASSUME IInv, [Next]_vars, NEW e \in Entry, row[e].wait = Never
                 PROVE  row'[e].wait = Never \/ asked'[e] > asked[e]
      OBVIOUS
    <2>1. asked[e] \in Nat /\ DOMAIN asked = Entry
      BY DEF IInv, TypeOK
    <2>2. QED
      BY <2>1, StepShape
  <1>2. QED
    BY <1>1, InductiveInvariant, PTL DEF Spec, ParkedUntilAsked

\* The outbox implements EntrySyncPromise: a request stays owed until Data
\* has accepted a job at least as young.
THEOREM Refinement == Spec => KeepsPromise
  <1>1. Init => Promise!PromiseInit
    <2> SUFFICES ASSUME Init PROVE Promise!PromiseInit
      OBVIOUS
    <2>1. \A e \in Entry : (row[e].status \in {"pending", "leased"}) = FALSE
      BY NoRowFields DEF Init
    <2>2. Owed = [e \in Entry |-> FALSE]
      BY <2>1, Zenon DEF Owed
    <2>3. QED
      BY <2>2 DEF Init, Promise!PromiseInit
  <1>2. IInv /\ [Next]_vars => [Promise!PromiseNext]_(Promise!promiseVars)
    <2> SUFFICES ASSUME IInv, [Next]_vars
                 PROVE  Promise!PromiseNext \/ UNCHANGED <<Owed, asked, accepted>>
      BY DEF Promise!promiseVars
    <2>1. CASE \E e \in Entry :
                /\ asked' = [asked EXCEPT ![e] = @ + 1] /\ UNCHANGED accepted
                /\ row'[e].status = "pending"
                /\ \A f \in Entry : f # e => row'[f] = row[f]
      <3>1. PICK e \in Entry :
                /\ asked' = [asked EXCEPT ![e] = @ + 1] /\ UNCHANGED accepted
                /\ row'[e].status = "pending"
                /\ \A f \in Entry : f # e => row'[f] = row[f]
        BY <2>1
      <3>2. Owed' = [Owed EXCEPT ![e] = TRUE]
        BY <3>1 DEF Owed
      <3>3. Promise!Ask(e)
        BY <3>1, <3>2 DEF Promise!Ask
      <3>4. QED
        BY <3>3 DEF Promise!PromiseNext
    <2>2. CASE \E e \in Entry :
                /\ accepted' = [accepted EXCEPT ![e] = asked[e]] /\ UNCHANGED <<row, asked>>
      <3>1. PICK e \in Entry :
                /\ accepted' = [accepted EXCEPT ![e] = asked[e]] /\ UNCHANGED <<row, asked>>
        BY <2>2
      <3>2. Owed' = Owed
        BY <3>1 DEF Owed
      <3>3. Promise!Accept(e)
        BY <3>1, <3>2 DEF Promise!Accept
      <3>4. QED
        BY <3>3 DEF Promise!PromiseNext
    <2>3. CASE \E e \in Entry :
                /\ UNCHANGED <<asked, accepted>>
                /\ row[e].status = "leased" /\ row'[e].status = "delivered"
                /\ accepted[e] = asked[e] /\ row[e].wait # Never
                /\ \A f \in Entry : f # e => row'[f] = row[f]
      <3>1. PICK e \in Entry :
                /\ UNCHANGED <<asked, accepted>>
                /\ row[e].status = "leased" /\ row'[e].status = "delivered"
                /\ accepted[e] = asked[e]
                /\ \A f \in Entry : f # e => row'[f] = row[f]
        BY <2>3
      <3>2. Owed[e]
        BY <3>1 DEF Owed
      <3>3. Owed' = [Owed EXCEPT ![e] = FALSE]
        <4>1. (row'[e].status \in {"pending", "leased"}) = FALSE
          BY <3>1
        <4>2. \A f \in Entry : (row'[f].status \in {"pending", "leased"})
                    = IF f = e THEN FALSE ELSE row[f].status \in {"pending", "leased"}
          BY <3>1, <4>1, Zenon
        <4>3. QED
          BY <4>2, Zenon DEF Owed
      <3>4. Promise!Acknowledge(e)
        BY <3>1, <3>2, <3>3 DEF Promise!Acknowledge
      <3>5. QED
        BY <3>4 DEF Promise!PromiseNext
    <2>4. CASE /\ UNCHANGED <<asked, accepted>>
               /\ \A e \in Entry : (row'[e].status \in {"pending", "leased"})
                                     = (row[e].status \in {"pending", "leased"})
      BY <2>4 DEF Owed
    <2>5. QED
      BY <2>1, <2>2, <2>3, <2>4, StepShape
  <1>3. QED
    BY <1>1, <1>2, InductiveInvariant, PTL DEF Spec, KeepsPromise, Promise!PromiseSpec
=============================================================================
