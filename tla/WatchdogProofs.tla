--------------------------- MODULE WatchdogProofs ---------------------------
(***************************************************************************)
(* Proofs about Watchdog: what each step does to the run that takes it,    *)
(* that the types are kept, and that an early edit of DNS wins, whatever   *)
(* the runs, edits and faults are.                                         *)
(***************************************************************************)
EXTENDS Watchdog, TLAPS

-----------------------------------------------------------------------------
(* What a step does to the run that takes it.                              *)

Assumptions == CoordinatorAssumption /\ WatchdogAssumption

RunState == {Idle} \cup Invocation

\* Only run r moves ...
OthersStay(r) == run' \in [Run -> RunState] /\ \A s \in Run \ {r} : run'[s] = run[s]

\* ... on to a phase, or to what is left to do.
Moves(r, phase) ==
    /\ OthersStay(r) /\ run'[r] \in Invocation
    /\ run'[r].phase = phase /\ run'[r].raw = run[r].raw
Goes(r, phase) == Moves(r, phase) /\ run'[r].state = run[r].state
Stops(r) == OthersStay(r) /\ run'[r] = Idle
Settles(r, state, key, todo) ==
    /\ Moves(r, "end") /\ run'[r].state = state /\ run'[r].key = key /\ run'[r].todo = todo

LEMMA IdleIsNone == Idle \notin Invocation /\ Idle.phase = "idle" /\ "idle" \notin Phase
BY DEF Idle, Invocation, Phase, Verdict

LEMMA Busy ==
    ASSUME TypeOK, NEW r \in Run, run[r] # Idle \/ run[r].phase # "idle"
    PROVE  run[r] \in Invocation
BY IdleIsNone DEF TypeOK

\* The fields of a run, one at a time.
LEMMA Fields ==
    ASSUME NEW x \in Invocation
    PROVE  /\ x.phase \in Phase /\ x.raw \in Stored /\ x.state \in Stored
           /\ x.key \in AlertKey /\ x.todo \in Seq(Step) /\ x.old \in Coordinator
BY DEF Invocation

LEMMA OneRun ==
    ASSUME TypeOK, NEW r \in Run, NEW x \in RunState, run' = [run EXCEPT ![r] = x]
    PROVE  OthersStay(r) /\ run'[r] = x
BY DEF TypeOK, RunState, OthersStay

LEMMA GoEffect ==
    ASSUME TypeOK, NEW r \in Run, run[r] \in Invocation, NEW phase \in Phase, Go(r, phase)
    PROVE  Goes(r, phase)
<1> DEFINE x == [run[r] EXCEPT !.phase = phase]
<1>1. run' = [run EXCEPT ![r] = x]
  BY DEF Go
<1>2. x \in Invocation
  BY DEF Invocation
<1>3. x.phase = phase /\ x.raw = run[r].raw /\ x.state = run[r].state
  BY DEF Invocation
<1> HIDE DEF x
<1>4. OthersStay(r) /\ run'[r] = x
  BY <1>1, <1>2, OneRun DEF RunState
<1> QED
  BY <1>2, <1>3, <1>4 DEF Goes, Moves

LEMMA QuitEffect ==
    ASSUME TypeOK, NEW r \in Run, Quit(r)
    PROVE  Stops(r)
BY OneRun DEF Quit, RunState, Stops

LEMMA ClearedType == ASSUME Assumptions, NEW n \in 0..Threshold PROVE Cleared(n) \in Coordinator
BY DEF Cleared, Coordinator, Assumptions, CoordinatorAssumption

LEMMA FinishEffect ==
    ASSUME Assumptions, TypeOK, NEW r \in Run, run[r] \in Invocation, NEW state \in Stored,
           NEW key \in AlertKey, NEW todo \in Seq(Step), Finish(r, state, key, todo)
    PROVE  Settles(r, state, key, todo)
<1> DEFINE x == [run[r] EXCEPT !.phase = "end", !.state = state, !.key = key,
                               !.todo = todo, !.old = Cleared(0)]
<1>1. run' = [run EXCEPT ![r] = x]
  BY DEF Finish
<1>2. Cleared(0) \in Coordinator
  BY ClearedType DEF Assumptions, CoordinatorAssumption
<1>3. "end" \in Phase
  BY DEF Phase
<1>4. x \in Invocation
  BY <1>2, <1>3 DEF Invocation
<1>5. /\ x.phase = "end" /\ x.raw = run[r].raw /\ x.state = state
      /\ x.key = key /\ x.todo = todo
  BY DEF Invocation
<1> HIDE DEF x
<1>6. OthersStay(r) /\ run'[r] = x
  BY <1>1, <1>4, OneRun DEF RunState
<1> QED
  BY <1>4, <1>5, <1>6 DEF Settles, Moves

\* The ways a run ends.
Endings == {<<"save">>, <<"stamp">>, <<"alert", "save">>, <<"alert", "confirm", "save">>,
            <<"confirm", "save">>, <<"stamp", "alert", "stamp">>, <<"alert", "stamp">>,
            <<"stamp", "alert", "stamp", "release">>, <<"alert", "stamp", "release">>,
            <<"stamp", "release">>, <<"release">>,
            <<"stamp", "alert", "stamp", "confirm">>, <<"alert", "stamp", "confirm">>,
            <<"stamp", "confirm">>, <<"confirm">>}

LEMMA EndingTypes == Endings \subseteq Seq(Step) /\ <<>> \notin Endings
BY DEF Endings, Step

LEMMA DoneEffect ==
    ASSUME TypeOK, NEW r \in Run, At(r, "end"), run[r] \in Invocation,
           run[r].todo # <<>>, NEW state \in Stored, Done(r, state)
    PROVE  IF Tail(run[r].todo) = <<>> THEN Stops(r)
           ELSE Settles(r, state, run[r].key, Tail(run[r].todo))
<1> DEFINE x == [run[r] EXCEPT !.todo = Tail(run[r].todo), !.state = state]
<1>1. run' = [run EXCEPT ![r] = IF Tail(run[r].todo) = <<>> THEN Idle ELSE x]
  BY DEF Done, TypeOK
<1>2. Tail(run[r].todo) \in Seq(Step)
  BY Fields
<1>3. x \in Invocation
  BY <1>2 DEF Invocation
<1>4. /\ x.phase = run[r].phase /\ x.raw = run[r].raw /\ x.state = state
      /\ x.key = run[r].key /\ x.todo = Tail(run[r].todo)
  BY DEF Invocation
<1> HIDE DEF x
<1>5. CASE Tail(run[r].todo) = <<>>
  BY <1>1, <1>5, OneRun DEF RunState, Stops
<1>6. CASE Tail(run[r].todo) # <<>>
  <2>1. OthersStay(r) /\ run'[r] = x
    BY <1>1, <1>3, <1>6, OneRun DEF RunState
  <2> QED
    BY <1>3, <1>4, <1>6, <2>1 DEF Settles, Moves, At
<1> QED
  BY <1>5, <1>6

LEMMA StartEffect ==
    ASSUME Assumptions, TypeOK, NEW r \in Run, Start(r)
    PROVE  /\ OthersStay(r) /\ run'[r] \in Invocation /\ run'[r].phase = "look"
           /\ run'[r].raw = kv /\ run'[r].state = kv
<1> DEFINE x == [phase |-> "look", raw |-> kv, state |-> kv, key |-> "none",
                 todo |-> <<>>, old |-> Cleared(0)]
<1>1. run' = [run EXCEPT ![r] = x]
  BY DEF Start
<1>2. Cleared(0) \in Coordinator
  BY ClearedType DEF Assumptions, CoordinatorAssumption
<1>3. kv \in Stored /\ "look" \in Phase /\ "none" \in AlertKey /\ <<>> \in Seq(Step)
  BY DEF TypeOK, Phase, AlertKey
<1>4. x \in Invocation
  BY <1>2, <1>3 DEF Invocation
<1>5. x.phase = "look" /\ x.raw = kv /\ x.state = kv
  OBVIOUS
<1> HIDE DEF x
<1> QED
  BY <1>1, <1>4, <1>5, OneRun DEF RunState

LEMMA FlushEffect ==
    ASSUME TypeOK, NEW r \in Run, run[r] \in Invocation,
           run' = [run EXCEPT ![r].phase = "flush", ![r].state.resetPending = FALSE]
    PROVE  Moves(r, "flush") /\ run'[r].state = Owing(r, FALSE)
<1> DEFINE x == [run[r] EXCEPT !.phase = "flush", !.state = Owing(r, FALSE)]
<1>1. run' = [run EXCEPT ![r] = x]
  BY DEF Owing, TypeOK, Invocation, Stored
<1>2. Owing(r, FALSE) \in Stored
  BY DEF Owing, Invocation, Stored
<1>3. "flush" \in Phase
  BY DEF Phase
<1>4. x \in Invocation
  BY <1>2, <1>3 DEF Invocation
<1>5. x.phase = "flush" /\ x.raw = run[r].raw /\ x.state = Owing(r, FALSE)
  BY DEF Invocation
<1> HIDE DEF x
<1> QED
  BY <1>1, <1>4, <1>5, OneRun DEF RunState, Moves

LEMMA BegunEffect ==
    ASSUME TypeOK, NEW r \in Run, run[r] \in Invocation, NEW phase \in Phase,
           NEW c \in Coordinator,
           run' = [run EXCEPT ![r].phase = phase, ![r].old = c]
    PROVE  Goes(r, phase) /\ run'[r].old = c
<1> DEFINE x == [run[r] EXCEPT !.phase = phase, !.old = c]
<1>1. run' = [run EXCEPT ![r] = x]
  BY DEF TypeOK
<1>2. x \in Invocation
  BY DEF Invocation
<1>3. x.phase = phase /\ x.raw = run[r].raw /\ x.state = run[r].state /\ x.old = c
  BY DEF Invocation
<1> HIDE DEF x
<1> QED
  BY <1>1, <1>2, <1>3, OneRun DEF RunState, Goes, Moves

LEMMA OlderType == ASSUME Assumptions, NEW c \in Coordinator PROVE Older(c) \in Coordinator
<1> USE DEF Assumptions, CoordinatorAssumption
<1> DEFINE claimAge == IF c.claim # NoToken /\ c.claimAge < ClaimTtl
                       THEN c.claimAge + 1 ELSE c.claimAge
           mutationAge == IF c.mutation # NoToken /\ c.mutationAge < MutationTtl
                          THEN c.mutationAge + 1 ELSE c.mutationAge
<1>1. claimAge \in 0..ClaimTtl /\ mutationAge \in 0..MutationTtl
  BY DEF Coordinator
<1>2. Older(c) = [c EXCEPT !.claimAge = claimAge, !.mutationAge = mutationAge]
  BY DEF Older, Coordinator
<1> HIDE DEF claimAge, mutationAge
<1> QED
  BY <1>1, <1>2 DEF Coordinator

\* What the coordinator stores.
LEMMA CoordinatorTypes ==
    ASSUME Assumptions, NEW c \in Coordinator, NEW r \in Run
    PROVE  /\ AfterReset(c) \in Coordinator /\ AfterFailure(c, r) \in Coordinator
           /\ AfterConfirm(c) \in Coordinator /\ AfterRelease(c) \in Coordinator
           /\ AfterBegin(c, r) \in Coordinator
<1> USE DEF Assumptions, CoordinatorAssumption
<1>1. Cleared(0) \in Coordinator /\ Cleared(c.count) \in Coordinator
  BY ClearedType DEF Coordinator
<1>2. Cleared(NextCount(c)) \in Coordinator
  <2>1. NextCount(c) \in 0..Threshold
    BY DEF NextCount, Coordinator
  <2> QED
    BY <2>1, ClearedType
<1>3. AfterFailure(c, r) \in Coordinator
  BY <1>2 DEF AfterFailure, Coordinator
<1>4. AfterBegin(c, r) \in Coordinator
  <2>1. 0 \in 0..MutationTtl /\ r \in Run \cup {NoToken}
    OBVIOUS
  <2> QED
    BY <2>1 DEF AfterBegin, Coordinator
<1> QED
  BY <1>1, <1>3, <1>4 DEF AfterReset, AfterConfirm, AfterRelease

\* What a run puts into its copy of the KV entry.
LEMMA StateTypes ==
    ASSUME TypeOK, NEW r \in Run, run[r] \in Invocation, NEW b \in BOOLEAN, NEW key \in AlertKey
    PROVE  /\ Owing(r, b) \in Stored /\ Owing(r, b).resetPending = b
           /\ Owing(r, b).alert = run[r].state.alert
           /\ Sent(key) \in Alert /\ Pending(key) \in Alert /\ NoAlert \in Alert
           /\ Raised(r, key) \in {Sent(key), Pending(key)}
           /\ \A alert \in Alert : Alerting(r, b, alert) \in Stored
BY DEF Invocation, Stored, Owing, Sent, Pending, NoAlert, Raised, Alert, AlertKey, Alerting

-----------------------------------------------------------------------------
(* Each step of a run keeps the types, and moves that run only.            *)

Spends == Works \/ (budget > 0 /\ budget' = budget - 1)

\* What a step of run r leaves true of the types.
Kept(r) == OthersStay(r) /\ Spends

LEMMA KeptRuns ==
    ASSUME Spends, NEW r \in Run
    PROVE  /\ \A phase : Goes(r, phase) => Kept(r)
           /\ \A state, key, todo : Settles(r, state, key, todo) => Kept(r)
           /\ Stops(r) => Kept(r)
BY DEF Kept, Goes, Settles, Stops, Moves

LEMMA KeptTypes ==
    ASSUME Assumptions, TypeOK, NEW r \in Run, Kept(r),
           dns' \in Dns, coord' \in Coordinator, kv' \in Stored,
           seen' \in Checks, said' \in Alerts
    PROVE  TypeOK'
<1>1. budget' \in 0..MaxFaults
  BY DEF TypeOK, Kept, Spends, Works, Assumptions, WatchdogAssumption
<1>2. run' \in [Run -> {Idle} \cup Invocation]
  BY DEF Kept, OthersStay, RunState
<1> QED
  BY <1>1, <1>2 DEF TypeOK

LEMMA QuietTypes ==
    ASSUME Assumptions, TypeOK, NEW r \in Run, Kept(r), coord' \in Coordinator, Quiet
    PROVE  TypeOK'
BY KeptTypes DEF Quiet, TypeOK

\* What a step may say: nothing, less or more of what was said before, or an alert.
Says(key) ==
    \/ UNCHANGED said \/ Forgotten \/ Excused
    \/ said' = Told(key) \/ said' = [Told(key) EXCEPT !.excuses = @ + 1]

\* What Telegram has accepted, field by field.
LEMMA ToldFields ==
    ASSUME said \in Alerts, NEW key \in AlertKey
    PROVE  /\ Told(key) \in Alerts
           /\ Told(key).last = key
           /\ Told(key).repeated = (said.repeated \/ (key = said.last /\ said.excuses = 0))
<1> DEFINE announced == said.announced \/ key \in TellsOfChange
           excuses == IF key = said.last /\ said.excuses > 0 THEN said.excuses - 1 ELSE 0
           repeated == said.repeated \/ (key = said.last /\ said.excuses = 0)
<1>1. Told(key) = [announced |-> announced, last |-> key, excuses |-> excuses,
                   repeated |-> repeated]
  BY DEF Told
<1>2. said.excuses \in Nat
  BY DEF Alerts
<1>3. announced \in BOOLEAN /\ excuses \in Nat /\ repeated \in BOOLEAN
  <2>1. excuses \in Nat
    BY <1>2
  <2> QED
    BY <2>1
<1> HIDE DEF announced, excuses
<1>4. Told(key) \in Alerts /\ Told(key).last = key /\ Told(key).repeated = repeated
  <2> HIDE DEF repeated
  <2> QED
    BY <1>1, <1>3 DEF Alerts
<1> QED
  BY <1>4

LEMMA SaidType ==
    ASSUME said \in Alerts, NEW key \in AlertKey, Says(key)
    PROVE  said' \in Alerts
<1>1. CASE Forgotten
  <2>1. "none" \in AlertKey
    BY DEF AlertKey
  <2> QED
    BY <1>1, <2>1 DEF Forgotten, Alerts
<1>2. CASE Excused
  BY <1>2 DEF Excused, Alerts
<1>3. CASE said' = Told(key)
  BY <1>3, ToldFields
<1>4. CASE said' = [Told(key) EXCEPT !.excuses = @ + 1]
  BY <1>4, ToldFields DEF Alerts
<1> QED
  BY <1>1, <1>2, <1>3, <1>4 DEF Says

LEMMA SaidTypes ==
    ASSUME Assumptions, TypeOK, NEW r \in Run, Kept(r), coord' \in Coordinator,
           UNCHANGED <<dns, seen>>, kv' \in Stored, NEW key \in AlertKey, Says(key)
    PROVE  TypeOK'
<1>1. said' \in Alerts
  BY SaidType DEF TypeOK
<1> QED
  BY <1>1, KeptTypes DEF TypeOK

LEMMA StartTypes == ASSUME Assumptions, TypeOK, NEW r \in Run, Start(r) PROVE Kept(r) /\ TypeOK'
<1>1. Kept(r)
  BY StartEffect DEF Kept, Start, Spends
<1>2. seen' \in Checks
  BY DEF Start, TypeOK, Checks
<1> QED
  BY <1>1, <1>2, KeptTypes DEF TypeOK, Start

LEMMA LookMoves ==
    ASSUME Assumptions, TypeOK, NEW r \in Run, Look(r)
    PROVE  /\ Kept(r) /\ UNCHANGED coord /\ Quiet
           /\ \/ Goes(r, IF FellBack THEN "standby"
                         ELSE IF dns.regional = "edge" /\ dns.default THEN "probe"
                         ELSE "manual")
              \/ Stops(r)
<1>1. run[r] \in Invocation
  BY Busy DEF Look, At
<1>2. {"standby", "probe", "manual"} \subseteq Phase
  BY DEF Phase
<1> QED
  BY <1>1, <1>2, GoEffect, QuitEffect DEF Look, Kept, Goes, Moves, Stops, Spends, Breaks

LEMMA StandbyMoves ==
    ASSUME Assumptions, TypeOK, NEW r \in Run, Standby(r)
    PROVE  /\ Kept(r) /\ UNCHANGED coord /\ Quiet
           /\ Goes(r, "already") \/ Goes(r, "active")
<1>1. run[r] \in Invocation
  BY Busy DEF Standby, At
<1>2. {"already", "active"} \subseteq Phase
  BY DEF Phase
<1> QED
  BY <1>1, <1>2, GoEffect DEF Standby, Kept, Goes, Moves, Spends

LEMMA ProbeMoves ==
    ASSUME Assumptions, TypeOK, NEW r \in Run, Probe(r)
    PROVE  /\ Kept(r) /\ UNCHANGED <<dns, coord, kv, said>>
           /\ \E verdict \in Verdicts : Goes(r, verdict) /\ seen' = Observed(verdict)
<1>1. run[r] \in Invocation
  BY Busy DEF Probe, At
<1>2. Verdicts \subseteq Phase
  BY DEF Phase, Assumptions, WatchdogAssumption
<1> QED
  BY <1>1, <1>2, GoEffect DEF Probe, Kept, Goes, Moves, Spends

LEMMA ObservedType ==
    ASSUME Assumptions, TypeOK, NEW verdict \in Verdicts
    PROVE  /\ Observed(verdict) \in Checks
           /\ Observed(verdict).late = seen.late
           /\ verdict = "failing" => /\ Observed(verdict).sinceHealthy > 0
                                     /\ \/ Observed(verdict).sinceHealthy = Threshold
                                        \/ Observed(verdict).sinceHealthy = seen.sinceHealthy + 1
           /\ verdict \in {"both", "unsafe"} => Observed(verdict).sinceHealthy = seen.sinceHealthy
<1> DEFINE More(n) == IF n < Threshold THEN n + 1 ELSE n
           inRow == IF verdict = "failing" THEN More(seen.inRow) ELSE 0
           since == CASE verdict = "failing" -> More(seen.sinceHealthy)
                      [] verdict = "healthy" -> 0
                      [] OTHER -> seen.sinceHealthy
<1>1. seen \in Checks /\ Threshold \in Nat \ {0} /\ verdict \in Verdict
  BY DEF TypeOK, Assumptions, CoordinatorAssumption, WatchdogAssumption
<1>2. inRow \in 0..Threshold
  BY <1>1 DEF Checks
<1>3. /\ since \in 0..Threshold
      /\ verdict = "failing" => since > 0 /\ (since = Threshold \/ since = seen.sinceHealthy + 1)
      /\ verdict \in {"both", "unsafe"} => since = seen.sinceHealthy
  BY <1>1 DEF Checks
<1>4. Observed(verdict) = [seen EXCEPT !.last = verdict, !.inRow = inRow, !.sinceHealthy = since]
  BY <1>1 DEF Observed, Checks
<1> HIDE DEF inRow, since
<1>5. Observed(verdict) \in Checks
  BY <1>1, <1>2, <1>3, <1>4 DEF Checks
<1>6. Observed(verdict).late = seen.late /\ Observed(verdict).sinceHealthy = since
  BY <1>1, <1>4 DEF Checks
<1> QED
  BY <1>3, <1>5, <1>6

LEMMA HealthyMoves ==
    ASSUME Assumptions, TypeOK, NEW r \in Run, Healthy(r)
    PROVE  /\ Kept(r) /\ UNCHANGED <<dns, kv, seen>>
           /\ \/ /\ coord' = AfterReset(coord)
                 /\ IF MutationFresh(coord)
                    THEN Settles(r, Owing(r, FALSE), "none", <<"save">>) /\ UNCHANGED said
                    ELSE Settles(r, Alerting(r, FALSE, NoAlert), "none", <<"save">>) /\ Forgotten
              \/ /\ Unanswered(AfterReset(coord)) /\ UNCHANGED said
                 /\ Settles(r, Owing(r, TRUE), "none", <<"save">>)
<1>1. run[r] \in Invocation
  BY Busy DEF Healthy, At
<1>2. "none" \in AlertKey /\ <<"save">> \in Endings
  BY DEF AlertKey, Endings
<1>3. /\ Owing(r, FALSE) \in Stored /\ Owing(r, TRUE) \in Stored
      /\ Alerting(r, FALSE, NoAlert) \in Stored
  BY <1>1, <1>2, StateTypes
<1>4. Spends
  BY DEF Healthy, Spends, Unanswered, Breaks
<1> QED
  BY <1>1, <1>2, <1>3, <1>4, FinishEffect, EndingTypes DEF Healthy, Kept, Settles, Moves

LEMMA BothUnhealthyMoves ==
    ASSUME Assumptions, TypeOK, NEW r \in Run, BothUnhealthy(r)
    PROVE  /\ Kept(r) /\ Quiet
           /\ \/ /\ coord' = AfterReset(coord)
                 /\ Settles(r, Owing(r, FALSE), "both", <<"alert", "save">>)
              \/ Unanswered(AfterReset(coord)) /\ Stops(r)
<1>1. run[r] \in Invocation
  BY Busy DEF BothUnhealthy, At
<1>2. "both" \in AlertKey /\ <<"alert", "save">> \in Endings
  BY DEF AlertKey, Endings
<1>3. Owing(r, FALSE) \in Stored
  BY <1>1, <1>2, StateTypes
<1>4. Spends
  BY DEF BothUnhealthy, Spends, Unanswered, Breaks
<1> QED
  BY <1>1, <1>2, <1>3, <1>4, FinishEffect, QuitEffect, EndingTypes
  DEF BothUnhealthy, Kept, Settles, Moves, Stops

LEMMA CallOperatorMoves ==
    ASSUME Assumptions, TypeOK, NEW r \in Run, run[r] \in Invocation,
           NEW key \in AlertKey, NEW failedKey \in AlertKey, CallOperator(r, key, failedKey)
    PROVE  /\ Kept(r)
           /\ \/ /\ coord' = AfterReset(coord)
                 /\ Settles(r, Owing(r, FALSE), key, <<"alert", "save">>)
              \/ /\ Unanswered(AfterReset(coord))
                 /\ Settles(r, Owing(r, TRUE), failedKey, <<"alert", "save">>)
<1>1. <<"alert", "save">> \in Endings
  BY DEF Endings
<1>2. Owing(r, FALSE) \in Stored /\ Owing(r, TRUE) \in Stored
  BY StateTypes
<1>3. Spends
  BY DEF CallOperator, Spends, Unanswered, Breaks
<1> QED
  BY <1>1, <1>2, <1>3, FinishEffect, EndingTypes DEF CallOperator, Kept, Settles, Moves

LEMMA CallMoves ==
    ASSUME Assumptions, TypeOK, NEW r \in Run, UnsafeFallback(r) \/ ManualDns(r)
    PROVE  /\ Kept(r) /\ Quiet
           /\ \E key \in AlertKey \ {"none", "fallback"} :
                \/ /\ coord' = AfterReset(coord)
                   /\ Settles(r, Owing(r, FALSE), key, <<"alert", "save">>)
                \/ /\ Unanswered(AfterReset(coord))
                   /\ Settles(r, Owing(r, TRUE), key, <<"alert", "save">>)
<1>1. {"unsafe", "unsafe-reset-failed", "manual", "manual-reset-failed"}
        \subseteq AlertKey \ {"none", "fallback"}
  BY DEF AlertKey
<1>2. run[r] \in Invocation
  BY Busy DEF UnsafeFallback, ManualDns, At
<1>3. CASE UnsafeFallback(r)
  BY <1>1, <1>2, <1>3, CallOperatorMoves DEF UnsafeFallback
<1>4. CASE ManualDns(r)
  BY <1>1, <1>2, <1>4, CallOperatorMoves DEF ManualDns
<1> QED
  BY <1>3, <1>4

LEMMA ActiveFallbackMoves ==
    ASSUME Assumptions, TypeOK, NEW r \in Run, ActiveFallbackUnhealthy(r)
    PROVE  /\ Kept(r) /\ UNCHANGED coord /\ Quiet
           /\ Settles(r, Owing(r, FALSE), "active", <<"alert", "confirm", "save">>)
<1>1. run[r] \in Invocation
  BY Busy DEF ActiveFallbackUnhealthy, At
<1>2. "active" \in AlertKey /\ <<"alert", "confirm", "save">> \in Endings
  BY DEF AlertKey, Endings
<1>3. Owing(r, FALSE) \in Stored
  BY <1>1, <1>2, StateTypes
<1>4. Settles(r, Owing(r, FALSE), "active", <<"alert", "confirm", "save">>)
  BY <1>1, <1>2, <1>3, FinishEffect, EndingTypes DEF ActiveFallbackUnhealthy
<1>5. Spends
  BY DEF ActiveFallbackUnhealthy, Spends
<1> QED
  BY <1>4, <1>5, KeptRuns DEF ActiveFallbackUnhealthy

LEMMA AlreadyFallbackMoves ==
    ASSUME Assumptions, TypeOK, NEW r \in Run, AlreadyFallback(r)
    PROVE  /\ Kept(r) /\ UNCHANGED coord /\ Quiet
           /\ \/ /\ FellBack
                 /\ Settles(r, Owing(r, FALSE), AlreadyKey(r), <<"alert", "confirm", "save">>)
              \/ ~FellBack /\ Goes(r, "manual")
              \/ Stops(r)
<1>1. run[r] \in Invocation
  BY Busy DEF AlreadyFallback, At
<1>2. /\ <<"alert", "confirm", "save">> \in Endings /\ "manual" \in Phase
      /\ "none" \in AlertKey
  BY DEF Endings, Phase, AlertKey
<1>3. Owing(r, FALSE) \in Stored
  BY <1>1, <1>2, StateTypes
<1>4. AlreadyKey(r) \in AlertKey
  <2>1. run[r].state \in Stored
    BY <1>1, Fields
  <2>2. "fallback" \in AlertKey
    BY DEF AlertKey
  <2> QED
    BY <2>1, <2>2 DEF AlreadyKey, Stored, Alert
<1>5. Spends
  BY DEF AlreadyFallback, Spends, Breaks
<1>6. CASE FellBack /\ Finish(r, Owing(r, FALSE), AlreadyKey(r), <<"alert", "confirm", "save">>)
  <2>1. Settles(r, Owing(r, FALSE), AlreadyKey(r), <<"alert", "confirm", "save">>)
    BY <1>1, <1>2, <1>3, <1>4, <1>6, FinishEffect, EndingTypes
  <2> QED
    BY <1>5, <1>6, <2>1, KeptRuns DEF AlreadyFallback
<1>7. CASE ~FellBack /\ Go(r, "manual")
  <2>1. Goes(r, "manual")
    BY <1>1, <1>2, <1>7, GoEffect
  <2> QED
    BY <1>5, <1>7, <2>1, KeptRuns DEF AlreadyFallback
<1>8. CASE Breaks("dnspod") /\ Quit(r)
  BY <1>5, <1>8, QuitEffect, KeptRuns DEF AlreadyFallback
<1> QED
  BY <1>6, <1>7, <1>8 DEF AlreadyFallback

LEMMA FlushResetMoves ==
    ASSUME Assumptions, TypeOK, NEW r \in Run, FlushReset(r)
    PROVE  /\ Kept(r) /\ Quiet
           /\ \/ /\ ~run[r].state.resetPending /\ Goes(r, "count") /\ UNCHANGED coord
              \/ /\ run[r].state.resetPending /\ coord' = AfterReset(coord)
                 /\ IF MutationFresh(coord)
                    THEN Settles(r, run[r].state, "none", <<"save">>)
                    ELSE Moves(r, "flush") /\ run'[r].state = Owing(r, FALSE)
              \/ /\ run[r].state.resetPending /\ Unanswered(AfterReset(coord))
                 /\ Settles(r, run[r].state, "none", <<"save">>)
<1> DEFINE flushes == run' = [run EXCEPT ![r].phase = "flush", ![r].state.resetPending = FALSE]
           saves == Finish(r, run[r].state, "none", <<"save">>)
<1>1. run[r] \in Invocation
  BY Busy DEF FlushReset, At
<1>2. "none" \in AlertKey /\ <<"save">> \in Endings /\ "count" \in Phase /\ run[r].state \in Stored
  BY <1>1, Fields DEF AlertKey, Endings, Phase
<1>3. Spends
  BY DEF FlushReset, Spends, Unanswered, Breaks
<1>4. saves => Settles(r, run[r].state, "none", <<"save">>)
  BY <1>1, <1>2, FinishEffect, EndingTypes
<1>5. Go(r, "count") => Goes(r, "count")
  BY <1>1, <1>2, GoEffect
<1>6. flushes => Moves(r, "flush") /\ run'[r].state = Owing(r, FALSE)
  BY <1>1, FlushEffect
<1>7. \/ ~run[r].state.resetPending /\ Go(r, "count") /\ UNCHANGED coord
      \/ /\ run[r].state.resetPending /\ coord' = AfterReset(coord)
         /\ IF MutationFresh(coord) THEN saves ELSE flushes
      \/ run[r].state.resetPending /\ Unanswered(AfterReset(coord)) /\ saves
  BY DEF FlushReset
<1>8. Moves(r, "flush") => Kept(r)
  BY <1>3 DEF Moves, Kept
<1> HIDE DEF flushes, saves
<1>9. Quiet
  BY DEF FlushReset
<1> QED
  BY <1>3, <1>4, <1>5, <1>6, <1>7, <1>8, <1>9, KeptRuns

LEMMA FlushSaveMoves ==
    ASSUME Assumptions, TypeOK, NEW r \in Run, FlushSave(r)
    PROVE  /\ Kept(r) /\ UNCHANGED <<dns, coord, seen, said>>
           /\ \/ kv' = run[r].state /\ Goes(r, "count")
              \/ /\ Breaks("kv") /\ UNCHANGED kv
                 /\ Settles(r, run[r].state, "none", <<"save">>)
<1>1. run[r] \in Invocation
  BY Busy DEF FlushSave, At
<1>2. "none" \in AlertKey /\ <<"save">> \in Endings /\ "count" \in Phase /\ run[r].state \in Stored
  BY <1>1, Fields DEF AlertKey, Endings, Phase
<1>3. Spends
  BY DEF FlushSave, Spends, Breaks
<1>4. Finish(r, run[r].state, "none", <<"save">>) => Settles(r, run[r].state, "none", <<"save">>)
  BY <1>1, <1>2, FinishEffect, EndingTypes
<1>5. Go(r, "count") => Goes(r, "count")
  BY <1>1, <1>2, GoEffect
<1> QED
  BY <1>3, <1>4, <1>5, KeptRuns DEF FlushSave

LEMMA RecordFailureMoves ==
    ASSUME Assumptions, TypeOK, NEW r \in Run, RecordFailure(r)
    PROVE  /\ Kept(r) /\ UNCHANGED <<dns, kv, seen>>
           /\ \/ /\ coord' = AfterFailure(coord, r) /\ ShouldFailover(coord)
                 /\ Goes(r, "record") /\ UNCHANGED said
              \/ /\ coord' = AfterFailure(coord, r) /\ Held(coord)
                 /\ Settles(r, Owing(r, FALSE), "none", <<"stamp">>) /\ UNCHANGED said
              \/ /\ coord' = AfterFailure(coord, r)
                 /\ Settles(r, Alerting(r, FALSE, NoAlert), "none", <<"stamp">>) /\ Forgotten
              \/ Unanswered(AfterFailure(coord, r)) /\ Stops(r) /\ UNCHANGED said
<1>1. run[r] \in Invocation
  BY Busy DEF RecordFailure, At
<1>2. "none" \in AlertKey /\ <<"stamp">> \in Endings /\ "record" \in Phase
  BY DEF AlertKey, Endings, Phase
<1>3. Owing(r, FALSE) \in Stored /\ Alerting(r, FALSE, NoAlert) \in Stored
  BY <1>1, <1>2, StateTypes
<1>4. Spends
  BY DEF RecordFailure, Spends, Unanswered, Breaks
<1>5. \A state \in Stored : Finish(r, state, "none", <<"stamp">>)
                              => Settles(r, state, "none", <<"stamp">>)
  BY <1>1, <1>2, FinishEffect, EndingTypes
<1>6. (Go(r, "record") => Goes(r, "record")) /\ (Quit(r) => Stops(r))
  BY <1>1, <1>2, GoEffect, QuitEffect
<1> QED
  BY <1>3, <1>4, <1>5, <1>6, KeptRuns DEF RecordFailure

LEMMA RereadMoves ==
    ASSUME Assumptions, TypeOK, NEW r \in Run, NEW phase \in Phase, NEW ok \in BOOLEAN,
           NEW next \in Phase, Reread(r, phase, ok, next)
    PROVE  /\ Kept(r) /\ UNCHANGED coord /\ Quiet
           /\ (ok /\ Goes(r, next)) \/ (~ok /\ Goes(r, "manual")) \/ Stops(r)
<1>1. run[r] \in Invocation
  BY Busy, IdleIsNone DEF Reread, At
<1>2. "manual" \in Phase
  BY DEF Phase
<1>3. Spends
  BY DEF Reread, Spends, Breaks
<1>4. /\ Go(r, next) => Goes(r, next)
      /\ Go(r, "manual") => Goes(r, "manual")
      /\ Quit(r) => Stops(r)
  BY <1>1, <1>2, GoEffect, QuitEffect
<1> QED
  BY <1>3, <1>4, KeptRuns DEF Reread

Fallen == [regional |-> "disabled", spare |-> FALSE, default |-> TRUE]

LEMMA RereadAll ==
    ASSUME Assumptions, TypeOK, NEW r \in Run,
           RereadRecord(r) \/ RereadDefault(r) \/ RereadRoutes(r)
    PROVE  /\ Kept(r) /\ UNCHANGED coord /\ Quiet
           /\ \/ Goes(r, "manual") \/ Stops(r)
              \/ RereadRecord(r) /\ (IF FellBack THEN Goes(r, "already") ELSE Goes(r, "default"))
              \/ RereadDefault(r) /\ dns.default /\ Goes(r, "routes")
              \/ RereadRoutes(r) /\ dns.regional = "edge" /\ ~dns.spare /\ Goes(r, "begin")
<1>1. {"record", "default", "routes", "already", "begin"} \subseteq Phase
  BY DEF Phase
<1>2. CASE RereadRecord(r)
  BY <1>1, <1>2, RereadMoves DEF RereadRecord, FellBack
<1>3. CASE RereadDefault(r)
  <2>1. dns.default \in BOOLEAN
    BY DEF TypeOK, Dns
  <2> QED
    BY <1>1, <1>3, <2>1, RereadMoves DEF RereadDefault
<1>4. CASE RereadRoutes(r)
  BY <1>1, <1>4, RereadMoves DEF RereadRoutes
<1> QED
  BY <1>2, <1>3, <1>4

\* Nothing to object to when DNS is as it was.
LEMMA RereadRestored ==
    ASSUME Assumptions, TypeOK, NEW r \in Run, dns = Restored,
           RereadRecord(r) \/ RereadDefault(r) \/ RereadRoutes(r)
    PROVE  \/ RereadRecord(r) /\ Goes(r, "default")
           \/ RereadDefault(r) /\ Goes(r, "routes")
           \/ RereadRoutes(r) /\ Goes(r, "begin")
           \/ Stops(r)
<1>1. /\ {"record", "default", "routes", "begin"} \subseteq Phase
      /\ ~FellBack /\ dns.regional = "edge" /\ dns.default = TRUE /\ dns.spare = FALSE
  BY DEF Phase, Restored, FellBack
<1>2. CASE RereadRecord(r)
  BY <1>1, <1>2, RereadMoves DEF RereadRecord
<1>3. CASE RereadDefault(r)
  BY <1>1, <1>3, RereadMoves DEF RereadDefault
<1>4. CASE RereadRoutes(r)
  BY <1>1, <1>4, RereadMoves DEF RereadRoutes
<1> QED
  BY <1>2, <1>3, <1>4

LEMMA RaisesEffect ==
    ASSUME Assumptions, TypeOK, NEW r \in Run, run[r] \in Invocation,
           NEW key \in AlertKey, NEW todo \in Endings
    PROVE  Finish(r, Alerting(r, FALSE, Raised(r, key)), key, todo)
             => Settles(r, Alerting(r, FALSE, Raised(r, key)), key, todo)
<1>1. Alerting(r, FALSE, Raised(r, key)) \in Stored
  <2>1. Raised(r, key) \in Alert
    BY StateTypes
  <2> QED
    BY <2>1, StateTypes
<1> QED
  BY <1>1, FinishEffect, EndingTypes

LEMMA BeginMutationMoves ==
    ASSUME Assumptions, TypeOK, NEW r \in Run, BeginMutation(r)
    PROVE  /\ Kept(r) /\ UNCHANGED coord /\ Quiet
           /\ \/ Goes(r, "begun") /\ run'[r].old = coord
              \/ Settles(r, Alerting(r, FALSE, Raised(r, "lock")), "lock",
                         <<"stamp", "alert", "stamp">>)
<1>1. run[r] \in Invocation
  BY Busy DEF BeginMutation, At
<1>2. /\ "lock" \in AlertKey /\ <<"stamp", "alert", "stamp">> \in Endings
      /\ "begun" \in Phase /\ coord \in Coordinator
  BY DEF AlertKey, Endings, Phase, TypeOK
<1>3. Spends
  BY DEF BeginMutation, Spends, Breaks
<1>4. run' = [run EXCEPT ![r].phase = "begun", ![r].old = coord]
        => Goes(r, "begun") /\ run'[r].old = coord
  BY <1>1, <1>2, BegunEffect
<1> QED
  BY <1>1, <1>2, <1>3, <1>4, RaisesEffect, KeptRuns DEF BeginMutation, NoLock

LEMMA GrantedMoves ==
    ASSUME Assumptions, TypeOK, NEW r \in Run, Granted(r)
    PROVE  /\ Kept(r) /\ Quiet
           /\ coord' = IF MayBegin(run[r].old, r) THEN AfterBegin(run[r].old, r) ELSE coord
           /\ coord' \in Coordinator
           /\ \/ MayBegin(run[r].old, r) /\ Goes(r, "disable")
              \/ ~MayBegin(run[r].old, r) /\ Settles(r, Owing(r, FALSE), "none", <<"stamp">>)
              \/ /\ Breaks("lost")
                 /\ Settles(r, Alerting(r, FALSE, Raised(r, "lock")), "lock",
                            <<"stamp", "alert", "stamp">>)
<1>1. run[r] \in Invocation
  BY Busy DEF Granted, At
<1>2. /\ {"lock", "none"} \subseteq AlertKey /\ "disable" \in Phase
      /\ {<<"stamp">>, <<"stamp", "alert", "stamp">>} \subseteq Endings
      /\ Cleared(0) \in Coordinator /\ run[r].old \in Coordinator /\ coord \in Coordinator
  BY <1>1, Fields, ClearedType
  DEF AlertKey, Endings, Phase, TypeOK, Assumptions, CoordinatorAssumption
<1>3. Spends
  BY DEF Granted, Spends, Breaks
<1>4. run' = [run EXCEPT ![r].phase = "disable", ![r].old = Cleared(0)] => Goes(r, "disable")
  BY <1>1, <1>2, BegunEffect
<1>5. Finish(r, Owing(r, FALSE), "none", <<"stamp">>)
        => Settles(r, Owing(r, FALSE), "none", <<"stamp">>)
  BY <1>1, <1>2, StateTypes, FinishEffect, EndingTypes
<1>6. NoLock(r) => Settles(r, Alerting(r, FALSE, Raised(r, "lock")), "lock",
                           <<"stamp", "alert", "stamp">>)
  BY <1>1, <1>2, RaisesEffect DEF NoLock
<1>7. coord' = IF MayBegin(run[r].old, r) THEN AfterBegin(run[r].old, r) ELSE coord
  BY DEF Granted
<1>8. coord' \in Coordinator
  BY <1>2, <1>7, CoordinatorTypes
<1>9. Quiet
  BY DEF Granted
<1> QED
  BY <1>3, <1>4, <1>5, <1>6, <1>7, <1>8, <1>9, KeptRuns DEF Granted

\* The ending of a failed mutation.
Unlocking == <<"stamp", "alert", "stamp", "release">>

LEMMA FailedEffect ==
    ASSUME Assumptions, TypeOK, NEW r \in Run, run[r] \in Invocation, NEW key \in AlertKey
    PROVE  MutationFailed(r, key)
             => Settles(r, Alerting(r, FALSE, Raised(r, key)), key, Unlocking)
<1>1. Unlocking \in Endings
  BY DEF Endings, Unlocking
<1> QED
  BY <1>1, RaisesEffect DEF MutationFailed, Unlocking

LEMMA SwitchedType == ASSUME dns \in Dns PROVE [dns EXCEPT !.regional = Switched] \in Dns
<1>1. Switched \in {"edge", "disabled", "other", "other-off"}
  BY DEF Switched, Dns
<1> QED
  BY <1>1 DEF Dns

LEMMA DisableRecordMoves ==
    ASSUME Assumptions, TypeOK, NEW r \in Run, DisableRecord(r)
    PROVE  /\ Kept(r) /\ UNCHANGED <<coord, kv, seen>>
           /\ dns' \in Dns /\ dns' \in {dns, [dns EXCEPT !.regional = Switched]}
           /\ said' \in Alerts
           /\ said'.last = said.last /\ said'.excuses = said.excuses
           /\ said'.repeated = said.repeated
           /\ \/ Goes(r, "verify") /\ dns' = [dns EXCEPT !.regional = Switched]
              \/ /\ Breaks("dnspod")
                 /\ Settles(r, Alerting(r, FALSE, Raised(r, "mutation")), "mutation", Unlocking)
<1>1. run[r] \in Invocation
  BY Busy DEF DisableRecord, At
<1>2. "mutation" \in AlertKey /\ "verify" \in Phase
  BY DEF AlertKey, Phase
<1>3. Spends
  BY DEF DisableRecord, Spends, Breaks
<1>4. dns' \in Dns /\ dns' \in {dns, [dns EXCEPT !.regional = Switched]}
  BY SwitchedType DEF DisableRecord, TypeOK
<1>5. /\ said' \in Alerts /\ said'.last = said.last /\ said'.excuses = said.excuses
      /\ said'.repeated = said.repeated
  BY DEF DisableRecord, TypeOK, Alerts
<1>6. MutationFailed(r, "mutation")
        => Settles(r, Alerting(r, FALSE, Raised(r, "mutation")), "mutation", Unlocking)
  BY <1>1, <1>2, FailedEffect
<1>7. Go(r, "verify") => Goes(r, "verify")
  BY <1>1, <1>2, GoEffect
<1> QED
  BY <1>3, <1>4, <1>5, <1>6, <1>7, KeptRuns DEF DisableRecord

LEMMA VerifyDisabledMoves ==
    ASSUME Assumptions, TypeOK, NEW r \in Run, VerifyDisabled(r)
    PROVE  /\ Kept(r) /\ UNCHANGED coord /\ Quiet
           /\ \/ /\ FellBack
                 /\ Settles(r, Alerting(r, FALSE, Pending("fallback")), "fallback",
                            <<"stamp", "alert", "stamp", "confirm">>)
              \/ Settles(r, Alerting(r, FALSE, Raised(r, "verify")), "verify", Unlocking)
<1>1. run[r] \in Invocation
  BY Busy DEF VerifyDisabled, At
<1>2. /\ {"fallback", "verify"} \subseteq AlertKey
      /\ <<"stamp", "alert", "stamp", "confirm">> \in Endings
  BY DEF AlertKey, Endings
<1>3. Spends
  BY DEF VerifyDisabled, Spends, Breaks
<1>4. Alerting(r, FALSE, Pending("fallback")) \in Stored
  BY <1>1, <1>2, StateTypes
<1>5. Finish(r, Alerting(r, FALSE, Pending("fallback")), "fallback",
             <<"stamp", "alert", "stamp", "confirm">>)
        => Settles(r, Alerting(r, FALSE, Pending("fallback")), "fallback",
                   <<"stamp", "alert", "stamp", "confirm">>)
  BY <1>1, <1>2, <1>4, FinishEffect, EndingTypes
<1>6. MutationFailed(r, "verify")
        => Settles(r, Alerting(r, FALSE, Raised(r, "verify")), "verify", Unlocking)
  BY <1>1, <1>2, FailedEffect
<1> QED
  BY <1>3, <1>5, <1>6, KeptRuns DEF VerifyDisabled

\* A step of an ending goes on to the next, or was the last.
StepsOn(r, state) ==
    IF Tail(run[r].todo) = <<>> THEN Stops(r)
    ELSE Settles(r, state, run[r].key, Tail(run[r].todo))

LEMMA DoingMoves ==
    ASSUME Assumptions, TypeOK, NEW r \in Run, NEW steps, Doing(r, steps),
           NEW state \in Stored, Done(r, state), Spends
    PROVE  Kept(r) /\ StepsOn(r, state)
<1>1. run[r] \in Invocation /\ At(r, "end") /\ run[r].todo # <<>>
  BY Busy DEF Doing, At
<1> QED
  BY <1>1, DoneEffect, KeptRuns DEF StepsOn

LEMMA SendAlertMoves ==
    ASSUME Assumptions, TypeOK, NEW r \in Run, SendAlert(r)
    PROVE  /\ Kept(r) /\ UNCHANGED <<dns, coord, kv, seen>>
           /\ run[r] \in Invocation
           /\ \/ /\ run[r].state.alert = Sent(run[r].key)
                 /\ StepsOn(r, run[r].state) /\ UNCHANGED said
              \/ /\ run[r].state.alert # Sent(run[r].key)
                 /\ StepsOn(r, [run[r].state EXCEPT !.alert = Sent(run[r].key)])
                 /\ said' = Told(run[r].key)
              \/ /\ run[r].state.alert # Sent(run[r].key)
                 /\ StepsOn(r, [run[r].state EXCEPT !.alert = Pending(run[r].key)])
                 /\ \/ Excused
                    \/ said' = [Told(run[r].key) EXCEPT !.excuses = @ + 1]
<1>1. run[r] \in Invocation
  BY Busy DEF SendAlert, Doing, At
<1>2. Spends
  BY DEF SendAlert, Spends, Breaks
<1>3. run[r].key \in AlertKey /\ run[r].state \in Stored
  BY <1>1, Fields
<1>4. /\ [run[r].state EXCEPT !.alert = Sent(run[r].key)] \in Stored
      /\ [run[r].state EXCEPT !.alert = Pending(run[r].key)] \in Stored
  BY <1>3 DEF Stored, Alert, Sent, Pending
<1> QED
  BY <1>1, <1>2, <1>3, <1>4, DoingMoves DEF SendAlert

LEMMA SaveMoves ==
    ASSUME Assumptions, TypeOK, NEW r \in Run, Save(r)
    PROVE  /\ Kept(r) /\ UNCHANGED <<dns, coord, seen>>
           /\ run[r] \in Invocation /\ StepsOn(r, run[r].state)
           /\ \/ kv' = run[r].state /\ UNCHANGED said
              \/ Doing(r, {"save"}) /\ run[r].state = run[r].raw /\ UNCHANGED <<kv, said>>
              \/ Breaks("kv") /\ Excused /\ UNCHANGED kv
<1>1. run[r] \in Invocation
  BY Busy DEF Save, Doing, At
<1>2. Spends
  BY DEF Save, Spends, Breaks
<1>3. run[r].state \in Stored
  BY <1>1, Fields
<1> QED
  BY <1>1, <1>2, <1>3, DoingMoves DEF Save

LEMMA SettleMoves ==
    ASSUME Assumptions, TypeOK, NEW r \in Run, NEW step, NEW after, Settle(r, step, after)
    PROVE  /\ Kept(r) /\ Quiet /\ run[r] \in Invocation /\ StepsOn(r, run[r].state)
           /\ coord' \in {coord, after}
<1>1. run[r] \in Invocation
  BY Busy DEF Settle, Doing, At
<1>2. Spends
  BY DEF Settle, Spends, Unanswered, Breaks
<1>3. run[r].state \in Stored
  BY <1>1, Fields
<1> QED
  BY <1>1, <1>2, <1>3, DoingMoves DEF Settle, Unanswered

-----------------------------------------------------------------------------
(* Types.                                                                  *)

LEMMA UnansweredType ==
    ASSUME Assumptions, coord \in Coordinator, NEW after \in Coordinator, Unanswered(after)
    PROVE  coord' \in Coordinator
BY DEF Unanswered

LEMMA CheckTypes == ASSUME Assumptions, TypeOK, NEW r \in Run, Check(r) PROVE TypeOK'
<1>1. /\ coord \in Coordinator /\ AfterReset(coord) \in Coordinator
      /\ AfterFailure(coord, r) \in Coordinator
      /\ AfterConfirm(coord) \in Coordinator /\ AfterRelease(coord) \in Coordinator
  BY CoordinatorTypes DEF TypeOK
<1>2. CASE Start(r)
  BY <1>2, StartTypes
<1>3. CASE Look(r)
  BY <1>1, <1>3, LookMoves, QuietTypes
<1>4. CASE Standby(r)
  BY <1>1, <1>4, StandbyMoves, QuietTypes
<1>5. CASE Probe(r)
  BY <1>5, ProbeMoves, ObservedType, KeptTypes DEF TypeOK
<1>6. CASE Healthy(r)
  <2>1. "none" \in AlertKey
    BY DEF AlertKey
  <2>2. coord' \in Coordinator
    BY <1>1, <1>6, HealthyMoves, UnansweredType
  <2>3. Says("none")
    BY <1>6, HealthyMoves DEF Says
  <2>4. kv' \in Stored
    BY <1>6, HealthyMoves DEF TypeOK
  <2> QED
    BY <1>6, <2>1, <2>2, <2>3, <2>4, HealthyMoves, SaidTypes
<1>7. CASE BothUnhealthy(r)
  BY <1>1, <1>7, BothUnhealthyMoves, UnansweredType, QuietTypes
<1>8. ASSUME UnsafeFallback(r) \/ ManualDns(r) PROVE TypeOK'
  BY <1>1, <1>8, CallMoves, UnansweredType, QuietTypes
<1>9. CASE ActiveFallbackUnhealthy(r)
  BY <1>1, <1>9, ActiveFallbackMoves, QuietTypes
<1>10. CASE AlreadyFallback(r)
  BY <1>1, <1>10, AlreadyFallbackMoves, QuietTypes
<1>11. CASE FlushReset(r)
  BY <1>1, <1>11, FlushResetMoves, UnansweredType, QuietTypes
<1>12. CASE FlushSave(r)
  <2>1. run[r].state \in Stored
    BY <1>12, Busy, Fields DEF FlushSave, At
  <2> QED
    BY <1>12, <2>1, FlushSaveMoves, KeptTypes DEF TypeOK
<1>13. CASE RecordFailure(r)
  <2>1. "none" \in AlertKey
    BY DEF AlertKey
  <2>2. coord' \in Coordinator
    BY <1>1, <1>13, RecordFailureMoves, UnansweredType
  <2>3. Says("none")
    BY <1>13, RecordFailureMoves DEF Says
  <2>4. kv' \in Stored
    BY <1>13, RecordFailureMoves DEF TypeOK
  <2> QED
    BY <1>13, <2>1, <2>2, <2>3, <2>4, RecordFailureMoves, SaidTypes
<1>14. ASSUME RereadRecord(r) \/ RereadDefault(r) \/ RereadRoutes(r) PROVE TypeOK'
  BY <1>1, <1>14, RereadAll, QuietTypes
<1>15. CASE BeginMutation(r)
  BY <1>1, <1>15, BeginMutationMoves, QuietTypes
<1>16. CASE Granted(r)
  BY <1>16, GrantedMoves, QuietTypes
<1>17. CASE DisableRecord(r)
  BY <1>17, DisableRecordMoves, KeptTypes DEF TypeOK
<1>18. CASE VerifyDisabled(r)
  BY <1>1, <1>18, VerifyDisabledMoves, QuietTypes
<1>19. CASE SendAlert(r)
  <2>1. run[r].key \in AlertKey
    BY <1>19, SendAlertMoves, Fields
  <2>2. Says(run[r].key) /\ UNCHANGED <<dns, coord, kv, seen>> /\ Kept(r)
    BY <1>19, SendAlertMoves DEF Says
  <2>3. kv' \in Stored /\ coord' \in Coordinator
    BY <2>2 DEF TypeOK
  <2> QED
    BY <2>1, <2>2, <2>3, SaidTypes
<1>20. CASE Save(r)
  <2>1. kv' \in Stored
    BY <1>20, SaveMoves, Fields DEF TypeOK
  <2>2. "none" \in AlertKey /\ Says("none")
    BY <1>20, SaveMoves DEF Says, AlertKey
  <2>3. coord' \in Coordinator
    BY <1>20, SaveMoves DEF TypeOK
  <2> QED
    BY <1>20, <2>1, <2>2, <2>3, SaveMoves, SaidTypes
<1>21. CASE Confirm(r)
  BY <1>1, <1>21, SettleMoves, QuietTypes DEF Confirm
<1>22. CASE Release(r)
  BY <1>1, <1>22, SettleMoves, QuietTypes DEF Release
<1> QED
  BY <1>2, <1>3, <1>4, <1>5, <1>6, <1>7, <1>8, <1>9, <1>10, <1>11, <1>12, <1>13, <1>14,
     <1>15, <1>16, <1>17, <1>18, <1>19, <1>20, <1>21, <1>22 DEF Check

LEMMA CrashMoves ==
    ASSUME Assumptions, TypeOK, NEW r \in Run, Crash(r)
    PROVE  Kept(r) /\ Stops(r) /\ UNCHANGED <<dns, coord, kv, seen>> /\ Excused
BY QuitEffect, KeptRuns DEF Crash, Spends, Breaks

LEMMA EditMoves ==
    ASSUME Assumptions, TypeOK, OperatorEdits
    PROVE  /\ UNCHANGED <<budget, coord, kv, run, said>> /\ dns' \in Dns
           /\ seen' \in Checks
           /\ \A r \in Run : /\ r \in seen.late => r \in seen'.late
                             /\ run[r].phase \in {"begin", "begun", "disable"} => r \in seen'.late
                             /\ At(r, "routes") /\ dns'.default # dns.default => r \in seen'.late
<1> DEFINE TooLate(r, d) == \/ run[r].phase \in {"begin", "begun", "disable"}
                            \/ At(r, "routes") /\ d.default # dns.default
<1>1. PICK d \in Edit \ {dns} : /\ dns' = d
                                /\ seen' = [seen EXCEPT !.late =
                                                seen.late \cup {r \in Run : TooLate(r, d)}]
  BY DEF OperatorEdits
<1>2. d \in Dns
  BY <1>1 DEF Assumptions, WatchdogAssumption
<1> DEFINE late == {r \in Run : TooLate(r, d)}
<1>3. late \subseteq Run /\ \A r \in Run : r \in late <=> TooLate(r, d)
  OBVIOUS
<1> HIDE DEF late
<1>4. seen' = [seen EXCEPT !.late = seen.late \cup late] /\ seen \in Checks
  BY <1>1 DEF TypeOK, late
<1>5. seen' \in Checks /\ seen'.late = seen.late \cup late
  BY <1>3, <1>4 DEF Checks
<1> QED
  BY <1>1, <1>2, <1>3, <1>5 DEF OperatorEdits, Works

LEMMA TickType ==
    ASSUME Assumptions, TypeOK, Tick
    PROVE  coord' = Older(coord) /\ coord' \in Coordinator
BY OlderType DEF Tick, TypeOK

LEMMA InitTypes == ASSUME Assumptions, Init PROVE TypeOK
<1>1. coord \in Coordinator
  BY ClearedType DEF Init, Assumptions, CoordinatorAssumption
<1>2. dns \in Dns
  BY DEF Init, Restored, Dns
<1>3. kv \in Stored
  BY DEF Init, Stored, NoAlert, Alert, AlertKey
<1>4. budget \in 0..MaxFaults
  BY DEF Init, Assumptions, WatchdogAssumption
<1>5. seen \in Checks
  BY DEF Init, Checks, Verdict, Assumptions, CoordinatorAssumption
<1>6. said \in Alerts
  BY DEF Init, Alerts, AlertKey
<1> QED
  BY <1>1, <1>2, <1>3, <1>4, <1>5, <1>6 DEF Init, TypeOK

LEMMA NextTypes == ASSUME Assumptions, TypeOK, [Next]_vars PROVE TypeOK'
<1>1. ASSUME NEW r \in Run, Check(r) PROVE TypeOK'
  BY <1>1, CheckTypes
<1>2. ASSUME NEW r \in Run, Crash(r) PROVE TypeOK'
  <2>1. coord' \in Coordinator /\ kv' \in Stored
    BY <1>2, CrashMoves DEF TypeOK
  <2>2. "none" \in AlertKey /\ Says("none")
    BY <1>2, CrashMoves DEF Says, AlertKey
  <2> QED
    BY <1>2, <2>1, <2>2, CrashMoves, SaidTypes
<1>3. CASE OperatorEdits
  BY <1>3, EditMoves DEF TypeOK
<1>4. CASE Tick
  BY <1>4, TickType DEF Tick, Quiet, Works, TypeOK
<1>5. CASE UNCHANGED vars
  BY <1>5 DEF vars, TypeOK
<1> QED
  BY <1>1, <1>2, <1>3, <1>4, <1>5 DEF Next

-----------------------------------------------------------------------------
(* An early edit wins, whatever the runs, edits and faults.                *)

Mutating == {"begin", "begun", "disable"}

\* A run on its way to the mutation knows what DNS is, unless an edit came too late
\* for it to see; others may have fallen back before it.
EditSeen ==
    \A r \in Run \ seen.late :
        /\ At(r, "routes") => dns.default
        /\ run[r].phase \in Mutating => dns \in {Restored, Fallen}

\* Nobody comes closer to the mutation.
Retreats(r) == run'[r].phase \notin Mutating \cup {"routes"}

LEMMA EditRetreats ==
    ASSUME EditSeen, NEW r \in Run, Kept(r), Retreats(r), UNCHANGED dns, seen'.late = seen.late
    PROVE  EditSeen'
BY DEF EditSeen, Kept, OthersStay, Retreats, At

LEMMA SettledRetreats ==
    ASSUME NEW r \in Run
    PROVE  /\ \A phase : Goes(r, phase) /\ phase \notin Mutating \cup {"routes"} => Retreats(r)
           /\ \A state, key, todo : Settles(r, state, key, todo) => Retreats(r)
           /\ \A state : StepsOn(r, state) => Retreats(r)
           /\ Stops(r) => Retreats(r)
BY IdleIsNone DEF Goes, Settles, Stops, Moves, StepsOn, Retreats, Mutating

\* Falling back leaves the other records as they are.
LEMMA SwitchedSeen ==
    ASSUME dns \in Dns
    PROVE  /\ [dns EXCEPT !.regional = Switched].default = dns.default
           /\ dns \in {Restored, Fallen} => [dns EXCEPT !.regional = Switched] = Fallen
<1> DEFINE new == [dns EXCEPT !.regional = Switched]
<1>1. new = [regional |-> Switched, spare |-> dns.spare, default |-> dns.default]
  BY DEF Dns
<1>2. dns.regional \in {"edge", "disabled"} => Switched = "disabled"
  BY DEF Switched
<1>3. Fallen = [regional |-> "disabled", spare |-> FALSE, default |-> TRUE]
  BY DEF Fallen
<1>4. ASSUME dns \in {Restored, Fallen} PROVE new = Fallen
  <2>1. dns.regional \in {"edge", "disabled"} /\ dns.spare = FALSE /\ dns.default = TRUE
    BY <1>3, <1>4 DEF Restored
  <2> QED
    BY <1>1, <1>2, <1>3, <2>1
<1> QED
  BY <1>1, <1>4

LEMMA QuietEdit ==
    ASSUME Assumptions, TypeOK, EditSeen, NEW r \in Run, Kept(r), Retreats(r), Quiet
    PROVE  EditSeen'
BY EditRetreats DEF Quiet

LEMMA CheckEditSeen ==
    ASSUME Assumptions, TypeOK, EditSeen, NEW r \in Run, Check(r) PROVE EditSeen'
<1> USE SettledRetreats
<1>1. CASE Start(r)
  <2>1. OthersStay(r) /\ run'[r].phase = "look" /\ seen'.late = seen.late \ {r} /\ dns' = dns
    BY <1>1, StartEffect DEF Start, TypeOK, Checks
  <2> QED
    BY <2>1 DEF EditSeen, OthersStay, At, Mutating
<1>2. CASE Look(r)
  BY <1>2, LookMoves, QuietEdit DEF Mutating
<1>3. CASE Standby(r)
  BY <1>3, StandbyMoves, QuietEdit DEF Mutating
<1>4. CASE Probe(r)
  <2>1. PICK verdict \in Verdicts : Goes(r, verdict) /\ seen' = Observed(verdict)
    BY <1>4, ProbeMoves
  <2>2. verdict \notin Mutating \cup {"routes"}
    BY DEF Mutating, Assumptions, WatchdogAssumption, Verdict
  <2> QED
    BY <1>4, <2>1, <2>2, ProbeMoves, ObservedType, EditRetreats
<1>5. CASE Healthy(r)
  BY <1>5, HealthyMoves, EditRetreats
<1>6. CASE BothUnhealthy(r)
  BY <1>6, BothUnhealthyMoves, QuietEdit
<1>7. ASSUME UnsafeFallback(r) \/ ManualDns(r) PROVE EditSeen'
  BY <1>7, CallMoves, QuietEdit
<1>8. CASE ActiveFallbackUnhealthy(r)
  BY <1>8, ActiveFallbackMoves, QuietEdit
<1>9. CASE AlreadyFallback(r)
  BY <1>9, AlreadyFallbackMoves, QuietEdit DEF Mutating
<1>10. CASE FlushReset(r)
  <2>1. Moves(r, "flush") => Retreats(r)
    BY DEF Moves, Retreats, Mutating
  <2> QED
    BY <1>10, <2>1, FlushResetMoves, QuietEdit DEF Mutating
<1>11. CASE FlushSave(r)
  BY <1>11, FlushSaveMoves, EditRetreats DEF Mutating
<1>12. CASE RecordFailure(r)
  BY <1>12, RecordFailureMoves, EditRetreats DEF Mutating
<1>13. CASE RereadRecord(r)
  BY <1>13, RereadAll, QuietEdit DEF Mutating, RereadRecord, RereadDefault, RereadRoutes, Reread, At
<1>14. CASE RereadDefault(r)
  <2>1. CASE Goes(r, "manual") \/ Stops(r)
    BY <1>14, <2>1, RereadAll, QuietEdit DEF Mutating
  <2>2. CASE dns.default /\ Goes(r, "routes")
    BY <1>14, <2>2, RereadAll DEF EditSeen, Goes, Moves, Mutating, Quiet, OthersStay, At
  <2> QED
    BY <1>14, <2>1, <2>2, RereadAll DEF RereadRecord, RereadDefault, RereadRoutes, Reread, At
<1>15. CASE RereadRoutes(r)
  <2>1. CASE Goes(r, "manual") \/ Stops(r)
    BY <1>15, <2>1, RereadAll, QuietEdit DEF Mutating
  <2>2. CASE dns.regional = "edge" /\ ~dns.spare /\ Goes(r, "begin")
    <3>1. r \notin seen.late => dns = Restored
      BY <1>15, <2>2 DEF EditSeen, RereadRoutes, Reread, Restored, TypeOK, Dns
    <3> QED
      BY <1>15, <2>2, <3>1, RereadAll DEF EditSeen, Goes, Moves, Mutating, Quiet, OthersStay, At
  <2> QED
    BY <1>15, <2>1, <2>2, RereadAll DEF RereadRecord, RereadDefault, RereadRoutes, Reread, At
<1>16. CASE BeginMutation(r)
  <2>1. CASE Goes(r, "begun")
    BY <1>16, <2>1, BeginMutationMoves
    DEF EditSeen, Goes, Moves, Mutating, Quiet, OthersStay, At, BeginMutation
  <2> QED
    BY <1>16, <2>1, BeginMutationMoves, QuietEdit
<1>17. CASE Granted(r)
  <2>1. CASE Goes(r, "disable")
    BY <1>17, <2>1, GrantedMoves
    DEF EditSeen, Goes, Moves, Mutating, Quiet, OthersStay, At, Granted
  <2> QED
    BY <1>17, <2>1, GrantedMoves, QuietEdit
<1>18. CASE DisableRecord(r)
  <2>1. Kept(r) /\ Retreats(r) /\ seen' = seen
    BY <1>18, DisableRecordMoves DEF Mutating
  <2>2. dns'.default = dns.default /\ (dns \in {Restored, Fallen} => dns' \in {Restored, Fallen})
    BY <1>18, DisableRecordMoves, SwitchedSeen DEF TypeOK
  <2> QED
    BY <2>1, <2>2 DEF EditSeen, Kept, OthersStay, Retreats, At
<1>19. CASE VerifyDisabled(r)
  BY <1>19, VerifyDisabledMoves, QuietEdit
<1>20. CASE SendAlert(r)
  BY <1>20, SendAlertMoves, EditRetreats
<1>21. CASE Save(r)
  BY <1>21, SaveMoves, EditRetreats
<1>22. ASSUME Confirm(r) \/ Release(r) PROVE EditSeen'
  BY <1>22, SettleMoves, QuietEdit DEF Confirm, Release
<1> QED
  BY <1>1, <1>2, <1>3, <1>4, <1>5, <1>6, <1>7, <1>8, <1>9, <1>10, <1>11, <1>12, <1>13,
     <1>14, <1>15, <1>16, <1>17, <1>18, <1>19, <1>20, <1>21, <1>22 DEF Check

LEMMA InitEditSeen == Init => EditSeen
<1> SUFFICES ASSUME Init, NEW r \in Run PROVE run[r].phase = "idle"
  BY DEF EditSeen, At, Mutating
<1> QED
  BY IdleIsNone DEF Init

LEMMA NextEditSeen == ASSUME Assumptions, TypeOK, EditSeen, [Next]_vars PROVE EditSeen'
<1>1. ASSUME NEW r \in Run, Check(r) PROVE EditSeen'
  BY <1>1, CheckEditSeen
<1>2. ASSUME NEW r \in Run, Crash(r) PROVE EditSeen'
  <2>1. Kept(r) /\ Stops(r) /\ UNCHANGED <<dns, seen>>
    BY <1>2, CrashMoves
  <2> QED
    BY <2>1, SettledRetreats, EditRetreats
<1>3. CASE OperatorEdits
  BY <1>3, EditMoves DEF EditSeen, At, Mutating
<1>4. CASE Tick
  BY <1>4 DEF Tick, Quiet, EditSeen, At
<1>5. CASE UNCHANGED vars
  BY <1>5 DEF vars, EditSeen, At
<1> QED
  BY <1>1, <1>2, <1>3, <1>4, <1>5 DEF Next

\* Of the steps of runs, only a mutation changes DNS.
LEMMA OnlyDisables ==
    ASSUME Assumptions, TypeOK, [Next]_vars, dns' # dns, run' # run
    PROVE  \E r \in Run : DisableRecord(r)
<1>1. ASSUME NEW r \in Run, Check(r) PROVE DisableRecord(r)
  <2>1. ~Start(r) /\ ~Look(r) /\ ~Standby(r) /\ ~Probe(r) /\ ~Healthy(r) /\ ~BothUnhealthy(r)
    BY DEF Start, Look, Standby, Probe, Healthy, BothUnhealthy, Quiet
  <2>2. ~UnsafeFallback(r) /\ ~ManualDns(r) /\ ~ActiveFallbackUnhealthy(r) /\ ~AlreadyFallback(r)
    BY DEF UnsafeFallback, ManualDns, ActiveFallbackUnhealthy, AlreadyFallback, Quiet
  <2>3. ~FlushReset(r) /\ ~FlushSave(r) /\ ~RecordFailure(r)
    BY DEF FlushReset, FlushSave, RecordFailure, Quiet
  <2>4. ~RereadRecord(r) /\ ~RereadDefault(r) /\ ~RereadRoutes(r) /\ ~BeginMutation(r)
    BY DEF RereadRecord, RereadDefault, RereadRoutes, Reread, BeginMutation, Quiet
  <2>5. ~Granted(r) /\ ~VerifyDisabled(r) /\ ~SendAlert(r) /\ ~Save(r) /\ ~Confirm(r) /\ ~Release(r)
    BY DEF Granted, VerifyDisabled, SendAlert, Save, Confirm, Release, Settle, Quiet
  <2> QED
    BY <1>1, <2>1, <2>2, <2>3, <2>4, <2>5 DEF Check
<1>2. ~\E r \in Run : Crash(r)
  BY DEF Crash, Quiet
<1>3. ~OperatorEdits /\ ~Tick /\ ~UNCHANGED vars
  BY DEF OperatorEdits, Tick, vars
<1> QED
  BY <1>1, <1>2, <1>3 DEF Next

\* Only a run that asked for it changes DNS, and that one knows it as it was.
LEMMA NextEditWins == ASSUME Assumptions, TypeOK, EditSeen, [Next]_vars PROVE EditWins
<1> SUFFICES ASSUME NEW r \in Run, Disables(r), r \notin seen.late PROVE dns = Restored
  BY DEF EditWins
<1>1. dns \in {Restored, Fallen} /\ At(r, "disable") /\ run'[r].phase # "disable" /\ dns' # dns
  BY DEF EditSeen, Disables, At, Mutating
<1>2. PICK s \in Run : DisableRecord(s)
  BY <1>1, OnlyDisables DEF At
<1>3. dns' \in {dns, [dns EXCEPT !.regional = Switched]}
  BY <1>2, DisableRecordMoves
<1> QED
  BY <1>1, <1>3, SwitchedSeen DEF TypeOK

-----------------------------------------------------------------------------

LEMMA ProofAssumptions == Assumptions
BY CoordinatorAssumption, WatchdogAssumption DEF Assumptions

\* Type correctness, for any runs, edits, verdicts and faults; in particular the count
\* of the FailoverCoordinator and the ages of its claim and lock stay within bounds.
THEOREM TypeOKHolds == Spec => []TypeOK
<1>1. Init => TypeOK
  BY InitTypes, ProofAssumptions
<1>2. TypeOK /\ [Next]_vars => TypeOK'
  BY NextTypes, ProofAssumptions
<1> QED
  BY <1>1, <1>2, PTL DEF Spec

\* An edit of DNS that is in place before the re-read that concerns it stops the run,
\* however many runs overlap, whatever the operator does and whichever calls fail.
THEOREM EarlyEditWinsHolds == Spec => EarlyEditWins
<1>1. Init => EditSeen
  BY InitEditSeen
<1>2. TypeOK /\ EditSeen /\ [Next]_vars => EditSeen'
  BY NextEditSeen, ProofAssumptions
<1>3. TypeOK /\ EditSeen /\ [Next]_vars => [EditWins]_vars
  BY NextEditWins, ProofAssumptions
<1> QED
  BY <1>1, <1>2, <1>3, TypeOKHolds, PTL DEF Spec, EarlyEditWins
=============================================================================
