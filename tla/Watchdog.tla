------------------------------ MODULE Watchdog ------------------------------
(***************************************************************************)
(* The EdgeOne watchdog (cloudflare/watchdog/src/index.js, dnspod.js): a   *)
(* cron invocation per minute looks at DNSPod, probes the routes, counts   *)
(* failures in the FailoverCoordinator and, at the threshold, disables the *)
(* mainland record.  Invocations may overlap, any call may fail, an        *)
(* operator edits DNS at any time; KV holds what survives an invocation.   *)
(*                                                                         *)
(* One action per await that matters; reads of DNSPod made back to back    *)
(* are one instant.  The alert state is one pair: a key with sent TRUE is  *)
(* lastAlertKey, with sent FALSE pendingAlert (the code never has both),   *)
(* NoAlert is neither.  The counters the run copies into KV for an audit   *)
(* (failureCount, lastAction, lastFailureAt) decide nothing and are left   *)
(* out.                                                                    *)
(***************************************************************************)
EXTENDS FailoverCoordinator, Sequences

CONSTANTS
    Edit,      \* the DNS states an operator may put in place
    Verdicts,  \* the verdicts the probes may give, of Verdict
    Slow,      \* runs that may take longer than a tick to use their claim
    Faults,    \* which calls may fail, of FaultKind
    MaxFaults  \* bound: how many of them fail in a behaviour

\* "crash": the Worker is stopped; "coordinator": a call to the Durable Object
\* is not delivered; "lost": it is, and its answer is not; "telegram" and
\* "unheard": the same of an alert; "dnspod", "kv": a call to that service fails.
FaultKind == {"crash", "coordinator", "lost", "dnspod", "telegram", "unheard", "kv"}

\* regional: the configured record is the enabled EdgeOne CNAME, disabled, or
\* something else (enabled or off); spare: another enabled mainland route;
\* default: the expected fallback record, alone on the default line.
Dns == [regional: {"edge", "disabled", "other", "other-off"},
        spare: BOOLEAN, default: BOOLEAN]

\* healthy: all routes; both: direct Vercel does not answer; unsafe: the
\* fallback does not; failing: only a route through EdgeOne does not.
Verdict == {"healthy", "both", "unsafe", "failing"}

ASSUME WatchdogAssumption ==
    /\ Verdicts \subseteq Verdict /\ Verdicts # {}
    /\ Slow \subseteq Run /\ Edit \subseteq Dns
    /\ Faults \subseteq FaultKind /\ MaxFaults \in Nat

VARIABLES
    dns,        \* the apex records at DNSPod
    coord,      \* the Durable Object's storage
    kv,         \* the KV entry watchdog-state-v1
    run,        \* run[r]: an invocation
    budget,     \* bound: faults still to come
    seen,       \* history: verdicts of the checks; late: the runs for which an
                \* edit of DNS came after the re-read that would have shown it
    said        \* history: what Telegram has accepted

vars == <<dns, coord, kv, run, budget, seen, said>>

AlertKey == {"none", "fallback", "active", "verify", "mutation", "lock", "both",
             "manual", "manual-reset-failed", "unsafe", "unsafe-reset-failed"}
Alert == [key: AlertKey, sent: BOOLEAN]
NoAlert == [key |-> "none", sent |-> TRUE]
Sent(key) == [key |-> key, sent |-> TRUE]
PendingAsSent(key) == Sent(key)
Pending(key) == [key |-> key, sent |-> FALSE]

Restored == [regional |-> "edge", spare |-> FALSE, default |-> TRUE]
FellBack == dns.regional = "disabled" /\ ~dns.spare /\ dns.default

Stored == [resetPending: BOOLEAN, alert: Alert]

\* "stamp" saves a state that holds the current time, "save" one that may be
\* what the run read, which is then not written again.
Step == {"alert", "save", "stamp", "confirm", "release"}
Phase == {"look", "already", "active", "manual", "probe", "standby", "count", "flush",
          "record", "default", "routes", "begin", "begun", "disable", "verify", "end"}
            \cup Verdict

Idle == [phase |-> "idle"]

\* raw is the KV entry as the run read it and state its copy; key is the alert
\* it is about to send, todo the steps left once its verdict is known, old the
\* state the coordinator's begin-mutation handler read for it.
Invocation == [phase: Phase, raw: Stored, state: Stored, key: AlertKey,
               todo: Seq(Step), old: Coordinator]

Checks == [inRow: 0..Threshold, sinceHealthy: 0..Threshold, last: Verdict, late: SUBSET Run]
\* announced: Telegram has been told of the change of DNS; last: the alert it
\* accepted last; excuses: the faults since then that may have made the watchdog
\* forget it, less the copies they led to; repeated: a copy came without one.
Alerts == [announced: BOOLEAN, last: AlertKey, excuses: Nat, repeated: BOOLEAN]

TypeOK ==
    /\ dns \in Dns /\ coord \in Coordinator /\ kv \in Stored
    /\ run \in [Run -> {Idle} \cup Invocation]
    /\ budget \in 0..MaxFaults
    /\ seen \in Checks /\ said \in Alerts

Init ==
    /\ dns = Restored
    /\ coord = Cleared(0)
    /\ kv = [resetPending |-> FALSE, alert |-> NoAlert]
    /\ run = [r \in Run |-> Idle]
    /\ budget = MaxFaults
    /\ seen = [inRow |-> 0, sinceHealthy |-> 0, last |-> "healthy", late |-> {}]
    /\ said = [announced |-> TRUE, last |-> "none", excuses |-> 0, repeated |-> FALSE]

-----------------------------------------------------------------------------
(* How an invocation moves.                                                *)

Works == UNCHANGED budget
Breaks(fault) == fault \in Faults /\ budget > 0 /\ budget' = budget - 1

At(r, phase) == run[r].phase = phase

Go(r, phase) == run' = [run EXCEPT ![r].phase = phase]

Quit(r) == run' = [run EXCEPT ![r] = Idle]

\* The verdict is known: state is what will be saved, todo what is left.
Finish(r, state, key, todo) ==
    run' = [run EXCEPT ![r] = [@ EXCEPT !.phase = "end", !.state = state,
                                        !.key = key, !.todo = todo, !.old = Cleared(0)]]

OwingNever(r, b) == [run[r].state EXCEPT !.resetPending = FALSE]
Owing(r, b) == [run[r].state EXCEPT !.resetPending = b]

Alerting(r, b, alert) == [resetPending |-> b, alert |-> alert]

\* An alert that must be retried until it is delivered, unless it was the last.
RaisedAgain(r, key) == Pending(key)
Raised(r, key) == IF run[r].state.alert = Sent(key) THEN Sent(key) ELSE Pending(key)

\* A call of the coordinator that fails: not delivered, or its answer lost.
Unanswered(after) ==
    \/ Breaks("coordinator") /\ UNCHANGED coord
    \/ Breaks("lost") /\ coord' = after

Quiet == UNCHANGED <<dns, kv, seen, said>>

\* The watchdog forgets its alert on purpose, or through a fault.
Forgotten == said' = [said EXCEPT !.last = "none"]
Excused == said' = [said EXCEPT !.excuses = @ + 1]

Start(r) ==
    /\ run[r] = Idle
    /\ run' = [run EXCEPT ![r] = [phase |-> "look", raw |-> kv, state |-> kv, key |-> "none",
                                  todo |-> <<>>, old |-> Cleared(0)]]
    /\ seen' = [seen EXCEPT !.late = @ \ {r}]
    /\ Works /\ UNCHANGED <<dns, coord, kv, said>>

\* The records as getConfiguredRecord, getEnabledMainlandApexRecords and
\* getDefaultFallbackRecord show them to a run that may still do nothing.
Look(r) ==
    /\ At(r, "look")
    /\ \/ Works /\ Go(r, IF FellBack THEN "standby"
                         ELSE IF dns.regional = "edge" /\ dns.default THEN "probe"
                         ELSE "manual")
       \/ Breaks("dnspod") /\ Quit(r)
    /\ UNCHANGED coord /\ Quiet

\* The fallback is in force: is it healthy?
Standby(r) ==
    /\ At(r, "standby")
    /\ \E phase \in {"already", "active"} : Go(r, phase)
    /\ Works /\ UNCHANGED coord /\ Quiet

Observed(verdict) ==
    LET More(n) == IF n < Threshold THEN n + 1 ELSE n
    IN  [seen EXCEPT !.last = verdict,
                     !.inRow = IF verdict = "failing" THEN More(@) ELSE 0,
                     !.sinceHealthy = CASE verdict = "failing" -> More(@)
                                        [] verdict = "healthy" -> 0
                                        [] OTHER -> @]

\* The four probes have answered or timed out.
Probe(r) ==
    /\ At(r, "probe")
    /\ \E verdict \in Verdicts : Go(r, verdict) /\ seen' = Observed(verdict)
    /\ Works /\ UNCHANGED <<dns, coord, kv, said>>

-----------------------------------------------------------------------------
(* The verdicts under which nothing is changed.                            *)

Healthy(r) ==
    /\ At(r, "healthy")
    /\ \/ /\ Works /\ coord' = AfterReset(coord)
          /\ IF MutationFresh(coord)
             THEN Finish(r, Owing(r, FALSE), "none", <<"save">>) /\ UNCHANGED said
             ELSE Finish(r, Alerting(r, FALSE, NoAlert), "none", <<"save">>) /\ Forgotten
       \/ /\ Unanswered(AfterReset(coord)) /\ UNCHANGED said
          /\ Finish(r, Owing(r, TRUE), "none", <<"save">>)
    /\ UNCHANGED <<dns, kv, seen>>

BothUnhealthy(r) ==
    /\ At(r, "both")
    /\ \/ /\ Works /\ coord' = AfterReset(coord)
          /\ Finish(r, Owing(r, FALSE), "both", <<"alert", "save">>)
       \/ Unanswered(AfterReset(coord)) /\ Quit(r)
    /\ Quiet

\* The streak is reset, or its reset left owing, and an operator is called.
CallOperator(r, key, failedKey) ==
    \/ /\ Works /\ coord' = AfterReset(coord)
       /\ Finish(r, Owing(r, FALSE), key, <<"alert", "save">>)
    \/ /\ Unanswered(AfterReset(coord))
       /\ Finish(r, Owing(r, TRUE), failedKey, <<"alert", "save">>)

UnsafeFallback(r) ==
    /\ At(r, "unsafe") /\ CallOperator(r, "unsafe", "unsafe-reset-failed") /\ Quiet

ManualDns(r) ==
    /\ At(r, "manual") /\ CallOperator(r, "manual", "manual-reset-failed") /\ Quiet

ActiveFallbackUnhealthy(r) ==
    /\ At(r, "active")
    /\ Finish(r, Owing(r, FALSE), "active", <<"alert", "confirm", "save">>)
    /\ Works /\ UNCHANGED coord /\ Quiet

\* An alert still owed is sent before the one that says DNS was changed.
AlreadyKey(r) ==
    LET alert == run[r].state.alert
    IN  IF alert.sent THEN "fallback" ELSE alert.key

AlreadyFallback(r) ==
    /\ At(r, "already")
    /\ \/ /\ Works
          /\ IF FellBack
             THEN Finish(r, Owing(r, FALSE), AlreadyKey(r), <<"alert", "confirm", "save">>)
             ELSE Go(r, "manual")
       \/ Breaks("dnspod") /\ Quit(r)
    /\ UNCHANGED coord /\ Quiet

-----------------------------------------------------------------------------
(* The verdict "failing": count it and, at the threshold, fail over.       *)

\* A reset an earlier run could not deliver comes first.
FlushReset(r) ==
    /\ At(r, "failing")
    /\ IF ~run[r].state.resetPending
       THEN Go(r, "count") /\ Works /\ UNCHANGED coord
       ELSE \/ /\ Works /\ coord' = AfterReset(coord)
               /\ IF MutationFresh(coord)
                  THEN Finish(r, run[r].state, "none", <<"save">>)
                  ELSE run' = [run EXCEPT ![r].phase = "flush",
                                          ![r].state.resetPending = FALSE]
            \/ Unanswered(AfterReset(coord)) /\ Finish(r, run[r].state, "none", <<"save">>)
    /\ Quiet

FlushSave(r) ==
    /\ At(r, "flush")
    /\ \/ Works /\ kv' = run[r].state /\ Go(r, "count")
       \/ Breaks("kv") /\ Finish(r, run[r].state, "none", <<"save">>) /\ UNCHANGED kv
    /\ UNCHANGED <<dns, coord, seen, said>>

RecordFailure(r) ==
    /\ At(r, "count")
    /\ \/ /\ Works /\ coord' = AfterFailure(coord, r)
          /\ \/ ShouldFailover(coord) /\ Go(r, "record") /\ UNCHANGED said
             \/ /\ Held(coord) /\ Finish(r, Owing(r, FALSE), "none", <<"stamp">>)
                /\ UNCHANGED said
             \/ /\ ~Held(coord) /\ ~ShouldFailover(coord) /\ Forgotten
                /\ Finish(r, Alerting(r, FALSE, NoAlert), "none", <<"stamp">>)
       \/ Unanswered(AfterFailure(coord, r)) /\ Quit(r) /\ UNCHANGED said
    /\ UNCHANGED <<dns, kv, seen>>

\* The records are read again, one call after the other.
Reread(r, phase, ok, next) ==
    /\ At(r, phase)
    /\ \/ Works /\ Go(r, IF ok THEN next ELSE "manual")
       \/ Breaks("dnspod") /\ Quit(r)
    /\ UNCHANGED coord /\ Quiet

RereadRecord(r) == Reread(r, "record", FellBack \/ dns.regional = "edge",
                          IF FellBack THEN "already" ELSE "default")
RereadDefault(r) == Reread(r, "default", dns.default, "routes")
RereadOwnRoute(r) == Reread(r, "routes", dns.regional = "edge", "begin")
RereadRoutes(r) == Reread(r, "routes", dns.regional = "edge" /\ ~dns.spare, "begin")

\* begin-mutation fails: the lock alert is owed before it is sent.
NoLock(r) == Finish(r, Alerting(r, FALSE, Raised(r, "lock")), "lock",
                    <<"stamp", "alert", "stamp">>)

\* The handler reads its state, then awaits the request's body ...
BeginMutation(r) ==
    /\ At(r, "begin")
    /\ \/ Works /\ run' = [run EXCEPT ![r].phase = "begun", ![r].old = coord]
       \/ Breaks("coordinator") /\ NoLock(r)
    /\ UNCHANGED coord /\ Quiet

\* ... and decides from what it read.
Granted(r) ==
    /\ At(r, "begun")
    /\ LET old == run[r].old
           granted == MayBegin(old, r)
       IN  /\ coord' = IF granted THEN AfterBegin(old, r) ELSE coord
           /\ \/ /\ Works
                 /\ IF granted
                    THEN run' = [run EXCEPT ![r].phase = "disable", ![r].old = Cleared(0)]
                    ELSE Finish(r, Owing(r, FALSE), "none", <<"stamp">>)
              \/ Breaks("lost") /\ NoLock(r)
    /\ Quiet

Switched == CASE dns.regional = "edge"  -> "disabled"
              [] dns.regional = "other" -> "other-off"
              [] OTHER                  -> dns.regional

\* The mutation failed, or its outcome is not the one expected.
MutationFailed(r, key) ==
    Finish(r, Alerting(r, FALSE, Raised(r, key)), key,
           <<"stamp", "alert", "stamp", "release">>)

DisableRecord(r) ==
    /\ At(r, "disable")
    /\ \/ /\ Works /\ Go(r, "verify")
          /\ dns' = [dns EXCEPT !.regional = Switched]
       \/ /\ Breaks("dnspod") /\ MutationFailed(r, "mutation")
          /\ dns' \in {dns, [dns EXCEPT !.regional = Switched]}
    /\ said' = IF dns' = dns THEN said ELSE [said EXCEPT !.announced = FALSE]
    /\ UNCHANGED <<coord, kv, seen>>

VerifyDisabled(r) ==
    /\ At(r, "verify")
    /\ \/ /\ Works
          /\ IF FellBack
             THEN Finish(r, Alerting(r, FALSE, Pending("fallback")), "fallback",
                         <<"stamp", "alert", "stamp", "confirm">>)
             ELSE MutationFailed(r, "verify")
       \/ Breaks("dnspod") /\ MutationFailed(r, "verify")
    /\ UNCHANGED coord /\ Quiet

-----------------------------------------------------------------------------
(* What is left to do once the verdict is known.                           *)

Doing(r, steps) == At(r, "end") /\ run[r].todo # <<>> /\ Head(run[r].todo) \in steps

Done(r, state) ==
    LET todo == Tail(run[r].todo)
    IN  run' = [run EXCEPT ![r] = IF todo = <<>> THEN Idle
                                  ELSE [@ EXCEPT !.todo = todo, !.state = state]]

\* The alerts whose text says that the record was disabled or the fallback is in
\* force; "mutation" says that it could not be, the others that DNS was left alone.
TellsOfChange == {"fallback", "active", "verify"}

\* Telegram has accepted an alert.
Told(key) ==
    LET again == key = said.last
    IN  [announced |-> said.announced \/ key \in TellsOfChange,
         last      |-> key,
         excuses   |-> IF again /\ said.excuses > 0 THEN said.excuses - 1 ELSE 0,
         repeated  |-> said.repeated \/ (again /\ said.excuses = 0)]

\* An alert that fails is owed, whether Telegram refused it or its answer was lost.
SendAlert(r) ==
    /\ Doing(r, {"alert"})
    /\ LET key == run[r].key
           With(alert) == [run[r].state EXCEPT !.alert = alert]
       IN  \/ /\ run[r].state.alert = Sent(key)
              /\ Done(r, run[r].state) /\ Works /\ UNCHANGED said
           \/ /\ run[r].state.alert # Sent(key)
              /\ \/ Done(r, With(Sent(key))) /\ Works /\ said' = Told(key)
                 \/ Done(r, With(Pending(key))) /\ Breaks("telegram") /\ Excused
                 \/ /\ Done(r, With(Pending(key))) /\ Breaks("unheard")
                    /\ said' = [Told(key) EXCEPT !.excuses = @ + 1]
    /\ UNCHANGED <<dns, coord, kv, seen>>

\* A save that fails ends the run only where it is the last step anyway.
Save(r) ==
    /\ Doing(r, {"save", "stamp"})
    /\ Done(r, run[r].state)
    /\ \/ Works /\ kv' = run[r].state /\ UNCHANGED said
       \/ /\ Works /\ Doing(r, {"save"}) /\ run[r].state = run[r].raw
          /\ UNCHANGED <<kv, said>>
       \/ Breaks("kv") /\ Excused /\ UNCHANGED kv
    /\ UNCHANGED <<dns, coord, seen>>

Settle(r, step, after) ==
    /\ Doing(r, {step})
    /\ Done(r, run[r].state)
    /\ (Works /\ coord' = after) \/ Unanswered(after)
    /\ Quiet

Confirm(r) == Settle(r, "confirm", AfterConfirm(coord))
Release(r) == Settle(r, "release", AfterRelease(coord))

-----------------------------------------------------------------------------
(* What happens around them.                                               *)

Crash(r) ==
    /\ run[r] # Idle /\ Breaks("crash") /\ Quit(r)
    /\ Excused
    /\ UNCHANGED <<dns, coord, kv, seen>>

OperatorEdits ==
    /\ \E d \in Edit \ {dns} :
        LET TooLate(r) == \/ run[r].phase \in {"begin", "begun", "disable"}
                          \/ At(r, "routes") /\ d.default # dns.default
        IN  /\ dns' = d
            /\ seen' = [seen EXCEPT !.late = @ \cup {r \in Run : TooLate(r)}]
    /\ Works /\ UNCHANGED <<coord, kv, run, said>>

\* A minute passes.  The body of a begin-mutation request is not that slow.
Claiming == {"record", "default", "routes", "begin"}
Tick ==
    /\ \A r \in Run : ~At(r, "begun") /\ (r \notin Slow => run[r].phase \notin Claiming)
    /\ coord' = Older(coord) /\ coord' # coord
    /\ Works /\ UNCHANGED run /\ Quiet

Check(r) ==
    \/ Start(r) \/ Look(r) \/ Standby(r) \/ Probe(r)
    \/ Healthy(r) \/ BothUnhealthy(r) \/ UnsafeFallback(r) \/ ManualDns(r)
    \/ ActiveFallbackUnhealthy(r) \/ AlreadyFallback(r)
    \/ FlushReset(r) \/ FlushSave(r) \/ RecordFailure(r)
    \/ RereadRecord(r) \/ RereadDefault(r) \/ RereadRoutes(r)
    \/ BeginMutation(r) \/ Granted(r) \/ DisableRecord(r) \/ VerifyDisabled(r)
    \/ SendAlert(r) \/ Save(r) \/ Confirm(r) \/ Release(r)

Next ==
    \/ \E r \in Run : Check(r) \/ Crash(r)
    \/ OperatorEdits
    \/ Tick

Spec == Init /\ [][Next]_vars

\* The cron trigger fires every minute, a started check runs to its end (every
\* fetch is answered or times out) and time passes.  Nothing is fair to the
\* operator, to a fault or to one verdict over another.
Fairness == WF_vars(Tick) /\ \A r \in Run : WF_vars(Check(r))

FairSpec == Spec /\ Fairness

-----------------------------------------------------------------------------
(* Properties.                                                             *)

\* Run r changes DNS in this step.
Disables(r) == At(r, "disable") /\ run'[r].phase # "disable" /\ dns' # dns

\* DNS is changed only after three checks, or more, that found EdgeOne failing
\* with the fallback healthy since the last check that found all healthy: the
\* streak survives no healthy check, though its reset may fail, be owed across
\* runs in KV and be delivered by a later one (index.js 638-660, 707-740).
SinceHealthy == \A r \in Run : Disables(r) => seen.sinceHealthy >= Threshold

ThreeSinceHealthy == [][SinceHealthy]_vars

\* The three are consecutive: no check of another verdict between them
\* (ops/edgeone/README.md, "requires three consecutive failures of either
\* EdgeOne path while direct Vercel and the dedicated path are healthy").
ThreeInARow ==
    [][\A r \in Run : Disables(r) => seen.inRow >= Threshold]_vars

\* "Re-read the record immediately before the mutation so an operator's DNS
\* change wins the race": an edit of DNS stops the run when it is in place before
\* the re-read that concerns it, whichever of the three re-reads it falls between.
\* A later one does not: DNSPod has no conditional update.
EditWins == \A r \in Run : Disables(r) => dns = Restored \/ r \in seen.late

EarlyEditWins == [][EditWins]_vars

\* Telegram gets another copy of the alert it accepted last only for a fault since:
\* its answer was lost, another alert failed, the save failed or the Worker was
\* stopped, and each such fault pays for one copy.  An alert whose answer was heard
\* is remembered across runs, whichever of the six kinds of run sends it, until a
\* healthy or a newly counted check (applyAlert and the guards before it).
AlertNotRepeated == ~said.repeated

\* A change of DNS is always told to the operator, in an alert that says so, though
\* the run that made it may crash, learn no outcome, Telegram refuse the alert or KV
\* the save: the next runs find the record disabled, send what is owed and tell it.
DisableIsAnnounced == (~said.announced) ~> said.announced

\* If from some time on every check finds EdgeOne failing and the fallback
\* healthy, DNS falls back: no lock, claim or owed reset that a dead run left
\* behind stops the watchdog for good.
FailsOverEventually == <>[](seen.last = "failing") => <>(dns.regional # "edge")

=============================================================================
