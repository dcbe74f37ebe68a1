------------------------- MODULE WatchdogRunsProofs -------------------------
(***************************************************************************)
(* Proofs about the settings of WatchdogRuns.  With an operator an early   *)
(* edit wins.  Of runs one after another, with nobody editing DNS, an      *)
(* alert is repeated only for a fault that pays for it, whatever fails;    *)
(* the streak is earned for the faults it survives.                        *)
(***************************************************************************)
EXTENDS WatchdogRuns, WatchdogProofs

-----------------------------------------------------------------------------
(* The operator.                                                           *)

OperatorPart == part = "operator" => Operator!TypeOK /\ Operator!EditSeen

LEMMA OperatorInit == PartInit => OperatorPart
<1> SUFFICES ASSUME PartInit, part = "operator" PROVE Operator!TypeOK /\ Operator!EditSeen
  BY DEF OperatorPart
<1>1. Operator!Init
  BY DEF PartInit
<1> QED
  BY <1>1, OperatorAssumptions, Operator!InitTypes, Operator!InitEditSeen
  DEF Operator!Assumptions, Operator!CoordinatorAssumption, Operator!WatchdogAssumption

\* A step of the setting is a step of its instance.
LEMMA OperatorStep ==
    ASSUME [PartNext]_<<part, vars>>
    PROVE  part' = part /\ (part = "operator" => [Operator!Next]_(Operator!vars))
BY DEF PartNext, vars, Operator!vars

LEMMA OperatorNext == OperatorPart /\ [PartNext]_<<part, vars>> => OperatorPart'
<1> SUFFICES ASSUME OperatorPart, [PartNext]_<<part, vars>>, part' = "operator"
             PROVE  Operator!TypeOK' /\ Operator!EditSeen'
  BY DEF OperatorPart
<1>1. Operator!TypeOK /\ Operator!EditSeen /\ [Operator!Next]_(Operator!vars)
  BY OperatorStep DEF OperatorPart
<1> QED
  BY <1>1, OperatorAssumptions, Operator!NextTypes, Operator!NextEditSeen
  DEF Operator!Assumptions, Operator!CoordinatorAssumption, Operator!WatchdogAssumption

\* An operator's edit that is in place before the re-read that concerns it stops the
\* run, for any number of overlapping runs and any time to live of their claims.
THEOREM OperatorWinsHolds == PartSpec => OperatorWins
<1>1. OperatorPart /\ [PartNext]_<<part, vars>>
        => [part = "operator" => Operator!EditWins]_<<part, vars>>
  <2> SUFFICES ASSUME OperatorPart, [PartNext]_<<part, vars>>, part = "operator"
               PROVE  Operator!EditWins
    OBVIOUS
  <2>1. Operator!TypeOK /\ Operator!EditSeen /\ [Operator!Next]_(Operator!vars)
    BY OperatorStep DEF OperatorPart
  <2> QED
    BY <2>1, OperatorAssumptions, Operator!NextEditWins
    DEF Operator!Assumptions, Operator!CoordinatorAssumption, Operator!WatchdogAssumption
<1> QED
  BY <1>1, OperatorInit, OperatorNext, PTL DEF PartSpec, OperatorWins

-----------------------------------------------------------------------------
(* One run after another: types.                                           *)

LEMMA SequentialStep ==
    ASSUME [PartNext]_<<part, vars>>
    PROVE  part' = part /\ (part = "sequential" => [Next]_vars)
BY DEF PartNext

LEMMA SequentialTypes == PartTypeOK /\ [PartNext]_<<part, vars>> => PartTypeOK'
BY SequentialStep, ProofAssumptions, NextTypes DEF PartTypeOK

\* One run after another keeps its types: so do any runs.
THEOREM PartTypeOKHolds == PartSpec => []PartTypeOK
<1>1. PartInit => PartTypeOK
  BY ProofAssumptions, InitTypes DEF PartInit, PartTypeOK
<1> QED
  BY <1>1, SequentialTypes, PTL DEF PartSpec

-----------------------------------------------------------------------------
(* One run after another, and nobody edits DNS.                            *)

OneAtATime == \A r, s \in Run : r = s
Undisturbed == Assumptions /\ OneAtATime /\ Edit = {}

OnFallen == {"look", "standby", "already", "active", "verify", "end"}
OnRestored == {"look", "probe", "healthy", "both", "unsafe", "failing", "flush", "count",
               "record", "default", "routes", "begin", "begun", "disable", "end"}

\* A run is where DNS lets it be.
Fits(r) == run[r] # Idle =>
    \/ dns = Restored /\ run[r].phase \in OnRestored
    \/ dns = Fallen /\ run[r].phase \in OnFallen

\* A run that ends does so in one of the ways there are.
EndsWell(r) == At(r, "end") => run[r].todo \in Endings

\* DNS is as it was or has fallen back.
DnsKnown == dns \in {Restored, Fallen} /\ \A r \in Run : Fits(r) /\ EndsWell(r)

LEMMA DnsFacts ==
    /\ dns = Restored => ~FellBack /\ dns.regional = "edge" /\ dns.default /\ ~dns.spare
    /\ dns = Fallen => FellBack
    /\ Restored # Fallen
BY DEF Restored, Fallen, FellBack

\* What is left of each ending after its first step.
Telling == {<<"alert", "save">>, <<"alert", "confirm", "save">>,
            <<"stamp", "alert", "stamp">>, <<"alert", "stamp">>,
            <<"stamp", "alert", "stamp", "release">>, <<"alert", "stamp", "release">>,
            <<"stamp", "alert", "stamp", "confirm">>, <<"alert", "stamp", "confirm">>}
Saving == {<<"save">>, <<"alert", "save">>, <<"alert", "confirm", "save">>, <<"confirm", "save">>}
Spent == {<<"release">>, <<"confirm">>}

LEMMA EndingHeads ==
    ASSUME NEW todo \in Endings
    PROVE  /\ Head(todo) = "alert" =>
                 /\ todo \in Telling
                 /\ Tail(todo) \in Endings \ (Telling \cup Spent)
                 /\ Tail(todo) \in Saving => todo \in Saving
           /\ Head(todo) = "stamp" =>
                 /\ todo \notin Saving \cup Spent
                 /\ Tail(todo) # <<>> =>
                      /\ Tail(todo) \in Endings \ Saving
                      /\ todo \in Telling => Tail(todo) \in Telling
                      /\ todo \notin Telling => Tail(todo) \in Spent \ Telling
                 /\ Tail(todo) = <<>> => todo \notin Telling
           /\ Head(todo) = "save" =>
                 todo = <<"save">> /\ Tail(todo) = <<>> /\ todo \in Saving \ Telling
           /\ Head(todo) \in {"confirm", "release"} =>
                 /\ todo \notin Telling
                 /\ \/ todo \in Spent /\ Tail(todo) = <<>>
                    \/ todo = <<"confirm", "save">> /\ Tail(todo) = <<"save">>
                       /\ todo \in Saving /\ Tail(todo) \in Endings \cap Saving
<1>1. CASE todo = <<"save">>
  <2>1. Head(todo) = "save" /\ Tail(todo) = <<>>
    BY <1>1
  <2> QED
    BY <1>1, <2>1 DEF Endings, Telling, Saving, Spent
<1>2. CASE todo = <<"stamp">>
  <2>1. Head(todo) = "stamp" /\ Tail(todo) = <<>>
    BY <1>2
  <2> QED
    BY <1>2, <2>1 DEF Endings, Telling, Saving, Spent
<1>3. CASE todo = <<"alert", "save">>
  <2>1. Head(todo) = "alert" /\ Tail(todo) = <<"save">>
    BY <1>3
  <2> QED
    BY <1>3, <2>1 DEF Endings, Telling, Saving, Spent
<1>4. CASE todo = <<"alert", "confirm", "save">>
  <2>1. Head(todo) = "alert" /\ Tail(todo) = <<"confirm", "save">>
    BY <1>4
  <2> QED
    BY <1>4, <2>1 DEF Endings, Telling, Saving, Spent
<1>5. CASE todo = <<"confirm", "save">>
  <2>1. Head(todo) = "confirm" /\ Tail(todo) = <<"save">>
    BY <1>5
  <2> QED
    BY <1>5, <2>1 DEF Endings, Telling, Saving, Spent
<1>6. CASE todo = <<"stamp", "alert", "stamp">>
  <2>1. Head(todo) = "stamp" /\ Tail(todo) = <<"alert", "stamp">>
    BY <1>6
  <2> QED
    BY <1>6, <2>1 DEF Endings, Telling, Saving, Spent
<1>7. CASE todo = <<"alert", "stamp">>
  <2>1. Head(todo) = "alert" /\ Tail(todo) = <<"stamp">>
    BY <1>7
  <2> QED
    BY <1>7, <2>1 DEF Endings, Telling, Saving, Spent
<1>8. CASE todo = <<"stamp", "alert", "stamp", "release">>
  <2>1. Head(todo) = "stamp" /\ Tail(todo) = <<"alert", "stamp", "release">>
    BY <1>8
  <2> QED
    BY <1>8, <2>1 DEF Endings, Telling, Saving, Spent
<1>9. CASE todo = <<"alert", "stamp", "release">>
  <2>1. Head(todo) = "alert" /\ Tail(todo) = <<"stamp", "release">>
    BY <1>9
  <2> QED
    BY <1>9, <2>1 DEF Endings, Telling, Saving, Spent
<1>10. CASE todo = <<"stamp", "release">>
  <2>1. Head(todo) = "stamp" /\ Tail(todo) = <<"release">>
    BY <1>10
  <2> QED
    BY <1>10, <2>1 DEF Endings, Telling, Saving, Spent
<1>11. CASE todo = <<"release">>
  <2>1. Head(todo) = "release" /\ Tail(todo) = <<>>
    BY <1>11
  <2> QED
    BY <1>11, <2>1 DEF Endings, Telling, Saving, Spent
<1>12. CASE todo = <<"stamp", "alert", "stamp", "confirm">>
  <2>1. Head(todo) = "stamp" /\ Tail(todo) = <<"alert", "stamp", "confirm">>
    BY <1>12
  <2> QED
    BY <1>12, <2>1 DEF Endings, Telling, Saving, Spent
<1>13. CASE todo = <<"alert", "stamp", "confirm">>
  <2>1. Head(todo) = "alert" /\ Tail(todo) = <<"stamp", "confirm">>
    BY <1>13
  <2> QED
    BY <1>13, <2>1 DEF Endings, Telling, Saving, Spent
<1>14. CASE todo = <<"stamp", "confirm">>
  <2>1. Head(todo) = "stamp" /\ Tail(todo) = <<"confirm">>
    BY <1>14
  <2> QED
    BY <1>14, <2>1 DEF Endings, Telling, Saving, Spent
<1>15. CASE todo = <<"confirm">>
  <2>1. Head(todo) = "confirm" /\ Tail(todo) = <<>>
    BY <1>15
  <2> QED
    BY <1>15, <2>1 DEF Endings, Telling, Saving, Spent
<1> QED
  BY <1>1, <1>2, <1>3, <1>4, <1>5, <1>6, <1>7, <1>8, <1>9, <1>10, <1>11, <1>12, <1>13,
     <1>14, <1>15 DEF Endings

\* Where a step takes the run that moves.
LEMMA MovesFits ==
    ASSUME TypeOK, NEW r \in Run, EndsWell(r), dns \in {Restored, Fallen}, Fits(r)
    PROVE  /\ Stops(r) => Fits(r)' /\ EndsWell(r)'
           /\ \A phase : Moves(r, phase) /\ phase # "end" => EndsWell(r)'
           /\ \A phase \in OnRestored : Moves(r, phase) /\ dns' = Restored => Fits(r)'
           /\ \A phase \in OnFallen : Moves(r, phase) /\ dns' = Fallen => Fits(r)'
           /\ \A state, key : \A todo \in Endings :
                Settles(r, state, key, todo) /\ dns' \in {Restored, Fallen}
                  => Fits(r)' /\ EndsWell(r)'
<1>1. Stops(r) => Fits(r)' /\ EndsWell(r)'
  BY IdleIsNone DEF Stops, Fits, EndsWell, At, Phase
<1>2. \A phase : Moves(r, phase) /\ phase # "end" => EndsWell(r)'
  BY DEF Moves, EndsWell, At
<1>3. "end" \in OnRestored \cap OnFallen
  BY DEF OnRestored, OnFallen
<1> QED
  BY <1>1, <1>2, <1>3 DEF Moves, Settles, Fits, EndsWell, At

\* The endings a run begins.
LEMMA Begun ==
    /\ <<"save">> \in Endings \ (Telling \cup Spent)
    /\ <<"stamp">> \in Endings \ (Telling \cup Spent)
    /\ <<"alert", "save">> \in Endings \ Spent /\ <<"alert", "save">> \in Telling
    /\ <<"alert", "confirm", "save">> \in Endings \ Spent
    /\ <<"alert", "confirm", "save">> \in Telling
    /\ <<"stamp", "alert", "stamp">> \in Endings \ Spent
    /\ <<"stamp", "alert", "stamp">> \in Telling
    /\ Unlocking \in Endings \ Spent /\ Unlocking \in Telling
    /\ <<"stamp", "alert", "stamp", "confirm">> \in Endings \ Spent
    /\ <<"stamp", "alert", "stamp", "confirm">> \in Telling
BY DEF Endings, Telling, Spent, Unlocking

LEMMA StepsOnFits ==
    ASSUME TypeOK, NEW r \in Run, EndsWell(r), dns \in {Restored, Fallen}, Fits(r),
           run[r].todo # <<>>, At(r, "end"), NEW state, StepsOn(r, state), dns' = dns
    PROVE  Fits(r)' /\ EndsWell(r)'
<1>1. CASE Tail(run[r].todo) = <<>>
  BY <1>1, MovesFits DEF StepsOn
<1>2. CASE Tail(run[r].todo) # <<>>
  <2>1. Tail(run[r].todo) \in Endings
    <3>1. run[r].todo \in Endings
      BY DEF EndsWell
    <3>2. Head(run[r].todo) \in Step
      BY <3>1 DEF Endings, Step
    <3> QED
      BY <1>2, <3>1, <3>2, EndingHeads DEF Step
  <2> QED
    BY <1>2, <2>1, MovesFits DEF StepsOn
<1> QED
  BY <1>1, <1>2

LEMMA CheckDnsKnown ==
    ASSUME Undisturbed, TypeOK, DnsKnown, NEW r \in Run, Check(r) PROVE DnsKnown'
<1> USE DEF OnRestored, OnFallen
<1>1. /\ dns \in {Restored, Fallen} /\ Fits(r) /\ EndsWell(r) /\ Assumptions
      /\ \A s \in Run : s = r
  BY DEF DnsKnown, Undisturbed, OneAtATime
<1> SUFFICES dns' \in {Restored, Fallen} /\ Fits(r)' /\ EndsWell(r)'
  BY <1>1 DEF DnsKnown
<1>2. CASE Start(r)
  <2>1. run'[r].phase = "look" /\ dns' = dns
    BY <1>1, <1>2, StartEffect DEF Start
  <2> QED
    BY <1>1, <2>1 DEF Fits, EndsWell, At
<1>3. CASE Look(r)
  <2>1. dns' = dns /\ Fits(r)
    BY <1>1, <1>3, LookMoves DEF Quiet
  <2> QED
    BY <1>1, <1>3, <2>1, LookMoves, DnsFacts, MovesFits DEF Goes
<1>4. CASE Standby(r)
  <2>1. dns = Fallen /\ dns' = dns
    BY <1>1, <1>4, StandbyMoves, IdleIsNone DEF Fits, Standby, At, Quiet
  <2> QED
    BY <1>1, <1>4, <2>1, StandbyMoves, MovesFits DEF Goes
<1>5. CASE Probe(r)
  <2>1. dns = Restored /\ dns' = dns
    BY <1>1, <1>5, ProbeMoves, IdleIsNone DEF Fits, Probe, At
  <2>2. PICK verdict \in Verdicts : Goes(r, verdict)
    BY <1>1, <1>5, ProbeMoves
  <2>3. verdict \in {"healthy", "both", "unsafe", "failing"}
    BY <1>1 DEF Assumptions, WatchdogAssumption, Verdict
  <2> QED
    BY <1>1, <2>1, <2>2, <2>3, MovesFits DEF Goes
<1>6. CASE Healthy(r)
  BY <1>1, <1>6, HealthyMoves, Begun, MovesFits
<1>7. CASE BothUnhealthy(r)
  BY <1>1, <1>7, BothUnhealthyMoves, Begun, MovesFits DEF Quiet
<1>8. ASSUME UnsafeFallback(r) \/ ManualDns(r)
      PROVE dns' \in {Restored, Fallen} /\ Fits(r)' /\ EndsWell(r)'
  BY <1>1, <1>8, CallMoves, Begun, MovesFits DEF Quiet
<1>9. CASE ActiveFallbackUnhealthy(r)
  BY <1>1, <1>9, ActiveFallbackMoves, Begun, MovesFits DEF Quiet
<1>10. CASE AlreadyFallback(r)
  <2>1. dns = Fallen /\ dns' = dns
    BY <1>1, <1>10, AlreadyFallbackMoves, IdleIsNone DEF Fits, AlreadyFallback, At, Quiet
  <2> QED
    BY <1>1, <1>10, <2>1, AlreadyFallbackMoves, DnsFacts, Begun, MovesFits
<1>11. CASE FlushReset(r)
  <2>1. dns = Restored /\ dns' = dns
    BY <1>1, <1>11, FlushResetMoves, IdleIsNone DEF Fits, FlushReset, At, Quiet
  <2> QED
    BY <1>1, <1>11, <2>1, FlushResetMoves, Begun, MovesFits DEF Goes
<1>12. CASE FlushSave(r)
  <2>1. dns = Restored /\ dns' = dns
    BY <1>1, <1>12, FlushSaveMoves, IdleIsNone DEF Fits, FlushSave, At
  <2> QED
    BY <1>1, <1>12, <2>1, FlushSaveMoves, Begun, MovesFits DEF Goes
<1>13. CASE RecordFailure(r)
  <2>1. dns = Restored /\ dns' = dns
    BY <1>1, <1>13, RecordFailureMoves, IdleIsNone DEF Fits, RecordFailure, At
  <2> QED
    BY <1>1, <1>13, <2>1, RecordFailureMoves, Begun, MovesFits DEF Goes
<1>14. ASSUME RereadRecord(r) \/ RereadDefault(r) \/ RereadRoutes(r)
       PROVE dns' \in {Restored, Fallen} /\ Fits(r)' /\ EndsWell(r)'
  <2>1. dns = Restored /\ dns' = dns
    BY <1>1, <1>14, RereadAll, IdleIsNone
    DEF Fits, RereadRecord, RereadDefault, RereadRoutes, Reread, At, Quiet
  <2>2. Goes(r, "default") \/ Goes(r, "routes") \/ Goes(r, "begin") \/ Stops(r)
    BY <1>1, <1>14, <2>1, RereadRestored
  <2> QED
    BY <1>1, <2>1, <2>2, MovesFits DEF Goes
<1>15. CASE BeginMutation(r)
  <2>1. dns = Restored /\ dns' = dns
    BY <1>1, <1>15, BeginMutationMoves, IdleIsNone DEF Fits, BeginMutation, At, Quiet
  <2> QED
    BY <1>1, <1>15, <2>1, BeginMutationMoves, Begun, MovesFits DEF Goes
<1>16. CASE Granted(r)
  <2>1. dns = Restored /\ dns' = dns
    BY <1>1, <1>16, GrantedMoves, IdleIsNone DEF Fits, Granted, At, Quiet
  <2> QED
    BY <1>1, <1>16, <2>1, GrantedMoves, Begun, MovesFits DEF Goes
<1>17. CASE DisableRecord(r)
  <2>1. [dns EXCEPT !.regional = Switched] = Fallen
    BY <1>1, SwitchedSeen DEF TypeOK
  <2>2. dns' \in {Restored, Fallen}
    BY <1>1, <1>17, <2>1, DisableRecordMoves
  <2>3. CASE Goes(r, "verify") /\ dns' = [dns EXCEPT !.regional = Switched]
    BY <1>1, <2>1, <2>3, MovesFits DEF Goes
  <2>4. ASSUME NEW state, NEW key, Settles(r, state, key, Unlocking)
        PROVE  Fits(r)' /\ EndsWell(r)'
    BY <1>1, <2>2, <2>4, Begun, MovesFits
  <2> QED
    BY <1>1, <1>17, <2>2, <2>3, <2>4, DisableRecordMoves
<1>18. CASE VerifyDisabled(r)
  BY <1>1, <1>18, VerifyDisabledMoves, Begun, MovesFits DEF Quiet
<1>19. CASE SendAlert(r)
  BY <1>1, <1>19, SendAlertMoves, StepsOnFits DEF SendAlert, Doing
<1>20. CASE Save(r)
  BY <1>1, <1>20, SaveMoves, StepsOnFits DEF Save, Doing
<1>21. ASSUME Confirm(r) \/ Release(r)
       PROVE dns' \in {Restored, Fallen} /\ Fits(r)' /\ EndsWell(r)'
  BY <1>1, <1>21, SettleMoves, StepsOnFits DEF Confirm, Release, Settle, Doing, Quiet
<1> QED
  BY <1>2, <1>3, <1>4, <1>5, <1>6, <1>7, <1>8, <1>9, <1>10, <1>11, <1>12, <1>13,
     <1>14, <1>15, <1>16, <1>17, <1>18, <1>19, <1>20, <1>21 DEF Check

LEMMA InitDnsKnown == Init => DnsKnown
<1> SUFFICES ASSUME Init PROVE DnsKnown
  OBVIOUS
<1>1. dns = Restored /\ \A r \in Run : run[r] = Idle
  BY DEF Init
<1> QED
  BY <1>1, IdleIsNone DEF DnsKnown, Fits, EndsWell, At

\* Whoever moves is a run that checks or crashes, or nothing happens to the runs.
LEMMA NextSteps ==
    ASSUME Undisturbed, TypeOK, [Next]_vars
    PROVE  \/ \E r \in Run : Check(r) \/ Crash(r)
           \/ /\ UNCHANGED <<dns, kv, run, seen, said>>
              /\ \/ UNCHANGED coord
                 \/ /\ coord' = Older(coord)
                    /\ \A r \in Run : ~At(r, "begun")
<1>1. ~OperatorEdits
  BY DEF OperatorEdits, Undisturbed
<1>2. CASE Tick
  BY <1>2 DEF Tick, Quiet
<1>3. CASE UNCHANGED vars
  BY <1>3 DEF vars
<1> QED
  BY <1>1, <1>2, <1>3 DEF Next

LEMMA NextDnsKnown == ASSUME Undisturbed, TypeOK, DnsKnown, [Next]_vars PROVE DnsKnown'
<1>1. ASSUME NEW r \in Run, Check(r) PROVE DnsKnown'
  BY <1>1, CheckDnsKnown
<1>2. ASSUME NEW r \in Run, Crash(r) PROVE DnsKnown'
  <2>1. Stops(r) /\ dns' = dns /\ \A s \in Run : s = r
    BY <1>2, CrashMoves DEF Undisturbed, OneAtATime, Quiet
  <2> QED
    BY <2>1, MovesFits DEF DnsKnown
<1>3. CASE UNCHANGED <<dns, run>>
  BY <1>3 DEF DnsKnown, Fits, EndsWell, At
<1> QED
  BY <1>1, <1>2, <1>3, NextSteps

-----------------------------------------------------------------------------
(* One run after another repeats no alert without a fault that excuses it. *)

\* What Telegram accepted last still counts, and no fault excuses a copy of it.
Counts == said.last # "none" /\ said.excuses = 0

\* alert is what was said last, if that counts; an alert that is owed has a key.
Owed(alert) == alert.sent \/ alert.key # "none"
Remembers(alert) == (Counts => alert = Sent(said.last)) /\ Owed(alert)

\* What the next alert is compared with: what was said, or another that is to be told.
Telltale(alert, key) ==
    /\ key # "none" /\ Owed(alert)
    /\ Counts => alert = Sent(said.last) \/ (alert = Pending(key) /\ key # said.last)

\* What KV and the run remember of the alerts.
AlertKept(r) ==
    /\ Owed(kv.alert)
    /\ run[r] = Idle => Remembers(kv.alert)
    /\ run[r] # Idle /\ run[r].phase # "end" =>
         /\ Remembers(kv.alert)
         /\ run[r].state.alert = kv.alert /\ run[r].raw.alert = kv.alert
    /\ At(r, "end") =>
         LET alert == run[r].state.alert
             todo == run[r].todo
         IN  /\ todo \in Telling => Telltale(alert, run[r].key)
             /\ todo \notin Telling => Remembers(alert)
             /\ todo \in Saving => run[r].raw.alert = kv.alert
             /\ todo \in Spent => alert = kv.alert \/ said.excuses # 0

\* Only of a DNS that has fallen back is it told that it has.
FallbackTold(r) ==
    /\ said.last = "fallback" => dns = Fallen
    /\ At(r, "verify") => said.last # "fallback"
    /\ At(r, "end") /\ run[r].key = "fallback" => dns = Fallen

AlertsKept == AlertNotRepeated /\ \A r \in Run : AlertKept(r) /\ FallbackTold(r)

\* A step that tells nothing and saves nothing, before the verdict or to it.
LEMMA AlertMoves ==
    ASSUME NEW r \in Run, AlertKept(r), FallbackTold(r), run[r].phase \notin {"idle", "end"},
           dns' = dns, kv' = kv, said' = said
    PROVE  /\ Stops(r) => AlertKept(r)' /\ FallbackTold(r)'
           /\ \A phase : Goes(r, phase) /\ phase \notin {"idle", "end", "verify"}
                => AlertKept(r)' /\ FallbackTold(r)'
<1>1. run[r] # Idle /\ Idle.phase = "idle"
  BY IdleIsNone
<1>2. ASSUME Stops(r) PROVE AlertKept(r)' /\ FallbackTold(r)'
  BY <1>1, <1>2 DEF Stops, AlertKept, FallbackTold, At, Remembers, Counts
<1>3. ASSUME NEW phase, Goes(r, phase), phase \notin {"idle", "end", "verify"}
      PROVE  AlertKept(r)' /\ FallbackTold(r)'
  BY <1>1, <1>3 DEF Goes, Moves, AlertKept, FallbackTold, At, Remembers, Counts
<1> QED
  BY <1>2, <1>3

\* The verdict is known: what must hold of the alert that is to be told.
LEMMA AlertSettles ==
    ASSUME NEW r \in Run, AlertKept(r), run[r].phase \notin {"idle", "end"}, kv' = kv,
           NEW state, NEW key, NEW todo \in Endings \ Spent, Settles(r, state, key, todo),
           todo \in Telling => Telltale(state.alert, key)',
           todo \notin Telling => Remembers(state.alert)',
           said'.last = "fallback" => dns' = Fallen,
           key = "fallback" => dns' = Fallen
    PROVE  AlertKept(r)' /\ FallbackTold(r)'
<1>1. run[r] # Idle /\ run'[r] # Idle /\ At(r, "end")' /\ ~At(r, "verify")'
  BY IdleIsNone DEF Settles, Moves, At
<1>2. /\ run'[r].state = state /\ run'[r].key = key /\ run'[r].todo = todo
      /\ run'[r].raw.alert = kv'.alert
  BY <1>1 DEF Settles, Moves, AlertKept
<1>3. AlertKept(r)'
  BY <1>1, <1>2 DEF AlertKept, At
<1> QED
  BY <1>1, <1>2, <1>3 DEF FallbackTold

\* The verdict is known and an alert is to be told, which is the last one or another ...
LEMMA AlertTells ==
    ASSUME NEW r \in Run, AlertKept(r), FallbackTold(r), run[r].phase \notin {"idle", "end"},
           kv' = kv, said'.last = said.last, said'.excuses = said.excuses,
           dns' \in {dns, Fallen},
           NEW state, NEW key, NEW todo \in Endings \ Spent, Settles(r, state, key, todo),
           todo \in Telling, key # "none", key = "fallback" => dns' = Fallen,
           state.alert \in {run[r].state.alert, Raised(r, key)}
    PROVE  AlertKept(r)' /\ FallbackTold(r)'
<1>1. Remembers(run[r].state.alert)
  BY IdleIsNone DEF AlertKept, At
<1>2. CASE state.alert = run[r].state.alert
  <2>1. Telltale(state.alert, key)'
    BY <1>1, <1>2 DEF Telltale, Remembers, Counts, Owed
  <2> QED
    BY <2>1, AlertSettles DEF FallbackTold
<1>3. CASE state.alert = Pending(key) /\ run[r].state.alert # Sent(key)
  <2>1. Telltale(state.alert, key)'
    BY <1>1, <1>3 DEF Telltale, Remembers, Counts, Owed, Pending
  <2> QED
    BY <2>1, AlertSettles DEF FallbackTold
<1> QED
  BY <1>2, <1>3 DEF Raised

LEMMA OwingAlert ==
    ASSUME TypeOK, NEW r \in Run, run[r].phase # "idle", NEW b \in BOOLEAN
    PROVE  Owing(r, b).alert = run[r].state.alert
BY Busy, StateTypes DEF AlertKey

\* An alert that must be retried is one of those.
LEMMA AlertRaised ==
    ASSUME NEW r \in Run, AlertKept(r), FallbackTold(r), run[r].phase \notin {"idle", "end"},
           kv' = kv, said'.last = said.last, said'.excuses = said.excuses,
           dns' \in {dns, Fallen},
           NEW key \in AlertKey \ {"none", "fallback"}, NEW todo \in Endings \ Spent,
           todo \in Telling, Settles(r, Alerting(r, FALSE, Raised(r, key)), key, todo)
    PROVE  AlertKept(r)' /\ FallbackTold(r)'
<1>1. Alerting(r, FALSE, Raised(r, key)).alert = Raised(r, key)
  BY DEF Alerting
<1> QED
  BY <1>1, AlertTells

LEMMA AlertKeys == {"lock", "mutation", "verify"} \subseteq AlertKey \ {"none", "fallback"}
BY DEF AlertKey

\* ... or there is none to tell.
LEMMA AlertSilent ==
    ASSUME NEW r \in Run, AlertKept(r), FallbackTold(r), run[r].phase \notin {"idle", "end"},
           kv' = kv, said' = said, dns' = dns,
           NEW state, NEW todo \in Endings \ (Telling \cup Spent),
           Settles(r, state, "none", todo), state.alert = run[r].state.alert
    PROVE  AlertKept(r)' /\ FallbackTold(r)'
<1>1. Remembers(run[r].state.alert)
  BY IdleIsNone DEF AlertKept, At
<1>2. Remembers(state.alert)'
  BY <1>1 DEF Remembers, Counts, Owed
<1> QED
  BY <1>2, AlertSettles DEF FallbackTold

\* A healthy or a newly counted check forgets the last alert.
LEMMA AlertForgotten ==
    ASSUME TypeOK, NEW r \in Run, AlertKept(r), FallbackTold(r),
           run[r].phase \notin {"idle", "end"}, kv' = kv, Forgotten,
           NEW todo \in Endings \ (Telling \cup Spent),
           Settles(r, Alerting(r, FALSE, NoAlert), "none", todo)
    PROVE  AlertKept(r)' /\ FallbackTold(r)' /\ said'.repeated = said.repeated
<1>1. said'.last = "none" /\ said'.repeated = said.repeated
  BY DEF TypeOK, Alerts, Forgotten
<1>2. Alerting(r, FALSE, NoAlert).alert = NoAlert /\ NoAlert.sent
  BY DEF Alerting, NoAlert
<1>3. Remembers(Alerting(r, FALSE, NoAlert).alert)'
  BY <1>1, <1>2 DEF Remembers, Counts, Owed, Alerting, NoAlert
<1> QED
  BY <1>1, <1>2, <1>3, AlertSettles DEF Remembers, Counts, Owed

\* Sending the alert: one that was sent already is not sent again.
LEMMA AlertSent ==
    ASSUME Undisturbed, TypeOK, DnsKnown, AlertsKept, NEW r \in Run, SendAlert(r)
    PROVE  AlertKept(r)' /\ FallbackTold(r)' /\ AlertNotRepeated'
<1> DEFINE todo == run[r].todo
           key == run[r].key
           alert == run[r].state.alert
<1>1. /\ At(r, "end") /\ todo \in Endings /\ Head(todo) = "alert"
      /\ AlertKept(r) /\ FallbackTold(r) /\ ~said.repeated /\ run[r] # Idle
      /\ Owed(kv.alert)
  BY IdleIsNone DEF SendAlert, Doing, DnsKnown, EndsWell, AlertsKept, AlertKept,
     AlertNotRepeated, At
<1>2. /\ Telltale(alert, key) /\ Tail(todo) \in Endings \ (Telling \cup Spent)
      /\ Tail(todo) # <<>> /\ (Tail(todo) \in Saving => run[r].raw.alert = kv.alert)
  BY <1>1, EndingHeads, EndingTypes DEF AlertKept
<1>3. UNCHANGED <<dns, kv>> /\ run[r] \in Invocation
  BY SendAlertMoves DEF Undisturbed
<1>4. ASSUME NEW state, StepsOn(r, state), Remembers(state.alert)', ~said'.repeated,
             said'.last = "fallback" => dns = Fallen
      PROVE  AlertKept(r)' /\ FallbackTold(r)' /\ AlertNotRepeated'
  <2>1. /\ run'[r] # Idle /\ run'[r].phase = "end" /\ run'[r].state = state
        /\ run'[r].key = key /\ run'[r].todo = Tail(todo) /\ run'[r].raw = run[r].raw
    BY <1>2, <1>4, IdleIsNone DEF StepsOn, Settles, Moves
  <2>2. AlertKept(r)'
    BY <1>1, <1>2, <1>3, <1>4, <2>1 DEF AlertKept, Owed, At
  <2>3. FallbackTold(r)'
    BY <1>1, <1>3, <1>4, <2>1 DEF FallbackTold, At
  <2> QED
    BY <1>4, <2>2, <2>3 DEF AlertNotRepeated
<1>5. CASE alert = Sent(key) /\ StepsOn(r, run[r].state) /\ UNCHANGED said
  <2>1. Remembers(alert)
    BY <1>2, <1>5 DEF Telltale, Remembers, Counts, Sent, Pending, Owed
  <2> QED
    BY <1>1, <1>4, <1>5, <2>1 DEF Remembers, Counts, Owed, FallbackTold
<1>6. /\ key \in AlertKey /\ Told(key) \in Alerts /\ Told(key).last = key
      /\ alert # Sent(key) => ~Told(key).repeated
  <2>1. key \in AlertKey /\ said \in Alerts
    BY <1>3, Fields DEF TypeOK
  <2>2. alert # Sent(key) => ~(key = said.last /\ said.excuses = 0)
    BY <1>2 DEF Telltale, Counts, Sent, Pending
  <2> QED
    BY <1>1, <2>1, <2>2, ToldFields
<1>7. key = "fallback" => dns = Fallen
  BY <1>1, IdleIsNone DEF FallbackTold
<1>8. CASE /\ alert # Sent(key) /\ said' = Told(key)
           /\ StepsOn(r, [run[r].state EXCEPT !.alert = Sent(key)])
  <2>1. [run[r].state EXCEPT !.alert = Sent(key)].alert = Sent(key) /\ Sent(key).sent
    BY <1>3 DEF Invocation, Stored, Sent
  <2>2. said'.last = key /\ ~said'.repeated
    BY <1>6, <1>8
  <2> QED
    BY <1>4, <1>7, <1>8, <2>1, <2>2 DEF Remembers, Counts, Owed
<1>9. CASE /\ alert # Sent(key)
           /\ Excused \/ said' = [Told(key) EXCEPT !.excuses = @ + 1]
           /\ StepsOn(r, [run[r].state EXCEPT !.alert = Pending(key)])
  <2>1. /\ [run[r].state EXCEPT !.alert = Pending(key)].alert = Pending(key)
        /\ Pending(key).key = key /\ key # "none"
    BY <1>2, <1>3 DEF Invocation, Stored, Pending, Telltale, Counts
  <2>2. CASE Excused
    <3>1. said'.excuses # 0 /\ said'.last = said.last /\ ~said'.repeated
      BY <1>1, <2>2 DEF Excused, TypeOK, Alerts
    <3> QED
      BY <1>1, <1>4, <1>9, <2>1, <3>1 DEF Remembers, Counts, Owed, FallbackTold
  <2>3. CASE said' = [Told(key) EXCEPT !.excuses = @ + 1]
    <3>1. said'.excuses # 0 /\ said'.last = key /\ ~said'.repeated
      BY <1>6, <1>9, <2>3 DEF Alerts
    <3> QED
      BY <1>4, <1>7, <1>9, <2>1, <3>1 DEF Remembers, Counts, Owed
  <2> QED
    BY <1>9, <2>2, <2>3
<1> QED
  BY <1>5, <1>8, <1>9, SendAlertMoves DEF Undisturbed

\* Saving: KV has what the run remembers, or a fault excuses that it has not.
LEMMA AlertSaved ==
    ASSUME Undisturbed, TypeOK, DnsKnown, AlertsKept, NEW r \in Run, Save(r)
    PROVE  AlertKept(r)' /\ FallbackTold(r)' /\ AlertNotRepeated'
<1> DEFINE todo == run[r].todo
           alert == run[r].state.alert
<1>1. /\ At(r, "end") /\ todo \in Endings /\ Head(todo) \in {"save", "stamp"}
      /\ AlertKept(r) /\ FallbackTold(r) /\ AlertNotRepeated /\ run[r] # Idle
  BY IdleIsNone DEF Save, Doing, DnsKnown, EndsWell, AlertsKept, At
<1>2. /\ dns' = dns /\ StepsOn(r, run[r].state)
      /\ \/ kv' = run[r].state /\ UNCHANGED said
         \/ Head(todo) = "save" /\ run[r].state = run[r].raw /\ UNCHANGED <<kv, said>>
         \/ Excused /\ UNCHANGED kv
  BY SaveMoves DEF Undisturbed, Doing
<1>3. /\ said'.last = said.last /\ said'.repeated = said.repeated
      /\ said'.excuses # 0 \/ said' = said
  BY <1>2 DEF Excused, TypeOK, Alerts
<1>4. /\ todo \in Telling => Telltale(alert, run[r].key)
      /\ todo \notin Telling => Remembers(alert)
      /\ Owed(kv.alert) /\ Owed(alert)
  BY <1>1 DEF AlertKept, Telltale, Remembers, Counts
<1>5. CASE Tail(todo) = <<>>
  <2>1. Remembers(alert)
    BY <1>1, <1>4, <1>5, EndingHeads
  <2>2. kv'.alert = alert \/ (said'.excuses # 0 /\ kv' = kv)
    BY <1>1, <1>2, <1>3, <1>5, EndingHeads DEF AlertKept, Excused, TypeOK, Alerts
  <2>3. run'[r] = Idle
    BY <1>2, <1>5 DEF StepsOn, Stops
  <2>4. Remembers(kv.alert)'
    BY <1>3, <1>4, <2>1, <2>2 DEF Remembers, Counts, Owed
  <2> QED
    BY <1>1, <1>2, <1>3, <2>3, <2>4, IdleIsNone
    DEF AlertKept, FallbackTold, AlertNotRepeated, Remembers, Counts, At
<1>6. CASE Tail(todo) # <<>>
  <2>1. Head(todo) = "stamp" /\ (kv'.alert = alert \/ (said'.excuses # 0 /\ kv' = kv))
    BY <1>1, <1>2, <1>6, EndingHeads DEF Excused, TypeOK, Alerts
  <2>2. /\ run'[r] # Idle /\ run'[r].phase = "end" /\ run'[r].state = run[r].state
        /\ run'[r].key = run[r].key /\ run'[r].todo = Tail(todo)
    BY <1>2, <1>6, IdleIsNone DEF StepsOn, Settles, Moves
  <2>3. /\ Tail(todo) \notin Saving
        /\ Tail(todo) \in Telling => Telltale(alert, run[r].key)
        /\ Tail(todo) \notin Telling => Remembers(alert)
    BY <1>1, <1>4, <1>6, <2>1, EndingHeads
  <2> HIDE DEF todo, alert
  <2>4. /\ Tail(todo) \in Telling => Telltale(alert, run[r].key)'
        /\ Tail(todo) \notin Telling => Remembers(alert)'
        /\ Owed(kv.alert)'
    BY <1>3, <1>4, <2>1, <2>2, <2>3 DEF Telltale, Remembers, Counts, Owed, alert
  <2>5. AlertKept(r)'
    BY <1>2, <2>1, <2>2, <2>3, <2>4 DEF AlertKept, At, todo, alert
  <2> QED
    BY <1>1, <1>2, <1>3, <2>2, <2>5 DEF FallbackTold, AlertNotRepeated, At
<1> QED
  BY <1>5, <1>6

LEMMA AlertSettled ==
    ASSUME Undisturbed, TypeOK, DnsKnown, AlertsKept, NEW r \in Run, Confirm(r) \/ Release(r)
    PROVE  AlertKept(r)' /\ FallbackTold(r)' /\ AlertNotRepeated'
<1> DEFINE todo == run[r].todo
<1>1. /\ At(r, "end") /\ todo \in Endings /\ Head(todo) \in {"confirm", "release"}
      /\ AlertKept(r) /\ FallbackTold(r) /\ AlertNotRepeated /\ run[r] # Idle
  BY IdleIsNone DEF Confirm, Release, Settle, Doing, DnsKnown, EndsWell, AlertsKept, At
<1>2. UNCHANGED <<dns, kv, said>> /\ StepsOn(r, run[r].state)
  BY SettleMoves DEF Undisturbed, Confirm, Release, Quiet
<1>3. Remembers(run[r].state.alert)
  BY <1>1, EndingHeads DEF AlertKept
<1>4. CASE todo \in Spent /\ Tail(todo) = <<>>
  <2>1. run'[r] = Idle /\ Remembers(kv.alert)
    BY <1>1, <1>2, <1>3, <1>4 DEF StepsOn, Stops, AlertKept, Remembers, Counts
  <2> QED
    BY <1>1, <1>2, <1>3, <2>1, IdleIsNone
    DEF AlertKept, FallbackTold, AlertNotRepeated, Remembers, Counts, At
<1>5. CASE todo \in Saving /\ Tail(todo) = <<"save">>
  <2>1. /\ run'[r] # Idle /\ run'[r].phase = "end" /\ run'[r].state = run[r].state
        /\ run'[r].key = run[r].key /\ run'[r].todo = <<"save">> /\ run'[r].raw = run[r].raw
    BY <1>2, <1>5, IdleIsNone, Begun, EndingTypes DEF StepsOn, Settles, Moves
  <2>2. run[r].raw.alert = kv.alert /\ <<"save">> \notin Telling \cup Spent /\ Owed(kv.alert)
    BY <1>1, <1>5, Begun DEF AlertKept
  <2>3. AlertKept(r)'
    BY <1>2, <1>3, <2>1, <2>2 DEF AlertKept, At, Remembers, Counts
  <2> QED
    BY <1>1, <1>2, <2>1, <2>3 DEF FallbackTold, AlertNotRepeated, At
<1> QED
  BY <1>1, <1>4, <1>5, EndingHeads

LEMMA CheckAlerts ==
    ASSUME Undisturbed, TypeOK, DnsKnown, AlertsKept, NEW r \in Run, Check(r)
    PROVE  AlertsKept'
<1>1. /\ AlertKept(r) /\ FallbackTold(r) /\ AlertNotRepeated /\ Fits(r) /\ Assumptions
      /\ dns \in {Restored, Fallen} /\ \A s \in Run : s = r
  BY DEF AlertsKept, DnsKnown, Undisturbed, OneAtATime
<1> SUFFICES AlertKept(r)' /\ FallbackTold(r)' /\ AlertNotRepeated'
  BY <1>1 DEF AlertsKept
<1>2. CASE Start(r)
  <2>1. run[r] = Idle /\ UNCHANGED <<dns, kv, said>>
    BY <1>2 DEF Start
  <2>2. /\ run'[r] # Idle /\ run'[r].phase = "look" /\ run'[r].raw = kv /\ run'[r].state = kv
    BY <1>1, <1>2, StartEffect, IdleIsNone
  <2> QED
    BY <1>1, <2>1, <2>2 DEF AlertKept, FallbackTold, AlertNotRepeated, At, Remembers, Counts
<1>3. CASE Look(r)
  <2>1. Stops(r) \/ Goes(r, "standby") \/ Goes(r, "probe") \/ Goes(r, "manual")
    BY <1>1, <1>3, LookMoves
  <2> QED
    BY <1>1, <1>3, <2>1, LookMoves, AlertMoves DEF Look, At, Quiet, AlertNotRepeated
<1>4. CASE Standby(r)
  BY <1>1, <1>4, StandbyMoves, AlertMoves DEF Standby, At, Quiet, AlertNotRepeated
<1>5. CASE Probe(r)
  <2>1. PICK verdict \in Verdicts : Goes(r, verdict)
    BY <1>1, <1>5, ProbeMoves
  <2>2. verdict \in {"healthy", "both", "unsafe", "failing"}
    BY <1>1 DEF Assumptions, WatchdogAssumption, Verdict
  <2> QED
    BY <1>1, <1>5, <2>1, <2>2, ProbeMoves, AlertMoves DEF Probe, At, AlertNotRepeated
<1>6. CASE Healthy(r)
  <2>1. /\ Owing(r, FALSE).alert = run[r].state.alert
        /\ Owing(r, TRUE).alert = run[r].state.alert /\ UNCHANGED <<dns, kv>>
    BY <1>1, <1>6, HealthyMoves, OwingAlert DEF Healthy, At
  <2>2. CASE UNCHANGED said /\ \E b \in BOOLEAN : Settles(r, Owing(r, b), "none", <<"save">>)
    BY <1>1, <1>6, <2>1, <2>2, Begun, AlertSilent DEF Healthy, At, AlertNotRepeated
  <2>3. CASE Forgotten /\ Settles(r, Alerting(r, FALSE, NoAlert), "none", <<"save">>)
    BY <1>1, <1>6, <2>1, <2>3, Begun, AlertForgotten DEF Healthy, At, AlertNotRepeated
  <2> QED
    BY <1>1, <1>6, <2>2, <2>3, HealthyMoves
<1>7. CASE BothUnhealthy(r)
  <2>1. UNCHANGED <<dns, kv, said>> /\ Owing(r, FALSE).alert = run[r].state.alert
    BY <1>1, <1>7, BothUnhealthyMoves, OwingAlert DEF BothUnhealthy, At, Quiet
  <2>2. CASE Settles(r, Owing(r, FALSE), "both", <<"alert", "save">>)
    BY <1>1, <1>7, <2>1, <2>2, Begun, AlertTells DEF BothUnhealthy, At, AlertNotRepeated
  <2>3. CASE Stops(r)
    BY <1>1, <1>7, <2>1, <2>3, AlertMoves DEF BothUnhealthy, At, AlertNotRepeated
  <2> QED
    BY <1>1, <1>7, <2>2, <2>3, BothUnhealthyMoves
<1>8. ASSUME UnsafeFallback(r) \/ ManualDns(r)
      PROVE  AlertKept(r)' /\ FallbackTold(r)' /\ AlertNotRepeated'
  <2>1. /\ UNCHANGED <<dns, kv, said>> /\ run[r].phase \notin {"idle", "end"}
        /\ \A b \in BOOLEAN : Owing(r, b).alert = run[r].state.alert
    BY <1>1, <1>8, CallMoves, OwingAlert DEF UnsafeFallback, ManualDns, At, Quiet
  <2>2. PICK b \in BOOLEAN, key \in AlertKey \ {"none", "fallback"} :
            Settles(r, Owing(r, b), key, <<"alert", "save">>)
    BY <1>1, <1>8, CallMoves
  <2> QED
    BY <1>1, <2>1, <2>2, Begun, AlertTells DEF AlertNotRepeated
<1>9. CASE ActiveFallbackUnhealthy(r)
  <2>1. UNCHANGED <<dns, kv, said>> /\ Owing(r, FALSE).alert = run[r].state.alert
    BY <1>1, <1>9, ActiveFallbackMoves, OwingAlert DEF ActiveFallbackUnhealthy, At, Quiet
  <2>2. Settles(r, Owing(r, FALSE), "active", <<"alert", "confirm", "save">>)
    BY <1>1, <1>9, ActiveFallbackMoves
  <2> QED
    BY <1>1, <1>9, <2>1, <2>2, Begun, AlertTells DEF ActiveFallbackUnhealthy, At, AlertNotRepeated
<1>10. CASE AlreadyFallback(r)
  <2>1. UNCHANGED <<dns, kv, said>> /\ Owing(r, FALSE).alert = run[r].state.alert
    BY <1>1, <1>10, AlreadyFallbackMoves, OwingAlert DEF AlreadyFallback, At, Quiet
  <2>2. CASE /\ FellBack
             /\ Settles(r, Owing(r, FALSE), AlreadyKey(r), <<"alert", "confirm", "save">>)
    <3>1. dns = Fallen
      BY <1>1, <2>2, DnsFacts
    <3>2. AlreadyKey(r) # "none"
      BY <1>1, <1>10, IdleIsNone
      DEF AlertKept, Remembers, Counts, Owed, AlreadyKey, AlreadyFallback, At
    <3> QED
      BY <1>1, <1>10, <2>1, <2>2, <3>1, <3>2, Begun, AlertTells
      DEF AlreadyFallback, At, AlertNotRepeated
  <2>3. CASE Goes(r, "manual") \/ Stops(r)
    BY <1>1, <1>10, <2>1, <2>3, AlertMoves DEF AlreadyFallback, At, AlertNotRepeated
  <2> QED
    BY <1>1, <1>10, <2>2, <2>3, AlreadyFallbackMoves
<1>11. CASE FlushReset(r)
  <2>1. UNCHANGED <<dns, kv, said>> /\ run[r].phase = "failing"
    BY <1>1, <1>11, FlushResetMoves DEF FlushReset, At, Quiet
  <2>2. CASE Goes(r, "count")
    BY <1>1, <2>1, <2>2, AlertMoves DEF AlertNotRepeated
  <2>3. CASE Moves(r, "flush") /\ run'[r].state = Owing(r, FALSE)
    <3>1. Owing(r, FALSE).alert = run[r].state.alert
      BY <1>1, <2>1, OwingAlert
    <3>2. run'[r] # Idle /\ run'[r].phase = "flush" /\ run'[r].raw = run[r].raw
      BY <2>3, IdleIsNone DEF Moves
    <3> QED
      BY <1>1, <2>1, <2>3, <3>1, <3>2, IdleIsNone
      DEF AlertKept, FallbackTold, AlertNotRepeated, Remembers, Counts, At
  <2>4. CASE Settles(r, run[r].state, "none", <<"save">>)
    BY <1>1, <2>1, <2>4, Begun, AlertSilent DEF AlertNotRepeated
  <2> QED
    BY <1>1, <1>11, <2>2, <2>3, <2>4, FlushResetMoves
<1>12. CASE FlushSave(r)
  <2>1. UNCHANGED <<dns, said>> /\ run[r].phase = "flush"
    BY <1>1, <1>12, FlushSaveMoves DEF FlushSave, At
  <2>2. CASE kv' = run[r].state /\ Goes(r, "count")
    <3>1. /\ run'[r] # Idle /\ run'[r].phase = "count" /\ run'[r].raw = run[r].raw
          /\ run'[r].state = run[r].state
      BY <2>2, IdleIsNone DEF Goes, Moves
    <3> QED
      BY <1>1, <2>1, <2>2, <3>1, IdleIsNone
      DEF AlertKept, FallbackTold, AlertNotRepeated, Remembers, Counts, At
  <2>3. CASE UNCHANGED kv /\ Settles(r, run[r].state, "none", <<"save">>)
    BY <1>1, <2>1, <2>3, Begun, AlertSilent DEF AlertNotRepeated
  <2> QED
    BY <1>1, <1>12, <2>2, <2>3, FlushSaveMoves
<1>13. CASE RecordFailure(r)
  <2>1. /\ UNCHANGED <<dns, kv>> /\ run[r].phase = "count"
        /\ Owing(r, FALSE).alert = run[r].state.alert
    BY <1>1, <1>13, RecordFailureMoves, OwingAlert DEF RecordFailure, At
  <2>2. CASE (Goes(r, "record") \/ Stops(r)) /\ UNCHANGED said
    BY <1>1, <2>1, <2>2, AlertMoves DEF AlertNotRepeated
  <2>3. CASE Settles(r, Owing(r, FALSE), "none", <<"stamp">>) /\ UNCHANGED said
    BY <1>1, <2>1, <2>3, Begun, AlertSilent DEF AlertNotRepeated
  <2>4. CASE Settles(r, Alerting(r, FALSE, NoAlert), "none", <<"stamp">>) /\ Forgotten
    BY <1>1, <2>1, <2>4, Begun, AlertForgotten DEF AlertNotRepeated
  <2> QED
    BY <1>1, <1>13, <2>2, <2>3, <2>4, RecordFailureMoves
<1>14. ASSUME RereadRecord(r) \/ RereadDefault(r) \/ RereadRoutes(r)
       PROVE  AlertKept(r)' /\ FallbackTold(r)' /\ AlertNotRepeated'
  <2>1. UNCHANGED <<dns, kv, said>> /\ run[r].phase \in {"record", "default", "routes"}
    BY <1>1, <1>14, RereadAll DEF RereadRecord, RereadDefault, RereadRoutes, Reread, At, Quiet
  <2>2. \/ Goes(r, "manual") \/ Stops(r) \/ Goes(r, "already") \/ Goes(r, "default")
        \/ Goes(r, "routes") \/ Goes(r, "begin")
    BY <1>1, <1>14, RereadAll
  <2> QED
    BY <1>1, <2>1, <2>2, AlertMoves DEF AlertNotRepeated
<1>15. CASE BeginMutation(r)
  <2>1. /\ UNCHANGED <<dns, kv, said>> /\ run[r].phase = "begin"
    BY <1>1, <1>15, BeginMutationMoves DEF BeginMutation, At, Quiet
  <2>2. CASE Goes(r, "begun")
    BY <1>1, <2>1, <2>2, AlertMoves DEF AlertNotRepeated
  <2>3. CASE Settles(r, Alerting(r, FALSE, Raised(r, "lock")), "lock",
                     <<"stamp", "alert", "stamp">>)
    BY <1>1, <2>1, <2>3, Begun, AlertKeys, AlertRaised DEF AlertNotRepeated
  <2> QED
    BY <1>1, <1>15, <2>2, <2>3, BeginMutationMoves
<1>16. CASE Granted(r)
  <2>1. /\ UNCHANGED <<dns, kv, said>> /\ run[r].phase = "begun"
        /\ Owing(r, FALSE).alert = run[r].state.alert
    BY <1>1, <1>16, GrantedMoves, OwingAlert DEF Granted, At, Quiet
  <2>2. CASE Goes(r, "disable")
    BY <1>1, <2>1, <2>2, AlertMoves DEF AlertNotRepeated
  <2>3. CASE Settles(r, Owing(r, FALSE), "none", <<"stamp">>)
    BY <1>1, <2>1, <2>3, Begun, AlertSilent DEF AlertNotRepeated
  <2>4. CASE Settles(r, Alerting(r, FALSE, Raised(r, "lock")), "lock",
                     <<"stamp", "alert", "stamp">>)
    BY <1>1, <2>1, <2>4, Begun, AlertKeys, AlertRaised DEF AlertNotRepeated
  <2> QED
    BY <1>1, <1>16, <2>2, <2>3, <2>4, GrantedMoves
<1>17. CASE DisableRecord(r)
  <2>1. /\ kv' = kv /\ said'.last = said.last /\ said'.excuses = said.excuses
        /\ said'.repeated = said.repeated /\ run[r].phase = "disable"
        /\ dns = Restored /\ dns' \in {dns, Fallen}
    BY <1>1, <1>17, DisableRecordMoves, SwitchedSeen, IdleIsNone
    DEF DisableRecord, At, Fits, OnFallen, TypeOK
  <2>2. CASE Goes(r, "verify")
    <3>1. /\ run'[r] # Idle /\ run'[r].phase = "verify" /\ run'[r].raw = run[r].raw
          /\ run'[r].state = run[r].state
      BY <2>2, IdleIsNone DEF Goes, Moves
    <3>2. AlertKept(r)'
      BY <1>1, <2>1, <3>1, IdleIsNone DEF AlertKept, Remembers, Counts, At
    <3>3. said.last # "fallback"
      BY <1>1, <2>1, DnsFacts DEF FallbackTold
    <3> QED
      BY <1>1, <2>1, <3>1, <3>2, <3>3 DEF FallbackTold, AlertNotRepeated, At
  <2>3. CASE Settles(r, Alerting(r, FALSE, Raised(r, "mutation")), "mutation", Unlocking)
    BY <1>1, <2>1, <2>3, Begun, AlertKeys, AlertRaised DEF AlertNotRepeated
  <2> QED
    BY <1>1, <1>17, <2>2, <2>3, DisableRecordMoves
<1>18. CASE VerifyDisabled(r)
  <2>1. /\ UNCHANGED <<dns, kv, said>> /\ run[r].phase = "verify" /\ said.last # "fallback"
        /\ Alerting(r, FALSE, Pending("fallback")).alert = Pending("fallback")
    BY <1>1, <1>18, VerifyDisabledMoves DEF VerifyDisabled, At, Quiet, Alerting, FallbackTold
  <2>2. CASE /\ FellBack
             /\ Settles(r, Alerting(r, FALSE, Pending("fallback")), "fallback",
                        <<"stamp", "alert", "stamp", "confirm">>)
    <3>1. Telltale(Pending("fallback"), "fallback")'
      BY <2>1 DEF Telltale, Counts, Owed, Pending
    <3>2. dns = Fallen
      BY <1>1, <2>2, DnsFacts
    <3> QED
      BY <1>1, <2>1, <2>2, <3>1, <3>2, Begun, AlertSettles DEF AlertNotRepeated
  <2>3. CASE Settles(r, Alerting(r, FALSE, Raised(r, "verify")), "verify", Unlocking)
    BY <1>1, <2>1, <2>3, Begun, AlertKeys, AlertRaised DEF AlertNotRepeated
  <2> QED
    BY <1>1, <1>18, <2>2, <2>3, VerifyDisabledMoves
<1>19. CASE SendAlert(r) \/ Save(r) \/ Confirm(r) \/ Release(r)
  BY <1>19, AlertSent, AlertSaved, AlertSettled
<1> QED
  BY <1>2, <1>3, <1>4, <1>5, <1>6, <1>7, <1>8, <1>9, <1>10, <1>11, <1>12, <1>13,
     <1>14, <1>15, <1>16, <1>17, <1>18, <1>19 DEF Check

LEMMA InitAlerts == Init => AlertsKept
<1> SUFFICES ASSUME Init PROVE AlertsKept
  OBVIOUS
<1>1. /\ ~said.repeated /\ said.last = "none" /\ kv.alert = NoAlert
      /\ \A r \in Run : run[r] = Idle
  BY DEF Init
<1>2. Remembers(kv.alert)
  BY <1>1 DEF Remembers, Counts, Owed, NoAlert
<1> QED
  BY <1>1, <1>2, IdleIsNone
  DEF AlertsKept, AlertNotRepeated, AlertKept, Remembers, FallbackTold, At

LEMMA NextAlerts ==
    ASSUME Undisturbed, TypeOK, DnsKnown, AlertsKept, [Next]_vars PROVE AlertsKept'
<1>1. ASSUME NEW r \in Run, Crash(r) PROVE AlertsKept'
  <2>1. /\ run'[r] = Idle /\ UNCHANGED <<dns, kv>> /\ \A s \in Run : s = r
    BY <1>1, CrashMoves DEF Undisturbed, OneAtATime, Stops
  <2>2. said'.last = said.last /\ said'.repeated = said.repeated /\ said'.excuses # 0
    BY <1>1, CrashMoves DEF Undisturbed, Excused, TypeOK, Alerts
  <2>3. AlertKept(r) /\ FallbackTold(r) /\ ~said.repeated
    BY DEF AlertsKept, AlertNotRepeated
  <2> QED
    BY <2>1, <2>2, <2>3, IdleIsNone
    DEF AlertsKept, AlertKept, FallbackTold, AlertNotRepeated, Remembers, Counts, At
<1>2. CASE UNCHANGED <<dns, kv, run, said>>
  BY <1>2 DEF AlertsKept, AlertNotRepeated, AlertKept, FallbackTold, At, Remembers, Counts, Telltale
<1> QED
  BY <1>1, <1>2, CheckAlerts, NextSteps

AlertsPart == part = "sequential" => TypeOK /\ DnsKnown /\ AlertsKept

\* One run after another, and nobody edits DNS: Telegram gets no copy of the alert it
\* accepted last without a fault that pays for it, until a healthy or a newly counted
\* check; whatever calls fail or lose their answers, Telegram's included, whatever
\* saves KV refuses and wherever a run dies, however often.
THEOREM AlertsDifferHolds ==
    ASSUME OneAtATime, Edit = {}
    PROVE  PartSpec => []AlertsDiffer
<1>1. Undisturbed
  BY ProofAssumptions DEF Undisturbed
<1>2. PartInit => AlertsPart
  BY <1>1, InitTypes, InitDnsKnown, InitAlerts DEF PartInit, AlertsPart, Undisturbed
<1>3. AlertsPart /\ [PartNext]_<<part, vars>> => AlertsPart'
  BY <1>1, SequentialStep, NextTypes, NextDnsKnown, NextAlerts DEF AlertsPart, Undisturbed
<1>4. AlertsPart => AlertsDiffer
  BY DEF AlertsPart, AlertsDiffer, AlertsKept
<1> QED
  BY <1>2, <1>3, <1>4, PTL DEF PartSpec

-----------------------------------------------------------------------------
(* One run after another changes DNS only for a streak that is earned.     *)

\* At least n failing checks were seen since the last healthy one.  A count of the
\* Durable Object that is longer than that has a reset that KV owes it.
Seen(n) == n <= seen.sinceHealthy
Earned == Seen(coord.count) \/ kv.resetPending

Undecided == {"look", "probe", "healthy", "both", "unsafe", "failing"}

\* Why the count of the Durable Object is no longer than the streak.
StreakKnown(r) ==
    LET phase == run[r].phase
    IN  /\ coord.mutation # NoToken => phase = "disable"
        /\ run[r] = Idle => Earned
        /\ phase \in Undecided => run[r].raw = kv /\ run[r].state = kv
        /\ phase \in {"look", "probe", "both", "unsafe"} => Earned
        /\ phase = "failing" => Seen(1) /\ (Seen(NextCount(coord)) \/ kv.resetPending)
        /\ phase \in {"flush", "count"} => Seen(NextCount(coord))
        /\ phase \in {"record", "default", "routes", "begin", "begun", "disable"}
             => Seen(coord.count)
        /\ phase = "begun" => run[r].old = coord
        /\ phase = "disable" => coord.count = Threshold
        /\ phase = "end" =>
             \/ Seen(coord.count)
             \/ /\ run[r].todo \in {<<"alert", "save">>, <<"save">>}
                /\ run[r].state.resetPending /\ run[r].raw = kv

StreaksKnown == dns = Restored => \A r \in Run : StreakKnown(r)

\* Only answers that do not come: whatever else fails may lose the reset that a
\* healthy check owes.
Answering == Faults \subseteq {"coordinator", "telegram", "unheard"}

\* How the Durable Object counts.
LEMMA Counting ==
    ASSUME Assumptions, NEW c \in Coordinator, NEW r \in Run
    PROVE  /\ c.count \in 0..Threshold /\ Threshold \in Nat \ {0}
           /\ c.mutation = NoToken => AfterReset(c) = Cleared(0) /\ ~MutationFresh(c)
           /\ Cleared(0).count = 0 /\ Cleared(0).mutation = NoToken
           /\ NextCount(Cleared(0)) = 1
           /\ NextCount(c) \in {c.count, c.count + 1} /\ NextCount(c) <= Threshold
           /\ AfterFailure(c, r).count \in {c.count, NextCount(c)}
           /\ c.mutation = NoToken => AfterFailure(c, r).mutation = NoToken
           /\ AfterRelease(c).count = c.count /\ AfterRelease(c).mutation = NoToken
           /\ AfterConfirm(c) = Cleared(0)
           /\ MayBegin(c, r) => c.count = Threshold
           /\ AfterBegin(c, r).count = c.count
           /\ Older(c).count = c.count /\ Older(c).mutation = c.mutation
<1>1. /\ c.count \in 0..Threshold /\ Threshold \in Nat \ {0}
      /\ NextCount(c) \in {c.count, c.count + 1} /\ NextCount(c) <= Threshold
  BY DEF Assumptions, CoordinatorAssumption, Coordinator, NextCount
<1>2. \A n : /\ Cleared(n).count = n /\ Cleared(n).mutation = NoToken
             /\ [Cleared(n) EXCEPT !.claim = r].count = n
             /\ [Cleared(n) EXCEPT !.claim = r].mutation = NoToken
             /\ [Cleared(n) EXCEPT !.claim = NoToken].count = n
             /\ [Cleared(n) EXCEPT !.claim = NoToken].mutation = NoToken
  BY DEF Cleared
<1>3. NextCount(Cleared(0)) = 1
  BY <1>1, <1>2 DEF NextCount
<1>4. c.mutation = NoToken => AfterReset(c) = Cleared(0) /\ ~MutationFresh(c)
  BY DEF AfterReset, MutationFresh
<1>5. /\ AfterFailure(c, r).count \in {c.count, NextCount(c)}
      /\ c.mutation = NoToken => AfterFailure(c, r).mutation = NoToken
  BY <1>2 DEF AfterFailure
<1>6. /\ AfterRelease(c).count = c.count /\ AfterRelease(c).mutation = NoToken
      /\ AfterConfirm(c) = Cleared(0)
  BY <1>2 DEF AfterRelease, AfterConfirm
<1>7. MayBegin(c, r) => c.count = Threshold
  BY <1>1 DEF MayBegin
<1>8. /\ AfterBegin(c, r).count = c.count
      /\ Older(c).count = c.count /\ Older(c).mutation = c.mutation
  BY DEF AfterBegin, Older, Coordinator
<1> QED
  BY <1>1, <1>2, <1>3, <1>4, <1>5, <1>6, <1>7, <1>8

\* A run that is over leaves an earned streak, ...
LEMMA StreakIdle ==
    ASSUME NEW r \in Run, Stops(r), coord'.mutation = NoToken, Earned'
    PROVE  StreakKnown(r)'
BY IdleIsNone DEF Stops, StreakKnown, Undecided

\* ... so does one that ends, or it still holds the reset that is owed.
LEMMA StreakEnds ==
    ASSUME NEW r \in Run, NEW state, NEW key, NEW todo, Settles(r, state, key, todo),
           coord'.mutation = NoToken,
           \/ Seen(coord.count)'
           \/ /\ todo \in {<<"alert", "save">>, <<"save">>}
              /\ state.resetPending /\ run[r].raw = kv /\ kv' = kv
    PROVE  StreakKnown(r)'
<1>1. /\ run'[r] # Idle /\ run'[r].phase = "end" /\ run'[r].raw = run[r].raw
      /\ run'[r].state = state /\ run'[r].todo = todo
  BY IdleIsNone DEF Settles, Moves
<1> QED
  BY <1>1 DEF StreakKnown, Undecided

\* A run that goes on.
LEMMA StreakGoes ==
    ASSUME NEW r \in Run, NEW phase, Goes(r, phase), coord'.mutation = NoToken, kv' = kv,
           phase \notin {"begun", "disable", "end"},
           phase \in Undecided => run[r].raw = kv /\ run[r].state = kv,
           phase \in {"look", "probe", "both", "unsafe"} => Earned',
           phase = "failing" => Seen(1)' /\ (Seen(NextCount(coord))' \/ kv.resetPending),
           phase \in {"flush", "count"} => Seen(NextCount(coord))',
           phase \in {"record", "default", "routes", "begin"} => Seen(coord.count)'
    PROVE  StreakKnown(r)'
<1>1. /\ run'[r] # Idle /\ run'[r].phase = phase /\ run'[r].raw = run[r].raw
      /\ run'[r].state = run[r].state
  BY IdleIsNone DEF Goes, Moves
<1> QED
  BY <1>1 DEF StreakKnown

\* A probe: failing is one more for the streak, whatever is not healthy leaves it.
LEMMA StreakProbed ==
    ASSUME Assumptions, TypeOK, NEW r \in Run, Probe(r), StreakKnown(r)
    PROVE  StreakKnown(r)'
<1>1. /\ UNCHANGED <<coord, kv>> /\ run[r].phase = "probe" /\ coord \in Coordinator
      /\ seen.sinceHealthy \in 0..Threshold
  BY ProbeMoves DEF Probe, At, TypeOK, Checks
<1>2. PICK verdict \in Verdicts : Goes(r, verdict) /\ seen' = Observed(verdict)
  BY ProbeMoves
<1>3. verdict \in {"healthy", "both", "unsafe", "failing"}
  BY DEF Assumptions, WatchdogAssumption, Verdict
<1>4. coord.mutation = NoToken /\ Earned /\ run[r].raw = kv /\ run[r].state = kv
  BY <1>1 DEF StreakKnown, Undecided
<1>5. verdict \in {"both", "unsafe"} => Earned'
  BY <1>1, <1>2, <1>4, ObservedType DEF Earned, Seen
<1>6. verdict = "failing" => Seen(1)' /\ (Seen(NextCount(coord))' \/ kv.resetPending)
  <2> SUFFICES ASSUME verdict = "failing"
               PROVE  Seen(1)' /\ (Seen(NextCount(coord))' \/ kv.resetPending)
    OBVIOUS
  <2>1. /\ seen'.sinceHealthy \in 0..Threshold /\ seen'.sinceHealthy > 0
        /\ seen'.sinceHealthy = Threshold \/ seen'.sinceHealthy = seen.sinceHealthy + 1
    BY <1>2, ObservedType DEF Checks
  <2>2. /\ coord.count \in 0..Threshold /\ Threshold \in Nat
        /\ NextCount(coord) \in {coord.count, coord.count + 1} /\ NextCount(coord) <= Threshold
    BY <1>1, Counting
  <2>3. NextCount(coord)' = NextCount(coord)
    BY <1>1
  <2> QED
    BY <1>1, <1>4, <2>1, <2>2, <2>3 DEF Earned, Seen
<1> QED
  BY <1>1, <1>2, <1>3, <1>4, <1>5, <1>6, StreakGoes

\* The Durable Object does not answer: it is as it was.
LEMMA NotDelivered == ASSUME Answering, NEW after, Unanswered(after) PROVE coord' = coord
BY DEF Answering, Unanswered, Breaks

LEMMA OwingEndings ==
    /\ Head(<<"alert", "save">>) = "alert" /\ Tail(<<"alert", "save">>) = <<"save">>
    /\ Head(<<"save">>) = "save" /\ Tail(<<"save">>) = <<>>
OBVIOUS

\* What is left to do when the verdict is known.
LEMMA StreakStepsOn ==
    ASSUME Undisturbed, Answering, TypeOK, DnsKnown, NEW r \in Run, StreakKnown(r),
           SendAlert(r) \/ Save(r) \/ Confirm(r) \/ Release(r)
    PROVE  StreakKnown(r)'
<1> DEFINE todo == run[r].todo
           owes == /\ todo \in {<<"alert", "save">>, <<"save">>}
                   /\ run[r].state.resetPending /\ run[r].raw = kv
<1>1. At(r, "end") /\ todo \in Endings /\ todo # <<>>
  BY EndingTypes
  DEF SendAlert, Save, Confirm, Release, Settle, Doing, DnsKnown, EndsWell
<1>2. /\ coord \in Coordinator /\ seen.sinceHealthy \in 0..Threshold
      /\ coord.mutation = NoToken /\ Assumptions
  BY <1>1 DEF TypeOK, StreakKnown, At, Checks, Undisturbed
<1> HIDE DEF owes
<1>3. Seen(coord.count) \/ owes
  BY <1>1 DEF StreakKnown, At, owes
<1>4. CASE SendAlert(r)
  <2>1. /\ coord' = coord /\ kv' = kv /\ seen' = seen
        /\ Head(todo) = "alert" /\ run[r] \in Invocation
    BY <1>2, <1>4, SendAlertMoves DEF SendAlert, Doing
  <2>2. Tail(todo) # <<>> /\ (owes => Tail(todo) = <<"save">>)
    <3>1. Tail(todo) # <<>>
      BY <1>1, <2>1, EndingHeads, EndingTypes
    <3>2. owes => Tail(todo) = <<"save">>
      BY <2>1, OwingEndings DEF owes
    <3> QED
      BY <3>1, <3>2
  <2>3. PICK state : /\ StepsOn(r, state)
                     /\ run[r].state.resetPending => state.resetPending
    <3>1. \A alert : [run[r].state EXCEPT !.alert = alert].resetPending = run[r].state.resetPending
      BY <2>1 DEF Invocation, Stored
    <3> QED
      BY <1>2, <1>4, <3>1, SendAlertMoves
  <2>4. Settles(r, state, run[r].key, Tail(todo))
    BY <2>2, <2>3 DEF StepsOn
  <2>5. CASE Seen(coord.count)
    <3>1. coord'.mutation = NoToken /\ Seen(coord.count)'
      BY <1>2, <2>1, <2>5 DEF Seen
    <3> QED
      BY <2>4, <3>1, StreakEnds
  <2>6. CASE owes
    <3>1. coord'.mutation = NoToken /\ state.resetPending /\ run[r].raw = kv /\ kv' = kv
      BY <1>2, <2>1, <2>3, <2>6 DEF owes
    <3> QED
      BY <2>2, <2>4, <2>6, <3>1, StreakEnds DEF owes
  <2> QED
    BY <1>3, <2>5, <2>6
<1>5. CASE Save(r)
  <2>1. /\ coord' = coord /\ seen' = seen /\ Head(todo) \in {"save", "stamp"}
        /\ StepsOn(r, run[r].state)
        /\ kv' = run[r].state \/ (run[r].state = run[r].raw /\ UNCHANGED kv)
    BY <1>2, <1>5, SaveMoves DEF Save, Doing, Answering, Breaks
  <2>2. CASE Seen(coord.count)
    <3>1. coord'.mutation = NoToken /\ Seen(coord.count)' /\ Earned'
      BY <1>2, <2>1, <2>2 DEF Seen, Earned
    <3> QED
      BY <2>1, <3>1, StreakIdle, StreakEnds DEF StepsOn
  <2>3. CASE owes
    <3>1. Tail(todo) = <<>>
      BY <2>1, <2>3, OwingEndings DEF owes
    <3>2. coord'.mutation = NoToken /\ Earned'
      BY <1>2, <2>1, <2>3 DEF Earned, owes
    <3> QED
      BY <2>1, <3>1, <3>2, StreakIdle DEF StepsOn
  <2> QED
    BY <1>3, <2>2, <2>3
<1>6. CASE Confirm(r) \/ Release(r)
  <2>1. /\ StepsOn(r, run[r].state) /\ UNCHANGED <<kv, seen>>
        /\ Head(todo) \in {"confirm", "release"}
        /\ coord' \in {coord, Cleared(0), AfterRelease(coord)}
    <3>1. CASE Confirm(r)
      <4>1. Settle(r, "confirm", AfterConfirm(coord))
        BY <3>1 DEF Confirm
      <4> QED
        BY <1>2, <4>1, SettleMoves DEF Settle, Doing, Quiet, AfterConfirm
    <3>2. CASE Release(r)
      <4>1. Settle(r, "release", AfterRelease(coord))
        BY <3>2 DEF Release
      <4> QED
        BY <1>2, <4>1, SettleMoves DEF Settle, Doing, Quiet
    <3> QED
      BY <1>6, <3>1, <3>2
  <2>2. Seen(coord.count)
    BY <1>3, <2>1, OwingEndings DEF owes
  <2>3. coord'.mutation = NoToken /\ Seen(coord.count)'
    BY <1>2, <2>1, <2>2, Counting DEF Seen
  <2> QED
    BY <2>1, <2>3, StreakIdle, StreakEnds DEF StepsOn, Earned
<1> QED
  BY <1>4, <1>5, <1>6

LEMMA StreakReset ==
    ASSUME Assumptions, TypeOK, NEW r \in Run, coord.mutation = NoToken,
           coord' = AfterReset(coord), seen' = seen
    PROVE  coord'.mutation = NoToken /\ Seen(coord.count)'
<1>1. coord \in Coordinator /\ seen'.sinceHealthy \in 0..Threshold
  BY DEF TypeOK, Checks
<1> QED
  BY <1>1, Counting DEF Seen

LEMMA OwingReset ==
    ASSUME TypeOK, NEW r \in Run, run[r].phase # "idle" PROVE Owing(r, TRUE).resetPending
BY Busy, StateTypes DEF AlertKey

LEMMA CheckStreak ==
    ASSUME Undisturbed, Answering, TypeOK, DnsKnown, StreaksKnown, NEW r \in Run, Check(r)
    PROVE  StreaksKnown'
<1> SUFFICES ASSUME dns' = Restored PROVE StreakKnown(r)'
  BY DEF StreaksKnown, Undisturbed, OneAtATime
<1>1. /\ Fits(r) /\ dns \in {Restored, Fallen} /\ Assumptions
      /\ coord \in Coordinator /\ seen.sinceHealthy \in 0..Threshold /\ Restored # Fallen
  BY DnsFacts DEF DnsKnown, Undisturbed, TypeOK, Checks
<1>2. dns = Restored => StreakKnown(r)
  BY DEF StreaksKnown
<1>3. CASE Start(r)
  <2>1. run[r] = Idle /\ UNCHANGED <<dns, coord, kv>> /\ seen'.sinceHealthy = seen.sinceHealthy
    BY <1>3 DEF Start, TypeOK, Checks
  <2>2. /\ run'[r] # Idle /\ run'[r].phase = "look" /\ run'[r].raw = kv /\ run'[r].state = kv
    BY <1>1, <1>3, StartEffect, IdleIsNone
  <2>3. coord'.mutation = NoToken /\ Earned'
    BY <1>2, <2>1, IdleIsNone DEF StreakKnown, Earned, Seen
  <2> QED
    BY <2>1, <2>2, <2>3 DEF StreakKnown, Undecided
<1>4. CASE Look(r)
  <2>1. /\ UNCHANGED <<dns, coord, kv, seen>> /\ run[r].phase = "look"
        /\ Goes(r, "probe") \/ Stops(r)
    BY <1>1, <1>4, LookMoves, DnsFacts DEF Look, At, Quiet
  <2>2. /\ run[r].raw = kv /\ run[r].state = kv /\ coord'.mutation = NoToken /\ Earned'
    BY <1>2, <2>1 DEF StreakKnown, Undecided, Earned, Seen
  <2> QED
    BY <2>1, <2>2, StreakGoes, StreakIdle
<1>5. CASE Standby(r)
  <2>1. dns' = dns /\ run[r].phase = "standby"
    BY <1>5 DEF Standby, At, Quiet
  <2> QED
    BY <1>1, <2>1, IdleIsNone DEF Fits, OnRestored
<1>6. CASE Probe(r)
  <2>1. dns' = dns
    BY <1>6 DEF Probe
  <2> QED
    BY <1>1, <1>2, <1>6, <2>1, StreakProbed
<1>7. CASE Healthy(r)
  <2>1. UNCHANGED <<dns, kv, seen>> /\ run[r].phase = "healthy"
    BY <1>1, <1>7, HealthyMoves DEF Healthy, At
  <2>2. coord.mutation = NoToken /\ run[r].raw = kv
    BY <1>2, <2>1 DEF StreakKnown, Undecided
  <2>3. CASE /\ coord' = AfterReset(coord)
             /\ \E state : Settles(r, state, "none", <<"save">>)
    BY <1>1, <2>1, <2>2, <2>3, StreakReset, StreakEnds
  <2>4. CASE Unanswered(AfterReset(coord)) /\ Settles(r, Owing(r, TRUE), "none", <<"save">>)
    <3>1. Owing(r, TRUE).resetPending /\ coord' = coord
      BY <2>1, <2>4, OwingReset, NotDelivered
    <3> QED
      BY <2>1, <2>2, <2>4, <3>1, StreakEnds
  <2> QED
    BY <1>1, <1>7, <2>3, <2>4, HealthyMoves
<1>8. CASE BothUnhealthy(r)
  <2>1. UNCHANGED <<dns, kv, seen>> /\ run[r].phase = "both"
    BY <1>1, <1>8, BothUnhealthyMoves DEF BothUnhealthy, At, Quiet
  <2>2. coord.mutation = NoToken /\ Earned
    BY <1>2, <2>1 DEF StreakKnown
  <2>3. CASE /\ coord' = AfterReset(coord)
             /\ Settles(r, Owing(r, FALSE), "both", <<"alert", "save">>)
    BY <1>1, <2>1, <2>2, <2>3, StreakReset, StreakEnds
  <2>4. CASE Unanswered(AfterReset(coord)) /\ Stops(r)
    <3>1. coord' = coord
      BY <2>4, NotDelivered
    <3> QED
      BY <2>1, <2>2, <2>4, <3>1, StreakIdle DEF Earned, Seen
  <2> QED
    BY <1>1, <1>8, <2>3, <2>4, BothUnhealthyMoves
<1>9. CASE UnsafeFallback(r)
  <2>1. UNCHANGED <<dns, kv, seen>> /\ run[r].phase = "unsafe"
    BY <1>1, <1>9, CallMoves DEF UnsafeFallback, At, Quiet
  <2>2. coord.mutation = NoToken /\ run[r].raw = kv
    BY <1>2, <2>1 DEF StreakKnown, Undecided
  <2>3. PICK key :
          \/ /\ coord' = AfterReset(coord)
             /\ Settles(r, Owing(r, FALSE), key, <<"alert", "save">>)
          \/ /\ Unanswered(AfterReset(coord))
             /\ Settles(r, Owing(r, TRUE), key, <<"alert", "save">>)
    BY <1>1, <1>9, CallMoves
  <2>4. CASE /\ coord' = AfterReset(coord)
             /\ Settles(r, Owing(r, FALSE), key, <<"alert", "save">>)
    BY <1>1, <2>1, <2>2, <2>4, StreakReset, StreakEnds
  <2>5. CASE /\ Unanswered(AfterReset(coord))
             /\ Settles(r, Owing(r, TRUE), key, <<"alert", "save">>)
    <3>1. Owing(r, TRUE).resetPending /\ coord' = coord
      BY <2>1, <2>5, OwingReset, NotDelivered
    <3> QED
      BY <2>1, <2>2, <2>5, <3>1, StreakEnds
  <2> QED
    BY <2>3, <2>4, <2>5
<1>10. CASE ManualDns(r) \/ ActiveFallbackUnhealthy(r) \/ AlreadyFallback(r) \/ VerifyDisabled(r)
  <2>1. dns' = dns /\ run[r].phase \in {"manual", "active", "already", "verify"}
    BY <1>10 DEF ManualDns, ActiveFallbackUnhealthy, AlreadyFallback, VerifyDisabled, At, Quiet
  <2> QED
    BY <1>1, <2>1, IdleIsNone DEF Fits, OnRestored
<1>11. CASE FlushReset(r)
  <2>1. UNCHANGED <<dns, kv, seen>> /\ run[r].phase = "failing"
    BY <1>1, <1>11, FlushResetMoves DEF FlushReset, At, Quiet
  <2>2. /\ coord.mutation = NoToken /\ run[r].raw = kv /\ run[r].state = kv
        /\ Seen(1) /\ (Seen(NextCount(coord)) \/ kv.resetPending)
    BY <1>2, <2>1 DEF StreakKnown, Undecided
  <2>3. CASE ~run[r].state.resetPending /\ Goes(r, "count") /\ UNCHANGED coord
    BY <2>1, <2>2, <2>3, StreakGoes DEF Seen, Undecided
  <2>4. CASE /\ coord' = AfterReset(coord)
             /\ Moves(r, "flush") /\ run'[r].state = Owing(r, FALSE)
    <3>1. coord' = Cleared(0)
      BY <1>1, <2>2, <2>4, Counting
    <3>2. coord'.mutation = NoToken /\ Seen(NextCount(coord))'
      BY <1>1, <2>1, <2>2, <3>1, Counting DEF Seen
    <3>3. run'[r] # Idle /\ run'[r].phase = "flush"
      BY <2>4, IdleIsNone DEF Moves
    <3> QED
      BY <3>2, <3>3 DEF StreakKnown, Undecided
  <2>5. CASE /\ run[r].state.resetPending /\ Unanswered(AfterReset(coord))
             /\ Settles(r, run[r].state, "none", <<"save">>)
    <3>1. coord' = coord
      BY <2>5, NotDelivered
    <3> QED
      BY <2>1, <2>2, <2>5, <3>1, StreakEnds
  <2> QED
    BY <1>1, <1>11, <2>2, <2>3, <2>4, <2>5, FlushResetMoves, Counting
<1>12. CASE FlushSave(r)
  <2>1. /\ UNCHANGED <<dns, coord, seen>> /\ run[r].phase = "flush" /\ Goes(r, "count")
    BY <1>1, <1>12, FlushSaveMoves DEF FlushSave, At, Answering, Breaks
  <2>2. coord'.mutation = NoToken /\ Seen(NextCount(coord))'
    BY <1>2, <2>1 DEF StreakKnown, Seen
  <2>3. run'[r] # Idle /\ run'[r].phase = "count"
    BY <2>1, IdleIsNone DEF Goes, Moves
  <2> QED
    BY <2>2, <2>3 DEF StreakKnown, Undecided
<1>13. CASE RecordFailure(r)
  <2>1. UNCHANGED <<dns, kv, seen>> /\ run[r].phase = "count"
    BY <1>1, <1>13, RecordFailureMoves DEF RecordFailure, At
  <2>2. coord.mutation = NoToken /\ Seen(NextCount(coord))
    BY <1>2, <2>1 DEF StreakKnown
  <2>3. coord' \in {coord, AfterFailure(coord, r)}
    BY <1>1, <1>13, RecordFailureMoves, NotDelivered
  <2>4. coord'.mutation = NoToken /\ Seen(coord.count)'
    BY <1>1, <2>1, <2>2, <2>3, Counting DEF Seen
  <2>5. \/ Goes(r, "record") \/ Stops(r)
        \/ \E state : Settles(r, state, "none", <<"stamp">>)
    BY <1>1, <1>13, RecordFailureMoves
  <2> QED
    BY <2>1, <2>4, <2>5, StreakGoes, StreakIdle, StreakEnds DEF Earned, Undecided
<1>14. CASE RereadRecord(r) \/ RereadDefault(r) \/ RereadRoutes(r)
  <2>1. /\ UNCHANGED <<dns, coord, kv, seen>> /\ run[r].phase \in {"record", "default", "routes"}
    BY <1>1, <1>14, RereadAll DEF RereadRecord, RereadDefault, RereadRoutes, Reread, At, Quiet
  <2>2. Goes(r, "default") \/ Goes(r, "routes") \/ Goes(r, "begin") \/ Stops(r)
    BY <1>1, <1>14, <2>1, RereadRestored
  <2>3. coord'.mutation = NoToken /\ Seen(coord.count)'
    BY <1>2, <2>1 DEF StreakKnown, Seen
  <2> QED
    BY <2>1, <2>2, <2>3, StreakGoes, StreakIdle DEF Earned, Undecided
<1>15. CASE BeginMutation(r)
  <2>1. /\ UNCHANGED <<dns, coord, kv, seen>> /\ run[r].phase = "begin"
    BY <1>1, <1>15, BeginMutationMoves DEF BeginMutation, At, Quiet
  <2>2. coord'.mutation = NoToken /\ Seen(coord.count)'
    BY <1>2, <2>1 DEF StreakKnown, Seen
  <2>3. CASE Goes(r, "begun") /\ run'[r].old = coord
    <3>1. run'[r] # Idle /\ run'[r].phase = "begun"
      BY <2>3, IdleIsNone DEF Goes, Moves
    <3> QED
      BY <2>1, <2>2, <2>3, <3>1 DEF StreakKnown, Undecided
  <2>4. CASE \E state, key, todo : Settles(r, state, key, todo)
    BY <2>2, <2>4, StreakEnds
  <2> QED
    BY <1>1, <1>15, <2>3, <2>4, BeginMutationMoves
<1>16. CASE Granted(r)
  <2>1. UNCHANGED <<dns, kv, seen>> /\ run[r].phase = "begun"
    BY <1>1, <1>16, GrantedMoves DEF Granted, At, Quiet
  <2>2. coord.mutation = NoToken /\ Seen(coord.count) /\ run[r].old = coord
    BY <1>2, <2>1 DEF StreakKnown
  <2>3. CASE MayBegin(coord, r) /\ coord' = AfterBegin(coord, r) /\ Goes(r, "disable")
    <3>1. coord'.count = Threshold /\ Seen(coord.count)'
      BY <1>1, <2>1, <2>2, <2>3, Counting DEF Seen
    <3>2. run'[r] # Idle /\ run'[r].phase = "disable"
      BY <2>3, IdleIsNone DEF Goes, Moves
    <3> QED
      BY <3>1, <3>2 DEF StreakKnown, Undecided
  <2>4. CASE coord' = coord /\ Settles(r, Owing(r, FALSE), "none", <<"stamp">>)
    BY <2>1, <2>2, <2>4, StreakEnds DEF Seen
  <2> QED
    BY <1>1, <1>16, <2>2, <2>3, <2>4, GrantedMoves DEF Answering, Breaks
<1>17. CASE DisableRecord(r)
  <2>1. run[r].phase = "disable" /\ dns' = [dns EXCEPT !.regional = Switched]
    BY <1>1, <1>17, DisableRecordMoves DEF DisableRecord, At, Answering, Breaks
  <2> QED
    BY <1>1, <2>1, SwitchedSeen DEF TypeOK
<1>18. CASE SendAlert(r) \/ Save(r) \/ Confirm(r) \/ Release(r)
  <2>1. dns' = dns
    BY <1>18 DEF SendAlert, Save, Confirm, Release, Settle, Quiet
  <2> QED
    BY <1>1, <1>2, <1>18, <2>1, StreakStepsOn
<1> QED
  BY <1>3, <1>4, <1>5, <1>6, <1>7, <1>8, <1>9, <1>10, <1>11, <1>12, <1>13,
     <1>14, <1>15, <1>16, <1>17, <1>18 DEF Check

LEMMA InitStreak == ASSUME Assumptions, Init PROVE StreaksKnown
<1>1. /\ coord = Cleared(0) /\ seen.sinceHealthy = 0 /\ \A r \in Run : run[r] = Idle
  BY DEF Init
<1>2. coord.count = 0 /\ coord.mutation = NoToken
  BY <1>1 DEF Cleared
<1>3. Earned
  BY <1>1, <1>2 DEF Earned, Seen
<1> QED
  BY <1>1, <1>2, <1>3, IdleIsNone DEF StreaksKnown, StreakKnown, Undecided

LEMMA NextStreak ==
    ASSUME Undisturbed, Answering, TypeOK, DnsKnown, StreaksKnown, [Next]_vars
    PROVE  StreaksKnown'
<1>1. ASSUME NEW r \in Run PROVE ~Crash(r)
  BY DEF Crash, Breaks, Answering
<1>2. ASSUME /\ UNCHANGED <<dns, kv, run, seen>>
             /\ \/ UNCHANGED coord
                \/ coord' = Older(coord) /\ \A r \in Run : ~At(r, "begun")
      PROVE  StreaksKnown'
  <2>1. /\ coord'.count = coord.count /\ coord'.mutation = coord.mutation
        /\ NextCount(coord)' = NextCount(coord)
    <3>1. coord'.count = coord.count /\ coord'.mutation = coord.mutation
      BY <1>2 DEF Older, TypeOK, Coordinator
    <3> QED
      BY <3>1 DEF NextCount
  <2>2. \A r \in Run : At(r, "begun") => coord' = coord
    BY <1>2
  <2> QED
    BY <1>2, <2>1, <2>2 DEF StreaksKnown, StreakKnown, Earned, Seen, At
<1> QED
  BY <1>1, <1>2, CheckStreak, NextSteps

\* The one step that changes DNS takes a streak that is long enough.
LEMMA NextSinceHealthy ==
    ASSUME TypeOK, DnsKnown, StreaksKnown PROVE SinceHealthy
<1> SUFFICES ASSUME NEW r \in Run, Disables(r) PROVE seen.sinceHealthy >= Threshold
  BY DEF SinceHealthy
<1>1. run[r].phase = "disable" /\ dns = Restored
  BY IdleIsNone DEF Disables, At, DnsKnown, Fits, OnFallen
<1> QED
  BY <1>1 DEF StreaksKnown, StreakKnown, Seen

StreaksPart == part = "sequential" => TypeOK /\ DnsKnown /\ StreaksKnown

\* One run after another, and nobody edits DNS: DNS changes only after as many failing
\* checks as the threshold since the last healthy one, though calls to the Durable
\* Object are not delivered and its reset is owed across runs in KV.  Where its answer is
\* lost, a run dies, KV refuses a save or DNSPod the mutation, the streak need not be
\* earned: none of these is among Faults.
THEOREM StreakIsEarnedHolds ==
    ASSUME OneAtATime, Edit = {}, Answering
    PROVE  PartSpec => StreakIsEarned
<1>1. Undisturbed
  BY ProofAssumptions DEF Undisturbed
<1>2. PartInit => StreaksPart
  BY <1>1, InitTypes, InitDnsKnown, InitStreak DEF PartInit, StreaksPart, Undisturbed
<1>3. StreaksPart /\ [PartNext]_<<part, vars>> => StreaksPart'
  BY <1>1, SequentialStep, NextTypes, NextDnsKnown, NextStreak DEF StreaksPart, Undisturbed
<1>4. StreaksPart => (part = "sequential" => SinceHealthy)
  BY NextSinceHealthy DEF StreaksPart
<1>5. StreaksPart /\ [PartNext]_<<part, vars>>
        => [part = "sequential" => SinceHealthy]_<<part, vars>>
  BY <1>4
<1> QED
  BY <1>2, <1>3, <1>5, PTL DEF PartSpec, StreakIsEarned
=============================================================================
