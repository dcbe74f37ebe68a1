---------------------------- MODULE WatchdogRuns ----------------------------
(***************************************************************************)
(* The watchdog in three settings, for TLC: one run after another with     *)
(* every verdict and answers that do not come (the constants of the        *)
(* configuration), an operator who edits DNS, and overlapping runs with    *)
(* the faults of any call.  A behaviour is of one setting.                 *)
(***************************************************************************)
EXTENDS MCWatchdog

CONSTANTS r1, r2

VARIABLE part

Operator == INSTANCE WatchdogProofs
    WITH Threshold <- 2, MutationTtl <- 2, Edit <- AnyEdit, Faults <- NotOfAlerts, MaxFaults <- 2
Overlap == INSTANCE Watchdog
    WITH Run <- {r1, r2}, Threshold <- 2, ClaimTtl <- 1, MutationTtl <- 1,
         Verdicts <- FailingOrHealthy, Slow <- None, Faults <- AnyCall, MaxFaults <- 1

ASSUME OperatorAssumptions == Operator!Assumptions

PartInit ==
    \/ part = "sequential" /\ Init
    \/ part = "operator" /\ Operator!Init
    \/ part = "overlap" /\ Overlap!Init

PartNext ==
    /\ \/ part = "sequential" /\ Next
       \/ part = "operator" /\ Operator!Next
       \/ part = "overlap" /\ Overlap!Next
    /\ UNCHANGED part

Overlapping(A) == part = "overlap" /\ A /\ UNCHANGED part

PartSpec ==
    /\ PartInit /\ [][PartNext]_<<part, vars>>
    /\ WF_<<part, vars>>(Overlapping(Overlap!Tick))
    /\ \A r \in {r1, r2} : WF_<<part, vars>>(Overlapping(Overlap!Check(r)))

-----------------------------------------------------------------------------
\* One run after another keeps its types.
PartTypeOK == part = "sequential" => TypeOK

\* Watchdog!AlertNotRepeated, one run after another: Telegram gets no copy of its
\* last alert without a fault that pays for it, lost answers and alerts that failed
\* in between included, until a healthy or a newly counted check.
AlertsDiffer == part = "sequential" => AlertNotRepeated

\* Watchdog!ThreeSinceHealthy, one run after another: DNS changes only after
\* three failing checks since the last healthy one.
StreakIsEarned == [][part = "sequential" => SinceHealthy]_<<part, vars>>

\* Watchdog!EarlyEditWins, with an operator: an edit in place before the re-read
\* that concerns it stops the run.
OperatorWins == [][part = "operator" => Operator!EditWins]_<<part, vars>>

\* Watchdog!DisableIsAnnounced, with overlapping runs: a change of DNS is told, in
\* an alert that says so.
Announced == (part = "overlap" /\ ~said.announced) ~> said.announced

\* Watchdog!FailsOverEventually, with overlapping runs: a lasting outage falls
\* back whatever lock, claim or owed reset a dead run left.
FailsOver ==
    <>[](part = "overlap" /\ seen.last = "failing") => <>(dns.regional # "edge")
=============================================================================
