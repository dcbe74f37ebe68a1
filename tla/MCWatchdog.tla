----------------------------- MODULE MCWatchdog -----------------------------
(* Instances of Watchdog for TLC: the faults, edits and verdicts of a run. *)
EXTENDS Watchdog

None == {}
AnyCall == FaultKind
NotOfAlerts == FaultKind \ {"telegram", "unheard"}
NoAnswer == {"coordinator", "telegram", "unheard"}
Unreachable == {"coordinator"}
AnswerLost == {"lost"}

AnyVerdict == Verdict
FailingOrHealthy == {"failing", "healthy"}

\* The operator takes the record over, adds a route, removes the default, or
\* puts everything back.
AnyEdit == {Restored,
            [Restored EXCEPT !.regional = "other"],
            [Restored EXCEPT !.regional = "disabled"],
            [Restored EXCEPT !.spare = TRUE],
            [Restored EXCEPT !.default = FALSE]}
=============================================================================
