---------------------------- MODULE SignalCircuit ----------------------------
(***************************************************************************)
(* The circuit before Data's endpoint for client signals:                  *)
(* lib/ops-client-signal-circuit.ts, driven by forwardClientSignalBatch of *)
(* lib/ops-client-signals.ts.  Batches are forwarded side by side; each    *)
(* ends within DATA_FORWARD_TIMEOUT_MS, the unit of time here, so that a   *)
(* late answer meets a circuit that opened or closed since it began.       *)
(***************************************************************************)
EXTENDS Naturals

CONSTANTS
    Batch,      \* the batches that may be under way at a time
    Threshold,  \* CLIENT_SIGNAL_CIRCUIT_FAILURE_THRESHOLD
    OpenFor,    \* CLIENT_SIGNAL_CIRCUIT_OPEN_MS, in units: longer than one
    MaxTime,    \* bound on the clock
    None

\* What the proofs ask of the constants.
CircuitAssumption ==
    /\ Threshold \in Nat \ {0} /\ OpenFor \in Nat /\ OpenFor > 1
    /\ None \notin Nat

VARIABLES
    now,
    consecutiveFailures, openedUntil, halfOpen,  \* the circuit
    deadline                                     \* of each batch under way

vars == <<now, consecutiveFailures, openedUntil, halfOpen, deadline>>

UnderWay == {b \in Batch : deadline[b] # None}

Init ==
    /\ now = 1
    /\ consecutiveFailures = 0 /\ openedUntil = 0 /\ halfOpen = FALSE
    /\ deadline = [b \in Batch |-> None]

\* beginClientSignalForward; what it refuses is dropped.
Begin(b) ==
    /\ deadline[b] = None
    /\ openedUntil <= now
    /\ \/ openedUntil = 0 /\ UNCHANGED halfOpen
       \/ openedUntil > 0 /\ ~halfOpen /\ halfOpen' = TRUE
    /\ deadline' = [deadline EXCEPT ![b] = now + 1]
    /\ UNCHANGED <<now, consecutiveFailures, openedUntil>>

\* recordClientSignalForwardSuccess: an answer that is no failure of Data's.
Succeed(b) ==
    /\ deadline[b] # None
    /\ consecutiveFailures' = 0 /\ openedUntil' = 0 /\ halfOpen' = FALSE
    /\ deadline' = [deadline EXCEPT ![b] = None]
    /\ UNCHANGED now

\* A failure that opens the circuit and forgets that a probe was under way.
StillHalfOpen(opens) == halfOpen
\* The probe is over when the circuit opens again.
HalfOpenAfter(opens) == halfOpen /\ ~opens

\* recordClientSignalForwardFailure: an error of Data's, of the transport, or a timeout.
Fail(b) ==
    LET n == consecutiveFailures + 1
        opens == halfOpen \/ n >= Threshold
    IN  /\ deadline[b] # None
        /\ consecutiveFailures' = n
        /\ openedUntil' = IF opens THEN now + OpenFor ELSE openedUntil
        /\ halfOpen' = HalfOpenAfter(opens)
        /\ deadline' = [deadline EXCEPT ![b] = None]
        /\ UNCHANGED now

\* No batch outlives its deadline.
Tick ==
    /\ now < MaxTime
    /\ \A b \in UnderWay : deadline[b] > now
    /\ now' = now + 1
    /\ UNCHANGED <<consecutiveFailures, openedUntil, halfOpen, deadline>>

Next == (\E b \in Batch : Begin(b) \/ Succeed(b) \/ Fail(b)) \/ Tick

Spec == Init /\ [][Next]_vars

-----------------------------------------------------------------------------
\* When the circuit's time is up, one batch goes out as a probe and nothing beside it,
\* and the circuit waits for a probe only while one is under way: late answers of
\* batches that began before it opened neither admit a second probe nor leave it
\* waiting for ever (beginClientSignalForward, recordClientSignalForwardFailure).
ProbesAlone ==
    openedUntil > 0 /\ openedUntil <= now =>
        IF halfOpen THEN \E b \in Batch : UnderWay = {b} ELSE UnderWay = {}
=============================================================================
