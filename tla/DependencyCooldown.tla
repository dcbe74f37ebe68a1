-------------------------- MODULE DependencyCooldown --------------------------
(***************************************************************************)
(* The cooldown of a failing dependency, lib/dependency-cooldown.ts, as    *)
(* the requests of lib/graphql-client.ts and lib/tournament/live-board.ts  *)
(* use it.  None begins while the cooldown lasts, but those under way      *)
(* overlap: each remembers when it began, a failure extends the cooldown,  *)
(* a success clears the failures before its own beginning.  A request for  *)
(* a live board that fails waits once and tries again, and still counts as *)
(* begun when it first was.  The fence is kept in memory and in            *)
(* sessionStorage, so that it outlives a reload where the storage works.   *)
(* How long a request waits is left out, and so are the optional reads     *)
(* that ask to be neutral.                                                 *)
(* A unit of time is DEFAULT_RETRY_AFTER_SECONDS; the clock does not go    *)
(* back.                                                                   *)
(***************************************************************************)
EXTENDS Integers

CONSTANTS
    Request,     \* the requests that may be under way at a time
    RetryAfter,  \* the Retry-After values that a failure may carry
    MaxTime,     \* bound on the clock
    None

\* What the proofs ask of the constants.
CooldownAssumption == RetryAfter \subseteq Nat /\ MaxTime \in Nat /\ None \notin Nat

MaxBackoff == 4  \* MAX_BACKOFF_SECONDS in units

VARIABLES
    now,
    until, failureAt,  \* cooldownUntilMemory and failureAtMemory
    failures,          \* consecutiveFailures
    storage,           \* does sessionStorage work, and what does it hold?
    began,             \* when each request under way began
    attempt,           \* its attempt, or that it waits for its second
    owed               \* ghost: the failures, while what they asked for lasts, that no
                       \* later request has answered

vars == <<now, until, failureAt, failures, storage, began, attempt, owed>>

Init ==
    /\ now = 1 /\ until = 0 /\ failureAt = 0 /\ failures = 0
    /\ storage \in {[works |-> w, until |-> 0, failureAt |-> 0] : w \in BOOLEAN}
    /\ began = [r \in Request |-> None] /\ attempt = [r \in Request |-> "first"]
    /\ owed = {}

Later(a, b) == IF a > b THEN a ELSE b
Stored(f, t) == IF storage.works THEN [storage EXCEPT ![f] = t] ELSE storage
Fence == Later(until, storage.until)
LastFailure == Later(failureAt, storage.failureAt)

\* readDependencyCooldown: whoever looks also tidies up or repairs the fence.
Looks ==
    /\ until' = IF Fence > now THEN Fence ELSE 0
    /\ storage' = Stored("until", until')
Read == Looks /\ UNCHANGED <<now, failureAt, failures, began, attempt, owed>>

\* A request asks for the cooldown before it begins, and fails at once while it lasts.
Begin(r) ==
    /\ began[r] = None
    /\ Looks
    /\ began' = IF Fence > now THEN began ELSE [began EXCEPT ![r] = now]
    /\ UNCHANGED <<now, failureAt, failures, attempt, owed>>

Sent(r) == began[r] # None /\ attempt[r] # "waits"
Ends(r) == began' = [began EXCEPT ![r] = None] /\ attempt' = [attempt EXCEPT ![r] = "first"]

\* After its wait a request asks again.
TryAgain(r) ==
    /\ attempt[r] = "waits"
    /\ Looks
    /\ IF Fence > now THEN Ends(r)
       ELSE attempt' = [attempt EXCEPT ![r] = "second"] /\ UNCHANGED began
    /\ UNCHANGED <<now, failureAt, failures, owed>>

Backoff(n) == IF n = 3 THEN MaxBackoff ELSE n

\* A failure that replaces the fence.
Replaced(asked) == asked
\* A failure never shortens the fence.
Extended(asked) == Later(Fence, asked)

\* noteDependencyFailure, with the Retry-After of the answer or without one.
Fail(r, after) ==
    LET n == IF failures < 3 THEN failures + 1 ELSE 3
        asked == now + IF after = None THEN Backoff(n) ELSE after
        fence == Extended(asked)
        at == Later(LastFailure, now)
    IN  /\ Sent(r)
        /\ failures' = n
        /\ until' = IF fence > now THEN fence ELSE 0
        /\ failureAt' = at
        /\ storage' = IF storage.works
                      THEN [storage EXCEPT !.until = until', !.failureAt = at] ELSE storage
        /\ owed' = owed \cup {[at |-> now, until |-> asked]}
        /\ \/ Ends(r)
           \/ attempt[r] = "first" /\ attempt' = [attempt EXCEPT ![r] = "waits"]
              /\ UNCHANGED began
        /\ UNCHANGED now

\* clearDependencyCooldown(startedAt)
Succeed(r) ==
    /\ Sent(r)
    /\ IF LastFailure > began[r]
       THEN UNCHANGED <<until, failureAt, failures, storage>>
       ELSE /\ until' = 0 /\ failureAt' = 0 /\ failures' = 0
            /\ storage' = IF storage.works
                          THEN [storage EXCEPT !.until = 0, !.failureAt = 0] ELSE storage
    /\ owed' = {f \in owed : f.at > began[r]}
    /\ Ends(r)
    /\ UNCHANGED now

\* A request is cancelled, or fails for a reason of its own.
Drop(r) ==
    /\ began[r] # None
    /\ Ends(r)
    /\ UNCHANGED <<now, until, failureAt, failures, storage, owed>>

\* The page is loaded again: memory and the requests under way are gone, and
\* without the storage so is what is owed.
Reload ==
    /\ until' = 0 /\ failureAt' = 0 /\ failures' = 0
    /\ began' = [r \in Request |-> None] /\ attempt' = [r \in Request |-> "first"]
    /\ owed' = IF storage.works THEN owed ELSE {}
    /\ UNCHANGED <<now, storage>>

Tick ==
    /\ now < MaxTime
    /\ now' = now + 1
    /\ owed' = {f \in owed : f.until > now'}
    /\ UNCHANGED <<until, failureAt, failures, storage, began, attempt>>

Next ==
    \/ \E r \in Request :
          \/ Begin(r) \/ TryAgain(r) \/ Succeed(r) \/ Drop(r)
          \/ \E after \in RetryAfter \cup {None} : Fail(r, after)
    \/ Read \/ Reload \/ Tick

Spec == Init /\ [][Next]_vars

-----------------------------------------------------------------------------
\* Until a request that began after it has succeeded, a failure holds requests off for
\* as long as it asked, whatever answers overtake it and across reloads that keep the
\* session storage (noteDependencyFailure, clearDependencyCooldown).  A success that
\* began in the millisecond of the failure counts as later.
HoldsOff == \A f \in owed : f.until > now => Fence >= f.until
=============================================================================
