-------------------------- MODULE MCReleaseProofs --------------------------
(***************************************************************************)
(* Proofs about the releases, for any set of releases.  The workflow, for  *)
(* any setting of it: the group lets one run work at a time, and what a    *)
(* run that ended left under way is found by the next one before it splits *)
(* the route.  The host, for any setting that HostSetting admits: where a  *)
(* script is in its program, what it has established when it gets there,   *)
(* and what a failure would put back; from these, where the links lead and *)
(* what is served.  Last, both in the parts of MCRelease.                  *)
(***************************************************************************)
EXTENDS MCRelease, TLAPS, SequenceTheorems

-----------------------------------------------------------------------------
(* The workflow, for any setting.                                          *)

WorkflowSetting(c) ==
    /\ c.commits \in Nat /\ c.dispatches \in Nat /\ c.faults \in Nat
    /\ c.modes \subseteq {"canary", "cutover", "maintenance"}

\* What waits is an event, or nothing waits.
Queued(c) == waiting.mode = "none" => waiting = Workflow(c)!Nothing

\* The types at the start.
LEMMA WorkflowInitTypes ==
    ASSUME NEW c, WorkflowSetting(c), Workflow(c)!Init PROVE Workflow(c)!TypeOK
BY DEF Workflow!Init, Workflow!TypeOK, WorkflowSetting, Workflow!Sha, Workflow!Mode, Workflow!NoRun,
       Workflow!Event, Workflow!Nothing, Workflow!Pc

\* What is in stock stays within its bounds.
LEMMA SpendTypes ==
    ASSUME NEW c, WorkflowSetting(c), Workflow(c)!TypeOK, Workflow(c)!Spend
    PROVE  stock' \in [dispatches : 0..c.dispatches, faults : 0..c.faults]
BY DEF Workflow!TypeOK, Workflow!Spend, WorkflowSetting

\* A step of a run that succeeds keeps the run a run.
LEMMA SucceedsTypes ==
    ASSUME NEW c, WorkflowSetting(c), Workflow(c)!TypeOK, Workflow(c)!Succeeds
    PROVE  run' \in [pc : Workflow(c)!Pc, sha : Workflow(c)!Sha,
                     mode : Workflow(c)!Mode \cup {"automatic"}, changed : BOOLEAN,
                     activated : BOOLEAN, ssh : BOOLEAN,
                     ended : {"success", "failed", "critical", "killed"}]
BY DEF Workflow!TypeOK, Workflow!Succeeds, Workflow!Pc

\* What the host holds after an activation.
LEMMA ActivatedTypes ==
    ASSUME NEW c, WorkflowSetting(c), Workflow(c)!TypeOK, NEW s \in Workflow(c)!Sha
    PROVE  Workflow(c)!Activated(s) \in [live : Workflow(c)!Sha, previous : Workflow(c)!Sha,
                staged : SUBSET Workflow(c)!Sha, busy : Workflow(c)!Sha]
<1>1. 0 \in Workflow(c)!Sha
  BY DEF Workflow!Sha, WorkflowSetting
<1> QED BY <1>1 DEF Workflow!Activated, Workflow!TypeOK

\* The steps of a run keep the types.
LEMMA WorkflowStepTypes ==
    ASSUME NEW c, WorkflowSetting(c), Workflow(c)!TypeOK, Workflow(c)!Step PROVE Workflow(c)!TypeOK'
<1> USE DEF Workflow!TypeOK, WorkflowSetting, Workflow!Sha, Workflow!Mode, Workflow!Pc,
        Workflow!Passes, Workflow!Events
<1>1. CASE Workflow(c)!CheckMain
  BY <1>1 DEF Workflow!CheckMain
<1>2. CASE Workflow(c)!Gate
  BY <1>2 DEF Workflow!Gate
<1>3. CASE Workflow(c)!PriorResolved
  BY <1>3 DEF Workflow!PriorResolved
<1>4. CASE Workflow(c)!Candidate
  BY <1>4 DEF Workflow!Candidate
<1>5. CASE Workflow(c)!CheckAgain
  BY <1>5 DEF Workflow!CheckAgain
<1>6. CASE Workflow(c)!ToVercel
  BY <1>6 DEF Workflow!ToVercel
<1>7. CASE Workflow(c)!Stage
  BY <1>7 DEF Workflow!Stage, Workflow!Stages
<1>8. CASE Workflow(c)!Verify
  BY <1>8 DEF Workflow!Verify
<1>9. CASE Workflow(c)!Promote
  BY <1>9 DEF Workflow!Promote
<1>10. CASE Workflow(c)!Observe
  BY <1>10 DEF Workflow!Observe
<1>11. CASE Workflow(c)!Confirm
  BY <1>11 DEF Workflow!Confirm
<1>12. CASE Workflow(c)!Converge
  <2>1. CASE run.mode = "maintenance"
    BY <1>12, <2>1, SucceedsTypes DEF Workflow!Converge
  <2>2. CASE run.mode # "maintenance"
    BY <1>12, <2>2 DEF Workflow!Converge
  <2> QED BY <2>1, <2>2
<1>13. CASE Workflow(c)!Activate
  <2>1. /\ run.pc = "activate" /\ UNCHANGED <<main, ci, waiting, route, vercel>>
    BY <1>13 DEF Workflow!Activate
  <2>2. ASSUME host' = Workflow(c)!Activated(run.sha), UNCHANGED stock,
               run' = [run EXCEPT !.pc = "health", !.activated = TRUE]
        PROVE  Workflow(c)!TypeOK'
    BY <2>1, <2>2, ActivatedTypes
  <2>3. ASSUME Workflow(c)!Spend, host' = [host EXCEPT !.busy = run.sha],
               Workflow(c)!Exits("failed")
        PROVE  Workflow(c)!TypeOK'
    BY <2>1, <2>3, SpendTypes DEF Workflow!Exits, Workflow!Trapped
  <2> QED BY <1>13, <2>2, <2>3 DEF Workflow!Activate, Workflow!Spend
<1>14. CASE Workflow(c)!Health
  <2>1. CASE run.mode = "cutover"
    BY <1>14, <2>1 DEF Workflow!Health
  <2>2. CASE run.mode # "cutover"
    BY <1>14, <2>2, SucceedsTypes DEF Workflow!Health
  <2> QED BY <2>1, <2>2
<1>15. CASE Workflow(c)!Split
  BY <1>15 DEF Workflow!Split
<1>16. CASE Workflow(c)!Edge
  BY <1>16 DEF Workflow!Edge
<1>17. CASE Workflow(c)!Purge
  BY <1>17 DEF Workflow!Purge, Workflow!Succeeds
<1>18. CASE Workflow(c)!Cleanup
  BY <1>18 DEF Workflow!Cleanup, Workflow!Spend
<1>19. CASE Workflow(c)!Restore
  <2>1. UNCHANGED <<main, ci, waiting, vercel, host>>
    BY <1>19 DEF Workflow!Restore
  <2>2. ASSUME route' = IF run.changed THEN "vercel" ELSE route, UNCHANGED stock,
               run' = [run EXCEPT !.pc = "idle", !.changed = FALSE]
        PROVE  Workflow(c)!TypeOK'
    <3>1. route' \in {"vercel", "split"}
      BY <2>2
    <3> QED BY <2>1, <2>2, <3>1
  <2>3. ASSUME Workflow(c)!Spend, route' \in {route, "vercel"},
               run' = [run EXCEPT !.pc = "idle", !.ended = "critical"]
        PROVE  Workflow(c)!TypeOK'
    BY <2>1, <2>3, SpendTypes
  <2> QED BY <1>19, <2>2, <2>3 DEF Workflow!Restore
<1> QED
  BY <1>1, <1>2, <1>3, <1>4, <1>5, <1>6, <1>7, <1>8, <1>9, <1>10, <1>11, <1>12, <1>13,
     <1>14, <1>15, <1>16, <1>17, <1>18, <1>19 DEF Workflow!Step

\* Every step of the workflow keeps the types; for Begins, what waits is an event.
LEMMA WorkflowNextTypes ==
    ASSUME NEW c, WorkflowSetting(c), Workflow(c)!TypeOK, Queued(c),
           [Workflow(c)!Next]_(Workflow(c)!vars)
    PROVE  Workflow(c)!TypeOK'
<1> USE DEF Workflow!TypeOK, WorkflowSetting, Workflow!Sha, Workflow!Mode, Workflow!Pc,
        Workflow!Events, Workflow!Event, Workflow!Nothing, Workflow!NoRun
<1>1. CASE Workflow(c)!Push
  <2>1. UNCHANGED <<waiting, run, route, vercel, host, stock>>
    BY <1>1 DEF Workflow!Push
  <2>2. main' \in Workflow(c)!Sha /\ ci' \subseteq Workflow(c)!Sha
    BY <1>1 DEF Workflow!Push
  <2> QED BY <2>1, <2>2
<1>2. CASE Workflow(c)!OtherCompletes
  BY <1>2 DEF Workflow!OtherCompletes
<1>3. CASE Workflow(c)!Begins
  <2>1. CASE waiting.mode = "other"
    BY <1>3, <2>1 DEF Workflow!Begins
  <2>2. CASE waiting.mode # "other"
    <3>1. waiting.mode \in Workflow(c)!Mode \cup {"automatic"} /\ waiting.sha \in Workflow(c)!Sha
      BY <1>3, <2>2 DEF Workflow!Begins, Queued
    <3>2. waiting' \in Workflow(c)!Event
      BY <1>3 DEF Workflow!Begins
    <3>3. run' = [Workflow(c)!NoRun EXCEPT !.pc = "main", !.sha = waiting.sha,
                                           !.mode = waiting.mode]
      BY <1>3, <2>2 DEF Workflow!Begins
    <3>4. run' \in [pc : Workflow(c)!Pc, sha : Workflow(c)!Sha,
                   mode : Workflow(c)!Mode \cup {"automatic"}, changed : BOOLEAN,
                   activated : BOOLEAN, ssh : BOOLEAN,
                   ended : {"success", "failed", "critical", "killed"}]
      BY <3>1, <3>3
    <3>5. UNCHANGED <<main, ci, route, vercel, host, stock>>
      BY <1>3 DEF Workflow!Begins
    <3> QED BY <3>2, <3>4, <3>5
  <2> QED BY <2>1, <2>2
<1>4. ASSUME NEW s \in Workflow(c)!Sha, Workflow(c)!CiCompletes(s) PROVE Workflow(c)!TypeOK'
  BY <1>4 DEF Workflow!CiCompletes
<1>5. ASSUME NEW s \in Workflow(c)!Sha, Workflow(c)!PromotionEnds(s)
      PROVE  Workflow(c)!TypeOK'
  <2>1. PICK how \in {"succeeded", "failed"} :
            vercel' = [vercel EXCEPT
                !.flying = vercel.flying \ {s},
                !.alias = IF how = "succeeded" THEN s ELSE vercel.alias,
                !.state = IF s = vercel.last THEN how ELSE vercel.state]
    BY <1>5 DEF Workflow!PromotionEnds
  <2>2. (IF how = "succeeded" THEN s ELSE vercel.alias) \in Workflow(c)!Sha
    OBVIOUS
  <2>3. (IF s = vercel.last THEN how ELSE vercel.state) \in {"succeeded", "pending", "failed"}
    OBVIOUS
  <2>4. vercel' \in [alias : Workflow(c)!Sha, last : Workflow(c)!Sha,
                    state : {"succeeded", "pending", "failed"}, flying : SUBSET Workflow(c)!Sha]
    BY <2>1, <2>2, <2>3
  <2>5. UNCHANGED <<main, ci, waiting, run, route, host, stock>>
    BY <1>5 DEF Workflow!PromotionEnds
  <2> QED BY <2>4, <2>5
<1>6. ASSUME NEW mode \in Workflow(c)!Mode, Workflow(c)!Dispatch(mode)
      PROVE  Workflow(c)!TypeOK'
  BY <1>6 DEF Workflow!Dispatch
<1>7. CASE Workflow(c)!Step
  BY <1>7, WorkflowStepTypes
<1>8. CASE Workflow(c)!Fails
  <2>1. UNCHANGED <<main, ci, waiting, vercel>>
    BY <1>8 DEF Workflow!Fails
  <2>2. route' \in {"vercel", "split"}
    BY <1>8 DEF Workflow!Fails, Workflow!Applied
  <2>3. host' \in [live : Workflow(c)!Sha, previous : Workflow(c)!Sha,
                  staged : SUBSET Workflow(c)!Sha, busy : Workflow(c)!Sha]
    BY <1>8 DEF Workflow!Fails, Workflow!Stages
  <2>4. stock' \in [dispatches : 0..c.dispatches, faults : 0..c.faults]
    BY <1>8, SpendTypes DEF Workflow!Fails
  <2>5. run' = [run EXCEPT !.pc = IF Workflow(c)!Trapped THEN "cleanup" ELSE "idle",
                           !.ended = "failed", !.ssh = run.ssh \/ run.pc = "stage"]
    BY <1>8 DEF Workflow!Fails
  <2>6. (IF Workflow(c)!Trapped THEN "cleanup" ELSE "idle") \in Workflow(c)!Pc
    OBVIOUS
  <2>7. (run.ssh \/ run.pc = "stage") \in BOOLEAN
    OBVIOUS
  <2>8. run' \in [pc : Workflow(c)!Pc, sha : Workflow(c)!Sha,
                 mode : Workflow(c)!Mode \cup {"automatic"}, changed : BOOLEAN,
                 activated : BOOLEAN, ssh : BOOLEAN,
                 ended : {"success", "failed", "critical", "killed"}]
    BY <2>5, <2>6, <2>7
  <2> QED BY <2>1, <2>2, <2>3, <2>4, <2>8
<1>9. CASE Workflow(c)!Killed
  <2>1. UNCHANGED <<main, ci, waiting, vercel>>
    BY <1>9 DEF Workflow!Killed
  <2>2. route' \in {"vercel", "split"}
    BY <1>9 DEF Workflow!Killed, Workflow!Applied
  <2>3. host' \in [live : Workflow(c)!Sha, previous : Workflow(c)!Sha,
                  staged : SUBSET Workflow(c)!Sha, busy : Workflow(c)!Sha]
    BY <1>9 DEF Workflow!Killed
  <2>4. stock' \in [dispatches : 0..c.dispatches, faults : 0..c.faults]
    BY <1>9, SpendTypes DEF Workflow!Killed
  <2>5. run' = [run EXCEPT !.pc = "idle", !.ended = "killed"]
    BY <1>9 DEF Workflow!Killed
  <2> QED BY <2>1, <2>2, <2>3, <2>4, <2>5
<1>10. CASE Workflow(c)!HostEnds
  BY <1>10, ActivatedTypes DEF Workflow!HostEnds
<1>11. CASE UNCHANGED Workflow(c)!vars
  BY <1>11 DEF Workflow!vars
<1> QED
  BY <1>1, <1>2, <1>3, <1>4, <1>5, <1>6, <1>7, <1>8, <1>9, <1>10, <1>11 DEF Workflow!Next

-----------------------------------------------------------------------------
(* Under the split nothing is in flight: a run has the promotion to itself  *)
(* from the gate on, and goes on only when its candidate is what Vercel     *)
(* serves and its activation what the host serves.                          *)

Promoting == {"candidate", "again", "all-vercel", "stage", "verify", "promote", "confirm",
              "converge", "activate", "health", "split"}
Releasing == {"stage", "verify", "promote", "observe", "confirm", "converge", "activate",
              "health", "split"}

\* Of the alias operations only the last may be in flight, and only while it is pending.
OneInFlight == vercel.flying = (IF vercel.state = "pending" THEN {vercel.last} ELSE {})

\* No alias operation is pending where the gate was passed, or the answer was awaited.
Awaited == run.pc \in Promoting => vercel.state # "pending"

\* What the release has reached: the alias, the host, and no activation left over.
Converged ==
    /\ run.pc \in {"activate", "health", "split"} => vercel.alias = run.sha
    /\ run.pc \in {"health", "split"} => host.busy = 0
    /\ run.pc = "split" => host.live = run.sha

\* From the staging to the split, Vercel alone serves the public route.
AllVercel == run.pc \in Releasing => route = "vercel"

\* What the trap knows of the run: before the staging nothing was done on the host,
\* and after the route was touched the trap is told so.
TrapKnows ==
    /\ run.pc \in {"main", "gate", "prior", "candidate", "again", "all-vercel", "stage"} => ~run.ssh
    /\ run.pc \notin {"idle", "cleanup", "restore"} => run.ended = "success"
    /\ run.pc \in {"all-vercel", "edge", "purge"} \cup Releasing => run.changed
    /\ run.pc \in {"cleanup", "restore"} /\ run.ended = "failed" /\ run.ssh => run.changed

WorkflowInv(c) ==
    /\ Workflow(c)!TypeOK
    /\ Queued(c)
    /\ OneInFlight
    /\ Awaited
    /\ Converged
    /\ AllVercel
    /\ Workflow(c)!SplitIsSame
    /\ TrapKnows

\* The invariant holds at the start.
LEMMA WorkflowInit ==
    ASSUME NEW c, WorkflowSetting(c), Workflow(c)!Init PROVE WorkflowInv(c)
<1>1. Workflow(c)!TypeOK
  BY WorkflowInitTypes
<1> QED
  BY <1>1 DEF WorkflowInv, Workflow!Init, Workflow!NoRun, Queued, OneInFlight, Awaited,
     Converged, AllVercel, Workflow!SplitIsSame, TrapKnows, Promoting, Releasing

Quiet == OneInFlight /\ Awaited /\ Converged /\ AllVercel /\ TrapKnows

\* The steps of a run keep what waits, what is under way, and the split.
LEMMA WorkflowStep ==
    ASSUME NEW c, WorkflowSetting(c), WorkflowInv(c), Workflow(c)!Step
    PROVE  Queued(c)' /\ Quiet' /\ Workflow(c)!SplitIsSame'
<1> USE DEF WorkflowInv, Workflow!TypeOK, Workflow!Passes, Workflow!Events, Queued, Quiet,
        OneInFlight, Awaited, Converged, AllVercel, Workflow!SplitIsSame, TrapKnows,
        Promoting, Releasing, Workflow!Nothing
<1>1. CASE Workflow(c)!CheckMain
  BY <1>1 DEF Workflow!CheckMain
<1>2. CASE Workflow(c)!Gate
  BY <1>2 DEF Workflow!Gate
<1>3. CASE Workflow(c)!PriorResolved
  BY <1>3 DEF Workflow!PriorResolved
<1>4. CASE Workflow(c)!Candidate
  BY <1>4 DEF Workflow!Candidate
<1>5. CASE Workflow(c)!CheckAgain
  BY <1>5 DEF Workflow!CheckAgain
<1>6. CASE Workflow(c)!ToVercel
  BY <1>6 DEF Workflow!ToVercel
<1>7. CASE Workflow(c)!Stage
  BY <1>7 DEF Workflow!Stage, Workflow!Stages
<1>8. CASE Workflow(c)!Verify
  BY <1>8 DEF Workflow!Verify
<1>9. CASE Workflow(c)!Promote
  BY <1>9 DEF Workflow!Promote
<1>10. CASE Workflow(c)!Observe
  BY <1>10 DEF Workflow!Observe
<1>11. CASE Workflow(c)!Confirm
  BY <1>11 DEF Workflow!Confirm, Workflow!Promoted
<1>12. CASE Workflow(c)!Converge
  <2>1. CASE run.mode = "maintenance"
    <3>1. Workflow(c)!Succeeds /\ UNCHANGED <<waiting, route, vercel, host>>
      BY <1>12, <2>1 DEF Workflow!Converge
    <3>2. run'.pc = "cleanup" /\ run'.ended = "success"
      BY <3>1 DEF Workflow!Succeeds
    <3> QED BY <3>1, <3>2
  <2>2. CASE run.mode # "maintenance"
    BY <1>12, <2>2 DEF Workflow!Converge
  <2> QED BY <2>1, <2>2
<1>13. CASE Workflow(c)!Activate
  <2>1. /\ run.pc = "activate" /\ host.busy = 0 /\ UNCHANGED <<main, ci, waiting, route, vercel>>
    BY <1>13 DEF Workflow!Activate
  <2>2. CASE host' = Workflow(c)!Activated(run.sha)
             /\ run' = [run EXCEPT !.pc = "health", !.activated = TRUE]
    <3>1. host'.busy = 0
      BY <2>1, <2>2 DEF Workflow!Activated
    <3>2. /\ run'.pc = "health" /\ run'.sha = run.sha /\ run'.ssh = run.ssh
          /\ run'.changed = run.changed /\ run'.ended = run.ended
      BY <2>2
    <3> QED BY <2>1, <3>1, <3>2
  <2>3. CASE Workflow(c)!Exits("failed") /\ host' = [host EXCEPT !.busy = run.sha]
    <3>1. /\ run'.pc = "cleanup" /\ run'.ended = "failed" /\ run'.sha = run.sha
          /\ run'.ssh = run.ssh /\ run'.changed = run.changed
      BY <2>1, <2>3 DEF Workflow!Exits, Workflow!Trapped
    <3> QED BY <2>1, <3>1
  <2> QED BY <1>13, <2>2, <2>3 DEF Workflow!Activate
<1>14. CASE Workflow(c)!Health
  <2>1. CASE run.mode = "cutover"
    BY <1>14, <2>1 DEF Workflow!Health
  <2>2. CASE run.mode # "cutover"
    <3>1. Workflow(c)!Succeeds /\ UNCHANGED <<waiting, route, vercel, host>>
      BY <1>14, <2>2 DEF Workflow!Health
    <3>2. run'.pc = "cleanup" /\ run'.ended = "success"
      BY <3>1 DEF Workflow!Succeeds
    <3> QED BY <3>1, <3>2
  <2> QED BY <2>1, <2>2
<1>15. CASE Workflow(c)!Split
  BY <1>15 DEF Workflow!Split
<1>16. CASE Workflow(c)!Edge
  BY <1>16 DEF Workflow!Edge
<1>17. CASE Workflow(c)!Purge
  BY <1>17 DEF Workflow!Purge, Workflow!Succeeds
<1>18. CASE Workflow(c)!Cleanup
  BY <1>18 DEF Workflow!Cleanup
<1>19. CASE Workflow(c)!Restore
  <2>1. run.pc = "restore" /\ UNCHANGED <<waiting, vercel, host>>
    BY <1>19 DEF Workflow!Restore
  <2>2. route' \in {route, "vercel"} /\ run'.pc = "idle"
    BY <1>19 DEF Workflow!Restore
  <2> QED BY <2>1, <2>2
<1> QED
  BY <1>1, <1>2, <1>3, <1>4, <1>5, <1>6, <1>7, <1>8, <1>9, <1>10, <1>11, <1>12, <1>13,
     <1>14, <1>15, <1>16, <1>17, <1>18, <1>19 DEF Workflow!Step

\* Every step of the workflow keeps the invariant.
LEMMA WorkflowNext ==
    ASSUME NEW c, WorkflowSetting(c), WorkflowInv(c),
           [Workflow(c)!Next]_(Workflow(c)!vars)
    PROVE  WorkflowInv(c)'
<1>0. Workflow(c)!TypeOK'
  BY WorkflowNextTypes DEF WorkflowInv
<1>. SUFFICES Queued(c)' /\ Quiet' /\ Workflow(c)!SplitIsSame'
  BY <1>0 DEF WorkflowInv, Quiet
<1> USE DEF WorkflowInv, Workflow!TypeOK, Workflow!Events, Queued, Quiet,
        OneInFlight, Awaited, Converged, AllVercel, Workflow!SplitIsSame, TrapKnows,
        Promoting, Releasing, Workflow!Nothing
<1>1. CASE Workflow(c)!Push
  BY <1>1 DEF Workflow!Push
<1>2. CASE Workflow(c)!OtherCompletes
  BY <1>2 DEF Workflow!OtherCompletes
<1>3. CASE Workflow(c)!Begins
  BY <1>3 DEF Workflow!Begins, Workflow!NoRun
<1>4. ASSUME NEW s \in Workflow(c)!Sha, Workflow(c)!CiCompletes(s)
      PROVE  Queued(c)' /\ Quiet' /\ Workflow(c)!SplitIsSame'
  BY <1>4 DEF Workflow!CiCompletes
<1>5. ASSUME NEW s \in Workflow(c)!Sha, Workflow(c)!PromotionEnds(s)
      PROVE  Queued(c)' /\ Quiet' /\ Workflow(c)!SplitIsSame'
  BY <1>5 DEF Workflow!PromotionEnds
<1>6. ASSUME NEW mode \in Workflow(c)!Mode, Workflow(c)!Dispatch(mode)
      PROVE  Queued(c)' /\ Quiet' /\ Workflow(c)!SplitIsSame'
  BY <1>6 DEF Workflow!Dispatch, Workflow!Mode
<1>7. CASE Workflow(c)!Step
  BY <1>7, WorkflowStep
<1>8. CASE Workflow(c)!Fails
  <2>1. /\ run.pc \notin {"idle", "cleanup", "restore"}
        /\ run' = [run EXCEPT !.pc = IF Workflow(c)!Trapped THEN "cleanup" ELSE "idle",
                              !.ended = "failed", !.ssh = run.ssh \/ run.pc = "stage"]
        /\ UNCHANGED <<waiting, vercel>>
    BY <1>8 DEF Workflow!Fails
  <2>2. host'.live = host.live /\ host'.busy = host.busy
    BY <1>8 DEF Workflow!Fails, Workflow!Stages
  <2>3. \/ route' = route
        \/ run.pc = "all-vercel" /\ route' = "vercel"
        \/ run.pc = "split" /\ route' = "split"
    <3>1. route' = route \/ route' \in Workflow(c)!Applied
      BY <1>8 DEF Workflow!Fails
    <3> HIDE DEF WorkflowInv, Workflow!TypeOK
    <3> QED BY <3>1 DEF Workflow!Applied
  <2>4. run'.pc \in {"idle", "cleanup"} /\ run'.changed = run.changed
    BY <2>1
  <2>5. run'.pc = "cleanup" /\ run'.ssh => run.changed
    <3>1. CASE Workflow(c)!Trapped
      <4>1. run.pc \in {"again", "all-vercel", "edge", "purge"} \cup Releasing
        BY <2>1, <3>1 DEF Workflow!Trapped, Workflow!Pc
      <4>2. run.pc = "again" => ~run'.ssh
        BY <2>1
      <4> QED BY <4>1, <4>2
    <3>2. CASE ~Workflow(c)!Trapped
      BY <2>1, <3>2
    <3> QED BY <3>1, <3>2
  <2>6. Queued(c)' /\ OneInFlight' /\ Awaited' /\ Converged' /\ AllVercel' /\ TrapKnows'
    BY <2>1, <2>4, <2>5
  <2>7. Workflow(c)!SplitIsSame'
    BY <2>1, <2>2, <2>3
  <2> QED BY <2>6, <2>7
<1>9. CASE Workflow(c)!Killed
  BY <1>9 DEF Workflow!Killed, Workflow!Applied
<1>10. CASE Workflow(c)!HostEnds
  BY <1>10 DEF Workflow!HostEnds, Workflow!Activated
<1>11. CASE UNCHANGED Workflow(c)!vars
  BY <1>11 DEF Workflow!vars
<1> QED
  BY <1>1, <1>2, <1>3, <1>4, <1>5, <1>6, <1>7, <1>8, <1>9, <1>10, <1>11 DEF Workflow!Next

\* A run that ends as failed after it touched the route leaves all-Vercel.
LEMMA WorkflowCloses ==
    ASSUME NEW c, WorkflowSetting(c), WorkflowInv(c),
           [Workflow(c)!Next]_(Workflow(c)!vars)
    PROVE  Workflow(c)!ClosesRoute
<1>. SUFFICES ASSUME run.pc # "idle", run'.pc = "idle", run'.ended = "failed", run.ssh
              PROVE  route' = "vercel"
  BY DEF Workflow!ClosesRoute
<1> USE DEF WorkflowInv, Workflow!TypeOK, Workflow!Passes, Workflow!Events
<1>1. run' # run
  OBVIOUS
<1>2. CASE Workflow(c)!Fails
  BY <1>2 DEF Workflow!Fails, Workflow!Trapped, TrapKnows
<1>3. CASE Workflow(c)!Killed
  BY <1>3 DEF Workflow!Killed
<1>4. CASE Workflow(c)!Restore
  BY <1>4 DEF Workflow!Restore, TrapKnows
<1>5. CASE Workflow(c)!Gate
  BY <1>5 DEF Workflow!Gate, TrapKnows
<1>6. CASE Workflow(c)!Step /\ ~Workflow(c)!Restore /\ ~Workflow(c)!Gate
  <2>1. run'.pc # "idle"
    BY <1>6 DEF Workflow!Step, Workflow!CheckMain, Workflow!PriorResolved, Workflow!Candidate,
       Workflow!CheckAgain, Workflow!ToVercel, Workflow!Stage, Workflow!Verify,
       Workflow!Promote, Workflow!Observe, Workflow!Confirm, Workflow!Converge,
       Workflow!Succeeds, Workflow!Activate, Workflow!Exits, Workflow!Trapped,
       Workflow!Health, Workflow!Split, Workflow!Edge, Workflow!Purge, Workflow!Cleanup
  <2> QED BY <2>1
<1>7. CASE Workflow(c)!Begins
  BY <1>7 DEF Workflow!Begins
<1> QED
  BY <1>1, <1>2, <1>3, <1>4, <1>5, <1>6, <1>7 DEF Workflow!Next, Workflow!vars, Workflow!Push,
     Workflow!OtherCompletes, Workflow!CiCompletes, Workflow!PromotionEnds, Workflow!Dispatch,
     Workflow!HostEnds

\* So it always holds, in every setting.
LEMMA WorkflowHolds ==
    ASSUME NEW c, WorkflowSetting(c) PROVE Workflow(c)!Spec => []WorkflowInv(c)
<1>1. Workflow(c)!Init => WorkflowInv(c)
  BY WorkflowInit
<1>2. WorkflowInv(c) /\ [Workflow(c)!Next]_(Workflow(c)!vars) => WorkflowInv(c)'
  BY WorkflowNext
<1> QED BY <1>1, <1>2, PTL DEF Workflow!Spec

-----------------------------------------------------------------------------
(* The runs of MCRelease.                                                   *)

RunsInv ==
    /\ part \in HostParts \cup {"faulty", "sound"}
    /\ part = "faulty" => WorkflowInv(Faulty)
    /\ part = "sound" => WorkflowInv(Sound)

\* The settings of the runs are among these.
LEMMA SettingsAreSettings == WorkflowSetting(Faulty) /\ WorkflowSetting(Sound)
BY DEF WorkflowSetting, Faulty, Sound

\* The invariant of the runs holds at the start.
LEMMA RunsInit == Init => RunsInv
BY WorkflowInit, SettingsAreSettings DEF Init, RunsInv, HostParts

\* It does not depend on more than the workflow's own variables.
LEMMA RunsStutter ==
    ASSUME NEW c, WorkflowInv(c), UNCHANGED runVars PROVE WorkflowInv(c)'
BY DEF WorkflowInv, runVars, Workflow!TypeOK, Queued, OneInFlight, Awaited, Converged, AllVercel,
   Workflow!SplitIsSame, TrapKnows, Promoting, Releasing, Workflow!Nothing, Workflow!Sha,
   Workflow!Event, Workflow!Mode, Workflow!Pc

\* Every step keeps it, those of the host because they leave the workflow alone.
LEMMA RunsNext == RunsInv /\ [Next]_vars => RunsInv'
<1>. SUFFICES ASSUME RunsInv, [Next]_vars PROVE RunsInv'
  OBVIOUS
<1>1. CASE HostNext \/ UNCHANGED vars
  <2>1. UNCHANGED <<part, runVars>>
    BY <1>1 DEF HostNext, vars
  <2> QED BY <2>1, RunsStutter DEF RunsInv
<1>2. CASE RunNext
  <2>1. CASE part = "faulty"
    BY <1>2, <2>1, WorkflowNext, SettingsAreSettings DEF RunNext, RunsInv
  <2>2. CASE part = "sound"
    BY <1>2, <2>2, WorkflowNext, SettingsAreSettings DEF RunNext, RunsInv
  <2> QED BY <1>2, <2>1, <2>2 DEF RunNext
<1> QED BY <1>1, <1>2 DEF Next

\* So the runs keep it.
LEMMA RunsHold == Spec => []RunsInv
BY RunsInit, RunsNext, PTL DEF Spec

\* While the public route is split, both origins serve the same release
\* (release-web.yml, check-promotion-state.mjs).
THEOREM SplitIsSameHolds == Spec => []SplitIsSame
<1>1. RunsInv => SplitIsSame
  BY DEF RunsInv, SplitIsSame, OnHost, WorkflowInv, Workflow!SplitIsSame
<1> QED BY <1>1, RunsHold, PTL

\* A run that failed after it touched the route leaves all-Vercel
\* (restore_all_vercel in release-web.yml).
THEOREM FailsClosedHolds == Spec => FailsClosed
<1>1. RunsInv /\ [Next]_vars => [~OnHost => Workflow(Faulty)!ClosesRoute]_vars
  <2>. SUFFICES ASSUME RunsInv, [Next]_vars, ~OnHost, ~(UNCHANGED vars)
                PROVE  Workflow(Faulty)!ClosesRoute
    OBVIOUS
  <2>1. RunNext
    BY DEF Next, HostNext, OnHost, HostParts
  <2>2. CASE part = "faulty"
    BY <2>1, <2>2, WorkflowCloses, SettingsAreSettings DEF RunNext, RunsInv
  <2>3. CASE part = "sound"
    <3>1. Workflow(Sound)!ClosesRoute
      BY <2>1, <2>3, WorkflowCloses, SettingsAreSettings DEF RunNext, RunsInv
    <3> QED BY <3>1 DEF Workflow!ClosesRoute
  <2> QED BY <2>1, <2>2, <2>3 DEF RunNext
<1> QED BY <1>1, RunsHold, PTL DEF Spec, FailsClosed

-----------------------------------------------------------------------------
(* The scripts on the host: where a script is, and what it does next.      *)

\* Any bounds on what fails and dies.  A deployment that fails or dies before it moves
\* its new link leaves it to the next one, which follows it (the README's finding
\* release_stale_link); so deployments run among scripts that meet no fault.
HostSetting(c) ==
    /\ c.kinds \subseteq {"stage", "deploy", "activate", "cleanup"}
    /\ c.overlap \in BOOLEAN /\ c.fails \in Nat /\ c.kills \in Nat
    /\ "deploy" \in c.kinds => ~c.overlap /\ c.fails = 0 /\ c.kills = 0

From(program, n) == SubSeq(program, n, Len(program))

Deployment == <<"build", "cache", "publish", "mkstatic", "fill", "ln", "mv", "previous", "env",
                "restart", "health", "render", "done", "prune", "tidy">>
Undo == <<"current-back", "previous-back", "env-back", "service-back">>
Expiry == <<"rm-static", "rm-cache", "prune">>
ExpiryTidy == <<"rm-static", "rm-cache", "prune", "tidy">>
Preparing == {"build", "cache", "publish", "mkstatic", "fill", "tidy",
              "rm-release", "rm-build", "rm-cache", "rm-static"}

Running == job.kind # "idle"
Doing == Head(job.todo)
Activating == job.kind = "activate"
Deploys == job.kind = "deploy"
Prepares == job.kind \in {"stage", "cleanup"} \/ (Deploys /\ job.failed)
Undoes == Activating /\ job.failed
Switches == job.kind \in {"activate", "deploy"} /\ ~job.activated /\ ~job.failed
Switched == job.kind \in {"activate", "deploy"} /\ job.activated /\ ~job.failed

\* A retention that removes one release, and goes on.
Expires(program) ==
    job.activated /\ job.victim # None /\ \E n \in 1..2 : job.todo = From(program, n)

Repeats(c) ==
    /\ ~job.activated /\ job.victim = None
    /\ \E n \in 1..3 : job.todo = From(Host(c)!Again, n)

Activates(c) ==
    \E n \in 1..9 :
        /\ job.todo = From(Host(c)!Switching, n)
        /\ job.activated <=> n > 2
        /\ n < 9 => job.victim = None

DeploysFrom(c) ==
    \E n \in 1..15 :
        /\ job.todo = From(Deployment, n)
        /\ job.activated <=> n > 7
        /\ n < 14 => job.victim = None

Shape(c) ==
    /\ ~Running => job = Host(c)!Idle
    /\ Running => job.kind \in c.kinds /\ job.sha \in Built
    /\ Prepares => /\ job.todo \in Seq(Preparing) \ {<<>>}
                   /\ ~job.activated /\ job.victim = None
    /\ job.kind = "cleanup" => ~job.failed
    /\ Undoes => /\ job.victim = None
                 /\ \E n \in 1..4 : job.todo = From(Undo, n) /\ (n = 1 => job.activated)
    /\ Activating /\ ~job.failed => Repeats(c) \/ Activates(c) \/ Expires(Expiry)
    /\ Deploys /\ ~job.failed => DeploysFrom(c) \/ Expires(ExpiryTidy)

\* The rest of a program from its n-th step: its first step, and what follows that.
LEMMA Tails ==
    ASSUME NEW S, NEW s \in Seq(S), NEW n \in 1..Len(s)
    PROVE  /\ From(s, n) \in Seq(S) /\ From(s, n) # <<>> /\ Head(From(s, n)) = s[n]
           /\ Tail(From(s, n)) = IF n = Len(s) THEN <<>> ELSE From(s, n + 1)
<1>1. Head(From(s, n)) = s[n] /\ Tail(From(s, n)) = SubSeq(s, n + 1, Len(s))
  BY HeadTailOfSubSeq, LenProperties DEF From
<1>2. From(s, n) \in Seq(S) /\ Len(From(s, n)) = Len(s) - n + 1
  BY SubSeqProperties, LenProperties, ElementOfSeq DEF From
<1>3. n = Len(s) => SubSeq(s, n + 1, Len(s)) = <<>>
  BY SubSeqEmpty, LenProperties
<1>4. From(s, n) # <<>>
  BY <1>2, LenProperties, EmptySeq
<1> QED BY <1>1, <1>2, <1>3, <1>4 DEF From

\* The names of the steps are steps.
LEMMA Steps ==
    ASSUME NEW c
    PROVE  /\ "build" \in Host(c)!Step /\ "cache" \in Host(c)!Step /\ "publish" \in Host(c)!Step
           /\ "mkstatic" \in Host(c)!Step /\ "fill" \in Host(c)!Step /\ "tidy" \in Host(c)!Step
           /\ "ln" \in Host(c)!Step /\ "mv" \in Host(c)!Step /\ "previous" \in Host(c)!Step
           /\ "env" \in Host(c)!Step /\ "restart" \in Host(c)!Step /\ "health" \in Host(c)!Step
           /\ "render" \in Host(c)!Step /\ "done" \in Host(c)!Step /\ "prune" \in Host(c)!Step
           /\ "rm-static" \in Host(c)!Step /\ "rm-cache" \in Host(c)!Step
           /\ "rm-release" \in Host(c)!Step /\ "rm-build" \in Host(c)!Step
           /\ "current-back" \in Host(c)!Step /\ "previous-back" \in Host(c)!Step
           /\ "env-back" \in Host(c)!Step /\ "service-back" \in Host(c)!Step
           /\ Preparing \subseteq Host(c)!Step
BY DEF Host!Step, Preparing

\* The programs are sequences of steps, of these lengths.
LEMMA Programs ==
    ASSUME NEW c
    PROVE  /\ Deployment \in Seq(Host(c)!Step) /\ Len(Deployment) = 15
           /\ Undo \in Seq(Host(c)!Step) /\ Len(Undo) = 4
           /\ Expiry \in Seq(Host(c)!Step) /\ Len(Expiry) = 3
           /\ ExpiryTidy \in Seq(Host(c)!Step) /\ Len(ExpiryTidy) = 4
           /\ Host(c)!Again \in Seq(Host(c)!Step) /\ Len(Host(c)!Again) = 3
           /\ Host(c)!Switching \in Seq(Host(c)!Step) /\ Len(Host(c)!Switching) = 9
           /\ Host(c)!Staging \in Seq(Host(c)!Step) /\ Len(Host(c)!Staging) = 5
           /\ Host(c)!Deploying \in Seq(Host(c)!Step) /\ Len(Host(c)!Deploying) = 9
<1>1. Deployment \in Seq(Host(c)!Step) /\ Len(Deployment) = 15
  BY Steps DEF Deployment
<1>2. Undo \in Seq(Host(c)!Step) /\ Len(Undo) = 4
  BY Steps DEF Undo
<1>3. Expiry \in Seq(Host(c)!Step) /\ Len(Expiry) = 3
  BY Steps DEF Expiry
<1>4. ExpiryTidy \in Seq(Host(c)!Step) /\ Len(ExpiryTidy) = 4
  BY Steps DEF ExpiryTidy
<1>5. Host(c)!Again \in Seq(Host(c)!Step) /\ Len(Host(c)!Again) = 3
  BY Steps DEF Host!Again
<1>6. Host(c)!Switching \in Seq(Host(c)!Step) /\ Len(Host(c)!Switching) = 9
  BY Steps DEF Host!Switching
<1>7. Host(c)!Staging \in Seq(Host(c)!Step) /\ Len(Host(c)!Staging) = 5
  BY Steps DEF Host!Staging
<1>8. Host(c)!Deploying \in Seq(Host(c)!Step) /\ Len(Host(c)!Deploying) = 9
  BY Steps DEF Host!Deploying
<1> QED BY <1>1, <1>2, <1>3, <1>4, <1>5, <1>6, <1>7, <1>8

\* The steps of the programs, by their place.
LEMMA SwitchingPlaces ==
    ASSUME NEW c
    PROVE  \A n \in 1..9 :
        /\ (Host(c)!Switching[n] = "ln" <=> n = 1) /\ (Host(c)!Switching[n] = "mv" <=> n = 2)
        /\ (Host(c)!Switching[n] = "env" <=> n = 3)
        /\ (Host(c)!Switching[n] = "restart" <=> n = 4)
        /\ (Host(c)!Switching[n] = "health" <=> n = 5)
        /\ (Host(c)!Switching[n] = "render" <=> n = 6)
        /\ (Host(c)!Switching[n] = "previous" <=> n = 7)
        /\ (Host(c)!Switching[n] = "done" <=> n = 8) /\ (Host(c)!Switching[n] = "prune" <=> n = 9)
BY DEF Host!Switching

\* The same for a deployment.
LEMMA DeploymentPlaces ==
    \A n \in 1..15 :
        /\ (Deployment[n] = "build" <=> n = 1) /\ (Deployment[n] = "cache" <=> n = 2)
        /\ (Deployment[n] = "publish" <=> n = 3) /\ (Deployment[n] = "mkstatic" <=> n = 4)
        /\ (Deployment[n] = "fill" <=> n = 5) /\ (Deployment[n] = "ln" <=> n = 6)
        /\ (Deployment[n] = "mv" <=> n = 7) /\ (Deployment[n] = "previous" <=> n = 8)
        /\ (Deployment[n] = "env" <=> n = 9) /\ (Deployment[n] = "restart" <=> n = 10)
        /\ (Deployment[n] = "health" <=> n = 11) /\ (Deployment[n] = "render" <=> n = 12)
        /\ (Deployment[n] = "done" <=> n = 13) /\ (Deployment[n] = "prune" <=> n = 14)
        /\ (Deployment[n] = "tidy" <=> n = 15)
BY DEF Deployment

\* The same for an activation of what is active.
LEMMA AgainPlaces ==
    ASSUME NEW c
    PROVE  \A n \in 1..3 :
        /\ (Host(c)!Again[n] = "render" <=> n = 1) /\ (Host(c)!Again[n] = "health" <=> n = 2)
        /\ (Host(c)!Again[n] = "done" <=> n = 3)
BY DEF Host!Again

\* The same for the trap of an activation.
LEMMA UndoPlaces ==
    \A n \in 1..4 :
        /\ (Undo[n] = "current-back" <=> n = 1) /\ (Undo[n] = "previous-back" <=> n = 2)
        /\ (Undo[n] = "env-back" <=> n = 3) /\ (Undo[n] = "service-back" <=> n = 4)
BY DEF Undo

\* The same for a retention that removes a release.
LEMMA ExpiryPlaces ==
    \A n \in 1..3 :
        /\ (Expiry[n] = "rm-static" <=> n = 1) /\ (Expiry[n] = "rm-cache" <=> n = 2)
        /\ (Expiry[n] = "prune" <=> n = 3)
BY DEF Expiry

\* The same for the retention of a deployment.
LEMMA ExpiryTidyPlaces ==
    \A n \in 1..4 :
        /\ (ExpiryTidy[n] = "rm-static" <=> n = 1) /\ (ExpiryTidy[n] = "rm-cache" <=> n = 2)
        /\ (ExpiryTidy[n] = "prune" <=> n = 3) /\ (ExpiryTidy[n] = "tidy" <=> n = 4)
BY DEF ExpiryTidy

\* Tails, for an activation.
LEMMA SwitchingFrom ==
    ASSUME NEW c, NEW n \in 1..9
    PROVE  /\ From(Host(c)!Switching, n) \in Seq(Host(c)!Step) /\ From(Host(c)!Switching, n) # <<>>
           /\ Head(From(Host(c)!Switching, n)) = Host(c)!Switching[n]
           /\ Tail(From(Host(c)!Switching, n)) =
                IF n = 9 THEN <<>> ELSE From(Host(c)!Switching, n + 1)
<1>1. Host(c)!Switching \in Seq(Host(c)!Step) /\ Len(Host(c)!Switching) = 9
  BY Programs
<1>2. n \in 1..Len(Host(c)!Switching)
  BY <1>1
<1>3. /\ From(Host(c)!Switching, n) \in Seq(Host(c)!Step) /\ From(Host(c)!Switching, n) # <<>>
      /\ Head(From(Host(c)!Switching, n)) = Host(c)!Switching[n]
      /\ Tail(From(Host(c)!Switching, n)) =
           IF n = Len(Host(c)!Switching) THEN <<>> ELSE From(Host(c)!Switching, n + 1)
  BY <1>1, <1>2, Tails, Zenon
<1> QED BY <1>1, <1>3

\* Tails, for a deployment.
LEMMA DeploymentFrom ==
    ASSUME NEW c, NEW n \in 1..15
    PROVE  /\ From(Deployment, n) \in Seq(Host(c)!Step) /\ From(Deployment, n) # <<>>
           /\ Head(From(Deployment, n)) = Deployment[n]
           /\ Tail(From(Deployment, n)) = IF n = 15 THEN <<>> ELSE From(Deployment, n + 1)
<1>1. Deployment \in Seq(Host(c)!Step) /\ Len(Deployment) = 15
  BY Programs
<1>2. n \in 1..Len(Deployment)
  BY <1>1
<1>3. /\ From(Deployment, n) \in Seq(Host(c)!Step) /\ From(Deployment, n) # <<>>
      /\ Head(From(Deployment, n)) = Deployment[n]
      /\ Tail(From(Deployment, n)) = IF n = Len(Deployment) THEN <<>> ELSE From(Deployment, n + 1)
  BY <1>1, <1>2, Tails, Zenon
<1> QED BY <1>1, <1>3

\* Tails, for an activation of what is active.
LEMMA AgainFrom ==
    ASSUME NEW c, NEW n \in 1..3
    PROVE  /\ From(Host(c)!Again, n) \in Seq(Host(c)!Step) /\ From(Host(c)!Again, n) # <<>>
           /\ Head(From(Host(c)!Again, n)) = Host(c)!Again[n]
           /\ Tail(From(Host(c)!Again, n)) = IF n = 3 THEN <<>> ELSE From(Host(c)!Again, n + 1)
<1>1. Host(c)!Again \in Seq(Host(c)!Step) /\ Len(Host(c)!Again) = 3
  BY Programs
<1>2. n \in 1..Len(Host(c)!Again)
  BY <1>1
<1>3. /\ From(Host(c)!Again, n) \in Seq(Host(c)!Step) /\ From(Host(c)!Again, n) # <<>>
      /\ Head(From(Host(c)!Again, n)) = Host(c)!Again[n]
      /\ Tail(From(Host(c)!Again, n)) =
           IF n = Len(Host(c)!Again) THEN <<>> ELSE From(Host(c)!Again, n + 1)
  BY <1>1, <1>2, Tails, Zenon
<1> QED BY <1>1, <1>3

\* Tails, for the trap of an activation.
LEMMA UndoFrom ==
    ASSUME NEW c, NEW n \in 1..4
    PROVE  /\ From(Undo, n) \in Seq(Host(c)!Step) /\ From(Undo, n) # <<>>
           /\ Head(From(Undo, n)) = Undo[n]
           /\ Tail(From(Undo, n)) = IF n = 4 THEN <<>> ELSE From(Undo, n + 1)
<1>1. Undo \in Seq(Host(c)!Step) /\ Len(Undo) = 4
  BY Programs
<1>2. n \in 1..Len(Undo)
  BY <1>1
<1>3. /\ From(Undo, n) \in Seq(Host(c)!Step) /\ From(Undo, n) # <<>>
      /\ Head(From(Undo, n)) = Undo[n]
      /\ Tail(From(Undo, n)) = IF n = Len(Undo) THEN <<>> ELSE From(Undo, n + 1)
  BY <1>1, <1>2, Tails, Zenon
<1> QED BY <1>1, <1>3

\* Tails, for a retention.
LEMMA ExpiryFrom ==
    ASSUME NEW c, NEW n \in 1..3
    PROVE  /\ From(Expiry, n) \in Seq(Host(c)!Step) /\ From(Expiry, n) # <<>>
           /\ Head(From(Expiry, n)) = Expiry[n]
           /\ Tail(From(Expiry, n)) = IF n = 3 THEN <<>> ELSE From(Expiry, n + 1)
<1>1. Expiry \in Seq(Host(c)!Step) /\ Len(Expiry) = 3
  BY Programs
<1>2. n \in 1..Len(Expiry)
  BY <1>1
<1>3. /\ From(Expiry, n) \in Seq(Host(c)!Step) /\ From(Expiry, n) # <<>>
      /\ Head(From(Expiry, n)) = Expiry[n]
      /\ Tail(From(Expiry, n)) = IF n = Len(Expiry) THEN <<>> ELSE From(Expiry, n + 1)
  BY <1>1, <1>2, Tails, Zenon
<1> QED BY <1>1, <1>3

\* Tails, for the retention of a deployment.
LEMMA ExpiryTidyFrom ==
    ASSUME NEW c, NEW n \in 1..4
    PROVE  /\ From(ExpiryTidy, n) \in Seq(Host(c)!Step) /\ From(ExpiryTidy, n) # <<>>
           /\ Head(From(ExpiryTidy, n)) = ExpiryTidy[n]
           /\ Tail(From(ExpiryTidy, n)) = IF n = 4 THEN <<>> ELSE From(ExpiryTidy, n + 1)
<1>1. ExpiryTidy \in Seq(Host(c)!Step) /\ Len(ExpiryTidy) = 4
  BY Programs
<1>2. n \in 1..Len(ExpiryTidy)
  BY <1>1
<1>3. /\ From(ExpiryTidy, n) \in Seq(Host(c)!Step) /\ From(ExpiryTidy, n) # <<>>
      /\ Head(From(ExpiryTidy, n)) = ExpiryTidy[n]
      /\ Tail(From(ExpiryTidy, n)) = IF n = Len(ExpiryTidy) THEN <<>> ELSE From(ExpiryTidy, n + 1)
  BY <1>1, <1>2, Tails, Zenon
<1> QED BY <1>1, <1>3

-----------------------------------------------------------------------------
JobType(c) ==
    [kind : Host(c)!Kind \cup {"idle"}, sha : Host(c)!Link, todo : Seq(Host(c)!Step),
     current : Host(c)!Link, previous : Host(c)!Link, activated : BOOLEAN,
     failed : BOOLEAN, victim : Host(c)!Link]

\* What a script is, by the step it is at.
Heads(c) ==
    /\ job.todo \in Seq(Host(c)!Step) \ {<<>>}
    /\ Prepares => Doing \in Preparing
    /\ Undoes => Doing \in {"current-back", "previous-back", "env-back", "service-back"}
    /\ Switches => Doing \in {"ln", "mv"} \cup
          (IF Activating THEN {"render", "health", "done"}
           ELSE {"build", "cache", "publish", "mkstatic", "fill"})
    /\ Switches => job.victim = None
    /\ Switched => Doing \in {"previous", "env", "restart", "health", "render", "done", "prune",
                              "rm-static", "rm-cache"} \cup (IF Activating THEN {} ELSE {"tidy"})
    /\ Switched => (job.victim # None => Doing \in {"prune", "rm-static", "rm-cache", "tidy"})
    /\ Switched => (Doing \in {"rm-static", "rm-cache"} => job.victim # None)
    /\ Doing = "current-back" => job.activated

\* A script's step tells where it is in its program.
LEMMA HeadsHold ==
    ASSUME NEW c, HostSetting(c), job \in JobType(c), Shape(c), Running PROVE Heads(c)
<1>0. job.kind \in {"stage", "deploy", "activate", "cleanup"} /\ job.activated \in BOOLEAN
      /\ job.failed \in BOOLEAN
  BY DEF Shape, HostSetting, JobType
<1> USE DEF Prepares, Undoes, Switches, Switched, Activating, Deploys
<1>1. CASE Prepares
  <2>1. job.todo \in Seq(Preparing) \ {<<>>} /\ ~job.activated /\ job.victim = None
    BY <1>1 DEF Shape
  <2>2. Doing \in Preparing
    BY <2>1, HeadTailProperties DEF Doing
  <2>3. job.todo \in Seq(Host(c)!Step)
    BY <2>1, Steps, SeqMonotonic
  <2>4. Doing # "current-back"
    BY <2>2 DEF Preparing
  <2> QED BY <1>0, <1>1, <2>1, <2>2, <2>3, <2>4 DEF Heads, Shape
<1>2. CASE Undoes
  <2>1. PICK n \in 1..4 : job.todo = From(Undo, n) /\ (n = 1 => job.activated)
    BY <1>2 DEF Shape
  <2>2. job.todo \in Seq(Host(c)!Step) /\ job.todo # <<>> /\ Doing = Undo[n]
    BY <2>1, UndoFrom DEF Doing
  <2> QED BY <1>0, <1>2, <2>1, <2>2, UndoPlaces DEF Heads
<1>3. CASE Activating /\ ~job.failed /\ Repeats(c)
  <2>1. PICK n \in 1..3 : job.todo = From(Host(c)!Again, n)
    BY <1>3 DEF Repeats
  <2>2. job.todo \in Seq(Host(c)!Step) /\ job.todo # <<>> /\ Doing = Host(c)!Again[n]
    BY <2>1, AgainFrom DEF Doing
  <2>3. ~job.activated /\ job.victim = None
    BY <1>3 DEF Repeats
  <2> QED BY <1>0, <1>3, <2>2, <2>3, AgainPlaces DEF Heads
<1>4. CASE Activating /\ ~job.failed /\ Activates(c)
  <2>1. PICK n \in 1..9 : job.todo = From(Host(c)!Switching, n) /\ (job.activated <=> n > 2)
                          /\ (n < 9 => job.victim = None)
    BY <1>4 DEF Activates
  <2>2. job.todo \in Seq(Host(c)!Step) /\ job.todo # <<>> /\ Doing = Host(c)!Switching[n]
    <3>1. job.todo = From(Host(c)!Switching, n)
      BY <2>1
    <3> QED BY <3>1, SwitchingFrom, Zenon DEF Doing
  <2> QED BY <1>0, <1>4, <2>1, <2>2, SwitchingPlaces DEF Heads
<1>5. CASE Activating /\ ~job.failed /\ Expires(Expiry)
  <2>1. PICK n \in 1..2 : job.todo = From(Expiry, n)
    BY <1>5 DEF Expires
  <2>2. job.todo \in Seq(Host(c)!Step) /\ job.todo # <<>> /\ Doing = Expiry[n]
    BY <2>1, ExpiryFrom DEF Doing
  <2>3. job.activated /\ job.victim # None
    BY <1>5 DEF Expires
  <2> QED BY <1>0, <1>5, <2>2, <2>3, ExpiryPlaces DEF Heads
<1>6. CASE Deploys /\ ~job.failed /\ DeploysFrom(c)
  <2>1. PICK n \in 1..15 : job.todo = From(Deployment, n) /\ (job.activated <=> n > 7)
                           /\ (n < 14 => job.victim = None)
    BY <1>6 DEF DeploysFrom
  <2>2. job.todo \in Seq(Host(c)!Step) /\ job.todo # <<>> /\ Doing = Deployment[n]
    <3>1. job.todo = From(Deployment, n)
      BY <2>1
    <3> QED BY <3>1, DeploymentFrom, Zenon DEF Doing
  <2> QED BY <1>0, <1>6, <2>1, <2>2, DeploymentPlaces DEF Heads
<1>7. CASE Deploys /\ ~job.failed /\ Expires(ExpiryTidy)
  <2>1. PICK n \in 1..2 : job.todo = From(ExpiryTidy, n)
    BY <1>7 DEF Expires
  <2>2. job.todo \in Seq(Host(c)!Step) /\ job.todo # <<>> /\ Doing = ExpiryTidy[n]
    BY <2>1, ExpiryTidyFrom DEF Doing
  <2>3. job.activated /\ job.victim # None
    BY <1>7 DEF Expires
  <2> QED BY <1>0, <1>7, <2>2, <2>3, ExpiryTidyPlaces DEF Heads
<1> QED BY <1>0, <1>1, <1>2, <1>3, <1>4, <1>5, <1>6, <1>7 DEF Shape

\* The step a script goes on to, unless it is its last.
Follows(c) ==
    /\ Prepares => Doing' \in Preparing
    /\ Undoes => /\ Doing = "current-back" => Doing' = "previous-back"
                 /\ Doing = "previous-back" => Doing' = "env-back"
                 /\ Doing = "env-back" => Doing' = "service-back"
                 /\ Doing # "service-back"
    /\ Switches \/ Switched =>
          /\ Doing = "build" => Doing' = "cache"
          /\ Doing = "cache" => Doing' = "publish"
          /\ Doing = "publish" => Doing' = "mkstatic"
          /\ Doing = "mkstatic" => Doing' = "fill"
          /\ Doing = "fill" => Doing' = "ln"
          /\ Doing = "ln" => Doing' = "mv"
          /\ Doing = "mv" => Doing' = (IF Activating THEN "env" ELSE "previous")
          /\ Doing = "env" => Doing' = "restart"
          /\ Doing = "restart" => Doing' = "health"
          /\ Doing = "previous" => Doing' = (IF Activating THEN "done" ELSE "env")
          /\ Doing = "rm-static" => Doing' = "rm-cache"
          /\ Doing = "rm-cache" => Doing' = "prune"
          /\ Doing = "prune" => Doing' = "tidy"
    /\ Switched =>
          /\ Doing = "health" => Doing' = "render"
          /\ Doing = "render" => Doing' = (IF Activating THEN "previous" ELSE "done")
          /\ Doing = "done" => Doing' = "prune"
          /\ Doing # "tidy"
    /\ Switches =>
          /\ Doing = "render" => Doing' = "health"
          /\ Doing = "health" => Doing' = "done"
          /\ Doing # "done"

SameJob == /\ job'.kind = job.kind /\ job'.sha = job.sha /\ job'.current = job.current
           /\ job'.previous = job.previous /\ job'.failed = job.failed
           /\ job'.victim = job.victim

\* A script that goes on, or ends with the step it is at.
Advances(c) ==
    /\ Shape(c)' /\ job' \in JobType(c)
    /\ Running' => Follows(c) /\ SameJob
                   /\ job'.activated = (job.activated \/ Doing = "mv")
    /\ ~Running' => Prepares \/ Doing \in {"service-back", "tidy"}
                    \/ (Activating /\ Doing = "prune") \/ (Switches /\ Doing = "done")

\* Sequences with the same first element and the same rest are the same.
LEMMA SameSequence ==
    ASSUME NEW S, NEW s \in Seq(S), NEW t \in Seq(S), s # <<>>, t # <<>>,
           Head(s) = Head(t), Tail(s) = Tail(t)
    PROVE  s = t
<1>1. Len(s) \in Nat \ {0} /\ Len(t) \in Nat \ {0}
  BY EmptySeq
<1>2. Len(Tail(s)) = Len(s) - 1 /\ Len(Tail(t)) = Len(t) - 1
  BY HeadTailProperties
<1>3. Len(s) = Len(t)
  <2>1. Len(s) - 1 = Len(t) - 1
    BY <1>2, Zenon
  <2>2. \A m, n \in Nat \ {0} : m - 1 = n - 1 => m = n
    OBVIOUS
  <2> QED BY <1>1, <2>1, <2>2, Zenon
<1>4. \A i \in 1..Len(s) : s[i] = t[i]
  <2> TAKE i \in 1..Len(s)
  <2>1. CASE i = 1
    BY <2>1
  <2>2. CASE i # 1
    <3>1. i - 1 \in 1..Len(Tail(s)) /\ i - 1 \in 1..Len(Tail(t))
      BY <1>1, <1>2, <1>3, <2>2
    <3>2. Tail(s)[i - 1] = s[i] /\ Tail(t)[i - 1] = t[i]
      BY <1>1, <1>3, <3>1, HeadTailProperties
    <3> QED BY <3>2
  <2> QED BY <2>1, <2>2
<1> QED BY <1>3, <1>4, SeqEqual

\* A retention that removed one release looks for the next.
LEMMA ExpiryEnds ==
    ASSUME NEW c PROVE From(Expiry, 3) = From(Host(c)!Switching, 9)
<1> DEFINE s == From(Expiry, 3)  t == From(Host(c)!Switching, 9)
<1>1. s \in Seq(Host(c)!Step) /\ s # <<>> /\ Head(s) = "prune" /\ Tail(s) = <<>>
  BY ExpiryFrom, ExpiryPlaces
<1>2. t \in Seq(Host(c)!Step) /\ t # <<>> /\ Head(t) = "prune" /\ Tail(t) = <<>>
  <2>1. 9 \in 1..9
    OBVIOUS
  <2>2. /\ t \in Seq(Host(c)!Step) /\ t # <<>> /\ Head(t) = Host(c)!Switching[9]
        /\ Tail(t) = IF 9 = 9 THEN <<>> ELSE From(Host(c)!Switching, 9 + 1)
    BY <2>1, SwitchingFrom, Zenon
  <2> QED BY <2>1, <2>2, SwitchingPlaces
<1> HIDE DEF s, t
<1>3. s = t
  BY <1>1, <1>2, SameSequence
<1> QED BY <1>3 DEF s, t

\* The same for a deployment.
LEMMA ExpiryTidyEnds ==
    ASSUME NEW c PROVE From(ExpiryTidy, 3) = From(Deployment, 14)
<1> DEFINE s == From(ExpiryTidy, 3)  t == From(Deployment, 14)
           u == From(ExpiryTidy, 4)  v == From(Deployment, 15)
<1>1. /\ u \in Seq(Host(c)!Step) /\ u # <<>> /\ Head(u) = "tidy" /\ Tail(u) = <<>>
      /\ s \in Seq(Host(c)!Step) /\ s # <<>> /\ Head(s) = "prune" /\ Tail(s) = u
  <2>1. 3 \in 1..4 /\ 4 \in 1..4 /\ 3 + 1 = 4
    OBVIOUS
  <2>2. /\ s \in Seq(Host(c)!Step) /\ s # <<>> /\ Head(s) = ExpiryTidy[3]
        /\ Tail(s) = IF 3 = 4 THEN <<>> ELSE From(ExpiryTidy, 3 + 1)
    BY <2>1, ExpiryTidyFrom, Zenon
  <2>3. /\ u \in Seq(Host(c)!Step) /\ u # <<>> /\ Head(u) = ExpiryTidy[4]
        /\ Tail(u) = IF 4 = 4 THEN <<>> ELSE From(ExpiryTidy, 4 + 1)
    BY <2>1, ExpiryTidyFrom, Zenon
  <2> QED BY <2>1, <2>2, <2>3, ExpiryTidyPlaces
<1>2. /\ v \in Seq(Host(c)!Step) /\ v # <<>> /\ Head(v) = "tidy" /\ Tail(v) = <<>>
      /\ t \in Seq(Host(c)!Step) /\ t # <<>> /\ Head(t) = "prune" /\ Tail(t) = v
  <2>1. 14 \in 1..15 /\ 15 \in 1..15 /\ 14 + 1 = 15
    OBVIOUS
  <2>2. /\ t \in Seq(Host(c)!Step) /\ t # <<>> /\ Head(t) = Deployment[14]
        /\ Tail(t) = IF 14 = 15 THEN <<>> ELSE From(Deployment, 14 + 1)
    BY <2>1, DeploymentFrom, Zenon
  <2>3. /\ v \in Seq(Host(c)!Step) /\ v # <<>> /\ Head(v) = Deployment[15]
        /\ Tail(v) = IF 15 = 15 THEN <<>> ELSE From(Deployment, 15 + 1)
    BY <2>1, DeploymentFrom, Zenon
  <2> QED BY <2>1, <2>2, <2>3, DeploymentPlaces
<1> HIDE DEF s, t, u, v
<1>3. u = v
  BY <1>1, <1>2, SameSequence
<1>4. s = t
  BY <1>1, <1>2, <1>3, SameSequence
<1> QED BY <1>4 DEF s, t

\* When a script has given the lock back, no script runs.
LEMMA IdleIs ==
    ASSUME NEW c, job' = Host(c)!Idle
    PROVE  Shape(c)' /\ job' \in JobType(c) /\ ~Running'
<1>1. job'.kind = "idle" /\ ~Running'
  BY DEF Host!Idle, Running
<1>2. job' \in JobType(c)
  BY EmptySeq DEF JobType, Host!Idle, Host!Link
<1>3. Host(c)!Idle' = Host(c)!Idle
  BY DEF Host!Idle
<1> QED
  BY <1>1, <1>2, <1>3 DEF Shape, Prepares, Undoes, Activating, Deploys

\* A script that does its step and has others to do goes on with the next.
LEMMA GoesOn ==
    ASSUME NEW c, HostSetting(c), job \in JobType(c), Shape(c), Running, Tail(job.todo) # <<>>,
           NEW b \in BOOLEAN, b = (job.activated \/ Doing = "mv"),
           job' = [job EXCEPT !.todo = Tail(job.todo), !.activated = b]
    PROVE  Advances(c) /\ Running'
<1>0. /\ job.kind \in {"stage", "deploy", "activate", "cleanup"} /\ job.activated \in BOOLEAN
      /\ job.failed \in BOOLEAN /\ job.kind \in c.kinds /\ job.sha \in Built
      /\ job' \in [kind : {job.kind}, sha : {job.sha}, todo : {Tail(job.todo)},
                   current : {job.current}, previous : {job.previous}, activated : {b},
                   failed : {job.failed}, victim : {job.victim}]
  BY DEF Shape, HostSetting, JobType
<1>1. Running' /\ SameJob /\ job'.activated = (job.activated \/ Doing = "mv")
      /\ job'.todo = Tail(job.todo)
  BY <1>0 DEF Running, SameJob
<1>2. Tail(job.todo) \in Seq(Host(c)!Step)
  BY HeadsHold, HeadTailProperties DEF Heads
<1>3. job' \in JobType(c)
  BY <1>0, <1>2 DEF JobType
<1>. SUFFICES Shape(c)' /\ Follows(c)
  BY <1>1, <1>3 DEF Advances
<1>4. CASE Prepares
  <2>1. job.todo \in Seq(Preparing) /\ job.todo # <<>> /\ ~job.activated /\ job.victim = None
    BY <1>4 DEF Shape
  <2>2. Tail(job.todo) \in Seq(Preparing)
    BY <2>1, HeadTailProperties
  <2>3. Doing' \in Preparing /\ Doing \in Preparing
    BY <1>1, <2>1, <2>2, HeadTailProperties DEF Doing
  <2>4. ~b
    BY <2>1, <2>3 DEF Preparing
  <2>5. Prepares' /\ ~Undoes' /\ ~Switches /\ ~Switched /\ ~Undoes
        /\ ~(Activating /\ ~job.failed)' /\ ~(Deploys /\ ~job.failed)'
    BY <1>0, <1>1, <1>4 DEF Prepares, Undoes, Switches, Switched, Activating, Deploys, SameJob
  <2>6. (job.kind = "cleanup" => ~job.failed)'
    BY <1>1, <1>4 DEF SameJob, Shape
  <2> QED
    BY <1>0, <1>1, <2>1, <2>2, <2>3, <2>4, <2>5, <2>6 DEF Shape, Follows, SameJob
<1>5. CASE Undoes
  <2>1. PICK n \in 1..4 : job.todo = From(Undo, n) /\ (n = 1 => job.activated)
    BY <1>5 DEF Shape
  <2>2. Doing = Undo[n] /\ Tail(job.todo) = IF n = 4 THEN <<>> ELSE From(Undo, n + 1)
    BY <2>1, UndoFrom DEF Doing
  <2>3. n \in 1..3 /\ n + 1 \in 1..4 /\ job'.todo = From(Undo, n + 1)
    <3>1. n # 4
      BY <2>2
    <3>2. Tail(job.todo) = From(Undo, n + 1)
      BY <2>2, <3>1
    <3> QED BY <1>1, <3>1, <3>2
  <2>4. Doing' = Undo[n + 1]
    BY <2>3, UndoFrom DEF Doing
  <2>5. Undoes' /\ ~Prepares' /\ ~Switches /\ ~Switched /\ ~Prepares
        /\ ~(Activating /\ ~job.failed)' /\ ~(Deploys /\ ~job.failed)'
    BY <1>0, <1>1, <1>5 DEF Prepares, Undoes, Switches, Switched, Activating, Deploys, SameJob
  <2>6. job'.kind # "cleanup" /\ job'.victim = None
    BY <1>1, <1>5 DEF SameJob, Shape, Undoes, Activating
  <2>7. Shape(c)'
    BY <1>0, <1>1, <2>3, <2>5, <2>6 DEF Shape, SameJob
  <2>8. Follows(c)
    BY <2>2, <2>3, <2>4, <2>5, UndoPlaces DEF Follows
  <2> QED BY <2>7, <2>8
<1>6. CASE Activating /\ ~job.failed /\ Repeats(c)
  <2>1. PICK n \in 1..3 : job.todo = From(Host(c)!Again, n)
    BY <1>6 DEF Repeats
  <2>2. /\ Doing = Host(c)!Again[n]
        /\ Tail(job.todo) = IF n = 3 THEN <<>> ELSE From(Host(c)!Again, n + 1)
    BY <2>1, AgainFrom DEF Doing
  <2>3. n \in 1..2 /\ n + 1 \in 1..3 /\ job'.todo = From(Host(c)!Again, n + 1)
    <3>1. n # 3
      BY <2>2
    <3>2. Tail(job.todo) = From(Host(c)!Again, n + 1)
      BY <2>2, <3>1
    <3> QED BY <1>1, <3>1, <3>2
  <2>4. Doing' = Host(c)!Again[n + 1]
    BY <2>3, AgainFrom DEF Doing
  <2>5. ~job.activated /\ job.victim = None /\ ~b
    <3>1. ~job.activated /\ job.victim = None
      BY <1>6 DEF Repeats
    <3>2. Doing # "mv"
      BY <2>2, AgainPlaces
    <3> QED BY <3>1, <3>2
  <2>6. /\ ~Prepares /\ ~Undoes /\ ~Switched /\ ~Prepares' /\ ~Undoes'
        /\ job'.kind = "activate" /\ (Activating /\ ~job.failed)' /\ ~(Deploys /\ ~job.failed)'
    BY <1>0, <1>1, <1>6, <2>5 DEF Prepares, Undoes, Switched, Activating, Deploys, SameJob
  <2>7. Repeats(c)'
    <3>1. \E m \in 1..3 : job'.todo = From(Host(c)!Again, m)
      BY <2>3
    <3> QED BY <1>0, <2>5, <3>1 DEF Repeats, Host!Again
  <2>8. Shape(c)'
    BY <1>0, <1>1, <2>6, <2>7 DEF Shape, SameJob
  <2>9. Follows(c)
    BY <2>2, <2>3, <2>4, <2>6, AgainPlaces DEF Follows
  <2> QED BY <2>8, <2>9
<1>7. CASE Activating /\ ~job.failed /\ Activates(c)
  <2>1. PICK n \in 1..9 : job.todo = From(Host(c)!Switching, n) /\ (job.activated <=> n > 2)
                          /\ (n < 9 => job.victim = None)
    BY <1>7 DEF Activates
  <2>2. /\ Doing = Host(c)!Switching[n]
        /\ Tail(job.todo) = IF n = 9 THEN <<>> ELSE From(Host(c)!Switching, n + 1)
    <3>1. job.todo = From(Host(c)!Switching, n)
      BY <2>1
    <3> QED BY <3>1, SwitchingFrom, Zenon DEF Doing
  <2>3. n \in 1..8 /\ n + 1 \in 1..9 /\ job'.todo = From(Host(c)!Switching, n + 1)
    <3>1. n # 9
      BY <2>2
    <3>2. Tail(job.todo) = From(Host(c)!Switching, n + 1)
      BY <2>2, <3>1
    <3> QED BY <1>1, <3>1, <3>2
  <2>4. Doing' = Host(c)!Switching[n + 1]
    BY <2>3, SwitchingFrom DEF Doing
  <2>5. (b <=> n + 1 > 2) /\ job.victim = None
    <3>1. Doing = "mv" <=> n = 2
      BY <2>2, SwitchingPlaces
    <3>2. b <=> (n > 2 \/ n = 2)
      BY <2>1, <3>1
    <3>3. (n > 2 \/ n = 2) <=> n + 1 > 2
      OBVIOUS
    <3> QED BY <2>1, <2>3, <3>2, <3>3
  <2>6. /\ ~Prepares /\ ~Undoes /\ ~Prepares' /\ ~Undoes'
        /\ job'.kind = "activate" /\ (Activating /\ ~job.failed)' /\ ~(Deploys /\ ~job.failed)'
    BY <1>0, <1>1, <1>7 DEF Prepares, Undoes, Activating, Deploys, SameJob
  <2>7. Activates(c)'
    <3>1. \E m \in 1..9 : /\ job'.todo = From(Host(c)!Switching, m)
                          /\ job'.activated <=> m > 2
                          /\ m < 9 => job'.victim = None
      BY <1>0, <2>3, <2>5
    <3> QED BY <3>1 DEF Activates, Host!Switching
  <2>8. Shape(c)'
    BY <1>0, <1>1, <2>6, <2>7 DEF Shape, SameJob
  <2>9. Follows(c)
    BY <1>0, <1>7, <2>1, <2>2, <2>3, <2>4, <2>6, SwitchingPlaces
    DEF Follows, Switches, Switched, Activating
  <2> QED BY <2>8, <2>9
<1>8. CASE Activating /\ ~job.failed /\ Expires(Expiry)
  <2>1. PICK n \in 1..2 : job.todo = From(Expiry, n)
    BY <1>8 DEF Expires
  <2>2. Doing = Expiry[n] /\ Tail(job.todo) = From(Expiry, n + 1)
    BY <2>1, ExpiryFrom DEF Doing
  <2>3. Doing' = Expiry[n + 1] /\ job'.todo = From(Expiry, n + 1)
    <3>1. job'.todo = From(Expiry, n + 1) /\ n + 1 \in 1..3
      BY <1>1, <2>2
    <3> QED BY <3>1, ExpiryFrom DEF Doing
  <2>4. job.activated /\ job.victim # None /\ b
    BY <1>8, <1>0 DEF Expires
  <2>5. /\ ~Prepares /\ ~Undoes /\ ~Switches /\ ~Prepares' /\ ~Undoes'
        /\ job'.kind = "activate" /\ (Activating /\ ~job.failed)' /\ ~(Deploys /\ ~job.failed)'
    BY <1>0, <1>1, <1>8, <2>4 DEF Prepares, Undoes, Switches, Activating, Deploys, SameJob
  <2>6. Expires(Expiry)' \/ Activates(c)'
    <3>1. CASE n = 1
      BY <1>0, <2>3, <2>4, <3>1 DEF Expires, Expiry
    <3>2. CASE n = 2
      <4>1. job'.todo = From(Host(c)!Switching, 9)
        BY <2>3, <3>2, ExpiryEnds
      <4>2. \E m \in 1..9 : /\ job'.todo = From(Host(c)!Switching, m)
                            /\ job'.activated <=> m > 2
                            /\ m < 9 => job'.victim = None
        BY <1>0, <2>4, <4>1
      <4> QED BY <4>2 DEF Activates, Host!Switching
    <3> QED BY <3>1, <3>2
  <2>7. Shape(c)'
    BY <1>0, <1>1, <2>5, <2>6 DEF Shape, SameJob
  <2>8. Follows(c)
    BY <2>2, <2>3, <2>5, ExpiryPlaces DEF Follows
  <2> QED BY <2>7, <2>8
<1>9. CASE Deploys /\ ~job.failed /\ DeploysFrom(c)
  <2>1. PICK n \in 1..15 : job.todo = From(Deployment, n) /\ (job.activated <=> n > 7)
                           /\ (n < 14 => job.victim = None)
    BY <1>9 DEF DeploysFrom
  <2>2. /\ Doing = Deployment[n]
        /\ Tail(job.todo) = IF n = 15 THEN <<>> ELSE From(Deployment, n + 1)
    <3>1. job.todo = From(Deployment, n)
      BY <2>1
    <3> QED BY <3>1, DeploymentFrom, Zenon DEF Doing
  <2>3. n \in 1..14 /\ n + 1 \in 1..15 /\ job'.todo = From(Deployment, n + 1)
    <3>1. n # 15
      BY <2>2
    <3>2. Tail(job.todo) = From(Deployment, n + 1)
      BY <2>2, <3>1
    <3> QED BY <1>1, <3>1, <3>2
  <2>4. Doing' = Deployment[n + 1]
    BY <2>3, DeploymentFrom DEF Doing
  <2>5. (b <=> n + 1 > 7) /\ (n + 1 < 14 => job.victim = None)
    <3>1. Doing = "mv" <=> n = 7
      BY <2>2, DeploymentPlaces
    <3>2. b <=> (n > 7 \/ n = 7)
      BY <2>1, <3>1
    <3>3. (n > 7 \/ n = 7) <=> n + 1 > 7
      OBVIOUS
    <3> QED BY <2>1, <2>3, <3>2, <3>3
  <2>6. /\ ~Prepares /\ ~Undoes /\ ~Prepares' /\ ~Undoes' /\ ~Activating
        /\ job'.kind = "deploy" /\ ~(Activating /\ ~job.failed)' /\ (Deploys /\ ~job.failed)'
    BY <1>0, <1>1, <1>9 DEF Prepares, Undoes, Activating, Deploys, SameJob
  <2>7. DeploysFrom(c)'
    <3>1. \E m \in 1..15 : /\ job'.todo = From(Deployment, m)
                           /\ job'.activated <=> m > 7
                           /\ m < 14 => job'.victim = None
      BY <1>0, <2>3, <2>5
    <3> QED BY <3>1 DEF DeploysFrom, Deployment
  <2>8. Shape(c)'
    BY <1>0, <1>1, <2>6, <2>7 DEF Shape, SameJob
  <2>9. Follows(c)
    BY <1>0, <2>1, <2>2, <2>3, <2>4, <2>6, DeploymentPlaces DEF Follows, Switches
  <2> QED BY <2>8, <2>9
<1>10. CASE Deploys /\ ~job.failed /\ Expires(ExpiryTidy)
  <2>1. PICK n \in 1..2 : job.todo = From(ExpiryTidy, n)
    BY <1>10 DEF Expires
  <2>2. Doing = ExpiryTidy[n] /\ Tail(job.todo) = From(ExpiryTidy, n + 1)
    BY <2>1, ExpiryTidyFrom DEF Doing
  <2>3. Doing' = ExpiryTidy[n + 1] /\ job'.todo = From(ExpiryTidy, n + 1)
    <3>1. job'.todo = From(ExpiryTidy, n + 1) /\ n + 1 \in 1..4
      BY <1>1, <2>2
    <3> QED BY <3>1, ExpiryTidyFrom DEF Doing
  <2>4. job.activated /\ job.victim # None /\ b
    BY <1>10, <1>0 DEF Expires
  <2>5. /\ ~Prepares /\ ~Undoes /\ ~Switches /\ ~Prepares' /\ ~Undoes'
        /\ job'.kind = "deploy" /\ ~(Activating /\ ~job.failed)' /\ (Deploys /\ ~job.failed)'
    BY <1>0, <1>1, <1>10, <2>4 DEF Prepares, Undoes, Switches, Activating, Deploys, SameJob
  <2>6. Expires(ExpiryTidy)' \/ DeploysFrom(c)'
    <3>1. CASE n = 1
      BY <1>0, <2>3, <2>4, <3>1 DEF Expires, ExpiryTidy
    <3>2. CASE n = 2
      <4>1. job'.todo = From(Deployment, 14)
        BY <2>3, <3>2, ExpiryTidyEnds
      <4>2. \E m \in 1..15 : /\ job'.todo = From(Deployment, m)
                             /\ job'.activated <=> m > 7
                             /\ m < 14 => job'.victim = None
        BY <1>0, <2>4, <4>1
      <4> QED BY <4>2 DEF DeploysFrom, Deployment
    <3> QED BY <3>1, <3>2
  <2>7. Shape(c)'
    BY <1>0, <1>1, <2>5, <2>6 DEF Shape, SameJob
  <2>8. Follows(c)
    BY <2>2, <2>3, <2>5, ExpiryTidyPlaces DEF Follows
  <2> QED BY <2>7, <2>8
<1> QED
  BY <1>0, <1>4, <1>5, <1>6, <1>7, <1>8, <1>9, <1>10
  DEF Shape, Prepares, Undoes, Activating, Deploys

\* A script ends with the last step of its program.
LEMMA Ends ==
    ASSUME NEW c, HostSetting(c), job \in JobType(c), Shape(c), Running, Tail(job.todo) = <<>>
    PROVE  \/ Prepares \/ Doing \in {"service-back", "tidy"}
           \/ (Activating /\ Doing = "prune") \/ (Switches /\ Doing = "done")
<1>0. job.kind \in {"stage", "deploy", "activate", "cleanup"}
  BY DEF Shape, HostSetting
<1>1. CASE Undoes
  <2>1. PICK n \in 1..4 : job.todo = From(Undo, n)
    BY <1>1 DEF Shape
  <2>2. Doing = Undo[n] /\ Tail(job.todo) = IF n = 4 THEN <<>> ELSE From(Undo, n + 1)
    BY <2>1, UndoFrom DEF Doing
  <2>3. n # 4 => n + 1 \in 1..4 /\ Tail(job.todo) = From(Undo, n + 1)
    BY <2>2
  <2>4. n = 4
    BY <2>3, UndoFrom
  <2> QED BY <2>2, <2>4, UndoPlaces
<1>2. CASE Activating /\ ~job.failed /\ Repeats(c)
  <2>1. PICK n \in 1..3 : job.todo = From(Host(c)!Again, n)
    BY <1>2 DEF Repeats
  <2>2. /\ Doing = Host(c)!Again[n]
        /\ Tail(job.todo) =
             IF n = 3 THEN <<>> ELSE From(Host(c)!Again, n + 1)
    BY <2>1, AgainFrom DEF Doing
  <2>3. n # 3 => n + 1 \in 1..3 /\ Tail(job.todo) = From(Host(c)!Again, n + 1)
    BY <2>2
  <2>4. n = 3
    BY <2>3, AgainFrom
  <2>5. Switches
    BY <1>2 DEF Repeats, Switches, Activating
  <2> QED BY <2>2, <2>4, <2>5, AgainPlaces
<1>3. CASE Activating /\ ~job.failed /\ Activates(c)
  <2>1. PICK n \in 1..9 : job.todo = From(Host(c)!Switching, n)
    BY <1>3 DEF Activates
  <2>2. /\ Doing = Host(c)!Switching[n]
        /\ Tail(job.todo) =
             IF n = 9 THEN <<>> ELSE From(Host(c)!Switching, n + 1)
    BY <2>1, SwitchingFrom DEF Doing
  <2>3. n # 9 => n + 1 \in 1..9 /\ Tail(job.todo) = From(Host(c)!Switching, n + 1)
    BY <2>2
  <2>4. n = 9
    BY <2>3, SwitchingFrom
  <2> QED BY <1>3, <2>2, <2>4, SwitchingPlaces
<1>4. CASE Activating /\ ~job.failed /\ Expires(Expiry)
  <2>1. PICK n \in 1..2 : job.todo = From(Expiry, n)
    BY <1>4 DEF Expires
  <2>2. Doing = Expiry[n] /\ Tail(job.todo) = IF n = 3 THEN <<>> ELSE From(Expiry, n + 1)
    BY <2>1, ExpiryFrom DEF Doing
  <2>3. n # 3 => n + 1 \in 1..3 /\ Tail(job.todo) = From(Expiry, n + 1)
    BY <2>2
  <2>4. n = 3
    BY <2>3, ExpiryFrom
  <2> QED BY <2>4
<1>5. CASE Deploys /\ ~job.failed /\ DeploysFrom(c)
  <2>1. PICK n \in 1..15 : job.todo = From(Deployment, n)
    BY <1>5 DEF DeploysFrom
  <2>2. Doing = Deployment[n] /\ Tail(job.todo) = IF n = 15 THEN <<>> ELSE From(Deployment, n + 1)
    BY <2>1, DeploymentFrom DEF Doing
  <2>3. n # 15 => n + 1 \in 1..15 /\ Tail(job.todo) = From(Deployment, n + 1)
    BY <2>2
  <2>4. n = 15
    BY <2>3, DeploymentFrom
  <2> QED BY <2>2, <2>4, DeploymentPlaces
<1>6. CASE Deploys /\ ~job.failed /\ Expires(ExpiryTidy)
  <2>1. PICK n \in 1..2 : job.todo = From(ExpiryTidy, n)
    BY <1>6 DEF Expires
  <2>2. Doing = ExpiryTidy[n] /\ Tail(job.todo) = IF n = 4 THEN <<>> ELSE From(ExpiryTidy, n + 1)
    BY <2>1, ExpiryTidyFrom DEF Doing
  <2>3. n # 4 => n + 1 \in 1..4 /\ Tail(job.todo) = From(ExpiryTidy, n + 1)
    BY <2>2
  <2>4. n = 4
    BY <2>3, ExpiryTidyFrom
  <2> QED BY <2>4
<1> QED
  BY <1>0, <1>1, <1>2, <1>3, <1>4, <1>5, <1>6 DEF Shape, Prepares, Undoes, Activating, Deploys

\* An effect of a script's step.
Onwards(c) ==
    \/ Doing # "mv" /\ job' = Host(c)!Onward
    \/ Doing = "mv" /\ job' = [Host(c)!Onward EXCEPT !.activated = TRUE]

\* What a step of a script does to the script, whether it is its last or not.
LEMMA AdvancesHold ==
    ASSUME NEW c, HostSetting(c), job \in JobType(c), Shape(c), Running, Onwards(c)
    PROVE  Advances(c)
<1>1. CASE Tail(job.todo) = <<>>
  <2>1. Doing # "mv"
    BY <1>1, Ends, HeadsHold DEF Heads, Prepares, Preparing
  <2>2. job' = Host(c)!Idle
    BY <1>1, <2>1 DEF Onwards, Host!Onward
  <2> QED BY <1>1, <2>2, Ends, IdleIs DEF Advances
<1>2. CASE Tail(job.todo) # <<>>
  <2> DEFINE b == job.activated \/ Doing = "mv"
  <2>1. b \in BOOLEAN
    OBVIOUS
  <2>2. job' = [job EXCEPT !.todo = Tail(job.todo), !.activated = b]
    <3>1. CASE Doing = "mv"
      BY <1>2, <3>1 DEF Onwards, Host!Onward, JobType
    <3>2. CASE Doing # "mv"
      BY <1>2, <3>2 DEF Onwards, Host!Onward, JobType
    <3> QED BY <3>1, <3>2
  <2>3. b = (job.activated \/ Doing = "mv")
    OBVIOUS
  <2> HIDE DEF b
  <2>4. Advances(c) /\ Running'
    BY <1>2, <2>1, <2>2, <2>3, GoesOn
  <2> QED BY <2>4
<1> QED BY <1>1, <1>2

-----------------------------------------------------------------------------
(* A script that begins, that removes an expired release, and that fails.  *)

\* Two sequences after each other, from what stands at each place.
LEMMA Joined ==
    ASSUME NEW S, NEW a \in Seq(S), NEW b \in Seq(S), NEW t \in Seq(S), Len(t) = Len(a) + Len(b),
           \A i \in 1..Len(t) : t[i] = IF i <= Len(a) THEN a[i] ELSE b[i - Len(a)]
    PROVE  a \o b = t
BY ConcatProperties, SeqEqual, LenProperties

\* The program of a deployment.
LEMMA DeploymentIs ==
    ASSUME NEW c PROVE Host(c)!Staging \o Host(c)!Deploying \o <<"tidy">> = Deployment
<1> DEFINE a == Host(c)!Staging  b == Host(c)!Deploying  t == <<"tidy">>  S == Host(c)!Step
<1>1. a \in Seq(S) /\ Len(a) = 5 /\ b \in Seq(S) /\ Len(b) = 9
  BY Programs
<1>2. t \in Seq(S) /\ Len(t) = 1
  BY Steps
<1>3. Deployment \in Seq(S) /\ Len(Deployment) = 15
  BY Programs
<1>4. /\ Deployment[1] = a[1] /\ Deployment[2] = a[2] /\ Deployment[3] = a[3]
      /\ Deployment[4] = a[4] /\ Deployment[5] = a[5]
  BY DEF Deployment, Host!Staging
<1>5. /\ Deployment[6] = b[1] /\ Deployment[7] = b[2] /\ Deployment[8] = b[3]
      /\ Deployment[9] = b[4] /\ Deployment[10] = b[5] /\ Deployment[11] = b[6]
      /\ Deployment[12] = b[7] /\ Deployment[13] = b[8] /\ Deployment[14] = b[9]
  BY DEF Deployment, Host!Deploying
<1>6. Deployment[15] = t[1]
  BY DEF Deployment
<1> HIDE DEF a, b, t, S
<1> DEFINE u == a \o b
<1>7. u \in Seq(S) /\ Len(u) = 14
  <2>1. u \in Seq(S) /\ Len(u) = Len(a) + Len(b)
    BY <1>1, ConcatProperties, Zenon
  <2> QED BY <1>1, <2>1
<1>8. \A i \in 1..14 : u[i] = IF i <= 5 THEN a[i] ELSE b[i - 5]
  <2>1. \A i \in 1..Len(a) + Len(b) : u[i] = IF i <= Len(a) THEN a[i] ELSE b[i - Len(a)]
    BY <1>1, ConcatProperties, Zenon
  <2> HIDE DEF u
  <2> QED BY <1>1, <2>1
<1> HIDE DEF u
<1>9. \A i \in 1..15 : Deployment[i] = IF i <= 14 THEN u[i] ELSE t[i - 14]
  <2> TAKE i \in 1..15
  <2>1. CASE i \in {1, 2, 3, 4, 5}
    BY <1>4, <1>8, <2>1
  <2>2. CASE i \in {6, 7, 8, 9, 10, 11, 12, 13, 14}
    BY <1>5, <1>8, <2>2
  <2> QED BY <1>6, <2>1, <2>2
<1>10. u \o t = Deployment
  <2>1. Len(Deployment) = Len(u) + Len(t)
    BY <1>2, <1>3, <1>7
  <2>2. \A i \in 1..Len(Deployment) : Deployment[i] = IF i <= Len(u) THEN u[i] ELSE t[i - Len(u)]
    BY <1>3, <1>7, <1>9
  <2> QED BY <1>2, <1>3, <1>7, <2>1, <2>2, Joined, Zenon
<1> QED BY <1>10 DEF a, b, t, u

\* What a retention that found an expired release has to do.
LEMMA ExpiryIs ==
    ASSUME NEW c
    PROVE  /\ <<"rm-static", "rm-cache">> \o From(Host(c)!Switching, 9) = Expiry
           /\ <<"rm-static", "rm-cache">> \o From(Deployment, 14) = ExpiryTidy
<1> DEFINE a == <<"rm-static", "rm-cache">>  S == Host(c)!Step
           b == From(Host(c)!Switching, 9)  d == From(Deployment, 14)
<1>1. a \in Seq(S) /\ Len(a) = 2
  BY Steps
<1>2. a[1] = "rm-static" /\ a[2] = "rm-cache"
  OBVIOUS
<1>3. b \in Seq(S) /\ Len(b) = 1 /\ b[1] = "prune"
  <2>1. 9 \in 1..9
    OBVIOUS
  <2>2. /\ b \in Seq(S) /\ b # <<>> /\ Head(b) = Host(c)!Switching[9]
        /\ Tail(b) = IF 9 = 9 THEN <<>> ELSE From(Host(c)!Switching, 9 + 1)
    BY <2>1, SwitchingFrom, Zenon
  <2>3. Head(b) = "prune" /\ Tail(b) = <<>>
    BY <2>1, <2>2, SwitchingPlaces
  <2> HIDE DEF b, S
  <2>5. Len(Tail(b)) = 0
    <3>1. Len(<<>>) = 0
      OBVIOUS
    <3> QED BY <2>3, <3>1, Zenon
  <2>4. Len(b) \in Nat /\ Head(b) = b[1] /\ Len(Tail(b)) = Len(b) - 1
    BY <2>2, HeadTailProperties, LenProperties
  <2>6. Len(b) = 1
    BY <2>4, <2>5
  <2>7. b[1] = "prune"
    BY <2>3, <2>4
  <2> QED BY <2>2, <2>6, <2>7
<1>4. d \in Seq(S) /\ Len(d) = 2 /\ d[1] = "prune" /\ d[2] = "tidy"
  <2>1. \A i \in 14..15 : Deployment[i] \in S
    BY Programs, ElementOfSeq
  <2> QED BY <2>1, SubSeqProperties, Programs, DeploymentPlaces DEF From
<1>5. Expiry \in Seq(S) /\ Len(Expiry) = 3 /\ ExpiryTidy \in Seq(S) /\ Len(ExpiryTidy) = 4
  BY Programs
<1>6. /\ Expiry[1] = "rm-static" /\ Expiry[2] = "rm-cache" /\ Expiry[3] = "prune"
      /\ ExpiryTidy[1] = "rm-static" /\ ExpiryTidy[2] = "rm-cache" /\ ExpiryTidy[3] = "prune"
      /\ ExpiryTidy[4] = "tidy"
  BY DEF Expiry, ExpiryTidy
<1> HIDE DEF a, b, d, S
<1>7. a \o b = Expiry
  <2>1. \A i \in 1..Len(Expiry) : Expiry[i] = IF i <= Len(a) THEN a[i] ELSE b[i - Len(a)]
    <3> TAKE i \in 1..Len(Expiry)
    <3>1. i \in {1, 2, 3}
      BY <1>5
    <3> QED BY <1>1, <1>2, <1>3, <1>6, <3>1
  <2>2. Len(Expiry) = Len(a) + Len(b)
    BY <1>1, <1>3, <1>5
  <2> QED BY <1>1, <1>3, <1>5, <2>1, <2>2, Joined, Zenon
<1>8. a \o d = ExpiryTidy
  <2>1. \A i \in 1..Len(ExpiryTidy) :
            ExpiryTidy[i] = IF i <= Len(a) THEN a[i] ELSE d[i - Len(a)]
    <3> TAKE i \in 1..Len(ExpiryTidy)
    <3>1. i \in {1, 2, 3, 4}
      BY <1>5
    <3> QED BY <1>1, <1>2, <1>4, <1>6, <3>1
  <2>2. Len(ExpiryTidy) = Len(a) + Len(d)
    BY <1>1, <1>4, <1>5
  <2> QED BY <1>1, <1>4, <1>5, <2>1, <2>2, Joined, Zenon
<1> QED BY <1>7, <1>8 DEF a, b, d

\* What stages, cleans up, or undoes a staging, is made of these steps.
LEMMA PreparingSteps ==
    ASSUME NEW c
    PROVE  /\ Host(c)!Staging \in Seq(Preparing) /\ Host(c)!Cleaning \in Seq(Preparing)
           /\ <<"tidy">> \in Seq(Preparing) /\ <<"rm-static">> \in Seq(Preparing)
           /\ <<"rm-release", "rm-build">> \in Seq(Preparing) /\ <<"rm-cache">> \in Seq(Preparing)
           /\ Host(c)!Staging \o <<"tidy">> \in Seq(Preparing) \ {<<>>}
           /\ Host(c)!Cleaning # <<>>
<1>1. /\ "build" \in Preparing /\ "cache" \in Preparing /\ "publish" \in Preparing
      /\ "mkstatic" \in Preparing /\ "fill" \in Preparing /\ "tidy" \in Preparing
      /\ "rm-release" \in Preparing /\ "rm-build" \in Preparing
      /\ "rm-cache" \in Preparing /\ "rm-static" \in Preparing
  BY DEF Preparing
<1>2. Host(c)!Staging \in Seq(Preparing) /\ Host(c)!Cleaning \in Seq(Preparing)
  BY <1>1 DEF Host!Staging, Host!Cleaning
<1>3. /\ <<"tidy">> \in Seq(Preparing) /\ <<"rm-static">> \in Seq(Preparing)
      /\ <<"rm-release", "rm-build">> \in Seq(Preparing) /\ <<"rm-cache">> \in Seq(Preparing)
  BY <1>1
<1>4. Host(c)!Staging \o <<"tidy">> \in Seq(Preparing)
  BY <1>2, <1>3, ConcatProperties, Zenon
<1>5. Host(c)!Staging \o <<"tidy">> # <<>>
  <2> DEFINE a == Host(c)!Staging  b == <<"tidy">>
  <2>1. Len(b) = 1 /\ a \in Seq(Preparing) /\ b \in Seq(Preparing)
    BY <1>2, <1>3
  <2> HIDE DEF a, b
  <2>2. Len(a \o b) = Len(a) + Len(b) /\ Len(a) \in Nat
    BY <2>1, ConcatProperties, LenProperties
  <2>3. Len(a \o b) # 0
    BY <2>1, <2>2
  <2>4. a \o b # <<>>
    BY <2>3, EmptySeq
  <2> QED BY <2>4 DEF a, b
<1>6. Host(c)!Cleaning # <<>>
  BY DEF Host!Cleaning
<1> QED BY <1>2, <1>3, <1>4, <1>5, <1>6

\* And these are steps.
LEMMA PreparingAreSteps ==
    ASSUME NEW c, NEW p \in Seq(Preparing) PROVE p \in Seq(Host(c)!Step)
<1>1. Preparing \subseteq Host(c)!Step
  BY DEF Preparing, Host!Step
<1> QED BY <1>1, SeqMonotonic, Zenon

\* A program is what is left of it from its first step.
LEMMA Wholes ==
    ASSUME NEW c
    PROVE  /\ Host(c)!Again = From(Host(c)!Again, 1)
           /\ Host(c)!Switching = From(Host(c)!Switching, 1)
           /\ Deployment = From(Deployment, 1) /\ Expiry = From(Expiry, 1)
           /\ ExpiryTidy = From(ExpiryTidy, 1) /\ Undo = From(Undo, 1)
<1>1. \A p \in Seq(Host(c)!Step) : p = From(p, 1)
  BY SubSeqFull DEF From
<1> QED BY <1>1, Programs

\* A script that takes the lock.
Begun(c, k, t) ==
    /\ Shape(c)' /\ job' \in JobType(c) /\ Running'
    /\ job'.kind = k /\ ~job'.activated /\ ~job'.failed /\ job'.victim = None
    /\ k = "deploy" => Doing' = "build"
    /\ k = "activate" => Doing' = (IF t = "again" THEN "render" ELSE "ln")

\* The script that has just taken the lock, part by part.
LEMMA BegunJob ==
    ASSUME NEW c, NEW k \in Host(c)!Kind, NEW s \in Built, NEW todo,
           NEW u \in Host(c)!Link, NEW v \in Host(c)!Link,
           job' = [Host(c)!Idle EXCEPT !.kind = k, !.sha = s, !.todo = todo, !.current = u,
                                       !.previous = v]
    PROVE  /\ job'.kind = k /\ job'.sha = s /\ job'.todo = todo /\ job'.current = u
           /\ job'.previous = v /\ job'.activated = FALSE /\ job'.failed = FALSE
           /\ job'.victim = None
           /\ todo \in Seq(Host(c)!Step) => job' \in JobType(c)
<1>2. None \in Host(c)!Link /\ s \in Host(c)!Link
  BY DEF Host!Link
<1>3. ASSUME todo \in Seq(Host(c)!Step) PROVE job' \in JobType(c)
  <2> DEFINE S == Seq(Host(c)!Step)  L == Host(c)!Link  K == Host(c)!Kind
  <2>1. todo \in S /\ None \in L /\ s \in L /\ k \in K /\ u \in L /\ v \in L
    BY <1>2, <1>3
  <2> HIDE DEF S, L, K
  <2>2. job' \in [kind : K \cup {"idle"}, sha : L, todo : S, current : L, previous : L,
                  activated : BOOLEAN, failed : BOOLEAN, victim : L]
    BY <2>1 DEF Host!Idle
  <2> QED BY <2>2 DEF JobType, S, L, K
<1>4. /\ job'.kind = k /\ job'.sha = s /\ job'.todo = todo /\ job'.current = u
      /\ job'.previous = v /\ job'.activated = FALSE /\ job'.failed = FALSE
      /\ job'.victim = None
  BY DEF Host!Idle
<1> QED BY <1>3, <1>4

\* A script that takes the lock is at the first step of its program.
LEMMA BegunHolds ==
    ASSUME NEW c, HostSetting(c), NEW k \in c.kinds, NEW s \in Built, NEW todo, NEW t,
           NEW u \in Host(c)!Link, NEW v \in Host(c)!Link,
           \/ k = "stage" /\ todo = Host(c)!Staging \o <<"tidy">>
           \/ k = "deploy" /\ todo = Host(c)!Staging \o Host(c)!Deploying \o <<"tidy">>
           \/ k = "activate" /\ t = "again" /\ todo = Host(c)!Again
           \/ k = "activate" /\ t # "again" /\ todo = Host(c)!Switching
           \/ k = "cleanup" /\ todo = Host(c)!Cleaning,
           job' = [Host(c)!Idle EXCEPT !.kind = k, !.sha = s, !.todo = todo, !.current = u,
                                       !.previous = v]
    PROVE  /\ Begun(c, k, t)
           /\ job'.sha = s /\ job'.current = u /\ job'.previous = v
<1>1. k \in {"stage", "deploy", "activate", "cleanup"} /\ k \in c.kinds
  BY DEF HostSetting
<1>2. k \in Host(c)!Kind
  BY <1>1 DEF Host!Kind
<1>3. ASSUME todo \in Seq(Host(c)!Step) PROVE job' \in JobType(c)
  BY <1>2, <1>3, BegunJob
<1>4. /\ job'.kind = k /\ job'.sha = s /\ job'.todo = todo /\ job'.current = u
      /\ job'.previous = v /\ job'.activated = FALSE /\ job'.failed = FALSE
      /\ job'.victim = None
  BY <1>2, BegunJob
<1>5. /\ Running' /\ ~Undoes' /\ Doing' = Head(todo)
      /\ Prepares' <=> k \in {"stage", "cleanup"}
      /\ (Activating /\ ~job.failed)' <=> k = "activate"
      /\ (Deploys /\ ~job.failed)' <=> k = "deploy"
  BY <1>1, <1>4 DEF Running, Undoes, Doing, Prepares, Activating, Deploys
<1>6. CASE k \in {"stage", "cleanup"}
  <2>1. todo \in Seq(Preparing) \ {<<>>}
    BY <1>6, PreparingSteps
  <2>2. todo \in Seq(Host(c)!Step)
    BY <2>1, PreparingAreSteps
  <2>3. Shape(c)'
    BY <1>1, <1>4, <1>5, <1>6, <2>1 DEF Shape, Preparing
  <2> QED BY <1>3, <1>4, <1>5, <1>6, <2>2, <2>3 DEF Begun
<1>7. CASE k = "deploy"
  <2>1. todo = From(Deployment, 1)
    BY <1>7, DeploymentIs, Wholes
  <2>2. todo \in Seq(Host(c)!Step) /\ Head(todo) = "build"
    <3>1. 1 \in 1..15
      OBVIOUS
    <3>2. todo \in Seq(Host(c)!Step) /\ Head(todo) = Deployment[1]
      BY <2>1, <3>1, DeploymentFrom, Zenon
    <3> QED BY <3>1, <3>2, DeploymentPlaces
  <2>3. DeploysFrom(c)'
    <3>1. /\ 1 \in 1..15 /\ job'.todo = From(Deployment, 1)
          /\ (job'.activated <=> 1 > 7) /\ (1 < 14 => job'.victim = None)
      BY <1>4, <2>1
    <3>2. \E n \in 1..15 : /\ job'.todo = From(Deployment, n)
                           /\ job'.activated <=> n > 7
                           /\ n < 14 => job'.victim = None
      BY <3>1, Zenon
    <3> QED BY <3>2 DEF DeploysFrom, Deployment
  <2>4. Shape(c)'
    BY <1>1, <1>4, <1>5, <1>7, <2>3 DEF Shape
  <2> QED BY <1>3, <1>4, <1>5, <1>7, <2>2, <2>4 DEF Begun
<1>8. CASE k = "activate" /\ t = "again" /\ todo = Host(c)!Again
  <2>1. todo = From(Host(c)!Again, 1)
    BY <1>8, Wholes
  <2>2. todo \in Seq(Host(c)!Step) /\ Head(todo) = "render"
    <3>1. 1 \in 1..3
      OBVIOUS
    <3>2. todo \in Seq(Host(c)!Step) /\ Head(todo) = Host(c)!Again[1]
      BY <2>1, <3>1, AgainFrom, Zenon
    <3> QED BY <3>1, <3>2, AgainPlaces
  <2>3. Repeats(c)'
    <3>1. 1 \in 1..3 /\ job'.todo = From(Host(c)!Again, 1)
      BY <1>4, <2>1
    <3>2. \E n \in 1..3 : job'.todo = From(Host(c)!Again, n)
      BY <3>1, Zenon
    <3> QED BY <1>4, <3>2 DEF Repeats, Host!Again
  <2>4. Shape(c)'
    BY <1>1, <1>4, <1>5, <1>8, <2>3 DEF Shape
  <2> QED BY <1>3, <1>4, <1>5, <1>8, <2>2, <2>4 DEF Begun
<1>9. CASE k = "activate" /\ t # "again" /\ todo = Host(c)!Switching
  <2>1. todo = From(Host(c)!Switching, 1)
    BY <1>9, Wholes
  <2>2. todo \in Seq(Host(c)!Step) /\ Head(todo) = "ln"
    <3>1. 1 \in 1..9
      OBVIOUS
    <3>2. todo \in Seq(Host(c)!Step) /\ Head(todo) = Host(c)!Switching[1]
      BY <2>1, <3>1, SwitchingFrom, Zenon
    <3> QED BY <3>1, <3>2, SwitchingPlaces
  <2>3. Activates(c)'
    <3>1. /\ 1 \in 1..9 /\ job'.todo = From(Host(c)!Switching, 1)
          /\ (job'.activated <=> 1 > 2) /\ (1 < 9 => job'.victim = None)
      BY <1>4, <2>1
    <3>2. \E n \in 1..9 : /\ job'.todo = From(Host(c)!Switching, n)
                          /\ job'.activated <=> n > 2
                          /\ n < 9 => job'.victim = None
      BY <3>1, Zenon
    <3> QED BY <3>2 DEF Activates, Host!Switching
  <2>4. Shape(c)'
    BY <1>1, <1>4, <1>5, <1>9, <2>3 DEF Shape
  <2> QED BY <1>3, <1>4, <1>5, <1>9, <2>2, <2>4 DEF Begun
<1> QED BY <1>6, <1>7, <1>8, <1>9, <1>4

\* A retention that finds an expired release.
LEMMA PrunesHold ==
    ASSUME NEW c, HostSetting(c), job \in JobType(c), Shape(c), Switched, Doing = "prune",
           NEW v \in Built,
           job' = [job EXCEPT !.todo = <<"rm-static", "rm-cache">> \o @, !.victim = v]
    PROVE  /\ Shape(c)' /\ job' \in JobType(c) /\ Running' /\ Switched' /\ Doing' = "rm-static"
           /\ job'.kind = job.kind /\ job'.sha = job.sha /\ job'.current = job.current
           /\ job'.previous = job.previous /\ job'.victim = v
<1>1. /\ job.kind \in {"activate", "deploy"} /\ job.activated = TRUE /\ job.failed = FALSE
      /\ job.kind \in c.kinds /\ job.sha \in Built /\ v # None /\ v \in Host(c)!Link
  BY NoneIsNoRelease DEF Switched, Shape, JobType, Running, Host!Link
<1> DEFINE todo == <<"rm-static", "rm-cache">> \o job.todo
<1>2. job' = [job EXCEPT !.todo = todo, !.victim = v]
  OBVIOUS
<1> HIDE DEF todo
<1>3. /\ job'.kind = job.kind /\ job'.sha = job.sha /\ job'.current = job.current
      /\ job'.previous = job.previous /\ job'.victim = v /\ job'.todo = todo
      /\ job'.activated = TRUE /\ job'.failed = FALSE
  BY <1>1, <1>2 DEF JobType
<1>4. todo \in Seq(Host(c)!Step) => job' \in JobType(c)
  BY <1>1, <1>2 DEF JobType
<1>5. /\ Running' /\ Switched' /\ ~Prepares' /\ ~Undoes' /\ Doing' = Head(todo)
      /\ (Activating /\ ~job.failed)' <=> job.kind = "activate"
      /\ (Deploys /\ ~job.failed)' <=> job.kind = "deploy"
  BY <1>1, <1>3 DEF Running, Switched, Prepares, Undoes, Doing, Activating, Deploys
<1>6. CASE job.kind = "activate"
  <2>1. Activates(c) \/ Expires(Expiry)
    BY <1>1, <1>6 DEF Shape, Activating, Repeats
  <2>2. ~Expires(Expiry)
    <3>1. ASSUME NEW n \in 1..2, job.todo = From(Expiry, n) PROVE FALSE
      BY <3>1, ExpiryFrom, ExpiryPlaces DEF Doing
    <3> QED BY <3>1 DEF Expires
  <2>3. PICK n \in 1..9 : job.todo = From(Host(c)!Switching, n)
    BY <2>1, <2>2 DEF Activates
  <2>4. Doing = Host(c)!Switching[n]
    BY <2>3, SwitchingFrom, Zenon DEF Doing
  <2>5. n = 9
    BY <2>4, SwitchingPlaces
  <2>6. todo = From(Expiry, 1)
    BY <2>3, <2>5, ExpiryIs, Wholes DEF todo
  <2>7. 1 \in 1..3 /\ 1 \in 1..2
    OBVIOUS
  <2>8. todo \in Seq(Host(c)!Step) /\ Head(todo) = Expiry[1]
    BY <2>6, <2>7, ExpiryFrom, Zenon
  <2>9. Head(todo) = "rm-static"
    BY <2>7, <2>8, ExpiryPlaces
  <2>10. Expires(Expiry)'
    <3>1. \E n_1 \in 1..2 : job'.todo = From(Expiry, n_1)
      BY <1>3, <2>6, <2>7, Zenon
    <3> QED BY <1>1, <1>3, <3>1 DEF Expires, Expiry
  <2>11. Shape(c)'
    BY <1>1, <1>3, <1>5, <1>6, <2>10 DEF Shape
  <2> QED BY <1>3, <1>4, <1>5, <2>8, <2>9, <2>11
<1>7. CASE job.kind = "deploy"
  <2>1. DeploysFrom(c) \/ Expires(ExpiryTidy)
    BY <1>1, <1>7 DEF Shape, Deploys
  <2>2. ~Expires(ExpiryTidy)
    <3>1. ASSUME NEW n \in 1..2, job.todo = From(ExpiryTidy, n) PROVE FALSE
      BY <3>1, ExpiryTidyFrom, ExpiryTidyPlaces DEF Doing
    <3> QED BY <3>1 DEF Expires
  <2>3. PICK n \in 1..15 : job.todo = From(Deployment, n)
    BY <2>1, <2>2 DEF DeploysFrom
  <2>4. Doing = Deployment[n]
    BY <2>3, DeploymentFrom, Zenon DEF Doing
  <2>5. n = 14
    BY <2>4, DeploymentPlaces
  <2>6. todo = From(ExpiryTidy, 1)
    BY <2>3, <2>5, ExpiryIs, Wholes DEF todo
  <2>7. 1 \in 1..4 /\ 1 \in 1..2
    OBVIOUS
  <2>8. todo \in Seq(Host(c)!Step) /\ Head(todo) = ExpiryTidy[1]
    BY <2>6, <2>7, ExpiryTidyFrom, Zenon
  <2>9. Head(todo) = "rm-static"
    BY <2>7, <2>8, ExpiryTidyPlaces
  <2>10. Expires(ExpiryTidy)'
    <3>1. \E n_1 \in 1..2 : job'.todo = From(ExpiryTidy, n_1)
      BY <1>3, <2>6, <2>7, Zenon
    <3> QED BY <1>1, <1>3, <3>1 DEF Expires, ExpiryTidy
  <2>11. Shape(c)'
    BY <1>1, <1>3, <1>5, <1>7, <2>10 DEF Shape
  <2> QED BY <1>3, <1>4, <1>5, <2>8, <2>9, <2>11
<1> QED BY <1>1, <1>6, <1>7

\* What the trap of an activation has to do, from where the activation failed.
LEMMA UndoIs ==
    ASSUME NEW c
    PROVE  /\ <<"current-back">> \o <<"previous-back", "env-back", "service-back">> = From(Undo, 1)
           /\ <<>> \o <<"previous-back", "env-back", "service-back">> = From(Undo, 2)
<1> DEFINE a == <<"current-back">>  b == <<"previous-back", "env-back", "service-back">>
           S == Host(c)!Step
<1>1. a \in Seq(S) /\ Len(a) = 1 /\ b \in Seq(S) /\ Len(b) = 3
  <2>1. "current-back" \in S /\ "previous-back" \in S /\ "env-back" \in S /\ "service-back" \in S
    BY DEF Host!Step
  <2> HIDE DEF S
  <2> QED BY <2>1
<1>2. Undo \in Seq(S) /\ Len(Undo) = 4
  BY Programs
<1>3. /\ a[1] = "current-back" /\ b[1] = "previous-back" /\ b[2] = "env-back"
      /\ b[3] = "service-back" /\ Undo[1] = "current-back" /\ Undo[2] = "previous-back"
      /\ Undo[3] = "env-back" /\ Undo[4] = "service-back"
  BY DEF Undo
<1>4. <<>> \o b = b
  BY <1>1, ConcatEmptySeq, Zenon
<1>5. Undo = From(Undo, 1)
  BY Wholes
<1>6. \A i \in 2..4 : Undo[i] \in S
  BY <1>2, ElementOfSeq
<1> HIDE DEF a, b, S
<1>7. a \o b = Undo
  <2>1. \A i \in 1..Len(Undo) : Undo[i] = IF i <= Len(a) THEN a[i] ELSE b[i - Len(a)]
    <3> TAKE i \in 1..Len(Undo)
    <3>1. i \in {1, 2, 3, 4}
      BY <1>2
    <3> QED BY <1>1, <1>3, <3>1
  <2>2. Len(Undo) = Len(a) + Len(b)
    BY <1>1, <1>2
  <2> QED BY <1>1, <1>2, <2>1, <2>2, Joined, Zenon
<1>8. b = From(Undo, 2)
  <2> DEFINE d == SubSeq(Undo, 2, 4)
  <2>1. /\ d \in Seq(S) /\ Len(d) = 3
        /\ \A i \in 1..3 : d[i] = Undo[2 + i - 1]
    BY <1>6, SubSeqProperties
  <2> HIDE DEF d
  <2>2. \A i \in 1..Len(b) : b[i] = d[i]
    <3> TAKE i \in 1..Len(b)
    <3>1. i \in {1, 2, 3}
      BY <1>1
    <3> QED BY <1>3, <2>1, <3>1
  <2>3. b = d
    BY <1>1, <2>1, <2>2, SeqEqual
  <2>4. From(Undo, 2) = d
    BY <1>2 DEF From, d
  <2> QED BY <2>3, <2>4
<1> QED BY <1>4, <1>5, <1>7, <1>8 DEF a, b

\* What the trap of a staging or a deployment does.
LEMMA RemovalIs ==
    ASSUME NEW c, NEW e \in {<<>>, <<"rm-cache">>}
    PROVE  <<>> \o <<"rm-release", "rm-build">> \o e \o <<"rm-static">> \in Seq(Preparing) \ {<<>>}
<1> DEFINE a == <<"rm-release", "rm-build">>  b == <<"rm-static">>  S == Preparing
<1>1. a \in Seq(S) /\ b \in Seq(S) /\ Len(b) = 1 /\ e \in Seq(S) /\ <<>> \in Seq(S)
  BY PreparingSteps, EmptySeq
<1> HIDE DEF a, b, S
<1>2. <<>> \o a = a
  BY <1>1, ConcatEmptySeq, Zenon
<1> DEFINE u == a \o e
<1>3. u \in Seq(S)
  BY <1>1, ConcatProperties, Zenon
<1> HIDE DEF u
<1>4. u \o b \in Seq(S) /\ Len(u \o b) = Len(u) + Len(b)
  BY <1>1, <1>3, ConcatProperties, Zenon
<1>5. Len(u) \in Nat
  BY <1>3, LenProperties
<1>6. Len(u \o b) # 0
  BY <1>1, <1>4, <1>5
<1>7. u \o b # <<>>
  BY <1>6, EmptySeq
<1> QED BY <1>2, <1>4, <1>7 DEF a, b, u, S

\* A script that fails.
Failed(c) ==
    /\ Shape(c)' /\ job' \in JobType(c)
    /\ Running' => /\ job'.failed /\ job'.kind = job.kind /\ job'.sha = job.sha
                   /\ job'.current = job.current /\ job'.previous = job.previous
                   /\ job'.activated = job.activated
                   /\ Activating => Doing' = (IF job.activated THEN "current-back"
                                             ELSE "previous-back")
                   /\ Switched => Doing \notin {"prune", "rm-static", "rm-cache"}
    /\ ~Running' => job.kind = "cleanup" \/ (~job.activated /\ Doing = "build")
                    \/ (Activating /\ Switched /\ Doing \in {"prune", "rm-static", "rm-cache"})

\* A script that fails before it reports goes on with what its trap does.
LEMMA FailsHold ==
    ASSUME NEW c, HostSetting(c), job \in JobType(c), Shape(c), Running, ~job.failed,
           Doing \notin {"done", "tidy"}, Deploys => ~job.activated, Host(c)!Fails
    PROVE  Failed(c)
<1>0. /\ job.kind \in {"stage", "deploy", "activate", "cleanup"} /\ job.activated \in BOOLEAN
      /\ job.kind \in c.kinds /\ job.sha \in Built /\ job # Host(c)!Idle /\ job.failed = FALSE
  BY DEF Shape, HostSetting, JobType, Running, Host!Idle
<1>1. Heads(c)
  BY HeadsHold
<1>2. \A step : Host(c)!At(step) <=> Doing = step
  BY <1>0 DEF Host!At, Doing
<1>3. job' = CASE Host(c)!Untrapped -> Host(c)!Idle
               [] Host(c)!Succeeded -> IF job.kind = "deploy"
                                       THEN [job EXCEPT !.todo = <<"tidy">>, !.victim = None]
                                       ELSE Host(c)!Idle
               [] OTHER -> [job EXCEPT !.todo = Host(c)!Restoring, !.failed = TRUE]
  BY DEF Host!Fails
<1>4. Host(c)!Untrapped <=> job.kind = "cleanup" \/ Doing = "build"
  BY <1>2 DEF Host!Untrapped
<1>5. Host(c)!Succeeded <=> job.victim # None \/ Doing = "prune"
  BY <1>2 DEF Host!Succeeded
<1>6. ASSUME job' = Host(c)!Idle,
             \/ job.kind = "cleanup" \/ (~job.activated /\ Doing = "build")
             \/ (Activating /\ Switched /\ Doing \in {"prune", "rm-static", "rm-cache"})
      PROVE  Failed(c)
  BY <1>6, IdleIs DEF Failed
<1> DEFINE todo == Host(c)!Restoring
<1>7. ASSUME job' = [job EXCEPT !.todo = todo, !.failed = TRUE]
      PROVE  /\ job'.failed = TRUE /\ job'.kind = job.kind /\ job'.sha = job.sha
             /\ job'.current = job.current /\ job'.previous = job.previous
             /\ job'.activated = job.activated /\ job'.victim = job.victim /\ job'.todo = todo
             /\ Running' /\ Doing' = Head(todo)
             /\ Prepares' <=> job.kind # "activate"
             /\ Undoes' <=> job.kind = "activate"
             /\ ~(Activating /\ ~job.failed)' /\ ~(Deploys /\ ~job.failed)'
             /\ todo \in Seq(Host(c)!Step) => job' \in JobType(c)
  <2> HIDE DEF todo
  <2>1. /\ job'.failed = TRUE /\ job'.kind = job.kind /\ job'.sha = job.sha
        /\ job'.current = job.current /\ job'.previous = job.previous
        /\ job'.activated = job.activated /\ job'.victim = job.victim /\ job'.todo = todo
    BY <1>7 DEF JobType
  <2>2. todo \in Seq(Host(c)!Step) => job' \in JobType(c)
    BY <1>7 DEF JobType
  <2> QED BY <1>0, <2>1, <2>2 DEF Running, Doing, Prepares, Undoes, Activating, Deploys
<1>8. CASE job.kind = "cleanup"
  BY <1>3, <1>4, <1>6, <1>8
<1>9. CASE job.kind \in {"stage", "deploy"}
  <2>1. ~job.activated /\ job.victim = None /\ Doing # "prune"
    BY <1>0, <1>1, <1>9 DEF Shape, Prepares, Deploys, Heads, Preparing, Switches, Activating
  <2>2. CASE Doing = "build"
    <3> HIDE DEF todo
    <3>1. job' = Host(c)!Idle
      BY <1>3, <1>4, <1>5, <2>1, <2>2
    <3> QED BY <1>6, <2>1, <2>2, <3>1
  <2>3. CASE Doing # "build"
    <3>1. job' = [job EXCEPT !.todo = todo, !.failed = TRUE]
      BY <1>3, <1>4, <1>5, <1>9, <2>1, <2>3
    <3>2. todo \in Seq(Preparing) \ {<<>>}
      <4> DEFINE e == IF Host(c)!At("cache") THEN <<>> ELSE <<"rm-cache">>
      <4>1. todo = <<>> \o <<"rm-release", "rm-build">> \o e \o <<"rm-static">>
        BY <1>9, <2>1 DEF Host!Restoring
      <4>2. e \in {<<>>, <<"rm-cache">>}
        OBVIOUS
      <4> HIDE DEF todo, e
      <4> QED BY <4>1, <4>2, RemovalIs, Zenon
    <3>3. todo \in Seq(Host(c)!Step)
      BY <3>2, PreparingAreSteps
    <3> HIDE DEF todo
    <3>4. Shape(c)'
      BY <1>0, <1>7, <1>9, <2>1, <3>1, <3>2 DEF Shape, Preparing
    <3> QED BY <1>7, <1>9, <2>1, <3>1, <3>3, <3>4 DEF Failed, Activating, Switched
  <2> QED BY <2>2, <2>3
<1>10. CASE job.kind = "activate"
  <2>1. Activating /\ Doing # "build" /\ (Switches \/ Switched)
    BY <1>0, <1>1, <1>10 DEF Activating, Heads, Switches, Switched
  <2>2. CASE job.victim # None \/ Doing = "prune"
    <3>1. job' = Host(c)!Idle
      BY <1>3, <1>4, <1>5, <1>10, <2>1, <2>2
    <3>2. Switched /\ Doing \in {"prune", "rm-static", "rm-cache"}
      BY <1>1, <2>1, <2>2 DEF Heads
    <3> QED BY <1>6, <2>1, <3>1, <3>2
  <2>3. CASE job.victim = None /\ Doing # "prune"
    <3>1. job' = [job EXCEPT !.todo = todo, !.failed = TRUE]
      BY <1>3, <1>4, <1>5, <1>10, <2>1, <2>3
    <3> DEFINE b == <<"previous-back", "env-back", "service-back">>
               n == IF job.activated THEN 1 ELSE 2
    <3>2. n \in 1..4 /\ (n = 1 <=> job.activated)
      OBVIOUS
    <3>3. todo = (IF job.activated THEN <<"current-back">> ELSE <<>>) \o b
      BY <1>10 DEF Host!Restoring
    <3>4. todo = From(Undo, n)
      <4>1. CASE job.activated
        BY <3>3, <4>1, UndoIs
      <4>2. CASE ~job.activated
        BY <3>3, <4>2, UndoIs
      <4> QED BY <4>1, <4>2
    <3> HIDE DEF todo, n
    <3>5. todo \in Seq(Host(c)!Step) /\ Head(todo) = Undo[n]
      BY <3>2, <3>4, UndoFrom, Zenon
    <3>6. Head(todo) = (IF job.activated THEN "current-back" ELSE "previous-back")
      BY <3>2, <3>5, UndoPlaces DEF n
    <3>7. \E m \in 1..4 : job'.todo = From(Undo, m) /\ (m = 1 => job'.activated)
      BY <1>7, <3>1, <3>2, <3>4
    <3>8. Shape(c)'
      BY <1>0, <1>7, <1>10, <2>3, <3>1, <3>7 DEF Shape, Undo
    <3>9. Switched => Doing \notin {"prune", "rm-static", "rm-cache"}
      BY <1>1, <2>3 DEF Heads
    <3> QED BY <1>7, <3>1, <3>5, <3>6, <3>8, <3>9 DEF Failed
  <2> QED BY <2>2, <2>3
<1> QED BY <1>0, <1>8, <1>9, <1>10

-----------------------------------------------------------------------------
(* What a step on the host changes.                                        *)

DiskType(c) ==
    [current : Host(c)!Link, previous : Host(c)!Link, next : Host(c)!Link, env : Host(c)!Link,
     old : SUBSET Built, build : SUBSET Built, release : SUBSET Built, cache : SUBSET Built,
     static : [Built -> {"absent", "partial", "full"}]]

Places(c) ==
    /\ disk \in DiskType(c)
    /\ service \in [code : Host(c)!Link, name : Host(c)!Link]
    /\ nginx \in [release : Host(c)!Link, static : SUBSET Built]
    /\ checked \subseteq Built
    /\ left \in [fails : 0..c.fails, kills : 0..c.kills]

\* A step of a script that goes on, or ends with it.
Ran(c, step) == Running /\ Doing = step /\ Advances(c) /\ UNCHANGED <<checked, left>>

SameDisk ==
    /\ disk'.current = disk.current /\ disk'.previous = disk.previous /\ disk'.next = disk.next
    /\ disk'.env = disk.env /\ disk'.release = disk.release /\ disk'.static = disk.static

Minor == {"build", "cache", "tidy", "rm-cache", "rm-build", "done", "prune"}
Keeps(c) == \E step \in Minor : Ran(c, step) /\ SameDisk /\ UNCHANGED <<service, nginx>>

\* A step that writes to the disk only.
Puts(c, step, after) == Ran(c, step) /\ disk' = after /\ UNCHANGED <<service, nginx>>

Publishes(c) ==
    /\ Ran(c, "publish") /\ disk'.release = disk.release \cup {job.sha}
    /\ disk'.current = disk.current /\ disk'.previous = disk.previous /\ disk'.next = disk.next
    /\ disk'.env = disk.env /\ disk'.static = disk.static /\ UNCHANGED <<service, nginx>>
Fills(c) ==
    \E step \in {"mkstatic", "fill"}, how \in {"partial", "full"} :
        Puts(c, step, [disk EXCEPT !.static[job.sha] = how])
NewLink == IF Activating \/ disk.next = None THEN job.sha ELSE disk.next
Links(c) == Puts(c, "ln", [disk EXCEPT !.next = NewLink])
Moves(c) == Puts(c, "mv", [disk EXCEPT !.current = disk.next, !.next = None])
Remembers(c) ==
    Puts(c, "previous", [disk EXCEPT !.previous = IF job.current = None THEN @ ELSE job.current])
Names(c) == Puts(c, "env", [disk EXCEPT !.env = job.sha])
Restarts(c) ==
    Ran(c, "restart") /\ service' = Host(c)!Started /\ UNCHANGED <<disk, nginx>>
HearsAnswer(c) ==
    /\ Ran(c, "health") /\ UNCHANGED <<disk, service, nginx>>
    /\ service # Host(c)!Stopped /\ service.name = job.sha
Renders(c) ==
    /\ Ran(c, "render") /\ disk.static[job.sha] # "absent"
    /\ nginx' = Host(c)!Rendered(job.sha) /\ UNCHANGED <<disk, service>>
Removes(c) ==
    /\ Ran(c, "rm-release") /\ UNCHANGED <<service, nginx>>
    /\ disk'.release \in {disk.release, disk.release \ {Host(c)!Victim}}
    /\ disk'.current = disk.current /\ disk'.previous = disk.previous /\ disk'.next = disk.next
    /\ disk'.env = disk.env /\ disk'.static = disk.static
Clears(c) == Puts(c, "rm-static", [disk EXCEPT !.static[Host(c)!Victim] = "absent"])
LinksBack(c) ==
    Puts(c, "current-back", [disk EXCEPT !.current =
                                IF Activating \/ disk.current = job.sha THEN job.current ELSE @])
RemembersBack(c) == Puts(c, "previous-back", [disk EXCEPT !.previous = job.previous])
NamesBack(c) == Puts(c, "env-back", [disk EXCEPT !.env = job.current])
StartsBack(c) ==
    /\ Ran(c, "service-back") /\ UNCHANGED disk
    /\ service' = IF job.current = None THEN Host(c)!Stopped ELSE Host(c)!Started
    /\ nginx' = IF job.current # None /\ Host(c)!HasStatic(job.current)
                THEN Host(c)!Rendered(job.current) ELSE nginx

\* A retention removes an expired release.
Retires(c) ==
    /\ Switched /\ Doing = "prune" /\ UNCHANGED <<service, nginx, checked, left>>
    /\ Shape(c)' /\ job' \in JobType(c) /\ Running' /\ Switched' /\ Doing' = "rm-static"
    /\ job'.kind = job.kind /\ job'.sha = job.sha /\ job'.current = job.current
    /\ job'.previous = job.previous /\ job'.victim \in Built \ {job.sha, job.current}
    /\ disk' = [disk EXCEPT !.release = @ \ {job'.victim}]

ScriptSteps(c) ==
    \/ Keeps(c) \/ Publishes(c) \/ Fills(c) \/ Links(c) \/ Moves(c) \/ Remembers(c) \/ Names(c)
    \/ Restarts(c) \/ HearsAnswer(c) \/ Renders(c) \/ Removes(c) \/ Clears(c) \/ Retires(c)
    \/ LinksBack(c) \/ RemembersBack(c) \/ NamesBack(c) \/ StartsBack(c)

\* At, by the place in the program.
LEMMA AtIs ==
    ASSUME NEW c, HostSetting(c), job \in JobType(c), Shape(c), NEW step, Host(c)!At(step)
    PROVE  Running /\ Doing = step
BY DEF Host!At, Shape, Doing

\* A step that writes to the disk alone.
LEMMA WritesIs ==
    ASSUME NEW c, HostSetting(c), job \in JobType(c), Shape(c), NEW step, step # "mv", NEW after,
           Host(c)!Writes(step, after)
    PROVE  Puts(c, step, after)
<1>1. Host(c)!At(step) /\ job' = Host(c)!Onward /\ disk' = after
      /\ UNCHANGED <<service, nginx, checked, left>>
  BY DEF Host!Writes
<1>2. Running /\ Doing = step
  BY <1>1, AtIs
<1>3. Advances(c)
  BY <1>1, <1>2, AdvancesHold DEF Onwards
<1> QED BY <1>1, <1>2, <1>3 DEF Puts, Ran

\* Every step of a script is one of these.
LEMMA ScriptIs ==
    ASSUME NEW c, HostSetting(c), Places(c), job \in JobType(c), Shape(c), Host(c)!Script
    PROVE  ScriptSteps(c)
<1>1. CASE Host(c)!Build
  <2>1. Puts(c, "build", Host(c)!With("build"))
    BY <1>1, WritesIs DEF Host!Build
  <2>2. SameDisk
    BY <2>1 DEF Puts, Places, DiskType, SameDisk, Host!With, Host!Without
  <2> QED BY <2>1, <2>2 DEF Puts, Keeps, Minor, ScriptSteps
<1>2. CASE Host(c)!MakeCache
  <2>1. Puts(c, "cache", Host(c)!With("cache"))
    BY <1>2, WritesIs DEF Host!MakeCache
  <2>2. SameDisk
    BY <2>1 DEF Puts, Places, DiskType, SameDisk, Host!With, Host!Without
  <2> QED BY <2>1, <2>2 DEF Puts, Keeps, Minor, ScriptSteps
<1>3. CASE Host(c)!Publish
  <2> DEFINE after == [Host(c)!With("release") EXCEPT !.old = @ \ {job.sha}]
  <2>1. Puts(c, "publish", after)
    BY <1>3, WritesIs DEF Host!Publish
  <2>2. /\ after.release = disk.release \cup {job.sha} /\ after.current = disk.current
        /\ after.previous = disk.previous /\ after.next = disk.next /\ after.env = disk.env
        /\ after.static = disk.static
    BY DEF Places, DiskType, Host!With
  <2> QED BY <2>1, <2>2 DEF Puts, Publishes, ScriptSteps
<1>4. CASE Host(c)!MakeStatic
  <2>1. Puts(c, "mkstatic", [disk EXCEPT !.static[job.sha] = "partial"])
    BY <1>4, WritesIs DEF Host!MakeStatic, Host!StaticIs
  <2> QED BY <2>1 DEF Fills, ScriptSteps
<1>5. CASE Host(c)!Fill
  <2>1. Puts(c, "fill", [disk EXCEPT !.static[job.sha] = "full"])
    BY <1>5, WritesIs DEF Host!Fill, Host!StaticIs
  <2> QED BY <2>1 DEF Fills, ScriptSteps
<1>6. CASE Host(c)!Tidy
  <2>1. Puts(c, "tidy", Host(c)!Without("build", job.sha))
    BY <1>6, WritesIs DEF Host!Tidy
  <2>2. SameDisk
    BY <2>1 DEF Puts, Places, DiskType, SameDisk, Host!With, Host!Without
  <2> QED BY <2>1, <2>2 DEF Puts, Keeps, Minor, ScriptSteps
<1>7. CASE Host(c)!LinkNext
  <2>1. Puts(c, "ln", [disk EXCEPT !.next = Host(c)!NextLink])
    BY <1>7, WritesIs DEF Host!LinkNext
  <2> QED BY <2>1 DEF Host!NextLink, NewLink, Activating, Links, ScriptSteps
<1>8. CASE Host(c)!MoveNext
  <2>1. /\ Host(c)!At("mv") /\ disk' = [disk EXCEPT !.current = disk.next, !.next = None]
        /\ job' = [Host(c)!Onward EXCEPT !.activated = TRUE]
        /\ UNCHANGED <<service, nginx, checked, left>>
    BY <1>8 DEF Host!MoveNext
  <2>2. Running /\ Doing = "mv"
    BY <2>1, AtIs
  <2>3. Advances(c)
    BY <2>1, <2>2, AdvancesHold DEF Onwards
  <2> QED BY <2>1, <2>2, <2>3 DEF Puts, Ran, Moves, ScriptSteps
<1>9. CASE Host(c)!KeepPrevious
  <2> DEFINE after == IF job.current = None THEN disk
                      ELSE [disk EXCEPT !.previous = job.current]
  <2>1. Puts(c, "previous", after)
    BY <1>9, WritesIs DEF Host!KeepPrevious
  <2>2. after = [disk EXCEPT !.previous = IF job.current = None THEN @ ELSE job.current]
    BY DEF Places, DiskType
  <2> QED BY <2>1, <2>2 DEF Remembers, ScriptSteps
<1>10. CASE Host(c)!NameRelease
  <2>1. Puts(c, "env", [disk EXCEPT !.env = job.sha])
    BY <1>10, WritesIs DEF Host!NameRelease
  <2> QED BY <2>1 DEF Names, ScriptSteps
<1>11. CASE Host(c)!Restart
  <2>1. /\ Host(c)!At("restart") /\ job' = Host(c)!Onward
        /\ service' = Host(c)!Started /\ UNCHANGED <<disk, nginx, checked, left>>
    BY <1>11 DEF Host!Restart
  <2>2. Running /\ Doing = "restart"
    BY <2>1, AtIs
  <2>3. Advances(c)
    BY <2>1, <2>2, AdvancesHold DEF Onwards
  <2> QED BY <2>1, <2>2, <2>3 DEF Ran, Restarts, ScriptSteps
<1>12. CASE Host(c)!Health
  <2>1. /\ Host(c)!At("health") /\ job' = Host(c)!Onward
        /\ service # Host(c)!Stopped /\ service.name = job.sha
        /\ UNCHANGED <<disk, service, nginx, checked, left>>
    BY <1>12 DEF Host!Health, Host!Answers
  <2>2. Running /\ Doing = "health"
    BY <2>1, AtIs
  <2>3. Advances(c)
    BY <2>1, <2>2, AdvancesHold DEF Onwards
  <2> QED BY <2>1, <2>2, <2>3 DEF Ran, HearsAnswer, ScriptSteps
<1>13. CASE Host(c)!Render
  <2>1. /\ Host(c)!At("render") /\ job' = Host(c)!Onward
        /\ disk.static[job.sha] # "absent" /\ nginx' = Host(c)!Rendered(job.sha)
        /\ UNCHANGED <<disk, service, checked, left>>
    BY <1>13 DEF Host!Render, Host!HasStatic
  <2>2. Running /\ Doing = "render"
    BY <2>1, AtIs
  <2>3. Advances(c)
    BY <2>1, <2>2, AdvancesHold DEF Onwards
  <2> QED BY <2>1, <2>2, <2>3 DEF Ran, Renders, ScriptSteps
<1>14. CASE Host(c)!Done
  <2>1. Puts(c, "done", disk)
    BY <1>14, WritesIs DEF Host!Done
  <2> QED BY <2>1 DEF Puts, Keeps, Minor, SameDisk, ScriptSteps
<1>15. CASE Host(c)!Prune
  <2>1. CASE Host(c)!Writes("prune", disk)
    <3>1. Puts(c, "prune", disk)
      BY <2>1, WritesIs
    <3> QED BY <3>1 DEF Puts, Keeps, Minor, SameDisk, ScriptSteps
  <2>2. ASSUME NEW v \in Host(c)!Expired, Host(c)!At("prune"),
               disk' = Host(c)!Without("release", v),
               job' = [job EXCEPT !.todo = <<"rm-static", "rm-cache">> \o @, !.victim = v],
               UNCHANGED <<service, nginx, checked, left>>
        PROVE  ScriptSteps(c)
    <3>1. v \in Built \ {job.sha, job.current}
      BY DEF Host!Expired, Places, DiskType
    <3>2. Running /\ Doing = "prune"
      BY <2>2, AtIs
    <3>3. Switched
      BY <3>2, HeadsHold DEF Heads, Preparing, Prepares, Undoes, Switches, Switched, Shape,
         Activating, Deploys, HostSetting, JobType
    <3>4. /\ Shape(c)' /\ job' \in JobType(c) /\ Running' /\ Switched' /\ Doing' = "rm-static"
          /\ job'.kind = job.kind /\ job'.sha = job.sha /\ job'.current = job.current
          /\ job'.previous = job.previous /\ job'.victim = v
      BY <2>2, <3>1, <3>2, <3>3, PrunesHold
    <3>5. disk' = [disk EXCEPT !.release = @ \ {v}]
      BY <2>2 DEF Host!Without
    <3> QED BY <2>2, <3>1, <3>2, <3>3, <3>4, <3>5 DEF Retires, ScriptSteps
  <2> QED BY <1>15, <2>1, <2>2 DEF Host!Prune
<1>16. CASE Host(c)!Remove
  <2>1. CASE Host(c)!Writes("rm-release", IF job.failed /\ Host(c)!Target(disk.current) = job.sha
                                          THEN disk ELSE Host(c)!Without("release", Host(c)!Victim))
    <3> DEFINE after == IF job.failed /\ Host(c)!Target(disk.current) = job.sha
                        THEN disk ELSE Host(c)!Without("release", Host(c)!Victim)
    <3>1. Puts(c, "rm-release", after)
      BY <2>1, WritesIs
    <3>2. /\ after.release \in {disk.release, disk.release \ {Host(c)!Victim}}
          /\ after.current = disk.current /\ after.previous = disk.previous
          /\ after.next = disk.next /\ after.env = disk.env /\ after.static = disk.static
      BY DEF Places, DiskType, Host!Without
    <3> QED BY <3>1, <3>2 DEF Puts, Removes, ScriptSteps
  <2>2. CASE Host(c)!Writes("rm-static", Host(c)!StaticIs(Host(c)!Victim, "absent"))
    <3>1. Puts(c, "rm-static", [disk EXCEPT !.static[Host(c)!Victim] = "absent"])
      BY <2>2, WritesIs DEF Host!StaticIs
    <3> QED BY <3>1 DEF Clears, ScriptSteps
  <2>3. CASE Host(c)!Writes("rm-cache", Host(c)!Without("cache", Host(c)!Victim))
    <3>1. Puts(c, "rm-cache", Host(c)!Without("cache", Host(c)!Victim))
      BY <2>3, WritesIs
    <3>2. SameDisk
      BY <3>1 DEF Puts, Places, DiskType, SameDisk, Host!Without
    <3> QED BY <3>1, <3>2 DEF Puts, Keeps, Minor, ScriptSteps
  <2>4. CASE Host(c)!Writes("rm-build", Host(c)!Without("build", Host(c)!Victim))
    <3>1. Puts(c, "rm-build", Host(c)!Without("build", Host(c)!Victim))
      BY <2>4, WritesIs
    <3>2. SameDisk
      BY <3>1 DEF Puts, Places, DiskType, SameDisk, Host!Without
    <3> QED BY <3>1, <3>2 DEF Puts, Keeps, Minor, ScriptSteps
  <2> QED BY <1>16, <2>1, <2>2, <2>3, <2>4 DEF Host!Remove
<1>17. CASE Host(c)!CurrentBack
  <2> DEFINE after == IF job.kind = "activate" \/ disk.current = job.sha
                      THEN [disk EXCEPT !.current = job.current] ELSE disk
  <2>1. Puts(c, "current-back", after)
    BY <1>17, WritesIs DEF Host!CurrentBack
  <2>2. after = [disk EXCEPT !.current = IF Activating \/ disk.current = job.sha
                                         THEN job.current ELSE @]
    BY DEF Places, DiskType, Activating
  <2> QED BY <2>1, <2>2 DEF LinksBack, ScriptSteps
<1>18. CASE Host(c)!PreviousBack
  <2>1. Puts(c, "previous-back", [disk EXCEPT !.previous = job.previous])
    BY <1>18, WritesIs DEF Host!PreviousBack
  <2> QED BY <2>1 DEF RemembersBack, ScriptSteps
<1>19. CASE Host(c)!EnvBack
  <2>1. Puts(c, "env-back", [disk EXCEPT !.env = job.current])
    BY <1>19, WritesIs DEF Host!EnvBack
  <2> QED BY <2>1 DEF NamesBack, ScriptSteps
<1>20. CASE Host(c)!ServiceBack
  <2>1. /\ Host(c)!At("service-back") /\ job' = Host(c)!Onward /\ UNCHANGED <<disk, checked, left>>
        /\ service' = IF job.current = None THEN Host(c)!Stopped ELSE Host(c)!Started
        /\ nginx' = IF job.current # None /\ Host(c)!HasStatic(job.current)
                    THEN Host(c)!Rendered(job.current) ELSE nginx
    BY <1>20 DEF Host!ServiceBack
  <2>2. Running /\ Doing = "service-back"
    BY <2>1, AtIs
  <2>3. Advances(c)
    BY <2>1, <2>2, AdvancesHold DEF Onwards
  <2> QED BY <2>1, <2>2, <2>3 DEF Ran, StartsBack, ScriptSteps
<1> QED
  BY <1>1, <1>2, <1>3, <1>4, <1>5, <1>6, <1>7, <1>8, <1>9, <1>10, <1>11, <1>12, <1>13, <1>14,
     <1>15, <1>16, <1>17, <1>18, <1>19, <1>20 DEF Host!Script

\* A step of a script keeps the types of what it changes.
LEMMA ScriptPlaces ==
    ASSUME NEW c, HostSetting(c), Places(c), job \in JobType(c), Shape(c), Host(c)!Script
    PROVE  Places(c)'
<1> DEFINE L == Host(c)!Link
<1>1. Running
  <2>1. PICK step : Host(c)!At(step)
    BY DEF Host!Script, Host!Build, Host!MakeCache, Host!Publish, Host!MakeStatic, Host!Fill,
       Host!Tidy, Host!LinkNext, Host!MoveNext, Host!KeepPrevious, Host!NameRelease,
       Host!Restart, Host!Health, Host!Render, Host!Done, Host!Prune, Host!Remove,
       Host!CurrentBack, Host!PreviousBack, Host!EnvBack, Host!ServiceBack, Host!Writes
  <2> QED BY <2>1, AtIs
<1>2. /\ job.sha \in Built /\ job.sha \in L /\ job.current \in L /\ job.previous \in L
      /\ None \in L /\ Host(c)!Victim \in Built
  BY <1>1 DEF Shape, JobType, Host!Link, Host!Victim
<1>3. Host(c)!Started \in [code : L, name : L] /\ Host(c)!Stopped \in [code : L, name : L]
  BY <1>2 DEF Places, DiskType, Host!Started, Host!Stopped
<1>4. \A x \in L : Host(c)!Rendered(x) \in [release : L, static : SUBSET Built]
  BY DEF Host!Rendered
<1>5. ASSUME disk' \in DiskType(c), service' \in [code : L, name : L],
             nginx' \in [release : L, static : SUBSET Built], UNCHANGED <<checked, left>>
      PROVE  Places(c)'
  BY <1>5 DEF Places, DiskType, Host!Link
<1>6. /\ service \in [code : L, name : L] /\ nginx \in [release : L, static : SUBSET Built]
      /\ disk \in DiskType(c)
  BY DEF Places
<1>7. ASSUME NEW step, NEW after \in DiskType(c), Host(c)!Writes(step, after)
      PROVE  Places(c)'
  BY <1>5, <1>6, <1>7 DEF Host!Writes
<1> DEFINE D == DiskType(c)
<1>8. \A dir \in {"build", "cache", "release"} :
          Host(c)!With(dir) \in D /\ \A x \in Built : Host(c)!Without(dir, x) \in D
  BY <1>2, <1>6 DEF DiskType, Host!With, Host!Without
<1>9. \A x \in Built, how \in {"absent", "partial", "full"} : Host(c)!StaticIs(x, how) \in D
  BY <1>6 DEF DiskType, Host!StaticIs
<1>10. [Host(c)!With("release") EXCEPT !.old = @ \ {job.sha}] \in D
  BY <1>8 DEF DiskType
<1>11. Host(c)!NextLink \in L /\ \A x \in L : [disk EXCEPT !.next = x] \in D
  BY <1>2, <1>6 DEF DiskType, Host!NextLink
<1>12. /\ \A x \in L : [disk EXCEPT !.previous = x] \in D /\ [disk EXCEPT !.env = x] \in D
                      /\ [disk EXCEPT !.current = x] \in D
       /\ [disk EXCEPT !.current = disk.next, !.next = None] \in D
  BY <1>2, <1>6 DEF DiskType
<1> HIDE DEF L, D
<1>13. CASE Host(c)!Build \/ Host(c)!MakeCache \/ Host(c)!Publish
  BY <1>7, <1>8, <1>10, <1>13 DEF Host!Build, Host!MakeCache, Host!Publish, D
<1>14. CASE Host(c)!MakeStatic \/ Host(c)!Fill
  BY <1>2, <1>7, <1>9, <1>14 DEF Host!MakeStatic, Host!Fill, D
<1>15. CASE Host(c)!Tidy
  BY <1>2, <1>7, <1>8, <1>15 DEF Host!Tidy, D
<1>16. CASE Host(c)!LinkNext
  BY <1>7, <1>11, <1>16 DEF Host!LinkNext, D
<1>17. CASE Host(c)!MoveNext
  BY <1>5, <1>6, <1>12, <1>17 DEF Host!MoveNext, D
<1>18. CASE Host(c)!KeepPrevious
  BY <1>2, <1>6, <1>7, <1>12, <1>18 DEF Host!KeepPrevious, D
<1>19. CASE Host(c)!NameRelease
  BY <1>2, <1>7, <1>12, <1>19 DEF Host!NameRelease, D
<1>20. CASE Host(c)!Restart
  BY <1>3, <1>5, <1>6, <1>20 DEF Host!Restart
<1>21. CASE Host(c)!Health
  BY <1>5, <1>6, <1>21 DEF Host!Health
<1>22. CASE Host(c)!Render
  BY <1>2, <1>4, <1>5, <1>6, <1>22 DEF Host!Render
<1>23. CASE Host(c)!Done
  BY <1>6, <1>7, <1>23 DEF Host!Done
<1>24. CASE Host(c)!Prune
  <2>1. CASE Host(c)!Writes("prune", disk)
    BY <1>6, <1>7, <2>1
  <2>2. ASSUME NEW v \in Host(c)!Expired, disk' = Host(c)!Without("release", v),
               UNCHANGED <<service, nginx, checked, left>>
        PROVE  Places(c)'
    <3>1. v \in Built
      BY <1>6 DEF Host!Expired, DiskType
    <3> QED BY <1>5, <1>6, <1>8, <2>2, <3>1 DEF D
  <2> QED BY <1>24, <2>1, <2>2 DEF Host!Prune
<1>25. CASE Host(c)!Remove
  BY <1>2, <1>6, <1>7, <1>8, <1>9, <1>25 DEF Host!Remove, D
<1>26. CASE Host(c)!CurrentBack
  BY <1>2, <1>6, <1>7, <1>12, <1>26 DEF Host!CurrentBack, D
<1>27. CASE Host(c)!PreviousBack \/ Host(c)!EnvBack
  BY <1>2, <1>7, <1>12, <1>27 DEF Host!PreviousBack, Host!EnvBack, D
<1>28. CASE Host(c)!ServiceBack
  BY <1>2, <1>3, <1>4, <1>5, <1>6, <1>28 DEF Host!ServiceBack
<1> QED
  BY <1>13, <1>14, <1>15, <1>16, <1>17, <1>18, <1>19, <1>20, <1>21, <1>22, <1>23, <1>24,
     <1>25, <1>26, <1>27, <1>28 DEF Host!Script

-----------------------------------------------------------------------------
(* What a script leaves to the next one.                                   *)

Whole(s) == s \in disk.release /\ disk.static[s] # "absent"
Led == {None} \cup {s \in Built : Whole(s)}

\* The steps of a script that has switched, from the one on where a fact holds.
Finishing == {"done", "prune", "rm-static", "rm-cache", "tidy"}
Fronted == Finishing \cup (IF Activating THEN {"previous"} ELSE {})
Healthy == {"render"} \cup Fronted
Named == {"restart", "health"} \cup Healthy

\* An activation of what is active already.
Renews == Activating /\ Switches /\ Doing \in {"render", "health", "done"}

SameLinks == disk'.current = disk.current /\ disk'.previous = disk.previous

\* A script takes the lock.
Begins(c) ==
    \E k \in c.kinds, s \in Built, t \in {"again", "first"} :
        /\ ~Running /\ Begun(c, k, t) /\ UNCHANGED <<disk, service, nginx, left>>
        /\ job'.sha = s /\ job'.current = Host(c)!Target(disk.current)
        /\ job'.previous = Host(c)!Target(disk.previous)
        /\ \/ /\ k \in {"stage", "deploy"} /\ UNCHANGED checked /\ (c.overlap \/ checked = {})
              /\ s \notin disk.release /\ disk.static[s] = "absent"
           \/ /\ k = "cleanup" /\ UNCHANGED checked /\ (c.overlap \/ checked = {})
              /\ s \notin {Host(c)!Target(disk.current), Host(c)!Target(disk.previous)}
           \/ /\ k = "activate" /\ s \in checked /\ checked' = checked \ {s}
              /\ t = "again" <=> Host(c)!Target(disk.current) = s

\* One that looks at a release, or finds another with the lock.
Looks(c) ==
    /\ UNCHANGED <<disk, service, nginx, job, left>>
    /\ \/ Running /\ checked' \subseteq checked
       \/ \E s \in Built : Whole(s) /\ checked' = checked \cup {s}
                           /\ (c.overlap \/ (~Running /\ checked = {}))

\* One that fails.
Breaks(c) ==
    /\ Running /\ ~job.failed /\ Doing \notin {"done", "tidy"} /\ (Deploys => ~job.activated)
    /\ Failed(c) /\ SameDisk /\ UNCHANGED <<service, nginx, checked>>
    /\ left'.kills = left.kills
    /\ left.fails > 0 \/ Doing \in {"cache", "ln", "health", "render"}

\* One that is killed, or a process that dies.
Killing(c) ==
    /\ left.kills > 0 /\ left'.kills = left.kills - 1 /\ UNCHANGED <<disk, nginx, checked>>
    /\ \/ /\ Running /\ ~Running' /\ Shape(c)' /\ job' \in JobType(c)
          /\ service' \in {service, Host(c)!Started}
       \/ service # Host(c)!Stopped /\ service' = Host(c)!Started /\ UNCHANGED job

Ages == ~Running /\ SameDisk /\ UNCHANGED <<service, nginx, job, checked, left>>

HostSteps(c) ==
    ScriptSteps(c) \/ Begins(c) \/ Looks(c) \/ Breaks(c) \/ Killing(c) \/ Ages

\* A script that runs is not the idle one.
LEMMA IdleHolds ==
    ASSUME NEW c, HostSetting(c), Shape(c) PROVE (job = Host(c)!Idle) <=> ~Running
BY DEF Shape, Running, Host!Idle

\* A step that leaves the script alone.
LEMMA SameShape ==
    ASSUME NEW c, Shape(c), job \in JobType(c), UNCHANGED job
    PROVE  Shape(c)' /\ job' \in JobType(c)
BY DEF Shape, JobType, Running, Prepares, Undoes, Activating, Deploys, Repeats, Activates,
   DeploysFrom, Expires

\* The scripts that take the lock.
LEMMA BeginsHold ==
    ASSUME NEW c, HostSetting(c), Places(c), job \in JobType(c), Shape(c), NEW s \in Built,
           checked # {} => "activate" \in c.kinds,
           Host(c)!Stage(s) \/ Host(c)!Cleanup(s) \/ Host(c)!Activate(s)
    PROVE  (Begins(c) \/ Looks(c)) /\ Places(c)'
<1> DEFINE u == Host(c)!Target(disk.current)  v == Host(c)!Target(disk.previous)
<1>1. u \in Host(c)!Link /\ v \in Host(c)!Link
  BY DEF Host!Target, Host!Link, Places, DiskType
<1>2. ASSUME NEW k, NEW todo, Host(c)!Locks(k, s, todo)
      PROVE  /\ k \in c.kinds /\ ~Running /\ (c.overlap \/ checked = {})
             /\ job' = [Host(c)!Idle EXCEPT !.kind = k, !.sha = s, !.todo = todo,
                                            !.current = u, !.previous = v]
             /\ UNCHANGED <<disk, service, nginx, left>>
  BY <1>2, IdleHolds DEF Host!Locks
<1>6. ASSUME UNCHANGED <<disk, service, nginx, left>>, checked' \subseteq checked
      PROVE  Places(c)'
  BY <1>6 DEF Places, DiskType
<1>7. ASSUME NEW k \in c.kinds, NEW t \in {"again", "first"}, ~Running, Begun(c, k, t),
             UNCHANGED <<disk, service, nginx, left>>,
             job'.sha = s, job'.current = u, job'.previous = v,
             \/ /\ k \in {"stage", "deploy"} /\ UNCHANGED checked /\ (c.overlap \/ checked = {})
                /\ s \notin disk.release /\ disk.static[s] = "absent"
             \/ /\ k = "cleanup" /\ UNCHANGED checked /\ (c.overlap \/ checked = {})
                /\ s \notin {u, v}
             \/ /\ k = "activate" /\ s \in checked /\ checked' = checked \ {s}
                /\ t = "again" <=> u = s
      PROVE  Begins(c) /\ Places(c)'
  <2>1. Places(c)'
    BY <1>6, <1>7
  <2> QED BY <1>7, <2>1 DEF Begins
<1>3. CASE Host(c)!Stage(s)
  <2>1. s \notin disk.release /\ disk.static[s] = "absent" /\ UNCHANGED checked
    BY <1>3 DEF Host!Stage, Host!HasStatic, Places, DiskType
  <2>2. CASE Host(c)!Locks("stage", s, Host(c)!Staging \o <<"tidy">>)
    <3> DEFINE todo == Host(c)!Staging \o <<"tidy">>
    <3>1. todo = Host(c)!Staging \o <<"tidy">>
      OBVIOUS
    <3> HIDE DEF todo, u, v
    <3>4. /\ "stage" \in c.kinds /\ todo = Host(c)!Staging \o <<"tidy">>
          /\ job' = [Host(c)!Idle EXCEPT !.kind = "stage", !.sha = s, !.todo = todo,
                                         !.current = u, !.previous = v]
      BY <1>2, <2>2, <3>1, Zenon
    <3>2. Begun(c, "stage", "first") /\ job'.sha = s /\ job'.current = u /\ job'.previous = v
      BY <1>1, <3>4, BegunHolds, Zenon
    <3> QED BY <1>2, <1>7, <2>1, <2>2, <3>1, <3>2
  <2>3. CASE Host(c)!Locks("deploy", s, Host(c)!Staging \o Host(c)!Deploying \o <<"tidy">>)
    <3> DEFINE todo == Host(c)!Staging \o Host(c)!Deploying \o <<"tidy">>
    <3>1. todo = Host(c)!Staging \o Host(c)!Deploying \o <<"tidy">>
      OBVIOUS
    <3> HIDE DEF todo, u, v
    <3>4. /\ "deploy" \in c.kinds
          /\ todo = Host(c)!Staging \o Host(c)!Deploying \o <<"tidy">>
          /\ job' = [Host(c)!Idle EXCEPT !.kind = "deploy", !.sha = s, !.todo = todo,
                                         !.current = u, !.previous = v]
      BY <1>2, <2>3, <3>1, Zenon
    <3>2. Begun(c, "deploy", "first") /\ job'.sha = s /\ job'.current = u /\ job'.previous = v
      BY <1>1, <3>4, BegunHolds, ZenonT(60)
    <3> QED BY <1>2, <1>7, <2>1, <2>3, <3>1, <3>2
  <2> QED BY <1>3, <2>2, <2>3 DEF Host!Stage
<1>4. CASE Host(c)!Cleanup(s)
  <2>1. s \notin {u, v} /\ UNCHANGED checked /\ Host(c)!Locks("cleanup", s, Host(c)!Cleaning)
    BY <1>4 DEF Host!Cleanup
  <2> DEFINE todo == Host(c)!Cleaning
  <2>3. todo = Host(c)!Cleaning
    OBVIOUS
  <2> HIDE DEF todo, u, v
  <2>4. /\ "cleanup" \in c.kinds
        /\ job' = [Host(c)!Idle EXCEPT !.kind = "cleanup", !.sha = s, !.todo = todo,
                                       !.current = u, !.previous = v]
    BY <1>2, <2>1, <2>3, Zenon
  <2>2. Begun(c, "cleanup", "first") /\ job'.sha = s /\ job'.current = u /\ job'.previous = v
    BY <1>1, <2>3, <2>4, BegunHolds, Zenon
  <2> QED BY <1>2, <1>7, <2>1, <2>2
<1>5. CASE Host(c)!Activate(s)
  <2>1. s \in checked /\ checked' = checked \ {s} /\ UNCHANGED <<disk, service, nginx, left>>
    BY <1>5 DEF Host!Activate
  <2>2. Places(c)'
    BY <2>1 DEF Places
  <2>3. CASE job # Host(c)!Idle /\ UNCHANGED job
    BY <2>1, <2>2, <2>3, IdleHolds DEF Looks
  <2>4. CASE job = Host(c)!Idle /\ job' = [Host(c)!Idle EXCEPT !.kind = "activate", !.sha = s,
                  !.todo = IF u = s THEN Host(c)!Again ELSE Host(c)!Switching,
                  !.current = u, !.previous = v]
    <3> DEFINE t == IF u = s THEN "again" ELSE "first"
               todo == IF u = s THEN Host(c)!Again ELSE Host(c)!Switching
    <3>1. t \in {"again", "first"} /\ (t = "again" <=> u = s)
          /\ (t = "again" => todo = Host(c)!Again)
          /\ (t # "again" => todo = Host(c)!Switching)
          /\ job' = [Host(c)!Idle EXCEPT !.kind = "activate", !.sha = s, !.todo = todo,
                                         !.current = u, !.previous = v]
      BY <2>4
    <3> HIDE DEF t, todo, u, v
    <3>3. "activate" \in c.kinds
      BY <2>1
    <3>2. Begun(c, "activate", t) /\ job'.sha = s /\ job'.current = u /\ job'.previous = v
      BY <1>1, <3>1, <3>3, BegunHolds, Zenon
    <3> QED BY <1>7, <2>1, <2>4, <3>1, <3>2, <3>3, IdleHolds
  <2> QED BY <1>5, <2>3, <2>4 DEF Host!Activate
<1> QED BY <1>3, <1>4, <1>5

\* A script that looks at a release before it takes the lock.
LEMMA LooksHold ==
    ASSUME NEW c, HostSetting(c), Places(c), job \in JobType(c), Shape(c), NEW s,
           Host(c)!CheckStaged(s)
    PROVE  Looks(c) /\ Places(c)' /\ "activate" \in c.kinds
<1>1. /\ "activate" \in c.kinds /\ s \in Built /\ Whole(s) /\ checked' = checked \cup {s}
      /\ (c.overlap \/ (job = Host(c)!Idle /\ checked = {}))
      /\ UNCHANGED <<disk, service, nginx, job, left>>
  BY DEF Host!CheckStaged, Host!Complete, Host!HasStatic, Whole, Places, DiskType
<1>2. Places(c)'
  BY <1>1 DEF Places, DiskType
<1> QED BY <1>1, <1>2, IdleHolds DEF Looks

\* A command that fails.
LEMMA BreaksHold ==
    ASSUME NEW c, HostSetting(c), Places(c), job \in JobType(c), Shape(c),
           Deploys => ~job.activated, Host(c)!Fails
    PROVE  Breaks(c) /\ Places(c)'
<1>1. /\ Running /\ ~job.failed /\ Doing \notin {"done", "tidy"}
      /\ UNCHANGED <<service, nginx, checked>>
      /\ disk' \in {disk} \cup (IF Host(c)!At("build") THEN {Host(c)!With("build")} ELSE {})
      /\ left.fails > 0 \/ Doing \in {"cache", "ln", "health", "render"}
      /\ left' = left \/ (left.fails > 0 /\ left' = [left EXCEPT !.fails = @ - 1])
  BY IdleHolds DEF Host!Fails, Host!Refused, Host!At, Doing
<1>2. Failed(c)
  BY <1>1, FailsHold
<1>3. disk' \in DiskType(c) /\ SameDisk
  <2>1. job.sha \in Built
    BY <1>1 DEF Shape
  <2> QED BY <1>1, <2>1 DEF Places, DiskType, SameDisk, Host!With
<1>4. left' \in [fails : 0..c.fails, kills : 0..c.kills] /\ left'.kills = left.kills
  BY <1>1 DEF Places, HostSetting
<1> QED BY <1>1, <1>2, <1>3, <1>4 DEF Breaks, Places, DiskType

\* A script or the machine that dies, and a service that systemd starts again.
LEMMA KillingHolds ==
    ASSUME NEW c, HostSetting(c), Places(c), job \in JobType(c), Shape(c),
           Host(c)!Dies \/ Host(c)!ServiceRestarts
    PROVE  Killing(c) /\ Places(c)'
<1>1. /\ left.kills > 0 /\ left' = [left EXCEPT !.kills = @ - 1]
      /\ UNCHANGED <<disk, nginx, checked>> /\ service' \in {service, Host(c)!Started}
  BY DEF Host!Dies, Host!ServiceRestarts, Host!Dead
<1>2. left' \in [fails : 0..c.fails, kills : 0..c.kills] /\ left'.kills = left.kills - 1
  BY <1>1 DEF Places, HostSetting
<1>3. Host(c)!Started \in [code : Host(c)!Link, name : Host(c)!Link]
  BY DEF Places, DiskType, Host!Started, Host!Stopped, Host!Link
<1>4. Places(c)'
  BY <1>1, <1>2, <1>3 DEF Places, DiskType
<1>5. CASE Host(c)!Dies
  <2>1. Running /\ job' = Host(c)!Idle
    BY <1>5, IdleHolds DEF Host!Dies
  <2>2. Shape(c)' /\ job' \in JobType(c) /\ ~Running'
    BY <2>1, IdleIs
  <2> QED BY <1>1, <1>2, <1>4, <2>1, <2>2 DEF Killing
<1>6. CASE Host(c)!ServiceRestarts
  BY <1>1, <1>2, <1>4, <1>6 DEF Host!ServiceRestarts, Killing
<1> QED BY <1>5, <1>6

\* Every step on the host is one of these.
LEMMA HostStepsHold ==
    ASSUME NEW c, HostSetting(c), Places(c), job \in JobType(c), Shape(c),
           checked # {} => "activate" \in c.kinds,
           Deploys /\ Host(c)!Fails => ~job.activated, Host(c)!Next
    PROVE  /\ HostSteps(c) /\ Places(c)' /\ job' \in JobType(c) /\ Shape(c)'
           /\ checked' # {} => "activate" \in c.kinds
<1>1. CASE \E s \in Built : Host(c)!Stage(s) \/ Host(c)!Activate(s) \/ Host(c)!Cleanup(s)
  <2>1. (Begins(c) \/ Looks(c)) /\ Places(c)'
    BY <1>1, BeginsHold
  <2>2. checked' \subseteq checked
    BY <1>1 DEF Host!Stage, Host!Activate, Host!Cleanup
  <2>3. ASSUME Looks(c) PROVE Shape(c)' /\ job' \in JobType(c)
    BY <2>3, SameShape DEF Looks
  <2> QED BY <2>1, <2>2, <2>3 DEF Begins, Begun, HostSteps
<1>2. CASE (\E s \in Built : Host(c)!CheckStaged(s)) \/ Host(c)!Rollback
  <2>1. \E s : Host(c)!CheckStaged(s)
    BY <1>2 DEF Host!Rollback
  <2>2. Looks(c) /\ Places(c)' /\ "activate" \in c.kinds
    BY <2>1, LooksHold
  <2> QED BY <2>2, SameShape DEF HostSteps, Looks
<1>3. CASE Host(c)!Script
  <2>1. ScriptSteps(c) /\ Places(c)'
    BY <1>3, ScriptIs, ScriptPlaces
  <2>2. Shape(c)' /\ job' \in JobType(c) /\ UNCHANGED checked
    BY <2>1 DEF ScriptSteps, Keeps, Publishes, Fills, Links, Moves, Remembers, Names, Restarts,
       HearsAnswer, Renders, Removes, Clears, Retires, LinksBack, RemembersBack, NamesBack,
       StartsBack, Puts, Ran, Advances
  <2> QED BY <2>1, <2>2 DEF HostSteps
<1>4. CASE Host(c)!Fails
  BY <1>4, BreaksHold DEF HostSteps, Breaks, Failed
<1>5. CASE Host(c)!Dies \/ Host(c)!ServiceRestarts
  BY <1>5, KillingHolds, SameShape DEF HostSteps, Killing
<1>6. CASE Host(c)!Age
  <2>1. /\ disk' = [disk EXCEPT !.old = disk.release] /\ ~Running
        /\ UNCHANGED <<service, nginx, job, checked, left>>
    BY <1>6, IdleHolds DEF Host!Age
  <2>2. Places(c)' /\ SameDisk
    BY <2>1 DEF Places, DiskType, SameDisk
  <2> QED BY <2>1, <2>2, SameShape DEF HostSteps, Ages
<1> QED BY <1>1, <1>2, <1>3, <1>4, <1>5, <1>6 DEF Host!Next

\* What is known of every state of the host, for the steps below.
Known(c) ==
    /\ HostSetting(c) /\ Places(c) /\ job \in JobType(c) /\ Shape(c)
    /\ Running => Heads(c)

\* What the types and the place in the program say.
LEMMA KnownIs ==
    ASSUME NEW c, HostSetting(c), Places(c), job \in JobType(c), Shape(c)
    PROVE  Known(c)
BY HeadsHold DEF Known

\* What a script remembers while it goes on.
LEMMA ScriptRuns ==
    ASSUME NEW c, Known(c), ScriptSteps(c)
    PROVE  /\ Running /\ UNCHANGED <<checked, left>>
           /\ Running' => /\ job'.kind = job.kind /\ job'.sha = job.sha
                          /\ job'.current = job.current /\ job'.previous = job.previous
                          /\ job'.failed = job.failed
                          /\ job'.activated = (job.activated \/ Doing = "mv")
<1>1. CASE Retires(c)
  BY <1>1 DEF Known, Retires, Switched, Running, JobType
<1>2. CASE \E step : Ran(c, step)
  BY <1>2 DEF Ran, Advances, SameJob
<1> QED
  BY <1>1, <1>2 DEF ScriptSteps, Keeps, Publishes, Fills, Links, Moves, Remembers, Names,
     Restarts, HearsAnswer, Renders, Removes, Clears, LinksBack, RemembersBack, NamesBack,
     StartsBack, Puts

-----------------------------------------------------------------------------
\* What a script has established when it reaches a step.
Facts ==
    /\ Switched /\ Doing \in {"rm-static", "rm-cache"} =>
          job.victim \notin {job.sha, job.current, None}
    /\ Switches /\ Doing = "mv" => disk.next = job.sha
    /\ Switched => disk.current = job.sha
    /\ Switched /\ Doing \in Named => disk.env = job.sha
    /\ Switched /\ Doing = "health" =>
          (service.code = None /\ service.name = None)
          \/ (service.code = job.sha /\ service.name = job.sha /\ job.sha \in disk.release)
    /\ Switched /\ Doing \in Healthy =>
          service.code = job.sha /\ service.name = job.sha /\ job.sha \in disk.release
    /\ Switched /\ Doing \in Fronted =>
          nginx.release = job.sha /\ job.sha \in nginx.static /\ disk.static[job.sha] # "absent"
    /\ Renews => disk.current = job.sha /\ job.sha \in disk.release /\ job.current = job.sha
    /\ Renews /\ Doing # "render" => nginx.release = job.sha
    /\ service.code = None => service.name = None

\* Where releases are deployed too, the scripts meet no fault.
DeployFacts(c) == "deploy" \in c.kinds =>
    /\ disk.next # None => Switches /\ Doing = "mv"
    /\ Deploys /\ ~job.failed /\ Doing \notin {"build", "cache", "publish"} =>
          job.sha \in disk.release
    /\ Deploys /\ ~job.failed /\ Doing \notin {"build", "cache", "publish", "mkstatic"} =>
          disk.static[job.sha] # "absent"
    /\ Deploys /\ Switched /\ Doing = "health" => service.code # None

\* The releases that the step of a script may remove.
Loses(s) ==
    \/ Prepares /\ s = job.sha
    \/ Switched /\ Doing \in {"prune", "rm-static", "rm-cache"} /\ s \notin {job.sha, job.current}

\* No release and no static files go but those that a step may remove.
LEMMA ReleaseStays ==
    ASSUME NEW c, Known(c), Facts, HostSteps(c), NEW s \in Built
    PROVE  /\ s \in disk.release => s \in disk'.release \/ Loses(s)
           /\ disk.static[s] # "absent" => disk'.static[s] # "absent" \/ Loses(s)
<1>1. CASE Removes(c) \/ Clears(c)
  <2>1. Running /\ Doing \in {"rm-release", "rm-static"}
    BY <1>1 DEF Removes, Clears, Puts, Ran
  <2>2. Prepares => job.victim = None
    BY <2>1 DEF Known, Shape
  <2>3. Prepares \/ (Switched /\ Doing = "rm-static")
    BY <2>1 DEF Known, Heads, Shape, HostSetting, JobType, Prepares, Undoes, Switches, Switched,
       Activating, Deploys, Running
  <2>4. s # Host(c)!Victim => /\ s \in disk.release => s \in disk'.release
                              /\ disk'.static[s] = disk.static[s]
    BY <1>1 DEF Removes, Clears, Puts, Known, Places, DiskType
  <2> QED BY <2>2, <2>3, <2>4 DEF Host!Victim, Loses, Facts
<1>2. CASE Retires(c)
  <2>1. s # job'.victim /\ s \in disk.release => s \in disk'.release
    BY <1>2 DEF Retires, Known, Places, DiskType
  <2>2. disk'.static = disk.static
    BY <1>2 DEF Retires, Known, Places, DiskType
  <2> QED BY <1>2, <2>1, <2>2 DEF Retires, Loses
<1>3. CASE Fills(c)
  BY <1>3 DEF Fills, Puts, Known, Places, DiskType
<1>4. CASE Publishes(c)
  BY <1>4 DEF Publishes
<1>5. CASE Links(c) \/ Moves(c) \/ Remembers(c) \/ Names(c) \/ LinksBack(c)
           \/ RemembersBack(c) \/ NamesBack(c)
  BY <1>5 DEF Links, Moves, Remembers, Names, LinksBack, RemembersBack, NamesBack, Puts,
     Known, Places, DiskType
<1>6. CASE SameDisk \/ UNCHANGED disk
  BY <1>6 DEF SameDisk
<1> QED
  BY <1>1, <1>2, <1>3, <1>4, <1>5, <1>6 DEF HostSteps, ScriptSteps, Keeps, Restarts,
     HearsAnswer, Renders, StartsBack, Begins, Looks, Breaks, Killing, Ages

\* So a whole release stays whole.
LEMMA WholeStays ==
    ASSUME NEW c, Known(c), Facts, HostSteps(c), NEW s \in Built, Whole(s)
    PROVE  Whole(s)' \/ Loses(s)
BY ReleaseStays DEF Whole

\* Where a running script's step lies.
LEMMA Stages ==
    ASSUME NEW c, Known(c), Running
    PROVE  /\ Prepares \/ Undoes \/ Switches \/ Switched
           /\ job.sha \in Built /\ job.sha # None /\ job.activated \in BOOLEAN
           /\ job.failed \in BOOLEAN
           /\ job.kind \in {"stage", "deploy", "activate", "cleanup"}
BY NoneIsNoRelease DEF Known, Shape, HostSetting, JobType, Prepares, Undoes, Switches, Switched,
   Activating, Deploys

\* Until it switches, a script establishes nothing.
LEMMA EarlySteps ==
    ASSUME NEW c, Known(c), NEW step, Ran(c, step), Known(c)',
           Prepares \/ Undoes \/ step \in {"build", "cache", "publish", "mkstatic", "fill", "tidy"}
    PROVE  ~Switched' /\ ~Renews' /\ (Switches' => Doing' # "mv")
<1> USE DEF Prepares, Undoes, Switches, Switched, Renews, Activating, Deploys
<1>1. Running /\ Doing = step /\ Advances(c)
  BY DEF Ran
<1>2. ~Running' => ~Activating' /\ ~Deploys'
  BY DEF Running
<1>3. CASE Prepares
  BY <1>1, <1>2, <1>3, Stages DEF Advances, Follows, SameJob, Preparing, Known, Heads
<1>4. CASE Undoes
  BY <1>1, <1>2, <1>4, Stages DEF Advances, Follows, SameJob, Known, Heads
<1>5. CASE Switches
  BY <1>1, <1>2, <1>5, Stages DEF Advances, Follows, SameJob, Known, Heads
<1>6. CASE Switched
  BY <1>1, <1>2, <1>6, Stages DEF Advances, Follows, SameJob, Known, Heads
<1> QED BY <1>1, <1>3, <1>4, <1>5, <1>6, Stages

\* Which scripts take the steps that put something back.
LEMMA BackSteps ==
    ASSUME NEW c, Known(c), Running,
           Doing \in {"rm-release", "rm-build", "current-back", "previous-back", "env-back",
                     "service-back"}
    PROVE  Prepares \/ Undoes
BY Stages DEF Known, Heads, Preparing, Switches, Switched, Activating

\* Every step keeps what a script has established.
LEMMA FactsHold ==
    ASSUME NEW c, Known(c), Facts, DeployFacts(c), HostSteps(c), Known(c)'
    PROVE  Facts'
<1> USE DEF Prepares, Undoes, Switches, Switched, Renews, Activating, Deploys
<1>1. CASE Keeps(c)
  <2>1. PICK step \in Minor : Ran(c, step) /\ SameDisk /\ UNCHANGED <<service, nginx>>
    BY <1>1 DEF Keeps
  <2>2. CASE Prepares \/ Undoes \/ step \in {"build", "cache", "tidy"}
    BY <2>1, <2>2, EarlySteps DEF Facts
  <2>3. CASE ~Prepares /\ ~Undoes /\ step \in {"rm-cache", "rm-build", "done", "prune"}
    <3>1. Running /\ Doing = step /\ Advances(c) /\ (Switches \/ Switched)
      BY <2>1, <2>3, Stages DEF Ran
    <3>2. CASE Switches
      <4>1. Doing = "done"
        BY <2>3, <3>1, <3>2 DEF Known, Heads
      <4>2. ~Running'
        BY <3>1, <3>2, <4>1 DEF Advances, Follows
      <4> QED BY <2>1, <4>2 DEF Facts, Running
    <3>3. CASE Switched
      <4>1. Running' => Switched' /\ Doing' \in {"prune", "tidy"} /\ SameJob
        BY <2>1, <2>3, <3>1, <3>3, Stages DEF Advances, Follows, SameJob, Known, Heads
      <4>2. job.sha = disk.current /\ Switched /\ Doing \in Finishing
        BY <2>3, <3>1, <3>3, Stages DEF Known, Heads, Facts, Finishing
      <4>3. CASE Running'
        <5>1. /\ disk.env = job.sha /\ service.code = job.sha /\ service.name = job.sha
              /\ job.sha \in disk.release /\ nginx.release = job.sha /\ job.sha \in nginx.static
              /\ disk.static[job.sha] # "absent"
          BY <4>2 DEF Facts, Named, Healthy, Fronted
        <5>2. UNCHANGED <<service, nginx>> /\ SameDisk /\ job'.sha = job.sha
          BY <2>1, <4>1, <4>3 DEF SameJob
        <5>3. Switched' /\ ~Switches' /\ Doing' \in {"prune", "tidy"}
          BY <4>1, <4>3
        <5> HIDE DEF Prepares, Undoes, Switches, Switched, Activating, Deploys
        <5>4. ~Renews'
          BY <5>3 DEF Renews
        <5> QED BY <4>2, <5>1, <5>2, <5>3, <5>4 DEF SameDisk, Facts
      <4>4. CASE ~Running'
        BY <2>1, <4>4 DEF Facts, Running
      <4> QED BY <4>3, <4>4
    <3> QED BY <3>1, <3>2, <3>3
  <2> QED BY <2>1, <2>2, <2>3 DEF Minor
<1>2. CASE Publishes(c)
  <2>1. service'.code = None => service'.name = None
    BY <1>2 DEF Publishes, Facts, Host!Started, Host!Target, Host!Stopped, Known, Places,
       DiskType, Host!Link
  <2> QED BY <1>2, <2>1, EarlySteps DEF Publishes, Facts
<1>3. CASE Fills(c)
  <2>1. (Ran(c, "mkstatic") \/ Ran(c, "fill")) /\ UNCHANGED service
    BY <1>3 DEF Fills, Puts
  <2> QED BY <2>1, EarlySteps DEF Facts
<1>4. CASE Links(c)
  <2>1. Ran(c, "ln") /\ UNCHANGED <<service, nginx>>
        /\ disk' = [disk EXCEPT !.next = NewLink]
    BY <1>4 DEF Links, Puts
  <2>2. Running /\ Doing = "ln" /\ Advances(c) /\ Switches
    BY <2>1, Stages DEF Ran, Known, Heads, Preparing
  <2>3. Running' /\ Switches' /\ ~Switched' /\ ~Renews' /\ Doing' = "mv" /\ SameJob
    BY <2>2, Stages DEF Advances, Follows, SameJob, Running
  <2>4. NewLink = job.sha
    BY <2>2, Stages DEF NewLink, DeployFacts, Known, Shape
  <2>5. disk'.next = job'.sha
    BY <2>1, <2>3, <2>4 DEF SameJob, Known, Places, DiskType
  <2> QED BY <2>1, <2>3, <2>5 DEF Facts
<1>5. CASE Moves(c)
  <2>1. Ran(c, "mv") /\ UNCHANGED <<service, nginx>>
        /\ disk' = [disk EXCEPT !.current = disk.next, !.next = None]
    BY <1>5 DEF Moves, Puts
  <2>2. Running /\ Doing = "mv" /\ Advances(c) /\ Switches
    BY <2>1, Stages DEF Ran, Known, Heads, Preparing
  <2>3. Running' /\ Switched' /\ Doing' = (IF Activating THEN "env" ELSE "previous") /\ SameJob
    BY <2>2, Stages DEF Advances, Follows, SameJob, Known, Heads, Running, Preparing
  <2>4. CASE Deploys
    BY <2>1, <2>2, <2>3, <2>4, Stages DEF SameJob, Facts, Named, Healthy, Fronted, Finishing,
       Known, Places, DiskType
  <2>5. CASE Activating
    BY <2>1, <2>2, <2>3, <2>5, Stages DEF SameJob, Facts, Named, Healthy, Fronted, Finishing,
       Known, Places, DiskType
  <2> QED BY <2>2, <2>4, <2>5
<1>6. CASE Remembers(c)
  <2>1. Running /\ Advances(c) /\ UNCHANGED <<checked, left>>
    BY <1>6 DEF Remembers, Puts, Ran
  <2> QED
    BY <1>6, <2>1, Stages DEF Remembers, Puts, Ran, Minor, SameDisk, Advances, Follows, SameJob,
       Facts, Known,
       Heads, Named, Healthy, Fronted, Finishing, Preparing, Places, DiskType, NewLink,
       Host!Started, Host!Target, Host!Stopped, Host!Rendered, Host!HasStatic, Host!Victim
<1>7. CASE Names(c)
  <2>1. Running /\ Advances(c) /\ UNCHANGED <<checked, left>>
    BY <1>7 DEF Names, Puts, Ran
  <2> QED
    BY <1>7, <2>1, Stages DEF Names, Puts, Ran, Minor, SameDisk, Advances, Follows, SameJob,
       Facts, Known,
       Heads, Named, Healthy, Fronted, Finishing, Preparing, Places, DiskType, NewLink,
       Host!Started, Host!Target, Host!Stopped, Host!Rendered, Host!HasStatic, Host!Victim
<1>8. CASE Restarts(c)
  <2>1. Running /\ Advances(c) /\ UNCHANGED <<checked, left>>
    BY <1>8 DEF Restarts, Puts, Ran
  <2> QED
    BY <1>8, <2>1, Stages DEF Restarts, Puts, Ran, Minor, SameDisk, Advances, Follows, SameJob,
       Facts, Known,
       Heads, Named, Healthy, Fronted, Finishing, Preparing, Places, DiskType, NewLink,
       Host!Started, Host!Target, Host!Stopped, Host!Rendered, Host!HasStatic, Host!Victim
<1>9. CASE HearsAnswer(c)
  <2>1. Running /\ Advances(c) /\ UNCHANGED <<checked, left>>
    BY <1>9 DEF HearsAnswer, Puts, Ran
  <2> QED
    BY <1>9, <2>1, Stages DEF HearsAnswer, Puts, Ran, Minor, SameDisk, Advances, Follows, SameJob,
       Facts, Known,
       Heads, Named, Healthy, Fronted, Finishing, Preparing, Places, DiskType, NewLink,
       Host!Started, Host!Target, Host!Stopped, Host!Rendered, Host!HasStatic, Host!Victim
<1>10. CASE Renders(c)
  <2>1. Running /\ Advances(c) /\ UNCHANGED <<checked, left>>
    BY <1>10 DEF Renders, Puts, Ran
  <2> QED
    BY <1>10, <2>1, Stages DEF Renders, Puts, Ran, Minor, SameDisk, Advances, Follows, SameJob,
       Facts, Known,
       Heads, Named, Healthy, Fronted, Finishing, Preparing, Places, DiskType, NewLink,
       Host!Started, Host!Target, Host!Stopped, Host!Rendered, Host!HasStatic, Host!Victim
<1>11. CASE Removes(c)
  <2>1. Ran(c, "rm-release") /\ UNCHANGED service
    BY <1>11 DEF Removes
  <2>2. Prepares \/ Undoes
    BY <2>1, BackSteps DEF Ran
  <2> QED BY <2>1, <2>2, EarlySteps DEF Facts
<1>12. CASE Clears(c)
  <2>1. Ran(c, "rm-static") /\ UNCHANGED <<service, nginx>>
        /\ disk' = [disk EXCEPT !.static[Host(c)!Victim] = "absent"]
    BY <1>12 DEF Clears, Puts
  <2>2. CASE Prepares \/ Undoes
    BY <2>1, <2>2, EarlySteps DEF Facts
  <2>3. CASE ~Prepares /\ ~Undoes
    <3>1. Running /\ Doing = "rm-static" /\ Advances(c) /\ Switched
      BY <2>1, <2>3, Stages DEF Ran, Known, Heads
    <3>2. Running' => Switched' /\ Doing' = "rm-cache" /\ SameJob
      BY <3>1, Stages DEF Advances, Follows, SameJob
    <3>3. Host(c)!Victim # job.sha
      BY <3>1 DEF Host!Victim, Facts
    <3>4. /\ disk'.current = disk.current /\ disk'.next = disk.next /\ disk'.env = disk.env
          /\ disk'.release = disk.release /\ disk'.static[job.sha] = disk.static[job.sha]
      BY <2>1, <3>1, <3>3, Stages DEF Known, Places, DiskType
    <3> QED BY <2>1, <3>1, <3>2, <3>4, Stages DEF SameJob, Facts, Named, Healthy, Fronted,
           Finishing, Running
  <2> QED BY <2>2, <2>3
<1>13. CASE LinksBack(c)
  <2>1. Running /\ Advances(c) /\ UNCHANGED <<checked, left>>
    BY <1>13 DEF LinksBack, Puts, Ran
  <2> QED
    BY <1>13, <2>1, Stages DEF LinksBack, Puts, Ran, Minor, SameDisk, Advances, Follows, SameJob,
       Facts, Known,
       Heads, Named, Healthy, Fronted, Finishing, Preparing, Places, DiskType, NewLink,
       Host!Started, Host!Target, Host!Stopped, Host!Rendered, Host!HasStatic, Host!Victim
<1>14. CASE RemembersBack(c)
  <2>1. Running /\ Advances(c) /\ UNCHANGED <<checked, left>>
    BY <1>14 DEF RemembersBack, Puts, Ran
  <2> QED
    BY <1>14, <2>1, Stages DEF RemembersBack, Puts, Ran, Minor, SameDisk, Advances, Follows,
       SameJob, Facts, Known,
       Heads, Named, Healthy, Fronted, Finishing, Preparing, Places, DiskType, NewLink,
       Host!Started, Host!Target, Host!Stopped, Host!Rendered, Host!HasStatic, Host!Victim
<1>15. CASE NamesBack(c)
  <2>1. Running /\ Advances(c) /\ UNCHANGED <<checked, left>>
    BY <1>15 DEF NamesBack, Puts, Ran
  <2> QED
    BY <1>15, <2>1, Stages DEF NamesBack, Puts, Ran, Minor, SameDisk, Advances, Follows, SameJob,
       Facts, Known,
       Heads, Named, Healthy, Fronted, Finishing, Preparing, Places, DiskType, NewLink,
       Host!Started, Host!Target, Host!Stopped, Host!Rendered, Host!HasStatic, Host!Victim
<1>16. CASE StartsBack(c)
  <2>1. service'.code = None => service'.name = None
    BY <1>16 DEF StartsBack, Facts, Host!Started, Host!Target, Host!Stopped, Known, Places,
       DiskType, Host!Link
  <2>2. Ran(c, "service-back") /\ (Prepares \/ Undoes)
    BY <1>16, BackSteps DEF StartsBack, Ran
  <2> QED BY <2>1, <2>2, EarlySteps DEF Facts
<1>17. CASE Retires(c)
  BY <1>17, Stages, NoneIsNoRelease DEF Retires, Begun, Failed, SameDisk, Facts, Known,
     Heads, Named, Healthy, Fronted, Finishing, Preparing, Places, DiskType,
     Host!Started, Host!Target, Host!Stopped
<1>18. CASE Begins(c)
  BY <1>18, Stages, NoneIsNoRelease DEF Begins, Begun, Failed, SameDisk, Facts, Known,
     Heads, Named, Healthy, Fronted, Finishing, Preparing, Places, DiskType,
     Host!Started, Host!Target, Host!Stopped
<1>19. CASE Looks(c)
  <2>1. UNCHANGED <<disk, service, nginx, job>>
    BY <1>19 DEF Looks
  <2> QED BY <2>1 DEF Facts, Named, Healthy, Fronted, Finishing, Doing
<1>20. CASE Breaks(c)
  <2>1. ~Switched' /\ ~Renews' /\ (Switches' => Doing' # "mv")
    <3>1. Failed(c) /\ Running
      BY <1>20 DEF Breaks
    <3>2. CASE Running'
      BY <3>1, <3>2, Stages DEF Failed
    <3>3. CASE ~Running'
      BY <3>3 DEF Running
    <3> QED BY <3>2, <3>3
  <2>2. UNCHANGED service
    BY <1>20 DEF Breaks
  <2> QED BY <2>1, <2>2 DEF Facts
<1>21. CASE Killing(c)
  <2>1. UNCHANGED <<disk, nginx>> /\ service' \in {service, Host(c)!Started}
    BY <1>21 DEF Killing
  <2>2. service'.code = None => service'.name = None
    BY <2>1 DEF Facts, Host!Started, Host!Target, Host!Stopped, Known, Places, DiskType, Host!Link
  <2>3. CASE ~Running'
    BY <2>2, <2>3 DEF Running, Facts
  <2>4. CASE UNCHANGED job
    <3>1. UNCHANGED <<Switched, Activating, Doing, Renews, Named, Healthy, Fronted>>
      BY <2>4 DEF Doing, Named, Healthy, Fronted
    <3>2. ASSUME Switched, Doing \in Named, job.sha \in disk.release
          PROVE  service' = service \/ (service'.code = job.sha /\ service'.name = job.sha)
      BY <2>1, <3>2, Stages DEF Host!Started, Host!Target, Facts, Running
    <3>3. ASSUME Switched, Doing = "health"
          PROVE  \/ service'.code = None /\ service'.name = None
                 \/ service'.code = job.sha /\ service'.name = job.sha /\ job.sha \in disk.release
      BY <2>1, <3>3, Stages DEF Host!Started, Host!Target, Host!Stopped, Facts, Running, Named
    <3>4. ASSUME Switched, Doing \in Healthy
          PROVE  service'.code = job.sha /\ service'.name = job.sha /\ job.sha \in disk.release
      BY <3>2, <3>4 DEF Facts, Named
    <3> QED BY <2>1, <2>2, <2>4, <3>1, <3>3, <3>4 DEF Facts
  <2> QED BY <1>21, <2>3, <2>4 DEF Killing
<1>22. CASE Ages
  BY <1>22 DEF Ages, SameDisk, Running, Facts
<1> QED
  BY <1>1, <1>2, <1>3, <1>4, <1>5, <1>6, <1>7, <1>8, <1>9, <1>10, <1>11, <1>12, <1>13, <1>14,
     <1>15, <1>16, <1>17, <1>18, <1>19, <1>20, <1>21, <1>22 DEF HostSteps, ScriptSteps

\* The same where releases are deployed.
LEMMA DeployFactsHold ==
    ASSUME NEW c, Known(c), Facts, DeployFacts(c), HostSteps(c), Known(c)'
    PROVE  DeployFacts(c)'
<1> SUFFICES ASSUME "deploy" \in c.kinds PROVE DeployFacts(c)'
  BY DEF DeployFacts
<1>0. left.fails = 0 /\ left.kills = 0
  BY DEF Known, HostSetting, Places
<1> USE DEF Prepares, Undoes, Switches, Switched, Renews, Activating, Deploys
<1>1. CASE ScriptSteps(c)
  <2>1. /\ Running
        /\ Running' => /\ job'.kind = job.kind /\ job'.sha = job.sha /\ job'.failed = job.failed
                       /\ job'.activated = (job.activated \/ Doing = "mv")
    BY <1>1, ScriptRuns
  <2>2. /\ Doing \notin {"ln", "mv"} => disk'.next = disk.next
        /\ Doing = "mv" => disk'.next = None
    BY <1>1, <2>1, Stages DEF ScriptSteps, Keeps, Publishes, Fills, Links, Moves, Remembers, Names,
       Restarts, HearsAnswer, Renders, Removes, Clears, Retires, LinksBack, RemembersBack,
       NamesBack, StartsBack, Puts, Ran, Minor, SameDisk, Known, Places, DiskType
  <2>3. Retires(c) \/ (Ran(c, Doing) /\ Running /\ Advances(c))
    BY <1>1 DEF ScriptSteps, Keeps, Publishes, Fills, Links, Moves, Remembers, Names,
       Restarts, HearsAnswer, Renders, Removes, Clears, LinksBack, RemembersBack,
       NamesBack, StartsBack, Puts, Ran
  <2>4. Doing = "ln" => Switches' /\ Doing' = "mv"
    <3> SUFFICES ASSUME Doing = "ln" PROVE Switches' /\ Doing' = "mv"
      OBVIOUS
    <3>1. Switches /\ ~Retires(c)
      BY <2>1, Stages DEF Known, Heads, Preparing, Retires
    <3> QED BY <2>1, <2>3, <3>1, Stages DEF Advances, Follows, Running
  <2>5. (disk.next # None => Switches /\ Doing = "mv")'
    BY <2>2, <2>4 DEF DeployFacts
  <2>6. ASSUME (Deploys /\ ~job.failed)'
        PROVE  /\ (Doing \notin {"build", "cache", "publish"})' => job.sha \in disk'.release
               /\ (Doing \notin {"build", "cache", "publish", "mkstatic"})' =>
                     disk'.static[job.sha] # "absent"
               /\ (Switched /\ Doing = "health")' => service'.code # None
    <3>1. Running' /\ Deploys /\ ~job.failed /\ (Switches \/ Switched) /\ job.sha \in Built
          /\ ~Prepares /\ ~Undoes
      BY <2>1, <2>6, Stages DEF Running
    <3>2. CASE Retires(c)
      BY <2>1, <3>1, <3>2 DEF Retires, DeployFacts, Known, Places, DiskType
    <3>3. CASE Advances(c)
      <4>1. Follows(c)
        BY <3>1, <3>3 DEF Advances
      <4>3. (Doing \notin {"build", "cache", "publish"})' => Doing \notin {"build", "cache"}
        BY <3>1, <4>1 DEF Follows
      <4>4. (Doing \notin {"build", "cache", "publish", "mkstatic"})' =>
               Doing \notin {"build", "cache", "publish"}
        BY <3>1, <4>1 DEF Follows
      <4>5. Doing \notin {"build", "cache", "publish"} => job.sha \in disk.release
        BY <3>1 DEF DeployFacts
      <4>6. Doing \notin {"build", "cache", "publish", "mkstatic"} =>
               disk.static[job.sha] # "absent"
        BY <3>1 DEF DeployFacts
      <4>7. ~Loses(job.sha)
        BY <3>1 DEF Loses
      <4>8. /\ job.sha \in disk.release => job.sha \in disk'.release
            /\ disk.static[job.sha] # "absent" => disk'.static[job.sha] # "absent"
        BY <3>1, <4>7, ReleaseStays
      <4>9. Doing = "publish" => job.sha \in disk'.release
        BY <1>1, <3>1 DEF ScriptSteps, Keeps, Publishes, Fills, Links, Moves, Remembers,
             Names, Restarts, HearsAnswer, Renders, Removes, Clears, Retires, LinksBack,
             RemembersBack, NamesBack, StartsBack, Puts, Ran, Minor
      <4>10. Doing = "mkstatic" => disk'.static[job.sha] # "absent"
        <5>1. Doing = "mkstatic" => Fills(c)
          BY <1>1 DEF ScriptSteps, Keeps, Publishes, Links, Moves, Remembers,
             Names, Restarts, HearsAnswer, Renders, Removes, Clears, Retires, LinksBack,
             RemembersBack, NamesBack, StartsBack, Puts, Ran, Minor
        <5> QED BY <3>1, <5>1 DEF Fills, Puts, Known, Places, DiskType
      <4>11. (Switched /\ Doing = "health")' => Doing = "restart" /\ Switched
        BY <2>1, <3>1, <4>1 DEF Follows, Known, Heads
      <4>12. Doing = "restart" /\ Switched => service'.code # None
        <5> SUFFICES ASSUME Doing = "restart", Switched PROVE service'.code # None
          OBVIOUS
        <5>1. Restarts(c)
          BY <1>1 DEF ScriptSteps, Keeps, Publishes, Fills, Links, Moves, Remembers,
             Names, HearsAnswer, Renders, Removes, Clears, Retires, LinksBack,
             RemembersBack, NamesBack, StartsBack, Puts, Ran, Minor
        <5>2. disk.current = job.sha /\ job.sha \in disk.release /\ job.sha # None
          BY <2>1, <4>5, Stages DEF Facts
        <5> QED BY <5>1, <5>2 DEF Restarts, Host!Started, Host!Target
      <4> QED
        BY <4>3, <4>4, <4>5, <4>6, <4>7, <4>8, <4>9, <4>10, <4>11, <4>12
    <3> QED BY <2>3, <3>2, <3>3
  <2>7. (Deploys /\ ~job.failed)' => job'.sha = job.sha
    BY <2>1 DEF Running
  <2> QED BY <2>5, <2>6, <2>7 DEF DeployFacts
<1>2. CASE Begins(c)
  <2>1. ~Running /\ UNCHANGED disk
    BY <1>2 DEF Begins
  <2>2. disk'.next = None
    BY <2>1 DEF DeployFacts, Running
  <2>3. Deploys' => Doing' = "build" /\ ~Switched'
    BY <1>2 DEF Begins, Begun
  <2> QED BY <2>2, <2>3 DEF DeployFacts
<1>3. CASE Breaks(c)
  <2>1. /\ Running /\ Failed(c) /\ SameDisk /\ ~(Switches /\ Doing = "mv")
        /\ Deploys => ~job.activated
    BY <1>0, <1>3 DEF Breaks
  <2>2. ~(Deploys /\ ~job.failed)'
    BY <2>1 DEF Failed, Running
  <2> QED BY <2>1, <2>2 DEF SameDisk, DeployFacts
<1>4. CASE Killing(c)
  BY <1>0, <1>4 DEF Killing
<1>5. CASE Looks(c) \/ Ages
  <2>1. /\ UNCHANGED <<job, service>> /\ disk'.next = disk.next
        /\ disk'.release = disk.release /\ disk'.static = disk.static
    BY <1>5 DEF Looks, Ages, SameDisk
  <2> QED BY <2>1 DEF DeployFacts, Doing
<1> QED BY <1>1, <1>2, <1>3, <1>4, <1>5 DEF HostSteps

\* A deployment that has switched has nothing to fail at.
LEMMA DeploymentHolds ==
    ASSUME NEW c, Known(c), Facts, DeployFacts(c), Deploys, Host(c)!Fails
    PROVE  ~job.activated
<1> SUFFICES ASSUME job.activated PROVE FALSE
  OBVIOUS
<1>1. /\ Running /\ Switched /\ ~Activating /\ ~Undoes /\ ~Prepares /\ job # Host(c)!Idle
      /\ "deploy" \in c.kinds /\ job.sha # None
  BY NoneIsNoRelease DEF Host!Fails, Running, Switched, Activating, Undoes, Prepares, Deploys,
     Known, Shape,
     Host!Idle, JobType
<1>2. left.fails = 0 /\ Host(c)!Refused
  BY <1>1 DEF Known, HostSetting, Places, Host!Fails
<1>3. Doing \in {"cache", "ln", "health", "render"}
  BY <1>2 DEF Host!Refused, Host!At, Doing
<1>4. Doing \in {"health", "render"} /\ ~job.failed
  BY <1>1, <1>3 DEF Known, Heads, Switched
<1>5. disk.static[job.sha] # "absent"
  BY <1>1, <1>4 DEF DeployFacts, Deploys
<1>6. Doing = "health" => service # Host(c)!Stopped /\ service.name = job.sha
  BY <1>1 DEF Facts, DeployFacts, Host!Stopped, Deploys
<1> QED
  BY <1>1, <1>2, <1>4, <1>5, <1>6 DEF Host!Refused, Host!At, Doing, Host!Answers,
     Host!HasStatic

\* Without an overlap, what an activation has found complete is so until it is done.
Looked(c) ==
    /\ checked # {} => "activate" \in c.kinds
    /\ ~c.overlap =>
          /\ \A s, t \in checked : Whole(s) /\ s = t
          /\ checked # {} => ~Running
          /\ Activating => Whole(job.sha)

\* No step removes what an activation has found complete, if no script overlaps.
LEMMA LookedHolds ==
    ASSUME NEW c, Known(c), Facts, Looked(c), HostSteps(c), Known(c)',
           checked' # {} => "activate" \in c.kinds
    PROVE  Looked(c)'
<1> SUFFICES ASSUME ~c.overlap
             PROVE  /\ \A s, t \in checked' : Whole(s)' /\ s = t
                    /\ checked' # {} => ~Running'
                    /\ Activating' => Whole(job.sha)'
  BY DEF Looked
<1>1. CASE Running
  <2>1. checked = {} /\ (Activating => Whole(job.sha) /\ job.sha \in Built /\ ~Loses(job.sha))
    BY <1>1, Stages DEF Looked, Loses, Prepares, Activating, Deploys
  <2>3. CASE ScriptSteps(c)
    <3>1. UNCHANGED checked /\ (Activating' => Activating /\ job'.sha = job.sha)
      BY <2>3, ScriptRuns DEF Running, Activating
    <3>2. Activating => job.sha \in disk'.release /\ disk'.static[job.sha] # "absent"
      BY <2>1, <2>3, ReleaseStays DEF HostSteps, Whole
    <3> QED BY <2>1, <3>1, <3>2 DEF Whole
  <2>4. CASE Looks(c)
    <3>1. UNCHANGED <<disk, job>> /\ checked' = {}
      BY <1>1, <2>1, <2>4 DEF Looks
    <3> QED BY <2>1, <3>1 DEF Whole, Activating, Running
  <2>5. CASE Breaks(c)
    BY <2>1, <2>5 DEF Breaks, Failed, SameDisk, Whole, Activating, Running
  <2>6. CASE Killing(c)
    <3>1. UNCHANGED <<disk, checked>> /\ (~Running' \/ UNCHANGED job)
      BY <2>6 DEF Killing
    <3> QED BY <2>1, <3>1 DEF Whole, Activating, Running
  <2> QED BY <1>1, <2>3, <2>4, <2>5, <2>6 DEF HostSteps, Begins, Ages
<1>2. CASE ~Running
  <2>1. CASE Begins(c)
    <3>1. UNCHANGED disk /\ Running'
      BY <2>1 DEF Begins, Begun
    <3>2. checked' = {}
      BY <2>1 DEF Begins, Looked
    <3>3. Activating' => job'.sha \in checked
      BY <2>1 DEF Begins, Begun, Activating
    <3> QED BY <3>1, <3>2, <3>3 DEF Looked, Whole
  <2>2. CASE Looks(c)
    BY <1>2, <2>2 DEF Looks, Looked, Whole, Activating, Running
  <2>3. CASE Killing(c) \/ Ages
    <3>1. UNCHANGED <<checked, job>> /\ disk'.release = disk.release /\ disk'.static = disk.static
      BY <1>2, <2>3 DEF Killing, Ages, SameDisk
    <3> QED BY <1>2, <3>1 DEF Looked, Whole, Activating, Running
  <2> QED BY <1>2, <2>1, <2>2, <2>3, ScriptRuns DEF HostSteps, Breaks
<1> QED BY <1>1, <1>2

\* Nothing was killed; and where that was, no other script took the lock meanwhile.
Unhurt(c) == left.kills = c.kills
Sane(c) == ~c.overlap \/ Unhurt(c)

Unproven == {"env", "restart", "health", "render", "current-back"}
Kept == Finishing \cup (IF Activating THEN {} ELSE {"env", "restart", "health", "render"})
Ending == Switched /\ Doing \in Finishing
Changing == job.kind \in {"activate", "deploy"}
Original == job.kind \in {"stage", "cleanup"} \/ (Deploys /\ ~job.activated)

\* The links lead to whole releases, but for a release that an activation has not
\* found whole yet; and what a failure would put back is whole.
Linked(c) == Sane(c) =>
    /\ disk.previous \in Led
    /\ \/ disk.current \in Led
       \/ c.overlap /\ Activating /\ job.activated /\ Doing \in Unproven
    /\ disk.current = None => disk.previous = None
    /\ Changing => job.current \in Led /\ (job.current = None => disk.previous = None)
    /\ Switched /\ Doing \in Kept => disk.previous = job.current
    /\ Activating => (job.current = None => job.previous = None)
    /\ Activating /\ ~Ending => job.previous \in Led
    /\ Running /\ ~job.activated => disk.current = job.current
    /\ Undoes /\ Doing # "current-back" => disk.current = job.current
    /\ Original => job.sha \notin {disk.current, disk.previous}

\* What is sane after a step was sane before it.
LEMMA SaneStays ==
    ASSUME NEW c, Known(c), HostSteps(c), Sane(c)'
    PROVE  Sane(c) /\ (c.overlap => ~Killing(c))
<1>1. left'.kills = left.kills \/ Killing(c)
  BY ScriptRuns DEF HostSteps, Begins, Looks, Breaks, Ages
<1>2. Killing(c) => left.kills > 0 /\ left'.kills = left.kills - 1
  BY DEF Killing
<1>3. left.kills \in 0..c.kills /\ c.kills \in Nat
  BY DEF Known, HostSetting, Places
<1> QED BY <1>1, <1>2, <1>3 DEF Sane, Unhurt

\* The step on the host that removes what a link leads to does not exist.
LEMMA LinksStay ==
    ASSUME NEW c, Known(c), Facts, Linked(c), Sane(c), HostSteps(c)
    PROVE  /\ disk.previous \in Led'
           /\ disk.current \in Led => disk.current \in Led'
           /\ Changing => job.current \in Led'
           /\ Activating /\ ~Ending => job.previous \in Led'
<1> USE DEF Prepares, Switched, Activating, Deploys, Changing, Original, Ending
<1>1. ASSUME NEW x \in Led, ~Loses(x) PROVE x \in Led'
  BY <1>1, WholeStays DEF Led
<1>2. Switched /\ Doing \in {"prune", "rm-static", "rm-cache"} =>
          disk.current = job.sha /\ disk.previous = job.current
  BY DEF Facts, Linked, Kept, Finishing
<1>3. Prepares => ~job.activated
  BY DEF Known, Shape
<1>4. Prepares => job.sha # disk.previous /\ job.sha # disk.current /\ disk.current = job.current
  BY <1>3 DEF Linked, Running
<1>5. ~Loses(disk.previous) /\ ~Loses(disk.current) /\ ~Loses(job.current)
  BY <1>2, <1>4 DEF Loses
<1>6. Activating /\ ~Ending => ~Loses(job.previous)
  BY DEF Loses, Finishing
<1> QED BY <1>1, <1>5, <1>6 DEF Linked

\* The steps that change no link.
LEMMA LinksKept ==
    ASSUME NEW c, Known(c), ScriptSteps(c), Running,
           Doing \notin {"mv", "previous", "current-back", "previous-back"}
    PROVE  SameLinks
<1>1. CASE Publishes(c) \/ Removes(c) \/ Keeps(c)
  BY <1>1 DEF Publishes, Removes, Keeps, SameDisk, SameLinks
<1>2. CASE Fills(c) \/ Links(c) \/ Names(c) \/ NamesBack(c) \/ Clears(c)
  BY <1>2 DEF Fills, Links, Names, NamesBack, Clears, Puts, SameLinks, Known, Places, DiskType
<1>3. CASE Retires(c)
  BY <1>3 DEF Retires, SameLinks, Known, Places, DiskType
<1>4. CASE Restarts(c) \/ HearsAnswer(c) \/ Renders(c) \/ StartsBack(c)
  BY <1>4 DEF Restarts, HearsAnswer, Renders, StartsBack, SameLinks
<1>5. CASE Moves(c) \/ Remembers(c) \/ LinksBack(c) \/ RemembersBack(c)
  BY <1>5 DEF Moves, Remembers, LinksBack, RemembersBack, Puts, Ran
<1> QED BY <1>1, <1>2, <1>3, <1>4, <1>5 DEF ScriptSteps

\* Where a script goes on to, whether it goes on with its program or prunes.
LEMMA ScriptGoes ==
    ASSUME NEW c, Known(c), ScriptSteps(c), Known(c)'
    PROVE  /\ Running' => /\ Prepares' <=> Prepares
                          /\ Undoes' <=> Undoes
                          /\ Switched' <=> Switched \/ (Switches /\ Doing = "mv")
                          /\ Switched /\ Doing' \in Finishing =>
                                Doing \in Finishing
                                \/ Doing = (IF Activating THEN "previous" ELSE "render")
                          /\ Switched /\ Doing \in Finishing => Doing' \in Finishing
                          /\ Undoes => Doing' # "current-back"
                          /\ Switched /\ Doing \notin Finishing =>
                                /\ Doing = "env" => Doing' = "restart"
                                /\ Doing = "restart" => Doing' = "health"
                                /\ Doing = "health" => Doing' = "render"
           /\ ~Running' => ~(Activating /\ job.activated /\ Doing \in Unproven)
<1> USE DEF Prepares, Undoes, Switches, Switched, Activating, Deploys
<1>1. /\ Running
      /\ Running' => /\ job'.kind = job.kind /\ job'.sha = job.sha
                     /\ job'.failed = job.failed
                     /\ job'.activated <=> (job.activated \/ Doing = "mv")
  BY ScriptRuns, Stages
<1>2. Running' => /\ Prepares' <=> Prepares
                  /\ Undoes' <=> Undoes
                  /\ Switched' <=> Switched \/ (Switches /\ Doing = "mv")
  <2>1. Running' => (Prepares' <=> Prepares)
    BY <1>1
  <2>2. Running' => (Undoes' <=> Undoes)
    BY <1>1
  <2>3. Running' => (Switched' <=> Switched \/ (Switches /\ Doing = "mv"))
    BY <1>1, Stages
  <2> HIDE DEF Prepares, Undoes, Switches, Switched, Activating, Deploys
  <2> QED BY <2>1, <2>2, <2>3
<1>3. CASE Retires(c)
  BY <1>1, <1>2, <1>3, Stages DEF Retires, Finishing
<1>4. CASE Running /\ Advances(c)
  <2>1. ~Running' => Prepares \/ Doing \in {"service-back", "tidy"}
                    \/ (Activating /\ Doing = "prune") \/ (Switches /\ Doing = "done")
    BY <1>4 DEF Advances
  <2>2. ~Running' => ~(Activating /\ job.activated /\ Doing \in Unproven)
    BY <2>1, Stages DEF Unproven
  <2>3. ASSUME Running', Switched
        PROVE  /\ Doing' \in Finishing =>
                      Doing \in Finishing
                      \/ Doing = (IF Activating THEN "previous" ELSE "render")
               /\ Doing \in Finishing => Doing' \in Finishing
               /\ Doing = "env" => Doing' = "restart"
               /\ Doing = "restart" => Doing' = "health"
               /\ Doing = "health" => Doing' = "render"
    BY <1>1, <1>4, <2>3 DEF Advances, Follows, Known, Heads, Finishing
  <2>4. ASSUME Running', Undoes PROVE Doing' # "current-back"
    BY <1>1, <1>4, <2>4 DEF Advances, Follows, Known, Heads
  <2> HIDE DEF Prepares, Undoes, Switches, Switched, Activating, Deploys
  <2> QED BY <1>2, <2>2, <2>3, <2>4
<1>5. Retires(c) \/ (Running /\ Advances(c))
    BY DEF ScriptSteps, Keeps, Publishes, Fills, Links, Moves, Remembers, Names,
       Restarts, HearsAnswer, Renders, Removes, Clears, LinksBack, RemembersBack,
       NamesBack, StartsBack, Puts, Ran
<1> QED BY <1>3, <1>4, <1>5

\* The parts of Linked, from what a step leaves.
LEMMA LinkedHolds ==
    ASSUME NEW c, Known(c), Facts, DeployFacts(c), Looked(c), Linked(c), HostSteps(c), Known(c)'
    PROVE  Linked(c)'
<1> SUFFICES ASSUME Sane(c)' PROVE Linked(c)'
  BY DEF Linked
<1>1. Sane(c) /\ (c.overlap => ~Killing(c))
  BY SaneStays
<1>2. /\ disk.previous \in Led'
      /\ disk.current \in Led => disk.current \in Led'
      /\ Changing => job.current \in Led'
      /\ Activating /\ ~Ending => job.previous \in Led'
  BY <1>1, LinksStay
<1>3. /\ \/ disk.current \in Led
         \/ c.overlap /\ Activating /\ job.activated /\ Doing \in Unproven
      /\ disk.current = None => disk.previous = None
      /\ Changing => (job.current = None => disk.previous = None)
      /\ Switched /\ Doing \in Kept => disk.previous = job.current
      /\ Activating => (job.current = None => job.previous = None)
      /\ Running /\ ~job.activated => disk.current = job.current
      /\ Undoes /\ Doing # "current-back" => disk.current = job.current
      /\ Original => job.sha \notin {disk.current, disk.previous}
  BY <1>1 DEF Linked
<1> DEFINE Links4 == /\ disk'.previous \in Led'
                     /\ \/ disk'.current \in Led'
                        \/ c.overlap /\ Activating' /\ job'.activated /\ Doing' \in Unproven
                     /\ disk'.current = None => disk'.previous = None
\* When no script goes on.
<1>4. ASSUME ~Running', Links4 PROVE Linked(c)'
  <2>1. ~Changing' /\ ~Switched' /\ ~Activating' /\ ~Undoes' /\ ~Original'
    BY <1>4 DEF Running, Changing, Switched, Activating, Undoes, Original, Deploys
  <2>2. /\ disk'.previous \in Led' /\ disk'.current \in Led'
        /\ disk'.current = None => disk'.previous = None
    BY <1>4, <2>1
  <2> HIDE DEF Links4
  <2> QED BY <1>4, <2>1, <2>2 DEF Linked
<1>5. ASSUME Running', Links4,
             job'.kind = job.kind, job'.sha = job.sha, job'.current = job.current,
             job'.previous = job.previous,
             Changing => (job.current = None => disk'.previous = None),
             Switched' /\ Doing' \in Kept' => disk'.previous = job.current,
             Activating /\ ~Ending' => ~Ending,
             ~job'.activated => disk'.current = job.current,
             Undoes' /\ Doing' # "current-back" => disk'.current = job.current,
             Original' => job.sha \notin {disk'.current, disk'.previous}
      PROVE  Linked(c)'
  <2>1. (Changing' <=> Changing) /\ (Activating' <=> Activating)
    BY <1>5 DEF Changing, Activating
  <2> HIDE DEF Links4
  <2>2. Changing' => job'.current \in Led' /\ (job'.current = None => disk'.previous = None)
    BY <1>2, <1>5, <2>1
  <2>3. Activating' => (job'.current = None => job'.previous = None)
    BY <1>3, <1>5, <2>1
  <2>4. Activating' /\ ~Ending' => job'.previous \in Led'
    BY <1>2, <1>5, <2>1
  <2> QED BY <1>5, <2>2, <2>3, <2>4 DEF Linked, Links4
<1> HIDE DEF Links4
<1>6. CASE ScriptSteps(c)
  <2>1. /\ Running
        /\ Running' => /\ job'.kind = job.kind /\ job'.sha = job.sha
                       /\ job'.current = job.current /\ job'.previous = job.previous
                       /\ job'.failed = job.failed
                       /\ job'.activated <=> (job.activated \/ Doing = "mv")
    BY <1>6, ScriptRuns, Stages
  <2>2. /\ Running' => /\ Prepares' <=> Prepares
                       /\ Undoes' <=> Undoes
                       /\ Switched' <=> Switched \/ (Switches /\ Doing = "mv")
                       /\ Switched /\ Doing' \in Finishing =>
                             Doing \in Finishing
                             \/ Doing = (IF Activating THEN "previous" ELSE "render")
                       /\ Switched /\ Doing \in Finishing => Doing' \in Finishing
                       /\ Undoes => Doing' # "current-back"
                       /\ Switched /\ Doing \notin Finishing =>
                             /\ Doing = "env" => Doing' = "restart"
                             /\ Doing = "restart" => Doing' = "health"
                             /\ Doing = "health" => Doing' = "render"
        /\ ~Running' => ~(Activating /\ job.activated /\ Doing \in Unproven)
    BY <1>6, ScriptGoes
  <2>3. Running' => (Activating /\ ~Ending' => ~Ending)
    BY <2>2 DEF Ending
  <2>4. ASSUME Running', Doing # "mv" PROVE Original' => Original
    BY <2>1, <2>4 DEF Original, Deploys
  <2>5. CASE Doing \notin {"mv", "previous", "current-back", "previous-back"}
    <3>1. disk'.current = disk.current /\ disk'.previous = disk.previous
      BY <1>6, <2>1, <2>5, LinksKept DEF SameLinks
    <3>2. ASSUME Activating, job.activated, Doing = "render" PROVE disk.current \in Led
      <4>1. Switched
        BY <2>1, <3>2, Stages DEF Known, Heads, Undoes, Switched, Activating
      <4>2. disk.current = job.sha /\ job.sha \in disk.release
        BY <3>2, <4>1 DEF Facts, Healthy
      <4>3. disk.static[job.sha] # "absent"
        BY <1>6, <3>2 DEF ScriptSteps, Keeps, Publishes, Fills, Links, Moves, Remembers, Names,
           Restarts, HearsAnswer, Renders, Removes, Clears, Retires, LinksBack, RemembersBack,
           NamesBack, StartsBack, Puts, Ran, Minor
      <4> QED BY <2>1, <4>2, <4>3, Stages DEF Led, Whole
    <3>3. Links4
      <4>1. CASE disk.current \in Led
        BY <1>2, <1>3, <3>1, <4>1 DEF Links4
      <4>2. CASE c.overlap /\ Activating /\ job.activated /\ Doing \in Unproven
                 /\ disk.current \notin Led
        <5>1. Running' /\ Doing \in {"env", "restart", "health"} /\ Switched
          BY <2>1, <2>2, <2>5, <3>2, <4>2, Stages DEF Unproven, Known, Heads, Undoes, Switched,
             Activating
        <5>2. Activating' /\ job'.activated /\ Doing' \in Unproven
          BY <2>1, <2>2, <4>2, <5>1 DEF Activating, Unproven, Finishing
        <5> QED BY <1>2, <1>3, <3>1, <4>2, <5>2 DEF Links4
      <4> QED BY <1>3, <4>1, <4>2
    <3>4. ASSUME Running' PROVE Switched' /\ Doing' \in Kept' => Switched /\ Doing \in Kept
      <4> SUFFICES ASSUME Switched', Doing' \in Kept' PROVE Switched /\ Doing \in Kept
        OBVIOUS
      <4>1. Switched /\ (Activating' <=> Activating)
        BY <2>1, <2>2, <2>5, <3>4 DEF Activating
      <4>2. CASE Doing' \in Finishing
        BY <2>2, <2>5, <3>4, <4>1, <4>2 DEF Kept
      <4>3. CASE ~Activating /\ Doing' \in {"env", "restart", "health", "render"}
        <5>1. Doing \notin Finishing
          BY <2>2, <3>4, <4>1, <4>3 DEF Finishing
        <5>2. Doing \in {"env", "restart", "health", "render"}
          BY <2>1, <2>5, <4>1, <5>1 DEF Known, Heads, Finishing
        <5> QED BY <4>1, <4>3, <5>2 DEF Kept
      <4> QED BY <4>1, <4>2, <4>3 DEF Kept
    <3>5. CASE ~Running'
      BY <1>4, <3>3, <3>5
    <3>6. CASE Running'
      BY <1>3, <1>5, <2>1, <2>2, <2>3, <2>4, <2>5, <3>1, <3>3, <3>4, <3>6
    <3> QED BY <3>5, <3>6
  <2>6. CASE Doing = "mv"
    <3>1. Switches
      BY <2>1, <2>6, Stages DEF Known, Heads, Preparing
    <3>2. Moves(c)
      BY <1>6, <2>6 DEF ScriptSteps, Keeps, Publishes, Fills, Links, Remembers, Names,
         Restarts, HearsAnswer, Renders, Removes, Clears, Retires, LinksBack, RemembersBack,
         NamesBack, StartsBack, Puts, Ran, Minor
    <3>3. disk' = [disk EXCEPT !.current = job.sha, !.next = None]
      BY <2>6, <3>1, <3>2 DEF Moves, Puts, Facts
    <3>4. /\ disk'.current = job.sha /\ disk'.previous = disk.previous
          /\ disk'.release = disk.release /\ disk'.static = disk.static
      BY <3>3 DEF Known, Places, DiskType
    <3>5. Running' /\ Switched' /\ Doing' = (IF Activating THEN "env" ELSE "previous")
      <4>1. Advances(c) /\ ~Prepares
        BY <3>1, <3>2 DEF Moves, Puts, Ran, Prepares, Switches, Deploys
      <4>2. Running'
        BY <2>6, <4>1 DEF Advances
      <4>3. Follows(c)
        BY <4>1, <4>2 DEF Advances
      <4> QED BY <2>2, <2>6, <3>1, <4>2, <4>3 DEF Follows
    <3>6. job.sha \in Built /\ job.sha # None
      BY <2>1, Stages
    <3>7. ~c.overlap => Whole(job.sha)
      <4>1. CASE Activating
        BY <4>1 DEF Looked
      <4>2. CASE Deploys
        BY <2>6, <3>1, <4>2 DEF DeployFacts, Switches, Deploys, Known, Shape, Running, Whole
      <4> QED BY <3>1, <4>1, <4>2 DEF Switches, Activating, Deploys
    <3>8. Deploys => ~c.overlap
      BY <2>1 DEF Deploys, Known, Shape, HostSetting
    <3>9. Links4
      <4>1. CASE c.overlap
        BY <1>2, <2>1, <2>6, <3>1, <3>4, <3>5, <3>6, <3>8, <4>1 DEF Links4, Unproven,
           Activating, Switches, Deploys
      <4>2. CASE ~c.overlap
        BY <1>2, <3>4, <3>6, <3>7, <4>2 DEF Links4, Led, Whole
      <4> QED BY <4>1, <4>2
    <3>10. ~(Switched' /\ Doing' \in Kept')
      BY <2>1, <3>5 DEF Kept, Finishing, Activating
    <3>11. ~Undoes' /\ ~Original' /\ job'.activated
      BY <3>5 DEF Undoes, Original, Switched, Deploys
    <3> QED
      BY <1>3, <1>5, <2>1, <2>3, <3>4, <3>5, <3>9, <3>10, <3>11
  <2>7. CASE Doing = "previous"
    <3>1. Switched
      BY <2>1, <2>7, Stages DEF Known, Heads, Preparing
    <3>2. Remembers(c)
      BY <1>6, <2>7 DEF ScriptSteps, Keeps, Publishes, Fills, Links, Moves, Names,
         Restarts, HearsAnswer, Renders, Removes, Clears, Retires, LinksBack, RemembersBack,
         NamesBack, StartsBack, Puts, Ran, Minor
    <3>3. /\ disk'.current = disk.current
          /\ disk'.previous = (IF job.current = None THEN disk.previous ELSE job.current)
      BY <3>2 DEF Remembers, Puts, Known, Places, DiskType
    <3>4. Changing /\ job.activated /\ ~Undoes /\ disk.current # None
      BY <2>1, <3>1, Stages DEF Switched, Changing, Undoes, Facts
    <3>5. disk'.previous = job.current
      BY <1>3, <3>3, <3>4
    <3>6. Running' /\ job'.activated /\ ~Undoes' /\ ~Original'
      <4>1. Running'
        BY <2>7, <3>1, <3>2 DEF Remembers, Puts, Ran, Advances, Prepares, Switched, Switches,
           Deploys
      <4> QED BY <2>1, <2>2, <3>1, <3>4, <4>1 DEF Original, Switched, Deploys
    <3>7. Links4
      BY <1>2, <1>3, <2>7, <3>3, <3>4, <3>5 DEF Links4, Unproven
    <3> QED
      BY <1>3, <1>5, <2>1, <2>3, <3>4, <3>5, <3>6, <3>7
  <2>8. CASE Doing = "current-back"
    <3>1. Undoes /\ Activating /\ job.activated
      BY <2>1, <2>8, Stages DEF Known, Heads, Preparing, Undoes, Switches, Switched, Activating
    <3>2. LinksBack(c)
      BY <1>6, <2>8 DEF ScriptSteps, Keeps, Publishes, Fills, Links, Moves, Remembers, Names,
         Restarts, HearsAnswer, Renders, Removes, Clears, Retires, RemembersBack,
         NamesBack, StartsBack, Puts, Ran, Minor
    <3>3. disk'.current = job.current /\ disk'.previous = disk.previous
      BY <3>1, <3>2 DEF LinksBack, Puts, Known, Places, DiskType
    <3>4. Running' /\ job'.activated /\ ~Switched' /\ ~Original'
      <4>1. Running'
        BY <2>8, <3>1, <3>2 DEF LinksBack, Puts, Ran, Advances, Prepares, Undoes, Switches,
           Deploys, Activating
      <4> QED BY <2>1, <3>1, <4>1 DEF Original, Switched, Deploys, Undoes, Activating
    <3>5. Changing
      BY <3>1 DEF Changing, Activating
    <3>6. Links4
      BY <1>2, <1>3, <3>3, <3>5 DEF Links4
    <3> QED
      BY <1>3, <1>5, <2>1, <2>3, <3>1, <3>3, <3>4, <3>5, <3>6
  <2>9. CASE Doing = "previous-back"
    <3>1. Undoes /\ Activating /\ ~Switched
      BY <2>1, <2>9, Stages DEF Known, Heads, Preparing, Undoes, Switches, Switched, Activating
    <3>2. RemembersBack(c)
      BY <1>6, <2>9 DEF ScriptSteps, Keeps, Publishes, Fills, Links, Moves, Remembers, Names,
         Restarts, HearsAnswer, Renders, Removes, Clears, Retires, LinksBack,
         NamesBack, StartsBack, Puts, Ran, Minor
    <3>3. disk'.current = disk.current /\ disk'.previous = job.previous
      BY <3>2 DEF RemembersBack, Puts, Known, Places, DiskType
    <3>4. Changing /\ ~Ending /\ disk.current = job.current
      BY <1>3, <2>9, <3>1 DEF Changing, Activating, Ending
    <3>5. Running' /\ ~Switched' /\ ~Original'
      <4>1. Running'
        BY <2>9, <3>1, <3>2 DEF RemembersBack, Puts, Ran, Advances, Prepares, Undoes, Switches,
           Deploys, Activating
      <4> QED BY <2>1, <3>1, <4>1 DEF Original, Switched, Deploys, Undoes, Activating
    <3>6. Links4
      BY <1>2, <1>3, <3>1, <3>3, <3>4 DEF Links4
    <3> QED
      BY <1>3, <1>5, <2>1, <2>3, <3>1, <3>3, <3>4, <3>5, <3>6
  <2> QED BY <2>5, <2>6, <2>7, <2>8, <2>9
<1>7. CASE Begins(c)
  <2>1. ~Running /\ UNCHANGED disk /\ Running' /\ ~job'.activated /\ ~job'.failed
    BY <1>7 DEF Begins, Begun
  <2>2. disk.current \in Led /\ disk.previous \in Led
    BY <1>1, <2>1 DEF Linked, Running, Activating
  <2>3. Led' = Led
    BY <2>1 DEF Led, Whole
  <2>4. job'.current = disk.current /\ job'.previous = disk.previous
    BY <1>7, <2>2 DEF Begins, Host!Target, Led, Whole
  <2>5. Original' => job'.sha \notin {disk.current, disk.previous}
    <3>1. PICK k \in c.kinds, s \in Built, t \in {"again", "first"} :
             /\ Begun(c, k, t) /\ job'.sha = s
             /\ \/ k \in {"stage", "deploy"} /\ s \notin disk.release
                \/ k = "cleanup" /\ s \notin {Host(c)!Target(disk.current),
                                               Host(c)!Target(disk.previous)}
                \/ k = "activate"
      BY <1>7 DEF Begins
    <3>2. Original' => k # "activate"
      BY <3>1 DEF Begun, Original, Deploys
    <3>3. s # None
      BY NoneIsNoRelease
    <3> QED BY <2>2, <3>1, <3>2, <3>3 DEF Host!Target, Led, Whole
  <2>6. ~Switched' /\ ~Undoes' /\ ~Ending'
    BY <2>1 DEF Switched, Undoes, Ending
  <2> QED BY <1>3, <2>1, <2>2, <2>3, <2>4, <2>5, <2>6 DEF Linked
<1>8. CASE Looks(c) \/ Ages
  <2>1. UNCHANGED job /\ disk'.current = disk.current /\ disk'.previous = disk.previous
        /\ disk'.release = disk.release /\ disk'.static = disk.static
    BY <1>8 DEF Looks, Ages, SameDisk
  <2>2. Led' = Led
    BY <2>1 DEF Led, Whole
  <2>3. UNCHANGED <<Changing, Switched, Activating, Ending, Running, Undoes, Original, Kept, Doing>>
    BY <2>1 DEF Changing, Switched, Activating, Ending, Running, Undoes, Original, Kept, Doing,
       Deploys
  <2> QED BY <1>1, <2>1, <2>2, <2>3 DEF Linked
<1>9. CASE Breaks(c)
  <2>1. /\ Running /\ ~job.failed /\ Doing \notin {"done", "tidy"} /\ Failed(c)
        /\ disk'.current = disk.current /\ disk'.previous = disk.previous
    BY <1>9 DEF Breaks, SameDisk
  <2>2. CASE Running'
    <3>1. /\ job'.failed /\ job'.kind = job.kind /\ job'.sha = job.sha
          /\ job'.current = job.current /\ job'.previous = job.previous
          /\ job'.activated = job.activated
          /\ Activating => Doing' = (IF job.activated THEN "current-back" ELSE "previous-back")
          /\ Switched => Doing \notin {"prune", "rm-static", "rm-cache"}
      BY <2>1, <2>2 DEF Failed
    <3>2. ~Switched' /\ (Undoes' /\ Doing' # "current-back" => ~job.activated)
      BY <3>1 DEF Switched, Undoes, Activating
    <3>3. Activating => ~Ending
      BY <2>1, <3>1 DEF Ending, Finishing
    <3>4. Original' => Original
      BY <3>1 DEF Original, Deploys
    <3>5. Links4
      BY <1>2, <1>3, <2>1, <3>1 DEF Links4, Unproven, Activating
    <3> QED BY <1>3, <1>5, <2>1, <2>2, <3>1, <3>2, <3>3, <3>4, <3>5
  <2>3. CASE ~Running'
    <3>1. ~(Activating /\ job.activated /\ Doing \in Unproven)
      BY <2>1, <2>3 DEF Failed, Unproven, Activating
    <3> QED BY <1>2, <1>3, <1>4, <2>1, <2>3, <3>1 DEF Links4
  <2> QED BY <2>2, <2>3
<1>10. CASE Killing(c)
  <2>1. ~c.overlap /\ UNCHANGED disk /\ (~Running' \/ UNCHANGED job)
    BY <1>1, <1>10 DEF Killing
  <2>2. Links4
    BY <1>2, <1>3, <2>1 DEF Links4
  <2>3. CASE ~Running'
    BY <1>4, <2>2, <2>3
  <2>4. CASE UNCHANGED job
    <3>1. UNCHANGED <<Changing, Switched, Activating, Ending, Running, Undoes, Original, Kept,
    Doing>>
      BY <2>4 DEF Changing, Switched, Activating, Ending, Running, Undoes, Original, Kept, Doing,
         Deploys
    <3>2. Led' = Led
      BY <2>1 DEF Led, Whole
    <3> QED BY <1>1, <2>1, <2>4, <3>1, <3>2 DEF Linked
  <2> QED BY <2>1, <2>3, <2>4
<1> QED BY <1>6, <1>7, <1>8, <1>9, <1>10 DEF HostSteps

\* What runs is x, under its own name and behind its own files.
Behind(x) ==
    IF x = None THEN service.code = None /\ service.name = None
    ELSE service.code = x /\ service.name = x /\ nginx.release = x /\ x \in nginx.static

Steady == Behind(disk.current) /\ (disk.current # None => disk.env = disk.current)

\* Nothing has changed yet, or it has been put back.
Unchanging == ~Running \/ (~job.activated /\ ~Undoes)

\* While nothing was killed.
Consistent(c) == Unhurt(c) =>
    /\ service.code = service.name
    /\ Unchanging => Steady
    /\ Switched /\ Doing \in {"previous", "env", "restart"} \ Fronted => Behind(job.current)
    /\ Undoes /\ Doing = "service-back" => (job.current # None => disk.env = job.current)

\* What was not killed after a step was not before it.
LEMMA UnhurtStays ==
    ASSUME NEW c, Known(c), HostSteps(c), Unhurt(c)'
    PROVE  Unhurt(c) /\ ~Killing(c)
<1>1. left'.kills = left.kills \/ Killing(c)
  BY ScriptRuns DEF HostSteps, Begins, Looks, Breaks, Ages
<1>2. Killing(c) => left.kills > 0 /\ left'.kills = left.kills - 1
  BY DEF Killing
<1>3. left.kills \in 0..c.kills /\ c.kills \in Nat
  BY DEF Known, HostSetting, Places
<1> QED BY <1>1, <1>2, <1>3 DEF Unhurt

\* Once a script has rendered the configuration, what runs is the current release.
LEMMA FrontIs ==
    ASSUME NEW c, Known(c), Running, Facts, Switched, Doing \in Fronted PROVE Steady
<1>1. disk.current = job.sha /\ disk.env = job.sha /\ service.code = job.sha
      /\ service.name = job.sha /\ nginx.release = job.sha /\ job.sha \in nginx.static
  BY DEF Facts, Named, Healthy
<1>2. job.sha # None
  BY Stages
<1> QED BY <1>1, <1>2 DEF Steady, Behind

\* The steps that change neither the service nor what it should be.
LEMMA SteadyKept ==
    ASSUME NEW c, Known(c), ScriptSteps(c), Running,
           Doing \notin {"mv", "env", "restart", "render", "current-back", "env-back",
                         "service-back"}
    PROVE  disk'.current = disk.current /\ disk'.env = disk.env /\ UNCHANGED <<service, nginx>>
<1>1. CASE Publishes(c) \/ Removes(c) \/ Keeps(c)
  BY <1>1 DEF Publishes, Removes, Keeps, SameDisk
<1>2. CASE Fills(c) \/ Links(c) \/ Remembers(c) \/ RemembersBack(c) \/ Clears(c)
  BY <1>2 DEF Fills, Links, Remembers, RemembersBack, Clears, Puts, Known, Places, DiskType
<1>3. CASE Retires(c)
  BY <1>3 DEF Retires, Known, Places, DiskType
<1>4. CASE HearsAnswer(c)
  BY <1>4 DEF HearsAnswer
<1>5. CASE Moves(c) \/ Names(c) \/ NamesBack(c) \/ LinksBack(c) \/ Restarts(c) \/ Renders(c)
           \/ StartsBack(c)
  BY <1>5 DEF Moves, Names, NamesBack, LinksBack, Restarts, Renders, StartsBack, Puts, Ran
<1> QED BY <1>1, <1>2, <1>3, <1>4, <1>5 DEF ScriptSteps

\* Every step keeps what runs consistent, and what a failure would put back.
LEMMA ConsistentHolds ==
    ASSUME NEW c, Known(c), Facts, DeployFacts(c), Linked(c), Consistent(c), HostSteps(c),
           Known(c)'
    PROVE  Consistent(c)'
<1> SUFFICES ASSUME Unhurt(c)' PROVE Consistent(c)'
  BY DEF Consistent
<1>1. Unhurt(c) /\ ~Killing(c) /\ Sane(c)
  BY UnhurtStays DEF Sane
<1>2. /\ service.code = service.name
      /\ Unchanging => Steady
      /\ Switched /\ Doing \in {"previous", "env", "restart"} \ Fronted => Behind(job.current)
      /\ Undoes /\ Doing = "service-back" => (job.current # None => disk.env = job.current)
  BY <1>1 DEF Consistent
<1>3. /\ Running /\ ~job.activated => disk.current = job.current
      /\ Undoes /\ Doing # "current-back" => disk.current = job.current
      /\ Changing => job.current \in Led
  BY <1>1 DEF Linked
<1>4. ASSUME disk'.current = disk.current, disk'.env = disk.env, UNCHANGED <<service, nginx>>
      PROVE  (Steady' <=> Steady) /\ \A x : Behind(x)' <=> Behind(x)
  BY <1>4 DEF Steady, Behind
<1>5. CASE ScriptSteps(c)
  <2>1. /\ Running
        /\ Running' => /\ job'.kind = job.kind /\ job'.sha = job.sha
                       /\ job'.current = job.current /\ job'.previous = job.previous
                       /\ job'.failed = job.failed
                       /\ job'.activated <=> (job.activated \/ Doing = "mv")
    BY <1>5, ScriptRuns, Stages
  <2>2. Running' => /\ Prepares' <=> Prepares
                    /\ Undoes' <=> Undoes
                    /\ Switched' <=> Switched \/ (Switches /\ Doing = "mv")
    BY <1>5, ScriptGoes
  <2>3. Retires(c) \/ (Running /\ Advances(c) /\ Ran(c, Doing))
    BY <1>5 DEF ScriptSteps, Keeps, Publishes, Fills, Links, Moves, Remembers, Names,
       Restarts, HearsAnswer, Renders, Removes, Clears, LinksBack, RemembersBack,
       NamesBack, StartsBack, Puts, Ran
  <2>4. CASE Doing \notin {"mv", "env", "restart", "render", "current-back", "env-back",
                           "service-back"}
    <3>1. disk'.current = disk.current /\ disk'.env = disk.env /\ UNCHANGED <<service, nginx>>
      BY <1>5, <2>1, <2>4, SteadyKept
    <3>2. (Steady' <=> Steady) /\ \A x : Behind(x)' <=> Behind(x)
      BY <1>4, <3>1
    <3>3. Unchanging' => Steady
      <4>1. CASE Running'
        BY <1>2, <2>1, <2>2, <2>4, <4>1 DEF Unchanging
      <4>2. CASE ~Running'
        <5>1. Prepares \/ Doing = "tidy" \/ (Activating /\ Doing = "prune")
              \/ (Switches /\ Doing = "done")
          BY <2>3, <2>4, <4>2 DEF Advances, Retires
        <5>2. Prepares \/ Switches \/ (Switched /\ Doing \in Fronted)
          BY <2>1, <5>1, Stages DEF Known, Heads, Fronted, Finishing
        <5>3. Prepares \/ Switches => Unchanging
          BY DEF Prepares, Switches, Unchanging, Undoes, Known, Shape, Deploys, Activating
        <5> QED BY <1>2, <2>1, <5>2, <5>3, FrontIs
      <4> QED BY <4>1, <4>2
    <3>4. Switched' /\ Doing' \in {"previous", "env", "restart"} \ Fronted' => Behind(job.current)
      <4> SUFFICES ASSUME Switched', Doing' \in {"previous", "env", "restart"} \ Fronted'
                   PROVE  Behind(job.current)
        OBVIOUS
      <4>1. Running' /\ Switched
        BY <2>2, <2>4 DEF Switched, Running
      <4>2. ~Activating /\ Doing = "previous"
        BY <2>1, <2>3, <2>4, <4>1 DEF Retires, Advances, Follows, Known, Heads, Fronted, Activating,
           Finishing
      <4> QED BY <1>2, <4>1, <4>2 DEF Fronted, Finishing
    <3>5. ~(Undoes' /\ Doing' = "service-back")
      <4> SUFFICES ASSUME Undoes', Doing' = "service-back" PROVE FALSE
        OBVIOUS
      <4>1. Running' /\ Undoes
        BY <2>2 DEF Undoes, Running, Activating
      <4>2. Doing \in {"current-back", "previous-back", "env-back", "service-back"} /\ Follows(c)
        BY <2>1, <2>3, <4>1 DEF Retires, Advances, Known, Heads, Switched, Undoes
      <4> QED BY <2>4, <4>1, <4>2 DEF Follows
    <3>6. Switched' => job'.current = job.current
      BY <2>1 DEF Switched, Running
    <3> QED BY <1>2, <3>1, <3>2, <3>3, <3>4, <3>5, <3>6 DEF Consistent
  \* The steps of a script that is switching.
  <2>5. CASE Doing \in {"mv", "env", "restart"} \/ (Doing = "render" /\ Switched)
    <3>1. /\ Running' /\ Switched' /\ Follows(c) /\ ~Undoes
          /\ (Doing = "mv" => Switches) /\ (Doing # "mv" => Switched)
      <4>1. Switches \/ Switched
        BY <2>1, <2>5, Stages DEF Known, Heads, Preparing
      <4>2. ~Prepares /\ ~Undoes /\ ~Retires(c)
        BY <2>5, <4>1 DEF Prepares, Undoes, Switches, Switched, Activating, Deploys, Retires
      <4>3. Running'
        BY <2>3, <2>5, <4>2 DEF Advances
      <4>4. Switches => Doing \notin {"env", "restart", "render"}
        BY <2>1, <2>5, <4>1 DEF Known, Heads, Switches, Switched
      <4>5. Doing = "mv" => Switches
        BY <2>1, <4>1 DEF Known, Heads
      <4> QED BY <2>2, <2>3, <2>5, <4>1, <4>2, <4>3, <4>4, <4>5 DEF Advances
    <3>2. ~Unchanging' /\ ~Undoes'
      BY <2>2, <3>1 DEF Unchanging, Switched, Undoes
    <3>3. CASE Doing \in {"mv", "env"}
      <4>1. UNCHANGED <<service, nginx>>
        BY <1>5, <3>3 DEF ScriptSteps, Keeps, Publishes, Fills, Links, Moves, Remembers,
         Names, Restarts, HearsAnswer, Renders, Removes, Clears, Retires, LinksBack, RemembersBack,
         NamesBack, StartsBack, Puts, Ran, Minor
      <4>2. Behind(job.current)' <=> Behind(job.current)
        BY <2>1, <3>1, <4>1 DEF Behind
      <4>3. Behind(job.current)
        <5>1. CASE Doing = "mv"
          <6>1. ~job.activated /\ Unchanging
            BY <3>1, <5>1 DEF Unchanging, Switches
          <6> QED BY <1>2, <1>3, <2>1, <6>1 DEF Steady
        <5>2. CASE Doing = "env"
          BY <1>2, <3>1, <5>2 DEF Fronted, Finishing
        <5> QED BY <3>3, <5>1, <5>2
      <4>4. service'.code = service'.name
        BY <1>2, <4>1
      <4> QED BY <3>2, <4>2, <4>3, <4>4 DEF Consistent
    <3>4. CASE Doing = "restart"
      <4>1. Restarts(c)
        BY <1>5, <3>4 DEF ScriptSteps, Keeps, Publishes, Fills, Links, Moves, Remembers,
         Names, HearsAnswer, Renders, Removes, Clears, Retires, LinksBack, RemembersBack,
         NamesBack, StartsBack, Puts, Ran, Minor
      <4>2. disk.current = job.sha /\ disk.env = job.sha
        BY <3>1, <3>4 DEF Facts, Named
      <4>3. service'.code = service'.name
        BY <4>1, <4>2 DEF Restarts, Host!Started, Host!Stopped
      <4>4. Doing' = "health"
        BY <3>1, <3>4 DEF Follows
      <4> QED BY <3>2, <4>3, <4>4 DEF Consistent
    <3>5. CASE Doing = "render"
      <4>1. UNCHANGED service
        BY <1>5, <3>5 DEF ScriptSteps, Keeps, Publishes, Fills, Links, Moves, Remembers,
         Names, Restarts, HearsAnswer, Renders, Removes, Clears, Retires, LinksBack, RemembersBack,
         NamesBack, StartsBack, Puts, Ran, Minor
      <4>2. Doing' \notin {"previous", "env", "restart"} \ Fronted'
        BY <2>1, <3>1, <3>5 DEF Follows, Fronted, Finishing, Activating
      <4> QED BY <1>2, <3>2, <4>1, <4>2 DEF Consistent
    <3> QED BY <2>5, <3>3, <3>4, <3>5
  \* An activation of what is active.
  <2>6. CASE Doing = "render" /\ ~Switched
    <3>1. Renews
      BY <2>1, <2>6, Stages DEF Known, Heads, Preparing, Renews, Switches, Activating
    <3>2. Renders(c)
      BY <1>5, <2>6 DEF ScriptSteps, Keeps, Publishes, Fills, Links, Moves, Remembers,
         Names, Restarts, HearsAnswer, Removes, Clears, Retires, LinksBack, RemembersBack,
         NamesBack, StartsBack, Puts, Ran, Minor
    <3>3. disk.current = job.sha /\ job.sha # None /\ job.sha \in Built
      BY <2>1, <3>1, Stages DEF Facts
    <3>4. UNCHANGED <<disk, service>> /\ nginx'.release = job.sha /\ job.sha \in nginx'.static
      BY <3>2, <3>3 DEF Renders, Host!Rendered, Host!HasStatic
    <3>5. Unchanging
      BY <3>1 DEF Renews, Switches, Unchanging, Undoes
    <3>6. Steady'
      BY <1>2, <3>3, <3>4, <3>5 DEF Steady, Behind
    <3>7. ~Switched' /\ ~Undoes'
      BY <2>2, <2>6, <3>5, <3>1 DEF Switched, Undoes, Renews, Switches, Running, Activating
    <3> QED BY <1>2, <3>4, <3>6, <3>7 DEF Consistent
  \* The steps of a script that puts back what was.
  <2>7. CASE Doing \in {"current-back", "env-back", "service-back"}
    <3>1. Undoes /\ Changing /\ Activating
      BY <2>1, <2>7, Stages DEF Known, Heads, Preparing, Undoes, Changing, Activating
    <3>2. ~Retires(c) /\ Advances(c) /\ ~Prepares /\ ~Switches
      BY <2>3, <2>7, <3>1 DEF Retires, Prepares, Switches, Undoes, Activating, Deploys
    <3>3. CASE Doing \in {"current-back", "env-back"}
      <4>1. Running' /\ Undoes' /\ ~Switched' /\ Follows(c)
        BY <2>2, <3>1, <3>2, <3>3 DEF Advances, Undoes, Switched
      <4>2. UNCHANGED <<service, nginx>>
        BY <1>5, <3>3 DEF ScriptSteps, Keeps, Publishes, Fills, Links, Moves, Remembers,
         Names, Restarts, HearsAnswer, Renders, Removes, Clears, Retires, LinksBack, RemembersBack,
         NamesBack, StartsBack, Puts, Ran, Minor
      <4>3. ~Unchanging'
        BY <4>1 DEF Unchanging
      <4>4. Doing' = "service-back" => disk'.env = job.current
        <5>1. Doing' = "service-back" => Doing = "env-back"
          BY <3>1, <3>3, <4>1 DEF Follows
        <5>2. Doing = "env-back" => NamesBack(c)
          BY <1>5 DEF ScriptSteps, Keeps, Publishes, Fills, Links, Moves, Remembers,
         Names, Restarts, HearsAnswer, Renders, Removes, Clears, Retires, LinksBack, RemembersBack,
         StartsBack, Puts, Ran, Minor
        <5>3. NamesBack(c) => disk'.env = job.current
          BY DEF NamesBack, Puts, Known, Places, DiskType
        <5> QED BY <5>1, <5>2, <5>3
      <4> QED BY <1>2, <2>1, <4>1, <4>2, <4>3, <4>4 DEF Consistent
    <3>4. CASE Doing = "service-back"
      <4>1. ~Running'
        BY <2>7, <3>1, <3>2, <3>4 DEF Advances, Follows
      <4>2. StartsBack(c)
        BY <1>5, <3>4 DEF ScriptSteps, Keeps, Publishes, Fills, Links, Moves, Remembers,
         Names, Restarts, HearsAnswer, Renders, Removes, Clears, Retires, LinksBack, RemembersBack,
         NamesBack, Puts, Ran, Minor
      <4>3. disk.current = job.current /\ job.current \in Led
        BY <1>3, <3>1, <3>4
      <4>4. UNCHANGED disk
        BY <4>2 DEF StartsBack
      <4>5. CASE job.current = None
        <5>1. service'.code = None /\ service'.name = None
          BY <4>2, <4>5 DEF StartsBack, Host!Stopped
        <5> QED BY <4>1, <4>3, <4>4, <4>5, <5>1 DEF Consistent, Steady, Behind, Switched, Undoes,
               Activating, Running
      <4>6. CASE job.current # None
        <5>1. disk.env = job.current /\ Whole(job.current) /\ job.current \in Built
          BY <1>2, <3>1, <3>4, <4>3, <4>6 DEF Led
        <5>2. service'.code = job.current /\ service'.name = job.current
          BY <4>2, <4>3, <4>6, <5>1 DEF StartsBack, Host!Started, Host!Target, Whole
        <5>3. nginx'.release = job.current /\ job.current \in nginx'.static
          BY <4>2, <4>6, <5>1 DEF StartsBack, Host!Rendered, Host!HasStatic, Whole
        <5> QED BY <4>1, <4>3, <4>4, <4>6, <5>1, <5>2, <5>3 DEF Consistent, Steady, Behind,
               Switched, Undoes, Activating, Running
      <4> QED BY <4>5, <4>6
    <3> QED BY <2>7, <3>3, <3>4
  <2> QED BY <2>4, <2>5, <2>6, <2>7
<1>6. CASE Begins(c)
  <2>1. ~Running /\ UNCHANGED <<disk, service, nginx>> /\ ~job'.activated /\ ~job'.failed
    BY <1>6 DEF Begins, Begun
  <2>2. Steady' /\ Unchanging
    BY <1>2, <1>4, <2>1 DEF Unchanging
  <2>3. ~Switched' /\ ~Undoes'
    BY <2>1 DEF Switched, Undoes
  <2> QED BY <1>2, <2>1, <2>2, <2>3 DEF Consistent
<1>7. CASE Looks(c) \/ Ages
  <2>1. disk'.current = disk.current /\ disk'.env = disk.env /\ UNCHANGED <<service, nginx, job>>
    BY <1>7 DEF Looks, Ages, SameDisk
  <2>2. UNCHANGED <<Switched, Undoes, Unchanging, Fronted, Doing>>
    BY <2>1 DEF Switched, Undoes, Unchanging, Fronted, Doing, Activating, Running
  <2>3. (Steady' <=> Steady) /\ (Behind(job.current)' <=> Behind(job.current))
    BY <1>4, <2>1 DEF Behind
  <2> QED BY <1>2, <2>1, <2>2, <2>3 DEF Consistent
<1>8. CASE Breaks(c)
  <2>1. /\ Running /\ ~job.failed /\ Doing \notin {"done", "tidy"} /\ Failed(c)
        /\ (Deploys => ~job.activated)
        /\ disk'.current = disk.current /\ disk'.env = disk.env /\ UNCHANGED <<service, nginx>>
    BY <1>8 DEF Breaks, SameDisk
  <2>2. Steady' <=> Steady
    BY <1>4, <2>1
  <2>3. CASE Running'
    <3>1. /\ job'.failed /\ job'.kind = job.kind /\ job'.activated = job.activated
          /\ Activating => Doing' \in {"current-back", "previous-back"}
      BY <2>1, <2>3 DEF Failed
    <3>2. ~Switched' /\ (Undoes' => Doing' # "service-back")
      BY <3>1 DEF Switched, Undoes, Activating
    <3>3. Unchanging' => Unchanging
      BY <2>1, <2>3, <3>1, Stages DEF Unchanging, Undoes, Activating
    <3> QED BY <1>2, <2>1, <2>2, <3>2, <3>3 DEF Consistent
  <2>4. CASE ~Running'
    <3>1. ~Switched' /\ ~Undoes'
      BY <2>4 DEF Running, Switched, Undoes, Activating
    <3>2. job.kind = "cleanup" \/ (~job.activated /\ Doing = "build")
          \/ (Switched /\ Doing \in {"prune", "rm-static", "rm-cache"})
      BY <2>1, <2>4 DEF Failed
    <3>3. CASE job.kind = "cleanup" \/ ~job.activated
      <4>1. Unchanging
        BY <2>1, <3>3 DEF Unchanging, Undoes, Activating, Known, Shape, Prepares
      <4> QED BY <1>2, <2>1, <2>2, <3>1, <4>1 DEF Consistent
    <3>4. CASE Switched /\ Doing \in {"prune", "rm-static", "rm-cache"}
      <4>1. Steady
        BY <2>1, <3>4, FrontIs DEF Fronted, Finishing
      <4> QED BY <1>2, <2>1, <2>2, <3>1, <4>1 DEF Consistent
    <3> QED BY <3>2, <3>3, <3>4
  <2> QED BY <2>3, <2>4
<1> QED BY <1>1, <1>5, <1>6, <1>7, <1>8 DEF HostSteps

Midway == Activating /\ (job.activated \/ job.failed)

\* After one death, a service that answers with the active release's name runs it,
\* but while an activation is under way.
NameTells(c) ==
    c.kills <= 1 /\ ~Unhurt(c) /\ ~Midway =>
        (service.code # None /\ service.name = disk.current => service.code = disk.current)

\* So an activation of what is active already, that has heard the name, is served.
Told(c) ==
    c.kills <= 1 => (Renews /\ Doing = "done" => service.code = job.sha /\ service.name = job.sha)

\* Every step keeps the name that the service answers with telling.
LEMMA NameTellsHolds ==
    ASSUME NEW c, Known(c), Facts, Consistent(c), NameTells(c), HostSteps(c), Known(c)'
    PROVE  NameTells(c)'
<1> SUFFICES ASSUME c.kills <= 1, ~Unhurt(c)', ~Midway', service'.code # None,
                    service'.name = disk'.current
             PROVE  service'.code = disk'.current
  BY DEF NameTells
<1>1. service' = Host(c)!Started /\ disk'.current = disk.current
      => service'.code = disk'.current
  BY DEF Host!Started, Host!Stopped
<1>2. CASE Killing(c)
  <2>1. UNCHANGED disk /\ service' \in {service, Host(c)!Started}
        /\ (service' = Host(c)!Started \/ ~Running')
    BY <1>2 DEF Killing
  <2>2. CASE service' = Host(c)!Started
    BY <1>1, <2>1, <2>2
  <2>3. CASE service' = service
    <3>1. Unhurt(c)
      <4>1. left.kills > 0 /\ left.kills \in 0..c.kills /\ c.kills \in Nat
        BY <1>2 DEF Killing, Known, HostSetting, Places
      <4> QED BY <4>1 DEF Unhurt
    <3> QED BY <2>1, <2>3, <3>1 DEF Consistent
  <2> QED BY <2>1, <2>2, <2>3
<1>3. CASE ~Killing(c)
  <2>1. ~Unhurt(c)
    BY <1>3, ScriptRuns DEF HostSteps, Begins, Looks, Breaks, Ages, Unhurt
  <2>2. ~Deploys
    BY <2>1 DEF Deploys, Known, Shape, HostSetting, Running, Unhurt, Places
  <2>3. ~Midway => (service.code # None /\ service.name = disk.current
                     => service.code = disk.current)
    BY <2>1 DEF NameTells
  <2>4. CASE ScriptSteps(c)
    <3>1. /\ Running
          /\ Running' => /\ job'.kind = job.kind /\ job'.failed = job.failed
                         /\ job'.activated <=> (job.activated \/ Doing = "mv")
      BY <2>4, ScriptRuns, Stages
    <3>2. Retires(c) \/ Advances(c)
      BY <2>4 DEF ScriptSteps, Keeps, Publishes, Fills, Links, Moves, Remembers, Names,
         Restarts, HearsAnswer, Renders, Removes, Clears, LinksBack, RemembersBack,
         NamesBack, StartsBack, Puts, Ran
    <3>3. CASE Midway
      <4>1. ~Running'
        BY <3>1, <3>3 DEF Midway, Activating
      <4>2. ~Prepares /\ ~Switches /\ ~Retires(c)
        BY <2>2, <3>3, <4>1 DEF Midway, Activating, Prepares, Switches, Retires
      <4>3. Doing = "service-back" \/ (Switched /\ Doing = "prune")
        BY <3>1, <3>2, <3>3, <4>1, <4>2, Stages DEF Advances, Known, Heads, Midway, Undoes,
           Activating
      <4>4. CASE Doing = "service-back"
        <5>1. StartsBack(c)
          BY <2>4, <4>4 DEF ScriptSteps, Keeps, Publishes, Fills, Links, Moves, Remembers,
             Names, Restarts, HearsAnswer, Renders, Removes, Clears, Retires, LinksBack,
             RemembersBack, NamesBack, Puts, Ran, Minor
        <5> QED BY <1>1, <5>1 DEF StartsBack, Host!Stopped
      <4>5. CASE Switched /\ Doing = "prune"
        <5>1. disk'.current = disk.current /\ UNCHANGED service
          BY <2>4, <3>1, <4>5, SteadyKept
        <5> QED BY <4>5, <5>1 DEF Facts, Healthy, Fronted, Finishing
      <4> QED BY <4>3, <4>4, <4>5
    <3>4. CASE ~Midway
      <4>1. Prepares \/ (Activating /\ Switches)
        BY <2>2, <3>1, <3>4, Stages DEF Midway, Prepares, Undoes, Switches, Switched, Activating,
           Deploys
      <4>2. Doing # "mv"
        <5>1. CASE Doing = "mv"
          <6>1. Moves(c)
            BY <2>4, <5>1 DEF ScriptSteps, Keeps, Publishes, Fills, Links, Remembers,
               Names, Restarts, HearsAnswer, Renders, Removes, Clears, Retires, LinksBack,
               RemembersBack, NamesBack, StartsBack, Puts, Ran, Minor
          <6>2. Switches /\ Activating /\ ~Prepares
            BY <3>1, <4>1, <5>1 DEF Known, Heads, Preparing, Activating, Prepares, Deploys
          <6>3. Running'
            BY <5>1, <6>1, <6>2 DEF Moves, Puts, Ran, Advances
          <6> QED BY <3>1, <5>1, <6>2, <6>3 DEF Midway, Activating
        <5> QED BY <5>1
      <4>3. disk'.current = disk.current /\ UNCHANGED service
        <5>1. CASE Doing = "render"
          BY <2>4, <5>1 DEF ScriptSteps, Keeps, Publishes, Fills, Links, Moves, Remembers,
             Names, Restarts, HearsAnswer, Renders, Removes, Clears, Retires, LinksBack,
             RemembersBack, NamesBack, StartsBack, Puts, Ran, Minor
        <5>2. CASE Doing # "render"
          <6>1. Doing \notin {"env", "restart", "current-back", "env-back", "service-back"}
            BY <3>1, <4>1 DEF Known, Heads, Preparing
          <6> QED BY <2>4, <3>1, <4>2, <5>2, <6>1, SteadyKept
        <5> QED BY <5>1, <5>2
      <4> QED BY <2>3, <3>4, <4>3
    <3> QED BY <3>3, <3>4
  <2>5. CASE Begins(c)
    BY <2>3, <2>5 DEF Begins, Midway, Activating, Running
  <2>6. CASE Looks(c) \/ Ages
    BY <2>3, <2>6 DEF Looks, Ages, SameDisk, Midway, Activating
  <2>7. CASE Breaks(c)
    <3>1. /\ Running /\ ~job.failed /\ Doing # "done" /\ Failed(c) /\ disk'.current = disk.current
          /\ UNCHANGED service
      BY <2>7 DEF Breaks, SameDisk
    <3>2. CASE ~Midway
      BY <2>3, <3>1, <3>2
    <3>3. CASE Midway
      <4>1. ~Running'
        BY <3>1, <3>3 DEF Failed, Midway, Activating
      <4>2. Switched /\ Doing \in {"prune", "rm-static", "rm-cache"}
        BY <3>1, <3>3, <4>1 DEF Failed, Midway, Activating
      <4> QED BY <3>1, <4>2 DEF Facts, Healthy, Fronted, Finishing
    <3> QED BY <3>2, <3>3
  <2> QED BY <1>3, <2>4, <2>5, <2>6, <2>7 DEF HostSteps
<1> QED BY <1>2, <1>3

\* So the health check of such an activation tells what runs.
LEMMA ToldHolds ==
    ASSUME NEW c, Known(c), Facts, Consistent(c), NameTells(c), Told(c), HostSteps(c), Known(c)',
           Facts'
    PROVE  Told(c)'
<1> SUFFICES ASSUME c.kills <= 1, Renews', Doing' = "done"
             PROVE  service'.code = job'.sha /\ service'.name = job'.sha
  BY DEF Told
<1>0. Switches' /\ Running' /\ ~job'.failed /\ ~job'.activated /\ Activating'
  BY DEF Renews, Switches, Running
<1>1. CASE ScriptSteps(c)
  <2>1. /\ Running /\ job'.sha = job.sha /\ Renews /\ Doing = "health"
    <3>1. /\ Running /\ job'.kind = job.kind /\ job'.sha = job.sha /\ job'.failed = job.failed
          /\ job'.activated <=> (job.activated \/ Doing = "mv")
      BY <1>0, <1>1, ScriptRuns, Stages
    <3>2. Switches /\ Activating
      BY <1>0, <3>1 DEF Switches, Activating
    <3>3. Advances(c)
      BY <1>1, <3>2 DEF ScriptSteps, Keeps, Publishes, Fills, Links, Moves, Remembers, Names,
         Restarts, HearsAnswer, Renders, Removes, Clears, Retires, LinksBack, RemembersBack,
         NamesBack, StartsBack, Puts, Ran, Switches, Switched
    <3>4. Follows(c) /\ Doing \in {"ln", "mv", "render", "health", "done"}
      BY <1>0, <3>1, <3>2, <3>3 DEF Advances, Known, Heads
    <3>5. Doing = "health"
      BY <3>2, <3>4 DEF Follows
    <3> QED BY <3>1, <3>2, <3>5 DEF Renews
  <2>2. HearsAnswer(c)
    BY <1>1, <2>1 DEF ScriptSteps, Keeps, Publishes, Fills, Links, Moves, Remembers, Names,
       Restarts, Renders, Removes, Clears, Retires, LinksBack, RemembersBack,
       NamesBack, StartsBack, Puts, Ran, Minor
  <2>3. UNCHANGED service /\ service.name = job.sha /\ disk.current = job.sha /\ service.code # None
    BY <2>1, <2>2, Stages DEF HearsAnswer, Facts
  <2>4. ~Midway
    BY <2>1 DEF Midway, Renews, Switches
  <2>5. service.code = job.sha
    BY <2>3, <2>4 DEF Consistent, NameTells
  <2> QED BY <2>1, <2>3, <2>5
<1>2. CASE Begins(c)
  BY <1>0, <1>2 DEF Begins, Begun, Activating
<1>3. CASE Breaks(c)
  BY <1>0, <1>3 DEF Breaks, Failed
<1>4. CASE Looks(c) \/ Ages
  BY <1>4 DEF Looks, Ages, Told, Renews, Switches, Activating, Doing
<1>5. CASE Killing(c)
  <2>1. UNCHANGED <<job, disk>> /\ service' = Host(c)!Started
    BY <1>0, <1>5 DEF Killing
  <2>2. Renews /\ Doing = "done" /\ Running
    BY <1>0, <2>1 DEF Renews, Switches, Activating, Doing, Running
  <2>3. Unhurt(c)
    <3>1. left.kills > 0 /\ left.kills \in 0..c.kills /\ c.kills \in Nat
      BY <1>5 DEF Killing, Known, HostSetting, Places
    <3> QED BY <3>1 DEF Unhurt
  <2>4. Unchanging
    BY <2>2 DEF Unchanging, Renews, Switches, Undoes
  <2>5. disk.current = job.sha /\ job.sha \in disk.release /\ job.sha # None
    BY <2>2, Stages DEF Facts
  <2>6. disk.env = job.sha
    BY <2>3, <2>4, <2>5 DEF Consistent, Steady
  <2> QED BY <2>1, <2>5, <2>6 DEF Host!Started, Host!Target
<1> QED BY <1>1, <1>2, <1>3, <1>4, <1>5 DEF HostSteps

\* What every state of the host satisfies.
HostInv(c) ==
    /\ Places(c) /\ job \in JobType(c) /\ Shape(c)
    /\ Facts /\ DeployFacts(c) /\ Looked(c) /\ Linked(c)
    /\ Consistent(c) /\ NameTells(c) /\ Told(c)

\* It holds at the start.
LEMMA HostStarts ==
    ASSUME NEW c, HostSetting(c), Host(c)!Init PROVE HostInv(c)
<1>1. /\ disk.current = None /\ disk.previous = None /\ disk.next = None /\ disk.env = None
      /\ service.code = None /\ service.name = None /\ checked = {} /\ left.kills = c.kills
      /\ job = Host(c)!Idle
  BY DEF Host!Init, Host!Stopped
<1>2. Places(c)
  BY DEF Host!Init, Places, DiskType, HostSetting, Host!Link, Host!Stopped
<1>3. ~Running /\ Shape(c) /\ job \in JobType(c)
  <2>1. job.kind = "idle" /\ ~Running
    BY <1>1 DEF Host!Idle, Running
  <2>2. job \in JobType(c)
    BY <1>1, EmptySeq DEF JobType, Host!Idle, Host!Link
  <2> QED BY <1>1, <2>1, <2>2 DEF Shape, Prepares, Undoes, Activating, Deploys, Running
<1>4. ~Prepares /\ ~Undoes /\ ~Switches /\ ~Switched /\ ~Activating /\ ~Deploys /\ ~Renews
      /\ ~Changing /\ ~Original
  BY <1>3 DEF Prepares, Undoes, Switches, Switched, Activating, Deploys, Renews, Running,
     Changing, Original
<1>5. Facts /\ DeployFacts(c) /\ Looked(c)
  BY <1>1, <1>4 DEF Facts, DeployFacts, Looked
<1>6. Linked(c)
  BY <1>1, <1>3, <1>4 DEF Linked, Led
<1>7. Consistent(c) /\ NameTells(c) /\ Told(c)
  BY <1>1, <1>4 DEF Consistent, Steady, Behind, NameTells, Told
<1> QED BY <1>2, <1>3, <1>5, <1>6, <1>7 DEF HostInv

\* Every step on the host keeps it.
LEMMA HostGoes ==
    ASSUME NEW c, HostSetting(c), HostInv(c), Host(c)!Next PROVE HostInv(c)'
<1>1. Known(c)
  BY KnownIs DEF HostInv
<1>2. Deploys /\ Host(c)!Fails => ~job.activated
  BY <1>1, DeploymentHolds DEF HostInv
<1>3. /\ HostSteps(c) /\ Places(c)' /\ job' \in JobType(c) /\ Shape(c)'
      /\ checked' # {} => "activate" \in c.kinds
  BY <1>2, HostStepsHold DEF HostInv, Looked
<1>4. Known(c)'
  <2>1. HostSetting(c)' /\ (job \in JobType(c))'
    BY <1>3 DEF HostSetting, JobType, Host!Kind, Host!Link, Host!Step
  <2> QED BY <1>3, <2>1, KnownIs, PTL
<1>5. Facts'
  BY <1>1, <1>3, <1>4, FactsHold DEF HostInv
<1>6. DeployFacts(c)'
  BY <1>1, <1>3, <1>4, DeployFactsHold DEF HostInv
<1>7. Looked(c)'
  BY <1>1, <1>3, <1>4, LookedHolds DEF HostInv
<1>8. Linked(c)'
  BY <1>1, <1>3, <1>4, LinkedHolds DEF HostInv
<1>9. Consistent(c)'
  BY <1>1, <1>3, <1>4, ConsistentHolds DEF HostInv
<1>10. NameTells(c)'
  BY <1>1, <1>3, <1>4, NameTellsHolds DEF HostInv
<1>11. Told(c)'
  BY <1>1, <1>3, <1>4, <1>5, ToldHolds DEF HostInv
<1> QED BY <1>3, <1>5, <1>6, <1>7, <1>8, <1>9, <1>10, <1>11 DEF HostInv

\* It depends on nothing but the host's own variables.
LEMMA HostStutters ==
    ASSUME NEW c, HostInv(c), UNCHANGED hostVars PROVE HostInv(c)'
<1>1. UNCHANGED <<disk, service, nginx, job, checked, left>>
  BY DEF hostVars
<1>2. UNCHANGED <<Running, Doing, Activating, Deploys, Prepares, Undoes, Switches, Switched,
                  Renews, Led, Ending, Changing, Original, Kept, Fronted, Healthy, Named, Steady,
                  Unchanging, Midway>>
  BY <1>1 DEF Running, Doing, Activating, Deploys, Prepares, Undoes, Switches, Switched, Renews,
     Led, Ending, Changing, Original, Kept, Fronted, Healthy, Named, Steady, Unchanging, Midway,
     Whole, Behind
<1>3. Places(c)' /\ Shape(c)' /\ (job \in JobType(c))'
  BY <1>1, SameShape DEF HostInv, Places, DiskType, JobType
<1>4. Facts' /\ DeployFacts(c)' /\ Looked(c)'
  BY <1>1, <1>2 DEF HostInv, Facts, DeployFacts, Looked, Whole
<1>5. Linked(c)'
  BY <1>1, <1>2 DEF HostInv, Linked, Sane, Unhurt
<1>6. Consistent(c)' /\ NameTells(c)' /\ Told(c)'
  BY <1>1, <1>2 DEF HostInv, Consistent, NameTells, Told, Unhurt, Behind
<1> QED BY <1>3, <1>4, <1>5, <1>6 DEF HostInv

-----------------------------------------------------------------------------
(* What follows for the host.                                              *)

\* The types, and that a script has a program exactly while it runs.
LEMMA HostTypes ==
    ASSUME NEW c, HostSetting(c), HostInv(c) PROVE Host(c)!TypeOK
<1>1. job = Host(c)!Idle <=> job.todo = <<>>
  <2>1. Known(c)
    BY KnownIs DEF HostInv
  <2>2. Running => job.todo # <<>> /\ job # Host(c)!Idle
    BY <2>1, IdleHolds DEF Known, Heads
  <2>3. ~Running => job = Host(c)!Idle /\ job.todo = <<>>
    BY <2>1 DEF Known, Shape, Host!Idle
  <2> QED BY <2>2, <2>3
<1> QED BY <1>1 DEF HostInv, Places, DiskType, JobType, Host!TypeOK

\* Where no script takes the lock between a check and the lock, the links lead.
LEMMA HostLinks ==
    ASSUME NEW c, HostSetting(c), HostInv(c), ~c.overlap PROVE Host(c)!LinksLead
BY DEF HostInv, Linked, Sane, Led, Whole, Host!LinksLead, Host!Complete, Host!HasStatic

\* Where nothing was killed, what settles is consistent.
LEMMA HostSettles ==
    ASSUME NEW c, HostSetting(c), HostInv(c), c.kills = 0 PROVE Host(c)!SettledIsConsistent
<1>1. Unhurt(c)
  BY DEF HostInv, Places, Unhurt
<1>2. SUFFICES ASSUME job = Host(c)!Idle
               PROVE  IF disk.current = None THEN service = Host(c)!Stopped
                      ELSE /\ service = [code |-> disk.current, name |-> disk.current]
                           /\ nginx.release = disk.current /\ disk.current \in nginx.static
  BY DEF Host!SettledIsConsistent
<1>3. Steady
  BY <1>1, <1>2 DEF HostInv, Consistent, Unchanging, Running, Host!Idle
<1> QED BY <1>3 DEF HostInv, Places, Steady, Behind, Host!Stopped

\* Where at most one thing was killed, a success is served.
LEMMA HostServes ==
    ASSUME NEW c, HostSetting(c), HostInv(c), c.kills <= 1 PROVE Host(c)!Serves
<1>1. SUFFICES ASSUME Host(c)!At("done")
               PROVE  /\ disk.current = job.sha /\ service = [code |-> job.sha, name |-> job.sha]
                      /\ nginx.release = job.sha
  BY DEF Host!Serves
<1>2. Known(c)
  BY KnownIs DEF HostInv
<1>3. Running /\ Doing = "done"
  BY <1>1, AtIs DEF HostInv
<1>4. service \in [code : Host(c)!Link, name : Host(c)!Link]
  BY DEF HostInv, Places
<1>5. CASE Switched
  BY <1>3, <1>4, <1>5 DEF HostInv, Facts, Healthy, Fronted, Finishing
<1>6. CASE ~Switched
  <2>1. Renews
    BY <1>2, <1>3, <1>6, Stages DEF Known, Heads, Preparing, Renews, Switches, Activating
  <2> QED BY <1>3, <1>4, <2>1 DEF HostInv, Facts, Told
<1> QED BY <1>5, <1>6

-----------------------------------------------------------------------------
(* The host in MCRelease.                                                   *)

HostRunsInv ==
    /\ part = "killed" => HostInv(Killed)
    /\ part = "meeting" => HostInv(Meeting)
    /\ part = "deploying" => HostInv(Deploying)

\* The settings of the runs are among those that HostSetting admits.
LEMMA HostSettingsAreSettings ==
    HostSetting(Killed) /\ HostSetting(Meeting) /\ HostSetting(Deploying)
BY DEF HostSetting, Killed, Meeting, Deploying

\* The host's invariant in the runs holds at the start.
LEMMA HostRunsInit == Init => HostRunsInv
BY HostStarts, HostSettingsAreSettings DEF Init, HostRunsInv

\* Every step keeps it, those of the workflow because they leave the host alone.
LEMMA HostRunsNext == HostRunsInv /\ [Next]_vars => HostRunsInv'
<1>. SUFFICES ASSUME HostRunsInv, [Next]_vars PROVE HostRunsInv'
  OBVIOUS
<1>1. CASE RunNext \/ UNCHANGED vars
  <2>1. UNCHANGED <<part, hostVars>>
    BY <1>1 DEF RunNext, vars
  <2> QED BY <2>1, HostStutters DEF HostRunsInv
<1>2. CASE HostNext
  <2>1. CASE part = "killed"
    BY <1>2, <2>1, HostGoes, HostSettingsAreSettings DEF HostNext, HostRunsInv
  <2>2. CASE part = "meeting"
    BY <1>2, <2>2, HostGoes, HostSettingsAreSettings DEF HostNext, HostRunsInv
  <2>3. CASE part = "deploying"
    BY <1>2, <2>3, HostGoes, HostSettingsAreSettings DEF HostNext, HostRunsInv
  <2> QED BY <1>2, <2>1, <2>2, <2>3 DEF HostNext
<1> QED BY <1>1, <1>2 DEF Next

\* So the runs keep it.
LEMMA HostRunsHold == Spec => []HostRunsInv
BY HostRunsInit, HostRunsNext, PTL DEF Spec

\* Every part keeps its types, the empty program of an idle host included.
THEOREM TypeOKHolds == Spec => []TypeOK
<1>1. RunsInv /\ HostRunsInv => TypeOK
  BY HostTypes, HostSettingsAreSettings DEF RunsInv, HostRunsInv, TypeOK, WorkflowInv
<1> QED BY <1>1, RunsHold, HostRunsHold, PTL

\* Whatever dies or fails, /current and /previous lead to releases that are there
\* with their static files (activate-release.sh, cleanup-release.sh).
THEOREM LinksLeadHolds == Spec => []LinksLead
<1>1. HostRunsInv => LinksLead
  <2>. SUFFICES ASSUME HostRunsInv, part \in {"killed", "deploying"}
                PROVE  Host(Killed)!LinksLead
    BY DEF LinksLead
  <2>1. CASE part = "killed"
    BY <2>1, HostLinks, HostSettingsAreSettings DEF HostRunsInv, Killed
  <2>2. CASE part = "deploying"
    <3>1. Host(Deploying)!LinksLead
      BY <2>2, HostLinks, HostSettingsAreSettings DEF HostRunsInv, Deploying
    <3> QED BY <3>1 DEF Host!LinksLead, Host!Complete, Host!HasStatic
  <2> QED BY <2>1, <2>2
<1> QED BY <1>1, HostRunsHold, PTL

\* When no script runs and none was killed, what runs is the current release under
\* its own name and behind its own files (restore_previous).
THEOREM SettledIsConsistentHolds == Spec => []SettledIsConsistent
<1>1. HostRunsInv => SettledIsConsistent
  <2>. SUFFICES ASSUME HostRunsInv, part \in {"meeting", "deploying"}
                PROVE  Host(Killed)!SettledIsConsistent
    BY DEF SettledIsConsistent
  <2>1. CASE part = "meeting"
    <3>1. Host(Meeting)!SettledIsConsistent
      BY <2>1, HostSettles, HostSettingsAreSettings DEF HostRunsInv, Meeting
    <3> QED BY <3>1 DEF Host!SettledIsConsistent, Host!Idle, Host!Stopped
  <2>2. CASE part = "deploying"
    <3>1. Host(Deploying)!SettledIsConsistent
      BY <2>2, HostSettles, HostSettingsAreSettings DEF HostRunsInv, Deploying
    <3> QED BY <3>1 DEF Host!SettledIsConsistent, Host!Idle, Host!Stopped
  <2> QED BY <2>1, <2>2
<1> QED BY <1>1, HostRunsHold, PTL

\* A script that reports success serves its release, though one script before it
\* died between any two of its steps (the health check of activate-release.sh).
THEOREM SuccessIsServedHolds == Spec => SuccessIsServed
<1>1. HostRunsInv => (OnHost => Host(Killed)!Serves)
  <2>. SUFFICES ASSUME HostRunsInv, OnHost PROVE Host(Killed)!Serves
    OBVIOUS
  <2>1. CASE part = "killed"
    <3>1. Killed.kills <= 1
      BY DEF Killed
    <3> QED BY <2>1, <3>1, HostServes, HostSettingsAreSettings DEF HostRunsInv
  <2>2. CASE part = "meeting"
    <3>1. Meeting.kills <= 1
      BY DEF Meeting
    <3>2. Host(Meeting)!Serves
      BY <2>2, <3>1, HostServes, HostSettingsAreSettings DEF HostRunsInv
    <3> QED BY <3>2 DEF Host!Serves, Host!At, Host!Idle
  <2>3. CASE part = "deploying"
    <3>1. Deploying.kills <= 1
      BY DEF Deploying
    <3>2. Host(Deploying)!Serves
      BY <2>3, <3>1, HostServes, HostSettingsAreSettings DEF HostRunsInv
    <3> QED BY <3>2 DEF Host!Serves, Host!At, Host!Idle
  <2> QED BY <2>1, <2>2, <2>3 DEF OnHost, HostParts
<1> QED BY <1>1, HostRunsHold, PTL DEF SuccessIsServed
=============================================================================
