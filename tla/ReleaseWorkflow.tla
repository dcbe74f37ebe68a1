-------------------------- MODULE ReleaseWorkflow --------------------------
(***************************************************************************)
(* A release to production: .github/workflows/release-web.yml, with the    *)
(* two EdgeOne rule snapshots of ops/release/edgeone-mode.mjs and the       *)
(* promotion gate of ops/release/check-promotion-state.mjs.  One run at a  *)
(* time takes a commit of main, moves the public route to all-Vercel,      *)
(* stages the release on the Tencent host, promotes it on Vercel (which    *)
(* goes on after the CLI gave up), activates it on the host (which goes on *)
(* after the connection dropped) and splits the route again when it was    *)
(* told to.  Its EXIT trap undoes what a failed run did to the host and to *)
(* the route; a run that is killed undoes nothing.                         *)
(* The host is what ReleaseHost promises of it: a release that is          *)
(* activated is served, a failed activation is undone.                     *)
(***************************************************************************)
EXTENDS Naturals

CONSTANTS
    MaxSha,         \* bound on commits: 1..MaxSha, in the order main takes them
    DocsOnly,       \* commits that change nothing the release serves
    Ordered,        \* does CI complete in the order of the commits?
    OtherEvents,    \* does CI complete for other branches and for failures?
    Modes,          \* how releases are started: a subset of Mode
    MaxDispatches,  \* bound on releases that are started by hand
    MaxFaults       \* bound on commands that fail and runs that are killed

Sha == 0..MaxSha
Mode == {"canary", "cutover", "maintenance"}

VARIABLES
    main,      \* the head of main
    ci,        \* commits whose CI has not completed
    waiting,   \* the run that waits in the concurrency group
    run,       \* the run in progress
    route,     \* the EdgeOne rule: "split" when it is enabled
    vercel,    \* what the production alias serves, the last alias operation, those in flight
    host,      \* the Tencent host, and the activation that outlived its connection
    left       \* what may still happen

vars == <<main, ci, waiting, run, route, vercel, host, left>>

NoRun == [pc |-> "idle", sha |-> 0, mode |-> "automatic", changed |-> FALSE,
          activated |-> FALSE, ssh |-> FALSE, ended |-> "success"]

Pc == {"idle", "main", "gate", "prior", "candidate", "again", "all-vercel", "stage", "verify",
       "promote", "observe", "confirm", "converge", "activate", "health", "split", "edge",
       "purge", "cleanup", "restore"}

Event == [sha : Sha, mode : Mode \cup {"automatic", "none", "other"}]
Nothing == [sha |-> 0, mode |-> "none"]

TypeOK ==
    /\ main \in Sha /\ ci \subseteq Sha
    /\ waiting \in Event
    /\ run \in [pc : Pc, sha : Sha, mode : Mode \cup {"automatic"}, changed : BOOLEAN,
                activated : BOOLEAN, ssh : BOOLEAN,
                ended : {"success", "failed", "critical", "killed"}]
    /\ route \in {"vercel", "split"}
    /\ vercel \in [alias : Sha, last : Sha, state : {"succeeded", "pending", "failed"},
                   flying : SUBSET Sha]
    /\ host \in [live : Sha, previous : Sha, staged : SUBSET Sha, busy : Sha]
    /\ left \in [dispatches : 0..MaxDispatches, faults : 0..MaxFaults]

Init ==
    /\ main = 0 /\ ci = {} /\ waiting = Nothing /\ run = NoRun
    /\ route \in {"vercel", "split"}
    /\ vercel = [alias |-> 0, last |-> 0, state |-> "succeeded", flying |-> {}]
    /\ host = [live |-> 0, previous |-> 0, staged |-> {}, busy |-> 0]
    /\ left = [dispatches |-> MaxDispatches, faults |-> MaxFaults]

-----------------------------------------------------------------------------
(* Commits, CI, and the queue of one.                                      *)

Push ==
    /\ main < MaxSha
    /\ main' = main + 1 /\ ci' = ci \cup {main + 1}
    /\ UNCHANGED <<waiting, run, route, vercel, host, left>>

\* A new run of the group takes the place of the one that waits.
CiCompletes(s) ==
    /\ s \in ci /\ (Ordered => \A t \in ci : s <= t)
    /\ ci' = ci \ {s} /\ waiting' = [sha |-> s, mode |-> "automatic"]
    /\ UNCHANGED <<main, run, route, vercel, host, left>>

\* The job's condition turns it away, but only once its turn comes.
OtherCompletes ==
    /\ OtherEvents /\ waiting' = [sha |-> 0, mode |-> "other"]
    /\ UNCHANGED <<main, ci, run, route, vercel, host, left>>

Dispatch(mode) ==
    /\ mode \in Modes /\ left.dispatches > 0
    /\ left' = [left EXCEPT !.dispatches = @ - 1]
    /\ waiting' = [sha |-> main, mode |-> mode]
    /\ UNCHANGED <<main, ci, run, route, vercel, host>>

Begins ==
    /\ run.pc = "idle" /\ waiting # Nothing /\ waiting' = Nothing
    /\ run' = IF waiting.mode = "other" THEN run
              ELSE [NoRun EXCEPT !.pc = "main", !.sha = waiting.sha, !.mode = waiting.mode]
    /\ UNCHANGED <<main, ci, route, vercel, host, left>>

-----------------------------------------------------------------------------
(* The steps of a run.                                                     *)

Passes(from, to) == run.pc = from /\ run' = [run EXCEPT !.pc = to]

\* The trap is set from "again" on.
Trapped == run.pc \notin {"main", "gate", "prior", "candidate"}
Exits(how) == run' = [run EXCEPT !.pc = IF Trapped THEN "cleanup" ELSE "idle", !.ended = how]

Events == <<main, ci, waiting>>

CheckMain ==
    /\ run.sha = main /\ Passes("main", "gate")
    /\ UNCHANGED <<Events, route, vercel, host, left>>

LastUnchanged(from, to) == to \in DocsOnly
Unchanged(from, to) == \A s \in (from + 1)..to : s \in DocsOnly

\* An automatic release of documents is skipped, unless the live release is unknown.
Gate ==
    /\ \/ Passes("gate", "prior")
       \/ /\ run.pc = "gate" /\ run.mode = "automatic"
          /\ vercel.alias # run.sha /\ Unchanged(vercel.alias, run.sha)
          /\ run' = [run EXCEPT !.pc = "idle"]
    /\ UNCHANGED <<Events, route, vercel, host, left>>

PriorUnchecked ==
    /\ Passes("prior", "candidate")
    /\ UNCHANGED <<Events, route, vercel, host, left>>

\* check-promotion-state.mjs: no candidate while an alias operation is pending.
PriorResolved ==
    /\ vercel.state # "pending" /\ Passes("prior", "candidate")
    /\ UNCHANGED <<Events, route, vercel, host, left>>

Candidate ==
    /\ Passes("candidate", "again")
    /\ UNCHANGED <<Events, route, vercel, host, left>>

\* The trap restores the route from before it is touched.
CheckAgain ==
    /\ run.pc = "again" /\ run.sha = main
    /\ run' = [run EXCEPT !.pc = "all-vercel", !.changed = TRUE]
    /\ UNCHANGED <<Events, route, vercel, host, left>>

ToVercel ==
    /\ Passes("all-vercel", "stage") /\ route' = "vercel"
    /\ UNCHANGED <<Events, vercel, host, left>>

Stages(s) == IF host.live = s THEN host ELSE [host EXCEPT !.staged = @ \cup {s}]
CanStage(s) == host.live = s \/ (host.busy = 0 /\ s \notin host.staged)

Stage ==
    /\ run.pc = "stage" /\ CanStage(run.sha) /\ host' = Stages(run.sha)
    /\ run' = [run EXCEPT !.pc = "verify", !.ssh = TRUE]
    /\ UNCHANGED <<Events, route, vercel, left>>

Verify ==
    /\ Passes("verify", "promote")
    /\ UNCHANGED <<Events, route, vercel, host, left>>

\* The promotion goes on whether or not the CLI waits for it.
Promote ==
    /\ vercel' = [vercel EXCEPT !.last = run.sha, !.state = "pending",
                                !.flying = @ \cup {run.sha}]
    /\ Passes("promote", "observe")
    /\ UNCHANGED <<Events, route, host, left>>

Observe ==
    /\ vercel.state # "pending" /\ Passes("observe", "confirm")
    /\ UNCHANGED <<Events, route, vercel, host, left>>

\* check-promotion-state.mjs --require-success, for this candidate.
Promoted == vercel.state = "succeeded" /\ vercel.last = run.sha

Confirm ==
    /\ Promoted /\ Passes("confirm", "converge")
    /\ UNCHANGED <<Events, route, vercel, host, left>>

Succeeds == run' = [run EXCEPT !.pc = "cleanup", !.changed = FALSE, !.ended = "success"]

\* A maintenance release stops here: the host is not activated.
Converge ==
    /\ run.pc = "converge" /\ vercel.alias = run.sha
    /\ IF run.mode = "maintenance" THEN Succeeds ELSE Passes("converge", "activate")
    /\ UNCHANGED <<Events, route, vercel, host, left>>

Activated(s) ==
    IF host.live = s THEN host
    ELSE [host EXCEPT !.live = s, !.previous = host.live,
                      !.staged = (@ \cup {host.live}) \ {s}, !.busy = 0]

Activate ==
    /\ run.pc = "activate" /\ host.busy = 0
    /\ \/ /\ host' = Activated(run.sha)
          /\ run' = [run EXCEPT !.pc = "health", !.activated = TRUE]
          /\ UNCHANGED left
       \/ /\ left.faults > 0 /\ left' = [left EXCEPT !.faults = @ - 1]
          /\ host' = [host EXCEPT !.busy = run.sha] /\ Exits("failed")
    /\ UNCHANGED <<Events, route, vercel>>

\* Only a release that was told to cuts the public route over.
Health ==
    /\ run.pc = "health" /\ host.live = run.sha
    /\ IF run.mode = "cutover" THEN Passes("health", "split") ELSE Succeeds
    /\ UNCHANGED <<Events, route, vercel, host, left>>

SplitAndDone ==
    /\ run.pc = "split" /\ run' = [run EXCEPT !.pc = "edge", !.changed = FALSE]
    /\ route' = "split"
    /\ UNCHANGED <<Events, vercel, host, left>>

Split ==
    /\ Passes("split", "edge") /\ route' = "split"
    /\ UNCHANGED <<Events, vercel, host, left>>

Edge ==
    /\ host.live = run.sha /\ Passes("edge", "purge")
    /\ UNCHANGED <<Events, route, vercel, host, left>>

Purge ==
    /\ run.pc = "purge" /\ Succeeds
    /\ UNCHANGED <<Events, route, vercel, host, left>>

-----------------------------------------------------------------------------
(* Failure, and the EXIT trap.                                             *)

Refused ==
    \/ run.pc \in {"main", "again"} /\ run.sha # main
    \/ run.pc = "prior" /\ vercel.state = "pending"
    \/ run.pc = "stage" /\ ~CanStage(run.sha)
    \/ run.pc = "confirm" /\ ~Promoted
    \/ run.pc = "converge" /\ vercel.alias # run.sha
    \/ run.pc = "activate" /\ host.busy # 0
    \/ run.pc \in {"health", "edge"} /\ host.live # run.sha

\* What a command did before its answer was lost.
Applied == {route} \cup (IF run.pc = "all-vercel" THEN {"vercel"} ELSE {})
                   \cup (IF run.pc = "split" THEN {"split"} ELSE {})

Spend == left.faults > 0 /\ left' = [left EXCEPT !.faults = @ - 1]

Fails ==
    /\ run.pc \notin {"idle", "cleanup", "restore"}
    /\ \/ Refused /\ UNCHANGED <<left, route, host>>
       \/ Spend /\ route' \in Applied
          /\ host' \in {host} \cup (IF run.pc = "stage" /\ CanStage(run.sha)
                                    THEN {Stages(run.sha)} ELSE {})
    /\ run' = [run EXCEPT !.pc = IF Trapped THEN "cleanup" ELSE "idle", !.ended = "failed",
                          !.ssh = @ \/ run.pc = "stage"]
    /\ UNCHANGED <<Events, vercel>>

\* The host's script waits for an activation that outlived its connection, and
\* refuses what is active or last.
Cleanup ==
    /\ Passes("cleanup", "restore")
    /\ \/ /\ run.activated \/ ~run.ssh
          /\ UNCHANGED <<host, left>>
       \/ /\ ~run.activated /\ run.ssh /\ host.busy = 0
          /\ host' = IF run.sha \in {host.live, host.previous} THEN host
                     ELSE [host EXCEPT !.staged = @ \ {run.sha}]
          /\ UNCHANGED left
       \/ ~run.activated /\ run.ssh /\ Spend /\ UNCHANGED host
    /\ UNCHANGED <<Events, route, vercel>>

\* Three attempts, each verified; a run that gives up says CRITICAL.
Restore ==
    /\ run.pc = "restore"
    /\ \/ /\ route' = IF run.changed THEN "vercel" ELSE route
          /\ run' = [run EXCEPT !.pc = "idle", !.changed = FALSE]
          /\ UNCHANGED left
       \/ /\ run.changed /\ Spend /\ route' \in {route, "vercel"}
          /\ run' = [run EXCEPT !.pc = "idle", !.ended = "critical"]
    /\ UNCHANGED <<Events, vercel, host>>

Killed ==
    /\ run.pc # "idle" /\ Spend
    /\ run' = [run EXCEPT !.pc = "idle", !.ended = "killed"]
    /\ route' \in Applied
    /\ host' \in {host} \cup (IF run.pc = "activate" /\ host.busy = 0
                              THEN {[host EXCEPT !.busy = run.sha]} ELSE {})
    /\ UNCHANGED <<Events, vercel>>

-----------------------------------------------------------------------------
(* What goes on outside of a run.                                          *)

PromotionEnds(s) ==
    /\ s \in vercel.flying
    /\ \E how \in {"succeeded"} \cup (IF MaxFaults = 0 THEN {} ELSE {"failed"}) :
        vercel' = [vercel EXCEPT
            !.flying = @ \ {s},
            !.alias = IF how = "succeeded" THEN s ELSE @,
            !.state = IF s = vercel.last THEN how ELSE @]
    /\ UNCHANGED <<Events, run, route, host, left>>

HostEnds ==
    /\ host.busy # 0
    /\ host' \in {Activated(host.busy), [host EXCEPT !.busy = 0]}
    /\ UNCHANGED <<Events, run, route, vercel, left>>

-----------------------------------------------------------------------------
Step ==
    \/ CheckMain \/ Gate \/ PriorResolved \/ Candidate \/ CheckAgain \/ ToVercel
    \/ Stage \/ Verify \/ Promote \/ Observe \/ Confirm \/ Converge
    \/ Activate \/ Health \/ Split \/ Edge \/ Purge \/ Cleanup \/ Restore

Next ==
    \/ Push \/ OtherCompletes \/ Begins
    \/ \E s \in Sha : CiCompletes(s) \/ PromotionEnds(s)
    \/ \E mode \in Mode : Dispatch(mode)
    \/ Step \/ Fails \/ Killed \/ HostEnds

\* The runner, CI and the services go on; nothing is pushed or dispatched for ever.
Progress ==
    \/ Begins \/ Step \/ Fails \/ HostEnds
    \/ \E s \in Sha : CiCompletes(s) \/ PromotionEnds(s)

Spec == Init /\ [][Next]_vars /\ WF_vars(Progress)

-----------------------------------------------------------------------------
(* Properties.                                                             *)

\* While the public route is split, both origins serve the same release: whatever
\* failed, was killed or answered late, no alias operation and no activation of
\* an earlier run changes one of them under the split.
SplitIsSame == route = "split" => vercel.alias = host.live /\ vercel.flying = {} /\ host.busy = 0

\* A run that failed after it touched the route leaves all-Vercel, or says that it
\* could not ("Promote and activate exact SHA with fail-closed routing").
ClosesRoute ==
    run.pc # "idle" /\ run'.pc = "idle" /\ run'.ended = "failed" /\ run.ssh
        => route' = "vercel"

FailsClosed == [][ClosesRoute]_vars

\* Without faults, and when CI completes in order and only for main, what main
\* serves is what Vercel serves in the end.
HeadIsReleased == <>[]Unchanged(vercel.alias, main)
=============================================================================
