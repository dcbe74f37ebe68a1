----------------------------- MODULE MCRelease -----------------------------
(***************************************************************************)
(* The releases, for TLC: the host's scripts killed at any point, meeting  *)
(* each other, and with whole deployments among them; the workflow with    *)
(* its faults, and without them.  A behaviour is of one part.              *)
(***************************************************************************)
EXTENDS Naturals, Sequences, TLC

CONSTANTS Built, None   \* Built: the releases on the host

ASSUME NoneIsNoRelease == None \notin Built

VARIABLES part, disk, service, nginx, job, checked, left,
          main, ci, waiting, run, route, vercel, host, stock

hostVars == <<disk, service, nginx, job, checked, left>>
runVars == <<main, ci, waiting, run, route, vercel, host, stock>>
vars == <<part, hostVars, runVars>>

Host(setting) == INSTANCE ReleaseHost
    WITH Sha <- Built, Kinds <- setting.kinds, Overlap <- setting.overlap,
         MaxFails <- setting.fails, MaxKills <- setting.kills

Killed == [kinds |-> {"stage", "activate", "cleanup"}, overlap |-> FALSE,
           fails |-> 1, kills |-> 1]
Meeting == [kinds |-> {"stage", "activate", "cleanup"}, overlap |-> TRUE,
            fails |-> 1, kills |-> 0]
Deploying == [kinds |-> {"stage", "deploy", "activate", "cleanup"}, overlap |-> FALSE,
              fails |-> 0, kills |-> 0]

Workflow(setting) == INSTANCE ReleaseWorkflow
    WITH MaxSha <- setting.commits, DocsOnly <- setting.docsOnly, Ordered <- setting.ordered,
         OtherEvents <- setting.others, Modes <- setting.modes,
         MaxDispatches <- setting.dispatches, MaxFaults <- setting.faults, left <- stock

Faulty == [commits |-> 2, docsOnly |-> {2}, ordered |-> FALSE, others |-> TRUE,
           modes |-> {"canary", "cutover", "maintenance"}, dispatches |-> 2, faults |-> 2]
Sound == [commits |-> 3, docsOnly |-> {2}, ordered |-> TRUE, others |-> FALSE,
          modes |-> {"canary", "cutover"}, dispatches |-> 2, faults |-> 0]

HostParts == {"killed", "meeting", "deploying"}
OnHost == part \in HostParts

\* The variables of the other module stay at nothing.
NoHost ==
    /\ disk = None /\ service = None /\ nginx = None /\ job = None
    /\ checked = None /\ left = None
NoRuns ==
    /\ main = None /\ ci = None /\ waiting = None /\ run = None
    /\ route = None /\ vercel = None /\ host = None /\ stock = None

Init ==
    \/ part = "killed" /\ Host(Killed)!Init /\ NoRuns
    \/ part = "meeting" /\ Host(Meeting)!Init /\ NoRuns
    \/ part = "deploying" /\ Host(Deploying)!Init /\ NoRuns
    \/ part = "faulty" /\ Workflow(Faulty)!Init /\ NoHost
    \/ part = "sound" /\ Workflow(Sound)!Init /\ NoHost

HostNext ==
    /\ \/ part = "killed" /\ Host(Killed)!Next
       \/ part = "meeting" /\ Host(Meeting)!Next
       \/ part = "deploying" /\ Host(Deploying)!Next
    /\ UNCHANGED <<part, runVars>>

RunNext ==
    /\ \/ part = "faulty" /\ Workflow(Faulty)!Next
       \/ part = "sound" /\ Workflow(Sound)!Next
    /\ UNCHANGED <<part, hostVars>>

Next == HostNext \/ RunNext

Spec ==
    /\ Init /\ [][Next]_vars
    /\ WF_vars(part = "sound" /\ Workflow(Sound)!Progress /\ UNCHANGED <<part, hostVars>>)

-----------------------------------------------------------------------------
\* Every part keeps its types.
TypeOK ==
    /\ part = "killed" => Host(Killed)!TypeOK
    /\ part = "meeting" => Host(Meeting)!TypeOK
    /\ part = "deploying" => Host(Deploying)!TypeOK
    /\ part = "faulty" => Workflow(Faulty)!TypeOK
    /\ part = "sound" => Workflow(Sound)!TypeOK

\* Whatever dies or fails, /current and /previous lead to releases that are there
\* with their static files (activate-release.sh, cleanup-release.sh).
LinksLead == part \in {"killed", "deploying"} => Host(Killed)!LinksLead

\* A script that reports success serves its release, though one script before it
\* died between any two of its steps (the health check of activate-release.sh).
SuccessIsServed == [][OnHost => Host(Killed)!Serves]_vars

\* When no script runs and none was killed, what runs is the current release under
\* its own name and behind its own files (restore_previous).
SettledIsConsistent == part \in {"meeting", "deploying"} => Host(Killed)!SettledIsConsistent

\* While the public route is split, both origins serve the same release
\* (release-web.yml, check-promotion-state.mjs).
SplitIsSame == ~OnHost => Workflow(Faulty)!SplitIsSame

\* A run that failed after it touched the route leaves all-Vercel
\* (restore_all_vercel in release-web.yml).
FailsClosed == [][~OnHost => Workflow(Faulty)!ClosesRoute]_vars

\* Without faults, and when CI completes in order and only for main, Vercel serves
\* what main holds in the end (the concurrency group of release-web.yml).
HeadIsReleased == <>[](part = "sound" => Workflow(Sound)!Unchanged(vercel.alias, main))

Symmetric == Permutations(Built)
=============================================================================
