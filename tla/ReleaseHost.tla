---------------------------- MODULE ReleaseHost ----------------------------
(***************************************************************************)
(* The Tencent host's releases: the scripts of ops/tencent/scripts that    *)
(* stage, activate, roll back and clean up a release, and the service and  *)
(* the Nginx configuration they switch.  A release is a directory that     *)
(* appears with one rename, a directory of static files that is made and   *)
(* then filled, and a cache directory; /opt/letletme/current and /previous *)
(* are symbolic links.  One script at a time holds the deploy lock.  Any   *)
(* command may fail (the script's EXIT trap then repairs) and the script   *)
(* or the machine may die (nothing repairs).                               *)
(***************************************************************************)
EXTENDS Naturals, Sequences

CONSTANTS
    Sha,         \* releases
    None,        \* no release: a link that is absent, LETLETME_RELEASE_SHA=development
    Kinds,       \* the scripts that are run: a subset of Kind
    Overlap,     \* may another script take the lock between a check and the lock?
    MaxFails,    \* bound on commands that fail
    MaxKills     \* bound on scripts and processes that die

Kind == {"stage", "deploy", "activate", "cleanup"}

VARIABLES
    disk,      \* links, directories, release.env
    service,   \* the process systemd runs: its code and the name it answers with
    nginx,     \* the configuration it has loaded: its release and the static directories
    job,       \* the script that holds the lock
    checked,   \* releases an activation has found complete, not holding the lock yet
    left       \* faults that may still happen

vars == <<disk, service, nginx, job, checked, left>>

Link == Sha \cup {None}
Stopped == [code |-> None, name |-> None]
Idle == [kind |-> "idle", sha |-> None, todo |-> <<>>, current |-> None,
         previous |-> None, activated |-> FALSE, failed |-> FALSE, victim |-> None]

Step == {"build", "cache", "publish", "mkstatic", "fill", "tidy",
         "ln", "mv", "previous", "env", "restart", "health", "render", "done", "prune",
         "current-back", "previous-back", "env-back", "service-back",
         "rm-release", "rm-build", "rm-cache", "rm-static"}

TypeOK ==
    /\ disk \in [current: Link, previous: Link, next: Link, env: Link, old: SUBSET Sha,
                 build: SUBSET Sha, release: SUBSET Sha, cache: SUBSET Sha,
                 static: [Sha -> {"absent", "partial", "full"}]]
    /\ service \in [code: Link, name: Link]
    /\ nginx \in [release: Link, static: SUBSET Sha]
    /\ job \in [kind: Kind \cup {"idle"}, sha: Link, todo: Seq(Step), current: Link,
                previous: Link, activated: BOOLEAN, failed: BOOLEAN, victim: Link]
    /\ (job = Idle) <=> (job.todo = <<>>)
    /\ checked \subseteq Sha
    /\ left \in [fails: 0..MaxFails, kills: 0..MaxKills]

Init ==
    /\ disk = [current |-> None, previous |-> None, next |-> None, env |-> None,
               old |-> {}, build |-> {}, release |-> {}, cache |-> {},
               static |-> [s \in Sha |-> "absent"]]
    /\ service = Stopped
    /\ nginx = [release |-> None, static |-> {}]
    /\ job = Idle
    /\ checked = {}
    /\ left = [fails |-> MaxFails, kills |-> MaxKills]

\* readlink -e: where a link leads, if that is there.
Target(link) == IF link \in disk.release THEN link ELSE None

HasStatic(s) == disk.static[s] # "absent"

-----------------------------------------------------------------------------
(* Taking the lock.                                                        *)

Staging == <<"build", "cache", "publish", "mkstatic", "fill">>
Switching == <<"ln", "mv", "env", "restart", "health", "render", "previous", "done", "prune">>
Deploying == <<"ln", "mv", "previous", "env", "restart", "health", "render", "done", "prune">>
Again == <<"render", "health", "done">>
Cleaning == <<"rm-release", "rm-static", "rm-cache", "rm-build">>

Locks(kind, s, todo) ==
    /\ kind \in Kinds /\ job = Idle /\ (Overlap \/ checked = {})
    /\ job' = [Idle EXCEPT !.kind = kind, !.sha = s, !.todo = todo,
                           !.current = Target(disk.current),
                           !.previous = Target(disk.previous)]
    /\ UNCHANGED <<disk, service, nginx, left>>

\* What is left of an earlier attempt is refused, never overwritten.
Stage(s) ==
    /\ s \notin disk.release \cup disk.build /\ ~HasStatic(s)
    /\ \/ Locks("stage", s, Staging \o <<"tidy">>)
       \/ Locks("deploy", s, Staging \o Deploying \o <<"tidy">>)
    /\ UNCHANGED checked

\* An activation looks at the release before it takes the lock.
Complete(s) == s \in disk.release /\ HasStatic(s)

CheckStaged(s) ==
    /\ "activate" \in Kinds /\ s \notin checked /\ Complete(s)
    /\ Overlap \/ (job = Idle /\ checked = {})
    /\ checked' = checked \cup {s}
    /\ UNCHANGED <<disk, service, nginx, job, left>>

\* A rollback is an activation of what /previous leads to.
Rollback == Target(disk.previous) # None /\ CheckStaged(disk.previous)

\* It gives up at once when another script holds the lock.
Activate(s) ==
    /\ s \in checked /\ checked' = checked \ {s}
    /\ \/ /\ job = Idle
          /\ job' = [Idle EXCEPT !.kind = "activate", !.sha = s,
                                 !.todo = IF Target(disk.current) = s THEN Again ELSE Switching,
                                 !.current = Target(disk.current),
                                 !.previous = Target(disk.previous)]
       \/ job # Idle /\ UNCHANGED job
    /\ UNCHANGED <<disk, service, nginx, left>>

Cleanup(s) ==
    /\ s \notin {Target(disk.current), Target(disk.previous)}
    /\ Locks("cleanup", s, Cleaning)
    /\ UNCHANGED checked

-----------------------------------------------------------------------------
(* The steps of a script.                                                  *)

At(step) == job # Idle /\ Head(job.todo) = step

OnwardLocked == [job EXCEPT !.todo = Tail(@)]

\* The last step gives the lock back.
Onward == IF Tail(job.todo) = <<>> THEN Idle ELSE [job EXCEPT !.todo = Tail(@)]

\* A step that changes the disk only.
Writes(step, after) ==
    /\ At(step) /\ disk' = after /\ job' = Onward
    /\ UNCHANGED <<service, nginx, checked, left>>

With(dir) == [disk EXCEPT ![dir] = @ \cup {job.sha}]
Without(dir, s) == [disk EXCEPT ![dir] = @ \ {s}]
StaticIs(s, how) == [disk EXCEPT !.static[s] = how]

Build == Writes("build", With("build"))
MakeCache == job.sha \notin disk.cache /\ Writes("cache", With("cache"))
Publish == Writes("publish", [With("release") EXCEPT !.old = @ \ {job.sha}])
MakeStatic == Writes("mkstatic", StaticIs(job.sha, "partial"))
Fill == Writes("fill", StaticIs(job.sha, "full"))
Tidy == Writes("tidy", Without("build", job.sha))

\* ln -s follows a link that is there already: activate-release.sh removes it
\* first, deploy-release.sh does not, and moves the old link into place.
NextLink == IF job.kind = "activate" \/ disk.next = None THEN job.sha ELSE disk.next
CanLink == NextLink = job.sha \/ NextLink \in disk.release

LinkNext == CanLink /\ Writes("ln", [disk EXCEPT !.next = NextLink])

MoveNext ==
    /\ At("mv") /\ disk' = [disk EXCEPT !.current = disk.next, !.next = None]
    /\ job' = [Onward EXCEPT !.activated = TRUE]
    /\ UNCHANGED <<service, nginx, checked, left>>

KeepPrevious ==
    Writes("previous", IF job.current = None THEN disk
                       ELSE [disk EXCEPT !.previous = job.current])

NameRelease == Writes("env", [disk EXCEPT !.env = job.sha])

\* The service runs what /current leads to, under the name in release.env.
Started == IF Target(disk.current) = None THEN Stopped
           ELSE [code |-> disk.current, name |-> disk.env]

Restart ==
    /\ At("restart") /\ service' = Started /\ job' = Onward
    /\ UNCHANGED <<disk, nginx, checked, left>>

AnswersAtAll(s) == service # Stopped

\* /healthz answers with the name the process was started under.
Answers(s) == service # Stopped /\ service.name = s

Health ==
    /\ At("health") /\ Answers(job.sha) /\ job' = Onward
    /\ UNCHANGED <<disk, service, nginx, checked, left>>

Rendered(s) == [release |-> s, static |-> {x \in Sha : HasStatic(x)}]

Render ==
    /\ At("render") /\ HasStatic(job.sha) /\ nginx' = Rendered(job.sha) /\ job' = Onward
    /\ UNCHANGED <<disk, service, checked, left>>

\* From here on the script has succeeded and its trap repairs nothing.
Done == Writes("done", disk)

ExpiredButActive == (disk.release \cap disk.old) \ {job.sha}

\* Releases older than the retention go, but for the active and the last one.
Expired == (disk.release \cap disk.old) \ {job.sha, job.current}

Prune ==
    \/ Expired = {} /\ Writes("prune", disk)
    \/ \E v \in Expired :
        /\ At("prune") /\ disk' = Without("release", v)
        /\ job' = [job EXCEPT !.todo = <<"rm-static", "rm-cache">> \o @, !.victim = v]
        /\ UNCHANGED <<service, nginx, checked, left>>

\* A removal is about an expired release or about the script's own.
Victim == IF job.victim = None THEN job.sha ELSE job.victim

\* A deployment that failed keeps its release when that is still the current one.
Remove ==
    \/ Writes("rm-release", IF job.failed /\ Target(disk.current) = job.sha THEN disk
                            ELSE Without("release", Victim))
    \/ Writes("rm-static", StaticIs(Victim, "absent"))
    \/ Writes("rm-cache", Without("cache", Victim))
    \/ Writes("rm-build", Without("build", Victim))

-----------------------------------------------------------------------------
(* Failure.                                                                *)

\* The EXIT traps: cleanup_build with rollback_activation, restore_previous.
\* A deployment sets its trap after the build directory, a cleanup sets none.
Restoring ==
    IF job.kind = "activate"
    THEN (IF job.activated THEN <<"current-back">> ELSE <<>>)
             \o <<"previous-back", "env-back", "service-back">>
    ELSE (IF job.activated
          THEN <<"current-back", "env-back", "service-back", "previous-back">> ELSE <<>>)
             \o <<"rm-release", "rm-build">>
             \o (IF At("cache") THEN <<>> ELSE <<"rm-cache">>) \o <<"rm-static">>

Untrapped == job.kind = "cleanup" \/ At("build")
Succeeded == job.victim # None \/ At("prune")

\* A step that cannot be taken fails; any other may.
Refused ==
    \/ At("cache") /\ job.sha \in disk.cache
    \/ At("ln") /\ ~CanLink
    \/ At("health") /\ ~Answers(job.sha)
    \/ At("render") /\ ~HasStatic(job.sha)

Fails ==
    /\ job # Idle /\ ~job.failed /\ Head(job.todo) \notin {"done", "tidy"}
    /\ \/ Refused /\ UNCHANGED left
       \/ left.fails > 0 /\ left' = [left EXCEPT !.fails = @ - 1]
    /\ job' = CASE Untrapped -> Idle
                [] Succeeded -> IF job.kind = "deploy" THEN [job EXCEPT !.todo = <<"tidy">>,
                                                                 !.victim = None] ELSE Idle
                [] OTHER -> [job EXCEPT !.todo = Restoring, !.failed = TRUE]
    /\ disk' \in {disk} \cup (IF At("build") THEN {With("build")} ELSE {})
    /\ UNCHANGED <<service, nginx, checked>>

\* A deployment puts the link back only if it is its own.
CurrentBack ==
    Writes("current-back", IF job.kind = "activate" \/ disk.current = job.sha
                           THEN [disk EXCEPT !.current = job.current] ELSE disk)
PreviousBack == Writes("previous-back", [disk EXCEPT !.previous = job.previous])
EnvKept == Writes("env-back", disk)
EnvBack == Writes("env-back", [disk EXCEPT !.env = job.current])

\* Without a release to go back to nothing is rendered; deploy-release.sh then removes
\* the file of the configuration, which Nginx goes on with until it is next loaded.
ServiceBack ==
    /\ At("service-back") /\ job' = Onward
    /\ service' = IF job.current = None THEN Stopped ELSE Started
    /\ nginx' = IF job.current # None /\ HasStatic(job.current) THEN Rendered(job.current)
                ELSE nginx
    /\ UNCHANGED <<disk, checked, left>>

Dead == left.kills > 0 /\ left' = [left EXCEPT !.kills = @ - 1]

\* The script is killed, or the machine loses power and boots: no trap runs.
Dies ==
    /\ job # Idle /\ Dead
    /\ job' = Idle
    /\ service' \in {service, Started}
    /\ UNCHANGED <<disk, nginx, checked>>

\* systemd restarts a process that died.
ServiceRestarts ==
    /\ service # Stopped /\ Dead
    /\ service' = Started
    /\ UNCHANGED <<disk, nginx, job, checked>>

\* The retention passes.
Age ==
    /\ job = Idle /\ disk.release \ disk.old # {}
    /\ disk' = [disk EXCEPT !.old = disk.release]
    /\ UNCHANGED <<service, nginx, job, checked, left>>

-----------------------------------------------------------------------------
Script ==
    \/ Build \/ MakeCache \/ Publish \/ MakeStatic \/ Fill \/ Tidy
    \/ LinkNext \/ MoveNext \/ KeepPrevious \/ NameRelease \/ Restart \/ Health \/ Render
    \/ Done \/ Prune \/ Remove
    \/ CurrentBack \/ PreviousBack \/ EnvBack \/ ServiceBack

Next ==
    \/ \E s \in Sha : Stage(s) \/ CheckStaged(s) \/ Activate(s) \/ Cleanup(s)
    \/ Rollback
    \/ Script \/ Fails \/ Dies \/ ServiceRestarts \/ Age

Spec == Init /\ [][Next]_vars

-----------------------------------------------------------------------------
(* Properties.                                                             *)

\* Whatever dies or fails, the links lead to releases that are there with their
\* static files: neither a cleanup, nor a retention, nor a failed attempt removes
\* what is active or what a rollback would activate, and a rollback never refuses
\* ("retaining the active and immediate rollback releases", ops/tencent/README.md).
LinksLead ==
    \A link \in {disk.current, disk.previous} \ {None} : Complete(link)

\* A script that reports success serves its release: the code that runs, the
\* name it answers with and the static files that Nginx tries first are its own,
\* though an earlier script died between any two of its steps.
Serves ==
    At("done") /\ ~At("done")' =>
        /\ disk.current = job.sha /\ service = [code |-> job.sha, name |-> job.sha]
        /\ nginx.release = job.sha

SuccessIsServed == [][Serves]_vars

\* When no script runs, and none was killed, the code that runs is the current
\* release under its own name, behind its own static files: every failure is
\* undone, also when two activations and a cleanup meet.
SettledIsConsistent ==
    job = Idle =>
        IF disk.current = None THEN service = Stopped
        ELSE /\ service = [code |-> disk.current, name |-> disk.current]
             /\ nginx.release = disk.current /\ disk.current \in nginx.static

\* An active release has all its static files ("staged static release is
\* incomplete", ops/tencent/scripts/verify-staged-release.sh).
ActivatedIsComplete == disk.current # None => disk.static[disk.current] = "full"
=============================================================================
