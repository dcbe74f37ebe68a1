# Formal models of letletme-web

letletme-web is a Next.js application for Fantasy Premier League (FPL) players, a
WeChat Mini Program API beside it, and a Cloudflare watchdog that keeps the site
reachable. Most of what it shows is asked from a Data service and laid out; the
parts that can go wrong in ways a test hardly reaches are the few that keep state
across calls: a durable outbox, account links in two tables, a failover with
three stores, releases on two platforms, and browser hooks with many calls in
flight. Those parts are modelled in TLA+, checked with TLC on small instances and,
for most of them, proved with TLAPS for every instance.

Paths below are relative to the repository. `PROJECT.json` maps every definition
to the lines it stands for.

## 1. Inventory

### Entry-sync outbox (modelled and proved)

`lib/entry-sync-outbox.ts`, `lib/entry-sync.ts`, `app/api/miniprogram/entry-sync`,
`app/api/cron/entry-sync-outbox`, the systemd timer under `ops/tencent`.

- State: table `bauth.entry_sync_outbox`, one row per FPL entry: status, generation,
  attempts, due time, lease token and lease end, job id, error.
- Operations: record a request (upsert that starts the next generation), claim due
  rows under a lease, ask Data to pull the entry, settle (deliver, retry, park) if
  the lease and the generation still hold, purge delivered rows.
- Interactions: a binding records in its own transaction and delivers after its
  response; a Mini Program call records, delivers and answers `queued`; a timer
  delivers what is due. All of them run in several processes at once.
- Hard: answers of Data are lost, processes die between any two steps, leases
  expire under a worker that still waits, newer requests reopen a row in flight.
- Correct if: a request is never lost; a row is delivered only for a job accepted
  after its last request; `queued: true` is true; what is given up stays visible;
  everything else is finally delivered.

### EdgeOne failover watchdog (modelled and proved)

`cloudflare/watchdog/src/index.js`, `dnspod.js`.

- State: the DNS records at DNSPod, the `FailoverCoordinator` Durable Object (count,
  claim, mutation lock), a KV entry (an owed reset, an owed or sent alert).
- Operations: a check per minute looks at DNS, probes the routes, counts, re-reads
  DNS, takes the lock, disables the mainland record, verifies, alerts, saves.
- Interactions: checks overlap; DNSPod, Telegram, KV and the coordinator fail
  independently; an operator edits the same records by hand.
- Hard: partial failure at every await, stale KV copies, locks of dead runs.
- Correct if: DNS changes only after three failing checks, never over an operator's
  earlier edit, never silently; and a lasting outage does fail over.

### Mini Program accounts (modelled and proved)

`lib/miniprogram-account.ts`, `lib/miniprogram-account-core.ts`.

- State: accounts (openid, unionid, link, followed team, entry choice), Web users
  (openid, verified team), sessions per device, mailed codes.
- Operations: sign in, start and confirm a binding by mailed code, unlink, follow a
  team, choose which team counts, revoke a session.
- Interactions: transactions at READ COMMITTED that lock account, then user.
- Hard: reads before the locks, an openid that changed under its unionid, a wrong
  guess that must be committed though the request fails.
- Correct if: the two halves of a link agree, sessions follow the link, links need
  the pending code, guesses are bounded, no two flows wait for each other.

### Live points page (modelled and proved)

`app/live/points/_hooks/useLivePoints.ts`, `LivePointsClient.tsx`,
`lib/live-refresh.ts`, `LiveAutoRefreshCountdown.tsx`.

- State: selected entry and gameweek, painted score and squad, accepted snapshot,
  request counters, one in-flight slot, an armed retry, polling hints.
- Operations: submit an entry, change the gameweek, refresh, automatic refresh,
  retry while the producer is behind; four kinds of answers.
- Hard: answers overtake each other, are late, fail, or come from an older
  publication, while the user moves on.
- Correct if: only the selection is painted, a score never goes back, loading ends,
  the score catches up.

### Releases (modelled and proved)

`ops/tencent/scripts/*release*.sh` (`ReleaseHost`); `.github/workflows/release-web.yml`
and `ops/release` (`ReleaseWorkflow`).

- State: on the host the release, static and cache directories, the links `current`
  and `previous`, `release.env`, the service, the Nginx configuration, a deploy lock;
  around it the run under way and the one that waits, main, the EdgeOne route, the
  Vercel alias.
- Operations: stage, deploy, activate, roll back, clean up and retain on the host; gate,
  all-Vercel, stage, promote, activate, split and the EXIT trap in the workflow.
- Hard: any command fails and the trap repairs; a script or the machine dies and nothing
  repairs; a promotion outlives its CLI, an activation its connection; each waiting run
  replaces the one before.
- Correct if: links lead to releases, what is reported as deployed is served, a split
  route has one release behind both origins, a failed run leaves all-Vercel, and the head
  of main is released.

### FPL entry binding (modelled and proved)

`lib/fpl-entry-binding.ts`, `app/profile/actions.ts`, the profile page.

- State: a user's entry with its name snapshot, the history of names, challenges, a quota.
- Operations: bind directly, unlink, refresh the names; the retained challenge (start,
  confirm) and the claim of the refresh window, which have no caller.
- Hard: every one asks FPL between its first read and its transaction, at READ
  COMMITTED, and the direct binding and the refresh read the user without a lock.
- Correct if: a name never ends up with another entry; only the newest usable challenge
  binds.

### Price change polling, tournament management, player stats desk (partly modelled)

`lib/price-change-live-client.ts`; `useTournamentManagement.ts`;
`usePlayerDetailSlot.ts` with `lib/player-stats-desk-client.ts`.

- State: what is shown beside what was noted of it; requests under way; a poll timer.
- Operations: polls and their answers, server renderings, actions, selections, retries.
- Hard: answers overtake each other, and other sources write what is shown meanwhile;
  requests are shared, cached, superseded and aborted.
- Correct if: in the end the page shows what Data keeps; a slot shows whom it asked for.

### Client caches and breakers (partly modelled, modelled parts proved)

`lib/dependency-cooldown.ts` with `lib/graphql-client.ts` and `lib/tournament/live-board.ts`;
`lib/ops-client-signal-circuit.ts`.

- State: a fence in memory and in sessionStorage; failures in a row, the end of the open
  time, a probe under way.
- Hard: successes and failures of requests that began in another state of the breaker.
- Correct if: an early answer does not undo a later failure; one probe at a time.

### Automatic substitutions (partly modelled, modelled parts proved)

`app/live/points/_lib/live-auto-subs.ts`.

- State: none; the projection is computed from the picks of each answer.
- Hard: one greedy pass over the bench under FPL's formation rules; the published lineup
  names who is active and not who came on for whom.
- Correct if: the pass brings on the best the bench can field, and publication of the
  predicted lineup moves nobody on the pitch.

### Components that are not modelled

| Component | Keeps | What makes it hard | Why not |
| --- | --- | --- | --- |
| Team points page, `app/live/points/[id]/TeamPointsClient.tsx` | last reconciled target, an anchor refresh | URL, history and hook state move separately | planned, composed with `LivePoints` |
| Live matches and tournaments on the client | as the live points page | the same, over other queries | planned after it |
| Coalesced public seeds, `lib/public-seed-singleflight.ts` | pending promises | a fill that fails | planned |
| Tournament creation | a form, a preview token | previews of another link, members that change | planned; the league is a foreign service |
| Authentication events, bug reports | append-only rows, used nonces | purges beside writes | planned |
| Web sign-in | better-auth's tables | a library's state machine | not in this repository |
| GraphQL proxy, request security, routing | nothing, or one SQL statement | - | decisions about one request |
| Fixtures, market, gameweek desk, home, briefings, sharing, agent tools | nothing | - | pure functions of one answer |
| Probes, capacity runs, installation scripts | reports, files | - | diagnostics, run by hand |
| Pages and components | React state | - | rendering; most of the repository's lines |

`PROJECT.json` lists each with its files, and under `hazards` the lines where the
difficulties bite, covered by a property or with the reason why not.

## 2. Modules and how they correspond to the code

| Module | Models | Extends |
| --- | --- | --- |
| `EntrySyncPromise` | what the outbox promises: a request is owed until Data accepted a job that covers it | - |
| `EntrySyncOutbox` | the outbox and everything that touches it; its properties and its inductive invariant | instantiates `EntrySyncPromise` |
| `EntrySyncOutboxProofs` | theorems about it | `EntrySyncOutbox` |
| `FailoverCoordinator` | the Durable Object: one operator per operation, from the stored record to the one it writes | - |
| `Watchdog` | the checks, DNS, KV, faults and the operator | `FailoverCoordinator` |
| `WatchdogProofs` | theorems about any runs, edits and faults | `Watchdog` |
| `WatchdogRuns`, `WatchdogRunsProofs` | the settings of its runs; theorems about them | `Watchdog`; `WatchdogProofs` |
| `AccountLink` | what the link of an identity and a Web user promises: one to one, made by using up a mailed code, ended by undoing it | - |
| `MiniProgramAccount` | account, user, session and code tables under overlapping requests | instantiates `AccountLink` |
| `MiniProgramAccountProofs` | theorems about it | `MiniProgramAccount` |
| `LivePoints` | the hook as the live points page drives it | - |
| `LivePointsProofs` | theorems about it | `LivePoints` |
| `LivePointsReseed` | the same with a page that is rendered again while mounted | `LivePoints` |
| `ReleaseHost` | the host's scripts over disk, service and Nginx | - |
| `ReleaseWorkflow` | the release workflow, which takes the host as `ReleaseHost` promises it | - |
| `MCRelease`, `MCReleaseProofs` | both, with the settings of a run as records; theorems about each, with settings beyond those of the run | instantiates them |
| `FplBinding`, `FplBindingProofs` | a Web user's entry, names and challenges; theorems | - |
| `DependencyCooldown` | the fence of a failing dependency | - |
| `SignalCircuit` | the circuit before the client signals | - |
| `PriceChangeLive` | the poll of the price board | - |
| `TournamentManagement` | the management page over polls, actions and renderings | - |
| `PlayerDesk` | the two slots of the player desk and the requests they share | - |
| `AutoSubs` | the predicted substitutions and the pairs of a published lineup | - |
| `MCMechanisms`, `MCMechanismsProofs` | the seven modules above, one instance each; theorems about circuit, cooldown, bindings, desk and substitutions with any constants | instantiates them |
| `MC...` | instances: delays, fault sets, symmetry, the settings of a run | their modules |

A run that has several settings has a variable `part`, chosen at the start and never
changed: a behaviour is of one part, and each property names the parts it speaks of.
The modules of `MCMechanisms` do not interact; they share a run because each is small.

Conventions. A state variable is a table or a record of refs and keeps its name where
TLA+ allows. An action is one atomic piece of the code: a transaction, or the code
between two awaits. Operators named for a plausible mistake (`HoldsByEntry`,
`SlotKept`, ...) stand before the definition they would replace; no specification
uses them, `PROJECT.json` names the property that each of them breaks.

**EntrySyncOutbox.** `row[e]` is the table. Time is relative: `wait` is
`next_attempt_at` and `lease` is `lease_until` seen from now, and `Tick` moves them.
`call[t]` is a delivery under lease token `t`, from the claim to its settlement,
with the row as `claimRows` returned it. `Record` is the upsert; `CronClaim`,
`BindClaim` and `ClientClaim` are `claimRows` for their three callers;
`StartDelivery` sends the request of `deliverClaimedRow`, which takes the row as it was
claimed and does not read it again; `Accept` and `Refuse`
are Data's side, heard or not; `Acknowledge`, `Retry`, `SettleStale` are the three
outcomes of `settleClaim`, whose WHERE clause is `Holds`; `Abandon` is a crash, a
run out of budget or a failed transaction; `Purge` the retention sweep. `asked` and
`accepted` are history: the number of requests, and the number Data's last accepted
job covers. A Mini Program call that finds its row taken reads it again
(`ClientCheck`) and compares generations, as `deliverEntrySyncOutboxNow` does.

**Watchdog.** One run is a program counter with what it has read; every await that
matters is one action, reads of DNSPod made back to back are one instant. Alerts are
a pair of key and whether it was sent. Claims and locks carry an age in ticks. Each
call may fail by its own fault kind, `lost` meaning that a call of the Durable Object took
effect and its answer did not arrive, `unheard` the same of Telegram (`applyAlert` treats
both of its failures alike: the alert is owed and sent again). `seen` and `said` are
history. `said` keeps the alert that Telegram accepted last and how many faults since then
may have made the watchdog forget it: a lost answer, an alert that failed, a save that
failed, a dead run (`Excused`). A copy uses one of them up and a copy without one sets
`repeated`, so an alert that fails between two others resets nothing. A healthy check and a
newly counted one forget the alert on purpose (`Forgotten`). `announced` is set only by the
alerts whose text says that the record was disabled or that the fallback is in force
(`TellsOfChange`), not by those that say DNS was left alone.

**MiniProgramAccount.** A request goes from its unlocked read, to the account's lock,
to the user's lock, to its commit; its writes are in the commit. Link, session and
code are values: hashing and mail are left out, a code that expires is removed. `Partner`
and `Usable` are what `AccountLink` sees: the link that an account row has, and the codes
of a user that are pending on any device.

**LivePoints.** `ui` is the hook's state and refs and the calls in flight. A counter
that fences answers (`requestIdRef`) is kept in the calls: `current` is true while the
counter has not moved since the call began. `slot` is the in-flight ref. `fetches`,
`explains`, `selects`, `autos` are the four kinds of calls. A publication is its
generation, which also stands for its core revision. `Switching`, `CanReplace`,
`NeedsRefresh`, `ShouldPoll`, `ExplainTarget` are the pure helpers of the same names.

**ReleaseHost, ReleaseWorkflow.** `job` is the script that holds the lock with the step it
is at; each step is one command that changes something and may fail (the trap's repair
follows) or be the last before the script dies (`Dies`, `ServiceRestarts`, which share
one budget). `checked` holds the activations that have looked at a release before the
lock. In the workflow `waiting` is the group's one waiting run and `run` the run under
way; `vercel` and `host` go on after the run gave up on them. A build that fails may
leave its directory.

**FplBinding.** `call[c]` is an operation between its awaits: `ask` is the request to FPL,
`select` and `write` are the statements of its transaction that another commit can come
between. `CalledOps` are the operations that pages and actions start; the others are
modelled with their own instances. The request a binding leaves in the outbox is
`BindRecord` of `EntrySyncOutbox`: one transaction, so nothing can come between.

**DependencyCooldown, SignalCircuit.** One action per operation of the breaker, with the
requests that call it: a request asks before it begins (`Begin`, `TryAgain`) and tells
when it ends. `owed` is history: the failures no later request has answered.

**PriceChangeLive, TournamentManagement, PlayerDesk.** A request is read where Data
answers it and applied where the page hears of it, two actions, so that other sources come
between. `shown` is what is on the page; `noted`, `props`, `selected` what the code
compares with. An effect of React runs in the step that changes what it depends on. The
management page keeps `tournamentState` as the hook does, a tournament with the render that
it goes with: while that is not the last render, the page shows the render (`Shown`).
An action carries the render under which it began, so that its `Updated`, a closure of that
render, may put the state behind the page: its optimistic status is then not shown, and
neither is what is polled, until the render that its refresh asks for. An action
(`runAction`) and a renaming are under way side by side, each at most once. A poll
that is refused for its revision (409) sets the revision that other polls share when its
answer is parsed (`PollAgain`).

**AutoSubs.** A pick is its position. A loop over the bench is its four turns one after
another (`TryBench`, `Pair`), a record carries what the loop changes, `at` being
`effectivePositions`. `Miss` ends the last fixture of a player who did not play, `Publish`
publishes a lineup; each recomputes the projection. `Lineups` and `Before` are the reference: what the bench could field, and
in which order FPL prefers it.

## 3. Runs

| Run | Instance | Asks |
| --- | --- | --- |
| `outbox_safety` | 1 entry, 2 tokens, 1 Mini Program call, 2 requests, leases of one tick; 0.6M states | the safety invariants |
| `outbox_liveness` | 1 entry, 2 tokens, fair; 84k | `RequestResolved`, `ParkedUntilAsked`, refinement of `EntrySyncPromise` |
| `watchdog` | one run after another, threshold 3, up to 4 coordinator or Telegram calls that fail, lost answers of Telegram among them; one run, threshold 2, with any edit of DNS and any 2 faults but those of alerts; 2 runs, threshold 2, any fault once; fair; 1.9M states | `StreakIsEarned`, `AlertsDiffer`, `OperatorWins`, `Announced`, `FailsOver` |
| `watchdog_streak` | finding | `ThreeInARow` is violated |
| `watchdog_lost_lock` | finding | `ThreeSinceHealthy` is violated when an answer is lost |
| `mini_program` | 2 users, 2 overlapping requests, in three regions: 2 devices and an openid that changed; 1 account on 1 device with 2 codes and their misses; the same with 2 teams; 0.8M states | `LinkIsMutual`, `SessionFollowsLink`, `NoDeadlock`, `GuessesBounded`, `LinkNeedsCode`, `OnlyAChoicePrefersWeb`, refinement of `AccountLink` |
| `live_points` | 2 entries, 2 gameweeks, 2 publications, 2 retries, 3 user actions; 1 entry with fair answers; 0.9M states | `PaintedIsSelected`, `ScoreNeverBack`, `PageLoadEnds`, `PageCatchesUp` |
| `live_points_reseed` | finding | `SubmittedEntryLoads` is violated |
| `release` | 3 releases and scripts that fail, die or meet; the workflow with 2 commits, any mode and 2 faults, and with 3 commits and none; fair; 0.8M states | `LinksLead`, `SettledIsConsistent`, `SuccessIsServed`, `SplitIsSame`, `FailsClosed`, `HeadIsReleased` |
| `release_stale_link` | finding | `SuccessIsServed` is violated after an activation that failed between `ln` and `mv` |
| `mechanisms` | bindings: 1 user with 2 entries, 2 users with 1, 2 overlapping calls; challenges likewise; 4 batches; 2 requests; a board with 3 publications, 2 seeds; a tournament with 2 slots, with 3 changes by its organiser, or with a renaming and a failure; 3 players and 3 steps; every squad and 4 missing starters; 1.8M states | `NamesBelong`, `LatestBinds`, `ProbesAlone`, `HoldsOff`, `BoardCatchesUp`, `StatusCatchesUp`, `ShowsAsked`, `BestComeOn`, `NothingMoves` |
| `desk_last_choice` | finding | `LastChoiceShown` is violated |

Every passing run is exhaustive. Between them they take every action of every
module.

### Bounds

- Outbox: two tokens are two deliveries alive at once, the least that can disagree
  about a row; `FreshToken` reuses a token only when nothing refers to it, as a UUID
  would never be. Two requests are the least that make a generation stale. One entry
  suffices because rows share nothing but the batch; that more rows change nothing is
  what the proofs show. `AttemptsCap`, `MaxCallAge` and `Retention` saturate counters
  above the last value the code compares them with; `MaxAsked` bounds requests.
- Watchdog: the coordinator's TTLs are a few ticks, kept in the order the code has
  (a claim lapses before a lock); two runs that overlap are the least that can
  disagree about KV, a claim or a lock. `MaxFaults` bounds the faults of a behaviour; four
are enough for an alert that fails between two copies of another. With the operator the
threshold is 2 and no alert fails, because an edit is stopped by what a run reads of DNS,
whatever it tells afterwards; the theorem has any threshold and every fault.
- Mini Program: two requests show every conflict of two transactions; two codes a
  replacement; two openids and a unionid the identity that moves. The three regions
  (`InPart`) leave out what is far apart: misses while a team is followed or while the openid
  changes; the proofs have no regions.
- Live points: two of everything tell the selected from the other; `MaxActions`
  bounds user actions, `MaxGen` publications, `Retries` the delays of
  `LIVE_DATA_RETRY_DELAYS_MS`. Loading states need two actions to go wrong.
- Releases: three releases are a live one, the one before and a new one, the least at
  which retention removes something. One death or one failure shows every state a script
  can leave; the next script then runs over it. `SuccessIsServed` holds for one death, not for two:
  a process that dies between the link and `release.env` is restarted as the new code under
  the old name, and when the trap that puts the link back dies before it restarts the service, the
  next activation finds the link and the name it asks for and reports success for other code. The workflow has a documentation-only
  commit among the others because such a commit is skipped.
- Binding: two calls of one user show every conflict of two transactions; two entries a
  name that moves; a third title is the one a challenge requires. `BindLimit` and
  `CreationLimit` are of one window and one hour.
- Circuit: four batches are one more than the threshold, so that one is late while three
  fail; `MaxTime` is four open times. Cooldown: Retry-After of none, zero and the longest.
- Price board: three publications are a provisional board, its durable one and a
  withdrawal. Management: two slots are two polls that overtake each other; three changes
  are a pause, a resumption and the renaming beside them, under renders that fall between.
- Desk: three players are two shown and one to come; three steps are a selection, another
  and a retry.
- Substitutions: every formation and every order of the bench of a squad of 2, 5, 5 and 3;
  the bench can replace four. Of the starters of one type the first ones are missing: they
  are consecutive, so that only their number matters.

Deadlock checking is off where the system may really rest: an outbox at its
bounds, a page nobody touches and that need not poll, a release that is done, a clock
at its bound in `mechanisms`, a desk whose user is done.

### Fairness

- Outbox: time passes, the timer claims each due row again and again (systemd, every
  minute), every delivery ends (its fetch has a timeout, and so has the run). Strong
  fairness says that a row claimed again and again is at some time started, accepted
  and acknowledged within its lease: the request timeout is 3 s, the lease 60 s, and
  neither Data nor the database fails every time for ever.
- Watchdog: the trigger fires and a started check ends. Nothing is fair to faults,
  operators or verdicts; `FailsOverEventually` assumes in its formula that from some
  time on EdgeOne fails and the fallback answers.
- Live points: every call is answered or times out, an armed timer fires, a page that
  may poll does (it is visible). Strong fairness for `FreshContext` and `FreshPoints`:
  a service asked again and again answers again and again with its latest publication.
- Releases: a run that is not killed goes on to its end, a waiting run is started, CI
  completes. Only the setting without faults claims liveness. The symmetry of the
  releases is sound beside it, because that setting does not speak of `Built`.
- Price board: the timer fires, requests end, the edge cache revalidates (one second), a
  hidden page is shown again. Faults and publications are bounded and not fair.
- Management: requests end and the interval goes on; Data need not work.
- Mini Program accounts, bindings, breakers, desk: no liveness is claimed.

### Findings

1. `watchdog_streak`: a check that finds direct Vercel unhealthy must reset the streak;
   when that one call fails, the run aborts (`index.js:459`) and, unlike its three
   siblings, leaves no debt behind. The three failures need not be consecutive, as
   `ops/edgeone/README.md:353` says they are.
2. `watchdog_lost_lock`: when the answer of `begin-mutation` is lost, the lock stays
   for its five minutes, during which healthy checks skip their reset and remember
   none (`index.js:660`). Once it lapses one failing check fails over.
3. `live_points_reseed`: the seed effect of `useLivePoints` raises a flag that the
   effect of a changed entry lowers (`useLivePoints.ts:951`, `1011`). A page rendered
   again for the same entry raises it with nothing to lower it; the next entry the
   user submits is not fetched and the page stays in its loading state.

4. `release_stale_link`: `deploy-release.sh` makes its new link with `ln -s` and does not
   remove one that is there, as `activate-release.sh:98` does. After a script that failed or
   died between `ln` and `mv` (in TLC's trace an activation that failed), the next deployment follows the old link, makes an older release current
   and reports success, since the health check reads the name in `release.env`.
5. `desk_last_choice`: `selectPlayerById` returns early for the player who is shown
   (`usePlayerDetailSlot.ts:553`) and does not supersede a load under way. Choose another
   player in the squad rail and then the shown one again: the other replaces the last choice.

`HeadIsReleased` holds when CI completes in order and for main only. The workflow has no
branch filter, so the completion of CI on another branch takes the group's waiting place
before the job's condition turns it away, and a release that waited is lost; nothing in
the repository promises otherwise, so this is a hazard's note and no finding.

## 4. What is proved

### The outbox

`EntrySyncOutboxProofs.tla`, for every set of entries, tokens and clients, every
lease, backoff and retention and every number of requests, from `OutboxAssumption`
alone (constants have their types, null and the year 9999 are no ordinary values,
callers are distinct):

| Theorem | Says |
| --- | --- |
| `TypeCorrect` | every variable keeps its type; a retry is never due before the settlement |
| `DeliveredFresh` | a delivered row's job was accepted after the last request |
| `NothingLost` | a request Data has not accepted is pending or leased |
| `QueuedAccepted` | `queued: true` is answered only for a covered request |
| `ParkedVisible` | a parked row is pending with its permanent error and its attempts used up |
| `ParkedStays` | only a new request unparks a row (an action property) |
| `Refinement` | every step is a step of `EntrySyncPromise` or a stutter |
| `InductiveInvariant` | the invariant `IInv` all of them rest on |

**The argument.** `DeliveredIsFresh` is not inductive: a state in which an old worker
holds a row's current token satisfies it and the next step breaks it. What holds the
design together is the pair of fences in the WHERE clause of `settleClaim`. A new
request clears the token, a new claim replaces it, and tokens are never reused; so a
delivery that still finds its token in a row knows that nothing happened to the row
since it claimed it. `LeaseIsFenced` says this: the row is leased, the attempt
number is the claim's, and if Data accepted the call's job then no request was recorded
since. `SettledIsAccepted` relates the table to the history: a row that is absent or
delivered has nothing open. It gives `NothingLost` and the refinement's
`Acknowledge`, and shows that the purge deletes nothing owed. `ClientWaits` and
`SeenWasAsked` tie a delivery to the one client that waits for it; without them an
answer could be handed to a call that asked for another entry. `IInv` is the
conjunction with the properties. `NextIInv` takes the actions one by one: recording,
claiming (one lemma for all three callers), the request, the settlements (`EndOfCall`:
what ending a call leaves true of the others), the purge and the passage of time.

`ParkedStays` and `Refinement` need `StepShape`: what any step
may do to a row, under the invariant.

### The watchdog

| Theorem | From | Says |
| --- | --- | --- |
| `TypeOKHolds`, `PartTypeOKHolds` | the assumptions on the constants | types; the count of the Durable Object and the ages of its claim and lock stay in bounds |
| `EarlyEditWinsHolds`, `OperatorWinsHolds` | the same | an edit of DNS that is there before the re-read that concerns it stops the run, for any number of overlapping runs, any edits, verdicts and faults |
| `AlertsDifferHolds` | one run after another, no edits; any faults | Telegram gets no copy of the alert it accepted last without a fault that pays for it, until a healthy or a newly counted check |
| `StreakIsEarnedHolds` | one run after another, no edits, only the faults `coordinator`, `telegram` and `unheard` | DNS changes only after as many failing checks as the threshold since the last healthy one |

The last two are theorems of the setting `sequential` of `WatchdogRuns`, with any threshold
and lifetimes; `OperatorWinsHolds` is about the setting `operator`, whose threshold is 2,
and `EarlyEditWinsHolds` behind it about any. The faults that `StreakIsEarnedHolds` leaves
out are what the property needs, not what the prover needs: two of the findings above are
streaks that a lost answer or an undelivered reset breaks. `watchdog` checks
`StreakIsEarned` and `AlertsDiffer` under just its faults; that each failed save
and each dead run excuses one copy at most is only in the theorem.

**The argument.** `DnsKnown` says that DNS is as it was or has fallen back, and which phases
of a run fit either. `AlertKept` relates three things for each phase: what was said last, the
alert the run holds, and the one KV keeps. They must agree only while what was said last
counts (`Counts`: no fault excuses a copy of it); between the alert and the save they differ,
and a save that is still to come is in the run's `todo`, or a fault has been noted. An
alert that is owed always has a key (`Owed`), so that what the next run sends first is known. `StreakKnown` does it for the count: it is
no longer than the failing checks seen since the last healthy one, or the reset is owed,
in KV or in the hands of the run. The proof takes each step with what it leaves of the
run's ending (`Endings`).

### Mini Program accounts

From `MiniProgramAccount`'s assumptions, for any users, identifiers, devices, codes and
number of overlapping requests:

| Theorem | Says |
| --- | --- |
| `LinkIsMutualHolds` | a Web user has an openid exactly when one account is linked to it |
| `SessionFollowsLinkHolds` | every active session carries the user its account is linked to |
| `NoDeadlockHolds` | of any set of waiting requests one waits for none of the others |
| `GuessesBoundedHolds` | no code is compared with more guesses than allowed |
| `LinkNeedsCodeHolds` | a link appears only with the code pending for that user, which it consumes |
| `OnlyAChoicePrefersWebHolds` | of the steps that write an account only a choice turns it to the Web team |
| `Refinement` | every step is a step of `AccountLink` or a stutter |

**The argument.** The link is in two tables, and the requests read before they lock. A request
that has its account lock holds every row its identity can match until it ends
(`Holding`): a row starts to match an identity only in a transaction that holds the same openid or
unionid, which is another row of the same request (`StaysCovered`). So what an
unlink has read under its lock is still the link when it commits (`Knowing`), and link and
openid, written in one commit, stay two halves of one fact (`Mutual`). `NoDeadlock`
follows from `Holding`: who waits for a user holds accounts only, who waits for an
account holds nothing, so among those who wait nobody waits for one who waits for another; no bound on the
requests is needed, where TLC has two.

For the refinement `StepOfLinks` says what a step does to links and codes together: it
writes a row with the link that was there (a sign-in that found the user of an unlinked
account is refused, `SignInKeepsLink`), and counts a guess at most; or a code goes or
comes; or a confirmation links and uses up a code; or an unlink writes no code. `OneUse`, which is
inductive beside `IInv`, says that a code is pending for one user on one device, so
that using one up takes just that one from the codes that count. A confirmation
for a link that is there already is only a code that lapses.

### The live points page

From `LivePoints`' assumptions, for any entries, gameweeks, publications, retries and actions:
`PaintedIsSelectedHolds`, `ScoreNeverBackHolds`, `TypeOKHolds` (a retry is armed only as
often as there are delays) and `Inductive`, the invariant they rest on.

**The argument.** `PaintedIsSelected` says nothing of the calls in flight, and each of them may
paint. `Sound` says that a call that may still act is one for the selection: a fetch that
is `current` or is in the slot has the selected key, a probe, an armed retry and an
explanation as well. What keeps it is that each handler that changes the selection fences what was
under way, and that a submission which joins the request in the slot joins one for the same
key. There is at most one current fetch and one automatic probe; while a fetch of another
selection is under way, nothing is painted (`switching`). A score then is replaced only by one
that `CanReplace` admits or after an empty page.

### The circuit, the cooldown, the bindings, the desk and the substitutions

| Theorem | From | Says |
| --- | --- | --- |
| `ProbesAloneHolds` | `CircuitAssumption`: the open time is longer than a forward's deadline | when the open time is up nothing is under way but the probe the circuit waits for |
| `HoldsOffHolds` | `CooldownAssumption` | a failure holds requests off for as long as it asked until a later one succeeds |
| `NamesBelongHolds` | `BindingAssumption` | names stay with their entry, in the row and in the history |
| `LatestBindsHolds` | nothing | a confirmation binds only its user's newest usable challenge |
| `ShowsAskedHolds` | nothing | a slot shows whom it last asked for, and loads exactly while it waits |
| `BestComeOnHolds` | nothing | one pass over the bench brings on the best that the bench can field |
| `NothingMovesHolds` | nothing | a lineup published as predicted moves nobody; who counts stands where a starter stood |

The seven are theorems of `MCMechanisms`, with any constants; those of the bindings are
also theorems of `FplBinding` itself (`FplBindingProofs`), whose lemmas they use.

`ProbesAlone` is not inductive: it says nothing of the time before the circuit's time is
up, when late batches are still under way. What carries it is that their deadlines are
earlier: while the circuit is open, every batch but the probe ends before it may probe.
The assumption on the constants is needed (the code has 60 s against 300 ms).

`HoldsOff` speaks of the fence that is read, the later of memory and storage. A reload
forgets memory, so the invariant (`Kept`) speaks of the side that outlives what comes:
storage where it works, else memory. It keeps what every owed failure asked for, and the
time of a failure so late, so that an earlier request's success clears neither.

`NamesBelong` needs what calls carry: a name that an operation has read from FPL is of
its entry, and the row a binding or a refresh has read was true once, so that its name is
in the history, which only grows. The conditions `Current` of the refresh make
the writes safe although the read is not locked. `LatestBinds` rests on the order of the
challenges: a new one closes its user's others, so an open one is the newest.

`ShowsAsked` ties a slot to a request that is known by its key alone, shared with the other
slot and ended by answers, aborts and retries. The invariant (`DeskIInv`) adds what fences
it: nobody waits under a version that the slot has still to reach (`Placed`), so a slot that
begins to load leaves whoever waited for it before behind; who waits under the slot's own
version waits for whom it asked for, with one request only (`AsksOnce`), so that its answer,
or the retry of the other slot that gives it up, ends all waiting; a slot that was never used
has asked for nobody, so the server's seed may fill it. The proof uses neither the number of
players nor the three steps to which `MCMechanisms` bounds the user.

`BestComeOn` asks whether a greedy pass that never takes a swap back can regret it. The
argument is an exchange (`Exchange`), by counting: let the formation so far not contain `k`
of the bench, and let a valid lineup contain `k` and all of the formation but some of those
who did not play. Were none of those able to make room for `k`, the lineup would have at
least as many of every type as the formation, since a type that may not lose one is at its
least, and one more of the type of `k`: twelve players. So when the pass leaves `k` out,
no lineup that agrees with it on the bench before `k` contains `k`. `BeforeTry` is the
invariant of the loop: the formation is valid, it has every starter who played and nobody of
the bench who did not, and those who wait to go are its other starters. `LineupsAre` shows
that what the bench can field is described by just that. `NothingMoves` follows the two
loops in step (`Alike`): the publication of the prediction has the same players active,
those who wait are those of the prediction who will go, and the one the prediction took, the
first who fits, is the first who fits among fewer. That someone is always there to
pair with an incoming player (`SomebodyWaits`) is because eleven are active and eleven
presented; with it the loop keeps starters' places to those presented (`BeforePair`), who
in the end are those published. Neither theorem uses the squads' two, five, five and three,
nor the four whom the bench can replace: only that a squad starts in a valid formation.

`MCMechanisms` assumes the three assumptions of its instances, so that TLC evaluates them.

### The release workflow

`SplitIsSameHolds` and `FailsClosedHolds`, theorems of `MCRelease`. The lemmas
`WorkflowInit`, `WorkflowNext` and `WorkflowCloses` behind them are about any setting of
the workflow: any number of commits, dispatches and faults, any commits of documentation,
any modes. The one assumption is that the model value of an idle part is no release.

**The argument.** `SplitIsSame` speaks of two platforms that go on after a run gave up on them.
`OneInFlight` says that only the last alias operation may be in flight, and only while
Vercel says it is pending; `Awaited` that none is pending from the gate's check of the prior
promotion on, unless the run itself promotes. `Converged` has what the run has reached: the
alias, then the host, with no activation left over, so that the split joins what is the same.
`AllVercel` keeps every step in between away from a split route, and `TrapKnows`
relates what the trap goes by (`ssh`, `changed`, `ended`) to the step the run failed at,
which gives `FailsClosed`.

### The host of the releases

Theorems of `MCRelease`, for any set of releases; the lemmas behind them (`HostStarts`,
`HostGoes` and the four that follow) are about every setting that `HostSetting` admits: any
choice of scripts, any number of failures and deaths, with and without scripts that meet.
Where a setting must be narrower, the table says so.

| Theorem | From | Says |
| --- | --- | --- |
| `TypeOKHolds` | `HostSetting` | types, of the workflow too; a script has a program exactly while it runs |
| `LinksLeadHolds` | no script takes the lock between another's check and its lock; any failures and deaths | both links lead to releases that are there with their static files |
| `SettledIsConsistentHolds` | nothing dies; any failures, scripts that meet | when no script runs, the current release runs under its name and behind its files |
| `SuccessIsServedHolds` | at most one death | who reports success serves its release |

These hypotheses are the properties' own. With an overlap, a cleanup may remove what an
activation has found complete (`activate-release.sh:21`), and the link leads to nothing until
its health check fails; a death leaves the old process under a new link;
two deaths break `SuccessIsServed` as section 3 says. `HostSetting` lets deployments run
only where nothing overlaps, fails or dies: the finding `release_stale_link` is what
else happens.

**The argument.** A script is a sequence of steps, and the properties speak of few of
them. `Shape` says which sequences there are: the rest, from some place on, of one of
six programs, or steps that only prepare and remove. From it follow `Heads` and `Advances` (what step comes after which),
and with them every step on the host is one of the cases of `HostSteps`. `Facts` says what
a script has established when it gets to a step: the link, then the name, then the process,
then Nginx. That a retention or a cleanup removes no release a link leads to (`LinksStay`) needs
more than that the links lead: `Linked` also says that what a failure would put back is
whole, and that until an activation has proved its release the current link may lead to one that
is gone only if scripts overlap. `Looked` keeps what was found before the lock.
`Consistent` relates the service to the link while nothing has died: as it was before
the switch, as it was once the trap has put it back, the new one after the health check.
After one death a process may run the old code under a new link; `NameTells` says that
the name it answers with still tells its code, unless an activation is under way, and
`Told` that so the health check of an activation of what is active already, which
restarts nothing, is right.

### Only model-checked

Every invariant and action property of the runs is a theorem. What is left to TLC:

- Liveness (`RequestResolved`, `FailsOver`, `Announced`, `PageLoadEnds`, `PageCatchesUp`,
  `HeadIsReleased`, `BoardCatchesUp`, `StatusCatchesUp`): it needs fairness and ENABLED.

## 5. Abstractions worth knowing

- Outbox: `claimRows` orders by due time, a claim here takes any due rows; the health
  counts and alerts are read-only and left out.
- Watchdog: the probes of a check are one verdict; the pages of a DNSPod list are one
  read; audit counters in KV are left out. `OperatorWins` speaks of edits made before
  the re-read that would show them: DNSPod has no conditional update, and an edit of
  the default record between its own re-read and `ModifyRecordStatus` is overruled.
  The keys of alerts leave out the record and the reasons they name: alerts of one kind are
  one alert here, where the code sends another when the reason is another.
- Mini Program: the rows that match an identity (one, or two when the openid has changed)
  are locked in one step, so `NoDeadlock` speaks of accounts against users; a choice of the team
  reads the account and its Web user (`miniprogram-account.ts:723`, `724`) in one step;
  Web users are not deleted; the WeChat exchange is the identity it answers.
- Live points: one season; the rate-limit fence is a failed call; windows that are
  final, the explanation retry of a finalized gameweek, the throttle of explanations,
  the ready clock and error texts are left out. The fetch of a new entry, a timeout of 0 ms
  (`useLivePoints.ts:1016`), starts in the step that selects the entry. `autoRefresh` takes the anchor of any
  context (`useLivePoints.ts:834`), also an older one; the model follows it.

- Releases: the service answers or does not, so probes and timeouts are one outcome; what
  the trap of the workflow does over SSH is one step. `nginx` is what Nginx has loaded: when a
  deployment without a predecessor is undone, `deploy-release.sh:162` removes the file but
  reloads nothing.
- Binding: users are not deleted, quota and hour have one window; a manager's name goes
  with the team's. `NamesBelong` is claimed of the operations that are called: a
  confirmation keeps the name of the last entry, so with it the name would not belong.
- Cooldown: a success that began in the millisecond of a failure counts as later. How long a
  retry waits is left out, and so is what a neutral read does, which is nothing.
- Price board: the delays and the copy in localStorage are left out, and seeds are boards
  the page takes as they are. Management: pausing, resuming, retrying and renaming stand
  for the actions; insights whose repair is exhausted count as there; a page that is hidden or offline is one that does not poll yet.
- Desk: one section stands for the three with evidence of their own. Evidence asked for
  while another player loads may be merged into that player, as the code does it;
  `ShowsAsked` speaks of the overview.
- Substitutions: a published lineup comes with its active flags; captains and the bench boost
  are left out.

## 6. Plan

Done: the outbox with its promise and proofs; the watchdog; Mini Program accounts with
the link they refine; live
points, the release workflow and the host of the releases with their proofs; FPL binding,
cooldown, circuit, desk and the automatic substitutions with their proofs; price board and
tournament management.

Next, in this order:

1. `TeamPoints`: the URL reconciliation composed with `LivePoints`; the page converges to the
   gameweek of its URL. An abstract page that both pages implement.
2. The captain in `AutoSubs`: the vice captain's promotion, predicted and published.
3. The coalesced public seeds and the creation of tournaments.
