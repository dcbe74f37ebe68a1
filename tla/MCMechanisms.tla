---------------------------- MODULE MCMechanisms ----------------------------
(***************************************************************************)
(* The smaller mechanisms of the pages and of the server, for TLC, each in *)
(* the settings that make its hazards happen.  A behaviour is of one part; *)
(* the circuit has the constants of the configuration, and the variables   *)
(* of the other modules stay at nothing.                                   *)
(***************************************************************************)
EXTENDS Naturals

CONSTANTS
    u1, u2, e1, e2, Call, Request, Batch, Player, None,
    Threshold, OpenFor,  \* of SignalCircuit
    RetryAfter           \* of DependencyCooldown

VARIABLES
    part,
    now,    \* SignalCircuit, DependencyCooldown
    shown,  \* PriceChangeLive
    consecutiveFailures, openedUntil, halfOpen, deadline,            \* SignalCircuit
    user, history, challenge, bound, spent, title, call,             \* FplBinding
    until, failureAt, failures, storage, began, attempt, owed,      \* DependencyCooldown
    live, durable, cached, noted, kept, poll, timer, hidden, left,   \* PriceChangeLive
    data, props, tournamentState, polls, revision, told, refresh, action, lost,
    fails,                                                           \* TournamentManagement
    link, settled, section, desk, chosen, steps,                     \* PlayerDesk
    squad, predicted, official                                       \* AutoSubs

circuitVars == <<consecutiveFailures, openedUntil, halfOpen, deadline>>
bindingVars == <<user, history, challenge, bound, spent, title, call>>
cooldownVars == <<until, failureAt, failures, storage, began, attempt, owed>>
priceVars == <<live, durable, cached, noted, kept, poll, timer, hidden, left>>
manageVars ==
    <<data, props, tournamentState, polls, revision, told, refresh, action, lost, fails>>
deskVars == <<link, settled, section, desk, chosen, steps>>
subsVars == <<squad, predicted, official>>
all == <<part, now, shown, circuitVars, bindingVars, cooldownVars, priceVars, manageVars,
         deskVars, subsVars>>

-----------------------------------------------------------------------------
(* The instances; that of the binding brings its proofs along.             *)

\* Web users as the callers use bindings: one user with two entries, two users.
Bound == INSTANCE FplBindingProofs
    WITH User <- {u1}, Entry <- {e1, e2}, Ops <- {"bind", "unlink", "refresh"},
         BindLimit <- 2, CreationLimit <- 0, MaxAttempts <- 2, MaxTitle <- 1
Rivals == INSTANCE FplBindingProofs
    WITH User <- {u1, u2}, Entry <- {e1}, Ops <- {"bind", "unlink", "refresh"},
         BindLimit <- 1, CreationLimit <- 0, MaxAttempts <- 2, MaxTitle <- 1
\* Challenges: two users with one each, one user with two.
Challenged == INSTANCE FplBindingProofs
    WITH User <- {u1, u2}, Entry <- {e1}, Ops <- {"claim", "challenge", "confirm"},
         BindLimit <- 0, CreationLimit <- 1, MaxAttempts <- 2, MaxTitle <- 2
Rechallenged == INSTANCE FplBindingProofs
    WITH User <- {u1}, Entry <- {e1}, Ops <- {"claim", "challenge", "confirm"},
         BindLimit <- 0, CreationLimit <- 2, MaxAttempts <- 2, MaxTitle <- 2

Circuit == INSTANCE SignalCircuit WITH MaxTime <- 12

Cooldown == INSTANCE DependencyCooldown WITH MaxTime <- 6

Prices == INSTANCE PriceChangeLive
    WITH MaxPublished <- 3, MaxSeeds <- 2, MaxHides <- 1, MaxFails <- 1

\* A tournament in its background work, one that its organiser changes, and one whose
\* roster is fetched again.
Setup == INSTANCE TournamentManagement
    WITH Slot <- {1, 2}, MaxChanges <- 2, Kinds <- {"retry_setup"}, MaxFails <- 1
Managed == INSTANCE TournamentManagement
    WITH Slot <- {1}, MaxChanges <- 3, Kinds <- {"pause", "resume", "rename"}, MaxFails <- 0
Synced == INSTANCE TournamentManagement
    WITH Slot <- {1}, MaxChanges <- 2, Kinds <- {"retry_roster", "rename"}, MaxFails <- 1

Desk == INSTANCE PlayerDesk WITH MaxSteps <- 3

Subs == INSTANCE AutoSubs WITH MaxOut <- 4

\* The assumptions of the proofs hold of these instances.
ASSUME ProofAssumptions ==
    /\ Circuit!CircuitAssumption /\ Cooldown!CooldownAssumption
    /\ Bound!BindingAssumption /\ Rivals!BindingAssumption
    /\ Challenged!BindingAssumption /\ Rechallenged!BindingAssumption

-----------------------------------------------------------------------------
ManageParts == {"setup", "managed", "synced"}

NoCircuit ==
    /\ consecutiveFailures = None /\ openedUntil = None /\ halfOpen = None /\ deadline = None
NoBinding ==
    /\ user = None /\ history = None /\ challenge = None /\ bound = None /\ spent = None
    /\ title = None /\ call = None
NoCooldown ==
    /\ until = None /\ failureAt = None /\ failures = None /\ storage = None /\ began = None
    /\ attempt = None /\ owed = None
NoPrices ==
    /\ live = None /\ durable = None /\ cached = None /\ noted = None /\ kept = None
    /\ poll = None /\ timer = None /\ hidden = None /\ left = None
NoManage ==
    /\ data = None /\ props = None /\ tournamentState = None /\ polls = None
    /\ revision = None /\ told = None /\ refresh = None /\ action = None /\ lost = None
    /\ fails = None
NoDesk ==
    /\ link = None /\ settled = None /\ section = None /\ desk = None /\ chosen = None
    /\ steps = None
NoSubs == squad = None /\ predicted = None /\ official = None

Init ==
    \/ /\ part = "circuit" /\ Circuit!Init
       /\ shown = None /\ NoBinding /\ NoCooldown /\ NoPrices /\ NoManage /\ NoDesk /\ NoSubs
    \/ /\ \/ part = "bound" /\ Bound!Init
          \/ part = "rivals" /\ Rivals!Init
          \/ part = "challenged" /\ Challenged!Init
          \/ part = "rechallenged" /\ Rechallenged!Init
       /\ now = None /\ shown = None
       /\ NoCircuit /\ NoCooldown /\ NoPrices /\ NoManage /\ NoDesk /\ NoSubs
    \/ /\ part = "cooldown" /\ Cooldown!Init
       /\ shown = None /\ NoCircuit /\ NoBinding /\ NoPrices /\ NoManage /\ NoDesk /\ NoSubs
    \/ /\ part = "prices" /\ Prices!Init
       /\ now = None /\ NoCircuit /\ NoBinding /\ NoCooldown /\ NoManage /\ NoDesk /\ NoSubs
    \/ /\ \/ part = "setup" /\ Setup!Init
          \/ part = "managed" /\ Managed!Init
          \/ part = "synced" /\ Synced!Init
       /\ now = None /\ shown = None
       /\ NoCircuit /\ NoBinding /\ NoCooldown /\ NoPrices /\ NoDesk /\ NoSubs
    \/ /\ part = "desk" /\ Desk!Init
       /\ now = None /\ shown = None
       /\ NoCircuit /\ NoBinding /\ NoCooldown /\ NoPrices /\ NoManage /\ NoSubs
    \/ /\ part = "subs" /\ Subs!Init
       /\ now = None /\ shown = None
       /\ NoCircuit /\ NoBinding /\ NoCooldown /\ NoPrices /\ NoManage /\ NoDesk

\* Only the variables of the part change.
NotCircuit == UNCHANGED circuitVars
NotBinding == UNCHANGED bindingVars
NotCooldown == UNCHANGED cooldownVars
NotPrices == UNCHANGED priceVars
NotManage == UNCHANGED manageVars
NotDesk == UNCHANGED deskVars
NotSubs == UNCHANGED subsVars

OfPrices(A) ==
    /\ part = "prices" /\ A
    /\ UNCHANGED <<part, now>>
    /\ NotCircuit /\ NotBinding /\ NotCooldown /\ NotManage /\ NotDesk /\ NotSubs
OfManage(A, B, C) ==
    /\ \/ part = "setup" /\ A
       \/ part = "managed" /\ B
       \/ part = "synced" /\ C
    /\ UNCHANGED <<part, now, shown>>
    /\ NotCircuit /\ NotBinding /\ NotCooldown /\ NotPrices /\ NotDesk /\ NotSubs

Next ==
    \/ /\ part = "circuit" /\ Circuit!Next
       /\ UNCHANGED <<part, shown>>
       /\ NotBinding /\ NotCooldown /\ NotPrices /\ NotManage /\ NotDesk /\ NotSubs
    \/ /\ \/ part = "bound" /\ Bound!Next
          \/ part = "rivals" /\ Rivals!Next
          \/ part = "challenged" /\ Challenged!Next
          \/ part = "rechallenged" /\ Rechallenged!Next
       /\ UNCHANGED <<part, now, shown>>
       /\ NotCircuit /\ NotCooldown /\ NotPrices /\ NotManage /\ NotDesk /\ NotSubs
    \/ /\ part = "cooldown" /\ Cooldown!Next
       /\ UNCHANGED <<part, shown>>
       /\ NotCircuit /\ NotBinding /\ NotPrices /\ NotManage /\ NotDesk /\ NotSubs
    \/ OfPrices(Prices!Next)
    \/ OfManage(Setup!Next, Managed!Next, Synced!Next)
    \/ /\ part = "desk" /\ Desk!Next
       /\ UNCHANGED <<part, now, shown>>
       /\ NotCircuit /\ NotBinding /\ NotCooldown /\ NotPrices /\ NotManage /\ NotSubs
    \/ /\ part = "subs" /\ Subs!Next
       /\ UNCHANGED <<part, now, shown>>
       /\ NotCircuit /\ NotBinding /\ NotCooldown /\ NotPrices /\ NotManage /\ NotDesk

\* The fairness of PriceChangeLive and of TournamentManagement.
Spec ==
    /\ Init /\ [][Next]_all
    /\ WF_all(OfPrices(Prices!Revalidate)) /\ WF_all(OfPrices(Prices!Fire))
    /\ WF_all(OfPrices(Prices!Show)) /\ WF_all(OfPrices(Prices!PollGoesOn))
    /\ WF_all(OfManage(Setup!RefreshGoesOn, Managed!RefreshGoesOn, Synced!RefreshGoesOn))
    /\ \A d \in {"run", "rename"} :
        WF_all(OfManage(Setup!Succeed(d), Managed!Succeed(d), Synced!Succeed(d)))
    /\ WF_all(OfManage(Setup!Tick(1), Managed!Tick(1), Synced!Tick(1)))
    /\ WF_all(OfManage(Setup!PollGoesOn(1), Managed!PollGoesOn(1), Synced!PollGoesOn(1)))
    /\ WF_all(OfManage(Setup!Tick(2), FALSE, FALSE))
    /\ WF_all(OfManage(Setup!PollGoesOn(2), FALSE, FALSE))

-----------------------------------------------------------------------------
\* SignalCircuit!ProbesAlone: late answers neither admit a second probe nor leave the
\* circuit waiting for one.
ProbesAlone == part = "circuit" => Circuit!ProbesAlone

\* FplBinding!NamesBelong: overlapping bindings, unlinkings and refreshes keep each
\* name with its entry.
NamesBelong ==
    /\ part = "bound" => Bound!NamesBelong
    /\ part = "rivals" => Rivals!NamesBelong

\* FplBinding!LatestBinds: a confirmation binds only its user's newest challenge.
LatestBinds ==
    [][/\ part = "challenged" => Challenged!BindsLatest
       /\ part = "rechallenged" => Rechallenged!BindsLatest]_all

\* DependencyCooldown!HoldsOff: an early answer does not undo a later failure.
HoldsOff == part = "cooldown" => Cooldown!HoldsOff

\* PlayerDesk!ShowsAsked: each slot shows whom it last asked for.
ShowsAsked == part = "desk" => Desk!ShowsAsked

\* AutoSubs: one pass over the bench brings on the best it can field, and publication
\* of the predicted lineup moves nothing.
BestComeOn == part = "subs" => Subs!BestComeOn
NothingMoves == part = "subs" => Subs!NothingMoves

\* PriceChangeLive!BoardCatchesUp: in the end the page shows what is published.
BoardCatchesUp == <>[](part = "prices" => Prices!CaughtUp)

\* TournamentManagement!StatusCatchesUp: in the end the page shows what Data keeps.
StatusCatchesUp ==
    <>[](part \in ManageParts => lost \/ Setup!Shown = data)
=============================================================================
