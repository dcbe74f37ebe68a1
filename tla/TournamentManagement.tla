------------------------ MODULE TournamentManagement ------------------------
(***************************************************************************)
(* The management page of a tournament that Data sets up in the background:*)
(* useTournamentManagement.ts.  Three sources write what the page shows:   *)
(* the status that it polls while work is in flight, without regard to     *)
(* polls that have not answered; the user's actions, shown before Data has *)
(* carried them on; and server renders that router.refresh() asks for, one *)
(* after the other.  The state holds a tournament and the render that it   *)
(* goes with; while that is not the last render, the page shows the render *)
(* and not the state.  An action writes the render that it began under.    *)
(* The polling effect starts again, and forgets its polls, when the work   *)
(* begins or ends and when a render brings another updatedAt.              *)
(* Data is external: it works on what it was asked for, and every change   *)
(* of the tournament is a new updatedAt.                                   *)
(***************************************************************************)
EXTENDS Naturals

CONSTANTS
    Slot,        \* the status requests that may be under way at a time
    MaxChanges,  \* bound on changes of the tournament
    Kinds,       \* the actions the user takes: a subset of Actions
    MaxFails,    \* bound on requests that fail
    None

VARIABLES
    data,      \* the tournament that Data keeps
    props,     \* tournament, of the last server render
    tournamentState,  \* what is shown on top of a render, and that render
    polls,     \* the status requests of the running effect
    revision,  \* the revision that its next request tells
    told,      \* terminalRefreshed
    refresh,   \* how many refreshes wait, and the render on its way
    action,    \* the action and the renaming under way
    lost,      \* ghost: Data carried out an action whose answer was lost
    fails      \* requests that may still fail

vars == <<data, props, tournamentState, polls, revision, told, refresh, action, lost, fails>>

\* The setup is READY before its insights are: that is "ENRICHING", until they are
\* there or their repair is exhausted.
Tournament == [setup : {"PENDING", "ENRICHING", "READY", "FAILED"},
               roster : {"SYNCING", "READY"}, state : {"ACTIVE", "INACTIVE"},
               name : {"old", "new"}, updatedAt : Nat]
Actions == {"retry_setup", "retry_roster", "pause", "resume", "rename"}

\* lifecycleWorkInFlight, and the end of it as the poll understands it.
InFlight(t) == t.setup \in {"PENDING", "ENRICHING"} \/ t.roster = "SYNCING"
Terminal(t) == t.setup # "PENDING" /\ t.roster # "SYNCING"

\* currentTournament
Shown == IF tournamentState.serverTournament = props
         THEN tournamentState.currentTournament ELSE props
Agreed(t) == [serverTournament |-> t, currentTournament |-> t]

NoPolls == [s \in Slot |-> None]
Asks(attempt, rev) == [attempt |-> attempt, revision |-> rev, answer |-> None]
First == CHOOSE s \in Slot : TRUE

\* runAction and renameTournament each do one thing at a time.
Doer == {"run", "rename"}
DoneBy(a) == IF a = "rename" THEN "rename" ELSE "run"

Init ==
    /\ data \in {[setup |-> s, roster |-> r, state |-> "ACTIVE", name |-> "old",
                  updatedAt |-> 0] : s \in {"PENDING", "FAILED"}, r \in {"SYNCING", "READY"}}
    /\ props = data /\ tournamentState = Agreed(data)
    /\ polls = [NoPolls EXCEPT ![First] = IF InFlight(data) THEN Asks(1, 0) ELSE None]
    /\ revision = 0 /\ told = FALSE
    /\ refresh = [asked |-> 0, render |-> None]
    /\ action = [d \in Doer |-> None] /\ lost = FALSE /\ fails = MaxFails

\* Data's own work.
Changed(t) == [t EXCEPT !.updatedAt = @ + 1]
Work ==
    /\ data.updatedAt < MaxChanges
    /\ \/ data.setup = "PENDING"
          /\ \E s \in {"ENRICHING", "FAILED"} : data' = Changed([data EXCEPT !.setup = s])
       \/ data.setup = "ENRICHING" /\ data' = Changed([data EXCEPT !.setup = "READY"])
       \/ data.roster = "SYNCING" /\ data' = Changed([data EXCEPT !.roster = "READY"])
    /\ UNCHANGED <<props, tournamentState, polls, revision, told, refresh, action, lost, fails>>

-----------------------------------------------------------------------------
\* router.refresh(); a refresh beyond the one that waits would see no less.
RefreshAsked == [refresh EXCEPT !.asked = 1]

\* An effect that goes on when the server renders again.
RunsOnAcrossRenders == InFlight(Shown') = InFlight(Shown)
\* The dependencies of the polling effect.
RunsOn == InFlight(Shown') = InFlight(Shown) /\ props'.updatedAt = props.updatedAt

\* The effect of the new state and props: it runs on with the polls given, or starts
\* again with one poll, or not at all.
Polling(going) ==
    IF RunsOn
    THEN polls' = going.polls /\ revision' = going.revision /\ told' = going.told
    ELSE /\ polls' = [NoPolls EXCEPT ![First] =
                         IF InFlight(Shown') THEN Asks(1, props'.updatedAt) ELSE None]
         /\ revision' = props'.updatedAt /\ told' = FALSE
Going == [polls |-> polls, revision |-> revision, told |-> told]

\* The interval, while the page is visible and online.
Tick(s) ==
    /\ InFlight(Shown) /\ polls[s] = None
    /\ polls' = [polls EXCEPT ![s] = Asks(1, revision)]
    /\ UNCHANGED <<data, props, tournamentState, revision, told, refresh, action, lost, fails>>

\* Data answers.
PollRead(s) ==
    /\ polls[s] # None /\ polls[s].answer = None
    /\ polls' = [polls EXCEPT ![s].answer = data]
    /\ UNCHANGED <<data, props, tournamentState, revision, told, refresh, action, lost, fails>>

\* 409: the answer has no status, only the revision to ask for instead, once.
PollAgain(s) ==
    /\ polls[s] # None /\ polls[s].answer # None
    /\ LET asked == polls[s].answer.updatedAt
       IN  /\ polls[s].revision # asked
           /\ revision' = asked
           /\ polls' = [polls EXCEPT ![s] = IF @.attempt = 1 THEN Asks(2, asked) ELSE None]
    /\ UNCHANGED <<data, props, tournamentState, told, refresh, action, lost, fails>>

\* The status has no name; the first terminal one of an effect asks for a render.
PollAnswer(s) ==
    /\ polls[s] # None /\ polls[s].answer # None
    /\ polls[s].revision = polls[s].answer.updatedAt
    /\ LET status == polls[s].answer
           ends == Terminal(status) /\ ~told
           name == tournamentState.currentTournament.name
       IN  /\ tournamentState' =
                [tournamentState EXCEPT !.currentTournament = [status EXCEPT !.name = name]]
           /\ UNCHANGED props
           /\ Polling([polls |-> [polls EXCEPT ![s] = None], revision |-> status.updatedAt,
                       told |-> told \/ ends])
           /\ refresh' = IF ends THEN RefreshAsked ELSE refresh
    /\ UNCHANGED <<data, action, lost, fails>>

PollFails(s) ==
    /\ polls[s] # None /\ fails > 0 /\ fails' = fails - 1
    /\ polls' = [polls EXCEPT ![s] = None]
    /\ UNCHANGED <<data, props, tournamentState, revision, told, refresh, action, lost>>

-----------------------------------------------------------------------------
\* A refresh reads the tournament and later renders it, one at a time.
RefreshRead ==
    /\ refresh.asked > 0 /\ refresh.render = None
    /\ refresh' = [asked |-> refresh.asked - 1, render |-> data]
    /\ UNCHANGED <<data, props, tournamentState, polls, revision, told, action, lost, fails>>

\* A render that the state goes with (serverRevision) leaves the state alone.
Render ==
    /\ refresh.render # None
    /\ props' = refresh.render
    /\ tournamentState' = IF tournamentState.serverTournament = props' THEN tournamentState
                          ELSE Agreed(props')
    /\ refresh' = [refresh EXCEPT !.render = None]
    /\ Polling(Going)
    /\ UNCHANGED <<data, action, lost, fails>>

-----------------------------------------------------------------------------
\* What an action asks of Data, and what the page shows of it at once.
Carried(t, a) ==
    CASE a = "retry_setup" -> [t EXCEPT !.setup = "PENDING"]
      [] a = "retry_roster" -> [t EXCEPT !.roster = "SYNCING"]
      [] a = "pause" -> [t EXCEPT !.state = "INACTIVE"]
      [] a = "resume" -> [t EXCEPT !.state = "ACTIVE", !.setup = "PENDING"]
      [] a = "rename" -> [t EXCEPT !.name = "new"]
Optimistic(t, a) ==
    IF a = "resume" THEN [t EXCEPT !.setup = "PENDING"] ELSE Carried(t, a)

\* What TournamentOperationsCard and the form of the name let the user do.
Offered(a) ==
    CASE a = "retry_setup" -> Shown.setup = "FAILED"
      [] a = "retry_roster" -> Shown.roster # "SYNCING"
      [] a = "pause" -> Shown.state = "ACTIVE"
      [] a = "resume" -> Shown.state = "INACTIVE" /\ Shown.setup # "PENDING"
      [] a = "rename" -> Shown.name # "new"

\* runAction and renameTournament; from is the render that its closure sees.
Start(a) ==
    /\ action[DoneBy(a)] = None /\ Offered(a) /\ data.updatedAt < MaxChanges
    /\ action' = [action EXCEPT ![DoneBy(a)] = [kind |-> a, done |-> FALSE, from |-> props]]
    /\ UNCHANGED <<data, props, tournamentState, polls, revision, told, refresh, lost, fails>>

Carry(d) ==
    /\ action[d] # None /\ ~action[d].done /\ data.updatedAt < MaxChanges
    /\ data' = Changed(Carried(data, action[d].kind))
    /\ action' = [action EXCEPT ![d].done = TRUE]
    /\ UNCHANGED <<props, tournamentState, polls, revision, told, refresh, lost, fails>>

\* updateCurrentTournament, of the render that the action began under: the state goes
\* with that one again, and is not shown when another has been rendered since.
Updated(from, a) ==
    LET base == IF tournamentState.serverTournament = from
                THEN tournamentState.currentTournament ELSE from
    IN  [serverTournament |-> from, currentTournament |-> Optimistic(base, a)]

Succeed(d) ==
    /\ action[d] # None /\ action[d].done
    /\ tournamentState' = Updated(action[d].from, action[d].kind)
    /\ UNCHANGED props
    /\ Polling(Going)
    /\ refresh' = RefreshAsked
    /\ action' = [action EXCEPT ![d] = None]
    /\ UNCHANGED <<data, lost, fails>>

\* The request fails, which it may after Data has carried it out.
ActionFails(d) ==
    /\ action[d] # None /\ fails > 0 /\ fails' = fails - 1
    /\ lost' = (lost \/ action[d].done)
    /\ action' = [action EXCEPT ![d] = None]
    /\ UNCHANGED <<data, props, tournamentState, polls, revision, told, refresh>>

Next ==
    \/ Work \/ RefreshRead \/ Render
    \/ \E d \in Doer : Carry(d) \/ Succeed(d) \/ ActionFails(d)
    \/ \E s \in Slot : Tick(s) \/ PollRead(s) \/ PollAgain(s) \/ PollAnswer(s) \/ PollFails(s)
    \/ \E a \in Kinds : Start(a)

\* Requests end, and the interval goes on while the effect runs.  Data need not work.
RefreshGoesOn == RefreshRead \/ Render
PollGoesOn(s) == PollRead(s) \/ PollAgain(s) \/ PollAnswer(s)
Fairness ==
    /\ WF_vars(RefreshGoesOn)
    /\ \A d \in Doer : WF_vars(Succeed(d))
    /\ \A s \in Slot : WF_vars(Tick(s)) /\ WF_vars(PollGoesOn(s))

Spec == Init /\ [][Next]_vars /\ Fairness

-----------------------------------------------------------------------------
\* However polls overtake each other, the user's actions and the renders, in the end
\* the page shows what Data keeps, also when an action that began under an earlier
\* render hides what is polled; only an action whose answer was lost may leave it
\* behind (the deps and the cleanup of the polling effect, the refresh after an action).
StatusCatchesUp == <>[](lost \/ Shown = data)
=============================================================================
