----------------------------- MODULE LivePoints -----------------------------
(***************************************************************************)
(* The live points page: the hook app/live/points/_hooks/useLivePoints.ts  *)
(* as LivePointsClient drives it.  One browser page, many calls in flight: *)
(* points of an entry in a gameweek, explanations of those points,         *)
(* lifecycle probes of a chosen gameweek, freshness probes of the          *)
(* countdown.  Answers come in any order, or not at all, and may be served *)
(* from an older publication; the user changes the selection meanwhile.    *)
(*                                                                         *)
(* The counters that fence late answers (requestIdRef, gameweekSelectionRef)*)
(* are kept in the calls: a call is current while its counter has not moved.*)
(* A call whose answer changes nothing any more is forgotten.  The in-flight*)
(* slot is a flag of the request it points to.                             *)
(* A publication is its generation, which also stands for its core         *)
(* revision.  There is one season; the rate-limit fence is a failure.      *)
(***************************************************************************)
EXTENDS Integers

CONSTANTS
    Entry,         \* FPL entries
    LastGameweek,  \* gameweeks are 1..LastGameweek
    MaxGen,        \* bound: publications per gameweek
    Retries,       \* the length of LIVE_DATA_RETRY_DELAYS_MS
    Actions,       \* what happens to the page, of ActionKind
    MaxActions,    \* bound: how often
    None           \* null, and the entry id 0

ActionKind == {"submit", "gameweek", "refresh"}

Gameweek == 1..LastGameweek
Key == [entry: Entry, gw: Gameweek]
Data == [key: Key, gen: 1..MaxGen]
Snapshot == [event: Gameweek, gen: 0..MaxGen]
Armed == [key: Key, n: 0..Retries]

ASSUME LivePointsAssumption ==
    /\ LastGameweek \in Nat \ {0} /\ MaxGen \in Nat \ {0}
    /\ Retries \in Nat /\ MaxActions \in Nat
    /\ Actions \subseteq ActionKind
    /\ None \notin Entry \cup Gameweek \cup Key \cup Data \cup Snapshot \cup Armed

VARIABLES
    ui,       \* the hook's state and refs, and its calls in flight
    server,   \* the anchor gameweek and the latest generation of each
    budget    \* bound: actions still to come

vars == <<ui, server, budget>>

\* live is latestLiveDataRef (present if and only if hasLoadedLiveDataRef),
\* players the data the painted pitch was computed from, snap snapshotRef, key
\* currentRequestKeyRef, syncing the official-sync hint that keeps polling
\* armed, timer the gameweek an armed retry will fetch.
Page == [entry: Entry \cup {None}, gw: Gameweek, cur: Gameweek, follows: BOOLEAN,
         syncing: BOOLEAN, loading: BOOLEAN, live: Data \cup {None},
         players: Data \cup {None}, snap: Snapshot \cup {None}, key: Key \cup {None},
         retry: Armed \cup {None}, timer: Gameweek \cup {None},
         skip: BOOLEAN,
         fetches: SUBSET [key: Key, switching: BOOLEAN, slot: BOOLEAN, current: BOOLEAN],
         explains: SUBSET [data: Data, current: BOOLEAN],
         selects: SUBSET Key, autos: SUBSET [key: Key, cur: Gameweek]]

At(entry, gw) == [entry |-> entry, gw |-> gw]

-----------------------------------------------------------------------------
(* Fetching the points of a gameweek.                                      *)

Late(calls) == {[c EXCEPT !.current = FALSE] : c \in calls}
Useful(fetches) == {f \in fetches : f.slot \/ f.current}

\* requestIdRef moves on.  A retry armed for the last request will do nothing.
FencedTimerOnly(u) == [u EXCEPT !.timer = None]
Fenced(u) ==
    [u EXCEPT !.fetches = Useful(Late(@)), !.explains = Late(@), !.autos = {}, !.timer = None]

Cleared(u) == [u EXCEPT !.live = None, !.players = None, !.snap = None, !.loading = TRUE]

NoRetry(u) == [u EXCEPT !.retry = None, !.timer = None]

InFlight(u, key) == \E f \in u.fetches : f.slot /\ f.key = key

\* The slot no longer points to any request.
SlotKept(u) == u
Released(u) == [u EXCEPT !.fetches = Useful({[f EXCEPT !.slot = FALSE] : f \in @})]

\* Another gameweek or entry than the one painted or last observed.
Switching(u, key) ==
    \/ u.snap # None /\ u.snap.event # key.gw
    \/ u.live # None /\ u.live.key # key

\* u after fetchLivePointsForGameweek(gw) of the render whose entry is given.
Fetched(u, entry, gw) ==
    LET key == At(entry, gw)
        same == u.retry # None /\ u.retry.key = key
        kept == IF same THEN u
                ELSE [u EXCEPT !.timer = None, !.retry = [key |-> key, n |-> 0]]
        started == [Released(Fenced(kept)) EXCEPT
                        !.key = key,
                        !.loading = IF u.live = None THEN TRUE ELSE @,
                        !.fetches = @ \cup {[key |-> key, switching |-> Switching(u, key),
                                             slot |-> TRUE, current |-> TRUE]}]
    IN  CASE entry = None -> u
          [] entry # None /\ InFlight(u, key) -> kept
          [] OTHER -> IF Switching(u, key) THEN Cleared(started) ELSE started

-----------------------------------------------------------------------------
(* Its answers.                                                            *)

Answered(f) == [ui EXCEPT !.fetches = @ \ {f}]

Quiet == UNCHANGED <<server, budget>>

Ended(u) == [u EXCEPT !.loading = FALSE]

CanReplaceUnordered(new, old) == old = None \/ new.event = old.event
CanReplace(new, old) == old = None \/ (new.event = old.event /\ new.gen >= old.gen)

Painted(u, data) ==
    [u EXCEPT !.live = data, !.players = data,
              !.snap = [event |-> data.key.gw, gen |-> data.gen],
              !.syncing = @ /\ data.key.gw # u.cur,
              !.explains = @ \cup {[data |-> data, current |-> TRUE]}]

\* A squad, perhaps of an older publication, which is not painted over a newer.
FetchReady(f, gen) ==
    /\ gen \in 1..server.gen[f.key.gw]
    /\ LET done == Ended([Answered(f) EXCEPT !.retry = None])
           fits == CanReplace([event |-> f.key.gw, gen |-> gen], done.snap)
       IN  ui' = IF ~f.current THEN Answered(f)
                 ELSE IF fits THEN Painted(done, [key |-> f.key, gen |-> gen]) ELSE done
    /\ Quiet

Retains(key) == ui.live # None /\ ui.live.key = key

Tried == IF ui.retry = None THEN 0 ELSE ui.retry.n
MayRetry == Tried < Retries

\* No squad: the producer has not read it yet (PENDING_SYNC) ...
FetchPending(f) ==
    /\ f.current => MayRetry
    /\ ui' = IF ~f.current THEN Answered(f)
             ELSE [Answered(f) EXCEPT !.retry = [key |-> f.key, n |-> Tried + 1],
                                      !.timer = f.key.gw]
    /\ Quiet

\* ... or has none, or took too long.  What is painted stays.
FetchEmpty(f) ==
    /\ LET done == Ended([Answered(f) EXCEPT !.retry = None])
       IN  IF ~f.current THEN ui' = Answered(f)
           ELSE IF Retains(f.key) THEN ui' = done
           ELSE \E s \in {None} \cup [event: {f.key.gw}, gen: 0..server.gen[f.key.gw]] :
                    ui' = [done EXCEPT !.live = None, !.players = None, !.snap = s]
    /\ Quiet

FetchFails(f) ==
    /\ ui' = IF ~f.current THEN Answered(f)
             ELSE Ended(IF f.switching THEN Cleared(Answered(f)) ELSE Answered(f))
    /\ Quiet

FetchAnswers ==
    \E f \in ui.fetches :
        \/ \E gen \in 1..MaxGen : FetchReady(f, gen)
        \/ FetchPending(f) \/ FetchEmpty(f) \/ FetchFails(f)

RetryFires ==
    /\ ui.timer # None
    /\ ui' = Fetched([ui EXCEPT !.timer = None], ui.entry, ui.timer)
    /\ Quiet

\* selectLiveDataForExplainResponse: the data the explanations are painted on.
ExplainTarget(e) ==
    IF Retains(e.data.key) /\ (e.current \/ ui.key = e.data.key) THEN ui.live
    ELSE IF e.current THEN e.data ELSE None

ExplainAnswers ==
    /\ \E e \in ui.explains :
        \E painted \in {ui.players} \cup ({ExplainTarget(e)} \ {None}) :
            ui' = [ui EXCEPT !.explains = @ \ {e}, !.players = painted]
    /\ Quiet

-----------------------------------------------------------------------------
(* Lifecycle contexts, perhaps of an older publication, or none.           *)

Contexts ==
    UNION {[anchor: {a}, gen: 0..server.gen[a], updating: BOOLEAN] : a \in 1..server.anchor}

Later(a, b) == IF a >= b THEN a ELSE b

\* refreshOfficialSyncStateForCurrentEvent: an anchor is never taken back.
Probed(u, gw, c) ==
    LET accepted == Later(u.cur, c.anchor)
    IN  [u EXCEPT !.cur = accepted, !.syncing = c.updating /\ gw = accepted]

SelectAnswers ==
    /\ \E key \in ui.selects :
        LET u == [ui EXCEPT !.selects = @ \ {key}]
            Then(v) == ui' = Fetched(v, key.entry, key.gw)
        IN  \/ \E c \in Contexts : Then(Probed(u, key.gw, c))
            \/ Then(u)
            \/ Then([u EXCEPT !.syncing = key.gw = u.cur])
    /\ Quiet

NeedsRefresh(accepted, observed) == accepted = None \/ accepted # observed

RefetchedAfterAccepting(u, a, observed) ==
    Fetched([u EXCEPT !.snap = observed], a.key.entry, a.key.gw)
Refetched(u, a, observed) == Fetched(u, a.key.entry, a.key.gw)

\* autoRefresh once its probe has answered with context c.
AutoRefreshed(u, a, c) ==
    LET selected == IF u.follows THEN c.anchor ELSE a.key.gw
        observed == [event |-> c.anchor, gen |-> c.gen]
        v == [u EXCEPT !.cur = c.anchor, !.syncing = c.updating /\ selected = c.anchor]
    IN  CASE c.anchor # a.cur /\ u.follows ->
                Fetched([v EXCEPT !.gw = c.anchor], a.key.entry, c.anchor)
          [] c.anchor # a.cur /\ ~u.follows -> v
          [] c.anchor = a.cur /\ NeedsRefresh(v.snap, observed) -> Refetched(v, a, observed)
          [] OTHER ->
                IF u.live # None /\ u.live.key = u.key /\ u.live.key.gw = a.key.gw
                THEN [v EXCEPT !.explains = @ \cup {[data |-> u.live, current |-> TRUE]}]
                ELSE v

AutoAnswers ==
    /\ \E a \in ui.autos :
        LET u == [ui EXCEPT !.autos = @ \ {a}]
        IN  \/ ui' = u
            \/ \E c \in Contexts : ui' = AutoRefreshed(u, a, c)
            \/ ui' = Fetched([u EXCEPT !.syncing = FALSE], a.key.entry, a.key.gw)
    /\ Quiet

\* The dashboard, and with it the countdown, is on the page.
Dashboard == ui.entry # None /\ ~(ui.loading /\ ui.live = None)

ShouldPoll ==
    /\ ui.gw = ui.cur
    /\ ui.snap = None \/ ui.snap.event # ui.gw => ui.syncing

\* The countdown starts no probe while the last one is under way; here a probe
\* is over when its answer is in, the code also awaits the fetch it starts.
AutoRefresh ==
    /\ Dashboard /\ ShouldPoll
    /\ ui.autos = {}
    /\ ui' = [ui EXCEPT !.autos = {[key |-> At(ui.entry, ui.gw), cur |-> ui.cur]}]
    /\ Quiet

-----------------------------------------------------------------------------
(* What happens to the page.                                               *)

Acts(kind) == kind \in Actions /\ budget > 0 /\ budget' = budget - 1 /\ UNCHANGED server

Unselected(u) == [u EXCEPT !.selects = {}]

\* The effect of a new activeEntryId fetches, unless the data was seeded.
EntryLoaded(u) == IF u.skip THEN [u EXCEPT !.skip = FALSE] ELSE Fetched(u, u.entry, u.gw)

SubmitEntry(e) ==
    /\ Acts("submit")
    /\ ui' = IF e = ui.entry THEN Fetched(NoRetry(ui), e, ui.gw)
             ELSE EntryLoaded(Cleared(Fenced(Unselected(
                    [NoRetry(ui) EXCEPT !.entry = e, !.key = None]))))

\* The gameweek selector, up to the current gameweek.
ChangeGameweek(gw) ==
    /\ Acts("gameweek")
    /\ Dashboard /\ gw # ui.gw /\ gw <= ui.cur
    /\ LET left == Cleared(Fenced(Released(Unselected([NoRetry(ui) EXCEPT !.key = None]))))
           u == [left EXCEPT !.gw = gw, !.follows = FALSE, !.syncing = @ /\ gw = ui.cur]
       IN  ui' = IF gw = ui.cur
                 THEN [u EXCEPT !.selects = @ \cup {At(ui.entry, gw)}]
                 ELSE Fetched(u, ui.entry, gw)

Refresh ==
    /\ Acts("refresh")
    /\ Dashboard
    /\ ui' = Fetched(NoRetry(ui), ui.entry, ui.gw)

\* The server rendered the page with the points of e: data, or none and the
\* snapshot of the context.
WithData(u, data) ==
    [Ended(Fenced(u)) EXCEPT !.key = data.key, !.live = data, !.players = data,
        !.snap = [event |-> data.key.gw, gen |-> data.gen],
        !.explains = @ \cup {[data |-> data, current |-> TRUE]}]

WithoutData(u, entry, snap) ==
    Fetched([Cleared(u) EXCEPT !.key = None, !.snap = snap], entry, u.gw)

Seeds(u, entry) ==
    IF u.entry = None THEN {u}
    ELSE {WithData(u, [key |-> At(u.entry, u.gw), gen |-> gen]) : gen \in 1..server.gen[u.gw]}
         \cup {WithoutData(u, entry, s) :
                  s \in {None} \cup [event: {u.gw}, gen: 0..server.gen[u.gw]]}

Happens ==
    \/ \E e \in Entry : SubmitEntry(e)
    \/ \E gw \in Gameweek : ChangeGameweek(gw)
    \/ Refresh

-----------------------------------------------------------------------------
(* The server, and the whole.                                              *)

Publish ==
    \E gw \in 1..server.anchor :
        /\ server.gen[gw] < MaxGen
        /\ server' = [server EXCEPT !.gen[gw] = @ + 1]
        /\ UNCHANGED <<ui, budget>>

NextGameweek ==
    /\ server.anchor < LastGameweek
    /\ server' = [server EXCEPT !.anchor = @ + 1]
    /\ UNCHANGED <<ui, budget>>

\* As the hook mounts, before its first effects.
Blank(e, gw, updating) ==
    [entry |-> e, gw |-> gw, cur |-> gw, follows |-> TRUE, syncing |-> updating,
     loading |-> FALSE, live |-> None, players |-> None, snap |-> None, key |-> None,
     retry |-> None, timer |-> None, skip |-> FALSE,
     fetches |-> {}, explains |-> {}, selects |-> {}, autos |-> {}]

Init ==
    /\ \E anchor \in Gameweek, gen \in 0..1 :
        server = [anchor |-> anchor, gen |-> [gw \in Gameweek |-> IF gw <= anchor THEN gen ELSE 0]]
    /\ \E e \in Entry \cup {None}, updating \in BOOLEAN :
        ui \in Seeds(Blank(e, server.anchor, updating), e)
    /\ budget = MaxActions

Next ==
    \/ FetchAnswers \/ RetryFires \/ ExplainAnswers \/ SelectAnswers
    \/ AutoRefresh \/ AutoAnswers
    \/ Happens
    \/ Publish \/ NextGameweek

Spec == Init /\ [][Next]_vars

\* Calls are answered or time out, armed timers fire, a page that may poll is
\* visible again and again.  Data answers with its latest publication again and
\* again, if asked again and again.
FreshContext ==
    /\ \E a \in ui.autos : ui' = AutoRefreshed([ui EXCEPT !.autos = @ \ {a}], a,
            [anchor |-> server.anchor, gen |-> server.gen[server.anchor], updating |-> FALSE])
    /\ Quiet
FreshPoints == \E f \in ui.fetches : f.current /\ FetchReady(f, server.gen[f.key.gw])

Fairness ==
    /\ WF_vars(FetchAnswers) /\ WF_vars(RetryFires) /\ WF_vars(SelectAnswers)
    /\ WF_vars(AutoRefresh) /\ WF_vars(AutoAnswers)
    /\ SF_vars(FreshContext) /\ SF_vars(FreshPoints)

FairSpec == Spec /\ Fairness

-----------------------------------------------------------------------------
(* Properties.                                                             *)

\* Every variable has its type; in particular a retry is armed only as often as
\* there are delays for it.
TypeOK ==
    /\ ui \in Page
    /\ server \in [anchor: Gameweek, gen: [Gameweek -> 0..MaxGen]]
    /\ budget \in 0..MaxActions

\* What is painted belongs to the selected entry and gameweek, whichever answer
\* came late, and the players are those of the painted score ("Neither old
\* points nor late responses belong to the new GW", useLivePoints.ts:732).
PaintedIsSelected ==
    ui.entry # None =>
        /\ ui.live # None => ui.live.key = At(ui.entry, ui.gw)
        /\ ui.players = ui.live

\* A score on the page is never replaced by an older one, though any answer may
\* come from an older publication and answers overtake each other.
ScoreNeverBack ==
    [][ui.live # None /\ ui.live' # None /\ ui.live.key = ui'.live.key
            => ui'.live.gen >= ui.live.gen]_vars

\* Loading ends: no request is deduplicated against one whose answer will be
\* dropped, no retry is armed and forgotten, no selection left without a fetch.
LoadEnds == ui.loading ~> ~ui.loading

\* The score of the current gameweek catches up with what Data has published:
\* no accepted snapshot runs ahead of the score it describes, and polling is
\* not disarmed while the page shows that gameweek.
Behind == ui.live # None /\ ui.gw = ui.cur /\ ui.live.gen < server.gen[ui.gw]
ScoreCatchesUp == Behind ~> ~Behind
=============================================================================
