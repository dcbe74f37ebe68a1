-------------------------- MODULE LivePointsProofs --------------------------
(***************************************************************************)
(* Proofs about LivePoints, for any entries, gameweeks, publications and   *)
(* actions: what is painted belongs to the selection and a score never     *)
(* goes back.  The argument is one about fences: a request, probe or armed *)
(* retry that may still act is one for the selected entry and gameweek     *)
(* (Sound), because whatever changes the selection fences the rest, and a  *)
(* request that is joined instead of restarted is one for the selection.   *)
(***************************************************************************)
EXTENDS LivePoints, TLAPS

\* What the calls of page u may still do is for its selection.
Sound(u) ==
    /\ u.live # None =>
        /\ u.live.key = At(u.entry, u.gw)
        /\ u.snap = [event |-> u.live.key.gw, gen |-> u.live.gen]
    /\ u.players = u.live
    /\ \A f \in u.fetches :
        /\ f.slot \/ f.current => f.key = At(u.entry, u.gw)
        /\ f.current /\ f.switching => u.live = None
    /\ \A f, g \in u.fetches : f.current /\ g.current => f = g
    /\ \A e \in u.explains : e.current => u.live # None /\ u.live.key = e.data.key
    /\ \A key \in u.selects : key = At(u.entry, u.gw) /\ ~u.follows
    /\ \A a \in u.autos : a.key = At(u.entry, u.gw)
    /\ \A a, b \in u.autos : a = b
    /\ u.timer \in {None, u.gw}
    /\ ~u.skip

IInv == TypeOK /\ Sound(ui)

-----------------------------------------------------------------------------
(* Fences and fetches.                                                     *)

Fetch == [key: Key, switching: BOOLEAN, slot: BOOLEAN, current: BOOLEAN]
Explain == [data: Data, current: BOOLEAN]

\* A call made late keeps all but its currency.
LEMMA LateFetches ==
    ASSUME NEW calls \in SUBSET Fetch
    PROVE  Late(calls) \in SUBSET Fetch /\ \A c \in Late(calls) : ~c.current
  BY DEF Late, Fetch

LEMMA LateExplains ==
    ASSUME NEW calls \in SUBSET Explain
    PROVE  Late(calls) \in SUBSET Explain /\ \A c \in Late(calls) : ~c.current
  BY DEF Late, Explain

\* The fields that Fenced leaves, and those it sets.
LEMMA FencedFields ==
    ASSUME NEW u \in Page
    PROVE  /\ Fenced(u) = [u EXCEPT !.fetches = Useful(Late(u.fetches)),
                                    !.explains = Late(u.explains), !.autos = {}, !.timer = None]
           /\ Fenced(u) \in Page
           /\ \A f \in Fenced(u).fetches : ~f.current
           /\ \A e \in Fenced(u).explains : ~e.current
  <1>1. u.fetches \in SUBSET Fetch /\ u.explains \in SUBSET Explain
    BY DEF Page, Fetch, Explain
  <1>2. /\ Useful(Late(u.fetches)) \in SUBSET Fetch
        /\ \A f \in Useful(Late(u.fetches)) : ~f.current
    BY <1>1, LateFetches DEF Useful
  <1>3. /\ Late(u.explains) \in SUBSET Explain
        /\ \A e \in Late(u.explains) : ~e.current
    BY <1>1, LateExplains
  <1>4. Fenced(u) = [u EXCEPT !.fetches = Useful(Late(u.fetches)),
                              !.explains = Late(u.explains), !.autos = {}, !.timer = None]
    BY DEF Fenced
  <1>5. QED
    BY <1>2, <1>3, <1>4 DEF Page, Fetch, Explain

\* The same, field by field.
LEMMA FencedParts ==
    ASSUME NEW u \in Page
    PROVE  /\ Fenced(u).entry = u.entry /\ Fenced(u).gw = u.gw /\ Fenced(u).follows = u.follows
           /\ Fenced(u).live = u.live /\ Fenced(u).players = u.players
           /\ Fenced(u).snap = u.snap /\ Fenced(u).skip = u.skip
           /\ Fenced(u).selects = u.selects
           /\ Fenced(u).fetches = Useful(Late(u.fetches))
           /\ Fenced(u).explains = Late(u.explains)
           /\ Fenced(u).autos = {} /\ Fenced(u).timer = None
  <1> DEFINE fetches == Useful(Late(u.fetches))
             explains == Late(u.explains)
  <1>1. Fenced(u) = [u EXCEPT !.fetches = fetches, !.explains = explains,
                              !.autos = {}, !.timer = None]
    BY FencedFields
  <1> HIDE DEF fetches, explains
  <1>2. /\ Fenced(u).entry = u.entry /\ Fenced(u).gw = u.gw /\ Fenced(u).follows = u.follows
        /\ Fenced(u).live = u.live /\ Fenced(u).players = u.players
        /\ Fenced(u).snap = u.snap /\ Fenced(u).skip = u.skip
        /\ Fenced(u).selects = u.selects
    BY <1>1 DEF Page
  <1>3. /\ Fenced(u).fetches = fetches /\ Fenced(u).explains = explains
        /\ Fenced(u).autos = {} /\ Fenced(u).timer = None
    BY <1>1 DEF Page
  <1>4. QED
    BY <1>2, <1>3 DEF fetches, explains

\* Once fenced and released no earlier request is left.
LEMMA FencedReleased ==
    ASSUME NEW u \in Page
    PROVE  Released(Fenced(u)) = [u EXCEPT !.fetches = {}, !.explains = Late(u.explains),
                                           !.autos = {}, !.timer = None]
  <1> DEFINE w == Fenced(u)
  <1>1. w \in Page /\ \A f \in w.fetches : ~f.current
    BY FencedFields
  <1>2. w.fetches \in SUBSET Fetch
    BY <1>1 DEF Page, Fetch
  <1> HIDE DEF w
  <1>3. \A f \in {[g EXCEPT !.slot = FALSE] : g \in w.fetches} : ~f.slot /\ ~f.current
    BY <1>1, <1>2 DEF Fetch
  <1>4. Useful({[f EXCEPT !.slot = FALSE] : f \in w.fetches}) = {}
    BY <1>3 DEF Useful
  <1>5. Released(w) = [w EXCEPT !.fetches = {}]
    BY <1>4 DEF Released
  <1>6. w = [u EXCEPT !.fetches = Useful(Late(u.fetches)),
                      !.explains = Late(u.explains), !.autos = {}, !.timer = None]
    BY FencedFields DEF w
  <1>7. Released(w) = [u EXCEPT !.fetches = {}, !.explains = Late(u.explains),
                                !.autos = {}, !.timer = None]
    BY <1>5, <1>6 DEF Page
  <1>8. QED
    BY <1>7 DEF w

\* Clearing touches what is painted and what describes it.
LEMMA ClearedFields ==
    ASSUME NEW u \in Page
    PROVE  /\ Cleared(u) \in Page
           /\ Cleared(u).live = None /\ Cleared(u).players = None
           /\ Cleared(u).entry = u.entry /\ Cleared(u).gw = u.gw
           /\ Cleared(u).follows = u.follows /\ Cleared(u).skip = u.skip
           /\ Cleared(u).fetches = u.fetches /\ Cleared(u).explains = u.explains
           /\ Cleared(u).selects = u.selects /\ Cleared(u).autos = u.autos
           /\ Cleared(u).timer = u.timer
  <1>1. Cleared(u) \in Page
    BY DEF Cleared, Page
  <1>2. /\ Cleared(u).live = None /\ Cleared(u).players = None
        /\ Cleared(u).entry = u.entry /\ Cleared(u).gw = u.gw
        /\ Cleared(u).follows = u.follows /\ Cleared(u).skip = u.skip
    BY DEF Cleared, Page
  <1>3. /\ Cleared(u).fetches = u.fetches /\ Cleared(u).explains = u.explains
        /\ Cleared(u).selects = u.selects /\ Cleared(u).autos = u.autos
        /\ Cleared(u).timer = u.timer
    BY DEF Cleared, Page
  <1>4. QED
    BY <1>1, <1>2, <1>3

LEMMA StartedType ==
    ASSUME NEW u \in Page, NEW key \in Key, NEW loading \in BOOLEAN, NEW fetch \in Fetch
    PROVE  [u EXCEPT !.key = key, !.loading = loading, !.fetches = {fetch}] \in Page
  BY DEF Page, Fetch

\* A fetch leaves a sound page, and no score but the one painted before, if the
\* request it joins was one for the selection.
LEMMA FetchedSound ==
    ASSUME NEW u \in Page, NEW entry \in Entry, NEW gw \in Gameweek,
           u.entry = entry, u.gw = gw,
           u.live # None => u.snap = [event |-> u.live.key.gw, gen |-> u.live.gen],
           u.players = u.live, ~u.skip,
           \A key \in u.selects : key = At(entry, gw) /\ ~u.follows,
           InFlight(u, At(entry, gw)) => Sound(u)
    PROVE  /\ Fetched(u, entry, gw) \in Page
           /\ Sound(Fetched(u, entry, gw))
           /\ Fetched(u, entry, gw).live \in {None, u.live}
  <1> DEFINE key == At(entry, gw)
             same == u.retry # None /\ u.retry.key = key
             kept == IF same THEN u
                     ELSE [u EXCEPT !.timer = None, !.retry = [key |-> key, n |-> 0]]
             fetch == [key |-> key, switching |-> Switching(u, key),
                       slot |-> TRUE, current |-> TRUE]
             started == [Released(Fenced(kept)) EXCEPT
                            !.key = key, !.loading = IF u.live = None THEN TRUE ELSE @,
                            !.fetches = @ \cup {fetch}]
  <1>1. key \in Key /\ entry # None
    BY LivePointsAssumption DEF At, Key
  <1>2. /\ kept \in Page
        /\ kept.entry = u.entry /\ kept.gw = u.gw /\ kept.follows = u.follows
        /\ kept.live = u.live /\ kept.players = u.players /\ kept.snap = u.snap
        /\ kept.skip = u.skip /\ kept.fetches = u.fetches /\ kept.explains = u.explains
        /\ kept.selects = u.selects /\ kept.autos = u.autos
        /\ kept.timer \in {None, u.timer}
    <2>1. CASE same
      BY <2>1
    <2>2. CASE ~same
      <3>1. [key |-> key, n |-> 0] \in Armed
        BY <1>1, LivePointsAssumption DEF Armed
      <3>2. QED
        BY <2>2, <3>1 DEF Page
    <2>3. QED
      BY <2>1, <2>2
  <1>3. Fetched(u, entry, gw) = IF InFlight(u, key) THEN kept
                                ELSE IF Switching(u, key) THEN Cleared(started) ELSE started
    BY <1>1 DEF Fetched
  <1>4. CASE InFlight(u, key)
    <2> HIDE DEF kept, key
    <2>1. Sound(kept)
      BY <1>2, <1>4 DEF Sound, key
    <2>2. QED
      BY <1>2, <1>3, <1>4, <2>1 DEF key
  <1>5. CASE ~InFlight(u, key)
    <2>1. fetch \in Fetch
      BY <1>1 DEF Fetch, Switching
    <2>2. Released(Fenced(kept)) = [kept EXCEPT !.fetches = {}, !.explains = Late(u.explains),
                                           !.autos = {}, !.timer = None]
      BY <1>2, FencedReleased
    <2>3. /\ Late(u.explains) \in SUBSET Explain
          /\ \A e \in Late(u.explains) : ~e.current
      BY LateExplains DEF Page, Explain
    <2> HIDE DEF kept, key, fetch
    <2>4. /\ started \in Page
          /\ started.entry = entry /\ started.gw = gw /\ started.follows = u.follows
          /\ started.live = u.live /\ started.players = u.players /\ started.snap = u.snap
          /\ started.skip = u.skip /\ started.fetches = {fetch}
          /\ started.explains = Late(u.explains)
          /\ started.selects = u.selects /\ started.autos = {} /\ started.timer = None
      <3> DEFINE w == Released(Fenced(kept))
      <3>1. /\ w \in Page /\ w.entry = entry /\ w.gw = gw /\ w.follows = u.follows
            /\ w.live = u.live /\ w.players = u.players /\ w.snap = u.snap
            /\ w.skip = u.skip /\ w.fetches = {} /\ w.explains = Late(u.explains)
            /\ w.selects = u.selects /\ w.autos = {} /\ w.timer = None
        BY <1>2, <2>2, <2>3 DEF Page, Fetch, Explain
      <3> HIDE DEF w
      <3>2. started = [w EXCEPT !.key = key, !.loading = IF u.live = None THEN TRUE ELSE @,
                                !.fetches = {fetch}]
        BY <3>1 DEF w
      <3>3. (IF u.live = None THEN TRUE ELSE w.loading) \in BOOLEAN
        BY <3>1 DEF Page
      <3> HIDE DEF started
      <3>4. started \in Page
        BY <1>1, <2>1, <3>1, <3>2, <3>3, StartedType
      <3>5. QED
        BY <3>1, <3>2, <3>4 DEF Page
    <2> HIDE DEF started
    <2>5. fetch.key = key /\ fetch.switching = Switching(u, key) /\ fetch.current
      BY DEF fetch
    <2>6. CASE Switching(u, key)
      <3> DEFINE w == Cleared(started)
      <3>1. /\ w \in Page
            /\ w.entry = entry /\ w.gw = gw /\ w.follows = u.follows
            /\ w.live = None /\ w.players = None
            /\ w.skip = u.skip /\ w.fetches = {fetch} /\ w.explains = Late(u.explains)
            /\ w.selects = u.selects /\ w.autos = {} /\ w.timer = None
        BY <2>4, ClearedFields
      <3> HIDE DEF w
      <3>2. Sound(w)
        BY <2>3, <2>5, <3>1 DEF Sound, key
      <3>3. QED
        BY <1>3, <1>5, <2>6, <3>1, <3>2 DEF w, key
    <2>7. CASE ~Switching(u, key)
      <3>1. u.live # None => u.live.key = key
        BY <2>7 DEF Switching
      <3>2. Sound(started)
        BY <2>3, <2>4, <2>5, <2>7, <3>1 DEF Sound, key
      <3>3. QED
        BY <1>3, <1>5, <2>4, <2>7, <3>2 DEF key
    <2>8. QED
      BY <2>6, <2>7
  <1>6. QED
    BY <1>4, <1>5

-----------------------------------------------------------------------------
(* Changes that leave what is painted and add no call.                     *)

SameShown(w, u) ==
    /\ w.entry = u.entry /\ w.gw = u.gw /\ w.follows = u.follows
    /\ w.live = u.live /\ w.players = u.players /\ w.snap = u.snap /\ w.skip = u.skip

NoNewCall(w, u) ==
    /\ w.fetches \subseteq u.fetches /\ w.explains \subseteq u.explains
    /\ w.selects \subseteq u.selects /\ w.autos \subseteq u.autos
    /\ w.timer \in {None, u.timer}

Quieter(w, u) == SameShown(w, u) /\ NoNewCall(w, u)

LEMMA QuieterSound ==
    ASSUME NEW u, NEW w, Sound(u), Quieter(w, u)
    PROVE  Sound(w)
  BY DEF Sound, Quieter, SameShown, NoNewCall

LEMMA QuieterStill ==
    ASSUME NEW u, NEW v, NEW w, Quieter(v, u), Quieter(w, v)
    PROVE  Quieter(w, u)
  BY DEF Quieter, SameShown, NoNewCall

LEMMA EndedQuieter ==
    ASSUME NEW u \in Page PROVE Ended(u) \in Page /\ Quieter(Ended(u), u)
  BY DEF Ended, Page, Quieter, SameShown, NoNewCall

LEMMA NoRetryQuieter ==
    ASSUME NEW u \in Page
    PROVE  /\ NoRetry(u) \in Page /\ Quieter(NoRetry(u), u)
           /\ [u EXCEPT !.retry = None] \in Page /\ Quieter([u EXCEPT !.retry = None], u)
           /\ [u EXCEPT !.timer = None] \in Page /\ Quieter([u EXCEPT !.timer = None], u)
  <1>1. NoRetry(u) \in Page /\ Quieter(NoRetry(u), u)
    BY DEF NoRetry, Page, Quieter, SameShown, NoNewCall
  <1>2. [u EXCEPT !.retry = None] \in Page /\ Quieter([u EXCEPT !.retry = None], u)
    BY DEF Page, Quieter, SameShown, NoNewCall
  <1>3. [u EXCEPT !.timer = None] \in Page /\ Quieter([u EXCEPT !.timer = None], u)
    BY DEF Page, Quieter, SameShown, NoNewCall
  <1>4. QED
    BY <1>1, <1>2, <1>3

LEMMA FewerFetches ==
    ASSUME NEW u \in Page, NEW f
    PROVE  /\ [u EXCEPT !.fetches = @ \ {f}] \in Page
           /\ Quieter([u EXCEPT !.fetches = @ \ {f}], u)
           /\ [u EXCEPT !.fetches = @ \ {f}].fetches = u.fetches \ {f}
  BY DEF Page, Quieter, SameShown, NoNewCall

LEMMA FewerSelects ==
    ASSUME NEW u \in Page, NEW key
    PROVE  /\ [u EXCEPT !.selects = @ \ {key}] \in Page
           /\ Quieter([u EXCEPT !.selects = @ \ {key}], u)
  BY DEF Page, Quieter, SameShown, NoNewCall

LEMMA FewerAutos ==
    ASSUME NEW u \in Page, NEW a
    PROVE  /\ [u EXCEPT !.autos = @ \ {a}] \in Page
           /\ Quieter([u EXCEPT !.autos = @ \ {a}], u)
           /\ [u EXCEPT !.autos = @ \ {a}].autos = u.autos \ {a}
  BY DEF Page, Quieter, SameShown, NoNewCall

LEMMA SyncingQuieter ==
    ASSUME NEW u \in Page, NEW syncing \in BOOLEAN, NEW cur \in Gameweek
    PROVE  /\ [u EXCEPT !.syncing = syncing] \in Page
           /\ Quieter([u EXCEPT !.syncing = syncing], u)
           /\ [u EXCEPT !.cur = cur, !.syncing = syncing] \in Page
           /\ Quieter([u EXCEPT !.cur = cur, !.syncing = syncing], u)
  <1>1. [u EXCEPT !.syncing = syncing] \in Page
    BY DEF Page
  <1>2. [u EXCEPT !.cur = cur, !.syncing = syncing] \in Page
    BY DEF Page
  <1>3. Quieter([u EXCEPT !.syncing = syncing], u)
    BY DEF Page, Quieter, SameShown, NoNewCall
  <1>4. Quieter([u EXCEPT !.cur = cur, !.syncing = syncing], u)
    BY DEF Page, Quieter, SameShown, NoNewCall
  <1>5. QED
    BY <1>1, <1>2, <1>3, <1>4

\* A sound page may fetch its selection.
LEMMA SelectionFetched ==
    ASSUME NEW u \in Page, Sound(u), u.entry \in Entry
    PROVE  /\ Fetched(u, u.entry, u.gw) \in Page
           /\ Sound(Fetched(u, u.entry, u.gw))
           /\ Fetched(u, u.entry, u.gw).live \in {None, u.live}
  <1>1. u.gw \in Gameweek
    BY DEF Page
  <1>2. /\ u.live # None => u.snap = [event |-> u.live.key.gw, gen |-> u.live.gen]
        /\ u.players = u.live /\ ~u.skip
        /\ \A key \in u.selects : key = At(u.entry, u.gw) /\ ~u.follows
    BY DEF Sound
  <1>3. QED
    BY <1>1, <1>2, FetchedSound

-----------------------------------------------------------------------------
(* The answers.                                                            *)

\* What a step may make of the score: nothing, or one no older.
NoOlder(new, old) ==
    new # None /\ old # None /\ new.key = old.key => new.gen >= old.gen

Step == ui' \in Page /\ Sound(ui') /\ NoOlder(ui'.live, ui.live)

LEMMA QuieterStep ==
    ASSUME IInv, ui' \in Page, Quieter(ui', ui)
    PROVE  Step
  <1>1. ui'.live = ui.live
    BY DEF Quieter, SameShown
  <1>2. ui.live # None => ui.live.gen \in Int
    BY LivePointsAssumption DEF IInv, TypeOK, Page, Data
  <1>3. NoOlder(ui'.live, ui.live)
    BY <1>1, <1>2 DEF NoOlder
  <1>4. QED
    BY <1>3, QuieterSound DEF IInv, Step

\* A page that is quieter than ui and then fetches its selection.
LEMMA FetchedStep ==
    ASSUME IInv, NEW u \in Page, Quieter(u, ui), NEW entry \in Entry, NEW gw,
           entry = ui.entry, gw = ui.gw, ui' = Fetched(u, entry, gw)
    PROVE  Step
  <1>1. Sound(u) /\ u.entry = entry /\ u.gw = gw /\ u.live = ui.live
    BY QuieterSound DEF IInv, Quieter, SameShown
  <1>2. ui' \in Page /\ Sound(ui') /\ ui'.live \in {None, ui.live}
    BY <1>1, SelectionFetched
  <1>3. ui.live # None => ui.live.gen \in Int
    BY LivePointsAssumption DEF IInv, TypeOK, Page, Data
  <1>4. QED
    BY <1>2, <1>3 DEF Step, NoOlder

LEMMA PaintedType ==
    ASSUME NEW u \in Page, NEW data \in Data, NEW snap \in Snapshot, NEW syncing \in BOOLEAN,
           NEW explains \in SUBSET Explain
    PROVE  [u EXCEPT !.live = data, !.players = data, !.snap = snap, !.syncing = syncing,
                     !.explains = explains] \in Page
  BY DEF Page, Explain

\* The answer of a request that is not current only leaves; that of the current
\* one is for the selection, and paints no publication older than the painted.
LEMMA FetchAnswersStep ==
    ASSUME IInv, NEW f \in ui.fetches,
           \/ \E gen \in 1..MaxGen : FetchReady(f, gen)
           \/ FetchPending(f) \/ FetchEmpty(f) \/ FetchFails(f)
    PROVE  Step
  <1> DEFINE u == Answered(f)
             key == At(ui.entry, ui.gw)
             done == Ended([u EXCEPT !.retry = None])
  <1>1. ui \in Page /\ Sound(ui)
    BY DEF IInv, TypeOK
  <1>2. f.key \in Key /\ f.key.gw \in Gameweek /\ (f.current => f.key = key)
    BY <1>1 DEF Page, Sound, Key
  <1>3. u \in Page /\ Quieter(u, ui) /\ u.fetches = ui.fetches \ {f}
    BY <1>1, FewerFetches DEF Answered
  <1> HIDE DEF u
  <1>4. done \in Page /\ Quieter(done, ui)
    <2>1. [u EXCEPT !.retry = None] \in Page /\ Quieter([u EXCEPT !.retry = None], u)
      BY <1>3, NoRetryQuieter
    <2>2. done \in Page /\ Quieter(done, [u EXCEPT !.retry = None])
      BY <2>1, EndedQuieter
    <2>3. QED
      BY <1>3, <2>1, <2>2, QuieterStill
  <1>5. f.current => \A g \in done.fetches : ~g.current
    <2>1. done.fetches = u.fetches
      BY <1>3 DEF Ended, Page
    <2>2. QED
      BY <1>1, <1>3, <2>1 DEF Sound
  <1> HIDE DEF done
  <1>6. Sound(done)
    BY <1>1, <1>4, QuieterSound
  <1>7. CASE ui' = u
    BY <1>3, <1>7, QuieterStep
  <1>8. CASE ui' = done
    BY <1>4, <1>8, QuieterStep
  <1>9. ASSUME f.current, NEW gen \in 1..MaxGen,
               CanReplace([event |-> f.key.gw, gen |-> gen], done.snap),
               ui' = Painted(done, [key |-> f.key, gen |-> gen])
        PROVE  Step
    <2> DEFINE data == [key |-> f.key, gen |-> gen]
    <2>1. data \in Data /\ data # None /\ data.key = key
      BY <1>2, <1>9, LivePointsAssumption DEF Data
    <2>2. Painted(done, data) \in Page
      <3>1. [event |-> f.key.gw, gen |-> gen] \in Snapshot
        BY <1>2, LivePointsAssumption DEF Snapshot
      <3>2. done.explains \cup {[data |-> data, current |-> TRUE]} \in SUBSET Explain
        <4>1. [data |-> data, current |-> TRUE] \in Explain
          BY <2>1 DEF Explain
        <4>2. done.explains \in SUBSET Explain
          BY <1>4 DEF Page, Explain
        <4>3. QED
          BY <4>1, <4>2
      <3>3. data.key.gw = f.key.gw /\ data.gen = gen
        OBVIOUS
      <3> HIDE DEF data
      <3>4. QED
        BY <1>4, <2>1, <3>1, <3>2, <3>3, PaintedType DEF Painted
    <2>3. /\ ui'.entry = done.entry /\ ui'.gw = done.gw /\ ui'.follows = done.follows
          /\ ui'.live = data /\ ui'.players = data
          /\ ui'.snap = [event |-> f.key.gw, gen |-> gen] /\ ui'.skip = done.skip
      BY <1>4, <1>9 DEF Painted, Page
    <2>4. /\ ui'.fetches = done.fetches /\ ui'.selects = done.selects
          /\ ui'.explains = done.explains \cup {[data |-> data, current |-> TRUE]}
          /\ ui'.autos = done.autos /\ ui'.timer = done.timer
      BY <1>4, <1>9 DEF Painted, Page
    <2>5. Sound(ui')
      <3>1. data.key = f.key /\ data.gen = gen
        OBVIOUS
      <3>2. done.entry = ui.entry /\ done.gw = ui.gw
        BY <1>4 DEF Quieter, SameShown
      <3> HIDE DEF data
      <3>3. QED
        <4>1. \A e \in ui'.explains : e.current => ui'.live # None /\ ui'.live.key = e.data.key
          <5>1. \A e \in done.explains : e.current => e.data.key = key
            BY <1>4, <1>6, <3>2 DEF Sound, Quieter, SameShown
          <5>2. QED
            BY <2>1, <2>3, <2>4, <5>1
        <4>2. \A g \in ui'.fetches :
                /\ g.slot \/ g.current => g.key = At(ui'.entry, ui'.gw)
                /\ g.current /\ g.switching => ui'.live = None
          BY <1>5, <1>6, <1>9, <2>3, <2>4 DEF Sound
        <4>3. \A a, b \in ui'.fetches : a.current /\ b.current => a = b
          BY <1>6, <2>4 DEF Sound
        <4>4. ui'.live.key = At(ui'.entry, ui'.gw)
          BY <2>1, <2>3, <3>2
        <4>5. ui'.snap = [event |-> ui'.live.key.gw, gen |-> ui'.live.gen]
          BY <2>3, <3>1
        <4>6. QED
          BY <1>6, <2>3, <2>4, <4>1, <4>2, <4>3, <4>4, <4>5 DEF Sound
    <2>6. NoOlder(ui'.live, ui.live)
      <3>1. SUFFICES ASSUME ui.live # None PROVE gen >= ui.live.gen
        BY <2>3 DEF NoOlder
      <3>2. done.snap = [event |-> ui.live.key.gw, gen |-> ui.live.gen]
        BY <1>1, <1>4, <3>1 DEF Sound, Quieter, SameShown
      <3>3. [event |-> ui.live.key.gw, gen |-> ui.live.gen] \in Snapshot
        BY <1>1, <3>1, LivePointsAssumption DEF Page, Data, Key, Snapshot
      <3>4. QED
        BY <1>9, <3>2, <3>3, LivePointsAssumption DEF CanReplace
    <2>7. QED
      BY <1>9, <2>2, <2>5, <2>6 DEF Step
  <1>10. CASE \E gen \in 1..MaxGen : FetchReady(f, gen)
    <2>1. PICK gen \in 1..MaxGen : FetchReady(f, gen)
      BY <1>10
    <2>2. ui' = IF ~f.current THEN u
                ELSE IF CanReplace([event |-> f.key.gw, gen |-> gen], done.snap)
                     THEN Painted(done, [key |-> f.key, gen |-> gen]) ELSE done
      BY <2>1 DEF FetchReady, u, done
    <2>3. QED
      BY <1>7, <1>8, <1>9, <2>2
  <1>11. CASE FetchPending(f)
    <2>1. CASE ~f.current
      BY <1>7, <1>11, <2>1 DEF FetchPending, u
    <2>2. CASE f.current
      <3> DEFINE armed == [key |-> f.key, n |-> Tried + 1]
      <3>1. armed \in Armed
        BY <1>1, <1>2, <1>11, <2>2, LivePointsAssumption
           DEF FetchPending, MayRetry, Tried, Page, Armed
      <3>2. ui' = [u EXCEPT !.retry = armed, !.timer = f.key.gw]
        BY <1>11, <2>2 DEF FetchPending, u
      <3> HIDE DEF armed
      <3>3. ui' \in Page
        BY <1>2, <1>3, <3>1, <3>2 DEF Page
      <3>4. /\ ui'.entry = u.entry /\ ui'.gw = u.gw /\ ui'.follows = u.follows
            /\ ui'.live = u.live /\ ui'.players = u.players /\ ui'.snap = u.snap
            /\ ui'.skip = u.skip
        BY <1>3, <3>2 DEF Page
      <3>5. /\ ui'.fetches = u.fetches /\ ui'.explains = u.explains
            /\ ui'.selects = u.selects /\ ui'.autos = u.autos /\ ui'.timer = f.key.gw
        BY <1>3, <3>2 DEF Page
      <3>6. Sound(u) /\ f.key.gw = u.gw /\ u.live = ui.live
        BY <1>1, <1>2, <1>3, <2>2, QuieterSound DEF Quieter, SameShown, At
      <3>7. Sound(ui')
        BY <3>4, <3>5, <3>6 DEF Sound
      <3>8. NoOlder(ui'.live, ui.live)
        BY <1>1, <3>4, <3>6, LivePointsAssumption DEF NoOlder, Page, Data
      <3>9. QED
        BY <3>3, <3>7, <3>8 DEF Step
    <2>3. QED
      BY <2>1, <2>2
  <1>12. ASSUME f.current, ui.live = None, NEW w \in Page,
                w.entry = done.entry, w.gw = done.gw, w.follows = done.follows, w.skip = done.skip,
                w.live = None, w.players = None, w.fetches \subseteq done.fetches,
                w.explains = done.explains, w.selects = done.selects, w.autos = done.autos,
                w.timer = done.timer, ui' = w
         PROVE  Step
    <2>1. done.live = None
      BY <1>4, <1>12 DEF Quieter, SameShown
    <2>2. Sound(w)
      BY <1>5, <1>6, <1>12, <2>1 DEF Sound
    <2>3. QED
      BY <1>12, <2>2 DEF Step, NoOlder
  <1>13. CASE FetchEmpty(f)
    <2>1. CASE ~f.current \/ Retains(f.key)
      BY <1>7, <1>8, <1>13, <2>1 DEF FetchEmpty, u, done
    <2>2. CASE f.current /\ ~Retains(f.key)
      <3>1. ui.live = None
        BY <1>1, <1>2, <2>2 DEF Retains, Sound
      <3>2. PICK s \in {None} \cup [event: {f.key.gw}, gen: 0..server.gen[f.key.gw]] :
                ui' = [done EXCEPT !.live = None, !.players = None, !.snap = s]
        BY <1>13, <2>2 DEF FetchEmpty, u, done
      <3>3. s \in Snapshot \cup {None}
        BY <1>2, LivePointsAssumption DEF Snapshot, IInv, TypeOK
      <3>4. ui' \in Page
        BY <1>4, <3>2, <3>3 DEF Page
      <3>5. /\ ui'.entry = done.entry /\ ui'.gw = done.gw /\ ui'.follows = done.follows
            /\ ui'.live = None /\ ui'.players = None /\ ui'.skip = done.skip
        BY <1>4, <3>2 DEF Page
      <3>6. /\ ui'.fetches = done.fetches /\ ui'.explains = done.explains
            /\ ui'.selects = done.selects /\ ui'.autos = done.autos /\ ui'.timer = done.timer
        BY <1>4, <3>2 DEF Page
      <3>7. QED
        BY <1>12, <2>2, <3>1, <3>4, <3>5, <3>6
    <2>3. QED
      BY <2>1, <2>2
  <1>14. CASE FetchFails(f)
    <2>1. CASE ~f.current
      BY <1>7, <1>14, <2>1 DEF FetchFails, u
    <2>2. CASE f.current /\ ~f.switching
      <3>1. ui' = Ended(u)
        BY <1>14, <2>2 DEF FetchFails, u
      <3>2. QED
        BY <1>3, <3>1, EndedQuieter, QuieterStill, QuieterStep
    <2>3. CASE f.current /\ f.switching
      <3>1. ui' = Ended(Cleared(u))
        BY <1>14, <2>3 DEF FetchFails, u
      <3>2. ui.live = None
        BY <1>1, <2>3 DEF Sound
      <3> DEFINE w == Cleared(u)
      <3>3. w \in Page
        BY <1>3, ClearedFields
      <3>4. Sound(w)
        BY <1>1, <1>3, <3>2, ClearedFields, QuieterSound DEF Sound, Quieter, SameShown, NoNewCall
      <3> HIDE DEF w
      <3>5. ui' \in Page /\ Quieter(ui', w)
        BY <3>1, <3>3, EndedQuieter DEF w
      <3>6. w.live = None
        BY <1>3, ClearedFields DEF w
      <3>7. QED
        BY <3>2, <3>4, <3>5, <3>6, QuieterSound DEF Step, NoOlder
    <2>4. QED
      BY <2>1, <2>2, <2>3
  <1>15. QED
    BY <1>10, <1>11, <1>13, <1>14

LEMMA RetryFiresStep == ASSUME IInv, RetryFires PROVE Step
  <1> DEFINE u == [ui EXCEPT !.timer = None]
  <1>1. ui \in Page /\ ui.timer = ui.gw /\ ui' = Fetched(u, ui.entry, ui.gw)
    BY DEF IInv, TypeOK, Sound, RetryFires
  <1>2. u \in Page /\ Quieter(u, ui)
    BY <1>1, NoRetryQuieter
  <1>3. CASE ui.entry \in Entry
    BY <1>1, <1>2, <1>3, FetchedStep
  <1>4. CASE ui.entry = None
    <2>1. ui' = u
      BY <1>1, <1>4 DEF Fetched
    <2>2. QED
      BY <1>2, <2>1, QuieterStep
  <1>5. QED
    BY <1>1, <1>3, <1>4 DEF Page

\* Explanations are painted on the score that is on the page.
LEMMA ExplainAnswersStep == ASSUME IInv, ExplainAnswers PROVE Step
  <1>1. ui \in Page /\ Sound(ui)
    BY DEF IInv, TypeOK
  <1>2. PICK e \in ui.explains : \E painted \in {ui.players} \cup ({ExplainTarget(e)} \ {None}) :
            ui' = [ui EXCEPT !.explains = @ \ {e}, !.players = painted]
    BY DEF ExplainAnswers
  <1>3. PICK painted \in {ui.players} \cup ({ExplainTarget(e)} \ {None}) :
            ui' = [ui EXCEPT !.explains = @ \ {e}, !.players = painted]
    BY <1>2
  <1>4. painted = ui.players
    BY <1>1 DEF Sound, ExplainTarget, Retains
  <1>5. ui' = [ui EXCEPT !.explains = @ \ {e}]
    BY <1>1, <1>3, <1>4 DEF Page
  <1>6. ui' \in Page /\ Quieter(ui', ui)
    BY <1>1, <1>5 DEF Page, Quieter, SameShown, NoNewCall
  <1>7. QED
    BY <1>6, QuieterStep

LEMMA ContextType ==
    ASSUME IInv, NEW c \in Contexts
    PROVE  c.anchor \in Gameweek /\ c.gen \in 0..MaxGen /\ c.updating \in BOOLEAN
  BY LivePointsAssumption DEF IInv, TypeOK, Contexts, Gameweek

LEMMA SelectAnswersStep == ASSUME IInv, SelectAnswers PROVE Step
  <1>1. ui \in Page /\ Sound(ui)
    BY DEF IInv, TypeOK
  <1>2. PICK key \in ui.selects :
            LET u == [ui EXCEPT !.selects = @ \ {key}]
                Then(v) == ui' = Fetched(v, key.entry, key.gw)
            IN  \/ \E c \in Contexts : Then(Probed(u, key.gw, c))
                \/ Then(u)
                \/ Then([u EXCEPT !.syncing = key.gw = u.cur])
    BY DEF SelectAnswers
  <1> DEFINE u == [ui EXCEPT !.selects = @ \ {key}]
  <1>3. key.entry = ui.entry /\ key.gw = ui.gw /\ key.entry \in Entry
    BY <1>1 DEF Sound, Page, At, Key
  <1>4. u \in Page /\ Quieter(u, ui)
    BY <1>1, FewerSelects
  <1> HIDE DEF u
  <1>5. ASSUME NEW v \in Page, Quieter(v, u), ui' = Fetched(v, key.entry, key.gw)
        PROVE  Step
    BY <1>3, <1>4, <1>5, QuieterStill, FetchedStep
  <1>6. ASSUME NEW c \in Contexts, ui' = Fetched(Probed(u, key.gw, c), key.entry, key.gw)
        PROVE  Step
    <2>1. Later(u.cur, c.anchor) \in Gameweek
      BY <1>4, ContextType DEF Later, Page
    <2>2. (c.updating /\ key.gw = Later(u.cur, c.anchor)) \in BOOLEAN
      OBVIOUS
    <2>3. Probed(u, key.gw, c) \in Page /\ Quieter(Probed(u, key.gw, c), u)
      BY <1>4, <2>1, <2>2, SyncingQuieter DEF Probed
    <2>4. QED
      BY <1>5, <1>6, <2>3
  <1>7. CASE ui' = Fetched(u, key.entry, key.gw)
    BY <1>3, <1>4, <1>7, FetchedStep
  <1>8. CASE ui' = Fetched([u EXCEPT !.syncing = key.gw = u.cur], key.entry, key.gw)
    <2>1. (key.gw = u.cur) \in BOOLEAN
      OBVIOUS
    <2>2. u.cur \in Gameweek
      BY <1>4 DEF Page
    <2>3. /\ [u EXCEPT !.syncing = key.gw = u.cur] \in Page
          /\ Quieter([u EXCEPT !.syncing = key.gw = u.cur], u)
      BY <1>4, <2>1, <2>2, SyncingQuieter
    <2>4. QED
      BY <1>5, <1>8, <2>3
  <1>9. QED
    BY <1>2, <1>6, <1>7, <1>8 DEF u

LEMMA AutoRefreshStep == ASSUME IInv, AutoRefresh PROVE Step
  <1> DEFINE a == [key |-> At(ui.entry, ui.gw), cur |-> ui.cur]
  <1>1. /\ ui \in Page /\ Sound(ui) /\ ui.entry \in Entry /\ ui.gw \in Gameweek
        /\ ui.cur \in Gameweek
    BY DEF IInv, TypeOK, AutoRefresh, Dashboard, Page
  <1>2. a \in [key: Key, cur: Gameweek] /\ a.key = At(ui.entry, ui.gw)
    BY <1>1 DEF At, Key
  <1>3. ui' = [ui EXCEPT !.autos = {a}]
    BY DEF AutoRefresh
  <1> HIDE DEF a
  <1>4. ui' \in Page
    BY <1>1, <1>2, <1>3 DEF Page
  <1>5. SameShown(ui', ui) /\ ui'.fetches = ui.fetches /\ ui'.explains = ui.explains
            /\ ui'.selects = ui.selects /\ ui'.timer = ui.timer /\ ui'.autos = {a}
    BY <1>1, <1>3 DEF Page, SameShown
  <1>6. Sound(ui')
    BY <1>1, <1>2, <1>5 DEF Sound, SameShown
  <1>7. NoOlder(ui'.live, ui.live)
    BY <1>1, <1>5, LivePointsAssumption DEF SameShown, NoOlder, Page, Data
  <1>8. QED
    BY <1>4, <1>6, <1>7 DEF Step

\* When the page follows the current gameweek and a probe shows the next one, no
\* selection is under way, and a request that is joined is of the old gameweek
\* only if the gameweek has not changed.
LEMMA RolloverStep ==
    ASSUME IInv, NEW v \in Page, Quieter(v, ui), v.autos = {}, ui.entry \in Entry, ui.follows,
           NEW gw \in Gameweek, ui' = Fetched([v EXCEPT !.gw = gw], ui.entry, gw)
    PROVE  Step
  <1> DEFINE w == [v EXCEPT !.gw = gw]
  <1>1. Sound(v) /\ Sound(ui) /\ ui \in Page /\ SameShown(v, ui)
    BY QuieterSound DEF IInv, TypeOK, Quieter
  <1>2. w \in Page
    BY DEF Page
  <1>3. /\ w.entry = ui.entry /\ w.gw = gw /\ w.follows = ui.follows
        /\ w.live = ui.live /\ w.players = ui.players /\ w.snap = ui.snap /\ w.skip = ui.skip
        /\ w.fetches = v.fetches /\ w.selects = v.selects
    BY <1>1 DEF SameShown, Page
  <1>4. w.selects = {}
    BY <1>1, <1>3 DEF Sound, SameShown
  <1>5. ASSUME InFlight(w, At(ui.entry, gw)) PROVE Sound(w)
    <2>1. PICK f \in v.fetches : f.slot /\ f.key = At(ui.entry, gw)
      BY <1>3, <1>5 DEF InFlight
    <2>2. At(ui.entry, gw) = At(v.entry, v.gw)
      BY <1>1, <2>1 DEF Sound
    <2>3. gw = v.gw
      BY <2>2 DEF At
    <2>4. w = v
      BY <2>3 DEF Page
    <2>5. QED
      BY <1>1, <2>4
  <1> HIDE DEF w
  <1>6. w.live # None => w.snap = [event |-> w.live.key.gw, gen |-> w.live.gen]
    BY <1>1, <1>3 DEF Sound
  <1>7. w.players = w.live /\ ~w.skip
    BY <1>1, <1>3 DEF Sound
  <1>8. /\ Fetched(w, ui.entry, gw) \in Page /\ Sound(Fetched(w, ui.entry, gw))
        /\ Fetched(w, ui.entry, gw).live \in {None, w.live}
    BY <1>2, <1>3, <1>4, <1>5, <1>6, <1>7, FetchedSound
  <1>9. ui.live # None => ui.live.gen \in Int
    BY <1>1, LivePointsAssumption DEF Page, Data
  <1>10. QED
    BY <1>3, <1>8, <1>9 DEF Step, NoOlder, w

LEMMA AutoAnswersStep == ASSUME IInv, AutoAnswers PROVE Step
  <1>1. ui \in Page /\ Sound(ui)
    BY DEF IInv, TypeOK
  <1>2. PICK a \in ui.autos :
            LET u == [ui EXCEPT !.autos = @ \ {a}]
            IN  \/ ui' = u
                \/ \E c \in Contexts : ui' = AutoRefreshed(u, a, c)
                \/ ui' = Fetched([u EXCEPT !.syncing = FALSE], a.key.entry, a.key.gw)
    BY DEF AutoAnswers
  <1> DEFINE u == [ui EXCEPT !.autos = @ \ {a}]
  <1>3. a.key.entry = ui.entry /\ a.key.gw = ui.gw /\ ui.entry \in Entry
    BY <1>1 DEF Sound, Page, At, Key
  <1>4. u \in Page /\ Quieter(u, ui) /\ u.autos = {}
    <2>1. u \in Page /\ Quieter(u, ui) /\ u.autos = ui.autos \ {a}
      BY <1>1, FewerAutos
    <2>2. QED
      BY <1>1, <2>1 DEF Sound
  <1> HIDE DEF u
  <1>5. u.cur \in Gameweek
    BY <1>4 DEF Page
  <1>6. ASSUME NEW c \in Contexts, ui' = AutoRefreshed(u, a, c) PROVE Step
    <2> DEFINE selected == IF u.follows THEN c.anchor ELSE a.key.gw
               observed == [event |-> c.anchor, gen |-> c.gen]
               v == [u EXCEPT !.cur = c.anchor, !.syncing = c.updating /\ selected = c.anchor]
    <2>1. c.anchor \in Gameweek
      BY ContextType
    <2>2. (c.updating /\ selected = c.anchor) \in BOOLEAN
      OBVIOUS
    <2>3. v \in Page /\ Quieter(v, u)
      <3> HIDE DEF selected
      <3>1. QED
        BY <1>4, <2>1, <2>2, SyncingQuieter
    <2>4. Quieter(v, ui) /\ v.autos = {}
      <3>1. v.autos \subseteq u.autos
        BY <2>3 DEF Quieter, NoNewCall
      <3>2. QED
        BY <1>4, <2>3, <3>1, QuieterStill
    <2>5. \/ u.follows /\ ui' = Fetched([v EXCEPT !.gw = c.anchor], a.key.entry, c.anchor)
          \/ ui' = v
          \/ ui' = Fetched(v, a.key.entry, a.key.gw)
          \/ /\ u.live # None
             /\ ui' = [v EXCEPT !.explains = @ \cup {[data |-> u.live, current |-> TRUE]}]
      BY <1>6 DEF AutoRefreshed, Refetched
    <2> HIDE DEF v
    <2>6. CASE u.follows /\ ui' = Fetched([v EXCEPT !.gw = c.anchor], a.key.entry, c.anchor)
      <3>1. ui.follows
        BY <1>4, <2>6 DEF Quieter, SameShown
      <3>2. QED
        BY <1>3, <2>1, <2>3, <2>4, <2>6, <3>1, RolloverStep
    <2>7. CASE ui' = v
      BY <2>3, <2>4, <2>7, QuieterStep
    <2>8. CASE ui' = Fetched(v, a.key.entry, a.key.gw)
      BY <1>3, <2>3, <2>4, <2>8, FetchedStep
    <2>9. CASE /\ u.live # None
               /\ ui' = [v EXCEPT !.explains = @ \cup {[data |-> u.live, current |-> TRUE]}]
      <3> DEFINE e == [data |-> u.live, current |-> TRUE]
      <3>1. Sound(v) /\ v.live = u.live /\ u.live \in Data /\ v.live = ui.live
        BY <1>1, <1>4, <2>3, <2>4, <2>9, QuieterSound DEF Quieter, SameShown, Page
      <3>2. e \in Explain /\ e.data = u.live
        BY <3>1 DEF Explain
      <3>3. ui' = [v EXCEPT !.explains = v.explains \cup {e}]
        BY <2>9
      <3> HIDE DEF e
      <3>4. ui' \in Page
        BY <2>3, <3>2, <3>3 DEF Page, Explain
      <3>5. SameShown(ui', v) /\ ui'.fetches = v.fetches /\ ui'.explains = v.explains \cup {e}
                /\ ui'.selects = v.selects /\ ui'.timer = v.timer /\ ui'.autos = v.autos
        BY <2>3, <3>3 DEF Page, SameShown
      <3>6. Sound(ui')
        BY <2>9, <3>1, <3>2, <3>5 DEF Sound, SameShown
      <3>7. NoOlder(ui'.live, ui.live)
        BY <1>1, <3>1, <3>5, LivePointsAssumption DEF SameShown, NoOlder, Page, Data
      <3>8. QED
        BY <3>4, <3>6, <3>7 DEF Step
    <2>10. QED
      BY <2>5, <2>6, <2>7, <2>8, <2>9
  <1>7. CASE ui' = u
    BY <1>4, <1>7, QuieterStep
  <1>8. CASE ui' = Fetched([u EXCEPT !.syncing = FALSE], a.key.entry, a.key.gw)
    <2>1. FALSE \in BOOLEAN
      OBVIOUS
    <2>2. [u EXCEPT !.syncing = FALSE] \in Page /\ Quieter([u EXCEPT !.syncing = FALSE], u)
      BY <1>4, <1>5, <2>1, SyncingQuieter
    <2>3. QED
      BY <1>3, <1>4, <1>8, <2>2, QuieterStill, FetchedStep
  <1>9. QED
    BY <1>2, <1>6, <1>7, <1>8 DEF u

-----------------------------------------------------------------------------
(* What happens to the page.                                               *)

\* Nothing painted, nothing selected, no call that may act: the page may fetch
\* any selection that no request is joined for.
LEMMA BareFetched ==
    ASSUME NEW u \in Page, NEW entry \in Entry, NEW gw \in Gameweek, u.entry = entry, u.gw = gw,
           u.live = None, u.players = None, u.selects = {}, ~u.skip,
           ~InFlight(u, At(entry, gw))
    PROVE  /\ Fetched(u, entry, gw) \in Page /\ Sound(Fetched(u, entry, gw))
           /\ Fetched(u, entry, gw).live = None
  BY FetchedSound

LEMMA LateSlots ==
    ASSUME NEW calls \in SUBSET Fetch
    PROVE  \A c \in Late(calls) : \E f \in calls : c.key = f.key /\ c.slot = f.slot
  BY DEF Late, Fetch

\* The page as the submitted entry replaces the selected one: its old requests
\* are fenced, and their slots are of another entry.
LEMMA SubmitStep ==
    ASSUME IInv, NEW entry \in Entry, SubmitEntry(entry)
    PROVE  Step
  <1>1. ui \in Page /\ Sound(ui) /\ entry # None
    BY LivePointsAssumption DEF IInv, TypeOK
  <1>2. NoRetry(ui) \in Page /\ Quieter(NoRetry(ui), ui)
    BY <1>1, NoRetryQuieter
  <1>3. CASE entry = ui.entry
    BY <1>2, <1>3, FetchedStep DEF SubmitEntry
  <1>4. CASE entry # ui.entry
    <2> DEFINE v == [NoRetry(ui) EXCEPT !.entry = entry, !.key = None]
               w == Unselected(v)
               x == Cleared(Fenced(w))
    <2>1. /\ v \in Page /\ v.entry = entry /\ v.gw = ui.gw /\ v.fetches \subseteq ui.fetches
          /\ v.skip = ui.skip
      BY <1>2 DEF Page, Quieter, SameShown, NoNewCall
    <2> HIDE DEF v
    <2>2. /\ w \in Page /\ w.entry = entry /\ w.gw = ui.gw /\ w.fetches \subseteq ui.fetches
          /\ w.skip = ui.skip /\ w.selects = {}
      BY <2>1 DEF Unselected, Page
    <2> HIDE DEF w
    <2>3. /\ Fenced(w) \in Page /\ Fenced(w).entry = entry /\ Fenced(w).gw = ui.gw
          /\ Fenced(w).skip = ui.skip /\ Fenced(w).selects = {}
          /\ Fenced(w).fetches \subseteq Late(w.fetches)
      BY <2>2, FencedFields, FencedParts DEF Useful
    <2>4. /\ x \in Page /\ x.entry = entry /\ x.gw = ui.gw /\ x.skip = ui.skip
          /\ x.selects = {} /\ x.live = None /\ x.players = None
          /\ x.fetches \subseteq Late(w.fetches)
      BY <2>3, ClearedFields
    <2>5. ~InFlight(x, At(entry, ui.gw))
      <3>1. SUFFICES ASSUME NEW c \in Late(w.fetches), c.slot, c.key = At(entry, ui.gw)
                     PROVE FALSE
        BY <2>4 DEF InFlight
      <3>2. PICK f \in w.fetches : c.key = f.key /\ c.slot = f.slot
        BY <2>2, LateSlots DEF Page, Fetch
      <3>3. f.key = At(ui.entry, ui.gw)
        BY <1>1, <2>2, <3>1, <3>2 DEF Sound
      <3>4. QED
        BY <1>4, <3>1, <3>2, <3>3 DEF At
    <2>6. ui' = EntryLoaded(x)
      BY <1>4 DEF SubmitEntry, v, w
    <2> HIDE DEF x
    <2>7. ui' = Fetched(x, entry, ui.gw) /\ ~x.skip /\ ui.gw \in Gameweek
      BY <1>1, <2>4, <2>6 DEF EntryLoaded, Sound, Page
    <2>8. QED
      BY <2>4, <2>5, <2>7, BareFetched DEF Step, NoOlder
  <1>5. QED
    BY <1>3, <1>4

LEMMA ReleasedFields ==
    ASSUME NEW u \in Page
    PROVE  /\ Released(u) \in Page
           /\ \A f \in Released(u).fetches : ~f.slot
           /\ Released(u) = [u EXCEPT !.fetches = Released(u).fetches]
  <1>1. u.fetches \in SUBSET Fetch
    BY DEF Page, Fetch
  <1> DEFINE calls == Useful({[f EXCEPT !.slot = FALSE] : f \in u.fetches})
  <1>2. calls \in SUBSET Fetch /\ \A f \in calls : ~f.slot
    BY <1>1 DEF Useful, Fetch
  <1>3. Released(u) = [u EXCEPT !.fetches = calls]
    BY DEF Released
  <1> HIDE DEF calls
  <1>4. QED
    BY <1>2, <1>3 DEF Page, Fetch

LEMMA ReselectedType ==
    ASSUME NEW u \in Page, NEW gw \in Gameweek, NEW follows \in BOOLEAN, NEW syncing \in BOOLEAN
    PROVE  [u EXCEPT !.gw = gw, !.follows = follows, !.syncing = syncing] \in Page
  BY DEF Page

\* The page as another gameweek is selected: nothing of the old one is left.
LEMMA ChangeGameweekStep ==
    ASSUME IInv, NEW gw \in Gameweek, ChangeGameweek(gw)
    PROVE  Step
  <1>1. ui \in Page /\ Sound(ui) /\ ui.entry \in Entry
    BY DEF IInv, TypeOK, ChangeGameweek, Dashboard, Page
  <1>2. NoRetry(ui) \in Page /\ Quieter(NoRetry(ui), ui)
    BY <1>1, NoRetryQuieter
  <1> DEFINE v == Unselected([NoRetry(ui) EXCEPT !.key = None])
             w == Released(v)
             left == Cleared(Fenced(w))
             u == [left EXCEPT !.gw = gw, !.follows = FALSE, !.syncing = @ /\ gw = ui.cur]
  <1>3. v \in Page /\ v.entry = ui.entry /\ v.skip = ui.skip /\ v.selects = {}
    BY <1>2 DEF Unselected, Page, Quieter, SameShown
  <1> HIDE DEF v
  <1>4. /\ w \in Page /\ w.entry = ui.entry /\ w.skip = ui.skip /\ w.selects = {}
        /\ \A f \in w.fetches : ~f.slot
    BY <1>3, ReleasedFields DEF Page
  <1> HIDE DEF w
  <1>5. /\ Fenced(w) \in Page /\ Fenced(w).entry = ui.entry /\ Fenced(w).skip = ui.skip
        /\ Fenced(w).selects = {} /\ Fenced(w).autos = {} /\ Fenced(w).timer = None
        /\ \A e \in Fenced(w).explains : ~e.current
    BY <1>4, FencedFields, FencedParts
  <1>6. Fenced(w).fetches = {}
    <2>1. w.fetches \in SUBSET Fetch
      BY <1>4 DEF Page, Fetch
    <2>2. \A c \in Late(w.fetches) : ~c.slot /\ ~c.current
      BY <1>4, <2>1, LateFetches, LateSlots
    <2>3. Fenced(w).fetches = Useful(Late(w.fetches))
      BY <1>4, FencedParts
    <2>4. QED
      BY <2>2, <2>3 DEF Useful
  <1>7. /\ left \in Page /\ left.entry = ui.entry /\ left.skip = ui.skip
        /\ left.selects = {} /\ left.live = None /\ left.players = None /\ left.fetches = {}
        /\ left.autos = {} /\ left.timer = None /\ \A e \in left.explains : ~e.current
    BY <1>5, <1>6, ClearedFields
  <1> HIDE DEF left
  <1>8. u \in Page
    <2>1. (left.syncing /\ gw = ui.cur) \in BOOLEAN
      OBVIOUS
    <2>2. QED
      BY <1>7, <2>1, ReselectedType
  <1>9. /\ u.entry = ui.entry /\ u.gw = gw /\ u.skip = ui.skip /\ u.follows = FALSE
        /\ u.selects = {} /\ u.live = None /\ u.players = None /\ u.fetches = {}
    BY <1>7 DEF Page
  <1>10. u.autos = {} /\ u.timer = None /\ u.explains = left.explains
    BY <1>7 DEF Page
  <1>11. ui' = IF gw = ui.cur
               THEN [u EXCEPT !.selects = @ \cup {At(ui.entry, gw)}]
               ELSE Fetched(u, ui.entry, gw)
    BY DEF ChangeGameweek, v, w, left
  <1> HIDE DEF u
  <1>12. ~u.skip
    BY <1>1, <1>9 DEF Sound
  <1>13. CASE gw # ui.cur
    <2>1. ~InFlight(u, At(ui.entry, gw))
      BY <1>9 DEF InFlight
    <2>2. QED
      BY <1>1, <1>8, <1>9, <1>11, <1>12, <1>13, <2>1, BareFetched DEF Step, NoOlder
  <1>14. CASE gw = ui.cur
    <2>1. ui' = [u EXCEPT !.selects = {At(ui.entry, gw)}]
      BY <1>9, <1>11, <1>14
    <2>2. At(ui.entry, gw) \in Key
      BY <1>1 DEF At, Key
    <2>3. ui' \in Page
      BY <1>8, <2>1, <2>2 DEF Page
    <2>4. /\ ui'.entry = ui.entry /\ ui'.gw = gw /\ ui'.skip = u.skip /\ ui'.follows = FALSE
          /\ ui'.selects = {At(ui.entry, gw)} /\ ui'.live = None /\ ui'.players = None
          /\ ui'.fetches = {} /\ ui'.autos = {} /\ ui'.timer = None
          /\ ui'.explains = left.explains
      BY <1>8, <1>9, <1>10, <2>1 DEF Page
    <2>5. Sound(ui')
      BY <1>7, <1>12, <2>4 DEF Sound
    <2>6. QED
      BY <2>3, <2>4, <2>5 DEF Step, NoOlder
  <1>15. QED
    BY <1>13, <1>14

LEMMA RefreshStep == ASSUME IInv, Refresh PROVE Step
  <1>1. ui \in Page /\ ui.entry \in Entry
    BY DEF IInv, TypeOK, Refresh, Dashboard, Page
  <1>2. NoRetry(ui) \in Page /\ Quieter(NoRetry(ui), ui)
    BY <1>1, NoRetryQuieter
  <1>3. QED
    BY <1>1, <1>2, FetchedStep DEF Refresh

-----------------------------------------------------------------------------
(* The initial page.                                                       *)

LEMMA BlankSound ==
    ASSUME NEW entry \in Entry \cup {None}, NEW gw \in Gameweek, NEW updating \in BOOLEAN
    PROVE  LET u == Blank(entry, gw, updating)
           IN  /\ u \in Page /\ Sound(u) /\ u.entry = entry /\ u.gw = gw
               /\ u.live = None /\ u.fetches = {} /\ u.explains = {} /\ u.selects = {} /\ ~u.skip
  BY DEF Blank, Page, Sound

\* Points that the server rendered are those of the page's own selection.
LEMMA WithDataSound ==
    ASSUME NEW u \in Page, Sound(u), NEW data \in Data, data.key = At(u.entry, u.gw),
           u.fetches = {}, u.explains = {}, u.selects = {}
    PROVE  WithData(u, data) \in Page /\ Sound(WithData(u, data))
  <1> DEFINE v == Ended(Fenced(u))
             snap == [event |-> data.key.gw, gen |-> data.gen]
             e == [data |-> data, current |-> TRUE]
             w == WithData(u, data)
  <1>1. /\ Fenced(u) \in Page /\ Fenced(u).entry = u.entry /\ Fenced(u).gw = u.gw
        /\ Fenced(u).fetches = {} /\ Fenced(u).explains = {} /\ Fenced(u).selects = {}
        /\ Fenced(u).autos = {} /\ Fenced(u).timer = None /\ ~Fenced(u).skip
    <2>1. Useful(Late({})) = {} /\ Late({}) = {}
      BY DEF Useful, Late
    <2>2. QED
      BY <2>1, FencedFields, FencedParts DEF Sound
  <1>2. /\ v \in Page /\ v.entry = u.entry /\ v.gw = u.gw /\ v.fetches = {} /\ v.explains = {}
        /\ v.selects = {} /\ v.autos = {} /\ v.timer = None /\ ~v.skip
    BY <1>1, EndedQuieter DEF Quieter, SameShown, NoNewCall
  <1>3. snap \in Snapshot
    BY LivePointsAssumption DEF Data, Key, Snapshot
  <1>4. w = [v EXCEPT !.key = data.key, !.live = data, !.players = data,
                      !.snap = snap, !.explains = v.explains \cup {e}]
    BY DEF WithData
  <1>5. e \in Explain /\ e.data = data /\ data.key \in Key
    BY DEF Explain, Data
  <1> HIDE DEF v, w, snap, e
  <1>6. /\ w \in Page /\ w.entry = u.entry /\ w.gw = u.gw
        /\ w.live = data /\ w.players = data /\ w.snap = snap
        /\ w.fetches = v.fetches /\ w.explains = v.explains \cup {e}
        /\ w.selects = v.selects /\ w.autos = v.autos /\ w.timer = v.timer
        /\ w.skip = v.skip
    <2>1. data.key \in Key /\ v \in Page /\ snap \in Snapshot /\ e \in Explain
      BY <1>2, <1>3, <1>5
    <2>2. w \in Page
      BY <1>4, <2>1 DEF Page, Explain
    <2>3. /\ w.entry = v.entry /\ w.gw = v.gw
          /\ w.live = data /\ w.players = data /\ w.snap = snap
      BY <1>4, <2>1 DEF Page
    <2>4. /\ w.fetches = v.fetches /\ w.explains = v.explains \cup {e}
          /\ w.selects = v.selects /\ w.autos = v.autos /\ w.timer = v.timer
          /\ w.skip = v.skip
      BY <1>4, <2>1 DEF Page
    <2>5. QED
      BY <1>2, <2>2, <2>3, <2>4
  <1>7. w.fetches = {} /\ w.explains = {e} /\ w.selects = {} /\ w.autos = {}
        /\ w.timer = None /\ ~w.skip
    BY <1>2, <1>6
  <1>8. w.snap = [event |-> data.key.gw, gen |-> data.gen]
    BY <1>6 DEF snap
  <1>9. Sound(w)
    BY <1>5, <1>6, <1>7, <1>8, LivePointsAssumption DEF Sound
  <1>10. QED
    BY <1>6, <1>9 DEF w

LEMMA WithoutDataSound ==
    ASSUME NEW u \in Page, Sound(u), u.entry \in Entry, NEW snap \in Snapshot \cup {None},
           u.fetches = {}, u.selects = {}
    PROVE  /\ WithoutData(u, u.entry, snap) \in Page
           /\ Sound(WithoutData(u, u.entry, snap))
  <1> DEFINE w == [Cleared(u) EXCEPT !.key = None, !.snap = snap]
  <1>1. /\ w \in Page /\ w.entry = u.entry /\ w.gw = u.gw /\ w.live = None /\ w.players = None
        /\ w.fetches = {} /\ w.selects = {} /\ w.skip = u.skip
    BY ClearedFields DEF Page
  <1>2. WithoutData(u, u.entry, snap) = Fetched(w, u.entry, u.gw)
    BY DEF WithoutData
  <1> HIDE DEF w
  <1>3. u.gw \in Gameweek /\ ~w.skip
    BY <1>1 DEF Page, Sound
  <1>4. ~InFlight(w, At(u.entry, u.gw))
    BY <1>1 DEF InFlight
  <1>5. QED
    BY <1>1, <1>2, <1>3, <1>4, BareFetched

Server == [anchor: Gameweek, gen: [Gameweek -> 0..MaxGen]]

LEMMA InitIInv == Init => IInv
  <1> SUFFICES ASSUME Init PROVE IInv
    OBVIOUS
  <1>1. server \in Server
    BY LivePointsAssumption DEF Init, Server, Gameweek
  <1>2. budget \in 0..MaxActions
    BY LivePointsAssumption DEF Init
  <1>3. PICK entry \in Entry \cup {None}, updating \in BOOLEAN :
            ui \in Seeds(Blank(entry, server.anchor, updating), entry)
    BY DEF Init
  <1> DEFINE u == Blank(entry, server.anchor, updating)
  <1>4. server.anchor \in Gameweek /\ server.gen \in [Gameweek -> 0..MaxGen]
    BY <1>1 DEF Server
  <1>5. /\ u \in Page /\ Sound(u) /\ u.entry = entry /\ u.gw = server.anchor
        /\ u.fetches = {} /\ u.explains = {} /\ u.selects = {}
    BY <1>4, BlankSound
  <1> HIDE DEF u
  <1>6. CASE ui = u
    BY <1>1, <1>2, <1>5, <1>6 DEF IInv, TypeOK, Server
  <1>7. ASSUME u.entry # None, NEW gen \in 1..server.gen[u.gw],
               ui = WithData(u, [key |-> At(u.entry, u.gw), gen |-> gen])
        PROVE  IInv
    <2> DEFINE data == [key |-> At(u.entry, u.gw), gen |-> gen]
    <2>1. data \in Data /\ data.key = At(u.entry, u.gw)
      BY <1>4, <1>5, <1>7, LivePointsAssumption DEF Data, At, Key
    <2> HIDE DEF data
    <2>2. ui \in Page /\ Sound(ui)
      BY <1>5, <1>7, <2>1, WithDataSound DEF data
    <2>3. QED
      BY <1>1, <1>2, <2>2 DEF IInv, TypeOK, Server
  <1>8. ASSUME u.entry # None,
               NEW snap \in {None} \cup [event: {u.gw}, gen: 0..server.gen[u.gw]],
               ui = WithoutData(u, entry, snap)
        PROVE  IInv
    <2>1. snap \in Snapshot \cup {None}
      BY <1>4, <1>5, LivePointsAssumption DEF Snapshot
    <2>2. ui \in Page /\ Sound(ui)
      BY <1>5, <1>8, <2>1, WithoutDataSound
    <2>3. QED
      BY <1>1, <1>2, <2>2 DEF IInv, TypeOK, Server
  <1>9. QED
    BY <1>3, <1>6, <1>7, <1>8 DEF Seeds, u

-----------------------------------------------------------------------------
(* The results.                                                            *)

LEMMA QuietType ==
    ASSUME TypeOK, Quiet
    PROVE  server' \in Server /\ budget' \in 0..MaxActions
  BY DEF TypeOK, Quiet, Server

LEMMA HappensType ==
    ASSUME TypeOK, NEW kind, Acts(kind)
    PROVE  server' \in Server /\ budget' \in 0..MaxActions
  BY LivePointsAssumption DEF TypeOK, Acts, Server

\* Whatever the user does, or an answer or a timer brings.
LEMMA PageStep ==
    ASSUME IInv, \/ FetchAnswers \/ RetryFires \/ ExplainAnswers \/ SelectAnswers
                 \/ AutoRefresh \/ AutoAnswers \/ Happens
    PROVE  Step /\ server' \in Server /\ budget' \in 0..MaxActions
  <1>1. TypeOK
    BY DEF IInv
  <1>2. CASE FetchAnswers
    <2>1. PICK f \in ui.fetches :
              \/ \E gen \in 1..MaxGen : FetchReady(f, gen)
              \/ FetchPending(f) \/ FetchEmpty(f) \/ FetchFails(f)
      BY <1>2 DEF FetchAnswers
    <2>2. Quiet
      BY <2>1 DEF FetchReady, FetchPending, FetchEmpty, FetchFails
    <2>3. QED
      BY <1>1, <2>1, <2>2, FetchAnswersStep, QuietType
  <1>3. CASE RetryFires
    BY <1>1, <1>3, RetryFiresStep, QuietType DEF RetryFires
  <1>4. CASE ExplainAnswers
    BY <1>1, <1>4, ExplainAnswersStep, QuietType DEF ExplainAnswers
  <1>5. CASE SelectAnswers
    <2>1. Quiet
      BY <1>5 DEF SelectAnswers
    <2>2. QED
      BY <1>1, <1>5, <2>1, SelectAnswersStep, QuietType
  <1>6. CASE AutoRefresh
    BY <1>1, <1>6, AutoRefreshStep, QuietType DEF AutoRefresh
  <1>7. CASE AutoAnswers
    <2>1. Quiet
      BY <1>7 DEF AutoAnswers
    <2>2. QED
      BY <1>1, <1>7, <2>1, AutoAnswersStep, QuietType
  <1>8. ASSUME NEW e \in Entry, SubmitEntry(e)
        PROVE  Step /\ server' \in Server /\ budget' \in 0..MaxActions
    BY <1>1, <1>8, SubmitStep, HappensType DEF SubmitEntry
  <1>9. ASSUME NEW gw \in Gameweek, ChangeGameweek(gw)
        PROVE  Step /\ server' \in Server /\ budget' \in 0..MaxActions
    <2>1. Acts("gameweek")
      BY <1>9 DEF ChangeGameweek
    <2>2. QED
      BY <1>1, <1>9, <2>1, ChangeGameweekStep, HappensType
  <1>10. CASE Refresh
    BY <1>1, <1>10, RefreshStep, HappensType DEF Refresh
  <1>11. QED
    BY <1>2, <1>3, <1>4, <1>5, <1>6, <1>7, <1>8, <1>9, <1>10 DEF Happens

\* The server's own steps.
LEMMA ServerStep ==
    ASSUME IInv, Publish \/ NextGameweek
    PROVE  server' \in Server /\ UNCHANGED <<ui, budget>>
  <1>1. server \in Server
    BY DEF IInv, TypeOK, Server
  <1>2. CASE Publish
    <2>1. PICK gw \in 1..server.anchor :
              /\ server.gen[gw] < MaxGen
              /\ server' = [server EXCEPT !.gen[gw] = @ + 1]
              /\ UNCHANGED <<ui, budget>>
      BY <1>2 DEF Publish
    <2>2. gw \in Gameweek
      BY <1>1, LivePointsAssumption DEF Server, Gameweek
    <2>3. server.gen[gw] + 1 \in 0..MaxGen
      BY <1>1, <2>1, <2>2, LivePointsAssumption DEF Server
    <2>4. QED
      BY <1>1, <2>1, <2>2, <2>3 DEF Server
  <1>3. CASE NextGameweek
    BY <1>1, <1>3, LivePointsAssumption DEF NextGameweek, Server, Gameweek
  <1>4. QED
    BY <1>2, <1>3

\* What is painted and what may still be is for the selection, after any step,
\* and no step takes a score back.
LEMMA NextIInv ==
    ASSUME IInv, [Next]_vars
    PROVE  IInv' /\ NoOlder(ui'.live, ui.live)
  <1>1. ui \in Page /\ Sound(ui) /\ server \in Server /\ budget \in 0..MaxActions
    BY DEF IInv, TypeOK, Server
  <1>2. NoOlder(ui.live, ui.live)
    BY <1>1, LivePointsAssumption DEF NoOlder, Page, Data
  <1>3. CASE \/ FetchAnswers \/ RetryFires \/ ExplainAnswers \/ SelectAnswers
             \/ AutoRefresh \/ AutoAnswers \/ Happens
    BY <1>3, PageStep DEF IInv, TypeOK, Step, Server, Sound
  <1>4. CASE Publish \/ NextGameweek
    <2>1. server' \in Server /\ ui' = ui /\ budget' = budget
      BY <1>4, ServerStep
    <2>2. QED
      BY <1>1, <1>2, <2>1 DEF IInv, TypeOK, Server, Sound
  <1>5. CASE UNCHANGED vars
    BY <1>1, <1>2, <1>5 DEF vars, IInv, TypeOK, Server, Sound
  <1>6. QED
    BY <1>3, <1>4, <1>5 DEF Next

\* The inductive invariant: every variable has its type, so that a retry is
\* armed only as often as LIVE_DATA_RETRY_DELAYS_MS has delays, and every
\* request, probe, explanation and timer of useLivePoints that may still act is
\* for the selected entry and gameweek.
THEOREM Inductive == Spec => []IInv
  <1>1. IInv /\ [Next]_vars => IInv'
    BY NextIInv
  <1>2. QED
    BY InitIInv, <1>1, PTL DEF Spec

\* Type correctness alone.
THEOREM TypeOKHolds == Spec => []TypeOK
  <1>1. IInv => TypeOK
    BY DEF IInv
  <1>2. QED
    BY Inductive, <1>1, PTL

\* What the live points page paints belongs to the selected entry and gameweek,
\* whichever answers came late, and the players are those of the painted score.
THEOREM PaintedIsSelectedHolds == Spec => []PaintedIsSelected
  <1>1. IInv => PaintedIsSelected
    BY DEF IInv, Sound, PaintedIsSelected
  <1>2. QED
    BY Inductive, <1>1, PTL

\* A score on the page is never replaced by an older one of the same entry and
\* gameweek, in whatever order its requests are answered and however old the
\* publications are that they are answered from.
THEOREM ScoreNeverBackHolds == Spec => ScoreNeverBack
  <1>1. IInv /\ [Next]_vars =>
            [ui.live # None /\ ui.live' # None /\ ui.live.key = ui'.live.key
                => ui'.live.gen >= ui.live.gen]_vars
    BY NextIInv DEF NoOlder
  <1>2. QED
    BY Inductive, <1>1, PTL DEF Spec, ScoreNeverBack
=============================================================================
