------------------------------ MODULE PlayerDesk ------------------------------
(***************************************************************************)
(* The player stats desk: the two slots of PlayerStatsClient.tsx, each a   *)
(* usePlayerDetailSlot.ts, over the requests that player-stats-desk-       *)
(* client.ts shares between them.  Every request is for one or two players *)
(* and a section; a request under way is shared by whoever asks for the    *)
(* same, ends when all of them have left, and is replaced by a retry that  *)
(* bypasses the cache.                                                     *)
(* One step is one handler with what it makes settle at once.  "recent"    *)
(* stands for the sections with evidence of their own, "fixtures" for the  *)
(* one that comes with the overview.  The context panel and the            *)
(* restoration of the browser's history are left out.                      *)
(***************************************************************************)
EXTENDS Naturals, Sequences, FiniteSets

CONSTANTS
    Player,
    MaxSteps,  \* bound on what the user does
    None

VARIABLES
    link,     \* the players of the deep link
    settled,  \* initialDeskSettled
    section,  \* activeSection
    desk,     \* the slots, the requests under way, the cached answers
    chosen,   \* ghost: whom the user chose last for each slot
    steps     \* what the user may still do

vars == <<link, settled, section, desk, chosen, steps>>

Slot == {1, 2}

\* shown is playerDetail and recent whose evidence is merged in it; version is
\* requestIdRef; asked, a ghost, is whom the last request for an overview was for.
Empty(p) == [selected |-> p, shown |-> None, recent |-> None, loaded |-> FALSE,
             error |-> FALSE, loading |-> FALSE, version |-> 0, asked |-> None]

\* Each key under way has its consumers; live: its signal is not aborted.
Key(what, players) == [section |-> what, players |-> players]
Consumer(s, p, version) == [slot |-> s, player |-> p, version |-> version, live |-> TRUE]

Init ==
    \E p \in Player \cup {None}, q \in Player \cup {None}, known \in BOOLEAN :
        /\ p = None => q = None
        /\ p # None => p # q
        /\ link = <<p, q>> /\ settled = (p = None)
        /\ section = "fixtures"
        /\ desk = [slot |-> [s \in Slot |-> Empty(IF known THEN link[s] ELSE None)],
                   compare |-> q # None, pending |-> [k \in {} |-> {}], cached |-> {},
                   changed |-> FALSE]
        /\ chosen = link
        /\ steps = MaxSteps

-----------------------------------------------------------------------------
\* Consumers leave; a request that nobody waits for any more is given up.
Leave(d, s, sections) ==
    LET left == [k \in DOMAIN d.pending |->
                    {IF c.slot = s /\ k.section \in sections THEN [c EXCEPT !.live = FALSE]
                     ELSE c : c \in d.pending[k]}]
        kept == {k \in DOMAIN left : \E c \in left[k] : c.live}
    IN  [d EXCEPT !.pending = [k \in kept |-> left[k]]]

\* An answer to whoever asked.
Anyone(d, c) == TRUE
\* An answer is only for the last request of a slot that has not left it.
Awaited(d, c) == c.live /\ c.version = d.slot[c.slot].version

\* found: whom the answer has data of, or none for a failure.
Overview(slot, p, found) ==
    IF p \in found
    THEN [slot EXCEPT !.selected = p, !.shown = p, !.recent = None, !.loading = FALSE]
    ELSE [slot EXCEPT !.error = TRUE, !.loading = FALSE]
Evidence(slot, p, found) ==
    IF p \in found THEN [slot EXCEPT !.recent = p, !.loaded = TRUE] ELSE slot

Told(d, k, consumers, found) ==
    LET Of(s) == {c \in consumers : c.slot = s /\ Awaited(d, c)}
        After(s) == LET c == CHOOSE c \in Of(s) : TRUE
                    IN  IF k.section = "overview" THEN Overview(d.slot[s], c.player, found)
                        ELSE Evidence(d.slot[s], c.player, found)
    IN  [d EXCEPT !.slot = [s \in Slot |-> IF Of(s) = {} THEN d.slot[s] ELSE After(s)],
                  !.changed = @ \/ \E s \in Slot : \E c \in Of(s) : c.player \in found]

Without(f, k) == [j \in DOMAIN f \ {k} |-> f[j]]
With(f, k, v) == [j \in DOMAIN f \cup {k} |-> IF j = k THEN v ELSE f[j]]

\* requestPlayerStatsDesk
RequestDesk(d, k, c, bypass) ==
    LET under == k \in DOMAIN d.pending
        dropped == IF under THEN Told([d EXCEPT !.pending = Without(@, k)], k, d.pending[k], {})
                   ELSE d
    IN  IF bypass
        THEN [dropped EXCEPT !.cached = @ \ {k}, !.pending = With(@, k, {c})]
        ELSE IF k \in d.cached THEN Told(d, k, {c}, k.players)
        ELSE [d EXCEPT !.pending = With(@, k, {c} \cup IF under THEN @[k] ELSE {})]

\* canonicalBatch: the player and the first other one of the batch.
CanonicalBatch(p, others) ==
    LET rest == SelectSeq(others, LAMBDA q : q \notin {p, None})
    IN  {p} \cup IF rest = <<>> THEN {} ELSE {rest[1]}

\* A slot begins to load: its answers before are fenced off.
Begun(slot, p) ==
    [slot EXCEPT !.version = @ + 1, !.asked = p, !.loading = TRUE, !.error = FALSE,
                 !.loaded = FALSE]

\* selectPlayer and loadPlayerDetail
Load(d, s, p, others, bypass) ==
    LET left == Leave(d, s, {"overview", "recent"})
        next == [left EXCEPT !.slot[s] = Begun(@, p)]
    IN  RequestDesk(next, Key("overview", CanonicalBatch(p, others)),
                Consumer(s, p, next.slot[s].version), bypass)

\* selectPlayerById: a player who is shown is not loaded again.
LoadById(d, s, p, others) ==
    IF d.slot[s].shown = p THEN d ELSE Load(d, s, p, others, FALSE)

\* clearSelection
Clear(d) ==
    [Leave(d, 2, {"overview", "recent"}) EXCEPT
        !.slot[2] = [Empty(None) EXCEPT !.version = d.slot[2].version + 1],
        !.compare = FALSE,
        !.changed = @ \/ d.slot[2].selected # None \/ d.slot[2].shown # None]

\* loadEvidence of a slot
LoadEvidence(d, s, selections) ==
    LET p == d.slot[s].selected
    IN  IF p = None \/ d.slot[s].shown = None \/ d.slot[s].loaded THEN d
        ELSE RequestDesk(Leave(d, s, {"recent"}), Key("recent", CanonicalBatch(p, selections)),
                     Consumer(s, p, d.slot[s].version), FALSE)

Selections(d) == <<d.slot[1].selected, d.slot[2].selected>>

\* The effect of the view asks for the evidence of whom it shows.
EvidenceAsked(d, what) ==
    IF what # "recent" \/ d.slot[1].shown = None THEN d
    ELSE LoadEvidence(LoadEvidence(d, 1, Selections(d)), 2, Selections(d))

\* The page renders what a handler left, and its effects run.
Rendered(d) == desk' = [IF d.changed THEN EvidenceAsked(d, section) ELSE d
                        EXCEPT !.changed = FALSE]

-----------------------------------------------------------------------------
\* The user.
Does == steps > 0 /\ steps' = steps - 1

First == desk.slot[1]
Second == desk.slot[2]

\* A first player who is the second one takes the comparison's place.
Moved(p) == IF Second.selected = p THEN Clear(desk) ELSE desk

SelectFirst(p) ==
    /\ Does
    /\ Rendered(Load(Moved(p), 1, p, <<p, Second.selected>>, FALSE))
    /\ chosen' = <<p, IF Second.selected = p THEN None ELSE chosen[2]>>
    /\ UNCHANGED <<link, settled, section>>

\* handleSquadSelect
SelectOfSquad(p) ==
    /\ Does
    /\ Rendered(LoadById(Moved(p), 1, p, <<p, Second.selected>>))
    /\ chosen' = <<p, IF Second.selected = p THEN None ELSE chosen[2]>>
    /\ UNCHANGED <<link, settled, section>>

CanCompare == desk.compare \/ First.selected # None \/ (link[1] # None /\ First.version = 0)

SelectSecond(p) ==
    /\ Does /\ CanCompare /\ p # First.selected
    /\ Rendered([Load(desk, 2, p, <<p, First.selected>>, FALSE) EXCEPT !.compare = TRUE])
    /\ chosen' = [chosen EXCEPT ![2] = p]
    /\ UNCHANGED <<link, settled, section>>

\* handleMarketSuggestionSelect
SelectSuggested(p) ==
    /\ Does /\ desk.compare /\ First.shown # None /\ p # First.selected
    /\ Rendered(LoadById(desk, 2, p, <<p, First.selected>>))
    /\ chosen' = [chosen EXCEPT ![2] = p]
    /\ UNCHANGED <<link, settled, section>>

ClearSecond ==
    /\ Does /\ desk.compare /\ Second.selected # None
    /\ Rendered(Clear(desk))
    /\ chosen' = [chosen EXCEPT ![2] = None]
    /\ UNCHANGED <<link, settled, section>>

ComparisonRequested ==
    Second.selected # None \/ (Second.version = 0 /\ link[2] # None)

\* Where the view offers the retry button.
RetryOffered ==
    LET missing == ComparisonRequested /\ Second.shown = None
    IN  \/ First.error /\ First.shown = None
        \/ /\ First.selected # None
           /\ ~(First.loading /\ First.shown = None) /\ ~(Second.loading /\ missing)
           /\ First.error \/ Second.error
           /\ First.shown = None \/ missing
       \/ /\ First.selected # None /\ First.shown # None  \* its data are incomplete
           /\ ~First.loading /\ ~Second.loading

\* retryPlayerData
Retry ==
    LET batch == Selections(desk) \o link
        first == IF First.selected # None THEN Load(desk, 1, First.selected, batch, TRUE)
                 ELSE IF link[1] # None THEN LoadById(desk, 1, link[1], batch)
                 ELSE desk
        second == IF Second.selected # None THEN Load(first, 2, Second.selected, batch, FALSE)
                  ELSE IF ComparisonRequested THEN LoadById(first, 2, link[2], batch)
                  ELSE first
    IN  /\ Does /\ RetryOffered
        /\ Rendered(second)
        /\ chosen' = [s \in Slot |-> second.slot[s].asked]
        /\ UNCHANGED <<link, settled, section>>

ChooseSection ==
    /\ Does /\ First.shown # None
    /\ section' = IF section = "recent" THEN "fixtures" ELSE "recent"
    /\ desk' = EvidenceAsked(desk, section')
    /\ UNCHANGED <<link, settled, chosen>>

-----------------------------------------------------------------------------
\* The seed of the server arrives; a slot that was used has no need of it.
AdmitSeed(found) ==
    LET given == {link[s] : s \in Slot} \ {None}
        Admitted(s) ==
            IF desk.slot[s].version # 0 \/ link[s] = None THEN desk.slot[s]
            ELSE IF link[s] \in found
            THEN [desk.slot[s] EXCEPT !.selected = link[s], !.shown = link[s]]
            ELSE [desk.slot[s] EXCEPT !.error = TRUE]
    IN  /\ ~settled /\ settled' = TRUE
        /\ found \subseteq given
        /\ Rendered([desk EXCEPT !.slot = [s \in Slot |-> Admitted(s)],
                                 !.cached = @ \cup IF found = given
                                                   THEN {Key("overview", found)} ELSE {},
                                 !.changed = TRUE])
        /\ UNCHANGED <<link, section, chosen, steps>>

\* An answer, with the data of some players or of none; a complete one is kept.
Answer(k, found) ==
    /\ k \in DOMAIN desk.pending /\ found \subseteq k.players
    /\ LET d == [desk EXCEPT !.pending = Without(@, k),
                             !.cached = @ \cup IF found = k.players THEN {k} ELSE {}]
       IN  Rendered(Told(d, k, desk.pending[k], found))
    /\ UNCHANGED <<link, settled, section, chosen, steps>>

\* Five minutes have passed.
Forget ==
    /\ desk.cached # {}
    /\ desk' = [desk EXCEPT !.cached = {}]
    /\ UNCHANGED <<link, settled, section, chosen, steps>>

Next ==
    \/ \E p \in Player :
          SelectFirst(p) \/ SelectOfSquad(p) \/ SelectSecond(p) \/ SelectSuggested(p)
    \/ ClearSecond \/ Retry \/ ChooseSection \/ Forget
    \/ \E found \in SUBSET Player : AdmitSeed(found)
    \/ \E k \in DOMAIN desk.pending : \E found \in SUBSET k.players : Answer(k, found)

Spec == Init /\ [][Next]_vars

-----------------------------------------------------------------------------
\* A slot shows whom it last asked for unless that failed, and says that it loads
\* exactly while that request is under way: whatever answers overtake it, are shared
\* with the other slot or are aborted by it (the fences of loadPlayerDetail and the
\* consumers of requestPlayerStatsDesk).
ShowsAsked ==
    \A s \in Slot :
        LET slot == desk.slot[s]
            waits == \E k \in DOMAIN desk.pending : \E c \in desk.pending[k] :
                        /\ k.section = "overview" /\ c.slot = s
                        /\ c.live /\ c.version = slot.version
        IN  /\ slot.loading <=> waits
            /\ slot.asked # None /\ ~slot.loading /\ ~slot.error => slot.shown = slot.asked

\* When nothing loads, the first slot shows whom the user chose last, unless that
\* failed ("A newer cached selection is allowed to abort this generation",
\* e2e/player-stats.spec.ts).
LastChoiceShown ==
    settled /\ chosen[1] # None /\ ~First.loading /\ ~First.error => First.shown = chosen[1]
=============================================================================
