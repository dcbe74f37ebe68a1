------------------------------ MODULE AutoSubs ------------------------------
(***************************************************************************)
(* The automatic substitutions of app/live/points/_lib/live-auto-subs.ts:  *)
(* the page predicts them from who did not play, until Data publishes the  *)
(* lineup; of a published lineup it reconstructs who came on for whom.     *)
(* A pick is its position, 1..15; the bench is 12..15.  Captains and the   *)
(* bench boost are left out.                                               *)
(***************************************************************************)
EXTENDS Integers, Sequences, FiniteSets, FiniteSetsExt

CONSTANTS
    MaxOut,  \* bound: starters who did not play
    None

VARIABLES
    squad,      \* elementType of each pick, and who has completedWithoutPlaying
    predicted,  \* the projection the page made itself
    official    \* the projection of the published lineup, once there is one

vars == <<squad, predicted, official>>

Starters == 1..11
Bench == 12..15

-----------------------------------------------------------------------------
\* isValidFormation; elementType 1 to 4 are goalkeeper, defender, midfielder, forward.
IsValidFormation(elementType, active) ==
    LET Count(t) == Cardinality({p \in active : elementType[p] = t})
    IN  /\ Cardinality(active) = 11 /\ Count(1) = 1
        /\ Count(2) \in 3..5 /\ Count(3) \in 2..5 /\ Count(4) \in 1..3

Swapped(active, starter, sub) == (active \ {starter}) \cup {sub}

\* The starters who may make room for sub.
Replaceable(s, active, waiting, sub) ==
    {p \in waiting : IsValidFormation(s.elementType, Swapped(active, p, sub))}

\* sub comes on for starter; in effectivePositions, at, the two change places.
Substituted(x, starter, sub) ==
    [active |-> Swapped(x.active, starter, sub), waiting |-> x.waiting \ {starter},
     pairs |-> Append(x.pairs, [playerIn |-> sub, playerOut |-> starter]),
     at |-> [x.at EXCEPT ![sub] = starter, ![starter] = sub]]

Begun(waiting) ==
    [active |-> Starters, waiting |-> waiting, pairs |-> <<>>, at |-> [p \in 1..15 |-> p]]

\* The loop over the bench of deriveLiveAutoSubProjection.
TryBenchOnce(s, x, sub) ==
    LET first == {p \in x.waiting : \A q \in x.waiting : p <= q}
    IN  IF sub \in s.out \/ Replaceable(s, x.active, first, sub) = {} THEN x
        ELSE Substituted(x, Min(x.waiting), sub)
TryBench(s, x, sub) ==
    LET fits == Replaceable(s, x.active, x.waiting, sub)
    IN  IF sub \in s.out \/ fits = {} THEN x ELSE Substituted(x, Min(fits), sub)

Predict(s) ==
    LET x12 == TryBench(s, Begun(Starters \cap s.out), 12)
        x13 == TryBench(s, x12, 13)
        x14 == TryBench(s, x13, 14)
    IN  TryBench(s, x14, 15)

\* The loop over the incoming of derivePublishedProjection.
SameRole(s, waiting, sub) ==
    {p \in waiting : (s.elementType[p] = 1) = (s.elementType[sub] = 1)}

OutgoingByRole(s, x, sub) ==
    LET same == SameRole(s, x.waiting, sub)
    IN  IF same # {} THEN Max(same) ELSE Min(x.waiting)
Outgoing(s, x, sub) ==
    LET fits == Replaceable(s, x.active, x.waiting, sub)
        same == SameRole(s, x.waiting, sub)
    IN  CASE fits # {} -> Min(fits)
          [] fits = {} /\ same # {} -> Min(same)
          [] fits = {} /\ same = {} -> Min(x.waiting)

Pair(s, active, x, sub) ==
    IF sub \notin active \/ x.waiting = {} THEN x ELSE Substituted(x, Outgoing(s, x, sub), sub)

\* The players shown as active are those published, whatever the pairs.
Published(s, active) ==
    LET x12 == Pair(s, active, Begun(Starters \ active), 12)
        x13 == Pair(s, active, x12, 13)
        x14 == Pair(s, active, x13, 14)
        x15 == Pair(s, active, x14, 15)
    IN  [active |-> active, pairs |-> x15.pairs, at |-> x15.at]

-----------------------------------------------------------------------------
\* A squad of 2 goalkeepers, 5 defenders, 5 midfielders and 3 forwards that starts in a
\* valid formation, by position: the substitute goalkeeper is the first of the bench.
Formations == {form \in (3..5) \X (2..5) \X (1..3) : form[1] + form[2] + form[3] = 10}
Benches(d, m, f) ==
    {b \in [13..15 -> 2..4] :
        LET Count(t) == Cardinality({p \in 13..15 : b[p] = t})
        IN  Count(2) = 5 - d /\ Count(3) = 5 - m /\ Count(4) = 3 - f}
Types(d, m, b) ==
    [p \in 1..15 |-> CASE p \in {1, 12} -> 1
                       [] p \in 2..(d + 1) -> 2
                       [] p \in (d + 2)..(d + m + 1) -> 3
                       [] p \in (d + m + 2)..11 -> 4
                       [] p \in 13..15 -> b[p]]

Init ==
    /\ \E form \in Formations : \E b \in Benches(form[1], form[2], form[3]) :
        squad = [elementType |-> Types(form[1], form[2], b), out |-> {}]
    /\ predicted = Predict(squad)
    /\ official = None

\* The last fixture of p ends without him.  Of the starters of one type the first is
\* taken: they are consecutive, so it makes no difference which.
Miss(p) ==
    /\ official = None /\ p \notin squad.out
    /\ p \in Starters =>
        /\ Cardinality(squad.out \cap Starters) < MaxOut
        /\ \A q \in Starters :
             q < p /\ squad.elementType[q] = squad.elementType[p] => q \in squad.out
    /\ squad' = [squad EXCEPT !.out = @ \cup {p}]
    /\ predicted' = Predict(squad')
    /\ UNCHANGED official

\* The valid lineups in which players of the bench stand in for who did not play.
Lineups ==
    {active \in
        UNION {{(Starters \ out) \cup subs :
                    out \in kSubset(Cardinality(subs), Starters \cap squad.out)} :
                subs \in SUBSET (Bench \ squad.out)} :
        IsValidFormation(squad.elementType, active)}

\* Data publishes a lineup, which need not be the predicted one.
Publish ==
    /\ official = None
    /\ \E active \in Lineups : official' = Published(squad, active)
    /\ UNCHANGED <<squad, predicted>>

Next == (\E p \in 1..15 : Miss(p)) \/ Publish

Spec == Init /\ [][Next]_vars

-----------------------------------------------------------------------------
(* Properties.                                                             *)

\* The order of preference: a lineup with the first of the bench, then with the second ...
Before(a, b) == \E p \in Bench \cap (a \ b) : \A q \in Bench : q < p => (q \in a <=> q \in b)

\* "Bench players are tried in their FPL order ... Every swap must leave a legal
\* 11-player formation" (live-auto-subs.ts:243): one pass over the bench, which takes the
\* first starter who may leave and never takes a swap back, brings on the best of all
\* that the bench can field.
BestComeOn ==
    /\ predicted.active \in Lineups
    /\ \A active \in Lineups : ~Before(active, predicted.active)

\* The public contract names no pairs (live-auto-subs.ts:187).  When the lineup is
\* published as predicted, nothing on the page moves: the pairs reconstructed and the
\* places are those predicted.  In every lineup, who counts stands where a starter stood.
NothingMoves ==
    official # None =>
        /\ official.active = predicted.active =>
            official.pairs = predicted.pairs /\ official.at = predicted.at
        /\ \A p \in 1..15 : p \in official.active <=> official.at[p] \in Starters
=============================================================================
