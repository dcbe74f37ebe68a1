--------------------------- MODULE PriceChangeLive ---------------------------
(***************************************************************************)
(* The price board that follows Data: the poll of                          *)
(* lib/price-change-live-client.ts as PriceChangesBoard.tsx shows it.      *)
(* Data publishes provisional and durable boards and withdraws them; a     *)
(* poll asks for the cursor (which an edge cache may answer) and, if it    *)
(* differs from what the client noted last, for the board.  New server     *)
(* renders of the page bring a seed in the middle of a poll, the page is   *)
(* hidden and shown again, and requests fail.  Seeds are boards that the   *)
(* page takes as they are (isPersistableBoard).                            *)
(* The length of the delays is left out: a poll that is scheduled happens. *)
(***************************************************************************)
EXTENDS Naturals

CONSTANTS
    MaxPublished,  \* bound on boards and withdrawals that Data publishes
    MaxSeeds,      \* bound on server renders after the first
    MaxHides,      \* bound on how often the page is hidden
    MaxFails,      \* bound on requests that fail
    None

VARIABLES
    live,     \* what Data publishes
    durable,  \* the durable boards Data has published
    cached,   \* the cursor that the edge cache answers with
    shown,    \* displayBoard and liveState
    noted,    \* revisionRef, sourceHashRef and stateRef
    kept,     \* durableBoardRef
    poll,     \* the poll under way
    timer,    \* is the next poll scheduled?
    hidden,
    left      \* what may still happen

vars == <<live, durable, cached, shown, noted, kept, poll, timer, hidden, left>>

\* A board is its revision and, while it is provisional, the hash of its source.
Board(state, revision, hash) == [state |-> state, revision |-> revision, hash |-> hash]
Durable(r) == Board("DURABLE", r, None)
Unavailable == Board("UNAVAILABLE", None, None)
NoPoll == [at |-> "none", cursor |-> Unavailable, board |-> Unavailable]

Init ==
    /\ live = Durable(0) /\ durable = {0} /\ cached = live
    /\ shown = Durable(0) /\ noted = Durable(0) /\ kept = 0
    /\ poll = NoPoll /\ timer = TRUE /\ hidden = FALSE
    /\ left = [published |-> MaxPublished, seeds |-> MaxSeeds, hides |-> MaxHides,
               fails |-> MaxFails]

Spends(what) == left[what] > 0 /\ left' = [left EXCEPT ![what] = @ - 1]

\* Data publishes a board, under a new revision or under the one of a provisional
\* board, or withdraws what it published.  The count is what tells them apart.
Publish ==
    LET n == MaxPublished - left.published + 1
        Revisions == {n} \cup IF live.state = "PROVISIONAL" THEN {live.revision} ELSE {}
    IN  /\ Spends("published")
        /\ \/ \E r \in Revisions : live' = Board("PROVISIONAL", r, n) /\ UNCHANGED durable
           \/ \E r \in Revisions : live' = Durable(r) /\ durable' = durable \cup {r}
           \/ live' = Unavailable /\ UNCHANGED durable
        /\ UNCHANGED <<cached, shown, noted, kept, poll, timer, hidden>>

Revalidate ==
    /\ cached # live /\ cached' = live
    /\ UNCHANGED <<live, durable, shown, noted, kept, poll, timer, hidden, left>>

\* A seed that replaces the board and not what is noted of it.
SeedUnnoted(r) == noted
\* A seed is noted as it is shown.
SeedNoted(r) == Durable(r)

\* A server render, of any age, replaces the board and what is noted of it.
Seed(r) ==
    /\ Spends("seeds") /\ r \in durable
    /\ shown' = Durable(r) /\ noted' = SeedNoted(r) /\ kept' = r
    /\ UNCHANGED <<live, durable, cached, poll, timer, hidden>>

-----------------------------------------------------------------------------
\* A poll ends by scheduling the next one, unless the page is hidden.
Ends == poll' = NoPoll /\ timer' = ~hidden

Starts ==
    IF hidden THEN Ends
    ELSE poll' = [NoPoll EXCEPT !.at = "cursor"] /\ timer' = FALSE

Fire ==
    /\ timer /\ poll = NoPoll
    /\ Starts
    /\ UNCHANGED <<live, durable, cached, shown, noted, kept, hidden, left>>

Hide ==
    /\ ~hidden /\ Spends("hides") /\ hidden' = TRUE
    /\ UNCHANGED <<live, durable, cached, shown, noted, kept, poll, timer>>

\* visibilitychange and focus: a poll at once, if none is under way.
Show ==
    /\ hidden /\ hidden' = FALSE
    /\ IF poll = NoPoll
       THEN poll' = [NoPoll EXCEPT !.at = "cursor"] /\ timer' = FALSE
       ELSE timer' = FALSE /\ UNCHANGED poll
    /\ UNCHANGED <<live, durable, cached, shown, noted, kept, left>>

\* Either question reaches Data, or the cache, before its answer reaches the page.
CursorRead ==
    /\ poll.at = "cursor"
    /\ poll' = [poll EXCEPT !.at = "cursor answered", !.cursor = cached]
    /\ UNCHANGED <<live, durable, cached, shown, noted, kept, timer, hidden, left>>

\* The cursor is withdrawn: the page goes back to the last durable board it was given.
FallBack ==
    /\ poll.at = "cursor answered" /\ poll.cursor = Unavailable
    /\ LET back == [Durable(kept) EXCEPT !.state = "UNAVAILABLE"]
       IN  IF noted # back THEN noted' = back /\ shown' = back
           ELSE UNCHANGED <<noted, shown>>
    /\ Ends
    /\ UNCHANGED <<live, durable, cached, kept, hidden, left>>

\* Does the cursor tell of another board than the noted one?
Differs(c) ==
    \/ c.revision # noted.revision
    \/ c.state # noted.state
    \/ c.state = "PROVISIONAL" /\ c.hash # noted.hash

CursorAnswer ==
    /\ poll.at = "cursor answered" /\ poll.cursor # Unavailable
    /\ IF Differs(poll.cursor)
       THEN poll' = [poll EXCEPT !.at = "board"] /\ UNCHANGED timer
       ELSE Ends
    /\ UNCHANGED <<live, durable, cached, shown, noted, kept, hidden, left>>

BoardRead ==
    /\ poll.at = "board"
    /\ poll' = [poll EXCEPT !.at = "board answered", !.board = live]
    /\ UNCHANGED <<live, durable, cached, shown, noted, kept, timer, hidden, left>>

\* A provisional board must be the one that the cursor told of.
Accepted(b) ==
    /\ b.state # "UNAVAILABLE"
    /\ poll.cursor.state = "PROVISIONAL" =>
          b.revision = poll.cursor.revision /\ b.hash = poll.cursor.hash

BoardAnswer ==
    /\ poll.at = "board answered"
    /\ IF Accepted(poll.board)
       THEN /\ noted' = poll.board /\ shown' = poll.board
            /\ kept' = IF poll.board.state = "DURABLE" THEN poll.board.revision ELSE kept
       ELSE UNCHANGED <<noted, shown, kept>>
    /\ Ends
    /\ UNCHANGED <<live, durable, cached, hidden, left>>

\* An error, a timeout, or an answer that is none.
PollFails ==
    /\ poll # NoPoll /\ Spends("fails")
    /\ Ends
    /\ UNCHANGED <<live, durable, cached, shown, noted, kept, hidden>>

PollGoesOn == CursorRead \/ FallBack \/ CursorAnswer \/ BoardRead \/ BoardAnswer
Progress == Revalidate \/ Fire \/ Show \/ PollGoesOn
Next == Progress \/ Publish \/ (\E r \in durable : Seed(r)) \/ Hide \/ PollFails

\* Timers fire, requests end, caches are revalidated and the page is shown again.
Spec == Init /\ [][Next]_vars /\ WF_vars(Revalidate) /\ WF_vars(Fire) /\ WF_vars(Show)
             /\ WF_vars(PollGoesOn)

-----------------------------------------------------------------------------
CaughtUp ==
    IF live.state = "UNAVAILABLE"
    THEN shown.state = "UNAVAILABLE" /\ shown.hash = None /\ shown.revision \in durable
    ELSE shown = live

\* Whatever seeds, hidden spells and failures come in the middle of a poll, in the end
\* the page shows what Data publishes, or a durable board when Data has withdrawn it
\* (the poll of usePriceChangeLiveUpdates compares with what it noted, not what it shows).
BoardCatchesUp == <>[]CaughtUp
=============================================================================
