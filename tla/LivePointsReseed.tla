-------------------------- MODULE LivePointsReseed --------------------------
(***************************************************************************)
(* LivePoints with a page that the server renders again for the entry it   *)
(* shows, while it is mounted: the user follows a link to the page he is   *)
(* on, and the hook gets new props (the seed effect of useLivePoints.ts;   *)
(* something newer than the last seed, if only sourceCheckedAt, is in it). *)
(***************************************************************************)
EXTENDS LivePoints

\* The seed effect.  activeEntryId is what it was, so its own effect, which
\* would take skip back, does not run.
Seed(anchor, updating) ==
    /\ ui.entry # None
    /\ budget > 0 /\ budget' = budget - 1 /\ UNCHANGED server
    /\ anchor <= server.anchor
    /\ \E u \in Seeds([ui EXCEPT !.gw = anchor, !.cur = anchor, !.follows = TRUE,
                                 !.syncing = updating], ui.entry) :
        ui' = [u EXCEPT !.skip = TRUE]

ReseedNext ==
    \/ Next
    \/ \E gw \in Gameweek, updating \in BOOLEAN : Seed(gw, updating)

ReseedSpec == Init /\ [][ReseedNext]_vars /\ Fairness

\* "Loading a new entry is the trigger; the selected gameweek is read at that
\* point" (useLivePoints.ts:1031): an entry that is submitted is fetched, so the
\* page does not stay in its loading state.
SubmittedEntryLoads == ui.loading ~> ~ui.loading
=============================================================================
