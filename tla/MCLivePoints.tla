---------------------------- MODULE MCLivePoints ----------------------------
(***************************************************************************)
(* The live points page in two settings, for TLC: two entries for what may *)
(* never happen (the constants of the configuration), one entry and fewer  *)
(* actions for what must.  A behaviour is of one setting.                  *)
(***************************************************************************)
EXTENDS LivePoints, TLC

CONSTANT e3   \* the entry of the second setting

VARIABLE part

Small == INSTANCE LivePoints WITH Entry <- {e3}, Retries <- 1, MaxActions <- 2

PartInit == \/ part = "wide" /\ Init
            \/ part = "small" /\ Small!Init

PartNext ==
    /\ \/ part = "wide" /\ Next
       \/ part = "small" /\ Small!Next
    /\ UNCHANGED part

pageVars == <<part, vars>>
InSmall(A) == part = "small" /\ A /\ UNCHANGED part

PartSpec ==
    /\ PartInit /\ [][PartNext]_pageVars
    /\ WF_pageVars(InSmall(Small!FetchAnswers)) /\ WF_pageVars(InSmall(Small!RetryFires))
    /\ WF_pageVars(InSmall(Small!SelectAnswers)) /\ WF_pageVars(InSmall(Small!AutoRefresh))
    /\ WF_pageVars(InSmall(Small!AutoAnswers))
    /\ SF_pageVars(InSmall(Small!FreshContext)) /\ SF_pageVars(InSmall(Small!FreshPoints))

-----------------------------------------------------------------------------
\* LivePoints!LoadEnds for one entry.
PageLoadEnds == (part = "small" /\ ui.loading) ~> ~ui.loading

\* LivePoints!ScoreCatchesUp for one entry.
PageCatchesUp == (part = "small" /\ Behind) ~> ~Behind

\* e3 is of the other setting, which is left as it is.
Symmetric == Permutations(Entry)
=============================================================================
