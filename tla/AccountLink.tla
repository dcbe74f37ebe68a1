----------------------------- MODULE AccountLink -----------------------------
(***************************************************************************)
(* What the Mini Program promises about the link of a WeChat identity and  *)
(* a Web user, which the sign-in, the followed team and the Web pages all  *)
(* build on: it is one to one, it is made by using up a code that was      *)
(* mailed to that user, and it ends only by being undone.  Requests, locks,*)
(* sessions, guesses and the two tables that hold the link are invisible   *)
(* here.                                                                   *)
(***************************************************************************)
CONSTANTS OpenId, User, Code, None

VARIABLES
    partner,  \* partner[o]: the Web user the identity o is linked to
    mailed    \* mailed[u]: the codes that were mailed to u and can still be used

linkVars == <<partner, mailed>>

OneToOne == \A o, p \in OpenId : partner[o] = partner[p] /\ partner[o] # None => o = p

LinkInit ==
    /\ partner \in [OpenId -> User \cup {None}] /\ OneToOne
    /\ mailed = [u \in User |-> {}]

\* A new code, which may put an end to earlier ones.
Mail(u, c) ==
    /\ UNCHANGED partner
    /\ \A v \in User : c \notin mailed[v]
    /\ \E kept \in SUBSET mailed[u] : mailed' = [mailed EXCEPT ![u] = kept \cup {c}]

\* Codes expire, or are used for a link that was there already.
Lapse(u) ==
    /\ UNCHANGED partner
    /\ \E kept \in SUBSET mailed[u] : mailed' = [mailed EXCEPT ![u] = kept]

Link(o, u, c) ==
    /\ c \in mailed[u]
    /\ partner[o] = None /\ \A p \in OpenId : partner[p] # u
    /\ partner' = [partner EXCEPT ![o] = u]
    /\ mailed' = [mailed EXCEPT ![u] = @ \ {c}]

Undo(o) == partner' = [partner EXCEPT ![o] = None] /\ UNCHANGED mailed

LinkNext ==
    \/ \E u \in User : Lapse(u) \/ \E c \in Code : Mail(u, c)
    \/ \E o \in OpenId : Undo(o) \/ \E u \in User, c \in Code : Link(o, u, c)

LinkSpec == LinkInit /\ [][LinkNext]_linkVars
=============================================================================
