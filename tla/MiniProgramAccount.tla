------------------------- MODULE MiniProgramAccount -------------------------
(***************************************************************************)
(* Mini Program accounts (lib/miniprogram-account.ts): a WeChat identity   *)
(* signs in, is linked to a Web user by a code mailed to that user, and is *)
(* unlinked again.  Requests are Postgres transactions at READ COMMITTED   *)
(* that lock the account row, then the user row, and hold both to their    *)
(* end; everything read before the locks may be stale.                     *)
(*                                                                         *)
(* One action per step that waits for a lock or for another service.  What *)
(* a transaction writes is seen by others when it commits, so its writes   *)
(* are in its last step; the account row it inserts is covered by the lock *)
(* on its openid.  A session is the active one of an account on a device:  *)
(* the value is its userId.                                                *)
(***************************************************************************)
EXTENDS Naturals, FiniteSets

CONSTANTS
    OpenId, UnionId,   \* WeChat identifiers
    Identity,          \* the pairs of them that WeChat may answer
    User,              \* Web users, each with its email address
    Device,
    Code,              \* mailed codes
    Entry,             \* FPL entry ids
    Req,               \* requests in progress at once
    MaxAttempts,       \* MAX_ATTEMPTS
    None,              \* null
    Absent             \* no row

NoChoice == [source |-> None, mini |-> None, web |-> None]
Choice == [source: {"MINI", "WEB"}, mini: Entry, web: Entry] \cup {NoChoice}
Account == [unionid: UnionId \cup {None}, link: User \cup {None},
            follow: Entry \cup {None}, choice: Choice]

\* tried: history, the guesses compared with this code.
Pending == [code: Code, attempts: 0..MaxAttempts, tried: 0..(MaxAttempts + 1)]

ASSUME MiniProgramAssumption ==
    /\ Identity \subseteq [openid: OpenId, unionid: UnionId \cup {None}]
    /\ MaxAttempts \in Nat \ {0}
    /\ None \notin OpenId \cup UnionId \cup User \cup Code \cup Entry
    /\ Absent \notin User \cup {None} \cup Account \cup Pending
    /\ User \cap (OpenId \cup UnionId) = {}  \* the keys of locks are of two tables

VARIABLES
    account,  \* account[o]: the mini_program_account row inserted for openid o
    user,     \* user[u]: openid and verified entry of the Web user
    session,  \* session[o][d]
    code,     \* code[u][d]: the code that is neither consumed nor expired
    req       \* req[r]: a request

vars == <<account, user, session, code, req>>

Idle == [op |-> "idle", holds |-> {}]

\* user: whom a sign-in found under the openid, a confirmation's email names,
\* or the link an unlink found; holds: the locks of the transaction.
Flow == [op: {"signIn", "confirm", "unlink"}, phase: {"account", "user", "commit"},
         who: [openid: OpenId, unionid: UnionId \cup {None}], device: Device,
         user: User \cup {None}, guess: Code \cup {None},
         holds: SUBSET (OpenId \cup UnionId \cup User)]
Write == [op: {"follow"}, account: OpenId, value: Entry \cup {None}, holds: {{}}]
            \cup [op: {"choose"}, account: OpenId, value: Choice, holds: {{}}]

TypeOK ==
    /\ account \in [OpenId -> Account \cup {Absent}]
    /\ user \in [User -> [openid: OpenId \cup {None}, entry: Entry \cup {None}]]
    /\ session \in [OpenId -> [Device -> User \cup {None, Absent}]]
    /\ code \in [User -> [Device -> Pending \cup {Absent}]]
    /\ req \in [Req -> {Idle} \cup Flow \cup Write]

Exists(o) == account[o] # Absent
Linked(u) == {o \in OpenId : Exists(o) /\ account[o].link = u}

\* The migration gave every user that had an openid its account.
Init ==
    \E held \in [User -> OpenId \cup {None}] :
        /\ \A u, v \in User : u # v /\ held[u] # None => held[u] # held[v]
        /\ user = [u \in User |-> [openid |-> held[u], entry |-> None]]
        /\ account = [o \in OpenId |->
                IF \E u \in User : held[u] = o
                THEN [unionid |-> None, link |-> CHOOSE u \in User : held[u] = o,
                      follow |-> None, choice |-> NoChoice]
                ELSE Absent]
        /\ session = [o \in OpenId |-> [d \in Device |-> Absent]]
        /\ code = [u \in User |-> [d \in Device |-> Absent]]
        /\ req = [r \in Req |-> Idle]

-----------------------------------------------------------------------------
(* Locks.                                                                  *)

Free(r, rows) == \A s \in Req \ {r} : rows \cap req[s].holds = {}

\* The accounts that match an identity, and the row its insert falls on.
Matched(who) ==
    {o \in OpenId : /\ Exists(o)
                    /\ \/ o = who.openid
                       \/ who.unionid # None /\ account[o].unionid = who.unionid}
Found(who) ==
    IF Exists(who.openid) \/ Matched(who) = {} THEN who.openid
    ELSE CHOOSE o \in Matched(who) : TRUE

AccountRows(who) == Matched(who) \cup ({who.openid, who.unionid} \ {None})

\* The identity belongs to two accounts, or the account to another identity.
Mismatch(who) ==
    \/ Cardinality(Matched(who)) > 1
    \/ \E o \in Matched(who) :
        account[o].unionid # None /\ who.unionid # None /\ account[o].unionid # who.unionid

\* The row as findOrCreateMiniProgramAccount leaves it, link apart.
Opened(who) ==
    IF Exists(Found(who))
    THEN [account[Found(who)] EXCEPT !.unionid = IF @ = None THEN who.unionid ELSE @]
    ELSE [unionid |-> who.unionid, link |-> None, follow |-> None, choice |-> NoChoice]

Roll(r) == req' = [req EXCEPT ![r] = Idle] /\ UNCHANGED <<account, user, session, code>>
Tables == <<account, user, session, code>>

-----------------------------------------------------------------------------
(* Requests begin with what they read before any lock.                     *)

UserOf(openid) ==
    IF \E u \in User : user[u].openid = openid
    THEN CHOOSE u \in User : user[u].openid = openid ELSE None

Begin(r, request) == req[r] = Idle /\ req' = [req EXCEPT ![r] = request] /\ UNCHANGED Tables

BeginFlowUserFirst(r, flow) ==
    LET first == {flow.user} \ {None}
    IN  Free(r, first) /\ Begin(r, [flow EXCEPT !.holds = first])
BeginFlow(r, flow) == Begin(r, flow)

Guesses(u, d) == {None} \cup (IF code[u][d] = Absent THEN {} ELSE {code[u][d].code})

\* signInStandaloneMiniProgram: the user is looked up without a lock.
SignIn(r) ==
    \E who \in Identity, d \in Device :
        BeginFlow(r, [op |-> "signIn", phase |-> "account", who |-> who, device |-> d,
                      user |-> UserOf(who.openid), guess |-> None, holds |-> {}])

\* The guess is the code of the moment, or a wrong one.
Confirm(r) ==
    \E who \in Identity, d \in Device, u \in User : \E guess \in Guesses(u, d) :
        BeginFlow(r, [op |-> "confirm", phase |-> "account", who |-> who, device |-> d,
                      user |-> u, guess |-> guess, holds |-> {}])

Active(o) == {d \in Device : session[o][d] # Absent}

Unlink(r) ==
    \E o \in OpenId : \E d \in Active(o) :
        BeginFlow(r, [op |-> "unlink", phase |-> "account",
                      who |-> [openid |-> o, unionid |-> None], device |-> d,
                      user |-> None, guess |-> None, holds |-> {}])

\* setMiniProgramFollowEntry awaits FPL, clearMiniProgramFollowEntry does not.
Follow(r) ==
    \E o \in OpenId, e \in Entry \cup {None} :
        /\ Active(o) # {}
        /\ Begin(r, [op |-> "follow", account |-> o, value |-> e, holds |-> {}])

\* chooseMiniProgramEntrySource: the two teams must differ and be current.
Choose(r) ==
    \E o \in OpenId, source \in {"MINI", "WEB"} :
        /\ Active(o) # {} /\ account[o].link # None
        /\ LET mini == account[o].follow
               web == user[account[o].link].entry
           IN  /\ mini # None /\ web # None /\ mini # web
               /\ Begin(r, [op |-> "choose", account |-> o, holds |-> {},
                            value |-> [source |-> source, mini |-> mini, web |-> web]])

-----------------------------------------------------------------------------
(* Their locks, in the order account, then user.                           *)

InPhase(r, phase) == req[r].op \in {"signIn", "confirm", "unlink"} /\ req[r].phase = phase

Hold(r, rows, phase, u) ==
    /\ Free(r, rows)
    /\ req' = [req EXCEPT ![r].phase = phase, ![r].user = u, ![r].holds = @ \cup rows]
    /\ UNCHANGED Tables

\* The account row is found or inserted; a sign-in whose user is not the one
\* the account is linked to ends here.
LockAccount(r) ==
    /\ InPhase(r, "account")
    /\ LET who == req[r].who
           u == IF req[r].op = "unlink" THEN account[who.openid].link ELSE req[r].user
           taken == /\ req[r].op = "signIn" /\ u # None
                    /\ Opened(who).link \notin {None, u}
       IN  IF Mismatch(who) \/ taken
           THEN Free(r, AccountRows(who)) /\ Roll(r)
           ELSE Hold(r, AccountRows(who), IF u = None THEN "commit" ELSE "user", u)

LockUser(r) ==
    InPhase(r, "user") /\ Hold(r, {req[r].user}, "commit", req[r].user)

-----------------------------------------------------------------------------
(* The last step of each: its checks, its writes, its commit.              *)

Ends(r) == req' = [req EXCEPT ![r] = Idle]

Committing(r, op) == InPhase(r, "commit") /\ req[r].op = op

\* mini_program_session_active_user_device_unique
DeviceTaken(o, d, u) == u # None /\ \E p \in OpenId \ {o} : session[p][d] = u

StillTheirsAlways(r) == TRUE
\* The user found before the locks must still have the openid.
StillTheirs(r) == req[r].user # None => user[req[r].user].openid = req[r].who.openid

CommitSignIn(r) ==
    /\ Committing(r, "signIn")
    /\ LET who == req[r].who
           o == Found(who)
           link == IF Opened(who).link = None THEN req[r].user ELSE Opened(who).link
           refused == \/ ~StillTheirs(r)
                      \/ link # None /\ Linked(link) \ {o} # {}
                      \/ DeviceTaken(o, req[r].device, link)
       IN  \/ refused /\ Roll(r)
           \/ /\ ~refused /\ Ends(r)
              /\ account' = [account EXCEPT ![o] = [Opened(who) EXCEPT !.link = link]]
              /\ session' = [session EXCEPT ![o][req[r].device] = link]
              /\ UNCHANGED <<user, code>>

\* The sessions of account o after its link became u, one of them new.
RelinkedOneSession(o, u, d) == [session[o] EXCEPT ![d] = u]
Relinked(o, u, d) ==
    [e \in Device |-> IF e = d \/ session[o][e] # Absent THEN u ELSE Absent]

\* A link starts without the choice made under an earlier one.
ConfirmedKeepingChoice(who, u) == [Opened(who) EXCEPT !.link = u]
Confirmed(who, u) == [Opened(who) EXCEPT !.link = u, !.choice = NoChoice]

\* The code that is compared: pending, not exhausted.
Comparable(u, d) == code[u][d] # Absent /\ code[u][d].attempts < MaxAttempts

MissedRolledBack(u, d) == [code[u][d] EXCEPT !.tried = @ + 1]
Missed(u, d) == [code[u][d] EXCEPT !.attempts = @ + 1, !.tried = @ + 1]

CommitConfirm(r) ==
    /\ Committing(r, "confirm")
    /\ LET who == req[r].who
           o == Found(who)
           u == req[r].user
           d == req[r].device
           wrong == Comparable(u, d) /\ req[r].guess # code[u][d].code
           right == Comparable(u, d) /\ req[r].guess = code[u][d].code
           conflict == \/ Opened(who).link \notin {None, u}
                       \/ Linked(u) \ {o} # {}
                       \/ user[u].openid \notin {None, who.openid}
           duplicate == \/ \E v \in User \ {u} : user[v].openid = who.openid
                        \/ \E e \in {d} \cup Active(o) : DeviceTaken(o, e, u)
           Open(row) == account' = [account EXCEPT ![o] = row]
       IN  \/ /\ ~right \/ conflict
              /\ Ends(r) /\ Open(Opened(who))
              /\ code' = IF wrong THEN [code EXCEPT ![u][d] = Missed(u, d)] ELSE code
              /\ UNCHANGED <<user, session>>
           \/ right /\ ~conflict /\ duplicate /\ Roll(r)
           \/ /\ right /\ ~conflict /\ ~duplicate
              /\ Ends(r)
              /\ Open(Confirmed(who, u))
              /\ user' = [user EXCEPT ![u].openid = who.openid]
              /\ session' = [session EXCEPT ![o] = Relinked(o, u, d)]
              /\ code' = [code EXCEPT ![u][d] = Absent]

CommitUnlink(r) ==
    /\ Committing(r, "unlink")
    /\ LET o == req[r].who.openid
           u == req[r].user
       IN  /\ user' = IF u = None THEN user ELSE [user EXCEPT ![u].openid = None]
           /\ account' = [account EXCEPT ![o].link = None, ![o].choice = NoChoice]
           /\ session' = [session EXCEPT ![o] =
                    [e \in Device |-> IF @[e] = Absent THEN Absent ELSE None]]
    /\ Ends(r) /\ UNCHANGED code

\* A single UPDATE: it waits for whoever holds the row.
CommitWrite(r) ==
    /\ req[r].op \in {"follow", "choose"}
    /\ LET o == req[r].account
       IN  /\ Free(r, {o})
           /\ account' = [account EXCEPT ![o] =
                IF req[r].op = "follow"
                THEN [@ EXCEPT !.follow = req[r].value, !.choice = NoChoice]
                ELSE [@ EXCEPT !.choice = req[r].value]]
    /\ Ends(r) /\ UNCHANGED <<user, session, code>>

-----------------------------------------------------------------------------
(* What needs one lock at most.                                            *)

\* startMiniProgramEmailBinding: the user's new code replaces the last one.
StartEmailBinding ==
    \E u \in User, d \in Device, c \in Code :
        /\ \A s \in Req : u \notin req[s].holds
        /\ \A s \in Req : InPhase(s, "account") \/ InPhase(s, "user") \/ InPhase(s, "commit")
                            => req[s].guess # c
        /\ \A v \in User, e \in Device : code[v][e] # Absent => code[v][e].code # c
        /\ code' = [code EXCEPT ![u][d] = [code |-> c, attempts |-> 0, tried |-> 0]]
        /\ UNCHANGED <<account, user, session, req>>

CodeExpires ==
    /\ \E u \in User, d \in Device :
        code[u][d] # Absent /\ code' = [code EXCEPT ![u][d] = Absent]
    /\ UNCHANGED <<account, user, session, req>>

\* revokeMiniProgramSession, or the session's thirty days are over.
RevokeSession ==
    /\ \E o \in OpenId : \E d \in Active(o) : session' = [session EXCEPT ![o][d] = Absent]
    /\ UNCHANGED <<account, user, code, req>>

\* lib/fpl-entry-binding.ts binds an entry to a Web user or unbinds it.
WebEntry ==
    /\ \E u \in User, e \in Entry \cup {None} :
        /\ \A s \in Req : u \notin req[s].holds
        /\ e # user[u].entry /\ \A v \in User : e # None => user[v].entry # e
        /\ user' = [user EXCEPT ![u].entry = e]
    /\ UNCHANGED <<account, session, code, req>>

Next ==
    \/ \E r \in Req :
        \/ SignIn(r) \/ Confirm(r) \/ Unlink(r) \/ Follow(r) \/ Choose(r)
        \/ LockAccount(r) \/ LockUser(r)
        \/ CommitSignIn(r) \/ CommitConfirm(r) \/ CommitUnlink(r) \/ CommitWrite(r)
    \/ StartEmailBinding \/ CodeExpires \/ RevokeSession \/ WebEntry

Spec == Init /\ [][Next]_vars

-----------------------------------------------------------------------------
(* Properties.                                                             *)

\* A Web user's openid and an account's link are two halves of one fact, kept
\* in two tables by transactions that overlap: a user has an openid exactly
\* when one account is linked to it, and then it is that account's identity.
LinkIsMutual ==
    \A u \in User :
        /\ Cardinality(Linked(u)) = (IF user[u].openid = None THEN 0 ELSE 1)
        /\ \A o \in Linked(u) :
            user[u].openid # o => account[o].unionid # None

\* Every active session carries the Web user its account is linked to: a link
\* made or undone on one device reaches the sessions of the others, and no
\* overlapping sign-in stores the link it read before.
SessionFollowsLink ==
    \A o \in OpenId : \A d \in Active(o) : Exists(o) /\ session[o][d] = account[o].link

\* What a step that links an account to a user has consumed.
LinksByCode ==
    \A o \in OpenId, u \in User :
        (Exists(o)' /\ account'[o].link = u) /\ ~(Exists(o) /\ account[o].link = u)
            => \E r \in Req, d \in Device :
                /\ req[r] # Idle /\ req'[r] = Idle /\ req[r].op = "confirm"
                /\ code[u][d] # Absent /\ req[r].guess = code[u][d].code
                /\ code'[u][d] = Absent

\* A link appears only with the code that is pending for that user at that
\* moment, which it consumes: not by a sign-in that read a link undone since,
\* nor with a code that was replaced.
LinkNeedsCode == [][LinksByCode]_vars

\* No code is compared with more guesses than MAX_ATTEMPTS, however many
\* confirmations overlap: a wrong guess is committed, not rolled back.
GuessesBounded ==
    \A u \in User, d \in Device : code[u][d] # Absent => code[u][d].tried <= MaxAttempts

\* resolveMiniProgramEntryState: the Web team counts though another is followed.
PrefersWeb(o) ==
    /\ Exists(o) /\ account[o].link # None
    /\ LET mini == account[o].follow
           web == user[account[o].link].entry
       IN  /\ mini # None /\ web # None /\ mini # web
           /\ account[o].choice = [source |-> "WEB", mini |-> mini, web |-> web]

\* Of the steps that write an account only a choice turns it to the Web team.
TurnsByChoice ==
    \A o \in OpenId :
        PrefersWeb(o)' /\ ~PrefersWeb(o) =>
            \/ account' = account
            \/ \E r \in Req : req[r].op = "choose" /\ req'[r] = Idle

\* Whoever follows a team sees it unless the owner chose the Web team: following,
\* linking and unlinking never bring back a choice, not even one written late,
\* by a request that read the pair before the account was unlinked.
OnlyAChoicePrefersWeb == [][TurnsByChoice]_vars

\* What request r waits for.
Awaited(r) ==
    CASE InPhase(r, "account") -> AccountRows(req[r].who)
      [] InPhase(r, "user") -> {req[r].user}
      [] req[r].op \in {"follow", "choose"} -> {req[r].account}
      [] OTHER -> {}

\* "the same account-then-user lock order ... avoids a user/account deadlock":
\* among any requests one waits for none of the others.
NoDeadlock ==
    \A S \in SUBSET Req : S # {} =>
        \E r \in S : \A s \in S \ {r} : Awaited(r) \cap req[s].holds = {}
\* The account of openid o is linked to this user.
Partner == [o \in OpenId |-> IF Exists(o) THEN account[o].link ELSE None]

\* The codes of each user that are neither used, replaced nor expired.
Usable == [u \in User |-> {code[u][d].code : d \in {e \in Device : code[u][e] # Absent}}]

Contract == INSTANCE AccountLink WITH partner <- Partner, mailed <- Usable

\* The overlapping transactions on two tables and the sessions implement
\* AccountLink: a link is one step that uses up a code mailed to that user and
\* finds both sides free, and no other step but an undoing changes a link.
KeepsContract == Contract!LinkSpec
=============================================================================
