----------------------------- MODULE FplBinding -----------------------------
(***************************************************************************)
(* A Web user's FPL entry: lib/fpl-entry-binding.ts over the tables of     *)
(* lib/db.  A call asks FPL for the entry and then writes in a             *)
(* transaction of its own, so calls of the same user run into each other   *)
(* while FPL answers; the transactions are READ COMMITTED, and the direct  *)
(* binding and the refresh read the user without locking the row.          *)
(* Pages and actions start only some of the operations (CalledOps): the    *)
(* ownership challenge and the claim of the refresh window are retained    *)
(* and have no caller.  The request that a binding leaves in the outbox    *)
(* is BindRecord of EntrySyncOutbox.                                       *)
(***************************************************************************)
EXTENDS Naturals, FiniteSets

CONSTANTS
    User, Entry, Call,  \* Call: the calls that may be under way at a time
    Ops,                \* the operations that are started
    BindLimit,          \* FPL_BINDING_RATE_LIMIT_MAX, within the one window modelled
    CreationLimit,      \* FPL_BINDING_CREATION_LIMIT, within the one hour modelled
    MaxAttempts,        \* FPL_BINDING_MAX_ATTEMPTS
    MaxTitle,           \* bound on what a team is called
    None

CalledOps == {"bind", "unlink", "refresh"}
AllOps == CalledOps \cup {"claim", "challenge", "confirm"}

\* What the proofs ask of the constants.
BindingAssumption == MaxTitle \in Nat /\ None \notin AllOps

VARIABLES
    user,       \* each user's row: the entry, its name snapshot, when that was refreshed
    history,    \* fpl_entry_name_history
    challenge,  \* fpl_entry_binding_challenges, in the order of their creation
    bound,      \* the challenges that a confirmation bound
    spent,      \* each user's bucket in request_rate_limits
    title,      \* what FPL calls the team of each entry
    call

vars == <<user, history, challenge, bound, spent, title, call>>

\* What a team is called: the title k is the one that the challenge k requires.
Title == 0..MaxTitle
Name == [of : Entry, title : Title]
Row == [entry : Entry \cup {None}, name : Name \cup {None},
        refreshed : {None, "old", "now"}]
Id == 1..(CreationLimit * Cardinality(User))
Challenge == [user : User, entry : Entry, open : BOOLEAN, expired : BOOLEAN,
              attempts : 0..MaxAttempts]

Unbound == [entry |-> None, name |-> None, refreshed |-> None]
Idle == [op |-> None, at |-> "idle", user |-> None, entry |-> None, id |-> None,
         name |-> None, old |-> Unbound]

TypeOK ==
    /\ user \in [User -> Row]
    /\ history \subseteq [user : User, entry : Entry, name : Name]
    /\ challenge \in [DOMAIN challenge -> Challenge] /\ DOMAIN challenge \subseteq Id
    /\ bound \subseteq Id
    /\ spent \in [User -> Nat]
    /\ title \in [Entry -> Title]
    /\ call \in [Call -> [op : Ops \cup {None},
                          at : {"idle", "ask", "select", "write", "miss", "reset"},
                          user : User \cup {None}, entry : Entry \cup {None},
                          id : Id \cup {None}, name : Name \cup {None}, old : Row]]

Init ==
    /\ user = [u \in User |-> Unbound]
    /\ history = {}
    /\ challenge = [k \in {} |-> None]
    /\ bound = {}
    /\ spent = [u \in User |-> 0]
    /\ title = [e \in Entry |-> 0]
    /\ call = [c \in Call |-> Idle]

Starts(c, op, u, e, id) ==
    /\ op \in Ops /\ call[c] = Idle
    /\ call' = [call EXCEPT ![c] = [op |-> op, at |-> "ask", user |-> u, entry |-> e,
                                    id |-> id, name |-> None, old |-> Unbound]]
\* The call goes on with a name and the row it has read.
Carries(c, at, name, old) ==
    call' = [call EXCEPT ![c] = [op |-> @.op, at |-> at, user |-> @.user, entry |-> @.entry,
                                 id |-> @.id, name |-> name, old |-> old]]
Goes(c, at) == call' = [call EXCEPT ![c].at = at]
Ends(c) == call' = [call EXCEPT ![c] = Idle]
Is(c, op, at) == call[c].op = op /\ call[c].at = at

\* The row is written before its history is shown; both are of one commit.
Recorded(u, e, names) == {[user |-> u, entry |-> e, name |-> n] : n \in names \ {None}}
Held(u, e) == \E v \in User \ {u} : user[v].entry = e
Open(k) == k \in DOMAIN challenge /\ challenge[k].open
Usable(k) == Open(k) /\ ~challenge[k].expired /\ challenge[k].attempts < MaxAttempts
Of(u) == {k \in DOMAIN challenge : challenge[k].user = u}

-----------------------------------------------------------------------------
\* The starts.  Every attempt to bind spends quota before anything else.
StartBind(c, u, e) ==
    /\ "bind" \in Ops /\ call[c] = Idle /\ spent[u] <= BindLimit
    /\ spent' = [spent EXCEPT ![u] = @ + 1]
    /\ IF spent'[u] > BindLimit THEN UNCHANGED call ELSE Starts(c, "bind", u, e, None)
    /\ UNCHANGED <<user, history, challenge, bound, title>>

\* The profile page refreshes the entry it has just read from the row.
StartRefresh(c, u) ==
    /\ user[u].entry # None
    /\ Starts(c, "refresh", u, user[u].entry, None)
    /\ UNCHANGED <<user, history, challenge, bound, spent, title>>

StartChallenge(c, u, e) ==
    /\ Starts(c, "challenge", u, e, None)
    /\ UNCHANGED <<user, history, challenge, bound, spent, title>>

\* The challenge is read without a lock.
StartConfirm(c, k) ==
    /\ Usable(k)
    /\ Starts(c, "confirm", challenge[k].user, challenge[k].entry, k)
    /\ UNCHANGED <<user, history, challenge, bound, spent, title>>

\* FPL answers, or it fails or does not know the entry.
Answered(c) ==
    /\ call[c].at = "ask"
    /\ LET n == title[call[c].entry]
           next == CASE call[c].op \in {"bind", "refresh"} -> "select"
                     [] call[c].op = "confirm" /\ n # call[c].id -> "miss"
                     [] OTHER -> "write"
       IN Carries(c, next, [of |-> call[c].entry, title |-> n], call[c].old)
    /\ UNCHANGED <<user, history, challenge, bound, spent, title>>

NotAnswered(c) ==
    /\ call[c].at = "ask"
    /\ IF call[c].op = "refresh" THEN Goes(c, "reset") ELSE Ends(c)
    /\ UNCHANGED <<user, history, challenge, bound, spent, title>>

-----------------------------------------------------------------------------
\* bindFplEntryDirectly: reads the row, then writes history and row.
BindSelect(c) ==
    /\ Is(c, "bind", "select")
    /\ Carries(c, "write", call[c].name, user[call[c].user])
    /\ UNCHANGED <<user, history, challenge, bound, spent, title>>

BindWrite(c) ==
    LET u == call[c].user
        e == call[c].entry
        old == call[c].old
    IN  /\ Is(c, "bind", "write") /\ ~Held(u, e)
        /\ history' = history \cup Recorded(u, e, {call[c].name})
              \cup IF old.entry = None THEN {} ELSE Recorded(u, old.entry, {old.name})
        /\ user' = [user EXCEPT ![u] =
                       [entry |-> e, name |-> call[c].name, refreshed |-> "now"]]
        /\ Ends(c)
        /\ UNCHANGED <<challenge, bound, spent, title>>

\* The unique index refuses an entry that another user holds; all is rolled back.
Refused(c) ==
    /\ \/ Is(c, "bind", "write")
       \/ Is(c, "confirm", "write") /\ Usable(call[c].id)
    /\ Held(call[c].user, call[c].entry)
    /\ Ends(c)
    /\ UNCHANGED <<user, history, challenge, bound, spent, title>>

Unlink(u) ==
    /\ "unlink" \in Ops
    /\ user' = [user EXCEPT ![u] = Unbound]
    /\ UNCHANGED <<history, challenge, bound, spent, title, call>>

-----------------------------------------------------------------------------
\* A refresh that looks only for the user.
CurrentUser(c) == TRUE

\* refreshFplIdentitySnapshot: every statement on the row asks for the entry again.
Current(c) == user[call[c].user].entry = call[c].entry

RefreshSelect(c) ==
    /\ Is(c, "refresh", "select")
    /\ Carries(c, "write", call[c].name,
               IF Current(c) THEN user[call[c].user] ELSE Unbound)
    /\ UNCHANGED <<user, history, challenge, bound, spent, title>>

\* What a refresh or its failure leaves in the row.
Refreshed(c, row) == [entry |-> row.entry, name |-> call[c].name, refreshed |-> "now"]

RefreshWrite(c) ==
    LET u == call[c].user
    IN  /\ Is(c, "refresh", "write")
        /\ history' = history \cup Recorded(u, call[c].entry, {call[c].name, call[c].old.name})
        /\ user' = [user EXCEPT ![u] = IF Current(c) THEN Refreshed(c, @) ELSE @]
        /\ Ends(c)
        /\ UNCHANGED <<challenge, bound, spent, title>>

RefreshReset(c) ==
    /\ Is(c, "refresh", "reset")
    /\ user' = [user EXCEPT ![call[c].user].refreshed = IF Current(c) THEN None ELSE @]
    /\ Ends(c)
    /\ UNCHANGED <<history, challenge, bound, spent, title>>

\* claimFplIdentityRefresh, one conditional UPDATE.
Claim(u) ==
    /\ "claim" \in Ops /\ user[u].entry # None /\ user[u].refreshed # "now"
    /\ user' = [user EXCEPT ![u].refreshed = "now"]
    /\ UNCHANGED <<history, challenge, bound, spent, title, call>>

-----------------------------------------------------------------------------
\* startFplEntryBindingChallenge, under the user's lock: a new challenge consumes
\* the user's open ones.
ChallengeWrite(c) ==
    LET u == call[c].user
        k == Cardinality(DOMAIN challenge) + 1
        new == [user |-> u, entry |-> call[c].entry, open |-> TRUE, expired |-> FALSE,
                attempts |-> 0]
    IN  /\ Is(c, "challenge", "write")
        /\ \/ /\ Cardinality(Of(u)) < CreationLimit
              /\ challenge' = [j \in DOMAIN challenge \cup {k} |->
                                  IF j = k THEN new
                                  ELSE IF challenge[j].user = u
                                       THEN [challenge[j] EXCEPT !.open = FALSE]
                                       ELSE challenge[j]]
           \/ Cardinality(Of(u)) >= CreationLimit /\ UNCHANGED challenge
        /\ Ends(c)
        /\ UNCHANGED <<user, history, bound, spent, title>>

\* The title did not match: the attempt is counted on a challenge that is still open.
ConfirmMiss(c) ==
    LET k == call[c].id
        n == challenge[k].attempts + 1
    IN  /\ Is(c, "confirm", "miss")
        /\ challenge' = IF Open(k)
                        THEN [challenge EXCEPT ![k] = [@ EXCEPT !.attempts = n, !.open = n < MaxAttempts]]
                        ELSE challenge
        /\ Ends(c)
        /\ UNCHANGED <<user, history, bound, spent, title>>

\* A confirmation that trusts what it read before it asked FPL.
ConfirmableBefore(c) == TRUE

\* Under the locks of the user and the challenge, which is looked at again.
Confirmable(c) == Usable(call[c].id)

ConfirmWrite(c) ==
    LET u == call[c].user
        k == call[c].id
    IN  /\ Is(c, "confirm", "write")
        /\ \/ /\ Confirmable(c) /\ ~Held(u, call[c].entry)
              /\ user' = [user EXCEPT ![u].entry = call[c].entry]
              /\ challenge' = [challenge EXCEPT ![k].open = FALSE]
              /\ bound' = bound \cup {k}
           \/ ~Confirmable(c) /\ UNCHANGED <<user, challenge, bound>>
        /\ Ends(c)
        /\ UNCHANGED <<history, spent, title>>

-----------------------------------------------------------------------------
\* Managers rename their teams, challenges run out, snapshots grow old.
Rename(e) ==
    /\ title' \in {[title EXCEPT ![e] = n] : n \in Title}
    /\ UNCHANGED <<user, history, challenge, bound, spent, call>>

Expire(k) ==
    /\ k \in DOMAIN challenge
    /\ challenge' = [challenge EXCEPT ![k].expired = TRUE]
    /\ UNCHANGED <<user, history, bound, spent, title, call>>

GrowOld(u) ==
    /\ "claim" \in Ops /\ user[u].refreshed = "now"
    /\ user' = [user EXCEPT ![u].refreshed = "old"]
    /\ UNCHANGED <<history, challenge, bound, spent, title, call>>

Next ==
    \/ \E c \in Call :
          \/ \E u \in User, e \in Entry : StartBind(c, u, e) \/ StartChallenge(c, u, e)
          \/ \E u \in User : StartRefresh(c, u)
          \/ \E k \in Id : StartConfirm(c, k)
          \/ Answered(c) \/ NotAnswered(c) \/ Refused(c)
          \/ BindSelect(c) \/ BindWrite(c)
          \/ RefreshSelect(c) \/ RefreshWrite(c) \/ RefreshReset(c)
          \/ ChallengeWrite(c) \/ ConfirmMiss(c) \/ ConfirmWrite(c)
    \/ \E u \in User : Unlink(u) \/ Claim(u) \/ GrowOld(u)
    \/ \E e \in Entry : Rename(e)
    \/ \E k \in Id : Expire(k)

Spec == Init /\ [][Next]_vars

-----------------------------------------------------------------------------
\* However bindings, unlinkings and refreshes of a user overlap, the name in the row
\* is of the entry in the row and the history holds it, and the history holds a name
\* only under its own entry (the guards of refreshFplIdentitySnapshot and the two
\* inserts of bindFplEntryDirectly).  Of the operations that are called: a
\* confirmation keeps the name of the last entry.
NamesBelong ==
    Ops \subseteq CalledOps =>
        /\ \A u \in User : user[u].name # None =>
              [user |-> u, entry |-> user[u].entry, name |-> user[u].name] \in history
        /\ \A h \in history : h.name.of = h.entry

\* What a step binds is the newest challenge of its user and still usable.
BindsLatest ==
    \A k \in bound' \ bound :
        /\ \A j \in Of(challenge[k].user) : j <= k
        /\ Open(k) /\ ~challenge[k].expired /\ challenge[k].attempts < MaxAttempts

\* A confirmation binds only the newest challenge of its user, in time and not yet
\* used, although it read the challenge before it asked FPL (the transaction of
\* confirmFplEntryBindingChallenge).
LatestBinds == [][BindsLatest]_vars
=============================================================================
