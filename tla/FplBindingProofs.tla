--------------------------- MODULE FplBindingProofs ---------------------------
(***************************************************************************)
(* The two properties of FplBinding, for any users, entries and calls that *)
(* overlap: names stay with their entries, and a confirmation binds only   *)
(* the newest challenge.                                                   *)
(***************************************************************************)
EXTENDS FplBinding, FiniteSetTheorems, TLAPS

-----------------------------------------------------------------------------
(* Names, of the operations that are called.  They leave challenges alone. *)

CallRow == [op : Ops \cup {None},
            at : {"idle", "ask", "select", "write", "miss", "reset"},
            user : User \cup {None}, entry : Entry \cup {None},
            id : {None}, name : Name \cup {None}, old : Row]

NameTypes ==
    /\ user \in [User -> Row]
    /\ title \in [Entry -> Title]
    /\ challenge = [k \in {} |-> None]
    /\ call \in [Call -> CallRow]

\* A call that is under way is for a user and an entry.
Targets == \A c \in Call : call[c].at # "idle" => call[c].user \in User /\ call[c].entry \in Entry

\* The row's name is its entry's, and in the history.
RowShown == \A u \in User : user[u].name # None =>
                [user |-> u, entry |-> user[u].entry, name |-> user[u].name] \in history
HistoryOwn == \A h \in history : h.name.of = h.entry

\* A call carries FPL's name of its entry, and the row it read had its own.
CallShown == \A c \in Call : call[c].at \in {"select", "write"} =>
                call[c].name.of = call[c].entry
OldShown == \A c \in Call : call[c].old.name # None =>
                /\ call[c].old.name.of = call[c].old.entry
                /\ call[c].op = "refresh" => call[c].old.entry = call[c].entry

NInv == NameTypes /\ Targets /\ RowShown /\ HistoryOwn /\ CallShown /\ OldShown

LEMMA InitNInv == ASSUME BindingAssumption, Init PROVE NInv
<1>1. Unbound \in Row /\ Unbound.name = None
  BY DEF Unbound, Row
<1>2. Idle.at = "idle" /\ Idle.old = Unbound
  BY DEF Idle
<1>3. NameTypes
  <2>1. user \in [User -> Row]
    BY <1>1 DEF Init
  <2>2. title \in [Entry -> Title]
    BY DEF Init, Title, BindingAssumption
  <2>3. Idle \in CallRow
    BY <1>1 DEF Idle, CallRow
  <2> QED
    BY <2>1, <2>2, <2>3 DEF Init, NameTypes
<1>4. Targets /\ CallShown /\ OldShown /\ RowShown /\ HistoryOwn
  BY <1>1, <1>2 DEF Init, Targets, CallShown, OldShown, RowShown, HistoryOwn
<1> QED
  BY <1>3, <1>4 DEF NInv

\* What a step may make of a call.
OneCall(c, row) ==
    /\ row \in CallRow
    /\ call' = [call EXCEPT ![c] = row]
    /\ row.at # "idle" => row.user \in User /\ row.entry \in Entry
    /\ row.at \in {"select", "write"} => row.name.of = row.entry
    /\ row.old.name # None => /\ row.old.name.of = row.old.entry
                              /\ row.op = "refresh" => row.old.entry = row.entry

LEMMA OneCallNInv ==
    ASSUME NInv, NEW c \in Call, NEW row, OneCall(c, row)
    PROVE  call' \in [Call -> CallRow] /\ Targets' /\ CallShown' /\ OldShown'
<1>1. call' \in [Call -> CallRow]
  BY DEF NInv, NameTypes, OneCall
<1>2. call'[c] = row /\ \A d \in Call \ {c} : call'[d] = call[d]
  BY DEF NInv, NameTypes, OneCall
<1> QED
  BY <1>1, <1>2 DEF NInv, OneCall, Targets, CallShown, OldShown

\* A step of a call that leaves the tables alone.
LEMMA CallNInv ==
    ASSUME NInv, NEW c \in Call, NEW row, OneCall(c, row),
           UNCHANGED <<user, history, challenge, title>>
    PROVE  NInv'
BY OneCallNInv DEF NInv, NameTypes, RowShown, HistoryOwn

\* The start of a call: it has read nothing yet.
LEMMA StartsNInv ==
    ASSUME NInv, NEW c \in Call, NEW op, NEW u \in User, NEW e \in Entry,
           Starts(c, op, u, e, None), UNCHANGED <<user, history, challenge, title>>
    PROVE  NInv'
<1> DEFINE new == [op |-> op, at |-> "ask", user |-> u, entry |-> e, id |-> None,
                   name |-> None, old |-> Unbound]
<1>1. call' = [call EXCEPT ![c] = new] /\ op \in Ops
  BY DEF Starts
<1>2. Unbound \in Row /\ Unbound.name = None
  BY DEF Unbound, Row
<1>3. OneCall(c, new)
  BY <1>1, <1>2 DEF OneCall, CallRow
<1> QED
  BY <1>3, CallNInv

\* The end of a call.
LEMMA EndsOneCall == ASSUME NEW c \in Call, Ends(c) PROVE OneCall(c, Idle)
<1>1. Unbound \in Row /\ Unbound.name = None
  BY DEF Unbound, Row
<1>2. Idle \in CallRow /\ Idle.at = "idle" /\ Idle.old = Unbound
  BY <1>1 DEF Idle, CallRow
<1> QED
  BY <1>1, <1>2 DEF Ends, OneCall

LEMMA EndsNInv ==
    ASSUME NInv, NEW c \in Call, Ends(c), UNCHANGED <<user, history, challenge, title>>
    PROVE  NInv'
BY EndsOneCall, CallNInv

\* A call goes on: what it carries is of its entry.
LEMMA GoesNInv ==
    ASSUME NInv, NEW c \in Call, NEW at \in {"reset"}, Goes(c, at), call[c].at # "idle",
           UNCHANGED <<user, history, challenge, title>>
    PROVE  NInv'
<1> DEFINE row == [call[c] EXCEPT !.at = at]
<1>1. call[c] \in CallRow
  BY DEF NInv, NameTypes
<1>2. row \in CallRow /\ row.at = at /\ row.user = call[c].user /\ row.entry = call[c].entry
      /\ row.name = call[c].name /\ row.old = call[c].old /\ row.op = call[c].op
  BY <1>1 DEF CallRow
<1>3. call' = [call EXCEPT ![c] = row]
  BY DEF Goes
<1> HIDE DEF row
<1>4. OneCall(c, row)
  BY <1>2, <1>3 DEF OneCall, NInv, Targets, OldShown
<1> QED
  BY <1>4, CallNInv

\* A call goes on with a name and a row of their own entries.
LEMMA CarriesNInv ==
    ASSUME NInv, NEW c \in Call, NEW at \in {"select", "miss", "write"},
           NEW name \in Name \cup {None}, NEW old \in Row, Carries(c, at, name, old),
           call[c].at # "idle",
           at # "miss" => name.of = call[c].entry,
           old.name # None => /\ old.name.of = old.entry
                              /\ call[c].op = "refresh" => old.entry = call[c].entry,
           UNCHANGED <<user, history, challenge, title>>
    PROVE  NInv'
<1> DEFINE row == [op |-> call[c].op, at |-> at, user |-> call[c].user,
                   entry |-> call[c].entry, id |-> call[c].id, name |-> name, old |-> old]
<1>1. call[c] \in CallRow
  BY DEF NInv, NameTypes
<1>2. call' = [call EXCEPT ![c] = row]
  BY DEF Carries
<1>3. row \in CallRow
  BY <1>1 DEF CallRow
<1>4. OneCall(c, row)
  BY <1>2, <1>3 DEF OneCall, NInv, Targets
<1> QED
  BY <1>4, CallNInv

\* FPL's answer is of the entry that it was asked for.
LEMMA AnsweredNInv == ASSUME NInv, NEW c \in Call, Answered(c) PROVE NInv'
<1> DEFINE name == [of |-> call[c].entry, title |-> title[call[c].entry]]
<1>1. call[c] \in CallRow /\ call[c].at = "ask" /\ call[c].old \in Row
  BY DEF NInv, NameTypes, Answered, CallRow
<1>2. PICK next \in {"select", "miss", "write"} : Carries(c, next, name, call[c].old)
  BY DEF Answered
<1>3. call[c].entry \in Entry
  BY <1>1 DEF NInv, Targets
<1>4. title[call[c].entry] \in Title
  BY <1>3 DEF NInv, NameTypes
<1>5. name \in Name /\ name.of = call[c].entry
  BY <1>3, <1>4 DEF Name
<1> HIDE DEF name
<1>6. call[c].old.name # None =>
        /\ call[c].old.name.of = call[c].old.entry
        /\ call[c].op = "refresh" => call[c].old.entry = call[c].entry
  BY DEF NInv, OldShown
<1>7. UNCHANGED <<user, history, challenge, title>>
  BY DEF Answered
<1> QED
  BY <1>1, <1>2, <1>5, <1>6, <1>7, CarriesNInv

LEMMA NotAnsweredNInv == ASSUME NInv, NEW c \in Call, NotAnswered(c) PROVE NInv'
<1>1. CASE call[c].op = "refresh"
  BY <1>1, GoesNInv DEF NotAnswered
<1>2. CASE call[c].op # "refresh"
  BY <1>2, EndsNInv DEF NotAnswered
<1> QED
  BY <1>1, <1>2

\* Whatever row a call reads, its name is its entry's.
LEMMA RowOwn ==
    ASSUME NInv, NEW u \in User
    PROVE  /\ user[u] \in Row /\ user[u].entry \in Entry \cup {None}
           /\ user[u].name # None => user[u].name.of = user[u].entry
<1>1. user[u] \in Row
  BY DEF NInv, NameTypes
<1>2. user[u].entry \in Entry \cup {None}
  BY <1>1 DEF Row
<1>3. ASSUME user[u].name # None PROVE user[u].name.of = user[u].entry
  <2>1. [user |-> u, entry |-> user[u].entry, name |-> user[u].name] \in history
    BY <1>3 DEF NInv, RowShown
  <2> QED
    BY <2>1 DEF NInv, HistoryOwn
<1> QED
  BY <1>1, <1>2, <1>3

LEMMA BindSelectNInv == ASSUME NInv, NEW c \in Call, BindSelect(c) PROVE NInv'
<1>1. call[c].at = "select" /\ call[c].op = "bind"
  BY DEF BindSelect, Is
<1>2. call[c].user \in User /\ call[c].name.of = call[c].entry
  BY <1>1 DEF NInv, Targets, CallShown
<1>3. call[c].name \in Name \cup {None}
  BY DEF NInv, NameTypes, CallRow
<1>4. Carries(c, "write", call[c].name, user[call[c].user])
      /\ UNCHANGED <<user, history, challenge, title>>
  BY DEF BindSelect
<1> QED
  BY <1>1, <1>2, <1>3, <1>4, RowOwn, CarriesNInv

LEMMA RefreshSelectNInv == ASSUME NInv, NEW c \in Call, RefreshSelect(c) PROVE NInv'
<1> DEFINE old == IF Current(c) THEN user[call[c].user] ELSE Unbound
<1>1. call[c].at = "select" /\ call[c].op = "refresh"
  BY DEF RefreshSelect, Is
<1>2. call[c].user \in User /\ call[c].name.of = call[c].entry
  BY <1>1 DEF NInv, Targets, CallShown
<1>3. call[c].name \in Name \cup {None}
  BY DEF NInv, NameTypes, CallRow
<1>4. Carries(c, "write", call[c].name, old)
      /\ UNCHANGED <<user, history, challenge, title>>
  BY DEF RefreshSelect
<1>5. old \in Row /\ (old.name # None => /\ old.name.of = old.entry
                                         /\ old.entry = call[c].entry)
  <2>1. CASE Current(c)
    BY <1>2, <2>1, RowOwn DEF Current
  <2>2. CASE ~Current(c)
    BY <2>2 DEF Unbound, Row
  <2> QED
    BY <2>1, <2>2
<1> HIDE DEF old
<1> QED
  BY <1>1, <1>2, <1>3, <1>4, <1>5, CarriesNInv

\* What a write adds to the history belongs there.
LEMMA RecordedOwn ==
    ASSUME NEW u, NEW e, NEW names, \A n \in names : n # None => n.of = e
    PROVE  \A h \in Recorded(u, e, names) : h.name.of = h.entry
BY DEF Recorded

\* A step that gives one user a row: its name is its entry's and in the history.
LEMMA WriteNInv ==
    ASSUME NInv, NEW c \in Call, Ends(c), NEW u \in User, NEW row \in Row,
           user' = [user EXCEPT ![u] = row], UNCHANGED <<challenge, title>>,
           history \subseteq history', \A h \in history' \ history : h.name.of = h.entry,
           row.name # None => [user |-> u, entry |-> row.entry, name |-> row.name] \in history'
    PROVE  NInv'
<1>1. user' \in [User -> Row] /\ user'[u] = row /\ \A v \in User \ {u} : user'[v] = user[v]
  BY DEF NInv, NameTypes
<1>2. RowShown' /\ HistoryOwn'
  BY <1>1 DEF NInv, RowShown, HistoryOwn
<1>3. call' \in [Call -> CallRow] /\ Targets' /\ CallShown' /\ OldShown'
  BY EndsOneCall, OneCallNInv
<1> QED
  BY <1>1, <1>2, <1>3 DEF NInv, NameTypes

LEMMA BindWriteNInv == ASSUME NInv, NEW c \in Call, BindWrite(c) PROVE NInv'
<1> DEFINE u == call[c].user
           e == call[c].entry
           name == call[c].name
           old == call[c].old
           row == [entry |-> e, name |-> name, refreshed |-> "now"]
<1>1. call[c].at = "write" /\ call[c].op = "bind"
  BY DEF BindWrite, Is
<1>2. u \in User /\ e \in Entry /\ name.of = e
  BY <1>1 DEF NInv, Targets, CallShown
<1>3. name \in Name \cup {None}
  BY DEF NInv, NameTypes, CallRow
<1>4. row \in Row
  BY <1>2, <1>3 DEF Row
<1>5. old.name # None => old.name.of = old.entry
  BY DEF NInv, OldShown
<1>6. /\ history' = history \cup Recorded(u, e, {name})
                      \cup IF old.entry = None THEN {} ELSE Recorded(u, old.entry, {old.name})
      /\ user' = [user EXCEPT ![u] = row]
      /\ Ends(c) /\ UNCHANGED <<challenge, title>>
  BY DEF BindWrite
<1> HIDE DEF old
<1>7. \A h \in history' \ history : h.name.of = h.entry
  BY <1>2, <1>5, <1>6, RecordedOwn
<1>8. name # None => [user |-> u, entry |-> e, name |-> name] \in history'
  BY <1>6 DEF Recorded
<1> HIDE DEF u, e, name
<1>9. row.entry = e /\ row.name = name
  OBVIOUS
<1> HIDE DEF row
<1> QED
  BY <1>2, <1>4, <1>6, <1>7, <1>8, <1>9, WriteNInv

LEMMA RefreshWriteNInv == ASSUME NInv, NEW c \in Call, RefreshWrite(c) PROVE NInv'
<1> DEFINE u == call[c].user
           e == call[c].entry
           name == call[c].name
           old == call[c].old
           row == IF Current(c) THEN Refreshed(c, user[u]) ELSE user[u]
<1>1. call[c].at = "write" /\ call[c].op = "refresh"
  BY DEF RefreshWrite, Is
<1>2. u \in User /\ e \in Entry /\ name.of = e
  BY <1>1 DEF NInv, Targets, CallShown
<1>3. name \in Name \cup {None}
  BY DEF NInv, NameTypes, CallRow
<1>4. old.name # None => old.name.of = e
  BY <1>1 DEF NInv, OldShown
<1>5. /\ history' = history \cup Recorded(u, e, {name, old.name})
      /\ user' = [user EXCEPT ![u] = row]
      /\ Ends(c) /\ UNCHANGED <<challenge, title>>
  BY DEF RefreshWrite
<1> HIDE DEF old
<1>6. \A h \in history' \ history : h.name.of = h.entry
  BY <1>2, <1>4, <1>5, RecordedOwn
<1>7. row \in Row /\ (row.name # None =>
                        [user |-> u, entry |-> row.entry, name |-> row.name] \in history')
  <2>1. CASE Current(c)
    <3>1. row = [entry |-> e, name |-> name, refreshed |-> "now"]
      BY <2>1 DEF Current, Refreshed
    <3>2. name # None => [user |-> u, entry |-> e, name |-> name] \in history'
      BY <1>5 DEF Recorded
    <3> HIDE DEF u, e, name
    <3>3. [entry |-> e, name |-> name, refreshed |-> "now"] \in Row
      BY <1>2, <1>3 DEF Row
    <3> HIDE DEF row
    <3> QED
      BY <3>1, <3>2, <3>3
  <2>2. CASE ~Current(c)
    BY <1>2, <1>5, <2>2, RowOwn DEF NInv, RowShown
  <2> QED
    BY <2>1, <2>2
<1>8. history \subseteq history'
  BY <1>5
<1> HIDE DEF u, row
<1> QED
  BY <1>2, <1>5, <1>6, <1>7, <1>8, WriteNInv

LEMMA RefreshResetNInv == ASSUME NInv, NEW c \in Call, RefreshReset(c) PROVE NInv'
<1> DEFINE u == call[c].user
           to == IF Current(c) THEN None ELSE user[u].refreshed
           row == [user[u] EXCEPT !.refreshed = to]
<1>1. u \in User
  BY DEF RefreshReset, Is, NInv, Targets
<1>2. user[u] \in Row /\ to \in {None, "old", "now"}
  BY <1>1 DEF NInv, NameTypes, Row
<1>3. row \in Row /\ row.entry = user[u].entry /\ row.name = user[u].name
  BY <1>2 DEF Row
<1>4. user' = [user EXCEPT ![u] = row] /\ Ends(c) /\ UNCHANGED <<history, challenge, title>>
  BY <1>1 DEF RefreshReset, Current, NInv, NameTypes
<1>5. row.name # None => [user |-> u, entry |-> row.entry, name |-> row.name] \in history'
  BY <1>1, <1>3, <1>4 DEF NInv, RowShown
<1> HIDE DEF u, row
<1> QED
  BY <1>1, <1>3, <1>4, <1>5, WriteNInv

LEMMA UnlinkNInv == ASSUME NInv, NEW u \in User, Unlink(u) PROVE NInv'
<1>1. Unbound \in Row /\ Unbound.name = None
  BY DEF Unbound, Row
<1>2. user' = [user EXCEPT ![u] = Unbound] /\ UNCHANGED <<history, challenge, title, call>>
  BY DEF Unlink
<1>3. user' \in [User -> Row] /\ user'[u] = Unbound /\ \A v \in User \ {u} : user'[v] = user[v]
  BY <1>1, <1>2 DEF NInv, NameTypes
<1> QED
  BY <1>1, <1>2, <1>3 DEF NInv, NameTypes, Targets, RowShown, HistoryOwn, CallShown, OldShown

\* The invariant is inductive for the operations that pages and actions start.
LEMMA NextNInv ==
    ASSUME BindingAssumption, Ops \subseteq CalledOps, NInv, [Next]_vars PROVE NInv'
<1>1. /\ "claim" \notin Ops /\ "challenge" \notin Ops \cup {None}
      /\ "confirm" \notin Ops \cup {None}
  BY DEF CalledOps, AllOps, BindingAssumption
<1>2. DOMAIN challenge = {}
  BY DEF NInv, NameTypes
<1>3. \A c \in Call : call[c].op \in Ops \cup {None}
  BY DEF NInv, NameTypes, CallRow
<1>4. ASSUME NEW c \in Call, NEW u \in User, NEW e \in Entry, StartBind(c, u, e)
      PROVE  NInv'
  <2>1. CASE spent'[u] > BindLimit
    BY <1>4, <2>1 DEF StartBind, NInv, NameTypes, Targets, RowShown, HistoryOwn,
                      CallShown, OldShown
  <2>2. CASE ~(spent'[u] > BindLimit)
    BY <1>4, <2>2, StartsNInv DEF StartBind
  <2> QED
    BY <2>1, <2>2
<1>5. ASSUME NEW c \in Call, NEW u \in User, NEW e \in Entry, StartChallenge(c, u, e)
      PROVE  NInv'
  BY <1>1, <1>5 DEF StartChallenge, Starts
<1>6. ASSUME NEW c \in Call, NEW u \in User, StartRefresh(c, u) PROVE NInv'
  BY <1>6, RowOwn, StartsNInv DEF StartRefresh
<1>7. ASSUME NEW c \in Call, NEW k \in Id, StartConfirm(c, k) PROVE NInv'
  BY <1>1, <1>7 DEF StartConfirm, Starts
<1>8. ASSUME NEW c \in Call, Answered(c) PROVE NInv'
  BY <1>8, AnsweredNInv
<1>9. ASSUME NEW c \in Call, NotAnswered(c) PROVE NInv'
  BY <1>9, NotAnsweredNInv
<1>10. ASSUME NEW c \in Call, Refused(c) PROVE NInv'
  BY <1>10, EndsNInv DEF Refused
<1>11. ASSUME NEW c \in Call, BindSelect(c) PROVE NInv'
  BY <1>11, BindSelectNInv
<1>12. ASSUME NEW c \in Call, BindWrite(c) PROVE NInv'
  BY <1>12, BindWriteNInv
<1>13. ASSUME NEW c \in Call, RefreshSelect(c) PROVE NInv'
  BY <1>13, RefreshSelectNInv
<1>14. ASSUME NEW c \in Call, RefreshWrite(c) PROVE NInv'
  BY <1>14, RefreshWriteNInv
<1>15. ASSUME NEW c \in Call, RefreshReset(c) PROVE NInv'
  BY <1>15, RefreshResetNInv
<1>16. ASSUME NEW c \in Call, ChallengeWrite(c) \/ ConfirmMiss(c) \/ ConfirmWrite(c)
       PROVE  NInv'
  BY <1>1, <1>3, <1>16 DEF ChallengeWrite, ConfirmMiss, ConfirmWrite, Is
<1>17. ASSUME NEW u \in User, Unlink(u) PROVE NInv'
  BY <1>17, UnlinkNInv
<1>18. ASSUME NEW u \in User, Claim(u) \/ GrowOld(u) PROVE NInv'
  BY <1>1, <1>18 DEF Claim, GrowOld
<1>19. ASSUME NEW e \in Entry, Rename(e) PROVE NInv'
  BY <1>19 DEF Rename, NInv, NameTypes, Targets, RowShown, HistoryOwn, CallShown, OldShown
<1>20. ASSUME NEW k \in Id, Expire(k) PROVE NInv'
  BY <1>2, <1>20 DEF Expire
<1>21. CASE UNCHANGED vars
  BY <1>21 DEF vars, NInv, NameTypes, Targets, RowShown, HistoryOwn, CallShown, OldShown
<1> QED
  BY <1>4, <1>5, <1>6, <1>7, <1>8, <1>9, <1>10, <1>11, <1>12, <1>13, <1>14, <1>15,
     <1>16, <1>17, <1>18, <1>19, <1>20, <1>21 DEF Next

LEMMA NInvNamesBelong == ASSUME NInv PROVE NamesBelong
BY DEF NInv, RowShown, HistoryOwn, NamesBelong

\* However the calls of the users overlap, each name stays with its entry, in the row
\* and in the history, of the operations that pages and actions start
\* (bindFplEntryDirectly, unlinkFplEntry, refreshFplIdentitySnapshot).
THEOREM NamesBelongHolds ==
    ASSUME BindingAssumption PROVE Spec => []NamesBelong
<1>1. CASE Ops \subseteq CalledOps
  <2>1. Init => NInv
    BY InitNInv
  <2>2. NInv /\ [Next]_vars => NInv'
    BY <1>1, NextNInv
  <2>3. NInv => NamesBelong
    BY NInvNamesBelong
  <2> QED
    BY <2>1, <2>2, <2>3, PTL DEF Spec
<1>2. CASE ~(Ops \subseteq CalledOps)
  <2>1. NamesBelong
    BY <1>2 DEF NamesBelong
  <2> QED
    BY <2>1, PTL
<1> QED
  BY <1>1, <1>2

-----------------------------------------------------------------------------
(* Challenges, of all operations: they are numbered as they are created,   *)
(* and only the newest of a user is open.                                  *)

Numbered == \E n \in Nat : DOMAIN challenge = 1..n
IsChallenge(row) ==
    \E users, entries, counts :
        row \in [user : users, entry : entries, open : BOOLEAN, expired : BOOLEAN,
                attempts : counts]
Shaped ==
    /\ challenge = [k \in DOMAIN challenge |-> challenge[k]]
    /\ \A k \in DOMAIN challenge : IsChallenge(challenge[k])
NewestOpen == \A k \in DOMAIN challenge :
                 challenge[k].open => \A j \in Of(challenge[k].user) : j <= k

CInv == Numbered /\ Shaped /\ NewestOpen

\* A step that opens no challenge and gives none to another user.
LEMMA NoneOpened ==
    ASSUME CInv, DOMAIN challenge' = DOMAIN challenge, Shaped',
           \A k \in DOMAIN challenge : /\ challenge'[k].user = challenge[k].user
                                       /\ challenge'[k].open => challenge[k].open
    PROVE  CInv'
<1>1. \A u : Of(u)' = Of(u)
  BY DEF Of
<1> QED
  BY <1>1 DEF CInv, Numbered, NewestOpen

\* A challenge that is closed, or out of time, is of the same user.
LEMMA RowChanges ==
    ASSUME NEW row, IsChallenge(row), NEW n
    PROVE  /\ IsChallenge([row EXCEPT !.open = FALSE])
           /\ [row EXCEPT !.open = FALSE].user = row.user
           /\ ~[row EXCEPT !.open = FALSE].open
           /\ IsChallenge([row EXCEPT !.expired = TRUE])
           /\ [row EXCEPT !.expired = TRUE].user = row.user
           /\ [row EXCEPT !.expired = TRUE].open = row.open
<1>1. PICK users, entries, counts :
        row \in [user : users, entry : entries, open : BOOLEAN, expired : BOOLEAN,
                attempts : counts]
  BY DEF IsChallenge
<1> DEFINE closed == [row EXCEPT !.open = FALSE]
           late == [row EXCEPT !.expired = TRUE]
<1>2. closed \in [user : users, entry : entries, open : BOOLEAN, expired : BOOLEAN,
                  attempts : counts]
      /\ closed.user = row.user /\ ~closed.open
  BY <1>1
<1>3. late \in [user : users, entry : entries, open : BOOLEAN, expired : BOOLEAN,
                attempts : counts]
      /\ late.user = row.user /\ late.open = row.open
  BY <1>1
<1> HIDE DEF closed, late
<1>4. IsChallenge(closed) /\ IsChallenge(late)
  BY <1>2, <1>3 DEF IsChallenge
<1> QED
  BY <1>2, <1>3, <1>4 DEF closed, late

\* One challenge of the same user gets a row that is open only if it was.
LEMMA OneChallenge ==
    ASSUME CInv, NEW k \in DOMAIN challenge, NEW row, IsChallenge(row),
           row.user = challenge[k].user, row.open => challenge[k].open,
           challenge' = [challenge EXCEPT ![k] = row]
    PROVE  CInv'
<1>1. /\ DOMAIN challenge' = DOMAIN challenge
      /\ challenge' = [j \in DOMAIN challenge' |-> challenge'[j]]
      /\ challenge'[k] = row
      /\ \A j \in DOMAIN challenge \ {k} : challenge'[j] = challenge[j]
  BY DEF CInv, Shaped
<1>2. Shaped'
  BY <1>1 DEF CInv, Shaped
<1> QED
  BY <1>1, <1>2, NoneOpened

\* A new challenge is its user's newest, and closes the others.
LEMMA ChallengeCInv == ASSUME CInv, NEW c \in Call, ChallengeWrite(c) PROVE CInv'
<1> DEFINE u == call[c].user
           new == [user |-> u, entry |-> call[c].entry, open |-> TRUE, expired |-> FALSE,
                   attempts |-> 0]
<1>1. PICK n \in Nat : DOMAIN challenge = 1..n
  BY DEF CInv, Numbered
<1>2. Cardinality(DOMAIN challenge) = n
  BY <1>1, FS_Interval
<1>3. CASE UNCHANGED challenge
  BY <1>3 DEF CInv, Numbered, Shaped, NewestOpen, Of
<1>4. CASE challenge' = [j \in 1..n \cup {n + 1} |->
                            IF j = n + 1 THEN new
                            ELSE IF challenge[j].user = u
                                 THEN [challenge[j] EXCEPT !.open = FALSE]
                                 ELSE challenge[j]]
  <2>1. DOMAIN challenge' = 1..(n + 1)
    BY <1>4
  <2>2. challenge'[n + 1] = new /\ new.user = u
    BY <1>4
  <2>3. ASSUME NEW j \in 1..n
        PROVE  /\ IsChallenge(challenge'[j])
               /\ challenge'[j].user = challenge[j].user
               /\ challenge'[j].open => challenge[j].open /\ challenge[j].user # u
    <3>1. IsChallenge(challenge[j])
      BY <1>1 DEF CInv, Shaped
    <3>2. CASE challenge[j].user = u
      <4>1. challenge'[j] = [challenge[j] EXCEPT !.open = FALSE]
        BY <1>4, <3>2
      <4> DEFINE closed == [challenge[j] EXCEPT !.open = FALSE]
      <4>2. IsChallenge(closed) /\ closed.user = challenge[j].user /\ ~closed.open
        BY <3>1, RowChanges
      <4>3. challenge'[j] = closed
        BY <4>1
      <4> HIDE DEF closed
      <4> QED
        BY <4>2, <4>3
    <3>3. CASE challenge[j].user # u
      <4>1. challenge'[j] = challenge[j]
        BY <1>4, <3>3
      <4> QED
        BY <3>1, <3>3, <4>1
    <3> QED
      BY <3>2, <3>3
  <2>4. Shaped'
    <3>1. challenge' = [j \in DOMAIN challenge' |-> challenge'[j]]
      BY <1>4
    <3>2. new \in [user : {u}, entry : {call[c].entry}, open : BOOLEAN, expired : BOOLEAN,
                   attempts : {0}]
      OBVIOUS
    <3>3. IsChallenge(new)
      BY <3>2 DEF IsChallenge
    <3>4. challenge'[n + 1] = new
      BY <2>2
    <3> HIDE DEF new
    <3>5. IsChallenge(challenge'[n + 1])
      BY <3>3, <3>4
    <3> HIDE DEF u
    <3> QED
      BY <2>1, <2>3, <3>1, <3>5 DEF Shaped
  <2>5. NewestOpen'
    <3> HIDE DEF new, u
    <3> SUFFICES ASSUME NEW k \in 1..(n + 1), challenge'[k].open,
                        NEW j \in 1..(n + 1), challenge'[j].user = challenge'[k].user
                 PROVE  j <= k
      BY <2>1 DEF NewestOpen, Of
    <3>1. CASE k = n + 1
      BY <3>1
    <3>2. CASE k \in 1..n
      <4>1. challenge[k].open /\ challenge[k].user # u
            /\ challenge'[k].user = challenge[k].user
        BY <2>3, <3>2
      <4>2. j # n + 1
        BY <2>2, <4>1
      <4>3. j \in 1..n
        BY <4>2
      <4>4. challenge[j].user = challenge[k].user
        BY <2>3, <4>1, <4>3
      <4> QED
        BY <1>1, <3>2, <4>1, <4>3, <4>4 DEF CInv, NewestOpen, Of
    <3> QED
      BY <3>1, <3>2
  <2> QED
    BY <2>1, <2>4, <2>5 DEF CInv, Numbered
<1> QED
  BY <1>1, <1>2, <1>3, <1>4 DEF ChallengeWrite

\* An attempt leaves the user of its challenge, which is open if it was.
LEMMA ConfirmMissCInv == ASSUME CInv, NEW c \in Call, ConfirmMiss(c) PROVE CInv'
<1> DEFINE k == call[c].id
           n == challenge[k].attempts + 1
           counted == [challenge[k] EXCEPT !.attempts = n]
           more == n < MaxAttempts
           row == [counted EXCEPT !.open = more]
<1>1. CASE ~Open(k)
  BY <1>1 DEF ConfirmMiss, CInv, Numbered, Shaped, NewestOpen, Of
<1>2. CASE Open(k)
  <2>1. k \in DOMAIN challenge /\ challenge[k].open /\ IsChallenge(challenge[k])
    BY <1>2 DEF Open, CInv, Shaped
  <2>2. challenge' = [challenge EXCEPT ![k] = row]
    BY <1>2 DEF ConfirmMiss
  <2> HIDE DEF k, n
  <2>3. PICK users, entries, counts :
          challenge[k] \in [user : users, entry : entries, open : BOOLEAN,
                            expired : BOOLEAN, attempts : counts]
    BY <2>1 DEF IsChallenge
  <2>4. counted \in [user : users, entry : entries, open : BOOLEAN,
                     expired : BOOLEAN, attempts : counts \cup {n}]
        /\ counted.user = challenge[k].user
    BY <2>3
  <2>5. more \in BOOLEAN
    OBVIOUS
  <2> HIDE DEF counted, more
  <2>6. row \in [user : users, entry : entries, open : BOOLEAN,
                 expired : BOOLEAN, attempts : counts \cup {n}]
        /\ row.user = counted.user
    BY <2>4, <2>5
  <2> HIDE DEF row
  <2>7. IsChallenge(row) /\ row.user = challenge[k].user
    BY <2>4, <2>6 DEF IsChallenge
  <2> QED
    BY <2>1, <2>2, <2>7, OneChallenge
<1> QED
  BY <1>1, <1>2

\* A confirmation closes its challenge, or leaves all as they are.
LEMMA ConfirmWriteCInv == ASSUME CInv, NEW c \in Call, ConfirmWrite(c) PROVE CInv'
<1> DEFINE k == call[c].id
           row == [challenge[k] EXCEPT !.open = FALSE]
<1>1. CASE ~Confirmable(c)
  BY <1>1 DEF ConfirmWrite, CInv, Numbered, Shaped, NewestOpen, Of
<1>2. CASE Confirmable(c)
  <2>1. k \in DOMAIN challenge /\ IsChallenge(challenge[k])
    BY <1>2 DEF Confirmable, Usable, Open, CInv, Shaped
  <2>2. challenge' = [challenge EXCEPT ![k] = row]
    BY <1>2 DEF ConfirmWrite
  <2> HIDE DEF k
  <2>3. IsChallenge(row) /\ row.user = challenge[k].user /\ ~row.open
    BY <2>1, RowChanges
  <2> HIDE DEF row
  <2> QED
    BY <2>1, <2>2, <2>3, OneChallenge
<1> QED
  BY <1>1, <1>2

LEMMA ExpireCInv == ASSUME CInv, NEW k \in Id, Expire(k) PROVE CInv'
<1> DEFINE row == [challenge[k] EXCEPT !.expired = TRUE]
<1>1. k \in DOMAIN challenge /\ IsChallenge(challenge[k])
  BY DEF Expire, CInv, Shaped
<1>2. challenge' = [challenge EXCEPT ![k] = row]
  BY DEF Expire
<1>3. IsChallenge(row) /\ row.user = challenge[k].user /\ row.open = challenge[k].open
  BY <1>1, RowChanges
<1> HIDE DEF row
<1> QED
  BY <1>1, <1>2, <1>3, OneChallenge

LEMMA InitCInv == ASSUME Init PROVE CInv
<1>1. DOMAIN challenge = {} /\ challenge = [k \in DOMAIN challenge |-> challenge[k]]
  BY DEF Init
<1>2. 1..0 = {}
  OBVIOUS
<1> QED
  BY <1>1, <1>2 DEF CInv, Numbered, Shaped, NewestOpen

LEMMA NextCInv == ASSUME CInv, [Next]_vars PROVE CInv'
<1>1. CASE UNCHANGED challenge
  BY <1>1 DEF CInv, Numbered, Shaped, NewestOpen, Of
<1>2. ASSUME NEW c \in Call, ChallengeWrite(c) PROVE CInv'
  BY <1>2, ChallengeCInv
<1>3. ASSUME NEW c \in Call, ConfirmMiss(c) PROVE CInv'
  BY <1>3, ConfirmMissCInv
<1>4. ASSUME NEW c \in Call, ConfirmWrite(c) PROVE CInv'
  BY <1>4, ConfirmWriteCInv
<1>5. ASSUME NEW k \in Id, Expire(k) PROVE CInv'
  BY <1>5, ExpireCInv
<1> QED
  BY <1>1, <1>2, <1>3, <1>4, <1>5
     DEF Next, vars, StartBind, StartChallenge, StartRefresh, StartConfirm, Answered,
         NotAnswered, Refused, BindSelect, BindWrite, RefreshSelect, RefreshWrite,
         RefreshReset, Unlink, Claim, GrowOld, Rename

\* Only a confirmation binds, and the newest challenge that is open.
LEMMA NextBindsLatest == ASSUME CInv, [Next]_vars PROVE BindsLatest
<1> SUFFICES ASSUME NEW k \in bound' \ bound
             PROVE  /\ \A j \in Of(challenge[k].user) : j <= k
                    /\ Open(k) /\ ~challenge[k].expired /\ challenge[k].attempts < MaxAttempts
  BY DEF BindsLatest
<1>1. \E c \in Call : ConfirmWrite(c)
  BY DEF Next, vars, StartBind, StartChallenge, StartRefresh, StartConfirm, Answered,
         NotAnswered, Refused, BindSelect, BindWrite, RefreshSelect, RefreshWrite,
         RefreshReset, ChallengeWrite, ConfirmMiss, Unlink, Claim, GrowOld, Rename, Expire
<1>2. PICK c \in Call : ConfirmWrite(c)
  BY <1>1
<1>3. k = call[c].id /\ Usable(k)
  BY <1>2 DEF ConfirmWrite, Confirmable
<1> QED
  BY <1>3 DEF CInv, NewestOpen, Usable, Open

\* Of all the confirmations that overlap, one binds only the newest challenge of its
\* user, in time and not yet used (confirmFplEntryBindingChallenge).
THEOREM LatestBindsHolds == Spec => LatestBinds
<1>1. Init => CInv
  BY InitCInv
<1>2. CInv /\ [Next]_vars => CInv'
  BY NextCInv
<1>3. CInv /\ [Next]_vars => [BindsLatest]_vars
  BY NextBindsLatest
<1> QED
  BY <1>1, <1>2, <1>3, PTL DEF Spec, LatestBinds
=============================================================================
