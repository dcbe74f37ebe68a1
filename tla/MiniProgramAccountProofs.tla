---------------------- MODULE MiniProgramAccountProofs ----------------------
(***************************************************************************)
(* Proofs about MiniProgramAccount, for any number of users, identifiers,  *)
(* devices, codes and requests.  A request that has its account lock holds *)
(* every row its identity can match until it ends, since a row starts to   *)
(* match only in a transaction that holds the same openid or unionid       *)
(* (StaysCovered).  So what an unlink read under its lock is still the     *)
(* link when it commits, and the link and the user's openid, written in    *)
(* one commit each, stay two halves of one fact.                           *)
(***************************************************************************)
EXTENDS MiniProgramAccount, FiniteSetTheorems, TLAPS

FlowOps == {"signIn", "confirm", "unlink"}
Who == [openid: OpenId, unionid: UnionId \cup {None}]

\* No row is locked by two requests.
Exclusive == \A r, s \in Req : r # s => req[r].holds \cap req[s].holds = {}

\* What request r holds, by the step it waits for.
Holding(r) ==
    req[r].op \in FlowOps =>
        /\ req[r].phase = "account" => req[r].holds = {}
        /\ req[r].phase # "account" => AccountRows(req[r].who) \subseteq req[r].holds
        /\ req[r].phase = "user" =>
            req[r].user # None /\ req[r].holds \subseteq OpenId \cup UnionId

\* What request r knows of the row it will write.
Knowing(r) ==
    /\ req[r].op = "confirm" => req[r].user # None
    /\ req[r].op = "unlink" =>
        /\ req[r].who.unionid = None /\ Exists(req[r].who.openid)
        /\ req[r].phase # "account" => account[req[r].who.openid].link = req[r].user
    /\ req[r].op \in {"follow", "choose"} => Exists(req[r].account)

\* LinkIsMutual without a cardinality.
Mutual ==
    \A u \in User :
        /\ user[u].openid = None => \A o \in OpenId : o \notin Linked(u)
        /\ user[u].openid # None => \E o \in OpenId : o \in Linked(u)
        /\ \A o, p \in Linked(u) : o = p
        /\ \A o \in Linked(u) : user[u].openid # o => account[o].unionid # None

\* The attempts of a code are the guesses compared with it.
Counted ==
    \A u \in User, d \in Device :
        code[u][d] # Absent => code[u][d].tried = code[u][d].attempts

IInv ==
    /\ TypeOK
    /\ Exclusive
    /\ \A r \in Req : Holding(r) /\ Knowing(r)
    /\ Mutual
    /\ SessionFollowsLink
    /\ Counted

-----------------------------------------------------------------------------
(* Operators.                                                              *)

\* The row an identity leads to is one that its request locks: a row that
\* matches, or the one inserted under its openid.
LEMMA FoundIsLocked ==
    ASSUME TypeOK, NEW who \in Who
    PROVE  /\ Found(who) \in OpenId
           /\ Found(who) \in AccountRows(who)
           /\ who.openid \in AccountRows(who)
           /\ who.unionid # None => who.unionid \in AccountRows(who)
           /\ Exists(Found(who)) => Found(who) \in Matched(who)
           /\ Found(who) # who.openid =>
                who.unionid # None /\ account[Found(who)].unionid = who.unionid
  <1>1. who.openid \in OpenId /\ who.openid # None
    BY MiniProgramAssumption DEF Who
  <1>2. CASE Exists(who.openid) \/ Matched(who) = {}
    <2>1. Found(who) = who.openid
      BY <1>2 DEF Found
    <2>2. QED
      BY <1>1, <2>1 DEF AccountRows, Matched
  <1>3. CASE ~(Exists(who.openid) \/ Matched(who) = {})
    <2>1. Found(who) \in Matched(who)
      BY <1>3 DEF Found
    <2>2. Found(who) # who.openid
      BY <1>3, <2>1 DEF Matched
    <2>3. QED
      BY <1>1, <2>1, <2>2, MiniProgramAssumption DEF AccountRows, Matched
  <1>4. QED
    BY <1>2, <1>3

\* findOrCreateMiniProgramAccount keeps the row but for a unionid it lacked,
\* or starts it without link and choice.
LEMMA OpenedKeeps ==
    ASSUME TypeOK, NEW who \in Who
    PROVE  /\ Opened(who) \in Account
           /\ Exists(Found(who)) =>
                /\ Opened(who).link = account[Found(who)].link
                /\ Opened(who).follow = account[Found(who)].follow
                /\ Opened(who).choice = account[Found(who)].choice
                /\ account[Found(who)].unionid # None =>
                        Opened(who).unionid = account[Found(who)].unionid
                /\ account[Found(who)].unionid = None =>
                        Opened(who).unionid = who.unionid
           /\ ~Exists(Found(who)) =>
                /\ Opened(who).link = None
                /\ Opened(who).choice = NoChoice
                /\ Opened(who).unionid = who.unionid
  <1>1. Found(who) \in OpenId /\ who.unionid \in UnionId \cup {None}
    BY FoundIsLocked DEF Who
  <1>2. CASE Exists(Found(who))
    <2>1. account[Found(who)] \in Account
      BY <1>1, <1>2 DEF TypeOK, Exists
    <2>2. QED
      BY <1>1, <1>2, <2>1 DEF Opened, Account
  <1>3. CASE ~Exists(Found(who))
    BY <1>1, <1>3 DEF Opened, Account, Choice
  <1>4. QED
    BY <1>2, <1>3

\* A table row is not the mark of its absence.
LEMMA RowsExist ==
    /\ \A row \in Account : row # Absent
    /\ \A pending \in Pending : pending # Absent
  BY MiniProgramAssumption

\* What an account change leaves to a request that does not lock the row: its
\* identity matches no more rows than those it holds.
LEMMA StaysCovered ==
    ASSUME TypeOK, NEW who \in Who, NEW held, AccountRows(who) \subseteq held,
           NEW o \in OpenId, o \notin held,
           \A p \in OpenId \ {o} : account'[p] = account[p],
           account'[o] # Absent,
           \/ account'[o].unionid \notin held
           \/ Exists(o) /\ account'[o].unionid = account[o].unionid
    PROVE  Matched(who)' \subseteq held /\ AccountRows(who)' \subseteq held
  <1>1. Matched(who) \subseteq held /\ who.openid \in held
            /\ (who.unionid # None => who.unionid \in held)
    BY FoundIsLocked DEF AccountRows
  <1>2. Matched(who)' \subseteq held
    <2>1. SUFFICES ASSUME NEW p \in Matched(who)' PROVE p \in held
      OBVIOUS
    <2>2. CASE p = o
      BY <1>1, <2>1, <2>2 DEF Matched, Exists
    <2>3. CASE p # o
      BY <1>1, <2>1, <2>3 DEF Matched, Exists
    <2>4. QED
      BY <2>2, <2>3
  <1>3. QED
    BY <1>1, <1>2 DEF AccountRows

\* The parts of a request that the type gives.
LEMMA RequestType ==
    ASSUME TypeOK, NEW r \in Req
    PROVE  /\ req[r].op \in FlowOps => req[r] \in Flow
           /\ req[r].op = "follow" =>
                req[r].account \in OpenId /\ req[r].value \in Entry \cup {None}
           /\ req[r].op = "choose" => req[r].account \in OpenId /\ req[r].value \in Choice
           /\ req[r].op \notin FlowOps => req[r].holds = {}
           /\ req[r].holds \subseteq OpenId \cup UnionId \cup User
           /\ req[r].op = "idle" => req[r] = Idle
  BY DEF TypeOK, FlowOps, Flow, Write, Idle

\* A step of request r that leaves the tables alone keeps the invariant if
\* what it holds is free and the request it becomes is sound.
LEMMA RequestStep ==
    ASSUME IInv, NEW r \in Req, NEW q \in {Idle} \cup Flow \cup Write,
           req' = [req EXCEPT ![r] = q], UNCHANGED Tables,
           \A s \in Req \ {r} : q.holds \cap req[s].holds = {},
           Holding(r)', Knowing(r)'
    PROVE  IInv'
  <1> USE DEF Tables
  <1>1. TypeOK'
    BY DEF IInv, TypeOK
  <1>2. req'[r] = q /\ \A s \in Req \ {r} : req'[s] = req[s]
    BY DEF IInv, TypeOK
  <1>3. Exclusive'
    BY <1>2 DEF IInv, Exclusive
  <1>4. ASSUME NEW s \in Req PROVE (Holding(s) /\ Knowing(s))'
    <2>1. CASE s = r
      BY <2>1
    <2>2. CASE s # r
      <3>1. Holding(s) /\ Knowing(s) /\ req'[s] = req[s]
        BY <1>2, <2>2 DEF IInv
      <3>2. QED
        BY <3>1 DEF Holding, Knowing, AccountRows, Matched, Exists
    <2>3. QED
      BY <2>1, <2>2
  <1>5. Mutual' /\ SessionFollowsLink' /\ Counted'
    BY DEF IInv, Mutual, Linked, Exists, SessionFollowsLink, Active, Counted
  <1>6. QED
    BY <1>1, <1>3, <1>4, <1>5 DEF IInv

\* A commit of request r that writes the account row o, which no other request
\* has locked, leaves the other requests sound.
LEMMA OthersKeep ==
    ASSUME IInv, NEW r \in Req, NEW o \in OpenId, NEW row \in Account,
           req' = [req EXCEPT ![r] = Idle],
           account' = [account EXCEPT ![o] = row],
           \A s \in Req \ {r} : o \notin req[s].holds,
           \/ \A s \in Req \ {r} : row.unionid \notin req[s].holds
           \/ Exists(o) /\ row.unionid = account[o].unionid
    PROVE  /\ account' \in [OpenId -> Account \cup {Absent}]
           /\ req' \in [Req -> {Idle} \cup Flow \cup Write]
           /\ Exclusive'
           /\ \A s \in Req : (Holding(s) /\ Knowing(s))'
  <1>1. /\ account' \in [OpenId -> Account \cup {Absent}]
        /\ req' \in [Req -> {Idle} \cup Flow \cup Write]
        /\ account'[o] = row /\ row # Absent
        /\ \A p \in OpenId \ {o} : account'[p] = account[p]
        /\ req'[r] = Idle /\ \A s \in Req \ {r} : req'[s] = req[s]
    BY RowsExist DEF IInv, TypeOK
  <1>2. Exclusive'
    BY <1>1 DEF IInv, Exclusive, Idle
  <1>3. ASSUME NEW s \in Req PROVE (Holding(s) /\ Knowing(s))'
    <2>1. CASE s = r
      BY <1>1, <2>1 DEF Holding, Knowing, Idle, FlowOps
    <2>2. CASE s # r
      <3>1. Holding(s) /\ Knowing(s) /\ req'[s] = req[s] /\ TypeOK
        BY <1>1, <2>2 DEF IInv
      <3>2. Holding(s)'
        <4>1. SUFFICES ASSUME req[s].op \in FlowOps, req[s].phase # "account"
                       PROVE AccountRows(req[s].who)' \subseteq req[s].holds
          BY <3>1 DEF Holding
        <4>2. req[s].who \in Who
          BY <3>1, <4>1, RequestType DEF Flow, Who
        <4>3. QED
          BY <1>1, <2>2, <3>1, <4>1, <4>2, StaysCovered DEF Holding
      <3>3. Knowing(s)'
        <4>1. \A p \in OpenId : Exists(p) => Exists(p)'
          BY <1>1 DEF Exists
        <4>2. CASE req[s].op = "unlink" /\ req[s].phase # "account"
          <5>1. req[s].who \in Who /\ req[s].who.openid \in OpenId
            BY <3>1, <4>2, RequestType DEF Flow, Who, FlowOps
          <5>2. req[s].who.openid \in req[s].holds
            BY <3>1, <4>2, <5>1, FoundIsLocked DEF Holding, FlowOps
          <5>3. req[s].who.openid # o
            BY <2>2, <5>2
          <5>4. QED
            BY <1>1, <3>1, <4>1, <4>2, <5>1, <5>3 DEF Knowing
        <4>3. CASE ~(req[s].op = "unlink" /\ req[s].phase # "account")
          <5>1. req[s].op = "unlink" => req[s].who.openid \in OpenId
            BY <3>1, RequestType DEF Flow, FlowOps
          <5>2. req[s].op \in {"follow", "choose"} => req[s].account \in OpenId
            BY <3>1, RequestType
          <5>3. QED
            BY <3>1, <4>1, <4>3, <5>1, <5>2 DEF Knowing
        <4>4. QED
          BY <4>2, <4>3
      <3>4. QED
        BY <3>2, <3>3
    <2>3. QED
      BY <2>1, <2>2
  <1>4. QED
    BY <1>1, <1>2, <1>3

-----------------------------------------------------------------------------
(* The initial states and the steps.                                       *)

LEMMA InitIInv == ASSUME Init PROVE IInv
  <1>1. PICK held \in [User -> OpenId \cup {None}] :
        /\ \A u, v \in User : u # v /\ held[u] # None => held[u] # held[v]
        /\ user = [u \in User |-> [openid |-> held[u], entry |-> None]]
        /\ account = [o \in OpenId |->
                IF \E u \in User : held[u] = o
                THEN [unionid |-> None, link |-> CHOOSE u \in User : held[u] = o,
                      follow |-> None, choice |-> NoChoice]
                ELSE Absent]
        /\ session = [o \in OpenId |-> [d \in Device |-> Absent]]
        /\ code = [u \in User |-> [d \in Device |-> Absent]]
        /\ req = [r \in Req |-> Idle]
    BY DEF Init
  <1>2. \A o \in OpenId : account[o] \in Account \cup {Absent}
    BY <1>1 DEF Account, Choice
  <1>3. TypeOK
    BY <1>1, <1>2 DEF TypeOK
  <1>4. Exclusive /\ \A r \in Req : Holding(r) /\ Knowing(r)
    BY <1>1 DEF Exclusive, Holding, Knowing, Idle, FlowOps
  <1>5. \A u \in User, o \in OpenId : o \in Linked(u) <=> held[u] = o
    <2>1. SUFFICES ASSUME NEW u \in User, NEW o \in OpenId
                   PROVE o \in Linked(u) <=> held[u] = o
      OBVIOUS
    <2>2. CASE \E v \in User : held[v] = o
      <3>1. PICK v \in User : held[v] = o
        BY <2>2
      <3>2. account[o] = [unionid |-> None, link |-> CHOOSE w \in User : held[w] = o,
                          follow |-> None, choice |-> NoChoice]
        BY <1>1, <2>2
      <3>3. account[o].link \in User /\ held[account[o].link] = o
        BY <2>2, <3>2
      <3>4. account[o] # Absent
        BY <3>2, <3>3, RowsExist DEF Account, Choice
      <3>5. o # None
        BY MiniProgramAssumption
      <3>6. held[u] = o => u = account[o].link
        BY <1>1, <3>3, <3>5
      <3>7. QED
        BY <3>3, <3>4, <3>6 DEF Linked, Exists
    <2>3. CASE ~\E v \in User : held[v] = o
      BY <1>1, <2>3 DEF Linked, Exists
    <2>4. QED
      BY <2>2, <2>3
  <1>6. Mutual
    <2>1. SUFFICES ASSUME NEW u \in User
                   PROVE  /\ user[u].openid = None => \A o \in OpenId : o \notin Linked(u)
                          /\ user[u].openid # None => \E o \in OpenId : o \in Linked(u)
                          /\ \A o, p \in Linked(u) : o = p
                          /\ \A o \in Linked(u) :
                                user[u].openid # o => account[o].unionid # None
      BY DEF Mutual
    <2>2. user[u].openid = held[u] /\ held[u] \in OpenId \cup {None}
      BY <1>1
    <2>3. Linked(u) \subseteq OpenId
      BY DEF Linked
    <2>4. QED
      BY <1>5, <2>2, <2>3, MiniProgramAssumption
  <1>7. SessionFollowsLink /\ Counted
    BY <1>1 DEF SessionFollowsLink, Active, Counted
  <1>8. QED
    BY <1>3, <1>4, <1>6, <1>7 DEF IInv

\* A request begins with no lock, and with what it read.
LEMMA BeginKeeps ==
    ASSUME IInv, NEW r \in Req, SignIn(r) \/ Confirm(r) \/ Unlink(r)
    PROVE  IInv'
  <1> USE DEF BeginFlow, Begin, Tables
  <1>1. \A w \in Identity : w \in Who
    BY MiniProgramAssumption DEF Who
  <1>2. CASE SignIn(r)
    <2>1. PICK who \in Identity, d \in Device :
            BeginFlow(r, [op |-> "signIn", phase |-> "account", who |-> who, device |-> d,
                          user |-> UserOf(who.openid), guess |-> None, holds |-> {}])
      BY <1>2 DEF SignIn
    <2> DEFINE q == [op |-> "signIn", phase |-> "account", who |-> who, device |-> d,
                     user |-> UserOf(who.openid), guess |-> None, holds |-> {}]
    <2>2. UserOf(who.openid) \in User \cup {None}
      BY DEF UserOf
    <2>3. q \in Flow
      BY <1>1, <2>2 DEF Flow, Who
    <2>4. req'[r] = q
      BY <2>1 DEF IInv, TypeOK
    <2>5. Holding(r)' /\ Knowing(r)'
      BY <2>4 DEF Holding, Knowing
    <2>6. req' = [req EXCEPT ![r] = q] /\ UNCHANGED Tables /\ q.holds = {}
      BY <2>1
    <2> HIDE DEF q
    <2>7. QED
      BY <2>3, <2>5, <2>6, RequestStep
  <1>3. CASE Confirm(r)
    <2>1. PICK who \in Identity, d \in Device, u \in User : \E guess \in Guesses(u, d) :
            BeginFlow(r, [op |-> "confirm", phase |-> "account", who |-> who, device |-> d,
                          user |-> u, guess |-> guess, holds |-> {}])
      BY <1>3 DEF Confirm
    <2>2. PICK guess \in Guesses(u, d) :
            BeginFlow(r, [op |-> "confirm", phase |-> "account", who |-> who, device |-> d,
                          user |-> u, guess |-> guess, holds |-> {}])
      BY <2>1
    <2> DEFINE q == [op |-> "confirm", phase |-> "account", who |-> who, device |-> d,
                     user |-> u, guess |-> guess, holds |-> {}]
    <2>3. guess \in Code \cup {None}
      BY DEF Guesses, IInv, TypeOK, Pending
    <2>4. q \in Flow
      BY <1>1, <2>3 DEF Flow, Who
    <2>5. req'[r] = q
      BY <2>2 DEF IInv, TypeOK
    <2>6. Holding(r)' /\ Knowing(r)'
      BY <2>5, MiniProgramAssumption DEF Holding, Knowing
    <2>7. req' = [req EXCEPT ![r] = q] /\ UNCHANGED Tables /\ q.holds = {}
      BY <2>2
    <2> HIDE DEF q
    <2>8. QED
      BY <2>4, <2>6, <2>7, RequestStep
  <1>4. CASE Unlink(r)
    <2>1. PICK o \in OpenId : \E d \in Active(o) :
            BeginFlow(r, [op |-> "unlink", phase |-> "account",
                          who |-> [openid |-> o, unionid |-> None], device |-> d,
                          user |-> None, guess |-> None, holds |-> {}])
      BY <1>4 DEF Unlink
    <2>2. PICK d \in Active(o) :
            BeginFlow(r, [op |-> "unlink", phase |-> "account",
                          who |-> [openid |-> o, unionid |-> None], device |-> d,
                          user |-> None, guess |-> None, holds |-> {}])
      BY <2>1
    <2> DEFINE q == [op |-> "unlink", phase |-> "account",
                     who |-> [openid |-> o, unionid |-> None], device |-> d,
                     user |-> None, guess |-> None, holds |-> {}]
    <2>3. q \in Flow
      BY DEF Flow, Active
    <2>4. req'[r] = q
      BY <2>2 DEF IInv, TypeOK
    <2>5. Exists(o) /\ Exists(o)'
      BY <2>2 DEF IInv, SessionFollowsLink, Exists
    <2>6. Holding(r)' /\ Knowing(r)'
      BY <2>4, <2>5 DEF Holding, Knowing
    <2>7. req' = [req EXCEPT ![r] = q] /\ UNCHANGED Tables /\ q.holds = {}
      BY <2>2
    <2> HIDE DEF q
    <2>8. QED
      BY <2>3, <2>6, <2>7, RequestStep
  <1>5. QED
    BY <1>2, <1>3, <1>4

\* A follow or a choice begins for an account that has a session.
LEMMA WriteBeginKeeps ==
    ASSUME IInv, NEW r \in Req, Follow(r) \/ Choose(r)
    PROVE  IInv'
  <1>1. PICK o \in OpenId, q \in Write :
            Active(o) # {} /\ Begin(r, q) /\ q.account = o
    <2>1. CASE Follow(r)
      <3>1. PICK o \in OpenId, e \in Entry \cup {None} :
                /\ Active(o) # {}
                /\ Begin(r, [op |-> "follow", account |-> o, value |-> e, holds |-> {}])
        BY <2>1 DEF Follow
      <3>2. [op |-> "follow", account |-> o, value |-> e, holds |-> {}] \in Write
        BY DEF Write
      <3>3. QED
        BY <3>1, <3>2
    <2>2. CASE Choose(r)
      <3>1. PICK o \in OpenId, source \in {"MINI", "WEB"} :
                /\ Active(o) # {} /\ account[o].link # None
                /\ LET mini == account[o].follow
                       web == user[account[o].link].entry
                   IN  /\ mini # None /\ web # None /\ mini # web
                       /\ Begin(r, [op |-> "choose", account |-> o, holds |-> {},
                                value |-> [source |-> source, mini |-> mini, web |-> web]])
        BY <2>2 DEF Choose
      <3> DEFINE mini == account[o].follow
                 web == user[account[o].link].entry
                 v == [source |-> source, mini |-> mini, web |-> web]
      <3>2. account[o] \in Account
        BY <3>1 DEF IInv, TypeOK, SessionFollowsLink, Exists
      <3>3. mini \in Entry /\ web \in Entry
        BY <3>1, <3>2 DEF IInv, TypeOK, Account
      <3>4. [op |-> "choose", account |-> o, holds |-> {}, value |-> v] \in Write
        BY <3>3 DEF Write, Choice
      <3>5. QED
        BY <3>1, <3>4
    <2>3. QED
      BY <2>1, <2>2
  <1>2. Exists(o) /\ UNCHANGED Tables /\ req' = [req EXCEPT ![r] = q]
    BY <1>1 DEF IInv, SessionFollowsLink, Begin
  <1>3. req'[r] = q /\ Exists(o)'
    BY <1>2 DEF IInv, TypeOK, Exists, Tables
  <1>4. q.holds = {} /\ q.op \in {"follow", "choose"}
    BY DEF Write
  <1>5. Holding(r)' /\ Knowing(r)'
    BY <1>1, <1>3, <1>4 DEF Holding, Knowing, FlowOps
  <1>6. QED
    BY <1>2, <1>4, <1>5, RequestStep

\* A transaction that is rolled back leaves its locks.
LEMMA RollKeeps ==
    ASSUME IInv, NEW r \in Req, Roll(r)
    PROVE  IInv'
  <1>1. req'[r] = Idle
    BY DEF Roll, IInv, TypeOK
  <1>2. Holding(r)' /\ Knowing(r)'
    BY <1>1 DEF Holding, Knowing, Idle, FlowOps
  <1>3. Idle.holds = {}
    BY DEF Idle
  <1>4. UNCHANGED Tables /\ req' = [req EXCEPT ![r] = Idle]
    BY DEF Roll, Tables
  <1>5. QED
    BY <1>2, <1>3, <1>4, RequestStep

\* The account lock is taken on every row that matches, and the link that an
\* unlink reads is read under it; the user lock is taken second.
LEMMA LockKeeps ==
    ASSUME IInv, NEW r \in Req, LockAccount(r) \/ LockUser(r)
    PROVE  IInv'
  <1>1. TypeOK /\ Holding(r) /\ Knowing(r)
    BY DEF IInv
  <1>2. req[r].op \in FlowOps /\ req[r] \in Flow
    BY <1>1, RequestType DEF LockAccount, LockUser, InPhase, FlowOps
  <1>3. CASE LockAccount(r)
    <2> DEFINE who == req[r].who
               u == IF req[r].op = "unlink" THEN account[who.openid].link ELSE req[r].user
               rows == AccountRows(who)
               phase == IF u = None THEN "commit" ELSE "user"
               q == [req[r] EXCEPT !.phase = phase, !.user = u, !.holds = @ \cup rows]
    <2>1. \/ Roll(r)
          \/ Hold(r, rows, phase, u)
      BY <1>3 DEF LockAccount
    <2>2. who \in Who /\ who.openid \in OpenId /\ req[r].holds = {}
      BY <1>1, <1>2, <1>3 DEF Flow, Who, LockAccount, InPhase, Holding
    <2>3. rows \subseteq OpenId \cup UnionId
      BY <2>2 DEF AccountRows, Matched, Who
    <2>4. u \in User \cup {None}
      <3>1. CASE req[r].op = "unlink"
        <4>1. account[who.openid] \in Account
          BY <1>1, <2>2, <3>1 DEF Knowing, Exists, TypeOK
        <4>2. QED
          BY <3>1, <4>1 DEF Account
      <3>2. CASE req[r].op # "unlink"
        BY <1>2, <3>2 DEF Flow
      <3>3. QED
        BY <3>1, <3>2
    <2>5. /\ q \in Flow /\ q.op = req[r].op /\ q.who = who /\ q.user = u
          /\ q.phase = phase /\ q.holds = rows
      BY <1>2, <2>2, <2>3, <2>4 DEF Flow
    <2>6. CASE Hold(r, rows, phase, u)
      <3>1. req' = [req EXCEPT ![r] = q] /\ UNCHANGED Tables /\ Free(r, rows)
        BY <1>1, <1>2, <2>6 DEF Hold, TypeOK, Flow
      <3> HIDE DEF q
      <3>2. req'[r] = q
        BY <1>1, <3>1 DEF TypeOK
      <3>3. Holding(r)'
        BY <2>3, <2>5, <3>1, <3>2 DEF Holding, AccountRows, Matched, Exists, Tables
      <3>4. Knowing(r)'
        BY <1>1, <1>2, <2>5, <3>1, <3>2 DEF Knowing, Exists, Tables, FlowOps
      <3>5. QED
        BY <2>5, <3>1, <3>3, <3>4, RequestStep DEF Free
    <2>7. QED
      BY <2>1, <2>6, RollKeeps
  <1>4. CASE LockUser(r)
    <2> DEFINE q == [req[r] EXCEPT !.phase = "commit", !.user = req[r].user,
                                   !.holds = @ \cup {req[r].user}]
    <2>1. req[r].user \in User
      BY <1>1, <1>2, <1>4 DEF Holding, LockUser, InPhase, Flow
    <2>2. /\ q \in Flow /\ q.op = req[r].op /\ q.who = req[r].who /\ q.user = req[r].user
          /\ q.phase = "commit" /\ q.holds = req[r].holds \cup {req[r].user}
      BY <1>2, <2>1 DEF Flow
    <2>3. req' = [req EXCEPT ![r] = q] /\ UNCHANGED Tables /\ Free(r, {req[r].user})
      BY <1>1, <1>2, <1>4 DEF LockUser, Hold, TypeOK, Flow
    <2> HIDE DEF q
    <2>4. req'[r] = q
      BY <1>1, <2>3 DEF TypeOK
    <2>5. Holding(r)'
      BY <1>1, <1>2, <1>4, <2>2, <2>3, <2>4
         DEF Holding, AccountRows, Matched, Exists, Tables, LockUser, InPhase
    <2>6. Knowing(r)'
      BY <1>1, <1>4, <2>2, <2>3, <2>4 DEF Knowing, Exists, Tables, LockUser, InPhase
    <2>7. \A s \in Req \ {r} : q.holds \cap req[s].holds = {}
      BY <2>2, <2>3 DEF Free, IInv, Exclusive
    <2>8. QED
      BY <2>2, <2>3, <2>5, <2>6, <2>7, RequestStep
  <1>5. QED
    BY <1>3, <1>4

\* The steps outside requests leave links, openids, sessions' users and the
\* rows of requests as they are.
LEMMA OutsideKeeps ==
    ASSUME IInv, StartEmailBinding \/ CodeExpires \/ RevokeSession \/ WebEntry
    PROVE  IInv'
  <1>1. account' = account /\ req' = req
    BY DEF StartEmailBinding, CodeExpires, RevokeSession, WebEntry
  <1>2. Exclusive' /\ \A r \in Req : (Holding(r) /\ Knowing(r))'
    BY <1>1 DEF IInv, Exclusive, Holding, Knowing, AccountRows, Matched, Exists
  <1>3. CASE StartEmailBinding
    <2>1. PICK u \in User, d \in Device, c \in Code :
            code' = [code EXCEPT ![u][d] = [code |-> c, attempts |-> 0, tried |-> 0]]
      BY <1>3 DEF StartEmailBinding
    <2>2. [code |-> c, attempts |-> 0, tried |-> 0] \in Pending
      BY MiniProgramAssumption DEF Pending
    <2>3. UNCHANGED <<account, user, session, req>>
      BY <1>3 DEF StartEmailBinding
    <2>4. TypeOK' /\ Counted'
      BY <2>1, <2>2, <2>3 DEF IInv, TypeOK, Counted
    <2>5. Mutual' /\ SessionFollowsLink'
      BY <2>3 DEF IInv, Mutual, Linked, Exists, SessionFollowsLink, Active
    <2>6. QED
      BY <1>2, <2>4, <2>5 DEF IInv
  <1>4. CASE CodeExpires
    <2>1. PICK u \in User, d \in Device : code' = [code EXCEPT ![u][d] = Absent]
      BY <1>4 DEF CodeExpires
    <2>2. UNCHANGED <<account, user, session, req>>
      BY <1>4 DEF CodeExpires
    <2>3. TypeOK' /\ Counted'
      BY <2>1, <2>2 DEF IInv, TypeOK, Counted
    <2>4. Mutual' /\ SessionFollowsLink'
      BY <2>2 DEF IInv, Mutual, Linked, Exists, SessionFollowsLink, Active
    <2>5. QED
      BY <1>2, <2>3, <2>4 DEF IInv
  <1>5. CASE RevokeSession
    <2>1. PICK o \in OpenId : \E d \in Active(o) : session' = [session EXCEPT ![o][d] = Absent]
      BY <1>5 DEF RevokeSession
    <2>2. PICK d \in Active(o) : session' = [session EXCEPT ![o][d] = Absent]
      BY <2>1
    <2>3. d \in Device /\ UNCHANGED <<account, user, code, req>>
      BY <1>5 DEF RevokeSession, Active
    <2>4. TypeOK' /\ Counted'
      BY <2>2, <2>3 DEF IInv, TypeOK, Counted
    <2>5. SessionFollowsLink'
      BY <2>2, <2>3 DEF IInv, TypeOK, SessionFollowsLink, Active, Exists
    <2>6. Mutual'
      BY <2>3 DEF IInv, Mutual, Linked, Exists
    <2>7. QED
      BY <1>2, <2>4, <2>5, <2>6 DEF IInv
  <1>6. CASE WebEntry
    <2>1. PICK u \in User, e \in Entry \cup {None} : user' = [user EXCEPT ![u].entry = e]
      BY <1>6 DEF WebEntry
    <2>2. UNCHANGED <<account, session, code, req>>
      BY <1>6 DEF WebEntry
    <2>3. TypeOK' /\ \A v \in User : user'[v].openid = user[v].openid
      BY <2>1, <2>2 DEF IInv, TypeOK
    <2>4. Mutual'
      BY <2>2, <2>3 DEF IInv, Mutual, Linked, Exists
    <2>5. SessionFollowsLink' /\ Counted'
      BY <2>2 DEF IInv, SessionFollowsLink, Active, Exists, Counted
    <2>6. QED
      BY <1>2, <2>3, <2>4, <2>5 DEF IInv
  <1>7. QED
    BY <1>3, <1>4, <1>5, <1>6

-----------------------------------------------------------------------------
(* The commits.                                                            *)

\* At its commit a request has locked the row it writes, and a unionid that it
\* adds to that row.
LEMMA CommitLocks ==
    ASSUME IInv, NEW r \in Req, req[r].op \in FlowOps, req[r].phase = "commit"
    PROVE  /\ req[r] \in Flow /\ req[r].who \in Who
           /\ Found(req[r].who) \in OpenId
           /\ Opened(req[r].who) \in Account
           /\ \A s \in Req \ {r} :
                Found(req[r].who) \notin req[s].holds /\ req[r].who.openid \notin req[s].holds
           /\ \/ \A s \in Req \ {r} : Opened(req[r].who).unionid \notin req[s].holds
              \/ /\ Exists(Found(req[r].who))
                 /\ Opened(req[r].who).unionid = account[Found(req[r].who)].unionid
  <1> DEFINE who == req[r].who
             o == Found(who)
  <1>1. TypeOK /\ req[r] \in Flow /\ who \in Who
    BY RequestType DEF IInv, Flow, Who
  <1>2. AccountRows(who) \subseteq req[r].holds
    BY DEF IInv, Holding
  <1>3. o \in OpenId /\ o \in req[r].holds /\ who.openid \in req[r].holds
    BY <1>1, <1>2, FoundIsLocked
  <1>4. \A s \in Req \ {r} : req[s].holds \cap req[r].holds = {} /\ None \notin req[s].holds
    BY <1>1, RequestType, MiniProgramAssumption DEF IInv, Exclusive
  <1>5. Opened(who) \in Account
    BY <1>1, OpenedKeeps
  <1>6. CASE Exists(o) /\ account[o].unionid # None
    BY <1>1, <1>3, <1>4, <1>5, <1>6, OpenedKeeps
  <1>7. CASE ~(Exists(o) /\ account[o].unionid # None)
    <2>1. Opened(who).unionid = who.unionid
      BY <1>1, <1>7, OpenedKeeps
    <2>2. \A s \in Req \ {r} : who.unionid \notin req[s].holds
      BY <1>1, <1>2, <1>4, FoundIsLocked
    <2>3. QED
      BY <1>1, <1>3, <1>4, <1>5, <2>1, <2>2
  <1>8. QED
    BY <1>6, <1>7

\* A step that leaves the link of the row it writes, and every openid, leaves
\* links and openids two halves of one fact.
LEMMA LinksKept ==
    ASSUME IInv, NEW o \in OpenId, NEW row \in Account,
           account' = [account EXCEPT ![o] = row],
           ~Exists(o) => row.link = None,
           Exists(o) => /\ row.link = account[o].link
                        /\ account[o].unionid # None => row.unionid # None,
           \A v \in User : user'[v].openid = user[v].openid
    PROVE  /\ \A p \in OpenId : account'[p] = IF p = o THEN row ELSE account[p]
           /\ \A v \in User, p \in OpenId : (p \in Linked(v))' <=> p \in Linked(v)
           /\ Mutual'
  <1>1. row # Absent /\ None \notin User
    BY RowsExist, MiniProgramAssumption
  <1>2. \A p \in OpenId : account'[p] = IF p = o THEN row ELSE account[p]
    BY DEF IInv, TypeOK
  <1>3. \A v \in User, p \in OpenId : (p \in Linked(v))' <=> p \in Linked(v)
    BY <1>1, <1>2 DEF Linked, Exists
  <1>4. \A v \in User : Linked(v)' = Linked(v) /\ Linked(v) \subseteq OpenId
    BY <1>3 DEF Linked
  <1>5. \A v \in User : \A p \in Linked(v) : account[p].unionid # None => account'[p].unionid # None
    BY <1>2, <1>4 DEF Linked
  <1>6. Mutual'
    <2>1. SUFFICES ASSUME NEW u \in User
                   PROVE  /\ user'[u].openid = None => \A p \in OpenId : p \notin Linked(u)'
                          /\ user'[u].openid # None => \E p \in OpenId : p \in Linked(u)'
                          /\ \A p, q \in Linked(u)' : p = q
                          /\ \A p \in Linked(u)' :
                                user'[u].openid # p => account'[p].unionid # None
      BY DEF Mutual
    <2>2. QED
      BY <1>4, <1>5 DEF IInv, Mutual
  <1>7. QED
    BY <1>2, <1>3, <1>6

\* What follow and choice write is of the row's type, and leaves link and
\* unionid.
LEMMA WriteCommitKeeps ==
    ASSUME IInv, NEW r \in Req, CommitWrite(r)
    PROVE  IInv'
  <1> DEFINE o == req[r].account
             row == IF req[r].op = "follow"
                    THEN [account[o] EXCEPT !.follow = req[r].value, !.choice = NoChoice]
                    ELSE [account[o] EXCEPT !.choice = req[r].value]
  <1>1. TypeOK /\ Exists(o) /\ o \in OpenId
    BY RequestType DEF IInv, Knowing, CommitWrite
  <1>2. account[o] \in Account
    BY <1>1 DEF TypeOK, Exists
  <1>3. row \in Account /\ row.link = account[o].link /\ row.unionid = account[o].unionid
    BY <1>1, <1>2, RequestType DEF CommitWrite, Account, Choice
  <1>4. /\ account' = [account EXCEPT ![o] = row] /\ Free(r, {o})
        /\ req' = [req EXCEPT ![r] = Idle] /\ UNCHANGED <<user, session, code>>
    BY DEF CommitWrite, Ends
  <1> HIDE DEF row
  <1>5. \A s \in Req \ {r} : o \notin req[s].holds
    BY <1>4 DEF Free
  <1>6. /\ account' \in [OpenId -> Account \cup {Absent}]
        /\ req' \in [Req -> {Idle} \cup Flow \cup Write]
        /\ Exclusive' /\ \A s \in Req : (Holding(s) /\ Knowing(s))'
    BY <1>1, <1>3, <1>4, <1>5, OthersKeep
  <1>7. TypeOK' /\ Counted'
    BY <1>4, <1>6 DEF IInv, TypeOK, Counted
  <1>8. Mutual' /\ \A p \in OpenId : account'[p] = IF p = o THEN row ELSE account[p]
    BY <1>1, <1>3, <1>4, LinksKept
  <1>9. SessionFollowsLink'
    BY <1>1, <1>3, <1>4, <1>8, RowsExist DEF IInv, SessionFollowsLink, Active, Exists
  <1>10. QED
    BY <1>6, <1>7, <1>8, <1>9 DEF IInv

\* A sign-in never links: a user that still has the openid has an account, so a
\* sign-in that found it for an account without link is refused.
LEMMA SignInKeepsLink ==
    ASSUME IInv, NEW r \in Req, CommitSignIn(r)
    PROVE  \/ Roll(r)
           \/ /\ req' = [req EXCEPT ![r] = Idle]
              /\ account' = [account EXCEPT ![Found(req[r].who)] = Opened(req[r].who)]
              /\ session' = [session EXCEPT ![Found(req[r].who)][req[r].device] =
                                Opened(req[r].who).link]
              /\ UNCHANGED <<user, code>>
  <1> DEFINE who == req[r].who
             o == Found(who)
             link == IF Opened(who).link = None THEN req[r].user ELSE Opened(who).link
             refused == \/ ~StillTheirs(r)
                        \/ link # None /\ Linked(link) \ {o} # {}
                        \/ DeviceTaken(o, req[r].device, link)
  <1>1. req[r].op = "signIn" /\ req[r].op \in FlowOps /\ req[r].phase = "commit"
    BY DEF CommitSignIn, Committing, InPhase, FlowOps
  <1>2. /\ TypeOK /\ req[r] \in Flow /\ who \in Who /\ o \in OpenId
        /\ Opened(who) \in Account
    BY <1>1, CommitLocks DEF IInv
  <1>3. \/ refused /\ Roll(r)
        \/ /\ ~refused /\ req' = [req EXCEPT ![r] = Idle]
           /\ account' = [account EXCEPT ![o] = [Opened(who) EXCEPT !.link = link]]
           /\ session' = [session EXCEPT ![o][req[r].device] = link]
           /\ UNCHANGED <<user, code>>
    BY DEF CommitSignIn, Ends
  <1>4. ASSUME ~refused PROVE link = Opened(who).link
    <2>1. SUFFICES ASSUME Opened(who).link = None, req[r].user # None PROVE FALSE
      OBVIOUS
    <2>2. req[r].user \in User
      BY <1>2, <2>1 DEF Flow
    <2>3. user[req[r].user].openid # None
      BY <1>2, <1>4, <2>1, MiniProgramAssumption DEF StillTheirs, Who
    <2>4. PICK p \in OpenId : p \in Linked(req[r].user)
      BY <2>2, <2>3 DEF IInv, Mutual
    <2>5. p = o
      BY <1>4, <2>1, <2>4
    <2>6. Exists(o) /\ account[o].link = req[r].user
      BY <2>4, <2>5 DEF Linked
    <2>7. QED
      BY <1>2, <2>1, <2>6, OpenedKeeps
  <1>5. [Opened(who) EXCEPT !.link = Opened(who).link] = Opened(who)
    BY <1>2 DEF Account
  <1>6. QED
    BY <1>3, <1>4, <1>5

LEMMA SignInKeeps ==
    ASSUME IInv, NEW r \in Req, CommitSignIn(r)
    PROVE  IInv'
  <1> DEFINE who == req[r].who
             o == Found(who)
             row == Opened(who)
             d == req[r].device
  <1>1. req[r].op \in FlowOps /\ req[r].phase = "commit"
    BY DEF CommitSignIn, Committing, InPhase, FlowOps
  <1>2. /\ TypeOK /\ req[r] \in Flow /\ who \in Who /\ o \in OpenId /\ row \in Account
        /\ \A s \in Req \ {r} : o \notin req[s].holds
        /\ \/ \A s \in Req \ {r} : row.unionid \notin req[s].holds
           \/ Exists(o) /\ row.unionid = account[o].unionid
    BY <1>1, CommitLocks DEF IInv
  <1>3. /\ ~Exists(o) => row.link = None
        /\ Exists(o) => /\ row.link = account[o].link
                        /\ account[o].unionid # None => row.unionid # None
    BY <1>2, OpenedKeeps
  <1>4. CASE Roll(r)
    BY <1>4, RollKeeps
  <1>5. CASE /\ req' = [req EXCEPT ![r] = Idle]
             /\ account' = [account EXCEPT ![o] = row]
             /\ session' = [session EXCEPT ![o][d] = row.link]
             /\ UNCHANGED <<user, code>>
    <2> HIDE DEF o, row
    <2>1. d \in Device /\ row.link \in User \cup {None} /\ row.link # Absent /\ row # Absent
      BY <1>2, MiniProgramAssumption, RowsExist DEF Flow, Account
    <2>2. /\ account' \in [OpenId -> Account \cup {Absent}]
          /\ req' \in [Req -> {Idle} \cup Flow \cup Write]
          /\ Exclusive' /\ \A s \in Req : (Holding(s) /\ Knowing(s))'
      BY <1>2, <1>5, OthersKeep
    <2>3. TypeOK' /\ Counted'
      BY <1>2, <1>5, <2>1, <2>2 DEF IInv, TypeOK, Counted
    <2>4. Mutual' /\ \A p \in OpenId : account'[p] = IF p = o THEN row ELSE account[p]
      BY <1>2, <1>3, <1>5, LinksKept
    <2>5. \A p \in OpenId, e \in Device :
            session'[p][e] = IF p = o /\ e = d THEN row.link ELSE session[p][e]
      BY <1>2, <1>5, <2>1 DEF TypeOK
    <2>6. SessionFollowsLink'
      BY <1>2, <1>3, <2>1, <2>4, <2>5 DEF IInv, SessionFollowsLink, Active, Exists
    <2>7. QED
      BY <2>2, <2>3, <2>4, <2>6 DEF IInv
  <1>6. QED
    BY <1>4, <1>5, SignInKeepsLink

\* What an unlink read under its lock is the link that it undoes.
LEMMA UnlinkKeeps ==
    ASSUME IInv, NEW r \in Req, CommitUnlink(r)
    PROVE  IInv'
  <1> DEFINE o == req[r].who.openid
             u == req[r].user
             row == [account[o] EXCEPT !.link = None, !.choice = NoChoice]
  <1>1. req[r].op = "unlink" /\ req[r].op \in FlowOps /\ req[r].phase = "commit"
    BY DEF CommitUnlink, Committing, InPhase, FlowOps
  <1>2. /\ TypeOK /\ o \in OpenId /\ u \in User \cup {None}
        /\ \A s \in Req \ {r} : o \notin req[s].holds
    BY <1>1, CommitLocks DEF IInv, Flow, Who
  <1>3. Exists(o) /\ account[o] \in Account /\ account[o].link = u
    BY <1>1, <1>2 DEF IInv, Knowing, TypeOK, Exists
  <1>4. /\ row \in Account /\ row.link = None /\ row.unionid = account[o].unionid
        /\ row # Absent
    BY <1>3, RowsExist DEF Account, Choice
  <1>5. /\ req' = [req EXCEPT ![r] = Idle] /\ code' = code
        /\ account' = [account EXCEPT ![o] = row]
        /\ user' = IF u = None THEN user ELSE [user EXCEPT ![u].openid = None]
        /\ session' = [session EXCEPT ![o] =
                [e \in Device |-> IF session[o][e] = Absent THEN Absent ELSE None]]
    <2>1. account' = [account EXCEPT ![o].link = None, ![o].choice = NoChoice]
      BY DEF CommitUnlink
    <2>2. account' = [account EXCEPT ![o] = row]
      BY <1>2, <1>3, <2>1 DEF TypeOK
    <2>3. QED
      BY <1>2, <2>2 DEF CommitUnlink, Ends, TypeOK
  <1> HIDE DEF row
  <1>6. /\ account' \in [OpenId -> Account \cup {Absent}]
        /\ req' \in [Req -> {Idle} \cup Flow \cup Write]
        /\ Exclusive' /\ \A s \in Req : (Holding(s) /\ Knowing(s))'
    BY <1>2, <1>3, <1>4, <1>5, OthersKeep
  <1>7. \A p \in OpenId, e \in Device :
            session'[p][e] = IF p = o /\ session[o][e] # Absent THEN None ELSE session[p][e]
    BY <1>2, <1>5 DEF TypeOK
  <1>8. TypeOK' /\ Counted'
    BY <1>2, <1>5, <1>6 DEF IInv, TypeOK, Counted
  <1>9. \A p \in OpenId : account'[p] = IF p = o THEN row ELSE account[p]
    BY <1>2, <1>5 DEF TypeOK
  <1>10. Mutual'
    <2>1. SUFFICES ASSUME NEW v \in User
                   PROVE  /\ user'[v].openid = None => \A p \in OpenId : p \notin Linked(v)'
                          /\ user'[v].openid # None => \E p \in OpenId : p \in Linked(v)'
                          /\ \A p, q \in Linked(v)' : p = q
                          /\ \A p \in Linked(v)' :
                                user'[v].openid # p => account'[p].unionid # None
      BY DEF Mutual
    <2>2. /\ user[v].openid = None => \A p \in OpenId : p \notin Linked(v)
          /\ user[v].openid # None => \E p \in OpenId : p \in Linked(v)
          /\ \A p, q \in Linked(v) : p = q
          /\ \A p \in Linked(v) : user[v].openid # p => account[p].unionid # None
      BY DEF IInv, Mutual
    <2>3. Linked(v)' = Linked(v) \ {o}
      BY <1>4, <1>9, MiniProgramAssumption DEF Linked, Exists
    <2>4. v = u <=> o \in Linked(v)
      BY <1>2, <1>3 DEF Linked
    <2>5. CASE v = u
      <3>1. user'[v].openid = None /\ Linked(v)' = {}
        BY <1>2, <1>5, <2>2, <2>3, <2>4, <2>5, MiniProgramAssumption DEF TypeOK
      <3>2. QED
        BY <3>1
    <2>6. CASE v # u
      <3>1. user'[v] = user[v] /\ Linked(v)' = Linked(v)
        BY <1>2, <1>5, <2>3, <2>4, <2>6 DEF TypeOK
      <3>2. \A p \in Linked(v) : account'[p] = account[p]
        BY <1>9, <2>4, <2>6 DEF Linked
      <3>3. QED
        BY <2>2, <3>1, <3>2
    <2>7. QED
      BY <2>5, <2>6
  <1>11. SessionFollowsLink'
    BY <1>2, <1>4, <1>7, <1>9, MiniProgramAssumption
       DEF IInv, SessionFollowsLink, Active, Exists
  <1>12. QED
    BY <1>6, <1>8, <1>10, <1>11 DEF IInv

\* A refused confirmation keeps links, and counts the guess it compared.
LEMMA RefusedConfirmKeeps ==
    ASSUME IInv, NEW r \in Req, req[r].op = "confirm", req[r].phase = "commit",
           req' = [req EXCEPT ![r] = Idle],
           account' = [account EXCEPT ![Found(req[r].who)] = Opened(req[r].who)],
           UNCHANGED <<user, session>>,
           \/ code' = code
           \/ /\ Comparable(req[r].user, req[r].device)
              /\ code' = [code EXCEPT ![req[r].user][req[r].device] =
                                Missed(req[r].user, req[r].device)]
    PROVE  IInv'
  <1> DEFINE who == req[r].who
             o == Found(who)
             row == Opened(who)
             u == req[r].user
             d == req[r].device
  <1>1. req[r].op \in FlowOps
    BY DEF FlowOps
  <1>2. /\ TypeOK /\ req[r] \in Flow /\ who \in Who /\ o \in OpenId /\ row \in Account
        /\ \A s \in Req \ {r} : o \notin req[s].holds
        /\ \/ \A s \in Req \ {r} : row.unionid \notin req[s].holds
           \/ Exists(o) /\ row.unionid = account[o].unionid
    BY <1>1, CommitLocks DEF IInv
  <1>3. /\ ~Exists(o) => row.link = None
        /\ Exists(o) => /\ row.link = account[o].link
                        /\ account[o].unionid # None => row.unionid # None
    BY <1>2, OpenedKeeps
  <1>4. u \in User /\ d \in Device
    BY <1>2 DEF IInv, Knowing, Flow
  <1>5. code' \in [User -> [Device -> Pending \cup {Absent}]] /\ Counted'
    <2>1. CASE code' = code
      BY <1>2, <2>1 DEF TypeOK, IInv, Counted
    <2>2. CASE /\ Comparable(u, d)
               /\ code' = [code EXCEPT ![u][d] = Missed(u, d)]
      <3>1. /\ code[u][d] \in Pending /\ code[u][d].attempts < MaxAttempts
            /\ code[u][d].tried = code[u][d].attempts
        BY <1>2, <1>4, <2>2 DEF Comparable, TypeOK, IInv, Counted
      <3>2. Missed(u, d) \in Pending /\ Missed(u, d).tried = Missed(u, d).attempts
        <4> DEFINE m == code[u][d]
        <4>1. /\ m.attempts + 1 \in 0..MaxAttempts /\ m.tried + 1 \in 0..(MaxAttempts + 1)
              /\ m.tried + 1 = m.attempts + 1
          BY <3>1, MiniProgramAssumption DEF Pending
        <4>2. Missed(u, d) = [m EXCEPT !.attempts = m.attempts + 1, !.tried = m.tried + 1]
          BY DEF Missed
        <4>3. m \in Pending
          BY <3>1
        <4> HIDE DEF m
        <4>4. QED
          BY <4>1, <4>2, <4>3 DEF Pending
      <3> HIDE DEF u, d
      <3>3. QED
        BY <1>2, <1>4, <2>2, <3>2 DEF TypeOK, IInv, Counted
    <2>3. QED
      BY <2>1, <2>2
  <1> HIDE DEF o, row
  <1>6. /\ account' = [account EXCEPT ![o] = row] /\ req' = [req EXCEPT ![r] = Idle]
        /\ UNCHANGED <<user, session>>
    BY DEF o, row
  <1>7. /\ account' \in [OpenId -> Account \cup {Absent}]
        /\ req' \in [Req -> {Idle} \cup Flow \cup Write]
        /\ Exclusive' /\ \A s \in Req : (Holding(s) /\ Knowing(s))'
    BY <1>2, <1>6, OthersKeep
  <1>8. TypeOK'
    BY <1>2, <1>5, <1>6, <1>7 DEF TypeOK
  <1>9. Mutual' /\ \A p \in OpenId : account'[p] = IF p = o THEN row ELSE account[p]
    BY <1>2, <1>3, <1>6, LinksKept
  <1>10. SessionFollowsLink'
    BY <1>2, <1>3, <1>6, <1>9, RowsExist DEF IInv, SessionFollowsLink, Active, Exists
  <1>11. QED
    BY <1>5, <1>7, <1>8, <1>9, <1>10 DEF IInv

\* A confirmation that links writes both halves, and the sessions.
LEMMA LinkingConfirmKeeps ==
    ASSUME IInv, NEW r \in Req, req[r].op = "confirm", req[r].phase = "commit",
           NEW who, who = req[r].who, NEW o, o = Found(who),
           NEW u, u = req[r].user, NEW d, d = req[r].device,
           Opened(who).link \in {None, u}, Linked(u) \ {o} = {},
           req' = [req EXCEPT ![r] = Idle],
           account' = [account EXCEPT ![o] = Confirmed(who, u)],
           user' = [user EXCEPT ![u].openid = who.openid],
           session' = [session EXCEPT ![o] = Relinked(o, u, d)],
           code' = [code EXCEPT ![u][d] = Absent]
    PROVE  IInv'
  <1> DEFINE row == Confirmed(who, u)
  <1>1. req[r].op \in FlowOps
    BY DEF FlowOps
  <1>2. /\ TypeOK /\ req[r] \in Flow /\ who \in Who /\ o \in OpenId /\ Opened(who) \in Account
        /\ \A s \in Req \ {r} : o \notin req[s].holds
        /\ \/ \A s \in Req \ {r} : Opened(who).unionid \notin req[s].holds
           \/ Exists(o) /\ Opened(who).unionid = account[o].unionid
    BY <1>1, CommitLocks DEF IInv
  <1>3. u \in User /\ d \in Device /\ who.openid \in OpenId
    BY <1>2 DEF IInv, Knowing, Flow, Who
  <1>4. /\ row \in Account /\ row.link = u /\ row.unionid = Opened(who).unionid
        /\ row # Absent
    BY <1>2, <1>3, RowsExist DEF Confirmed, Account, Choice
  <1> HIDE DEF row
  <1>5. account' = [account EXCEPT ![o] = row]
    BY DEF row
  <1>6. /\ account' \in [OpenId -> Account \cup {Absent}]
        /\ req' \in [Req -> {Idle} \cup Flow \cup Write]
        /\ Exclusive' /\ \A s \in Req : (Holding(s) /\ Knowing(s))'
    <2>1. \/ \A s \in Req \ {r} : row.unionid \notin req[s].holds
          \/ Exists(o) /\ row.unionid = account[o].unionid
      BY <1>2, <1>4
    <2>2. QED
      BY <1>2, <1>4, <1>5, <2>1, OthersKeep
  <1>7. Relinked(o, u, d) \in [Device -> User \cup {None, Absent}]
    BY <1>3 DEF Relinked
  <1>8. TypeOK' /\ Counted'
    <2>1. user' \in [User -> [openid: OpenId \cup {None}, entry: Entry \cup {None}]]
      BY <1>2, <1>3 DEF TypeOK
    <2>2. session' \in [OpenId -> [Device -> User \cup {None, Absent}]]
      BY <1>2, <1>7 DEF TypeOK
    <2>3. /\ code' \in [User -> [Device -> Pending \cup {Absent}]]
          /\ \A v \in User, e \in Device : code'[v][e] # Absent => code'[v][e] = code[v][e]
      BY <1>2, <1>3 DEF TypeOK
    <2>4. Counted'
      BY <2>3 DEF IInv, Counted
    <2>5. QED
      BY <1>6, <2>1, <2>2, <2>3, <2>4 DEF TypeOK
  <1>9. \A p \in OpenId : account'[p] = IF p = o THEN row ELSE account[p]
    BY <1>2, <1>5 DEF TypeOK
  <1>10. \A p \in OpenId, e \in Device :
            session'[p][e] = IF p # o THEN session[p][e]
                             ELSE IF e = d \/ session[o][e] # Absent THEN u ELSE Absent
    BY <1>2, <1>3 DEF TypeOK, Relinked
  <1>11. SessionFollowsLink'
    BY <1>2, <1>4, <1>9, <1>10, RowsExist DEF IInv, SessionFollowsLink, Active, Exists
  <1>12. Mutual'
    <2>1. SUFFICES ASSUME NEW v \in User
                   PROVE  /\ user'[v].openid = None => \A p \in OpenId : p \notin Linked(v)'
                          /\ user'[v].openid # None => \E p \in OpenId : p \in Linked(v)'
                          /\ \A p, q \in Linked(v)' : p = q
                          /\ \A p \in Linked(v)' :
                                user'[v].openid # p => account'[p].unionid # None
      BY DEF Mutual
    <2>2. CASE v = u
      <3>1. user'[u].openid = who.openid /\ who.openid # None
        BY <1>2, <1>3, MiniProgramAssumption DEF TypeOK
      <3>2. Linked(u)' = {o}
        BY <1>2, <1>4, <1>9 DEF Linked, Exists
      <3>3. who.openid # o => row.unionid # None
        <4>1. SUFFICES ASSUME who.openid # o PROVE row.unionid # None
          OBVIOUS
        <4>2. who.unionid # None /\ account[o].unionid = who.unionid
          BY <1>2, <4>1, FoundIsLocked
        <4>3. QED
          BY <1>2, <1>4, <4>2, OpenedKeeps
      <3>4. QED
        BY <1>2, <1>9, <2>2, <3>1, <3>2, <3>3
    <2>3. CASE v # u
      <3>1. user'[v] = user[v]
        BY <1>2, <1>3, <2>3 DEF TypeOK
      <3>2. o \notin Linked(v)
        BY <1>2, <2>3, OpenedKeeps, MiniProgramAssumption DEF Linked
      <3>3. Linked(v)' = Linked(v)
        BY <1>2, <1>4, <1>9, <2>3, <3>2 DEF Linked, Exists
      <3>4. \A p \in Linked(v) : account'[p] = account[p]
        BY <1>9, <3>2 DEF Linked
      <3>5. QED
        BY <3>1, <3>3, <3>4 DEF IInv, Mutual
    <2>4. QED
      BY <2>2, <2>3
  <1>13. QED
    BY <1>6, <1>8, <1>11, <1>12 DEF IInv

LEMMA ConfirmKeeps ==
    ASSUME IInv, NEW r \in Req, CommitConfirm(r)
    PROVE  IInv'
  <1>1. req[r].op = "confirm" /\ req[r].phase = "commit"
    BY DEF CommitConfirm, Committing, InPhase
  <1> DEFINE who == req[r].who
             o == Found(who)
             u == req[r].user
             d == req[r].device
  <1>2. CASE Roll(r)
    BY <1>2, RollKeeps
  <1>3. CASE /\ req' = [req EXCEPT ![r] = Idle]
             /\ account' = [account EXCEPT ![o] = Opened(who)]
             /\ UNCHANGED <<user, session>>
             /\ \/ code' = code
                \/ Comparable(u, d) /\ code' = [code EXCEPT ![u][d] = Missed(u, d)]
    BY <1>1, <1>3, RefusedConfirmKeeps
  <1>4. CASE /\ Opened(who).link \in {None, u} /\ Linked(u) \ {o} = {}
             /\ req' = [req EXCEPT ![r] = Idle]
             /\ account' = [account EXCEPT ![o] = Confirmed(who, u)]
             /\ user' = [user EXCEPT ![u].openid = who.openid]
             /\ session' = [session EXCEPT ![o] = Relinked(o, u, d)]
             /\ code' = [code EXCEPT ![u][d] = Absent]
    BY <1>1, <1>4, LinkingConfirmKeeps
  <1>5. QED
    BY <1>2, <1>3, <1>4 DEF CommitConfirm, Ends

LEMMA NextIInv == ASSUME IInv, [Next]_vars PROVE IInv'
  <1>1. CASE UNCHANGED vars
    BY <1>1 DEF IInv, vars, TypeOK, Exclusive, Holding, Knowing, AccountRows, Matched, Exists,
                Mutual, Linked, SessionFollowsLink, Active, Counted
  <1>2. ASSUME NEW r \in Req,
               \/ SignIn(r) \/ Confirm(r) \/ Unlink(r) \/ Follow(r) \/ Choose(r)
               \/ LockAccount(r) \/ LockUser(r)
               \/ CommitSignIn(r) \/ CommitConfirm(r) \/ CommitUnlink(r) \/ CommitWrite(r)
        PROVE  IInv'
    BY <1>2, BeginKeeps, WriteBeginKeeps, LockKeeps, SignInKeeps, ConfirmKeeps, UnlinkKeeps,
       WriteCommitKeeps
  <1>3. CASE StartEmailBinding \/ CodeExpires \/ RevokeSession \/ WebEntry
    BY <1>3, OutsideKeeps
  <1>4. QED
    BY <1>1, <1>2, <1>3 DEF Next

-----------------------------------------------------------------------------
(* What a step may write to an account.                                    *)

\* A confirmation ends in this step that had the code pending for user u,
\* which it consumes.
ByCode(u) ==
    \E r \in Req, d \in Device :
        /\ req[r] # Idle /\ req'[r] = Idle /\ req[r].op = "confirm"
        /\ code[u][d] # Absent /\ req[r].guess = code[u][d].code
        /\ code'[u][d] = Absent

\* A choice ends in this step.
ByChoice == \E r \in Req : req[r].op = "choose" /\ req'[r] = Idle

\* One row at most is written; its link is kept, undone, or made with a code;
\* its choice is kept with what it was made for, cleared, or chosen.
OneRow ==
    \E o \in OpenId, row \in Account :
        /\ account' = [account EXCEPT ![o] = row]
        /\ \A u \in User : user'[u].entry = user[u].entry
        /\ \/ row.link = None
           \/ Exists(o) /\ row.link = account[o].link
           \/ row.link \in User /\ ByCode(row.link)
        /\ \/ row.choice = NoChoice
           \/ /\ Exists(o) /\ row.link = account[o].link
              /\ row.follow = account[o].follow /\ row.choice = account[o].choice
           \/ ByChoice

LEMMA StepWritesOneRow == ASSUME IInv, Next PROVE account' = account \/ OneRow
  <1>1. CASE StartEmailBinding \/ CodeExpires \/ RevokeSession \/ WebEntry
    BY <1>1 DEF StartEmailBinding, CodeExpires, RevokeSession, WebEntry
  <1>2. ASSUME NEW r \in Req,
               \/ SignIn(r) \/ Confirm(r) \/ Unlink(r) \/ Follow(r) \/ Choose(r)
               \/ LockAccount(r) \/ LockUser(r)
        PROVE  account' = account
    BY <1>2 DEF SignIn, Confirm, Unlink, Follow, Choose, LockAccount, LockUser, Hold, Roll,
                BeginFlow, Begin, Tables
  <1>3. ASSUME NEW who \in Who, account' = [account EXCEPT ![Found(who)] = Opened(who)],
               user' = user
        PROVE  OneRow
    <2>1. Found(who) \in OpenId /\ Opened(who) \in Account
      BY <1>3, FoundIsLocked, OpenedKeeps DEF IInv
    <2>2. /\ Exists(Found(who)) => /\ Opened(who).link = account[Found(who)].link
                                   /\ Opened(who).follow = account[Found(who)].follow
                                   /\ Opened(who).choice = account[Found(who)].choice
          /\ ~Exists(Found(who)) => Opened(who).link = None /\ Opened(who).choice = NoChoice
      BY OpenedKeeps DEF IInv
    <2>3. QED
      BY <1>3, <2>1, <2>2 DEF OneRow
  <1>4. ASSUME NEW r \in Req, CommitSignIn(r) PROVE account' = account \/ OneRow
    <2>1. req[r].who \in Who
      BY <1>4, CommitLocks DEF CommitSignIn, Committing, InPhase, FlowOps
    <2>2. QED
      BY <1>3, <1>4, <2>1, SignInKeepsLink DEF Roll
  <1>5. ASSUME NEW r \in Req, CommitConfirm(r) PROVE account' = account \/ OneRow
    <2> DEFINE who == req[r].who
               o == Found(who)
               u == req[r].user
               d == req[r].device
    <2>1. req[r].op = "confirm" /\ req[r].phase = "commit" /\ req[r].op \in FlowOps
      BY <1>5 DEF CommitConfirm, Committing, InPhase, FlowOps
    <2>2. /\ TypeOK /\ who \in Who /\ o \in OpenId /\ Opened(who) \in Account
          /\ u \in User /\ d \in Device
      BY <2>1, CommitLocks DEF IInv, Knowing, Flow
    <2>3. CASE account' = [account EXCEPT ![o] = Opened(who)] /\ user' = user
      BY <1>3, <2>2, <2>3
    <2>4. CASE /\ Comparable(u, d) /\ req[r].guess = code[u][d].code
               /\ req' = [req EXCEPT ![r] = Idle]
               /\ account' = [account EXCEPT ![o] = Confirmed(who, u)]
               /\ user' = [user EXCEPT ![u].openid = who.openid]
               /\ code' = [code EXCEPT ![u][d] = Absent]
      <3>1. Confirmed(who, u) \in Account /\ Confirmed(who, u).link = u
                /\ Confirmed(who, u).choice = NoChoice
        BY <2>2 DEF Confirmed, Account, Choice
      <3>2. \A v \in User : user'[v].entry = user[v].entry
        BY <2>2, <2>4 DEF TypeOK
      <3>3. ByCode(u)
        <4> HIDE DEF u, d
        <4>1. req'[r] = Idle /\ code'[u][d] = Absent /\ code[u][d] # Absent
          BY <2>2, <2>4 DEF TypeOK, Comparable
        <4>2. req[r] # Idle
          BY <2>1 DEF Idle
        <4>3. QED
          BY <2>1, <2>2, <2>4, <4>1, <4>2 DEF ByCode
      <3>4. QED
        BY <2>2, <2>4, <3>1, <3>2, <3>3 DEF OneRow
    <2>5. QED
      BY <1>5, <2>3, <2>4 DEF CommitConfirm, Roll, Ends
  <1>6. ASSUME NEW r \in Req, CommitUnlink(r) PROVE OneRow
    <2> DEFINE o == req[r].who.openid
               u == req[r].user
               row == [account[o] EXCEPT !.link = None, !.choice = NoChoice]
    <2>1. req[r].op = "unlink" /\ req[r].phase = "commit" /\ req[r].op \in FlowOps
      BY <1>6 DEF CommitUnlink, Committing, InPhase, FlowOps
    <2>2. TypeOK /\ o \in OpenId /\ u \in User \cup {None} /\ account[o] \in Account
      BY <2>1, CommitLocks DEF IInv, Knowing, TypeOK, Exists, Flow, Who
    <2>3. row \in Account /\ row.link = None /\ row.choice = NoChoice
      BY <2>2 DEF Account, Choice
    <2>4. account' = [account EXCEPT ![o].link = None, ![o].choice = NoChoice]
      BY <1>6 DEF CommitUnlink
    <2>5. account' = [account EXCEPT ![o] = row]
      BY <2>2, <2>4 DEF TypeOK
    <2>6. user' = IF u = None THEN user ELSE [user EXCEPT ![u].openid = None]
      BY <1>6 DEF CommitUnlink
    <2>7. \A v \in User : user'[v].entry = user[v].entry
      BY <2>2, <2>6 DEF TypeOK
    <2>8. QED
      BY <2>2, <2>3, <2>5, <2>7 DEF OneRow
  <1>7. ASSUME NEW r \in Req, CommitWrite(r) PROVE OneRow
    <2> DEFINE o == req[r].account
               row == IF req[r].op = "follow"
                      THEN [account[o] EXCEPT !.follow = req[r].value, !.choice = NoChoice]
                      ELSE [account[o] EXCEPT !.choice = req[r].value]
    <2>1. TypeOK /\ Exists(o) /\ o \in OpenId
      BY <1>7, RequestType DEF IInv, Knowing, CommitWrite
    <2>2. account[o] \in Account
      BY <2>1 DEF TypeOK, Exists
    <2>3. /\ row \in Account /\ row.link = account[o].link
          /\ req[r].op = "follow" => row.choice = NoChoice
      BY <1>7, <2>1, <2>2, RequestType DEF CommitWrite, Account, Choice
    <2>4. account' = [account EXCEPT ![o] = row] /\ user' = user
      BY <1>7 DEF CommitWrite
    <2>5. req[r].op = "choose" => ByChoice
      BY <1>7, <2>1 DEF CommitWrite, Ends, ByChoice, TypeOK
    <2>6. req[r].op \in {"follow", "choose"}
      BY <1>7 DEF CommitWrite
    <2> HIDE DEF row
    <2>7. QED
      BY <2>1, <2>3, <2>4, <2>5, <2>6 DEF OneRow
  <1>8. QED
    BY <1>1, <1>2, <1>4, <1>5, <1>6, <1>7 DEF Next

LEMMA StepLinksByCode == ASSUME IInv, Next PROVE LinksByCode
  <1>1. SUFFICES ASSUME NEW o \in OpenId, NEW u \in User,
                        Exists(o)' /\ account'[o].link = u,
                        ~(Exists(o) /\ account[o].link = u)
                 PROVE  ByCode(u)
    BY DEF LinksByCode, ByCode
  <1>2. ~(account' = account)
    BY <1>1 DEF Exists
  <1>3. PICK p \in OpenId, row \in Account :
            /\ account' = [account EXCEPT ![p] = row]
            /\ \/ row.link = None
               \/ Exists(p) /\ row.link = account[p].link
               \/ row.link \in User /\ ByCode(row.link)
    BY <1>2, StepWritesOneRow DEF OneRow
  <1>4. p = o /\ row.link = u
    BY <1>1, <1>3 DEF IInv, TypeOK, Exists
  <1>5. QED
    BY <1>1, <1>3, <1>4, MiniProgramAssumption

LEMMA StepTurnsByChoice == ASSUME IInv, Next PROVE TurnsByChoice
  <1>1. SUFFICES ASSUME NEW o \in OpenId, PrefersWeb(o)', ~PrefersWeb(o), account' # account,
                        ~ByChoice
                 PROVE  FALSE
    BY DEF TurnsByChoice, ByChoice
  <1>2. PICK p \in OpenId, row \in Account :
            /\ account' = [account EXCEPT ![p] = row]
            /\ \A u \in User : user'[u].entry = user[u].entry
            /\ \/ row.choice = NoChoice
               \/ /\ Exists(p) /\ row.link = account[p].link
                  /\ row.follow = account[p].follow /\ row.choice = account[p].choice
    BY <1>1, StepWritesOneRow DEF OneRow
  <1>3. TypeOK /\ account' \in [OpenId -> Account \cup {Absent}]
    BY <1>2 DEF IInv, TypeOK
  <1>4. /\ account'[o] # Absent /\ account'[o].link # None /\ account'[o].follow # None
        /\ account'[o].choice.mini = account'[o].follow
    BY <1>1 DEF PrefersWeb, Exists
  <1>5. account'[o] \in Account /\ account'[o].link \in User
    BY <1>3, <1>4 DEF Account
  <1>6. CASE o = p
    <2>1. account'[o] = row
      BY <1>2, <1>3, <1>6 DEF TypeOK
    <2>2. row.choice # NoChoice
      BY <1>4, <2>1 DEF NoChoice
    <2>3. QED
      BY <1>1, <1>2, <1>5, <1>6, <2>1, <2>2 DEF PrefersWeb, Exists
  <1>7. CASE o # p
    <2>1. account'[o] = account[o]
      BY <1>2, <1>3, <1>7 DEF TypeOK
    <2>2. QED
      BY <1>1, <1>2, <1>5, <2>1 DEF PrefersWeb, Exists
  <1>8. QED
    BY <1>6, <1>7

-----------------------------------------------------------------------------
(* What the invariant gives.                                               *)

LEMMA MutualIsLinkIsMutual == ASSUME IInv PROVE LinkIsMutual
  <1>1. SUFFICES ASSUME NEW u \in User
                 PROVE  Cardinality(Linked(u)) = (IF user[u].openid = None THEN 0 ELSE 1)
    BY DEF IInv, Mutual, LinkIsMutual
  <1>2. Linked(u) \subseteq OpenId
    BY DEF Linked
  <1>3. CASE user[u].openid = None
    <2>1. Linked(u) = {}
      BY <1>2, <1>3 DEF IInv, Mutual
    <2>2. QED
      BY <1>3, <2>1, FS_EmptySet
  <1>4. CASE user[u].openid # None
    <2>1. PICK o \in OpenId : Linked(u) = {o}
      BY <1>4 DEF IInv, Mutual
    <2>2. QED
      BY <1>4, <2>1, FS_Singleton
  <1>5. QED
    BY <1>3, <1>4

LEMMA CountedIsBounded == ASSUME IInv PROVE GuessesBounded
  <1>1. SUFFICES ASSUME NEW u \in User, NEW d \in Device, code[u][d] # Absent
                 PROVE  code[u][d].tried <= MaxAttempts
    BY DEF GuessesBounded
  <1>2. code[u][d] \in Pending /\ code[u][d].tried = code[u][d].attempts
    BY <1>1 DEF IInv, TypeOK, Counted
  <1>3. QED
    BY <1>2, MiniProgramAssumption DEF Pending

\* Who waits for a user holds no user, who waits for an account holds nothing:
\* of any requests, one that has come furthest waits for none of the others.
LEMMA OrderedLocks == ASSUME IInv PROVE NoDeadlock
  <1>1. SUFFICES ASSUME NEW S \in SUBSET Req, S # {}
                 PROVE  \E r \in S : \A s \in S \ {r} : Awaited(r) \cap req[s].holds = {}
    BY DEF NoDeadlock
  <1>2. TypeOK /\ \A r \in Req : Holding(r)
    BY DEF IInv
  <1>3. CASE \E r \in S : InPhase(r, "commit")
    <2>1. PICK r \in S : InPhase(r, "commit")
      BY <1>3
    <2>2. Awaited(r) = {}
      BY <2>1 DEF Awaited, InPhase
    <2>3. QED
      BY <2>2
  <1>4. CASE (\E r \in S : InPhase(r, "user")) /\ ~(\E r \in S : InPhase(r, "commit"))
    <2>1. PICK r \in S : InPhase(r, "user")
      BY <1>4
    <2>2. Awaited(r) = {req[r].user} /\ req[r].user \in User
      BY <1>2, <2>1, RequestType DEF Awaited, InPhase, Holding, Flow, FlowOps
    <2>3. ASSUME NEW s \in S PROVE req[r].user \notin req[s].holds
      <3>1. CASE req[s].op \in FlowOps
        <4>1. req[s].phase \in {"account", "user"}
          BY <1>2, <1>4, <3>1, RequestType DEF InPhase, Flow, FlowOps
        <4>2. req[s].holds \subseteq OpenId \cup UnionId
          BY <1>2, <3>1, <4>1 DEF Holding
        <4>3. QED
          BY <2>2, <4>2, MiniProgramAssumption
      <3>2. CASE req[s].op \notin FlowOps
        BY <1>2, <3>2, RequestType
      <3>3. QED
        BY <3>1, <3>2
    <2>4. QED
      BY <2>2, <2>3
  <1>5. CASE ~(\E r \in S : InPhase(r, "user")) /\ ~(\E r \in S : InPhase(r, "commit"))
    <2>1. ASSUME NEW s \in S PROVE req[s].holds = {}
      <3>1. CASE req[s].op \in FlowOps
        <4>1. req[s].phase = "account"
          BY <1>2, <1>5, <3>1, RequestType DEF InPhase, Flow, FlowOps
        <4>2. QED
          BY <1>2, <3>1, <4>1 DEF Holding
      <3>2. CASE req[s].op \notin FlowOps
        BY <1>2, <3>2, RequestType
      <3>3. QED
        BY <3>1, <3>2
    <2>2. QED
      BY <1>1, <2>1
  <1>6. QED
    BY <1>3, <1>4, <1>5

-----------------------------------------------------------------------------
(* The refinement of AccountLink.                                          *)

\* A code is pending for one user on one device: StartEmailBinding mails a
\* new one, and every other step keeps a pending code or removes it.
OneUse ==
    \A u, v \in User, d, e \in Device :
        code[u][d] # Absent /\ code[v][e] # Absent /\ code[u][d].code = code[v][e].code
            => u = v /\ d = e

LinkInv == IInv /\ OneUse

\* What a step may do to the codes: nothing, or change one of them.
Compared == \E u \in User, d \in Device :
    Comparable(u, d) /\ code' = [code EXCEPT ![u][d] = Missed(u, d)]
Removed == \E u \in User, d \in Device :
    code[u][d] # Absent /\ code' = [code EXCEPT ![u][d] = Absent]
NewCode(u, d, c) ==
    /\ \A v \in User, e \in Device : code[v][e] # Absent => code[v][e].code # c
    /\ code' = [code EXCEPT ![u][d] = [code |-> c, attempts |-> 0, tried |-> 0]]

\* A row that is written keeps the link that the account had.
RowKept ==
    \E o \in OpenId, row \in Account :
        /\ account' = [account EXCEPT ![o] = row]
        /\ row.link = Partner[o]

\* A confirmation links an account and a user that are both free, or linked
\* to each other, and uses up the code of one device.
Confirms ==
    \E o \in OpenId, row \in Account, d \in Device :
        /\ account' = [account EXCEPT ![o] = row]
        /\ row.link \in User
        /\ Partner[o] \in {None, row.link} /\ Linked(row.link) \ {o} = {}
        /\ code[row.link][d] # Absent
        /\ code' = [code EXCEPT ![row.link][d] = Absent]

Unlinks ==
    \E o \in OpenId, row \in Account :
        /\ account' = [account EXCEPT ![o] = row]
        /\ row.link = None /\ code' = code

Mails == \E u \in User, d \in Device, c \in Code : NewCode(u, d, c) /\ account' = account

\* What a step does to the links and the codes.
LEMMA StepOfLinks ==
    ASSUME IInv, [Next]_vars
    PROVE  \/ (account' = account \/ RowKept) /\ (code' = code \/ Compared)
           \/ account' = account /\ Removed
           \/ Mails
           \/ Confirms
           \/ Unlinks
  <1>1. CASE UNCHANGED vars
    BY <1>1 DEF vars
  <1>2. CASE StartEmailBinding
    BY <1>2 DEF StartEmailBinding, Mails, NewCode
  <1>3. CASE CodeExpires
    BY <1>3 DEF CodeExpires, Removed
  <1>4. CASE RevokeSession \/ WebEntry
    BY <1>4 DEF RevokeSession, WebEntry
  <1>5. ASSUME NEW r \in Req,
               \/ SignIn(r) \/ Confirm(r) \/ Unlink(r) \/ Follow(r) \/ Choose(r)
               \/ LockAccount(r) \/ LockUser(r)
        PROVE  account' = account /\ code' = code
    BY <1>5 DEF SignIn, Confirm, Unlink, Follow, Choose, LockAccount, LockUser, Hold, Roll,
                BeginFlow, Begin, Tables
  <1>6. ASSUME NEW who \in Who, account' = [account EXCEPT ![Found(who)] = Opened(who)]
        PROVE  RowKept
    <2>1. Found(who) \in OpenId /\ Opened(who) \in Account
      BY <1>6, FoundIsLocked, OpenedKeeps DEF IInv
    <2>2. Opened(who).link = Partner[Found(who)]
      BY <2>1, OpenedKeeps DEF IInv, Partner
    <2>3. QED
      BY <1>6, <2>1, <2>2 DEF RowKept
  <1>7. ASSUME NEW r \in Req, CommitSignIn(r)
        PROVE  (account' = account \/ RowKept) /\ code' = code
    <2>1. req[r].who \in Who
      BY <1>7, CommitLocks DEF CommitSignIn, Committing, InPhase, FlowOps
    <2>2. QED
      BY <1>6, <1>7, <2>1, SignInKeepsLink DEF Roll
  <1>8. ASSUME NEW r \in Req, CommitConfirm(r)
        PROVE  \/ (account' = account \/ RowKept) /\ (code' = code \/ Compared)
               \/ Confirms
    <2> DEFINE who == req[r].who
               o == Found(who)
               u == req[r].user
               d == req[r].device
    <2>1. req[r].op = "confirm" /\ req[r].phase = "commit" /\ req[r].op \in FlowOps
      BY <1>8 DEF CommitConfirm, Committing, InPhase, FlowOps
    <2>2. /\ TypeOK /\ who \in Who /\ o \in OpenId /\ Opened(who) \in Account
          /\ u \in User /\ d \in Device
      BY <2>1, CommitLocks DEF IInv, Knowing, Flow
    <2>3. CASE Roll(r)
      BY <2>3 DEF Roll
    <2>4. CASE /\ account' = [account EXCEPT ![o] = Opened(who)]
               /\ \/ code' = code
                  \/ Comparable(u, d) /\ code' = [code EXCEPT ![u][d] = Missed(u, d)]
      <3>1. RowKept
        BY <1>6, <2>2, <2>4
      <3> HIDE DEF u, d
      <3>2. code' = code \/ Compared
        BY <2>2, <2>4 DEF Compared
      <3>3. QED
        BY <3>1, <3>2
    <2>5. CASE /\ Comparable(u, d)
               /\ Opened(who).link \in {None, u} /\ Linked(u) \ {o} = {}
               /\ account' = [account EXCEPT ![o] = Confirmed(who, u)]
               /\ code' = [code EXCEPT ![u][d] = Absent]
      <3>1. Confirmed(who, u) \in Account /\ Confirmed(who, u).link = u
        BY <2>2 DEF Confirmed, Account, Choice
      <3>2. Partner[o] = Opened(who).link
        BY <2>2, OpenedKeeps DEF Partner
      <3> DEFINE row == Confirmed(who, u)
      <3>3. code[u][d] # Absent
        BY <2>5 DEF Comparable
      <3> HIDE DEF u, d, o, row
      <3>4. /\ account' = [account EXCEPT ![o] = row] /\ row \in Account /\ row.link = u
            /\ Partner[o] \in {None, u}
        BY <2>5, <3>1, <3>2 DEF row
      <3>5. QED
        BY <2>2, <2>5, <3>3, <3>4 DEF Confirms
    <2>6. QED
      BY <1>8, <2>3, <2>4, <2>5 DEF CommitConfirm
  <1>9. ASSUME NEW r \in Req, CommitUnlink(r) PROVE Unlinks
    <2> DEFINE o == req[r].who.openid
               row == [account[o] EXCEPT !.link = None, !.choice = NoChoice]
    <2>1. req[r].op = "unlink" /\ req[r].phase = "commit" /\ req[r].op \in FlowOps
      BY <1>9 DEF CommitUnlink, Committing, InPhase, FlowOps
    <2>2. TypeOK /\ o \in OpenId /\ account[o] \in Account
      BY <2>1, CommitLocks DEF IInv, Knowing, TypeOK, Exists, Flow, Who
    <2>3. row \in Account /\ row.link = None
      BY <2>2 DEF Account, Choice
    <2>4. account' = [account EXCEPT ![o].link = None, ![o].choice = NoChoice] /\ code' = code
      BY <1>9 DEF CommitUnlink
    <2>5. account' = [account EXCEPT ![o] = row]
      BY <2>2, <2>4 DEF TypeOK
    <2>6. QED
      BY <2>2, <2>3, <2>4, <2>5 DEF Unlinks
  <1>10. ASSUME NEW r \in Req, CommitWrite(r) PROVE RowKept /\ code' = code
    <2> DEFINE o == req[r].account
               row == IF req[r].op = "follow"
                      THEN [account[o] EXCEPT !.follow = req[r].value, !.choice = NoChoice]
                      ELSE [account[o] EXCEPT !.choice = req[r].value]
    <2>1. TypeOK /\ Exists(o) /\ o \in OpenId
      BY <1>10, RequestType DEF IInv, Knowing, CommitWrite
    <2>2. account[o] \in Account
      BY <2>1 DEF TypeOK, Exists
    <2>3. row \in Account /\ row.link = Partner[o]
      BY <1>10, <2>1, <2>2, RequestType DEF CommitWrite, Account, Choice, Partner
    <2>4. account' = [account EXCEPT ![o] = row] /\ code' = code
      BY <1>10 DEF CommitWrite
    <2> HIDE DEF row
    <2>5. QED
      BY <2>1, <2>3, <2>4 DEF RowKept
  <1>11. QED
    BY <1>1, <1>2, <1>3, <1>4, <1>5, <1>7, <1>8, <1>9, <1>10 DEF Next

\* A wrong guess leaves the code what it is.
LEMMA MissedKeepsCode ==
    ASSUME IInv, NEW u \in User, NEW d \in Device, Comparable(u, d)
    PROVE  /\ code[u][d] # Absent
           /\ Missed(u, d) # Absent /\ Missed(u, d).code = code[u][d].code
  <1> DEFINE m == code[u][d]
  <1>1. m \in Pending /\ m # Absent /\ m.attempts < MaxAttempts /\ m.tried = m.attempts
    BY DEF IInv, TypeOK, Counted, Comparable
  <1>2. m.attempts + 1 \in 0..MaxAttempts /\ m.tried + 1 \in 0..(MaxAttempts + 1)
    BY <1>1, MiniProgramAssumption DEF Pending
  <1>3. Missed(u, d) = [m EXCEPT !.attempts = m.attempts + 1, !.tried = m.tried + 1]
    BY DEF Missed
  <1> HIDE DEF m
  <1>4. Missed(u, d) \in Pending /\ Missed(u, d).code = m.code
    BY <1>1, <1>2, <1>3 DEF Pending
  <1>5. QED
    BY <1>1, <1>4, RowsExist DEF m

LEMMA NextOneUse == ASSUME LinkInv, [Next]_vars PROVE OneUse'
  <1>1. CASE code' = code
    BY <1>1 DEF LinkInv, OneUse
  <1>2. ASSUME NEW u \in User, NEW d \in Device, NEW value,
               code' = [code EXCEPT ![u][d] = value],
               \/ value = Absent
               \/ code[u][d] # Absent /\ value.code = code[u][d].code
               \/ \A v \in User, e \in Device : code[v][e] # Absent => code[v][e].code # value.code
        PROVE  OneUse'
    <2>1. \A v \in User, e \in Device :
                code'[v][e] = IF v = u /\ e = d THEN value ELSE code[v][e]
      BY <1>2 DEF LinkInv, IInv, TypeOK
    <2>2. QED
      BY <1>2, <2>1 DEF LinkInv, OneUse
  <1>3. CASE Compared
    <2>1. PICK u \in User, d \in Device :
            Comparable(u, d) /\ code' = [code EXCEPT ![u][d] = Missed(u, d)]
      BY <1>3 DEF Compared
    <2>2. code[u][d] # Absent /\ Missed(u, d).code = code[u][d].code
      BY <2>1, MissedKeepsCode DEF LinkInv
    <2>3. QED
      BY <1>2, <2>1, <2>2
  <1>4. CASE Removed \/ Confirms
    BY <1>2, <1>4 DEF Removed, Confirms
  <1>5. CASE Mails
    BY <1>2, <1>5 DEF Mails, NewCode
  <1>6. CASE Unlinks
    BY <1>1, <1>6 DEF Unlinks
  <1>7. QED
    BY <1>1, <1>3, <1>4, <1>5, <1>6, StepOfLinks DEF LinkInv

\* The codes of the other users stay, and those of u change with the one.
LEMMA UsableAfter ==
    ASSUME LinkInv, NEW u \in User, NEW d \in Device, NEW value,
           code' = [code EXCEPT ![u][d] = value]
    PROVE  /\ value = Absent /\ code[u][d] # Absent =>
                Usable' = [Usable EXCEPT ![u] = @ \ {code[u][d].code}]
           /\ code[u][d] # Absent /\ value # Absent /\ value.code = code[u][d].code =>
                Usable' = Usable
           /\ value # Absent => \E kept \in SUBSET Usable[u] :
                Usable' = [Usable EXCEPT ![u] = kept \cup {value.code}]
  <1> DEFINE Codes(v) == {code[v][e].code : e \in {f \in Device : code[v][f] # Absent}}
             Codes2(v) == {code'[v][e].code : e \in {f \in Device : code'[v][f] # Absent}}
  <1>1. \A v \in User, e \in Device :
            code'[v][e] = IF v = u /\ e = d THEN value ELSE code[v][e]
    BY DEF LinkInv, IInv, TypeOK
  <1>2. Usable = [v \in User |-> Codes(v)] /\ Usable' = [v \in User |-> Codes2(v)]
    BY DEF Usable
  <1>3. \A v \in User : v # u => Codes2(v) = Codes(v)
    BY <1>1
  <1>4. ASSUME value = Absent, code[u][d] # Absent
        PROVE  Codes2(u) = Codes(u) \ {code[u][d].code}
    <2>1. \A e \in Device : e # d /\ code[u][e] # Absent => code[u][e].code # code[u][d].code
      BY <1>4 DEF LinkInv, OneUse
    <2>2. QED
      BY <1>1, <1>4, <2>1
  <1>5. ASSUME code[u][d] # Absent, value # Absent, value.code = code[u][d].code
        PROVE  Codes2(u) = Codes(u)
    BY <1>1, <1>5
  <1> DEFINE Kept == {code[u][e].code : e \in {f \in Device : code[u][f] # Absent /\ f # d}}
  <1>6. Kept \subseteq Codes(u)
    OBVIOUS
  <1>7. ASSUME value # Absent PROVE Codes2(u) = Kept \cup {value.code}
    BY <1>1, <1>7
  <1> HIDE DEF Codes, Codes2, Kept
  <1>8. \A S : Codes2(u) = S => Usable' = [Usable EXCEPT ![u] = S]
    BY <1>2, <1>3
  <1>9. Usable[u] = Codes(u) /\ Usable = [Usable EXCEPT ![u] = Codes(u)]
    BY <1>2
  <1>10. ASSUME value = Absent, code[u][d] # Absent
         PROVE  Usable' = [Usable EXCEPT ![u] = @ \ {code[u][d].code}]
    <2>1. Usable' = [Usable EXCEPT ![u] = Codes(u) \ {code[u][d].code}]
      BY <1>4, <1>8, <1>10
    <2>2. QED
      BY <1>9, <2>1
  <1>11. ASSUME code[u][d] # Absent, value # Absent, value.code = code[u][d].code
         PROVE  Usable' = Usable
    BY <1>5, <1>8, <1>9, <1>11
  <1>12. ASSUME value # Absent
         PROVE  \E kept \in SUBSET Usable[u] :
                    Usable' = [Usable EXCEPT ![u] = kept \cup {value.code}]
    BY <1>6, <1>7, <1>8, <1>9, <1>12
  <1>13. QED
    BY <1>10, <1>11, <1>12

\* One row written changes the link of that account to the row's.
LEMMA PartnerAfter ==
    ASSUME TypeOK, NEW o \in OpenId, NEW row \in Account,
           account' = [account EXCEPT ![o] = row]
    PROVE  Partner' = [Partner EXCEPT ![o] = row.link]
  <1>1. \A p \in OpenId : account'[p] = IF p = o THEN row ELSE account[p]
    BY DEF TypeOK
  <1>2. row # Absent
    BY RowsExist
  <1>3. \A p \in OpenId : Partner'[p] = IF p = o THEN row.link ELSE Partner[p]
    BY <1>1, <1>2 DEF Partner, Exists
  <1>4. QED
    BY <1>3 DEF Partner

\* The links of the initial states are the migrated ones, without codes.
LEMMA InitOfLinks == ASSUME Init PROVE OneUse /\ Contract!LinkInit
  <1>1. IInv
    BY InitIInv
  <1>2. code = [u \in User |-> [d \in Device |-> Absent]]
    BY DEF Init
  <1>3. Usable = [u \in User |-> {}]
    BY <1>2 DEF Usable
  <1>4. Partner \in [OpenId -> User \cup {None}]
    BY <1>1 DEF IInv, TypeOK, Account, Exists, Partner
  <1>5. \A o, p \in OpenId : Partner[o] = Partner[p] /\ Partner[o] # None => o = p
    BY <1>1, <1>4 DEF IInv, Mutual, Linked, Partner
  <1>6. QED
    BY <1>2, <1>3, <1>4, <1>5 DEF OneUse, Contract!LinkInit, Contract!OneToOne

\* Every step is a step of AccountLink, or invisible there.
LEMMA StepOfContract ==
    ASSUME LinkInv, [Next]_vars PROVE [Contract!LinkNext]_(Contract!linkVars)
  <1>0. IInv /\ TypeOK
    BY DEF LinkInv, IInv
  <1> SUFFICES Contract!LinkNext \/ UNCHANGED <<Partner, Usable>>
    BY DEF Contract!linkVars
  <1>1. account' = account => Partner' = Partner
    BY DEF Partner, Exists
  <1>2. code' = code => Usable' = Usable
    BY DEF Usable
  <1>3. Partner \in [OpenId -> User \cup {None}]
    BY <1>0 DEF TypeOK, Account, Exists, Partner
  <1>4. ASSUME RowKept PROVE Partner' = Partner
    <2>1. PICK o \in OpenId, row \in Account :
            account' = [account EXCEPT ![o] = row] /\ row.link = Partner[o]
      BY <1>4 DEF RowKept
    <2>2. Partner' = [Partner EXCEPT ![o] = row.link]
      BY <1>0, <2>1, PartnerAfter
    <2>3. QED
      BY <1>3, <2>1, <2>2
  <1>5. ASSUME Compared PROVE Usable' = Usable
    <2>1. PICK u \in User, d \in Device :
            Comparable(u, d) /\ code' = [code EXCEPT ![u][d] = Missed(u, d)]
      BY <1>5 DEF Compared
    <2>2. /\ code[u][d] # Absent
          /\ Missed(u, d) # Absent /\ Missed(u, d).code = code[u][d].code
      BY <1>0, <2>1, MissedKeepsCode
    <2>3. QED
      BY <2>1, <2>2, UsableAfter
  <1>6. ASSUME NEW u \in User, NEW d \in Device, code[u][d] # Absent, Partner' = Partner,
               code' = [code EXCEPT ![u][d] = Absent]
        PROVE  Contract!LinkNext
    <2>1. Usable' = [Usable EXCEPT ![u] = @ \ {code[u][d].code}]
      BY <1>6, UsableAfter
    <2>2. Contract!Lapse(u)
      BY <1>6, <2>1 DEF Contract!Lapse
    <2>3. QED
      BY <2>2 DEF Contract!LinkNext
  <1>7. CASE account' = account /\ Removed
    BY <1>1, <1>6, <1>7 DEF Removed
  <1>8. CASE Mails
    <2>1. PICK u \in User, d \in Device, c \in Code :
            NewCode(u, d, c) /\ account' = account
      BY <1>8 DEF Mails
    <2> DEFINE value == [code |-> c, attempts |-> 0, tried |-> 0]
    <2>2. value \in Pending /\ value # Absent /\ value.code = c
      <3>1. value \in Pending
        BY MiniProgramAssumption DEF Pending
      <3>2. QED
        BY <3>1, RowsExist
    <2>3. code' = [code EXCEPT ![u][d] = value]
      BY <2>1 DEF NewCode
    <2> HIDE DEF value
    <2>4. \E kept \in SUBSET Usable[u] : Usable' = [Usable EXCEPT ![u] = kept \cup {c}]
      BY <2>2, <2>3, UsableAfter
    <2>5. \A v \in User : c \notin Usable[v]
      BY <2>1 DEF NewCode, Usable
    <2>6. Contract!Mail(u, c)
      BY <1>1, <2>1, <2>4, <2>5 DEF Contract!Mail
    <2>7. QED
      BY <2>6 DEF Contract!LinkNext
  <1>9. CASE Confirms
    <2>1. PICK o \in OpenId, row \in Account, d \in Device :
            /\ account' = [account EXCEPT ![o] = row]
            /\ row.link \in User
            /\ Partner[o] \in {None, row.link} /\ Linked(row.link) \ {o} = {}
            /\ code[row.link][d] # Absent
            /\ code' = [code EXCEPT ![row.link][d] = Absent]
      BY <1>9 DEF Confirms
    <2> DEFINE u == row.link
    <2>2. Partner' = [Partner EXCEPT ![o] = u]
      BY <1>0, <2>1, PartnerAfter
    <2>3. CASE Partner[o] = u
      <3>1. Partner' = Partner
        BY <1>3, <2>2, <2>3
      <3>2. QED
        BY <1>6, <2>1, <3>1
    <2>4. CASE Partner[o] = None
      <3>1. u \in User /\ u # None
        BY <2>1, MiniProgramAssumption
      <3>2. \A p \in OpenId : Partner[p] # u
        <4>1. Linked(u) = {}
          BY <2>1, <2>4, <3>1 DEF Partner, Linked, Exists
        <4>2. QED
          BY <3>1, <4>1 DEF Partner, Linked
      <3>3. Usable' = [Usable EXCEPT ![u] = @ \ {code[u][d].code}]
        BY <2>1, UsableAfter
      <3>4. code[u][d].code \in Usable[u] /\ code[u][d].code \in Code
        BY <1>0, <2>1 DEF Usable, TypeOK, Pending
      <3>5. Contract!Link(o, u, code[u][d].code)
        BY <2>2, <2>4, <3>2, <3>3, <3>4 DEF Contract!Link
      <3>6. QED
        BY <2>1, <3>4, <3>5 DEF Contract!LinkNext
    <2>5. QED
      BY <2>1, <2>3, <2>4
  <1>10. CASE Unlinks
    <2>1. PICK o \in OpenId, row \in Account :
            /\ account' = [account EXCEPT ![o] = row]
            /\ row.link = None /\ code' = code
      BY <1>10 DEF Unlinks
    <2>2. Partner' = [Partner EXCEPT ![o] = None]
      BY <1>0, <2>1, PartnerAfter
    <2>3. Contract!Undo(o)
      BY <1>2, <2>1, <2>2 DEF Contract!Undo
    <2>4. QED
      BY <2>3 DEF Contract!LinkNext
  <1>11. QED
    BY <1>1, <1>2, <1>4, <1>5, <1>7, <1>8, <1>9, <1>10, <1>0, StepOfLinks

-----------------------------------------------------------------------------
(* Theorems.                                                               *)

\* The inductive invariant holds in every behaviour.
THEOREM Inductive == Spec => []IInv
  <1>1. Init => IInv
    BY InitIInv
  <1>2. IInv /\ [Next]_vars => IInv'
    BY NextIInv
  <1>3. QED
    BY <1>1, <1>2, PTL DEF Spec

\* A user has an openid exactly when one account is linked to it, however its
\* sign-ins, confirmations and unlinks overlap.
THEOREM LinkIsMutualHolds == Spec => []LinkIsMutual
  <1>1. IInv => LinkIsMutual
    BY MutualIsLinkIsMutual
  <1>2. QED
    BY <1>1, Inductive, PTL

\* Every active session carries the user its account is linked to.
THEOREM SessionFollowsLinkHolds == Spec => []SessionFollowsLink
  <1>1. IInv => SessionFollowsLink
    BY DEF IInv
  <1>2. QED
    BY <1>1, Inductive, PTL

\* No code is compared with more guesses than MAX_ATTEMPTS.
THEOREM GuessesBoundedHolds == Spec => []GuessesBounded
  <1>1. IInv => GuessesBounded
    BY CountedIsBounded
  <1>2. QED
    BY <1>1, Inductive, PTL

\* The account-then-user order leaves no requests waiting for each other, for
\* any number of requests.
THEOREM NoDeadlockHolds == Spec => []NoDeadlock
  <1>1. IInv => NoDeadlock
    BY OrderedLocks
  <1>2. QED
    BY <1>1, Inductive, PTL

\* A link appears only with the code pending for that user, which it consumes.
THEOREM LinkNeedsCodeHolds == Spec => LinkNeedsCode
  <1>1. IInv /\ [Next]_vars => [LinksByCode]_vars
    BY StepLinksByCode
  <1>2. QED
    BY <1>1, Inductive, PTL DEF Spec, LinkNeedsCode

\* Of the steps that write an account only a choice turns it to the Web team.
THEOREM OnlyAChoicePrefersWebHolds == Spec => OnlyAChoicePrefersWeb
  <1>1. IInv /\ [Next]_vars => [TurnsByChoice]_vars
    BY StepTurnsByChoice
  <1>2. QED
    BY <1>1, Inductive, PTL DEF Spec, OnlyAChoicePrefersWeb
\* The overlapping transactions implement AccountLink: a link is made in one
\* step, between two sides that are free, by using up a code mailed to that
\* user, and ends only when it is undone.
THEOREM Refinement == Spec => KeepsContract
  <1>1. Init => OneUse /\ Contract!LinkInit
    BY InitOfLinks
  <1>2. LinkInv /\ [Next]_vars => LinkInv'
    BY NextIInv, NextOneUse DEF LinkInv
  <1>3. LinkInv /\ [Next]_vars => [Contract!LinkNext]_(Contract!linkVars)
    BY StepOfContract
  <1>4. Init => LinkInv
    BY <1>1, InitIInv DEF LinkInv
  <1>5. QED
    BY <1>1, <1>2, <1>3, <1>4, PTL DEF Spec, KeepsContract, Contract!LinkSpec
=============================================================================
