------------------------- MODULE MCMechanismsProofs -------------------------
(***************************************************************************)
(* Proofs about parts of MCMechanisms, for any constants: the circuit with *)
(* any number of batches, any threshold and any time it stays open beyond  *)
(* one batch; the cooldown with any requests that overlap in any way and   *)
(* whatever time to wait their failures ask for; the bindings, from the    *)
(* lemmas of FplBindingProofs; the desk with any players; the              *)
(* substitutions of any squad.  A step of a part keeps the invariant of    *)
(* that part, and no step leaves its part.                                 *)
(***************************************************************************)
EXTENDS MCMechanisms, Sequences, FiniteSetTheorems, TLAPS

-----------------------------------------------------------------------------
(* The circuit.                                                            *)

CircuitTypes ==
    /\ now \in Nat /\ consecutiveFailures \in Nat /\ openedUntil \in Nat
    /\ halfOpen \in BOOLEAN
    /\ deadline \in [Batch -> Nat \cup {None}]

\* No batch is late, nor is one asked to be quicker than the unit of time.
InTime == \A b \in Circuit!UnderWay : now <= deadline[b] /\ deadline[b] <= now + 1

\* A half-open circuit has one batch under way, its probe, and its time is up.
OneProbe == halfOpen => /\ openedUntil > 0 /\ openedUntil <= now
                        /\ \E b \in Batch : Circuit!UnderWay = {b}

\* Whatever was under way when the circuit opened ends before its time is up.
Outlived ==
    openedUntil > 0 /\ ~halfOpen => \A b \in Circuit!UnderWay : deadline[b] < openedUntil

CircuitIInv == CircuitTypes /\ InTime /\ OneProbe /\ Outlived

LEMMA CircuitInitIInv == Circuit!Init => CircuitIInv
<1> SUFFICES ASSUME Circuit!Init PROVE CircuitIInv
  OBVIOUS
<1>1. CircuitTypes
  BY DEF Circuit!Init, CircuitTypes
<1>2. Circuit!UnderWay = {}
  BY DEF Circuit!Init, Circuit!UnderWay
<1> QED
  BY <1>1, <1>2 DEF Circuit!Init, CircuitIInv, InTime, OneProbe, Outlived

\* A batch begins when the circuit is closed, or as the only one when its time is up.
LEMMA CircuitBegin ==
    ASSUME Circuit!CircuitAssumption, CircuitIInv, NEW b \in Batch, Circuit!Begin(b)
    PROVE  CircuitIInv'
<1> USE DEF CircuitIInv, Circuit!CircuitAssumption
<1>1. CircuitTypes'
  <2>1. halfOpen' \in BOOLEAN
    BY DEF CircuitTypes, Circuit!Begin
  <2>2. deadline' \in [Batch -> Nat \cup {None}]
    BY DEF CircuitTypes, Circuit!Begin
  <2> QED
    BY <2>1, <2>2 DEF CircuitTypes, Circuit!Begin
<1>2. /\ Circuit!UnderWay' = Circuit!UnderWay \cup {b}
      /\ \A c \in Circuit!UnderWay : deadline'[c] = deadline[c]
  BY DEF CircuitTypes, Circuit!Begin, Circuit!UnderWay
<1>3. deadline'[b] = now + 1 /\ now' = now /\ openedUntil' = openedUntil
  BY DEF CircuitTypes, Circuit!Begin
<1>4. InTime'
  BY <1>2, <1>3 DEF CircuitTypes, InTime
<1>5. CASE openedUntil = 0
  BY <1>1, <1>3, <1>4, <1>5 DEF Circuit!Begin, CircuitTypes, OneProbe, Outlived
<1>6. CASE openedUntil > 0
  <2>1. ~halfOpen /\ halfOpen'
    BY <1>6 DEF Circuit!Begin
  <2>2. Circuit!UnderWay = {}
    BY <1>6, <2>1 DEF Circuit!Begin, CircuitTypes, InTime, Outlived, Circuit!UnderWay
  <2>3. Circuit!UnderWay' = {b}
    BY <1>2, <2>2
  <2>4. openedUntil <= now
    BY DEF Circuit!Begin
  <2>5. OneProbe'
    BY <1>3, <1>6, <2>3, <2>4 DEF OneProbe
  <2> QED
    BY <1>1, <1>4, <2>1, <2>5 DEF Outlived
<1> QED
  BY <1>5, <1>6 DEF CircuitTypes

\* What an answer does to the batches under way.
LEMMA CircuitLeaves ==
    ASSUME CircuitTypes, NEW b \in Batch, deadline' = [deadline EXCEPT ![b] = None],
           None \notin Nat
    PROVE  /\ Circuit!UnderWay' = Circuit!UnderWay \ {b}
           /\ \A c \in Circuit!UnderWay' : deadline'[c] = deadline[c]
BY DEF CircuitTypes, Circuit!UnderWay

\* An answer that comes closes the circuit, whatever it was.
LEMMA CircuitSucceed ==
    ASSUME Circuit!CircuitAssumption, CircuitIInv, NEW b \in Batch, Circuit!Succeed(b)
    PROVE  CircuitIInv'
<1> USE DEF CircuitIInv, Circuit!CircuitAssumption
<1>1. CircuitTypes'
  BY DEF CircuitTypes, Circuit!Succeed
<1>2. /\ Circuit!UnderWay' = Circuit!UnderWay \ {b}
      /\ \A c \in Circuit!UnderWay' : deadline'[c] = deadline[c]
  BY CircuitLeaves DEF Circuit!Succeed
<1>3. InTime'
  BY <1>2 DEF InTime, Circuit!Succeed
<1> QED
  BY <1>1, <1>3 DEF OneProbe, Outlived, Circuit!Succeed, CircuitTypes

\* A failure opens the circuit for longer than any batch under way lasts, and the
\* failure of a probe leaves nothing under way.
LEMMA CircuitFail ==
    ASSUME Circuit!CircuitAssumption, CircuitIInv, NEW b \in Batch, Circuit!Fail(b)
    PROVE  CircuitIInv'
<1> USE DEF CircuitIInv, Circuit!CircuitAssumption
<1> DEFINE opens == halfOpen \/ consecutiveFailures + 1 >= Threshold
<1>1. CircuitTypes'
  BY DEF CircuitTypes, Circuit!Fail, Circuit!HalfOpenAfter
<1>2. /\ Circuit!UnderWay' = Circuit!UnderWay \ {b}
      /\ \A c \in Circuit!UnderWay' : deadline'[c] = deadline[c]
  BY CircuitLeaves DEF Circuit!Fail
<1>3. InTime'
  BY <1>2 DEF InTime, Circuit!Fail
<1>4. ~halfOpen'
  BY DEF Circuit!Fail, Circuit!HalfOpenAfter
<1>5. Outlived'
  <2>1. CASE opens
    <3>1. openedUntil' = now + OpenFor
      BY <2>1 DEF Circuit!Fail
    <3>2. \A c \in Circuit!UnderWay' : deadline[c] \in Nat /\ deadline[c] <= now + 1
      BY <1>2 DEF InTime, CircuitTypes, Circuit!UnderWay
    <3> QED
      BY <1>2, <3>1, <3>2 DEF Outlived, CircuitTypes
  <2>2. CASE ~opens
    BY <1>2, <2>2 DEF Circuit!Fail, Outlived
  <2> QED
    BY <2>1, <2>2
<1> QED
  BY <1>1, <1>3, <1>4, <1>5 DEF OneProbe

LEMMA CircuitTick == ASSUME CircuitIInv, Circuit!Tick PROVE CircuitIInv'
<1> USE DEF CircuitIInv
<1>1. Circuit!UnderWay' = Circuit!UnderWay
  BY DEF Circuit!Tick, Circuit!UnderWay
<1>2. now' = now + 1 /\ \A b \in Circuit!UnderWay : deadline[b] > now
  BY DEF Circuit!Tick
<1>3. \A b \in Circuit!UnderWay : deadline[b] \in Nat
  BY DEF CircuitTypes, Circuit!UnderWay
<1>4. CircuitTypes'
  BY DEF Circuit!Tick, CircuitTypes
<1>5. InTime'
  BY <1>1, <1>2, <1>3 DEF Circuit!Tick, CircuitTypes, InTime
<1>6. OneProbe' /\ Outlived'
  BY <1>1, <1>2 DEF Circuit!Tick, CircuitTypes, OneProbe, Outlived
<1> QED
  BY <1>4, <1>5, <1>6

\* The invariant is inductive.
LEMMA CircuitNextIInv ==
    ASSUME Circuit!CircuitAssumption, CircuitIInv, [Circuit!Next]_(Circuit!vars)
    PROVE  CircuitIInv'
<1>1. ASSUME NEW b \in Batch, Circuit!Begin(b) PROVE CircuitIInv'
  BY <1>1, CircuitBegin
<1>2. ASSUME NEW b \in Batch, Circuit!Succeed(b) PROVE CircuitIInv'
  BY <1>2, CircuitSucceed
<1>3. ASSUME NEW b \in Batch, Circuit!Fail(b) PROVE CircuitIInv'
  BY <1>3, CircuitFail
<1>4. CASE Circuit!Tick
  BY <1>4, CircuitTick
<1>5. CASE UNCHANGED Circuit!vars
  BY <1>5 DEF Circuit!vars, CircuitIInv, CircuitTypes, InTime, OneProbe, Outlived, Circuit!UnderWay
<1> QED
  BY <1>1, <1>2, <1>3, <1>4, <1>5 DEF Circuit!Next

\* What was under way when the circuit opened has ended when its time is up.
LEMMA CircuitProbesAlone ==
    ASSUME Circuit!CircuitAssumption, CircuitIInv PROVE Circuit!ProbesAlone
<1>1. \A b \in Circuit!UnderWay : deadline[b] \in Nat
  BY DEF CircuitIInv, CircuitTypes, Circuit!UnderWay, Circuit!CircuitAssumption
<1> QED
  BY <1>1 DEF CircuitIInv, CircuitTypes, InTime, OneProbe, Outlived, Circuit!ProbesAlone

CircuitPart == part = "circuit" => CircuitIInv

LEMMA CircuitInit == Init => CircuitPart
<1> SUFFICES ASSUME Init, part = "circuit" PROVE CircuitIInv
  BY DEF CircuitPart
<1>1. Circuit!Init
  BY DEF Init
<1> QED
  BY <1>1, CircuitInitIInv

LEMMA CircuitNext == CircuitPart /\ [Next]_all => CircuitPart'
<1> SUFFICES ASSUME CircuitPart, [Next]_all, part' = "circuit" PROVE CircuitIInv'
  BY DEF CircuitPart
<1>1. part = "circuit" /\ [Circuit!Next]_(Circuit!vars)
  BY DEF Next, all, circuitVars, Circuit!vars, OfPrices, OfManage
<1> QED
  BY <1>1, ProofAssumptions, CircuitNextIInv DEF CircuitPart

\* The circuit of forwarded signals probes alone: of any batches under way, late
\* answers neither admit a second probe nor leave the circuit waiting for one
\* (lib/ops-client-signal-circuit.ts).
THEOREM ProbesAloneHolds == Spec => []ProbesAlone
<1>1. CircuitPart => ProbesAlone
  BY ProofAssumptions, CircuitProbesAlone DEF CircuitPart, ProbesAlone
<1> QED
  BY <1>1, CircuitInit, CircuitNext, PTL DEF Spec

-----------------------------------------------------------------------------
(* The cooldown.                                                           *)

CooldownTypes ==
    /\ now \in Nat /\ until \in Nat /\ failureAt \in Nat /\ failures \in 0..3
    /\ storage \in [works : BOOLEAN, until : Nat, failureAt : Nat]
    /\ began \in [Request -> Nat \cup {None}]
    /\ owed \subseteq [at : Nat, until : Nat]

\* The side that outlives what comes: the storage where it works, else memory.
KeptUntil == IF storage.works THEN storage.until ELSE until
KeptFailure == IF storage.works THEN storage.failureAt ELSE failureAt

\* It keeps what every failure asked for, and that there was a failure so late.
Kept == \A f \in owed : /\ f.until > now => KeptUntil >= f.until
                        /\ KeptFailure >= f.at

CooldownIInv == CooldownTypes /\ Kept

LEMMA CooldownLater ==
    ASSUME NEW a \in Nat, NEW b \in Nat
    PROVE  Cooldown!Later(a, b) \in Nat /\ Cooldown!Later(a, b) >= a /\ Cooldown!Later(a, b) >= b
BY DEF Cooldown!Later

\* What is read, of either side, is no earlier than what is kept.
LEMMA CooldownFence ==
    ASSUME CooldownTypes
    PROVE  /\ Cooldown!Fence \in Nat /\ Cooldown!Fence >= KeptUntil /\ KeptUntil \in Nat
           /\ Cooldown!LastFailure \in Nat /\ Cooldown!LastFailure >= KeptFailure
           /\ KeptFailure \in Nat
BY CooldownLater DEF CooldownTypes, Cooldown!Fence, Cooldown!LastFailure, KeptUntil, KeptFailure

LEMMA CooldownInitIInv == Cooldown!Init => CooldownIInv
BY DEF Cooldown!Init, CooldownIInv, CooldownTypes, Kept

\* A look at the fence leaves what is still ahead.
LEMMA CooldownLooks ==
    ASSUME CooldownIInv, Cooldown!Looks, UNCHANGED <<now, failureAt, failures, owed>>,
           began' \in [Request -> Nat \cup {None}]
    PROVE  CooldownIInv'
<1> USE DEF CooldownIInv
<1>1. Cooldown!Fence \in Nat /\ Cooldown!Fence >= KeptUntil /\ KeptUntil \in Nat
  BY CooldownFence
<1> DEFINE fence == IF Cooldown!Fence > now THEN Cooldown!Fence ELSE 0
<1>2. fence \in Nat /\ until' = fence
  BY <1>1 DEF Cooldown!Looks
<1>3. storage' = IF storage.works THEN [storage EXCEPT !.until = fence] ELSE storage
  BY <1>2 DEF Cooldown!Looks, Cooldown!Stored
<1>4. storage'.works = storage.works /\ storage'.failureAt = storage.failureAt
  BY <1>3 DEF CooldownTypes
<1>5. KeptUntil' = fence
  BY <1>2, <1>3 DEF CooldownTypes, KeptUntil
<1>6. KeptFailure' = KeptFailure
  BY <1>4 DEF KeptFailure
<1>7. CooldownTypes'
  BY <1>2, <1>3 DEF CooldownTypes
<1>8. Kept'
  <2> SUFFICES ASSUME NEW f \in owed
               PROVE  /\ f.until > now => fence >= f.until
                      /\ KeptFailure >= f.at
    BY <1>5, <1>6 DEF Kept
  <2>1. f.until \in Nat /\ now \in Nat
    BY DEF CooldownTypes
  <2> HIDE DEF CooldownIInv
  <2> QED
    BY <1>1, <2>1 DEF Kept, CooldownIInv
<1> QED
  BY <1>7, <1>8

\* A failure asks for a time of its own, and never for less than before.
LEMMA CooldownFail ==
    ASSUME Cooldown!CooldownAssumption, CooldownIInv, NEW r \in Request,
           NEW after \in RetryAfter \cup {None}, Cooldown!Fail(r, after)
    PROVE  CooldownIInv'
<1> DEFINE n == IF failures < 3 THEN failures + 1 ELSE 3
           asked == now + IF after = None THEN Cooldown!Backoff(n) ELSE after
           fence == Cooldown!Extended(asked)
           at == Cooldown!Later(Cooldown!LastFailure, now)
           ahead == IF fence > now THEN fence ELSE 0
<1>1. n \in 0..3 /\ now \in Nat
  BY DEF CooldownIInv, CooldownTypes
<1>2. asked \in Nat
  BY <1>1 DEF Cooldown!CooldownAssumption, Cooldown!Backoff, Cooldown!MaxBackoff
<1>3. Cooldown!Fence \in Nat /\ Cooldown!Fence >= KeptUntil /\ KeptUntil \in Nat
      /\ Cooldown!LastFailure \in Nat /\ Cooldown!LastFailure >= KeptFailure /\ KeptFailure \in Nat
  BY CooldownFence DEF CooldownIInv
<1>4. fence \in Nat /\ fence >= Cooldown!Fence /\ fence >= asked
  BY <1>2, <1>3, CooldownLater DEF Cooldown!Extended
<1>5. at \in Nat /\ at >= Cooldown!LastFailure /\ at >= now
  BY <1>1, <1>3, CooldownLater
<1>6. /\ failures' = n /\ until' = ahead /\ failureAt' = at /\ now' = now
      /\ storage' = IF storage.works
                    THEN [storage EXCEPT !.until = ahead, !.failureAt = at] ELSE storage
      /\ owed' = owed \cup {[at |-> now, until |-> asked]}
      /\ began' = began \/ began' = [began EXCEPT ![r] = None]
  BY DEF Cooldown!Fail, Cooldown!Ends
<1> HIDE DEF n, asked, fence, at
<1>7. CooldownTypes'
  <2>1. ahead \in Nat
    BY <1>1, <1>4
  <2>2. storage' \in [works : BOOLEAN, until : Nat, failureAt : Nat]
    BY <1>5, <1>6, <2>1 DEF CooldownIInv, CooldownTypes
  <2>3. began' \in [Request -> Nat \cup {None}]
    BY <1>6 DEF CooldownIInv, CooldownTypes
  <2>4. owed' \subseteq [at : Nat, until : Nat]
    BY <1>1, <1>2, <1>6 DEF CooldownIInv, CooldownTypes
  <2> HIDE DEF ahead
  <2> QED
    BY <1>1, <1>5, <1>6, <2>1, <2>2, <2>3, <2>4 DEF CooldownTypes
<1>8. KeptUntil' = ahead /\ KeptFailure' = at
  BY <1>6 DEF CooldownIInv, CooldownTypes, KeptUntil, KeptFailure
<1>9. Kept'
  <2> SUFFICES ASSUME NEW f \in owed'
               PROVE  (f.until > now => ahead >= f.until) /\ at >= f.at
    BY <1>6, <1>8 DEF Kept
  <2>1. CASE f \in owed
    <3>1. f.until \in Nat /\ f.at \in Nat
      BY <2>1 DEF CooldownIInv, CooldownTypes
    <3>2. (f.until > now => KeptUntil >= f.until) /\ KeptFailure >= f.at
      BY <2>1 DEF CooldownIInv, Kept
    <3> QED
      BY <1>1, <1>3, <1>4, <1>5, <3>1, <3>2
  <2>2. CASE f = [at |-> now, until |-> asked]
    BY <1>1, <1>2, <1>4, <1>5, <2>2
  <2> QED
    BY <1>6, <2>1, <2>2
<1> QED
  BY <1>7, <1>9 DEF CooldownIInv

\* A success clears the fence only when every failure that counts came before it.
LEMMA CooldownSucceed ==
    ASSUME Cooldown!CooldownAssumption, CooldownIInv, NEW r \in Request, Cooldown!Succeed(r)
    PROVE  CooldownIInv'
<1>1. began[r] \in Nat
  BY DEF Cooldown!Succeed, Cooldown!Sent, CooldownIInv, CooldownTypes
<1>2. owed' = {f \in owed : f.at > began[r]} /\ now' = now
  BY DEF Cooldown!Succeed
<1>3. CASE Cooldown!LastFailure > began[r]
  <2>1. UNCHANGED <<until, failureAt, failures, storage>>
    BY <1>3 DEF Cooldown!Succeed
  <2>2. CooldownTypes'
    BY <1>2, <2>1 DEF Cooldown!Succeed, Cooldown!Ends, CooldownIInv, CooldownTypes
  <2>3. KeptUntil' = KeptUntil /\ KeptFailure' = KeptFailure
    BY <2>1 DEF KeptUntil, KeptFailure
  <2> QED
    BY <1>2, <2>2, <2>3 DEF CooldownIInv, Kept
<1>4. CASE ~(Cooldown!LastFailure > began[r])
  <2>1. CooldownTypes'
    <3>1. storage' \in [works : BOOLEAN, until : Nat, failureAt : Nat]
      <4>1. storage' = IF storage.works
                       THEN [storage EXCEPT !.until = 0, !.failureAt = 0] ELSE storage
        BY <1>4 DEF Cooldown!Succeed
      <4>2. storage \in [works : BOOLEAN, until : Nat, failureAt : Nat]
        BY DEF CooldownIInv, CooldownTypes
      <4> QED
        BY <4>1, <4>2
    <3>2. began' \in [Request -> Nat \cup {None}]
      BY DEF Cooldown!Succeed, Cooldown!Ends, CooldownIInv, CooldownTypes
    <3>3. owed' \subseteq [at : Nat, until : Nat]
      BY <1>2 DEF CooldownIInv, CooldownTypes
    <3>4. until' = 0 /\ failureAt' = 0 /\ failures' = 0 /\ now' \in Nat
      BY <1>4 DEF Cooldown!Succeed, CooldownIInv, CooldownTypes
    <3> QED
      BY <3>1, <3>2, <3>3, <3>4 DEF CooldownTypes
  <2>2. \A f \in owed : f.at \in Nat /\ KeptFailure >= f.at
    BY DEF CooldownIInv, CooldownTypes, Kept
  <2>3. Cooldown!LastFailure \in Nat /\ Cooldown!LastFailure >= KeptFailure /\ KeptFailure \in Nat
    BY CooldownFence DEF CooldownIInv
  <2>4. owed' = {}
    BY <1>1, <1>2, <1>4, <2>2, <2>3
  <2> QED
    BY <2>1, <2>4 DEF CooldownIInv, Kept
<1> QED
  BY <1>3, <1>4

\* A reload leaves the storage.
LEMMA CooldownReload == ASSUME CooldownIInv, Cooldown!Reload PROVE CooldownIInv'
<1>1. CooldownTypes'
  BY DEF Cooldown!Reload, CooldownIInv, CooldownTypes
<1>2. CASE storage.works
  BY <1>1, <1>2 DEF Cooldown!Reload, CooldownIInv, Kept, KeptUntil, KeptFailure
<1>3. CASE ~storage.works
  BY <1>1, <1>3 DEF Cooldown!Reload, CooldownIInv, Kept
<1> QED
  BY <1>2, <1>3

LEMMA CooldownTick == ASSUME CooldownIInv, Cooldown!Tick PROVE CooldownIInv'
<1>1. CooldownTypes'
  BY DEF Cooldown!Tick, CooldownIInv, CooldownTypes
<1>2. KeptUntil' = KeptUntil /\ KeptFailure' = KeptFailure
  BY DEF Cooldown!Tick, KeptUntil, KeptFailure
<1>3. \A f \in owed' : f \in owed /\ f.until \in Nat /\ (f.until > now' => f.until > now)
  BY DEF Cooldown!Tick, CooldownIInv, CooldownTypes
<1> QED
  BY <1>1, <1>2, <1>3 DEF CooldownIInv, Kept

\* The invariant is inductive.
LEMMA CooldownNextIInv ==
    ASSUME Cooldown!CooldownAssumption, CooldownIInv, [Cooldown!Next]_(Cooldown!vars)
    PROVE  CooldownIInv'
<1>1. ASSUME NEW r \in Request, Cooldown!Begin(r) PROVE CooldownIInv'
  <2>1. began' \in [Request -> Nat \cup {None}]
    BY <1>1 DEF Cooldown!Begin, CooldownIInv, CooldownTypes
  <2> QED
    BY <1>1, <2>1, CooldownLooks DEF Cooldown!Begin
<1>2. ASSUME NEW r \in Request, Cooldown!TryAgain(r) PROVE CooldownIInv'
  <2>1. began' \in [Request -> Nat \cup {None}]
    BY <1>2 DEF Cooldown!TryAgain, Cooldown!Ends, CooldownIInv, CooldownTypes
  <2> QED
    BY <1>2, <2>1, CooldownLooks DEF Cooldown!TryAgain
<1>3. ASSUME NEW r \in Request, Cooldown!Succeed(r) PROVE CooldownIInv'
  BY <1>3, CooldownSucceed
<1>4. ASSUME NEW r \in Request, Cooldown!Drop(r) PROVE CooldownIInv'
  BY <1>4 DEF Cooldown!Drop, Cooldown!Ends, CooldownIInv, CooldownTypes, Kept, KeptUntil,
               KeptFailure
<1>5. ASSUME NEW r \in Request, NEW after \in RetryAfter \cup {None}, Cooldown!Fail(r, after)
      PROVE  CooldownIInv'
  BY <1>5, CooldownFail
<1>6. CASE Cooldown!Read
  <2>1. began' \in [Request -> Nat \cup {None}]
    BY <1>6 DEF Cooldown!Read, CooldownIInv, CooldownTypes
  <2> QED
    BY <1>6, <2>1, CooldownLooks DEF Cooldown!Read
<1>7. CASE Cooldown!Reload
  BY <1>7, CooldownReload
<1>8. CASE Cooldown!Tick
  BY <1>8, CooldownTick
<1>9. CASE UNCHANGED Cooldown!vars
  BY <1>9 DEF Cooldown!vars, CooldownIInv, CooldownTypes, Kept, KeptUntil, KeptFailure
<1> QED
  BY <1>1, <1>2, <1>3, <1>4, <1>5, <1>6, <1>7, <1>8, <1>9 DEF Cooldown!Next

\* What is kept is no earlier than what is owed, and what is read than what is kept.
LEMMA CooldownHoldsOff == ASSUME CooldownIInv PROVE Cooldown!HoldsOff
<1> SUFFICES ASSUME NEW f \in owed, f.until > now PROVE Cooldown!Fence >= f.until
  BY DEF Cooldown!HoldsOff
<1>1. f.until \in Nat /\ KeptUntil >= f.until
  BY DEF CooldownIInv, CooldownTypes, Kept
<1> QED
  BY <1>1, CooldownFence DEF CooldownIInv

CooldownPart == part = "cooldown" => CooldownIInv

LEMMA CooldownInit == Init => CooldownPart
<1> SUFFICES ASSUME Init, part = "cooldown" PROVE CooldownIInv
  BY DEF CooldownPart
<1>1. Cooldown!Init
  BY DEF Init
<1> QED
  BY <1>1, CooldownInitIInv

LEMMA CooldownNext == CooldownPart /\ [Next]_all => CooldownPart'
<1> SUFFICES ASSUME CooldownPart, [Next]_all, part' = "cooldown" PROVE CooldownIInv'
  BY DEF CooldownPart
<1>1. part = "cooldown" /\ [Cooldown!Next]_(Cooldown!vars)
  BY DEF Next, all, cooldownVars, Cooldown!vars, OfPrices, OfManage
<1> QED
  BY <1>1, ProofAssumptions, CooldownNextIInv DEF CooldownPart

\* A failure holds any requests off for as long as it asked, until one that began after
\* it has succeeded (lib/dependency-cooldown.ts).
THEOREM HoldsOffHolds == Spec => []HoldsOff
<1>1. CooldownPart => HoldsOff
  BY CooldownHoldsOff DEF CooldownPart, HoldsOff
<1> QED
  BY <1>1, CooldownInit, CooldownNext, PTL DEF Spec

-----------------------------------------------------------------------------
(* The bindings.                                                           *)

NamesPart ==
    /\ part = "bound" => Bound!NInv
    /\ part = "rivals" => Rivals!NInv

LEMMA NamesInit == Init => NamesPart
<1> SUFFICES ASSUME Init PROVE NamesPart
  OBVIOUS
<1>1. ASSUME part = "bound" PROVE Bound!NInv
  <2>1. Bound!Init
    BY <1>1 DEF Init
  <2> QED
    BY <2>1, ProofAssumptions, Bound!InitNInv
<1>2. ASSUME part = "rivals" PROVE Rivals!NInv
  <2>1. Rivals!Init
    BY <1>2 DEF Init
  <2> QED
    BY <2>1, ProofAssumptions, Rivals!InitNInv
<1> QED
  BY <1>1, <1>2 DEF NamesPart

LEMMA NamesNext == NamesPart /\ [Next]_all => NamesPart'
<1> SUFFICES ASSUME NamesPart, [Next]_all PROVE NamesPart'
  OBVIOUS
<1>1. ASSUME part' = "bound" PROVE Bound!NInv'
  <2>1. part = "bound" /\ [Bound!Next]_(Bound!vars)
    BY <1>1 DEF Next, all, bindingVars, Bound!vars, OfPrices, OfManage
  <2>2. {"bind", "unlink", "refresh"} \subseteq Bound!CalledOps
    BY DEF Bound!CalledOps
  <2> QED
    BY <2>1, <2>2, ProofAssumptions, Bound!NextNInv DEF NamesPart
<1>2. ASSUME part' = "rivals" PROVE Rivals!NInv'
  <2>1. part = "rivals" /\ [Rivals!Next]_(Rivals!vars)
    BY <1>2 DEF Next, all, bindingVars, Rivals!vars, OfPrices, OfManage
  <2>2. {"bind", "unlink", "refresh"} \subseteq Rivals!CalledOps
    BY DEF Rivals!CalledOps
  <2> QED
    BY <2>1, <2>2, ProofAssumptions, Rivals!NextNInv DEF NamesPart
<1> QED
  BY <1>1, <1>2 DEF NamesPart

\* However any calls overlap, each name stays with its entry, in the row and in the
\* history, of one user with two entries and of two users with one
\* (lib/fpl-entry-binding.ts).
THEOREM NamesBelongHolds == Spec => []NamesBelong
<1>1. NamesPart => NamesBelong
  BY Bound!NInvNamesBelong, Rivals!NInvNamesBelong DEF NamesPart, NamesBelong
<1> QED
  BY <1>1, NamesInit, NamesNext, PTL DEF Spec

-----------------------------------------------------------------------------
(* The challenges.                                                         *)

ChallengePart ==
    /\ part = "challenged" => Challenged!CInv
    /\ part = "rechallenged" => Rechallenged!CInv

LEMMA ChallengeInit == Init => ChallengePart
<1> SUFFICES ASSUME Init PROVE ChallengePart
  OBVIOUS
<1>1. ASSUME part = "challenged" PROVE Challenged!CInv
  <2>1. Challenged!Init
    BY <1>1 DEF Init
  <2> QED
    BY <2>1, Challenged!InitCInv
<1>2. ASSUME part = "rechallenged" PROVE Rechallenged!CInv
  <2>1. Rechallenged!Init
    BY <1>2 DEF Init
  <2> QED
    BY <2>1, Rechallenged!InitCInv
<1> QED
  BY <1>1, <1>2 DEF ChallengePart

\* Which of the two a step is of.
LEMMA ChallengeStep ==
    ASSUME [Next]_all
    PROVE  /\ part' = part
           /\ part = "challenged" => [Challenged!Next]_(Challenged!vars)
           /\ part = "rechallenged" => [Rechallenged!Next]_(Rechallenged!vars)
<1>1. part' = part
  BY DEF Next, all, OfPrices, OfManage
<1>2. ASSUME part = "challenged" PROVE [Challenged!Next]_(Challenged!vars)
  BY <1>2 DEF Next, all, bindingVars, Challenged!vars, OfPrices, OfManage
<1>3. ASSUME part = "rechallenged" PROVE [Rechallenged!Next]_(Rechallenged!vars)
  BY <1>3 DEF Next, all, bindingVars, Rechallenged!vars, OfPrices, OfManage
<1> QED
  BY <1>1, <1>2, <1>3

LEMMA ChallengeNext == ChallengePart /\ [Next]_all => ChallengePart'
<1> SUFFICES ASSUME ChallengePart, [Next]_all PROVE ChallengePart'
  OBVIOUS
<1>1. ASSUME part' = "challenged" PROVE Challenged!CInv'
  BY <1>1, ChallengeStep, Challenged!NextCInv DEF ChallengePart
<1>2. ASSUME part' = "rechallenged" PROVE Rechallenged!CInv'
  BY <1>2, ChallengeStep, Rechallenged!NextCInv DEF ChallengePart
<1> QED
  BY <1>1, <1>2 DEF ChallengePart

\* Of all the confirmations that overlap, one binds only the newest challenge of its
\* user, in time and not yet used (confirmFplEntryBindingChallenge).
THEOREM LatestBindsHolds == Spec => LatestBinds
<1>1. ChallengePart /\ [Next]_all =>
        [/\ part = "challenged" => Challenged!BindsLatest
         /\ part = "rechallenged" => Rechallenged!BindsLatest]_all
  <2> SUFFICES ASSUME ChallengePart, [Next]_all
               PROVE  /\ part = "challenged" => Challenged!BindsLatest
                      /\ part = "rechallenged" => Rechallenged!BindsLatest
    OBVIOUS
  <2>1. ASSUME part = "challenged" PROVE Challenged!BindsLatest
    BY <2>1, ChallengeStep, Challenged!NextBindsLatest DEF ChallengePart
  <2>2. ASSUME part = "rechallenged" PROVE Rechallenged!BindsLatest
    BY <2>2, ChallengeStep, Rechallenged!NextBindsLatest DEF ChallengePart
  <2> QED
    BY <2>1, <2>2
<1> QED
  BY <1>1, ChallengeInit, ChallengeNext, PTL DEF Spec, LatestBinds

-----------------------------------------------------------------------------
(* The desk.                                                               *)

\* What is at a slot, and who waits for a request.
DeskLink == Player \cup {None}
DeskSlot == [selected : DeskLink, shown : DeskLink, recent : DeskLink, loaded : BOOLEAN,
             error : BOOLEAN, loading : BOOLEAN, version : Nat, asked : DeskLink]
DeskConsumer == [slot : Desk!Slot, player : DeskLink, version : Nat, live : BOOLEAN]

\* The types; nobody waits under a version that is still to come.
Table(f) == f = [k \in DOMAIN f |-> f[k]]
IsDesk(d) == d = [slot |-> d.slot, compare |-> d.compare, pending |-> d.pending,
                  cached |-> d.cached, changed |-> d.changed]
Placed(d) ==
    /\ IsDesk(d)
    /\ d.slot \in [Desk!Slot -> DeskSlot]
    /\ Table(d.pending)
    /\ \A k \in DOMAIN d.pending : \A c \in d.pending[k] :
          c \in DeskConsumer /\ c.version <= d.slot[c.slot].version

\* The requests for the overview that slot s still waits for.
WaitsAt(d, s, k, c) ==
    k.section = "overview" /\ c.slot = s /\ c.live /\ c.version = d.slot[s].version
Waited(d, s) == {k \in DOMAIN d.pending : \E c \in d.pending[k] : WaitsAt(d, s, k, c)}

\* A slot waits for whom it asked for, with one request.
AsksOnce(d, s) ==
    /\ \A k \in DOMAIN d.pending : \A c \in d.pending[k] :
          WaitsAt(d, s, k, c) => c.player = d.slot[s].asked
    /\ \A j, k \in Waited(d, s) : j = k
    /\ d.slot[s].version = 0 => d.slot[s].asked = None
Tells(d, s) ==
    /\ d.slot[s].loading <=> Waited(d, s) # {}
    /\ d.slot[s].asked # None /\ ~d.slot[s].loading /\ ~d.slot[s].error =>
          d.slot[s].shown = d.slot[s].asked

Asking(d) == Placed(d) /\ \A s \in Desk!Slot : AsksOnce(d, s)
Telling(d) == Asking(d) /\ \A s \in Desk!Slot : Tells(d, s)

DeskIInv == link \in [1..2 -> DeskLink] /\ Telling(desk)

LEMMA DeskSlots == Desk!Slot = {1, 2}
BY DEF Desk!Slot

\* A consumer leaves: what others wait for is as before.
LEMMA LeaveIs ==
    ASSUME NEW d, Asking(d), NEW s \in Desk!Slot, NEW sections, NEW e,
           e = Desk!Leave(d, s, sections)
    PROVE  /\ Asking(e) /\ e.slot = d.slot
           /\ \A t \in Desk!Slot :
                 t # s \/ "overview" \notin sections => Waited(e, t) = Waited(d, t)
           /\ "overview" \in sections => Waited(e, s) = {}
<1> DEFINE Gone(k, c) == IF c.slot = s /\ k.section \in sections
                         THEN [c EXCEPT !.live = FALSE] ELSE c
           without == [k \in DOMAIN d.pending |-> {Gone(k, c) : c \in d.pending[k]}]
           stays == {k \in DOMAIN without : \E c \in without[k] : c.live}
<1>1. e = [d EXCEPT !.pending = [k \in stays |-> without[k]]]
  BY DEF Desk!Leave
<1>2. /\ e.slot = d.slot /\ e.compare = d.compare /\ e.cached = d.cached /\ e.changed = d.changed
      /\ e.pending = [k \in stays |-> without[k]]
      /\ IsDesk(e)
  <2> HIDE DEF without, stays
  <2> QED
    BY <1>1 DEF Asking, Placed, IsDesk
<1>3. ASSUME NEW k \in DOMAIN d.pending, NEW c \in d.pending[k]
      PROVE  /\ Gone(k, c) \in DeskConsumer /\ Gone(k, c).slot = c.slot
             /\ Gone(k, c).player = c.player /\ Gone(k, c).version = c.version
             /\ Gone(k, c).live <=> c.live /\ ~(c.slot = s /\ k.section \in sections)
  BY DEF Asking, Placed, DeskConsumer
<1>4. /\ DOMAIN e.pending = stays /\ stays \subseteq DOMAIN d.pending
      /\ \A k \in stays : e.pending[k] = {Gone(k, c) : c \in d.pending[k]}
  BY <1>2
<1>5. Table(e.pending)
  <2> HIDE DEF without, stays
  <2> QED
    BY <1>2 DEF Table
<1>6. ASSUME NEW k \in DOMAIN e.pending, NEW c \in e.pending[k]
      PROVE  \E b \in d.pending[k] : c = Gone(k, b)
  <2> HIDE DEF Gone, without, stays
  <2>1. e.pending[k] = {Gone(k, b) : b \in d.pending[k]}
    BY <1>4
  <2> QED
    BY <1>6, <2>1
<1>7. ASSUME NEW k \in DOMAIN d.pending, NEW b \in d.pending[k], Gone(k, b).live
      PROVE  k \in DOMAIN e.pending /\ Gone(k, b) \in e.pending[k]
  <2>1. without[k] = {Gone(k, c) : c \in d.pending[k]} /\ DOMAIN without = DOMAIN d.pending
    OBVIOUS
  <2> HIDE DEF Gone, without
  <2>2. Gone(k, b) \in without[k]
    BY <2>1
  <2>3. k \in stays
    BY <1>7, <2>1, <2>2
  <2> QED
    BY <1>4, <2>3
<1> HIDE DEF Gone, without, stays
<1>8. Placed(e)
  BY <1>2, <1>3, <1>4, <1>5, <1>6 DEF Asking, Placed
<1>9. ASSUME NEW t \in Desk!Slot
      PROVE  Waited(e, t) = IF t = s /\ "overview" \in sections THEN {} ELSE Waited(d, t)
  <2>1. ASSUME NEW k \in Waited(e, t)
        PROVE  k \in Waited(d, t) /\ ~(t = s /\ "overview" \in sections)
    BY <1>2, <1>3, <1>4, <1>6, <2>1 DEF Waited, WaitsAt
  <2>2. ASSUME NEW k \in Waited(d, t), ~(t = s /\ "overview" \in sections)
        PROVE  k \in Waited(e, t)
    <3>1. PICK b \in d.pending[k] : WaitsAt(d, t, k, b)
      BY DEF Waited
    <3>2. k \in DOMAIN d.pending
      BY DEF Waited
    <3>3. Gone(k, b).live /\ WaitsAt(e, t, k, Gone(k, b))
      BY <1>2, <1>3, <2>2, <3>1, <3>2 DEF WaitsAt
    <3> QED
      BY <1>7, <3>2, <3>3 DEF Waited
  <2> QED
    BY <2>1, <2>2
<1>10. ASSUME NEW t \in Desk!Slot PROVE AsksOnce(e, t)
  <2>1. AsksOnce(d, t)
    BY DEF Asking
  <2>2. ASSUME NEW k \in DOMAIN e.pending, NEW c \in e.pending[k], WaitsAt(e, t, k, c)
        PROVE  c.player = e.slot[t].asked
    BY <1>2, <1>3, <1>4, <1>6, <2>1, <2>2 DEF AsksOnce, WaitsAt
  <2>3. \A j, k \in Waited(e, t) : j = k
    BY <1>9, <2>1 DEF AsksOnce
  <2> QED
    BY <1>2, <2>1, <2>2, <2>3 DEF AsksOnce
<1> QED
  BY <1>2, <1>8, <1>9, <1>10 DEF Asking

\* What some consumers hear: a slot that waited for an overview has its answer, and
\* evidence leaves what is shown alone.
Heard(d, e, k, consumers) ==
    /\ e = [slot |-> e.slot, compare |-> d.compare, pending |-> d.pending,
            cached |-> d.cached, changed |-> e.changed]
    /\ e.slot \in [Desk!Slot -> DeskSlot]
    /\ \A s \in Desk!Slot :
          /\ e.slot[s].version = d.slot[s].version /\ e.slot[s].asked = d.slot[s].asked
          /\ \/ e.slot[s].loading = d.slot[s].loading /\ e.slot[s].error = d.slot[s].error
                /\ e.slot[s].shown = d.slot[s].shown
                /\ \A c \in consumers : ~WaitsAt(d, s, k, c)
             \/ \E c \in consumers :
                   /\ WaitsAt(d, s, k, c)
                   /\ ~e.slot[s].loading
                   /\ e.slot[s].error \/ e.slot[s].shown = c.player

LEMMA ToldIs ==
    ASSUME NEW d, NEW k, NEW consumers, NEW found, Placed(d), consumers \subseteq DeskConsumer
    PROVE  Heard(d, Desk!Told(d, k, consumers, found), k, consumers)
<1> DEFINE e == Desk!Told(d, k, consumers, found)
           Of(s) == {c \in consumers : c.slot = s /\ Desk!Awaited(d, c)}
           The(s) == CHOOSE c \in Of(s) : TRUE
           After(s) == IF k.section = "overview"
                       THEN Desk!Overview(d.slot[s], The(s).player, found)
                       ELSE Desk!Evidence(d.slot[s], The(s).player, found)
           slots == [s \in Desk!Slot |-> IF Of(s) = {} THEN d.slot[s] ELSE After(s)]
           news == d.changed \/ \E s \in Desk!Slot : \E c \in Of(s) : c.player \in found
<1>1. e = [d EXCEPT !.slot = slots, !.changed = news]
  BY DEF Desk!Told
<1>2. /\ e = [slot |-> slots, compare |-> d.compare, pending |-> d.pending,
              cached |-> d.cached, changed |-> news]
  <2> HIDE DEF slots, news, e
  <2> QED
    BY <1>1 DEF Placed, IsDesk
<1>3. e.slot = slots /\ e = [slot |-> e.slot, compare |-> d.compare, pending |-> d.pending,
                             cached |-> d.cached, changed |-> e.changed]
  <2> HIDE DEF slots, news, e
  <2> QED
    BY <1>2
<1>4. ASSUME NEW s \in Desk!Slot
      PROVE  /\ slots[s] \in DeskSlot
             /\ slots[s].version = d.slot[s].version /\ slots[s].asked = d.slot[s].asked
             /\ \/ slots[s].loading = d.slot[s].loading /\ slots[s].error = d.slot[s].error
                   /\ slots[s].shown = d.slot[s].shown
                   /\ \A c \in consumers : ~WaitsAt(d, s, k, c)
                \/ \E c \in consumers :
                      /\ WaitsAt(d, s, k, c)
                      /\ ~slots[s].loading
                      /\ slots[s].error \/ slots[s].shown = c.player
  <2>1. d.slot[s] \in DeskSlot
    BY DEF Placed
  <2>2. \A c \in consumers : WaitsAt(d, s, k, c) => k.section = "overview" /\ c \in Of(s)
    BY DEF WaitsAt, Desk!Awaited
  <2>3. CASE Of(s) = {}
    <3>1. slots[s] = d.slot[s]
      BY <2>3
    <3>2. \A c \in consumers : ~WaitsAt(d, s, k, c)
      BY <2>2, <2>3
    <3> HIDE DEF slots, Of
    <3> QED
      BY <2>1, <3>1, <3>2
  <2>4. CASE Of(s) # {} /\ k.section = "overview"
    <3>1. The(s) \in Of(s)
      BY <2>4
    <3>2. slots[s] = Desk!Overview(d.slot[s], The(s).player, found)
      BY <2>4
    <3>3. The(s) \in consumers /\ The(s) \in DeskConsumer /\ WaitsAt(d, s, k, The(s))
      BY <2>4, <3>1 DEF WaitsAt, Desk!Awaited
    <3> HIDE DEF slots, The, Of
    <3>4. The(s).player \in DeskLink
      BY <3>3 DEF DeskConsumer
    <3>5. /\ slots[s] \in DeskSlot /\ ~slots[s].loading
          /\ slots[s].error \/ slots[s].shown = The(s).player
          /\ slots[s].version = d.slot[s].version /\ slots[s].asked = d.slot[s].asked
      BY <2>1, <3>2, <3>4 DEF DeskSlot, DeskLink, Desk!Overview
    <3> QED
      BY <3>3, <3>5
  <2>5. CASE Of(s) # {} /\ k.section # "overview"
    <3>1. The(s) \in Of(s)
      BY <2>5
    <3>2. slots[s] = Desk!Evidence(d.slot[s], The(s).player, found)
      BY <2>5
    <3>3. The(s) \in DeskConsumer
      BY <3>1
    <3>4. \A c \in consumers : ~WaitsAt(d, s, k, c)
      BY <2>2, <2>5
    <3> HIDE DEF slots, The, Of
    <3>5. The(s).player \in DeskLink
      BY <3>3 DEF DeskConsumer
    <3>6. /\ slots[s] \in DeskSlot /\ slots[s].version = d.slot[s].version
          /\ slots[s].asked = d.slot[s].asked /\ slots[s].loading = d.slot[s].loading
          /\ slots[s].error = d.slot[s].error /\ slots[s].shown = d.slot[s].shown
      BY <2>1, <3>2, <3>5 DEF DeskSlot, DeskLink, Desk!Evidence
    <3> QED
      BY <3>4, <3>6
  <2> QED
    BY <2>3, <2>4, <2>5
<1>5. e.slot \in [Desk!Slot -> DeskSlot]
  BY <1>3, <1>4
<1> HIDE DEF e, slots, news, Of, The
<1>6. Heard(d, e, k, consumers)
  BY <1>3, <1>4, <1>5 DEF Heard
<1> QED
  BY <1>6 DEF e

\* What is waited for, from who waits; the slot's version fences.
LEMMA SameWaits ==
    ASSUME NEW d, NEW e, NEW s, NEW k, NEW c, e.slot[s].version = d.slot[s].version
    PROVE  WaitsAt(e, s, k, c) <=> WaitsAt(d, s, k, c)
BY DEF WaitsAt

\* Request k has its answer, or is given up by a retry.
HasLeft(d, e, k) ==
    /\ Asking(e) /\ DOMAIN e.pending = DOMAIN d.pending \ {k}
    /\ \A s \in Desk!Slot :
          /\ e.slot[s].version = d.slot[s].version /\ e.slot[s].asked = d.slot[s].asked
          /\ Waited(e, s) = Waited(d, s) \ {k}
          /\ Tells(d, s) => Tells(e, s)
          /\ k \notin Waited(d, s) =>
                e.slot[s].loading = d.slot[s].loading /\ e.slot[s].error = d.slot[s].error

\* A consumer joins request k, which it may begin.
Joins(d, e, k, c) ==
    /\ IsDesk(e) /\ e.slot = d.slot
    /\ e.pending = Desk!With(d.pending, k,
          {c} \cup (IF k \in DOMAIN d.pending THEN d.pending[k] ELSE {}))
HasJoined(d, e, k, c) ==
    /\ Asking(e) /\ e.slot = d.slot
    /\ \A t \in Desk!Slot :
          Waited(e, t) = Waited(d, t) \cup IF WaitsAt(d, t, k, c) THEN {k} ELSE {}

\* Those who wait for a request hear of its answer.
LEMMA AnsweredIs ==
    ASSUME NEW d, Asking(d), NEW k \in DOMAIN d.pending, NEW found, NEW b, NEW e,
           IsDesk(b), b.slot = d.slot, b.pending = Desk!Without(d.pending, k),
           e = Desk!Told(b, k, d.pending[k], found)
    PROVE  HasLeft(d, e, k)
<1>1. b.slot = d.slot /\ b.pending = Desk!Without(d.pending, k) /\ IsDesk(b)
  OBVIOUS
<1>2. /\ DOMAIN b.pending = DOMAIN d.pending \ {k} /\ Table(b.pending)
      /\ \A j \in DOMAIN b.pending : b.pending[j] = d.pending[j]
  BY <1>1 DEF Desk!Without, Table
<1>3. Placed(b) /\ d.pending[k] \subseteq DeskConsumer
  BY <1>1, <1>2 DEF Asking, Placed
<1>4. Heard(b, e, k, d.pending[k])
  BY <1>3, ToldIs
<1>5. /\ IsDesk(e)
      /\ e.pending = b.pending /\ e.slot \in [Desk!Slot -> DeskSlot]
  BY <1>4 DEF Heard, IsDesk
<1>6. \A s \in Desk!Slot :
         e.slot[s].version = d.slot[s].version /\ e.slot[s].asked = d.slot[s].asked
  BY <1>1, <1>4 DEF Heard
<1>7. Placed(e)
  <2>1. \A j \in DOMAIN e.pending : \A c \in e.pending[j] :
            c \in DeskConsumer /\ c.version <= e.slot[c.slot].version
    BY <1>2, <1>3, <1>5, <1>6 DEF Asking, Placed, DeskConsumer
  <2> QED
    BY <1>2, <1>5, <2>1 DEF Placed
<1>8. ASSUME NEW s \in Desk!Slot PROVE Waited(e, s) = Waited(d, s) \ {k}
  BY <1>2, <1>5, <1>6, SameWaits DEF Waited
<1>9. ASSUME NEW s \in Desk!Slot PROVE AsksOnce(e, s)
  <2>1. AsksOnce(d, s)
    BY DEF Asking
  <2>2. ASSUME NEW j \in DOMAIN e.pending, NEW c \in e.pending[j], WaitsAt(e, s, j, c)
        PROVE  c.player = e.slot[s].asked
    BY <1>2, <1>5, <1>6, <2>1, <2>2, SameWaits DEF AsksOnce
  <2> QED
    BY <1>6, <1>8, <2>1, <2>2 DEF AsksOnce
<1>10. ASSUME NEW s \in Desk!Slot
       PROVE  /\ k \notin Waited(d, s) =>
                    /\ e.slot[s].loading = d.slot[s].loading
                    /\ e.slot[s].error = d.slot[s].error /\ e.slot[s].shown = d.slot[s].shown
              /\ k \in Waited(d, s) =>
                    /\ ~e.slot[s].loading
                    /\ e.slot[s].error \/ e.slot[s].shown = d.slot[s].asked
  <2>1. \A c \in d.pending[k] : WaitsAt(b, s, k, c) <=> WaitsAt(d, s, k, c)
    BY <1>1, SameWaits
  <2>2. \A c \in d.pending[k] : WaitsAt(d, s, k, c) =>
                                   k \in Waited(d, s) /\ c.player = d.slot[s].asked
    BY DEF Asking, AsksOnce, Waited
  <2>3. k \in Waited(d, s) => \E c \in d.pending[k] : WaitsAt(d, s, k, c)
    BY DEF Waited
  <2> QED
    BY <1>1, <1>4, <2>1, <2>2, <2>3 DEF Heard
<1>11. ASSUME NEW s \in Desk!Slot, Tells(d, s) PROVE Tells(e, s)
  <2>1. \A j \in Waited(d, s) : k \in Waited(d, s) => j = k
    BY DEF Asking, AsksOnce
  <2>2. k \in Waited(d, s) => Waited(e, s) = {}
    BY <1>8, <2>1
  <2>3. k \notin Waited(d, s) => Waited(e, s) = Waited(d, s)
    BY <1>8
  <2> QED
    BY <1>6, <1>10, <1>11, <2>2, <2>3 DEF Tells
<1> QED
  BY <1>2, <1>5, <1>6, <1>7, <1>8, <1>9, <1>10, <1>11 DEF Asking, HasLeft

\* A consumer joins a request that is under way, or begins one.
LEMMA JoinedIs ==
    ASSUME NEW d, Asking(d), NEW s \in Desk!Slot, NEW k, NEW c \in DeskConsumer, NEW e,
           c.slot = s, c.version <= d.slot[s].version,
           k.section = "overview" => c.player = d.slot[s].asked /\ Waited(d, s) = {},
           Joins(d, e, k, c)
    PROVE  HasJoined(d, e, k, c)
<1> DEFINE joined == {c} \cup (IF k \in DOMAIN d.pending THEN d.pending[k] ELSE {})
<1>1. e.slot = d.slot /\ e.pending = Desk!With(d.pending, k, joined) /\ IsDesk(e)
  BY DEF Joins
<1>2. /\ DOMAIN e.pending = DOMAIN d.pending \cup {k} /\ Table(e.pending)
      /\ \A j \in DOMAIN e.pending : e.pending[j] = IF j = k THEN joined ELSE d.pending[j]
  <2> HIDE DEF joined
  <2> QED
    BY <1>1 DEF Desk!With, Table
<1>3. \A j \in DOMAIN e.pending : \A b \in e.pending[j] :
          (b = c /\ j = k) \/ (j \in DOMAIN d.pending /\ b \in d.pending[j])
  <2>1. \A b \in joined : b = c \/ (k \in DOMAIN d.pending /\ b \in d.pending[k])
    OBVIOUS
  <2> HIDE DEF joined
  <2> QED
    BY <1>2, <2>1
<1>4. /\ \A j \in DOMAIN d.pending : \A b \in d.pending[j] :
             j \in DOMAIN e.pending /\ b \in e.pending[j]
      /\ k \in DOMAIN e.pending /\ c \in e.pending[k]
  BY <1>2
<1> HIDE DEF joined
<1>5. Placed(e)
  BY <1>1, <1>2, <1>3 DEF Asking, Placed
<1>6. \A t \in Desk!Slot : \A j, b : WaitsAt(e, t, j, b) <=> WaitsAt(d, t, j, b)
  BY <1>1, SameWaits
<1>7. ASSUME NEW t \in Desk!Slot
      PROVE  Waited(e, t) = Waited(d, t) \cup IF WaitsAt(d, t, k, c) THEN {k} ELSE {}
  <2>1. ASSUME NEW j \in Waited(e, t)
        PROVE  j \in Waited(d, t) \/ (j = k /\ WaitsAt(d, t, k, c))
    <3>1. PICK b \in e.pending[j] : j \in DOMAIN e.pending /\ WaitsAt(e, t, j, b)
      BY DEF Waited
    <3> QED
      BY <1>3, <1>6, <3>1 DEF Waited
  <2>2. Waited(d, t) \subseteq Waited(e, t)
    BY <1>4, <1>6 DEF Waited
  <2>3. WaitsAt(d, t, k, c) => k \in Waited(e, t)
    BY <1>4, <1>6 DEF Waited
  <2> QED
    BY <2>1, <2>2, <2>3
<1>8. ASSUME NEW t \in Desk!Slot PROVE AsksOnce(e, t)
  <2>1. AsksOnce(d, t)
    BY DEF Asking
  <2>2. WaitsAt(d, t, k, c) => t = s /\ c.player = d.slot[s].asked /\ Waited(d, s) = {}
    BY DEF WaitsAt
  <2>3. \A i, j \in Waited(e, t) : i = j
    BY <1>7, <2>1, <2>2 DEF AsksOnce
  <2>4. ASSUME NEW j \in DOMAIN e.pending, NEW b \in e.pending[j], WaitsAt(e, t, j, b)
        PROVE  b.player = e.slot[t].asked
    BY <1>1, <1>3, <1>6, <2>1, <2>2, <2>4 DEF AsksOnce
  <2> QED
    BY <1>1, <2>1, <2>3, <2>4 DEF AsksOnce
<1> QED
  BY <1>1, <1>5, <1>7, <1>8 DEF Asking, HasJoined

\* An answer from the cache.
IsTold(d, e, k, c) ==
    /\ Asking(e)
    /\ \A t \in Desk!Slot :
          /\ Waited(e, t) = Waited(d, t) /\ e.slot[t].asked = d.slot[t].asked
          /\ IF WaitsAt(d, t, k, c)
             THEN ~e.slot[t].loading /\ (e.slot[t].error \/ e.slot[t].shown = c.player)
             ELSE /\ e.slot[t].loading = d.slot[t].loading
                  /\ e.slot[t].error = d.slot[t].error
                  /\ e.slot[t].shown = d.slot[t].shown

LEMMA CachedIs ==
    ASSUME NEW d, Asking(d), NEW k, NEW c \in DeskConsumer, NEW found,
           NEW e, e = Desk!Told(d, k, {c}, found)
    PROVE  IsTold(d, e, k, c)
<1>1. Heard(d, e, k, {c})
  BY ToldIs DEF Asking
<1>2. /\ IsDesk(e)
      /\ e.pending = d.pending /\ e.slot \in [Desk!Slot -> DeskSlot]
      /\ \A t \in Desk!Slot :
            e.slot[t].version = d.slot[t].version /\ e.slot[t].asked = d.slot[t].asked
  <2>1. e = [slot |-> e.slot, compare |-> d.compare, pending |-> d.pending,
             cached |-> d.cached, changed |-> e.changed]
    BY <1>1 DEF Heard
  <2>2. e.compare = d.compare /\ e.pending = d.pending /\ e.cached = d.cached
    BY <2>1
  <2> QED
    BY <1>1, <2>1, <2>2 DEF Heard, IsDesk
<1>3. Placed(e)
  BY <1>2 DEF Asking, Placed, DeskConsumer
<1>4. \A t \in Desk!Slot : \A j, b : WaitsAt(e, t, j, b) <=> WaitsAt(d, t, j, b)
  BY <1>2, SameWaits
<1>5. \A t \in Desk!Slot : Waited(e, t) = Waited(d, t)
  BY <1>2, <1>4 DEF Waited
<1>6. ASSUME NEW t \in Desk!Slot PROVE AsksOnce(e, t)
  <2>1. AsksOnce(d, t)
    BY DEF Asking
  <2>2. ASSUME NEW j \in DOMAIN e.pending, NEW b \in e.pending[j], WaitsAt(e, t, j, b)
        PROVE  b.player = e.slot[t].asked
    BY <1>2, <1>4, <2>1, <2>2 DEF AsksOnce
  <2> QED
    BY <1>2, <1>5, <2>1, <2>2 DEF AsksOnce
<1> QED
  BY <1>1, <1>2, <1>3, <1>5, <1>6 DEF Heard, Asking, IsTold

\* The request of a consumer that joins, by what it leaves.
LEMMA RequestJoins ==
    ASSUME NEW d, IsDesk(d), NEW k, NEW c, k \notin d.cached, NEW e,
           e = Desk!RequestDesk(d, k, c, FALSE)
    PROVE  Joins(d, e, k, c)
<1> DEFINE f == Desk!With(d.pending, k,
                  {c} \cup (IF k \in DOMAIN d.pending THEN d.pending[k] ELSE {}))
<1>1. e = [d EXCEPT !.pending = f]
  BY DEF Desk!RequestDesk
<1> HIDE DEF f
<1>2. IsDesk(e) /\ e.slot = d.slot /\ e.pending = f
  BY <1>1 DEF IsDesk
<1> QED
  BY <1>2 DEF f, Joins

\* A retry: those who wait for the request hear that it is given up.
LEMMA RequestAgain ==
    ASSUME NEW d, Asking(d), NEW k, NEW c, NEW e, e = Desk!RequestDesk(d, k, c, TRUE)
    PROVE  \E f : HasLeft(d, f, k) /\ Joins(f, e, k, c)
<1> DEFINE b == [d EXCEPT !.pending = Desk!Without(@, k)]
           f == IF k \in DOMAIN d.pending THEN Desk!Told(b, k, d.pending[k], {}) ELSE d
<1>1. e = [f EXCEPT !.cached = @ \ {k}, !.pending = Desk!With(@, k, {c})]
  BY DEF Desk!RequestDesk
<1>2. IsDesk(b) /\ b.slot = d.slot /\ b.pending = Desk!Without(d.pending, k)
  <2> DEFINE p == Desk!Without(d.pending, k)
  <2>1. b = [d EXCEPT !.pending = p]
    OBVIOUS
  <2> HIDE DEF b, p
  <2>2. IsDesk(b) /\ b.slot = d.slot /\ b.pending = p
    BY <2>1 DEF Asking, Placed, IsDesk
  <2> QED
    BY <2>2 DEF p
<1> HIDE DEF b
<1>3. HasLeft(d, f, k)
  <2>1. CASE k \in DOMAIN d.pending
    <3>1. f = Desk!Told(b, k, d.pending[k], {})
      BY <2>1
    <3> HIDE DEF f
    <3> QED
      BY <1>2, <2>1, <3>1, AnsweredIs, Zenon
  <2>2. CASE k \notin DOMAIN d.pending
    <3>1. f = d /\ \A t : k \notin Waited(d, t)
      BY <2>2 DEF Waited
    <3> HIDE DEF f
    <3> QED
      BY <2>2, <3>1 DEF HasLeft
  <2> QED
    BY <2>1, <2>2
<1> HIDE DEF f
<1>4. IsDesk(e) /\ e.slot = f.slot /\ e.pending = Desk!With(f.pending, k, {c})
  <2> DEFINE p == Desk!With(f.pending, k, {c})
  <2>1. e = [f EXCEPT !.cached = f.cached \ {k}, !.pending = p]
    BY <1>1
  <2> HIDE DEF p
  <2>2. IsDesk(e) /\ e.slot = f.slot /\ e.pending = p
    BY <1>3, <2>1 DEF HasLeft, Asking, Placed, IsDesk
  <2> QED
    BY <2>2 DEF p
<1>5. {c} \cup (IF k \in DOMAIN f.pending THEN f.pending[k] ELSE {}) = {c}
  BY <1>3 DEF HasLeft
<1>6. Joins(f, e, k, c)
  BY <1>4, <1>5 DEF Joins
<1> QED
  BY <1>3, <1>6

\* A request for evidence leaves what a slot tells of its overview alone.
LEMMA EvidenceTells ==
    ASSUME NEW d, Telling(d), NEW s \in Desk!Slot, NEW k, NEW c \in DeskConsumer, c.slot = s,
           c.version <= d.slot[s].version, k.section = "recent", NEW e,
           e = Desk!RequestDesk(d, k, c, FALSE)
    PROVE  Telling(e)
<1>1. \A t : ~WaitsAt(d, t, k, c)
  BY DEF WaitsAt
<1>2. Asking(d) /\ IsDesk(d)
  BY DEF Telling, Asking, Placed
<1>3. CASE k \in d.cached
  <2>1. e = Desk!Told(d, k, {c}, k.players)
    BY <1>3 DEF Desk!RequestDesk
  <2>2. /\ Asking(e)
        /\ \A t \in Desk!Slot :
              /\ Waited(e, t) = Waited(d, t) /\ e.slot[t].asked = d.slot[t].asked
              /\ e.slot[t].loading = d.slot[t].loading /\ e.slot[t].error = d.slot[t].error
              /\ e.slot[t].shown = d.slot[t].shown
    <3>1. IsTold(d, e, k, c)
      BY <1>2, <2>1, CachedIs, Zenon
    <3> QED
      BY <1>1, <3>1 DEF IsTold
  <2> QED
    BY <2>2 DEF Telling, Tells
<1>4. CASE k \notin d.cached
  <2>1. Joins(d, e, k, c)
    BY <1>2, <1>4, RequestJoins, Zenon
  <2>2. HasJoined(d, e, k, c)
    BY <1>2, <2>1, JoinedIs
  <2>3. Asking(e) /\ e.slot = d.slot /\ \A t \in Desk!Slot : Waited(e, t) = Waited(d, t)
    BY <1>1, <2>2 DEF HasJoined
  <2> QED
    BY <2>3 DEF Telling, Tells
<1> QED
  BY <1>3, <1>4

\* Slot s has asked for an overview, whose request has still to be made.
Asks(d, s) ==
    /\ Asking(d) /\ \A t \in Desk!Slot \ {s} : Tells(d, t)
    /\ Waited(d, s) = {} /\ d.slot[s].loading /\ ~d.slot[s].error

LEMMA AskedJoins ==
    ASSUME NEW d, NEW s \in Desk!Slot, Asks(d, s), NEW k, NEW c, k.section = "overview", NEW e,
           c = Desk!Consumer(s, d.slot[s].asked, d.slot[s].version), Joins(d, e, k, c)
    PROVE  Telling(e)
<1>1. /\ c \in DeskConsumer /\ c.slot = s /\ c.version = d.slot[s].version /\ c.live
      /\ c.player = d.slot[s].asked /\ c.version <= d.slot[s].version
  <2>1. d.slot[s] \in DeskSlot
    BY DEF Asks, Asking, Placed
  <2> QED
    BY <2>1 DEF DeskSlot, DeskConsumer, Desk!Consumer
<1>2. HasJoined(d, e, k, c)
  BY <1>1, JoinedIs DEF Asks
<1>3. \A t \in Desk!Slot : WaitsAt(d, t, k, c) <=> t = s
  BY <1>1 DEF WaitsAt
<1>4. Tells(e, s)
  <2>1. k \in Waited(e, s)
    BY <1>2, <1>3 DEF HasJoined
  <2> QED
    BY <1>2, <2>1 DEF Tells, HasJoined, Asks
<1>5. ASSUME NEW t \in Desk!Slot \ {s} PROVE Tells(e, t)
  <2>1. Waited(e, t) = Waited(d, t) /\ Tells(d, t)
    BY <1>2, <1>3 DEF HasJoined, Asks
  <2> QED
    BY <1>2, <2>1 DEF Tells, HasJoined
<1> QED
  BY <1>2, <1>4, <1>5 DEF Telling, HasJoined

\* The request for an overview that a slot has just asked for.
LEMMA OverviewTells ==
    ASSUME NEW d, NEW s \in Desk!Slot, Asks(d, s), NEW k, NEW c, NEW bypass \in BOOLEAN,
           k.section = "overview", NEW e,
           c = Desk!Consumer(s, d.slot[s].asked, d.slot[s].version),
           e = Desk!RequestDesk(d, k, c, bypass)
    PROVE  Telling(e)
<1>1. Asking(d) /\ IsDesk(d)
  BY DEF Asks, Asking, Placed
<1>2. CASE bypass
  <2>1. e = Desk!RequestDesk(d, k, c, TRUE)
    BY <1>2
  <2>2. PICK f : HasLeft(d, f, k) /\ Joins(f, e, k, c)
    BY <1>1, <2>1, RequestAgain, Zenon
  <2>3. Asks(f, s) /\ f.slot[s].version = d.slot[s].version /\ f.slot[s].asked = d.slot[s].asked
    BY <2>2 DEF HasLeft, Asks
  <2> QED
    BY <2>2, <2>3, AskedJoins
<1>3. CASE ~bypass /\ k \notin d.cached
  <2>1. e = Desk!RequestDesk(d, k, c, FALSE)
    BY <1>3
  <2>2. Joins(d, e, k, c)
    BY <1>1, <1>3, <2>1, RequestJoins, Zenon
  <2> QED
    BY <2>2, AskedJoins
<1>4. CASE ~bypass /\ k \in d.cached
  <2>1. e = Desk!Told(d, k, {c}, k.players)
    BY <1>4 DEF Desk!RequestDesk
  <2>2. c \in DeskConsumer /\ c.slot = s /\ c.player = d.slot[s].asked
    <3>1. d.slot[s] \in DeskSlot
      BY <1>1 DEF Asking, Placed
    <3> QED
      BY <3>1 DEF DeskSlot, DeskConsumer, Desk!Consumer
  <2>3. \A t \in Desk!Slot : WaitsAt(d, t, k, c) <=> t = s
    BY DEF WaitsAt, Desk!Consumer
  <2>4. IsTold(d, e, k, c)
    BY <1>1, <2>1, <2>2, CachedIs, Zenon
  <2>5. Tells(e, s)
    BY <2>2, <2>3, <2>4 DEF IsTold, Tells, Asks
  <2>6. ASSUME NEW t \in Desk!Slot \ {s} PROVE Tells(e, t)
    <3>1. Tells(d, t) /\ ~WaitsAt(d, t, k, c)
      BY <2>3 DEF Asks
    <3> QED
      BY <2>4, <3>1 DEF IsTold, Tells
  <2> QED
    BY <2>4, <2>5, <2>6 DEF IsTold, Telling
<1> QED
  BY <1>2, <1>3, <1>4

\* A slot that begins to load, and one that is emptied.
LEMMA BegunIs ==
    ASSUME NEW slot \in DeskSlot, NEW p \in DeskLink, NEW x, x = Desk!Begun(slot, p)
    PROVE  /\ x \in DeskSlot /\ x.version = slot.version + 1 /\ x.asked = p
           /\ x.loading /\ ~x.error
<1> DEFINE v == slot.version + 1
<1>1. v \in Nat
  BY DEF DeskSlot
<1>2. x = [slot EXCEPT !.version = v, !.asked = p, !.loading = TRUE, !.error = FALSE,
                       !.loaded = FALSE]
  BY DEF Desk!Begun
<1> HIDE DEF v
<1>3. x.version = v /\ x.asked = p /\ x.loading /\ ~x.error
  BY <1>2 DEF DeskSlot
<1>4. x \in DeskSlot
  BY <1>1, <1>2 DEF DeskSlot
<1> QED
  BY <1>3, <1>4 DEF v

LEMMA EmptiedIs ==
    ASSUME NEW v \in Nat, NEW x, x = [Desk!Empty(None) EXCEPT !.version = v]
    PROVE  /\ x \in DeskSlot /\ x.version = v /\ x.asked = None /\ ~x.loading
<1> DEFINE y == Desk!Empty(None)
<1>1. y \in DeskSlot /\ y.asked = None /\ ~y.loading
  BY DEF Desk!Empty, DeskSlot, DeskLink
<1>2. x = [y EXCEPT !.version = v]
  OBVIOUS
<1> HIDE DEF y
<1> QED
  BY <1>1, <1>2 DEF DeskSlot

\* A slot under its next version: whoever waited for it before waits no more.
Turns(d, e, s, x) ==
    /\ x \in DeskSlot /\ x.version = d.slot[s].version + 1
    /\ IsDesk(e) /\ e.pending = d.pending
    /\ e.slot = [d.slot EXCEPT ![s] = x]
HasTurned(d, e, s, x) ==
    /\ Asking(e) /\ Waited(e, s) = {} /\ e.slot[s] = x
    /\ \A t \in Desk!Slot \ {s} : Waited(e, t) = Waited(d, t) /\ e.slot[t] = d.slot[t]

LEMMA NextVersion ==
    ASSUME NEW d, Asking(d), NEW s \in Desk!Slot, NEW x, NEW e, Turns(d, e, s, x)
    PROVE  HasTurned(d, e, s, x)
<1>0. /\ x \in DeskSlot /\ x.version = d.slot[s].version + 1
      /\ IsDesk(e) /\ e.pending = d.pending
      /\ e.slot = [d.slot EXCEPT ![s] = x]
  BY DEF Turns
<1>1. /\ d.slot \in [Desk!Slot -> DeskSlot] /\ Table(d.pending)
      /\ \A k \in DOMAIN d.pending : \A c \in d.pending[k] :
            c \in DeskConsumer /\ c.version <= d.slot[c.slot].version
  BY DEF Asking, Placed
<1>2. /\ e.slot \in [Desk!Slot -> DeskSlot] /\ e.slot[s] = x
      /\ \A t \in Desk!Slot \ {s} : e.slot[t] = d.slot[t]
  BY <1>0, <1>1
<1>3. d.slot[s].version \in Nat /\ x.version = d.slot[s].version + 1
  BY <1>0, <1>1 DEF DeskSlot
<1>4. Placed(e)
  <2>1. ASSUME NEW k \in DOMAIN e.pending, NEW c \in e.pending[k]
        PROVE  c \in DeskConsumer /\ c.version <= e.slot[c.slot].version
    <3>1. c \in DeskConsumer /\ c.version <= d.slot[c.slot].version
      BY <1>0, <1>1
    <3>2. c.slot \in Desk!Slot /\ c.version \in Nat
      BY <3>1 DEF DeskConsumer
    <3>3. CASE c.slot = s
      BY <1>2, <1>3, <3>1, <3>2, <3>3
    <3>4. CASE c.slot # s
      BY <1>2, <3>1, <3>2, <3>4
    <3> QED
      BY <3>3, <3>4
  <2> QED
    BY <1>0, <1>1, <1>2, <2>1 DEF Placed
<1>5. ASSUME NEW k \in DOMAIN d.pending, NEW c \in d.pending[k] PROVE ~WaitsAt(e, s, k, c)
  <2>1. c.slot = s => c.version <= d.slot[s].version /\ c.version \in Nat
    BY <1>1 DEF DeskConsumer
  <2> QED
    BY <1>2, <1>3, <2>1 DEF WaitsAt
<1>6. Waited(e, s) = {}
  BY <1>0, <1>5 DEF Waited
<1>7. ASSUME NEW t \in Desk!Slot \ {s}
      PROVE  Waited(e, t) = Waited(d, t) /\ \A j, b : WaitsAt(e, t, j, b) <=> WaitsAt(d, t, j, b)
  BY <1>0, <1>2, SameWaits DEF Waited
<1>8. AsksOnce(e, s)
  BY <1>0, <1>2, <1>3, <1>5, <1>6 DEF AsksOnce
<1>9. ASSUME NEW t \in Desk!Slot \ {s} PROVE AsksOnce(e, t)
  <2>1. AsksOnce(d, t)
    BY DEF Asking
  <2> QED
    BY <1>0, <1>2, <1>7, <2>1 DEF AsksOnce
<1> QED
  BY <1>2, <1>4, <1>6, <1>7, <1>8, <1>9 DEF Asking, HasTurned

\* What is told depends on the slots and on what is under way.
LEMMA SameTelling ==
    ASSUME NEW d, Telling(d), NEW e, IsDesk(e), e.slot = d.slot, e.pending = d.pending
    PROVE  Telling(e)
<1>1. Placed(e)
  BY DEF Telling, Asking, Placed
<1>2. \A s, k, c : WaitsAt(e, s, k, c) <=> WaitsAt(d, s, k, c)
  BY SameWaits
<1>3. \A s : Waited(e, s) = Waited(d, s)
  BY <1>2 DEF Waited
<1>4. ASSUME NEW s \in Desk!Slot PROVE AsksOnce(e, s) /\ Tells(e, s)
  <2>1. AsksOnce(d, s) /\ Tells(d, s)
    BY DEF Telling, Asking
  <2>2. AsksOnce(e, s)
    BY <1>2, <1>3, <2>1 DEF AsksOnce
  <2>3. Tells(e, s)
    BY <1>3, <2>1 DEF Tells
  <2> QED
    BY <2>2, <2>3
<1> QED
  BY <1>1, <1>4 DEF Telling, Asking

\* A slot loads a player, and asks for them under its next version.
LEMMA LoadTells ==
    ASSUME NEW d, Telling(d), NEW s \in Desk!Slot, NEW p \in DeskLink, NEW others,
           NEW bypass \in BOOLEAN
    PROVE  Telling(Desk!Load(d, s, p, others, bypass))
<1> DEFINE without == Desk!Leave(d, s, {"overview", "recent"})
           x == Desk!Begun(without.slot[s], p)
           slots == [without.slot EXCEPT ![s] = x]
           next == [without EXCEPT !.slot[s] = Desk!Begun(@, p)]
           k == Desk!Key("overview", Desk!CanonicalBatch(p, others))
           c == Desk!Consumer(s, p, next.slot[s].version)
           e == Desk!RequestDesk(next, k, c, bypass)
<1>1. Desk!Load(d, s, p, others, bypass) = e
  BY DEF Desk!Load
<1>2. Asking(d)
  BY DEF Telling
<1>3. /\ Asking(without) /\ without.slot = d.slot /\ Waited(without, s) = {}
      /\ \A t \in Desk!Slot : t # s => Waited(without, t) = Waited(d, t)
  <2> HIDE DEF without
  <2>1. without = Desk!Leave(d, s, {"overview", "recent"})
    BY DEF without
  <2> QED
    BY <1>2, <2>1, LeaveIs
<1> HIDE DEF without
<1>4. IsDesk(without) /\ without.slot \in [Desk!Slot -> DeskSlot] /\ without.slot[s] \in DeskSlot
  BY <1>3 DEF Asking, Placed
<1>5. /\ x \in DeskSlot /\ x.version = without.slot[s].version + 1
      /\ x.asked = p /\ x.loading /\ ~x.error
  <2>1. without.slot[s] \in DeskSlot /\ x = Desk!Begun(without.slot[s], p)
    BY <1>4
  <2> HIDE DEF x
  <2> QED
    BY <2>1, BegunIs
<1>6. IsDesk(next) /\ next.pending = without.pending /\ next.slot = slots
  <2>1. next = [without EXCEPT !.slot = slots]
    BY <1>4 DEF IsDesk
  <2> HIDE DEF next, slots
  <2> QED
    BY <1>4, <2>1 DEF IsDesk
<1> HIDE DEF next, x
<1>7. /\ Asking(next) /\ Waited(next, s) = {} /\ next.slot[s] = x
      /\ \A t \in Desk!Slot \ {s} :
            Waited(next, t) = Waited(without, t) /\ next.slot[t] = without.slot[t]
  <2>1. Turns(without, next, s, x)
    BY <1>5, <1>6 DEF Turns
  <2>2. HasTurned(without, next, s, x)
    BY <1>3, <2>1, NextVersion, Zenon
  <2> QED
    BY <2>2 DEF HasTurned
<1>8. Asks(next, s)
  <2>1. ASSUME NEW t \in Desk!Slot \ {s} PROVE Tells(next, t)
    <3>1. Tells(d, t) /\ Waited(next, t) = Waited(d, t) /\ next.slot[t] = d.slot[t]
      BY <1>3, <1>7 DEF Telling
    <3> QED
      BY <3>1 DEF Tells
  <2> QED
    BY <1>5, <1>7, <2>1 DEF Asks
<1>9. k.section = "overview" /\ c = Desk!Consumer(s, next.slot[s].asked, next.slot[s].version)
  BY <1>5, <1>7 DEF Desk!Key
<1> HIDE DEF k, c
<1>10. e = Desk!RequestDesk(next, k, c, bypass)
  OBVIOUS
<1> HIDE DEF e
<1>11. Telling(e)
  BY <1>8, <1>9, <1>10, OverviewTells, Zenon
<1> QED
  BY <1>1, <1>11

LEMMA LoadByIdTells ==
    ASSUME NEW d, Telling(d), NEW s \in Desk!Slot, NEW p \in DeskLink, NEW others
    PROVE  Telling(Desk!LoadById(d, s, p, others))
<1>1. Telling(Desk!Load(d, s, p, others, FALSE))
  BY LoadTells
<1> QED
  BY <1>1, Zenon DEF Desk!LoadById

\* The second slot is emptied.
LEMMA ClearTells ==
    ASSUME NEW d, Telling(d)
    PROVE  Telling(Desk!Clear(d))
<1> DEFINE without == Desk!Leave(d, 2, {"overview", "recent"})
           x == [Desk!Empty(None) EXCEPT !.version = d.slot[2].version + 1]
           slots == [without.slot EXCEPT ![2] = x]
           news == without.changed \/ d.slot[2].selected # None \/ d.slot[2].shown # None
           e == Desk!Clear(d)
<1>1. Asking(d) /\ 2 \in Desk!Slot
  BY DeskSlots DEF Telling
<1>2. /\ Asking(without) /\ without.slot = d.slot
      /\ \A t \in Desk!Slot : t # 2 => Waited(without, t) = Waited(d, t)
  <2> HIDE DEF without
  <2>1. without = Desk!Leave(d, 2, {"overview", "recent"})
    BY DEF without
  <2> QED
    BY <1>1, <2>1, LeaveIs
<1>3. e = [without EXCEPT !.slot[2] = x, !.compare = FALSE, !.changed = news]
  BY DEF Desk!Clear
<1> HIDE DEF without
<1>4. IsDesk(without) /\ without.slot \in [Desk!Slot -> DeskSlot] /\ d.slot[2] \in DeskSlot
  BY <1>1, <1>2 DEF Asking, Placed
<1>5. /\ x \in DeskSlot /\ x.version = without.slot[2].version + 1
      /\ x.asked = None /\ ~x.loading
  <2>1. d.slot[2].version + 1 \in Nat
    BY <1>4 DEF DeskSlot
  <2> QED
    BY <1>2, <2>1, EmptiedIs
<1> HIDE DEF x, e, news
<1>6. IsDesk(e) /\ e.pending = without.pending /\ e.slot = slots
  <2>1. e = [without EXCEPT !.slot = slots, !.compare = FALSE, !.changed = news]
    BY <1>3, <1>4 DEF IsDesk
  <2> HIDE DEF slots
  <2> QED
    BY <1>4, <2>1 DEF IsDesk
<1>7. /\ Asking(e) /\ Waited(e, 2) = {} /\ e.slot[2] = x
      /\ \A t \in Desk!Slot \ {2} : Waited(e, t) = Waited(without, t) /\ e.slot[t] = without.slot[t]
  <2>1. Turns(without, e, 2, x)
    BY <1>5, <1>6 DEF Turns
  <2>2. HasTurned(without, e, 2, x)
    BY <1>1, <1>2, <2>1, NextVersion, Zenon
  <2> QED
    BY <2>2 DEF HasTurned
<1>8. ASSUME NEW t \in Desk!Slot PROVE Tells(e, t)
  <2>1. CASE t = 2
    BY <1>5, <1>7, <2>1 DEF Tells
  <2>2. CASE t # 2
    <3>1. Tells(d, t) /\ Waited(e, t) = Waited(d, t) /\ e.slot[t] = d.slot[t]
      BY <1>2, <1>7, <2>2 DEF Telling
    <3> QED
      BY <3>1 DEF Tells
  <2> QED
    BY <2>1, <2>2
<1>9. Telling(e)
  BY <1>7, <1>8 DEF Telling
<1> QED
  BY <1>9 DEF e

\* A slot asks for evidence, after it gave up what it asked for before.
LEMMA LoadEvidenceTells ==
    ASSUME NEW d, Telling(d), NEW s \in Desk!Slot, NEW selections
    PROVE  Telling(Desk!LoadEvidence(d, s, selections))
<1> DEFINE p == d.slot[s].selected
           without == Desk!Leave(d, s, {"recent"})
           k == Desk!Key("recent", Desk!CanonicalBatch(p, selections))
           c == Desk!Consumer(s, p, d.slot[s].version)
           e == Desk!RequestDesk(without, k, c, FALSE)
<1>1. Asking(d) /\ d.slot[s] \in DeskSlot
  BY DEF Telling, Asking, Placed
<1>2. /\ Asking(without) /\ without.slot = d.slot
      /\ \A t \in Desk!Slot : Waited(without, t) = Waited(d, t)
  <2> HIDE DEF without
  <2>1. without = Desk!Leave(d, s, {"recent"}) /\ "overview" \notin {"recent"}
    BY DEF without
  <2> QED
    BY <1>1, <2>1, LeaveIs
<1>3. Telling(without)
  <2> HIDE DEF without
  <2> QED
    BY <1>2 DEF Telling, Tells
<1>4. /\ c \in DeskConsumer /\ c.slot = s /\ c.version <= without.slot[s].version
      /\ k.section = "recent"
  <2> HIDE DEF without
  <2> QED
    BY <1>1, <1>2 DEF DeskSlot, DeskConsumer, Desk!Consumer, Desk!Key
<1>5. Desk!LoadEvidence(d, s, selections) = d \/ Desk!LoadEvidence(d, s, selections) = e
  BY DEF Desk!LoadEvidence
<1> HIDE DEF without, k, c
<1>6. e = Desk!RequestDesk(without, k, c, FALSE)
  OBVIOUS
<1> HIDE DEF e
<1>7. Telling(e)
  BY <1>3, <1>4, <1>6, EvidenceTells
<1> QED
  BY <1>5, <1>7

LEMMA EvidenceAskedTells ==
    ASSUME NEW d, Telling(d), NEW what
    PROVE  Telling(Desk!EvidenceAsked(d, what))
<1> DEFINE f == Desk!LoadEvidence(d, 1, Desk!Selections(d))
           e == Desk!LoadEvidence(f, 2, Desk!Selections(d))
<1>1. Telling(f)
  BY DeskSlots, LoadEvidenceTells
<1> HIDE DEF f
<1>2. Telling(e)
  BY <1>1, DeskSlots, LoadEvidenceTells
<1>3. Desk!EvidenceAsked(d, what) = d \/ Desk!EvidenceAsked(d, what) = e
  BY DEF Desk!EvidenceAsked, f
<1> QED
  BY <1>2, <1>3

\* The page renders what a handler left.
LEMMA RenderedTells ==
    ASSUME NEW d, Telling(d), Desk!Rendered(d)
    PROVE  Telling(desk')
<1> DEFINE f == IF d.changed THEN Desk!EvidenceAsked(d, section) ELSE d
<1>1. Telling(f)
  BY EvidenceAskedTells
<1>2. desk' = [f EXCEPT !.changed = FALSE]
  BY DEF Desk!Rendered
<1> HIDE DEF f
<1>3. IsDesk(desk') /\ desk'.slot = f.slot /\ desk'.pending = f.pending
  BY <1>1, <1>2 DEF Telling, Asking, Placed, IsDesk
<1> QED
  BY <1>1, <1>3, SameTelling

\* The answers that are awaited, heard.
LEMMA AnswerTells ==
    ASSUME NEW k \in DOMAIN desk.pending, NEW found, Telling(desk), Desk!Answer(k, found)
    PROVE  Telling(desk')
<1> DEFINE p == Desk!Without(desk.pending, k)
           stays == desk.cached \cup IF found = k.players THEN {k} ELSE {}
           b == [desk EXCEPT !.pending = Desk!Without(@, k),
                             !.cached = @ \cup IF found = k.players THEN {k} ELSE {}]
           e == Desk!Told(b, k, desk.pending[k], found)
<1>1. Desk!Rendered(e)
  BY DEF Desk!Answer
<1>2. Asking(desk) /\ IsDesk(desk)
  BY DEF Telling, Asking, Placed
<1>3. IsDesk(b) /\ b.slot = desk.slot /\ b.pending = Desk!Without(desk.pending, k)
  <2>1. b = [desk EXCEPT !.pending = p, !.cached = stays]
    OBVIOUS
  <2> HIDE DEF b, p, stays
  <2>2. IsDesk(b) /\ b.slot = desk.slot /\ b.pending = p
    BY <1>2, <2>1 DEF IsDesk
  <2> QED
    BY <2>2 DEF p
<1> HIDE DEF b
<1>4. e = Desk!Told(b, k, desk.pending[k], found)
  OBVIOUS
<1> HIDE DEF e
<1>5. HasLeft(desk, e, k)
  BY <1>2, <1>3, <1>4, AnsweredIs, Zenon
<1>6. Telling(e)
  BY <1>5 DEF HasLeft, Telling
<1> QED
  BY <1>1, <1>6, RenderedTells, Zenon

\* The seed is for slots that asked for nothing yet.
LEMMA SeedTells ==
    ASSUME NEW found, link \in [1..2 -> DeskLink], Telling(desk), Desk!AdmitSeed(found)
    PROVE  Telling(desk')
<1> DEFINE Admitted(s) ==
               IF desk.slot[s].version # 0 \/ link[s] = None THEN desk.slot[s]
               ELSE IF link[s] \in found
               THEN [desk.slot[s] EXCEPT !.selected = link[s], !.shown = link[s]]
               ELSE [desk.slot[s] EXCEPT !.error = TRUE]
           given == {link[s] : s \in Desk!Slot} \ {None}
           stays == desk.cached \cup IF found = given THEN {Desk!Key("overview", found)} ELSE {}
           slots == [s \in Desk!Slot |-> Admitted(s)]
           e == [desk EXCEPT !.slot = slots, !.cached = stays, !.changed = TRUE]
<1>1. Desk!Rendered(e)
  BY DEF Desk!AdmitSeed
<1>2. /\ IsDesk(desk) /\ Table(desk.pending) /\ desk.slot \in [Desk!Slot -> DeskSlot]
      /\ \A k \in DOMAIN desk.pending : \A c \in desk.pending[k] :
            c \in DeskConsumer /\ c.version <= desk.slot[c.slot].version
  BY DEF Telling, Asking, Placed
<1>3. IsDesk(e) /\ e.slot = slots /\ e.pending = desk.pending
  <2>1. e = [desk EXCEPT !.slot = slots, !.cached = stays, !.changed = TRUE]
    OBVIOUS
  <2> HIDE DEF slots, stays, e, Admitted
  <2> QED
    BY <1>2, <2>1 DEF IsDesk
<1>4. ASSUME NEW s \in Desk!Slot
      PROVE  /\ slots[s] \in DeskSlot /\ slots[s].version = desk.slot[s].version
             /\ slots[s].asked = desk.slot[s].asked /\ slots[s].loading = desk.slot[s].loading
             /\ slots[s] = desk.slot[s] \/ desk.slot[s].version = 0
  <2>1. link[s] \in DeskLink /\ desk.slot[s] \in DeskSlot
    BY <1>2, DeskSlots
  <2>2. slots[s] = Admitted(s)
    OBVIOUS
  <2> HIDE DEF slots
  <2>3. CASE desk.slot[s].version # 0 \/ link[s] = None
    BY <2>1, <2>2, <2>3
  <2>4. CASE ~(desk.slot[s].version # 0 \/ link[s] = None) /\ link[s] \in found
    <3>1. slots[s] = [desk.slot[s] EXCEPT !.selected = link[s], !.shown = link[s]]
      BY <2>2, <2>4
    <3> QED
      BY <2>1, <2>4, <3>1 DEF DeskSlot
  <2>5. CASE ~(desk.slot[s].version # 0 \/ link[s] = None) /\ link[s] \notin found
    <3>1. slots[s] = [desk.slot[s] EXCEPT !.error = TRUE]
      BY <2>2, <2>5
    <3> QED
      BY <2>1, <2>5, <3>1 DEF DeskSlot
  <2> QED
    BY <2>3, <2>4, <2>5
<1>5. slots \in [Desk!Slot -> DeskSlot]
  BY <1>4
<1> HIDE DEF slots, e
<1>6. Placed(e)
  <2>1. ASSUME NEW k \in DOMAIN e.pending, NEW c \in e.pending[k]
        PROVE  c \in DeskConsumer /\ c.version <= e.slot[c.slot].version
    <3>1. c \in DeskConsumer /\ c.version <= desk.slot[c.slot].version
      BY <1>2, <1>3
    <3>2. c.slot \in Desk!Slot
      BY <3>1 DEF DeskConsumer
    <3> QED
      BY <1>3, <1>4, <3>1, <3>2
  <2> QED
    BY <1>2, <1>3, <1>5, <2>1 DEF Placed
<1>7. ASSUME NEW s \in Desk!Slot
      PROVE  /\ Waited(e, s) = Waited(desk, s)
             /\ \A k, c : WaitsAt(e, s, k, c) <=> WaitsAt(desk, s, k, c)
  BY <1>3, <1>4, SameWaits DEF Waited
<1>8. ASSUME NEW s \in Desk!Slot PROVE AsksOnce(e, s) /\ Tells(e, s)
  <2>1. AsksOnce(desk, s) /\ Tells(desk, s)
    BY DEF Telling, Asking
  <2>2. AsksOnce(e, s)
    BY <1>3, <1>4, <1>7, <2>1 DEF AsksOnce
  <2>3. CASE e.slot[s] = desk.slot[s]
    <3>1. Waited(e, s) = Waited(desk, s)
      BY <1>7
    <3> QED
      BY <2>1, <2>2, <2>3, <3>1 DEF Tells
  <2>4. CASE desk.slot[s].version = 0
    BY <1>3, <1>4, <1>7, <2>1, <2>4 DEF AsksOnce, Tells
  <2> QED
    BY <1>3, <1>4, <2>2, <2>3, <2>4
<1>9. Telling(e)
  BY <1>6, <1>8 DEF Telling, Asking
<1> QED
  BY <1>1, <1>9, RenderedTells, Zenon

\* The choices of the user, one by one.
LEMMA ChoiceTells ==
    ASSUME NEW p \in Player, Telling(desk),
           Desk!SelectFirst(p) \/ Desk!SelectOfSquad(p) \/ Desk!SelectSecond(p)
              \/ Desk!SelectSuggested(p)
    PROVE  Telling(desk')
<1> DEFINE moved == Desk!Moved(p)
<1>1. p \in DeskLink /\ 1 \in Desk!Slot /\ 2 \in Desk!Slot
  BY DeskSlots DEF DeskLink
<1>2. Telling(moved)
  <2>1. Telling(Desk!Clear(desk))
    BY ClearTells
  <2> QED
    BY <2>1, Zenon DEF Desk!Moved
<1> HIDE DEF moved
<1>3. ASSUME NEW others PROVE Telling(Desk!Load(moved, 1, p, others, FALSE))
  BY <1>1, <1>2, LoadTells
<1>4. CASE Desk!SelectFirst(p)
  <2> DEFINE e == Desk!Load(moved, 1, p, <<p, Desk!Second.selected>>, FALSE)
  <2>1. Desk!Rendered(e)
    BY <1>4 DEF Desk!SelectFirst, moved
  <2>2. Telling(e)
    BY <1>3
  <2> HIDE DEF e
  <2> QED
    BY <2>1, <2>2, RenderedTells
<1>5. CASE Desk!SelectOfSquad(p)
  <2> DEFINE e == Desk!LoadById(moved, 1, p, <<p, Desk!Second.selected>>)
  <2>1. Desk!Rendered(e)
    BY <1>5 DEF Desk!SelectOfSquad, moved
  <2>2. Telling(e)
    BY <1>1, <1>2, LoadByIdTells
  <2> HIDE DEF e
  <2> QED
    BY <2>1, <2>2, RenderedTells
<1>6. CASE Desk!SelectSecond(p)
  <2> DEFINE f == Desk!Load(desk, 2, p, <<p, Desk!First.selected>>, FALSE)
             e == [f EXCEPT !.compare = TRUE]
  <2>1. Desk!Rendered(e)
    BY <1>6 DEF Desk!SelectSecond
  <2>2. Telling(f)
    BY <1>1, LoadTells
  <2> HIDE DEF f
  <2>3. IsDesk(e) /\ e.slot = f.slot /\ e.pending = f.pending
    <3>1. IsDesk(f) /\ e = [f EXCEPT !.compare = TRUE]
      BY <2>2 DEF Telling, Asking, Placed
    <3> HIDE DEF e
    <3> QED
      BY <3>1 DEF IsDesk
  <2> HIDE DEF e
  <2>4. Telling(e)
    BY <2>2, <2>3, SameTelling
  <2> QED
    BY <2>1, <2>4, RenderedTells
<1>7. CASE Desk!SelectSuggested(p)
  <2> DEFINE e == Desk!LoadById(desk, 2, p, <<p, Desk!First.selected>>)
  <2>1. Desk!Rendered(e)
    BY <1>7 DEF Desk!SelectSuggested
  <2>2. Telling(e)
    BY <1>1, LoadByIdTells
  <2> HIDE DEF e
  <2> QED
    BY <2>1, <2>2, RenderedTells
<1> QED
  BY <1>4, <1>5, <1>6, <1>7

LEMMA RetryTells ==
    ASSUME link \in [1..2 -> DeskLink], Telling(desk), Desk!Retry
    PROVE  Telling(desk')
<1> DEFINE batch == Desk!Selections(desk) \o link
           first == IF Desk!First.selected # None
                    THEN Desk!Load(desk, 1, Desk!First.selected, batch, TRUE)
                    ELSE IF link[1] # None THEN Desk!LoadById(desk, 1, link[1], batch)
                    ELSE desk
           second == IF Desk!Second.selected # None
                     THEN Desk!Load(first, 2, Desk!Second.selected, batch, FALSE)
                     ELSE IF Desk!ComparisonRequested
                     THEN Desk!LoadById(first, 2, link[2], batch)
                     ELSE first
<1>1. Desk!Rendered(second)
  BY DEF Desk!Retry
<1>2. /\ link[1] \in DeskLink /\ link[2] \in DeskLink
      /\ Desk!First.selected \in DeskLink /\ Desk!Second.selected \in DeskLink
      /\ 1 \in Desk!Slot /\ 2 \in Desk!Slot
  <2>1. desk.slot[1] \in DeskSlot /\ desk.slot[2] \in DeskSlot
    BY DeskSlots DEF Telling, Asking, Placed
  <2> QED
    BY <2>1, DeskSlots DEF DeskSlot, Desk!First, Desk!Second
<1> HIDE DEF batch
<1>3. Telling(first)
  <2>1. /\ Telling(Desk!Load(desk, 1, Desk!First.selected, batch, TRUE))
        /\ Telling(Desk!LoadById(desk, 1, link[1], batch))
    BY <1>2, LoadTells, LoadByIdTells
  <2> QED
    BY <2>1, Zenon
<1> HIDE DEF first
<1>4. Telling(second)
  <2>1. /\ Telling(Desk!Load(first, 2, Desk!Second.selected, batch, FALSE))
        /\ Telling(Desk!LoadById(first, 2, link[2], batch))
    BY <1>2, <1>3, LoadTells, LoadByIdTells
  <2> QED
    BY <1>3, <2>1, Zenon
<1> HIDE DEF second
<1> QED
  BY <1>1, <1>4, RenderedTells

LEMMA DeskInitIInv == Desk!Init => DeskIInv
<1> SUFFICES ASSUME Desk!Init PROVE DeskIInv
  OBVIOUS
<1>1. PICK p \in Player \cup {None}, q \in Player \cup {None}, known \in BOOLEAN :
         /\ link = <<p, q>>
         /\ desk = [slot |-> [s \in Desk!Slot |->
                                 Desk!Empty(IF known THEN link[s] ELSE None)],
                    compare |-> q # None, pending |-> [k \in {} |-> {}], cached |-> {},
                    changed |-> FALSE]
  BY DEF Desk!Init
<1>2. link \in [1..2 -> DeskLink]
  BY <1>1 DEF DeskLink
<1>3. /\ IsDesk(desk) /\ Table(desk.pending) /\ DOMAIN desk.pending = {}
      /\ desk.slot = [s \in Desk!Slot |-> Desk!Empty(IF known THEN link[s] ELSE None)]
  BY <1>1 DEF IsDesk, Table
<1>4. ASSUME NEW s \in Desk!Slot
      PROVE  /\ desk.slot[s] \in DeskSlot /\ desk.slot[s].asked = None
             /\ ~desk.slot[s].loading
  <2> DEFINE x == IF known THEN link[s] ELSE None
  <2>1. x \in DeskLink /\ desk.slot[s] = Desk!Empty(x)
    BY <1>2, <1>3, DeskSlots DEF DeskLink
  <2> HIDE DEF x
  <2> QED
    BY <2>1 DEF Desk!Empty, DeskSlot, DeskLink
<1>5. Placed(desk)
  BY <1>3, <1>4 DEF Placed
<1>6. \A s : Waited(desk, s) = {}
  BY <1>3 DEF Waited
<1>7. ASSUME NEW s \in Desk!Slot PROVE AsksOnce(desk, s) /\ Tells(desk, s)
  BY <1>3, <1>4, <1>6 DEF AsksOnce, Tells
<1> QED
  BY <1>2, <1>5, <1>7 DEF DeskIInv, Telling, Asking

LEMMA DeskNextIInv == DeskIInv /\ [Desk!Next]_(Desk!vars) => DeskIInv'
<1> SUFFICES ASSUME DeskIInv, [Desk!Next]_(Desk!vars) PROVE DeskIInv'
  OBVIOUS
<1>1. link \in [1..2 -> DeskLink] /\ Telling(desk)
  BY DEF DeskIInv
<1>2. link' = link
  BY DEF Desk!Next, Desk!vars, Desk!SelectFirst, Desk!SelectOfSquad, Desk!SelectSecond,
         Desk!SelectSuggested, Desk!ClearSecond, Desk!Retry, Desk!ChooseSection,
         Desk!Forget, Desk!AdmitSeed, Desk!Answer
<1>3. Telling(desk')
  <2>1. CASE \E p \in Player : \/ Desk!SelectFirst(p) \/ Desk!SelectOfSquad(p)
                               \/ Desk!SelectSecond(p) \/ Desk!SelectSuggested(p)
    BY <1>1, <2>1, ChoiceTells
  <2>2. CASE Desk!ClearSecond
    <3>1. Telling(Desk!Clear(desk)) /\ Desk!Rendered(Desk!Clear(desk))
      BY <1>1, <2>2, ClearTells DEF Desk!ClearSecond
    <3> QED
      BY <3>1, RenderedTells
  <2>3. CASE Desk!Retry
    BY <1>1, <2>3, RetryTells
  <2>4. CASE Desk!ChooseSection
    <3>1. desk' = Desk!EvidenceAsked(desk, section')
      BY <2>4 DEF Desk!ChooseSection
    <3>2. Telling(Desk!EvidenceAsked(desk, section'))
      BY <1>1, EvidenceAskedTells
    <3> QED
      BY <3>1, <3>2, Zenon
  <2>5. CASE Desk!Forget
    <3>1. desk' = [desk EXCEPT !.cached = {}]
      BY <2>5 DEF Desk!Forget
    <3>2. IsDesk(desk') /\ desk'.slot = desk.slot /\ desk'.pending = desk.pending
      BY <1>1, <3>1 DEF Telling, Asking, Placed, IsDesk
    <3> QED
      BY <1>1, <3>2, SameTelling
  <2>6. CASE \E found \in SUBSET Player : Desk!AdmitSeed(found)
    BY <1>1, <2>6, SeedTells
  <2>7. CASE \E k \in DOMAIN desk.pending : \E found \in SUBSET k.players : Desk!Answer(k, found)
    BY <1>1, <2>7, AnswerTells
  <2>8. CASE UNCHANGED Desk!vars
    BY <1>1, <2>8 DEF Desk!vars
  <2> QED
    BY <2>1, <2>2, <2>3, <2>4, <2>5, <2>6, <2>7, <2>8 DEF Desk!Next
<1>4. DeskIInv' <=> link' \in [1..2 -> DeskLink] /\ Telling(desk')
  BY DEF DeskIInv, Telling, Asking, Placed, IsDesk, Table, AsksOnce, Tells, Waited, WaitsAt,
         DeskSlot
<1> QED
  BY <1>1, <1>2, <1>3, <1>4

LEMMA DeskShowsAsked == DeskIInv => Desk!ShowsAsked
<1> SUFFICES ASSUME DeskIInv, NEW s \in Desk!Slot
             PROVE  LET slot == desk.slot[s]
                        waits == \E k \in DOMAIN desk.pending : \E c \in desk.pending[k] :
                                    /\ k.section = "overview" /\ c.slot = s
                                    /\ c.live /\ c.version = slot.version
                    IN  /\ slot.loading <=> waits
                        /\ slot.asked # None /\ ~slot.loading /\ ~slot.error =>
                              slot.shown = slot.asked
  BY DEF Desk!ShowsAsked
<1>1. Tells(desk, s)
  BY DEF DeskIInv, Telling
<1>2. Waited(desk, s) # {} <=>
         \E k \in DOMAIN desk.pending : \E c \in desk.pending[k] :
            /\ k.section = "overview" /\ c.slot = s
            /\ c.live /\ c.version = desk.slot[s].version
  BY DEF Waited, WaitsAt
<1> QED
  BY <1>1, <1>2 DEF Tells

DeskPart == part = "desk" => DeskIInv

LEMMA DeskInit == Init => DeskPart
<1> SUFFICES ASSUME Init, part = "desk" PROVE DeskIInv
  BY DEF DeskPart
<1>1. Desk!Init
  BY DEF Init
<1> QED
  BY <1>1, DeskInitIInv

LEMMA DeskNext == DeskPart /\ [Next]_all => DeskPart'
<1> SUFFICES ASSUME DeskPart, [Next]_all, part' = "desk" PROVE DeskIInv'
  BY DEF DeskPart
<1>1. part = "desk" /\ [Desk!Next]_(Desk!vars)
  BY DEF Next, all, deskVars, Desk!vars, OfPrices, OfManage
<1> QED
  BY <1>1, DeskNextIInv DEF DeskPart

\* Each slot of the desk shows whom it last asked for, unless that failed, and says that
\* it loads exactly while it waits, of any players and however the answers come
\* (usePlayerDetailSlot.ts and player-stats-desk-client.ts).
THEOREM ShowsAskedHolds == Spec => []ShowsAsked
<1>1. DeskPart => ShowsAsked
  BY DeskShowsAsked DEF DeskPart, ShowsAsked
<1> QED
  BY <1>1, DeskInit, DeskNext, PTL DEF Spec

-----------------------------------------------------------------------------
(* The substitutions.                                                      *)

\* The least of some positions is one of them.
LEMMA LeastPosition ==
    ASSUME NEW S, S \subseteq 1..15, S # {}
    PROVE  /\ Subs!Min(S) \in S
           /\ \A p \in S : Subs!Min(S) <= p
<1> DEFINE Least(p) == \A q \in S : p <= q
<1>1. ASSUME ~ \E p \in S : Least(p)
      PROVE  FALSE
  <2>1. \A p \in S : p \in Int /\ p <= 15 /\ p > 0
    OBVIOUS
  <2>2. \A p \in S : \E q \in S : q < p
    BY <1>1, <2>1
  <2>3. \A p \in S : p > 3
    BY <2>1, <2>2
  <2>4. \A p \in S : p > 6
    BY <2>1, <2>2, <2>3
  <2>5. \A p \in S : p > 9
    BY <2>1, <2>2, <2>4
  <2>6. \A p \in S : p > 12
    BY <2>1, <2>2, <2>5
  <2>7. \A p \in S : p > 15
    BY <2>1, <2>2, <2>6
  <2>8. PICK p \in S : TRUE
    OBVIOUS
  <2> QED
    BY <2>1, <2>7, <2>8
<1>2. Subs!Min(S) = CHOOSE p \in S : Least(p)
  BY DEF Subs!Min
<1> HIDE DEF Least
<1>3. Subs!Min(S) \in S /\ Least(Subs!Min(S))
  BY <1>1, <1>2
<1> QED
  BY <1>3 DEF Least

\* The active picks of type t, and how many they are.
SubsOfType(T, active, t) == {p \in active : T[p] = t}
SubsCount(T, active, t) == Cardinality(SubsOfType(T, active, t))

\* The instance has a Cardinality of its own, which is the same.
LEMMA SameCardinality == \A S : Subs!Cardinality(S) = Cardinality(S)
BY DEF Subs!Cardinality, Cardinality

\* A formation in counts.
LEMMA FormationCounts ==
    ASSUME NEW T, NEW active
    PROVE  Subs!IsValidFormation(T, active) <=>
             /\ Cardinality(active) = 11 /\ SubsCount(T, active, 1) = 1
             /\ SubsCount(T, active, 2) \in 3..5 /\ SubsCount(T, active, 3) \in 2..5
             /\ SubsCount(T, active, 4) \in 1..3
<1>1. \A t : SubsCount(T, active, t) = Subs!Cardinality({p \in active : T[p] = t})
  BY SameCardinality, Zenon DEF SubsCount, SubsOfType
<1>2. Cardinality(active) = Subs!Cardinality(active)
  BY SameCardinality
<1> QED
  BY <1>1, <1>2, Zenon DEF Subs!IsValidFormation

LEMMA PositionsFinite ==
    ASSUME NEW A, A \subseteq 1..15
    PROVE  IsFiniteSet(A) /\ Cardinality(A) \in Nat
<1>1. IsFiniteSet(1..15)
  BY 1 \in Int, 15 \in Int, FS_Interval, Zenon
<1> QED
  BY <1>1, FS_Subset, FS_CardinalityType

\* Every pick is of one of the four types.
LEMMA ElevenStarters == Cardinality(1..11) = 11
<1>1. Cardinality(1..11) = IF 1 > 11 THEN 0 ELSE 11 - 1 + 1
  BY 1 \in Int, 11 \in Int, FS_Interval, Zenon
<1> QED
  BY <1>1

LEMMA DisjointUnion ==
    ASSUME NEW S, NEW U, IsFiniteSet(S), IsFiniteSet(U), S \cap U = {}
    PROVE  /\ IsFiniteSet(S \cup U)
           /\ Cardinality(S \cup U) = Cardinality(S) + Cardinality(U)
<1>1. Cardinality(S \cap U) = 0
  BY FS_EmptySet
<1>2. Cardinality(S) \in Nat /\ Cardinality(U) \in Nat
  BY FS_CardinalityType
<1>3. /\ IsFiniteSet(S \cup U)
      /\ Cardinality(S \cup U) = Cardinality(S) + Cardinality(U) - Cardinality(S \cap U)
  BY FS_Union
<1> QED
  BY <1>1, <1>2, <1>3

LEMMA CountsAddUp ==
    ASSUME NEW T \in [1..15 -> 1..4], NEW A, A \subseteq 1..15
    PROVE  /\ \A t \in 1..4 : SubsCount(T, A, t) \in Nat
           /\ Cardinality(A) = SubsCount(T, A, 1) + SubsCount(T, A, 2)
                                + SubsCount(T, A, 3) + SubsCount(T, A, 4)
<1> DEFINE S1 == SubsOfType(T, A, 1)
           S2 == SubsOfType(T, A, 2)
           S3 == SubsOfType(T, A, 3)
           S4 == SubsOfType(T, A, 4)
<1>1. \A t \in 1..4 : SubsOfType(T, A, t) \subseteq 1..15
  BY DEF SubsOfType
<1>2. \A t \in 1..4 : /\ IsFiniteSet(SubsOfType(T, A, t))
                      /\ Cardinality(SubsOfType(T, A, t)) \in Nat
  BY <1>1, PositionsFinite
<1>3. /\ IsFiniteSet(S1) /\ IsFiniteSet(S2) /\ IsFiniteSet(S3) /\ IsFiniteSet(S4)
      /\ Cardinality(S1) \in Nat /\ Cardinality(S2) \in Nat
      /\ Cardinality(S3) \in Nat /\ Cardinality(S4) \in Nat
  BY <1>2
<1>4. /\ S1 \cap S2 = {} /\ (S1 \cup S2) \cap S3 = {}
      /\ (S1 \cup S2 \cup S3) \cap S4 = {}
      /\ S1 \cup S2 \cup S3 \cup S4 = A
  <2>1. \A p \in A : T[p] = 1 \/ T[p] = 2 \/ T[p] = 3 \/ T[p] = 4
    <3>1. \A p \in A : T[p] \in 1..4
      OBVIOUS
    <3> QED
      BY <3>1
  <2>2. \A t \in 1..4 : \A p : p \in SubsOfType(T, A, t) <=> p \in A /\ T[p] = t
    BY DEF SubsOfType
  <2> HIDE DEF S1, S2, S3, S4
  <2>3. \A p : /\ p \in S1 <=> p \in A /\ T[p] = 1
               /\ p \in S2 <=> p \in A /\ T[p] = 2
               /\ p \in S3 <=> p \in A /\ T[p] = 3
               /\ p \in S4 <=> p \in A /\ T[p] = 4
    BY <2>2 DEF S1, S2, S3, S4
  <2>4. S1 \cup S2 \cup S3 \cup S4 = A
    <3>1. \A p : p \in A <=> p \in S1 \/ p \in S2 \/ p \in S3 \/ p \in S4
      BY <2>1, <2>3
    <3> QED
      BY <3>1
  <2>5. /\ S1 \cap S2 = {} /\ (S1 \cup S2) \cap S3 = {}
        /\ (S1 \cup S2 \cup S3) \cap S4 = {}
    BY <2>3
  <2> QED
    BY <2>4, <2>5
<1> HIDE DEF S1, S2, S3, S4
<1>5. /\ IsFiniteSet(S1 \cup S2)
      /\ Cardinality(S1 \cup S2) = Cardinality(S1) + Cardinality(S2)
  BY <1>3, <1>4, DisjointUnion
<1>6. /\ IsFiniteSet((S1 \cup S2) \cup S3)
      /\ Cardinality((S1 \cup S2) \cup S3) = Cardinality(S1 \cup S2) + Cardinality(S3)
  BY <1>3, <1>4, <1>5, DisjointUnion
<1>7. Cardinality(((S1 \cup S2) \cup S3) \cup S4)
        = Cardinality((S1 \cup S2) \cup S3) + Cardinality(S4)
  BY <1>3, <1>4, <1>6, DisjointUnion
<1>8. ((S1 \cup S2) \cup S3) \cup S4 = A
  BY <1>4
<1> QED
  BY <1>2, <1>3, <1>5, <1>6, <1>7, <1>8 DEF S1, S2, S3, S4, SubsCount

\* What a swap does to the counts.
LEMMA SwapCounts ==
    ASSUME NEW T \in [1..15 -> 1..4], NEW A, A \subseteq 1..15, NEW p \in A, NEW k \in 1..15,
           k \notin A
    PROVE  /\ Subs!Swapped(A, p, k) \subseteq 1..15
           /\ Cardinality(Subs!Swapped(A, p, k)) = Cardinality(A)
           /\ \A t \in 1..4 :
                SubsCount(T, Subs!Swapped(A, p, k), t)
                    = SubsCount(T, A, t) - (IF T[p] = t THEN 1 ELSE 0)
                                         + (IF T[k] = t THEN 1 ELSE 0)
<1> DEFINE B == Subs!Swapped(A, p, k)
<1>1. B = (A \ {p}) \cup {k} /\ B \subseteq 1..15
  BY DEF Subs!Swapped
<1>2. Cardinality(B) = Cardinality(A)
  <2>1. IsFiniteSet(A) /\ Cardinality(A) \in Nat
    BY PositionsFinite
  <2>2. IsFiniteSet(A \ {p}) /\ Cardinality(A \ {p}) = Cardinality(A) - 1
    BY <2>1, FS_RemoveElement
  <2>3. Cardinality(B) = Cardinality(A \ {p}) + 1
    BY <1>1, <2>2, FS_AddElement
  <2> QED
    BY <2>1, <2>2, <2>3
<1>3. ASSUME NEW t \in 1..4
      PROVE  SubsCount(T, B, t) = SubsCount(T, A, t) - (IF T[p] = t THEN 1 ELSE 0)
                                                     + (IF T[k] = t THEN 1 ELSE 0)
  <2> DEFINE S == SubsOfType(T, A, t)
             R == S \ {p}
  <2>1. S \subseteq 1..15
    BY DEF SubsOfType
  <2>2. IsFiniteSet(S) /\ Cardinality(S) \in Nat
    BY <2>1, PositionsFinite
  <2>3. p \in S <=> T[p] = t
    BY DEF SubsOfType
  <2>4. k \notin R
    BY DEF SubsOfType
  <2>5. SubsOfType(T, B, t) = IF T[k] = t THEN R \cup {k} ELSE R
    BY <1>1 DEF SubsOfType
  <2> HIDE DEF S
  <2>6. /\ IsFiniteSet(R)
        /\ Cardinality(R) = Cardinality(S) - (IF T[p] = t THEN 1 ELSE 0)
    <3>1. /\ IsFiniteSet(R)
          /\ Cardinality(R) = IF p \in S THEN Cardinality(S) - 1 ELSE Cardinality(S)
      BY <2>2, FS_RemoveElement
    <3> QED
      BY <2>2, <2>3, <3>1
  <2> HIDE DEF R
  <2>7. Cardinality(R \cup {k}) = Cardinality(R) + 1
    BY <2>4, <2>6, FS_AddElement
  <2>8. Cardinality(SubsOfType(T, B, t)) = Cardinality(R) + (IF T[k] = t THEN 1 ELSE 0)
    <3>1. Cardinality(R) \in Int
      BY <2>2, <2>6
    <3>2. CASE T[k] = t
      BY <2>5, <2>7, <3>2
    <3>3. CASE T[k] # t
      BY <2>5, <3>1, <3>3
    <3> QED
      BY <3>2, <3>3
  <2> QED
    BY <2>2, <2>6, <2>8 DEF SubsCount, S
<1> QED
  BY <1>1, <1>2, <1>3

\* The heart of it.  A lineup A that keeps all of the formation X but some of W, and has
\* k besides, shows that one of W may make room for k: otherwise A has one more of the
\* type of k, and of no other type fewer, than X has.
LEMMA Exchange ==
    ASSUME NEW T \in [1..15 -> 1..4],
           NEW X, X \subseteq 1..15, Subs!IsValidFormation(T, X),
           NEW A, A \subseteq 1..15, Subs!IsValidFormation(T, A),
           NEW W, W \subseteq X, X \ W \subseteq A,
           NEW k \in A, k \notin X
    PROVE  \E p \in W : Subs!IsValidFormation(T, Subs!Swapped(X, p, k))
<1> DEFINE x(t) == SubsCount(T, X, t)
           a(t) == SubsCount(T, A, t)
<1>1. k \in 1..15 /\ T[k] \in 1..4
  OBVIOUS
<1>2. /\ \A t \in 1..4 : x(t) \in Nat /\ a(t) \in Nat
      /\ Cardinality(X) = x(1) + x(2) + x(3) + x(4)
      /\ Cardinality(A) = a(1) + a(2) + a(3) + a(4)
  BY CountsAddUp
<1>3. /\ Cardinality(X) = 11 /\ x(1) = 1 /\ x(2) \in 3..5 /\ x(3) \in 2..5 /\ x(4) \in 1..3
      /\ Cardinality(A) = 11 /\ a(1) = 1 /\ a(2) \in 3..5 /\ a(3) \in 2..5 /\ a(4) \in 1..3
  BY FormationCounts
<1>4. SUFFICES ASSUME \A p \in W : ~Subs!IsValidFormation(T, Subs!Swapped(X, p, k))
               PROVE  FALSE
  OBVIOUS
<1>5. ASSUME NEW p \in W
      PROVE  /\ T[p] \in 1..4
             /\ ~ LET c(t) == x(t) - (IF T[p] = t THEN 1 ELSE 0) + (IF T[k] = t THEN 1 ELSE 0)
                  IN  c(1) = 1 /\ c(2) \in 3..5 /\ c(3) \in 2..5 /\ c(4) \in 1..3
  <2> DEFINE B == Subs!Swapped(X, p, k)
  <2>1. /\ Cardinality(B) = Cardinality(X)
        /\ \A t \in 1..4 : SubsCount(T, B, t) = x(t) - (IF T[p] = t THEN 1 ELSE 0)
                                                     + (IF T[k] = t THEN 1 ELSE 0)
    BY <1>1, SwapCounts
  <2>2. ~Subs!IsValidFormation(T, B)
    BY <1>4
  <2>3. ~ /\ Cardinality(B) = 11 /\ SubsCount(T, B, 1) = 1
          /\ SubsCount(T, B, 2) \in 3..5 /\ SubsCount(T, B, 3) \in 2..5
          /\ SubsCount(T, B, 4) \in 1..3
    BY <2>2, FormationCounts
  <2> HIDE DEF B, x
  <2>4. T[p] \in 1..4
    OBVIOUS
  <2> QED
    BY <1>3, <2>1, <2>3, <2>4
<1>6. \A t \in 1..4 : (\A p \in W : T[p] # t) => a(t) >= x(t)
  <2> SUFFICES ASSUME NEW t \in 1..4, \A p \in W : T[p] # t PROVE a(t) >= x(t)
    OBVIOUS
  <2>1. SubsOfType(T, X, t) \subseteq SubsOfType(T, A, t)
    BY DEF SubsOfType
  <2>2. SubsOfType(T, A, t) \subseteq 1..15
    BY DEF SubsOfType
  <2>3. IsFiniteSet(SubsOfType(T, A, t))
    BY <2>2, PositionsFinite
  <2> QED
    BY <2>1, <2>3, FS_Subset DEF SubsCount
<1>7. (\A p \in W : T[p] # T[k]) => a(T[k]) >= x(T[k]) + 1
  <2> SUFFICES ASSUME \A p \in W : T[p] # T[k] PROVE a(T[k]) >= x(T[k]) + 1
    OBVIOUS
  <2> DEFINE S == SubsOfType(T, X, T[k])
             R == SubsOfType(T, A, T[k])
  <2>1. k \notin S /\ S \cup {k} \subseteq R /\ S \subseteq 1..15 /\ R \subseteq 1..15
    BY <1>1 DEF SubsOfType
  <2> HIDE DEF S, R
  <2>2. /\ IsFiniteSet(S) /\ Cardinality(S) \in Nat
        /\ IsFiniteSet(R) /\ Cardinality(R) \in Nat
    BY <2>1, PositionsFinite
  <2>3. Cardinality(S \cup {k}) = Cardinality(S) + 1
    BY <2>1, <2>2, FS_AddElement
  <2>4. Cardinality(S \cup {k}) <= Cardinality(R)
    BY <2>1, <2>2, FS_Subset
  <2> QED
    BY <2>2, <2>3, <2>4 DEF S, R, SubsCount
<1> HIDE DEF x, a
<1>8. \A p \in W : T[p] # T[k]
  <2> SUFFICES ASSUME NEW p \in W, T[p] = T[k] PROVE FALSE
    OBVIOUS
  <2> QED
    BY <1>2, <1>3, <1>5
<1>9. ASSUME NEW t \in 1..4, t # T[k]
      PROVE  a(t) >= x(t)
  <2>1. CASE \A p \in W : T[p] # t
    BY <1>6, <2>1
  <2>2. CASE \E p \in W : T[p] = t
    <3>1. PICK p \in W : T[p] = t
      BY <2>2
    <3>2. a(T[k]) >= x(T[k]) + 1
      BY <1>7, <1>8
    <3>3. ~ LET c(u) == x(u) - (IF t = u THEN 1 ELSE 0) + (IF T[k] = u THEN 1 ELSE 0)
            IN  c(1) = 1 /\ c(2) \in 3..5 /\ c(3) \in 2..5 /\ c(4) \in 1..3
      BY <1>5, <3>1
    <3> QED
      BY <1>1, <1>2, <1>3, <1>9, <3>2, <3>3
  <2> QED
    BY <2>1, <2>2
<1>10. a(T[k]) >= x(T[k]) + 1
  BY <1>7, <1>8
<1> QED
  BY <1>1, <1>2, <1>3, <1>9, <1>10

\* A squad that starts in a valid formation.
SubsSquadOK(s) ==
    /\ s \in [elementType : [1..15 -> 1..4], out : SUBSET (1..15)]
    /\ Subs!IsValidFormation(s.elementType, 1..11)

\* What the bench can field.
Fielded(s, active) ==
    /\ active \subseteq 1..15 /\ Subs!IsValidFormation(s.elementType, active)
    /\ (1..11) \ s.out \subseteq active
    /\ active \cap (12..15) \cap s.out = {}

\* The loop of the prediction before it tries k.
BeforeTry(s, k, x) ==
    /\ x.active \subseteq 1..(k - 1) /\ Subs!IsValidFormation(s.elementType, x.active)
    /\ x.waiting = x.active \cap (1..11) \cap s.out
    /\ (1..11) \ s.out \subseteq x.active
    /\ x.active \cap (12..15) \cap s.out = {}

\* Who may make room for k.
SubsFits(s, x, k) == Subs!Replaceable(s, x.active, x.waiting, k)

\* Somebody whom the bench can field instead of what has been chosen so far fits.
LEMMA PassedOver ==
    ASSUME NEW s, SubsSquadOK(s), NEW k \in 12..15, NEW x, BeforeTry(s, k, x),
           NEW A, Fielded(s, A), k \in A,
           \A q \in 12..(k - 1) : q \in A <=> q \in x.active
    PROVE  k \notin s.out /\ SubsFits(s, x, k) # {}
<1> DEFINE T == s.elementType
           X == x.active
           W == x.waiting
<1>1. T \in [1..15 -> 1..4]
  BY DEF SubsSquadOK
<1>2. X \subseteq 1..15 /\ Subs!IsValidFormation(T, X) /\ W \subseteq X /\ k \notin X
  BY DEF BeforeTry
<1>3. A \subseteq 1..15 /\ Subs!IsValidFormation(T, A)
  BY DEF Fielded
<1>4. X \ W \subseteq A
  BY DEF BeforeTry, Fielded
<1>5. k \notin s.out
  BY DEF Fielded
<1> HIDE DEF X, W, T
<1>6. \E p \in W : Subs!IsValidFormation(T, Subs!Swapped(X, p, k))
  BY <1>1, <1>2, <1>3, <1>4, Exchange
<1> QED
  BY <1>5, <1>6 DEF SubsFits, Subs!Replaceable, X, W, T

\* The state after k has come on.
SubsMoved(s, k, x) == Subs!Substituted(x, Subs!Min(SubsFits(s, x, k)), k)

\* One turn of the loop of the prediction.
LEMMA TryStep ==
    ASSUME NEW s, SubsSquadOK(s), NEW k \in 12..15, NEW x, BeforeTry(s, k, x),
           NEW y, y = Subs!TryBench(s, x, k)
    PROVE  /\ BeforeTry(s, k + 1, y)
           /\ y.active \cap (1..11) \subseteq x.active
           /\ \A q \in 12..(k - 1) : q \in y.active <=> q \in x.active
           /\ k \in y.active =>
                /\ SubsFits(s, x, k) # {} /\ Subs!Min(SubsFits(s, x, k)) \in SubsFits(s, x, k)
                /\ y = SubsMoved(s, k, x)
                /\ Subs!Min(SubsFits(s, x, k)) \notin y.active
           /\ k \notin y.active => y = x /\ (k \in s.out \/ SubsFits(s, x, k) = {})
<1> DEFINE fits == SubsFits(s, x, k)
           p == Subs!Min(fits)
<1>1. fits \subseteq x.waiting /\ x.waiting \subseteq x.active
  BY DEF SubsFits, Subs!Replaceable, BeforeTry
<1>2. k \notin x.active /\ x.active \subseteq 1..15 /\ x.waiting \subseteq 1..11
  BY DEF BeforeTry
<1>3. y = IF k \in s.out \/ fits = {} THEN x ELSE SubsMoved(s, k, x)
  BY DEF SubsFits, SubsMoved, Subs!TryBench
<1>4. CASE k \in s.out \/ fits = {}
  <2>1. y = x
    BY <1>3, <1>4
  <2>2. BeforeTry(s, k + 1, x)
    BY DEF BeforeTry
  <2> QED
    BY <1>2, <1>4, <2>1, <2>2
<1>5. CASE k \notin s.out /\ fits # {}
  <2>1. y = SubsMoved(s, k, x)
    BY <1>3, <1>5
  <2>2. fits \subseteq 1..15
    BY <1>1, <1>2
  <2>3. p \in fits
    BY <1>5, <2>2, LeastPosition
  <2>4. y.active = (x.active \ {p}) \cup {k} /\ y.waiting = x.waiting \ {p}
    BY <2>1 DEF SubsMoved, Subs!Substituted, Subs!Swapped
  <2>5. Subs!IsValidFormation(s.elementType, y.active)
    <3>1. Subs!IsValidFormation(s.elementType, Subs!Swapped(x.active, p, k))
      BY <2>3 DEF SubsFits, Subs!Replaceable
    <3> QED
      BY <2>4, <3>1 DEF Subs!Swapped
  <2>6. p \in x.waiting
    BY <1>1, <2>3
  <2> HIDE DEF fits, p
  <2>7. p \in 1..11 /\ p \in s.out /\ p \in x.active
    BY <2>6 DEF BeforeTry
  <2>8. BeforeTry(s, k + 1, y)
    <3>1. y.active \subseteq 1..((k + 1) - 1)
      BY <2>4 DEF BeforeTry
    <3>2. y.waiting = y.active \cap (1..11) \cap s.out
      BY <2>4, <2>7 DEF BeforeTry
    <3>3. (1..11) \ s.out \subseteq y.active
      BY <2>4, <2>7 DEF BeforeTry
    <3>4. y.active \cap (12..15) \cap s.out = {}
      BY <2>4, <1>5 DEF BeforeTry
    <3> QED
      BY <2>5, <3>1, <3>2, <3>3, <3>4 DEF BeforeTry
  <2>9. p \notin y.active /\ k \in y.active
    BY <2>4, <2>7
  <2>10. /\ y.active \cap (1..11) \subseteq x.active
         /\ \A q \in 12..(k - 1) : q \in y.active <=> q \in x.active
    BY <2>4, <2>7
  <2> QED
    BY <1>5, <2>1, <2>3, <2>8, <2>9, <2>10 DEF fits, p
<1> QED
  BY <1>4, <1>5

LEMMA TryNext ==
    ASSUME NEW s, SubsSquadOK(s), NEW k \in 12..15, NEW x, BeforeTry(s, k, x)
    PROVE  BeforeTry(s, k + 1, Subs!TryBench(s, x, k))
BY TryStep

\* The loop before it tries k, of which P comes out.
Towards(s, k, x, P) ==
    /\ BeforeTry(s, k, x)
    /\ P \cap (1..11) \subseteq x.active
    /\ \A q \in 12..(k - 1) : q \in P <=> q \in x.active

LEMMA TowardsBack ==
    ASSUME NEW s, SubsSquadOK(s), NEW k \in 12..15, NEW x, BeforeTry(s, k, x), NEW P,
           Towards(s, k + 1, Subs!TryBench(s, x, k), P)
    PROVE  Towards(s, k, x, P)
<1> DEFINE y == Subs!TryBench(s, x, k)
<1>1. /\ y.active \cap (1..11) \subseteq x.active
      /\ \A q \in 12..(k - 1) : q \in y.active <=> q \in x.active
  BY TryStep
<1>2. /\ P \cap (1..11) \subseteq y.active
      /\ \A q \in 12..((k + 1) - 1) : q \in P <=> q \in y.active
  BY DEF Towards
<1> HIDE DEF y
<1>3. P \cap (1..11) \subseteq x.active
  BY <1>1, <1>2
<1>4. \A q \in 12..(k - 1) : q \in P <=> q \in x.active
  BY <1>1, <1>2
<1> QED
  BY <1>3, <1>4 DEF Towards

\* The states of the loop of the prediction, each before the pick it tries.
Tried12(s) == Subs!Begun(Subs!Starters \cap s.out)
Tried13(s) == Subs!TryBench(s, Tried12(s), 12)
Tried14(s) == Subs!TryBench(s, Tried13(s), 13)
Tried15(s) == Subs!TryBench(s, Tried14(s), 14)

LEMMA PredictRun ==
    ASSUME NEW s, SubsSquadOK(s), NEW P, P = Subs!Predict(s).active
    PROVE  /\ Subs!Predict(s) = Subs!TryBench(s, Tried15(s), 15)
           /\ Towards(s, 12, Tried12(s), P) /\ Towards(s, 13, Tried13(s), P)
           /\ Towards(s, 14, Tried14(s), P) /\ Towards(s, 15, Tried15(s), P)
           /\ Towards(s, 16, Subs!Predict(s), P)
<1>1. Subs!Predict(s) = Subs!TryBench(s, Tried15(s), 15)
  BY Zenon DEF Subs!Predict, Tried12, Tried13, Tried14, Tried15
<1>2. /\ 12 \in 12..15 /\ 13 \in 12..15 /\ 14 \in 12..15 /\ 15 \in 12..15
      /\ 13 = 12 + 1 /\ 14 = 13 + 1 /\ 15 = 14 + 1 /\ 16 = 15 + 1
  OBVIOUS
<1>3. BeforeTry(s, 12, Tried12(s))
  <2>1. Tried12(s).active = 1..11 /\ Tried12(s).waiting = (1..11) \cap s.out
    BY DEF Tried12, Subs!Begun, Subs!Starters
  <2>2. (1..11) \cap (12..15) = {}
    OBVIOUS
  <2> QED
    BY <2>1, <2>2 DEF BeforeTry, SubsSquadOK
<1>4. BeforeTry(s, 12 + 1, Tried13(s))
  BY <1>2, <1>3, TryNext, Zenon DEF Tried13
<1>5. BeforeTry(s, 13 + 1, Tried14(s))
  BY <1>2, <1>4, TryNext, Zenon DEF Tried14
<1>6. BeforeTry(s, 14 + 1, Tried15(s))
  BY <1>2, <1>5, TryNext, Zenon DEF Tried15
<1>7. BeforeTry(s, 15 + 1, Subs!Predict(s))
  BY <1>1, <1>2, <1>6, TryNext, Zenon
<1>8. Towards(s, 15 + 1, Subs!Predict(s), P)
  BY <1>7 DEF Towards
<1>9. Towards(s, 14 + 1, Tried15(s), P)
  <2>1. Towards(s, 15 + 1, Subs!TryBench(s, Tried15(s), 15), P)
    BY <1>1, <1>8
  <2>2. BeforeTry(s, 15, Tried15(s))
    BY <1>2, <1>6
  <2>3. Towards(s, 15, Tried15(s), P)
    BY <1>2, <2>1, <2>2, TowardsBack, Zenon
  <2> QED
    BY <1>2, <2>3
<1>10. Towards(s, 13 + 1, Tried14(s), P)
  BY <1>2, <1>5, <1>9, TowardsBack, Zenon DEF Tried15
<1>11. Towards(s, 12 + 1, Tried13(s), P)
  BY <1>2, <1>4, <1>10, TowardsBack, Zenon DEF Tried14
<1>12. Towards(s, 12, Tried12(s), P)
  BY <1>2, <1>3, <1>11, TowardsBack, Zenon DEF Tried13
<1> QED
  BY <1>1, <1>2, <1>8, <1>9, <1>10, <1>11, <1>12, Zenon

\* No lineup agrees with the prediction on the bench before k and fields k besides.
LEMMA NotPassedOver ==
    ASSUME NEW s, SubsSquadOK(s), NEW k \in 12..15, NEW x, NEW P, Towards(s, k, x, P),
           Towards(s, k + 1, Subs!TryBench(s, x, k), P),
           NEW A, Fielded(s, A), k \in A, \A q \in 12..(k - 1) : q \in A <=> q \in P
    PROVE  k \in P
<1> DEFINE y == Subs!TryBench(s, x, k)
<1>1. BeforeTry(s, k, x) /\ \A q \in 12..(k - 1) : q \in A <=> q \in x.active
  BY DEF Towards
<1>2. k \notin s.out /\ SubsFits(s, x, k) # {}
  BY <1>1, PassedOver
<1>3. k \in y.active
  BY <1>1, <1>2, TryStep
<1> QED
  BY <1>3 DEF Towards

\* The prediction can be fielded, and nothing that can be fielded is before it.
LEMMA PredictBest ==
    ASSUME NEW s, SubsSquadOK(s), NEW P, P = Subs!Predict(s).active
    PROVE  /\ Fielded(s, P)
           /\ \A A : Fielded(s, A) => ~Subs!Before(A, P)
<1>1. Fielded(s, P)
  <2>1. BeforeTry(s, 16, Subs!Predict(s))
    BY PredictRun DEF Towards
  <2> QED
    BY <2>1 DEF BeforeTry, Fielded
<1>2. ASSUME NEW A, Fielded(s, A), NEW k \in 12..15, k \in A, k \notin P,
             \A q \in 12..15 : q < k => (q \in A <=> q \in P)
      PROVE  FALSE
  <2>1. \A q \in 12..(k - 1) : q \in A <=> q \in P
    BY <1>2
  <2>2. /\ 13 = 12 + 1 /\ 14 = 13 + 1 /\ 15 = 14 + 1 /\ 16 = 15 + 1
    OBVIOUS
  <2>3. /\ Towards(s, 12, Tried12(s), P)
        /\ Towards(s, 12 + 1, Subs!TryBench(s, Tried12(s), 12), P)
        /\ Towards(s, 13, Tried13(s), P)
        /\ Towards(s, 13 + 1, Subs!TryBench(s, Tried13(s), 13), P)
        /\ Towards(s, 14, Tried14(s), P)
        /\ Towards(s, 14 + 1, Subs!TryBench(s, Tried14(s), 14), P)
        /\ Towards(s, 15, Tried15(s), P)
        /\ Towards(s, 15 + 1, Subs!TryBench(s, Tried15(s), 15), P)
    BY <2>2, PredictRun DEF Tried13, Tried14, Tried15
  <2>4. \A x : Towards(s, k, x, P) => ~Towards(s, k + 1, Subs!TryBench(s, x, k), P)
    BY <1>2, <2>1, NotPassedOver
  <2>5. k = 12 \/ k = 13 \/ k = 14 \/ k = 15
    OBVIOUS
  <2> QED
    BY <2>3, <2>4, <2>5
<1> QED
  BY <1>1, <1>2 DEF Subs!Before, Subs!Bench

\* The loop of the publication of A before it pairs k: the players presented are those of
\* the places of starters.
BeforePair(A, k, y) ==
    /\ y.active \subseteq 1..(k - 1) /\ Cardinality(y.active) = 11
    /\ y.waiting = (y.active \cap (1..11)) \ A
    /\ A \cap (1..11) \subseteq y.active
    /\ \A q \in 12..(k - 1) : q \in A <=> q \in y.active
    /\ y.at \in [1..15 -> 1..15]
    /\ \A p \in 1..15 : p \in y.active <=> y.at[p] \in 1..11

\* Whoever goes is one of those who wait to go.
LEMMA OutgoingWaits ==
    ASSUME NEW s, NEW k, NEW y, y.waiting \subseteq 1..15, y.waiting # {}
    PROVE  Subs!Outgoing(s, y, k) \in y.waiting
<1> DEFINE fits == Subs!Replaceable(s, y.active, y.waiting, k)
           same == Subs!SameRole(s, y.waiting, k)
<1>1. fits \subseteq y.waiting /\ same \subseteq y.waiting
  BY DEF Subs!Replaceable, Subs!SameRole
<1>2. Subs!Outgoing(s, y, k) = CASE fits # {} -> Subs!Min(fits)
                                 [] fits = {} /\ same # {} -> Subs!Min(same)
                                 [] fits = {} /\ same = {} -> Subs!Min(y.waiting)
  BY DEF Subs!Outgoing
<1> HIDE DEF fits, same
<1>3. CASE fits # {}
  <2>1. Subs!Min(fits) \in fits
    BY <1>1, <1>3, LeastPosition
  <2> QED
    BY <1>1, <1>2, <1>3, <2>1
<1>4. CASE fits = {} /\ same # {}
  <2>1. Subs!Min(same) \in same
    BY <1>1, <1>4, LeastPosition
  <2> QED
    BY <1>1, <1>2, <1>4, <2>1
<1>5. CASE fits = {} /\ same = {}
  <2>1. Subs!Min(y.waiting) \in y.waiting
    BY LeastPosition
  <2> QED
    BY <1>2, <1>5, <2>1
<1> QED
  BY <1>3, <1>4, <1>5

\* As many are active as are presented, so that whoever comes on finds one to go.
LEMMA SomebodyWaits ==
    ASSUME NEW A, A \subseteq 1..15, Cardinality(A) = 11, NEW k \in 12..15, k \in A,
           NEW y, BeforePair(A, k, y)
    PROVE  y.waiting # {}
<1> SUFFICES ASSUME y.waiting = {} PROVE FALSE
  OBVIOUS
<1> DEFINE X == y.active
<1>1. X \subseteq A
  BY DEF BeforePair
<1>2. k \notin X /\ Cardinality(X) = 11
  BY DEF BeforePair
<1> HIDE DEF X
<1>3. IsFiniteSet(A)
  BY PositionsFinite
<1> QED
  BY <1>1, <1>2, <1>3, FS_Subset

LEMMA PairStep ==
    ASSUME NEW A, A \subseteq 1..15, Cardinality(A) = 11, NEW k \in 12..15, NEW s,
           NEW y, BeforePair(A, k, y)
    PROVE  BeforePair(A, k + 1, Subs!Pair(s, A, y, k))
<1> DEFINE z == Subs!Pair(s, A, y, k)
           p == Subs!Outgoing(s, y, k)
<1>1. CASE k \notin A
  <2>1. z = y
    BY <1>1 DEF Subs!Pair
  <2>2. y.active \subseteq 1..((k + 1) - 1) /\ k \notin y.active
    BY DEF BeforePair
  <2>3. \A q \in 12..((k + 1) - 1) : q \in A <=> q \in y.active
    BY <1>1, <2>2 DEF BeforePair
  <2> QED
    BY <2>1, <2>2, <2>3 DEF BeforePair
<1>2. CASE k \in A
  <2>1. y.waiting # {}
    BY <1>2, SomebodyWaits
  <2>2. p \in y.waiting
    <3>1. y.waiting \subseteq 1..15
      BY DEF BeforePair
    <3> QED
      BY <2>1, <3>1, OutgoingWaits
  <2>3. z = Subs!Substituted(y, p, k)
    BY <1>2, <2>1 DEF Subs!Pair
  <2> HIDE DEF p, z
  <2>4. /\ z.active = Subs!Swapped(y.active, p, k) /\ z.waiting = y.waiting \ {p}
        /\ z.at = [y.at EXCEPT ![k] = p, ![p] = k]
    BY <2>3 DEF Subs!Substituted
  <2>5. z.active = (y.active \ {p}) \cup {k}
    BY <2>4 DEF Subs!Swapped
  <2>6. p \in y.active /\ p \in 1..11 /\ p \notin A
    BY <2>2 DEF BeforePair
  <2>7. k \notin y.active /\ y.active \subseteq 1..15
    BY DEF BeforePair
  <2>8. Cardinality(z.active) = 11
    <3>1. IsFiniteSet(y.active) /\ Cardinality(y.active) = 11
      BY <2>7, PositionsFinite DEF BeforePair
    <3>2. IsFiniteSet(y.active \ {p}) /\ Cardinality(y.active \ {p}) = 10
      BY <2>6, <3>1, FS_RemoveElement
    <3>3. k \notin y.active \ {p}
      BY <2>7
    <3> QED
      BY <2>5, <3>2, <3>3, FS_AddElement
  <2>9. z.active \subseteq 1..((k + 1) - 1)
    BY <2>5 DEF BeforePair
  <2>10. z.waiting = (z.active \cap (1..11)) \ A
    BY <2>4, <2>5, <1>2 DEF BeforePair
  <2>11. A \cap (1..11) \subseteq z.active
    BY <2>5, <2>6 DEF BeforePair
  <2>12. \A q \in 12..((k + 1) - 1) : q \in A <=> q \in z.active
    BY <2>5, <2>6, <1>2 DEF BeforePair
  <2>13. /\ z.at \in [1..15 -> 1..15]
         /\ \A q \in 1..15 : q \in z.active <=> z.at[q] \in 1..11
    <3>1. y.at \in [1..15 -> 1..15] /\ \A q \in 1..15 : q \in y.active <=> y.at[q] \in 1..11
      BY DEF BeforePair
    <3>2. z.at \in [1..15 -> 1..15]
      BY <2>4, <2>6, <3>1
    <3>3. z.at[k] = p /\ z.at[p] = k
      BY <2>4, <2>6, <3>1
    <3>4. \A q \in 1..15 : q # k /\ q # p => z.at[q] = y.at[q]
      BY <2>4, <3>1
    <3> QED
      BY <2>5, <2>6, <3>1, <3>2, <3>3, <3>4
  <2> QED
    BY <2>8, <2>9, <2>10, <2>11, <2>12, <2>13 DEF BeforePair, z
<1> QED
  BY <1>1, <1>2

\* The states of the loop of the publication of A, each before the pick it pairs.
Paired12(A) == Subs!Begun(Subs!Starters \ A)
Paired13(s, A) == Subs!Pair(s, A, Paired12(A), 12)
Paired14(s, A) == Subs!Pair(s, A, Paired13(s, A), 13)
Paired15(s, A) == Subs!Pair(s, A, Paired14(s, A), 14)
Paired16(s, A) == Subs!Pair(s, A, Paired15(s, A), 15)

LEMMA PublishedIs ==
    ASSUME NEW s, NEW A
    PROVE  Subs!Published(s, A) = [active |-> A, pairs |-> Paired16(s, A).pairs,
                                   at |-> Paired16(s, A).at]
BY Zenon DEF Subs!Published, Paired12, Paired13, Paired14, Paired15, Paired16

\* In the published lineup, who counts stands where a starter stood.
LEMMA PublishedStands ==
    ASSUME NEW s, NEW A, A \subseteq 1..15, Cardinality(A) = 11
    PROVE  \A p \in 1..15 : p \in A <=> Subs!Published(s, A).at[p] \in 1..11
<1>1. BeforePair(A, 12, Paired12(A))
  <2>1. /\ Paired12(A).active = 1..11 /\ Paired12(A).waiting = (1..11) \ A
        /\ Paired12(A).at = [p \in 1..15 |-> p]
    BY DEF Paired12, Subs!Begun, Subs!Starters
  <2>2. Cardinality(1..11) = 11
    BY ElevenStarters
  <2>3. \A q \in 12..(12 - 1) : FALSE
    OBVIOUS
  <2> QED
    BY <2>1, <2>2, <2>3 DEF BeforePair
<1>2. /\ 12 \in 12..15 /\ 13 \in 12..15 /\ 14 \in 12..15 /\ 15 \in 12..15
      /\ 13 = 12 + 1 /\ 14 = 13 + 1 /\ 15 = 14 + 1 /\ 16 = 15 + 1
  OBVIOUS
<1>3. BeforePair(A, 12 + 1, Paired13(s, A))
  BY <1>1, <1>2, PairStep, Zenon DEF Paired13
<1>4. BeforePair(A, 13 + 1, Paired14(s, A))
  BY <1>2, <1>3, PairStep, Zenon DEF Paired14
<1>5. BeforePair(A, 14 + 1, Paired15(s, A))
  BY <1>2, <1>4, PairStep, Zenon DEF Paired15
<1>6. BeforePair(A, 15 + 1, Paired16(s, A))
  BY <1>2, <1>5, PairStep, Zenon DEF Paired16
<1> DEFINE y == Paired16(s, A)
<1>7. y.active = A
  <2>1. A \subseteq y.active /\ y.active \subseteq 1..15 /\ Cardinality(y.active) = 11
    BY <1>6 DEF BeforePair
  <2>2. IsFiniteSet(y.active)
    BY <2>1, PositionsFinite
  <2> QED
    BY <2>1, <2>2, FS_Subset
<1>8. \A p \in 1..15 : p \in y.active <=> y.at[p] \in 1..11
  BY <1>6 DEF BeforePair
<1>9. Subs!Published(s, A).at = y.at
  BY PublishedIs
<1> QED
  BY <1>7, <1>8, <1>9

\* The publication of the prediction P goes the way the prediction went.
Alike(x, y, P) ==
    /\ y.active = x.active /\ y.pairs = x.pairs /\ y.at = x.at
    /\ y.waiting = x.waiting \ P

LEMMA AlikeStep ==
    ASSUME NEW s, SubsSquadOK(s), NEW k \in 12..15, NEW x, NEW P, Towards(s, k, x, P),
           Towards(s, k + 1, Subs!TryBench(s, x, k), P), NEW y, Alike(x, y, P)
    PROVE  Alike(Subs!TryBench(s, x, k), Subs!Pair(s, P, y, k), P)
<1> DEFINE v == Subs!TryBench(s, x, k)
           w == Subs!Pair(s, P, y, k)
           fits == SubsFits(s, x, k)
           rest == SubsFits(s, y, k)
           p == Subs!Min(fits)
<1>1. k \in P <=> k \in v.active
  BY DEF Towards
<1>2. BeforeTry(s, k, x)
  BY DEF Towards
<1>3. CASE k \notin P
  <2>1. v = x
    BY <1>1, <1>2, <1>3, TryStep
  <2>2. w = y
    BY <1>3 DEF Subs!Pair
  <2> QED
    BY <2>1, <2>2
<1>4. CASE k \in P
  <2>1. fits # {} /\ p \in fits /\ v = SubsMoved(s, k, x) /\ p \notin v.active
    BY <1>1, <1>2, <1>4, TryStep
  <2>2. fits \subseteq x.waiting /\ x.waiting \subseteq 1..11
    BY <1>2 DEF SubsFits, Subs!Replaceable, BeforeTry
  <2>3. p \notin P
    BY <2>1, <2>2 DEF Towards
  <2>4. rest = fits \ P
    BY DEF SubsFits, Subs!Replaceable, Alike
  <2>5. v = Subs!Substituted(x, p, k)
    BY <2>1 DEF SubsMoved
  <2>6. y.waiting # {}
    BY <2>1, <2>2, <2>3 DEF Alike
  <2>7. w = Subs!Substituted(y, Subs!Outgoing(s, y, k), k)
    BY <1>4, <2>6 DEF Subs!Pair
  <2>8. rest # {} => Subs!Outgoing(s, y, k) = Subs!Min(rest)
    BY DEF Subs!Outgoing, SubsFits
  <2> HIDE DEF v, w, fits, rest
  <2>9. Subs!Outgoing(s, y, k) = p
    <3>1. p \in rest
      BY <2>1, <2>3, <2>4
    <3>2. rest \subseteq 1..15 /\ fits \subseteq 1..15
      BY <2>2, <2>4
    <3>3. Subs!Min(rest) \in rest /\ Subs!Min(rest) <= p
      BY <3>1, <3>2, LeastPosition
    <3>4. p <= Subs!Min(rest)
      BY <2>1, <2>4, <3>2, <3>3, LeastPosition
    <3> HIDE DEF p
    <3>5. p \in 1..15 /\ Subs!Min(rest) \in 1..15
      BY <2>1, <3>2, <3>3, Zenon
    <3> QED
      BY <2>8, <3>1, <3>3, <3>4, <3>5
  <2> HIDE DEF p
  <2>10. w = Subs!Substituted(y, p, k)
    BY <2>7, <2>9
  <2>11. /\ w.active = Subs!Swapped(y.active, p, k) /\ w.waiting = y.waiting \ {p}
         /\ w.pairs = Subs!Append(y.pairs, [playerIn |-> k, playerOut |-> p])
         /\ w.at = [y.at EXCEPT ![k] = p, ![p] = k]
    BY <2>10, Zenon DEF Subs!Substituted
  <2>12. /\ v.active = Subs!Swapped(x.active, p, k) /\ v.waiting = x.waiting \ {p}
         /\ v.pairs = Subs!Append(x.pairs, [playerIn |-> k, playerOut |-> p])
         /\ v.at = [x.at EXCEPT ![k] = p, ![p] = k]
    BY <2>5, Zenon DEF Subs!Substituted
  <2>13. w.active = v.active /\ w.pairs = v.pairs /\ w.at = v.at
    BY <2>11, <2>12, Zenon DEF Alike
  <2>14. w.waiting = v.waiting \ P
    BY <2>11, <2>12 DEF Alike
  <2> QED
    BY <2>13, <2>14 DEF Alike, v, w
<1> QED
  BY <1>3, <1>4

LEMMA PublishedAlike ==
    ASSUME NEW s, SubsSquadOK(s), NEW P, P = Subs!Predict(s).active
    PROVE  /\ Subs!Published(s, P).pairs = Subs!Predict(s).pairs
           /\ Subs!Published(s, P).at = Subs!Predict(s).at
<1>1. Alike(Tried12(s), Paired12(P), P)
  <2>1. (1..11) \ s.out \subseteq P
    BY PredictBest DEF Fielded
  <2>2. (1..11) \ P = ((1..11) \cap s.out) \ P
    BY <2>1
  <2> QED
    BY <2>2 DEF Alike, Tried12, Paired12, Subs!Begun, Subs!Starters
<1>2. /\ 12 \in 12..15 /\ 13 \in 12..15 /\ 14 \in 12..15 /\ 15 \in 12..15
      /\ 13 = 12 + 1 /\ 14 = 13 + 1 /\ 15 = 14 + 1 /\ 16 = 15 + 1
  OBVIOUS
<1>3. /\ Towards(s, 12, Tried12(s), P)
      /\ Towards(s, 12 + 1, Subs!TryBench(s, Tried12(s), 12), P)
      /\ Towards(s, 13, Tried13(s), P)
      /\ Towards(s, 13 + 1, Subs!TryBench(s, Tried13(s), 13), P)
      /\ Towards(s, 14, Tried14(s), P)
      /\ Towards(s, 14 + 1, Subs!TryBench(s, Tried14(s), 14), P)
      /\ Towards(s, 15, Tried15(s), P)
      /\ Towards(s, 15 + 1, Subs!TryBench(s, Tried15(s), 15), P)
  BY <1>2, PredictRun DEF Tried13, Tried14, Tried15
<1>4. Alike(Tried13(s), Paired13(s, P), P)
  BY <1>1, <1>2, <1>3, AlikeStep, Zenon DEF Tried13, Paired13
<1>5. Alike(Tried14(s), Paired14(s, P), P)
  BY <1>2, <1>3, <1>4, AlikeStep, Zenon DEF Tried14, Paired14
<1>6. Alike(Tried15(s), Paired15(s, P), P)
  BY <1>2, <1>3, <1>5, AlikeStep, Zenon DEF Tried15, Paired15
<1>7. Alike(Subs!TryBench(s, Tried15(s), 15), Paired16(s, P), P)
  BY <1>2, <1>3, <1>6, AlikeStep, Zenon DEF Paired16
<1>8. Alike(Subs!Predict(s), Paired16(s, P), P)
  BY <1>7, PredictRun
<1> QED
  BY <1>8, PublishedIs DEF Alike

\* The lineups are what the bench can field: as many come on as go.
LEMMA LineupsAre ==
    ASSUME SubsSquadOK(squad), NEW A
    PROVE  A \in Subs!Lineups <=> Fielded(squad, A)
<1>1. A \in Subs!Lineups <=>
        /\ Subs!IsValidFormation(squad.elementType, A)
        /\ \E come \in SUBSET ((12..15) \ squad.out) :
            \E go \in SUBSET ((1..11) \cap squad.out) :
                Cardinality(go) = Cardinality(come) /\ A = ((1..11) \ go) \cup come
  <2>1. \A n, S : Subs!kSubset(n, S) = {go \in SUBSET S : Cardinality(go) = n}
    BY SameCardinality DEF Subs!kSubset
  <2>2. \A S : Subs!Cardinality(S) = Cardinality(S)
    BY SameCardinality
  <2>3. A \in Subs!Lineups <=>
          /\ Subs!IsValidFormation(squad.elementType, A)
          /\ \E come \in SUBSET ((12..15) \ squad.out) :
              A \in {((1..11) \ go) \cup come :
                        go \in Subs!kSubset(Subs!Cardinality(come), (1..11) \cap squad.out)}
    BY DEF Subs!Lineups, Subs!Starters, Subs!Bench
  <2>4. ASSUME NEW come
        PROVE  A \in {((1..11) \ go) \cup come :
                        go \in Subs!kSubset(Subs!Cardinality(come), (1..11) \cap squad.out)}
                <=> \E go \in SUBSET ((1..11) \cap squad.out) :
                        Cardinality(go) = Cardinality(come) /\ A = ((1..11) \ go) \cup come
    <3>1. Subs!kSubset(Subs!Cardinality(come), (1..11) \cap squad.out)
            = {go \in SUBSET ((1..11) \cap squad.out) : Cardinality(go) = Cardinality(come)}
      BY <2>1, <2>2, Zenon
    <3> QED
      BY <3>1
  <2> QED
    BY <2>3, <2>4, Zenon
<1>2. ASSUME A \in Subs!Lineups PROVE Fielded(squad, A)
  <2>1. PICK come \in SUBSET ((12..15) \ squad.out), go \in SUBSET ((1..11) \cap squad.out) :
            A = ((1..11) \ go) \cup come
    BY <1>1, <1>2
  <2>2. A \subseteq 1..15 /\ (1..11) \ squad.out \subseteq A
    BY <2>1
  <2>3. A \cap (12..15) \cap squad.out = {}
    BY <2>1
  <2> QED
    BY <1>1, <1>2, <2>2, <2>3 DEF Fielded
<1>3. ASSUME Fielded(squad, A) PROVE A \in Subs!Lineups
  <2> DEFINE come == A \cap (12..15)
             go == (1..11) \ A
             stay == A \cap (1..11)
  <2> HIDE DEF come, go, stay
  <2>1. /\ A \subseteq 1..15 /\ (1..11) \ squad.out \subseteq A
        /\ A \cap (12..15) \cap squad.out = {}
    BY <1>3 DEF Fielded
  <2>2. \A p \in 1..15 : p \in 1..11 \/ p \in 12..15
    OBVIOUS
  <2>3. /\ come \in SUBSET ((12..15) \ squad.out) /\ go \in SUBSET ((1..11) \cap squad.out)
        /\ A = ((1..11) \ go) \cup come
    <3>1. come \subseteq (12..15) \ squad.out
      BY <2>1 DEF come
    <3>2. go \subseteq (1..11) \cap squad.out
      BY <2>1 DEF go
    <3>3. \A p : p \in A <=> p \in ((1..11) \ go) \cup come
      BY <2>1, <2>2, Zenon DEF go, come
    <3> QED
      BY <3>1, <3>2, <3>3
  <2>4. /\ stay \cup come = A /\ stay \cap come = {}
        /\ stay \cup go = 1..11 /\ stay \cap go = {}
    <3>1. \A p : p \in A <=> p \in stay \/ p \in come
      BY <2>1, <2>2, Zenon DEF stay, come
    <3>2. stay \cap come = {}
      BY DEF stay, come
    <3>3. \A p : p \in 1..11 <=> p \in stay \/ p \in go
      BY DEF stay, go
    <3>4. stay \cap go = {}
      BY DEF stay, go
    <3> QED
      BY <3>1, <3>2, <3>3, <3>4
  <2>5. /\ IsFiniteSet(stay) /\ IsFiniteSet(come) /\ IsFiniteSet(go)
        /\ Cardinality(stay) \in Nat /\ Cardinality(come) \in Nat /\ Cardinality(go) \in Nat
    <3>1. stay \subseteq 1..15 /\ come \subseteq 1..15 /\ go \subseteq 1..15
      BY DEF stay, come, go
    <3> QED
      BY <3>1, PositionsFinite
  <2>6. Cardinality(A) = Cardinality(stay) + Cardinality(come)
    BY <2>4, <2>5, DisjointUnion
  <2>7. Cardinality(1..11) = Cardinality(stay) + Cardinality(go)
    BY <2>4, <2>5, DisjointUnion
  <2>8. Cardinality(A) = 11
    BY <1>3, FormationCounts DEF Fielded
  <2>9. Cardinality(go) = Cardinality(come)
    BY <2>5, <2>6, <2>7, <2>8, ElevenStarters
  <2> QED
    BY <1>1, <1>3, <2>3, <2>9 DEF Fielded
<1> QED
  BY <1>2, <1>3

SubsIInv ==
    /\ SubsSquadOK(squad)
    /\ predicted = Subs!Predict(squad)
    /\ official = None \/ \E A \in Subs!Lineups : official = Subs!Published(squad, A)

LEMMA SubsIntervalSize ==
    ASSUME NEW a \in Int, NEW b \in Int, a <= b + 1
    PROVE  Cardinality(a..b) = b - a + 1
<1>1. Cardinality(a..b) = IF a > b THEN 0 ELSE b - a + 1
  BY FS_Interval, Zenon
<1> QED
  BY <1>1

\* A squad starts in the formation it is given.
LEMMA SubsInitIInv == Subs!Init => SubsIInv
<1> SUFFICES ASSUME Subs!Init PROVE SubsIInv
  OBVIOUS
<1>1. PICK form \in Subs!Formations : \E b \in Subs!Benches(form[1], form[2], form[3]) :
        squad = [elementType |-> Subs!Types(form[1], form[2], b), out |-> {}]
  BY DEF Subs!Init
<1>2. PICK b \in Subs!Benches(form[1], form[2], form[3]) :
        squad = [elementType |-> Subs!Types(form[1], form[2], b), out |-> {}]
  BY <1>1
<1> DEFINE d == form[1]
           m == form[2]
           f == form[3]
           T == Subs!Types(d, m, b)
<1>3. d \in 3..5 /\ m \in 2..5 /\ f \in 1..3 /\ d + m + f = 10
  BY DEF Subs!Formations
<1>4. b \in [13..15 -> 2..4]
  BY DEF Subs!Benches
<1> HIDE DEF d, m, f
<1>5. T = [p \in 1..15 |-> CASE p \in {1, 12} -> 1
                             [] p \in 2..(d + 1) -> 2
                             [] p \in (d + 2)..(d + m + 1) -> 3
                             [] p \in (d + m + 2)..11 -> 4
                             [] p \in 13..15 -> b[p]]
  BY Zenon DEF Subs!Types
<1> HIDE DEF T
<1>6. ASSUME NEW p \in 1..15
      PROVE  /\ p \in {1, 12} => T[p] = 1
             /\ p \in 2..(d + 1) => T[p] = 2
             /\ p \in (d + 2)..(d + m + 1) => T[p] = 3
             /\ p \in (d + m + 2)..11 => T[p] = 4
             /\ p \in 13..15 => T[p] = b[p]
  BY <1>3, <1>5
<1>7. T \in [1..15 -> 1..4]
  <2>1. \A p \in 1..15 : T[p] \in 1..4
    <3> SUFFICES ASSUME NEW p \in 1..15 PROVE T[p] \in 1..4
      OBVIOUS
    <3>1. p \in 13..15 => b[p] \in 2..4
      BY <1>4
    <3>2. \/ p \in {1, 12} \/ p \in 2..(d + 1) \/ p \in (d + 2)..(d + m + 1)
          \/ p \in (d + m + 2)..11 \/ p \in 13..15
      BY <1>3
    <3> QED
      BY <1>6, <3>1, <3>2
  <2> QED
    BY <1>5, <2>1
<1>8. Subs!IsValidFormation(T, 1..11)
  <2>1. \A p \in 1..11 : /\ T[p] = 1 <=> p = 1
                         /\ T[p] = 2 <=> p \in 2..(d + 1)
                         /\ T[p] = 3 <=> p \in (d + 2)..(d + m + 1)
                         /\ T[p] = 4 <=> p \in (d + m + 2)..11
    <3> SUFFICES ASSUME NEW p \in 1..11
                 PROVE  /\ T[p] = 1 <=> p = 1
                        /\ T[p] = 2 <=> p \in 2..(d + 1)
                        /\ T[p] = 3 <=> p \in (d + 2)..(d + m + 1)
                        /\ T[p] = 4 <=> p \in (d + m + 2)..11
      OBVIOUS
    <3>1. \/ p = 1 \/ p \in 2..(d + 1) \/ p \in (d + 2)..(d + m + 1) \/ p \in (d + m + 2)..11
      BY <1>3
    <3>2. /\ p = 1 => T[p] = 1
          /\ p \in 2..(d + 1) => T[p] = 2
          /\ p \in (d + 2)..(d + m + 1) => T[p] = 3
          /\ p \in (d + m + 2)..11 => T[p] = 4
      BY <1>6
    <3> QED
      BY <1>3, <3>1, <3>2
  <2>2. \A t : SubsOfType(T, 1..11, t) = {p \in 1..11 : T[p] = t}
    BY DEF SubsOfType
  <2>3. /\ SubsOfType(T, 1..11, 1) = 1..1
        /\ SubsOfType(T, 1..11, 2) = 2..(d + 1)
        /\ SubsOfType(T, 1..11, 3) = (d + 2)..(d + m + 1)
        /\ SubsOfType(T, 1..11, 4) = (d + m + 2)..11
    <3>1. \A p : p \in SubsOfType(T, 1..11, 1) <=> p \in 1..1
      BY <2>1, <2>2
    <3>2. \A p : p \in 2..(d + 1) => p \in 1..11
      BY <1>3
    <3>3. \A p : p \in (d + 2)..(d + m + 1) => p \in 1..11
      BY <1>3
    <3>4. \A p : p \in (d + m + 2)..11 => p \in 1..11
      BY <1>3
    <3>5. \A p : p \in SubsOfType(T, 1..11, 2) <=> p \in 2..(d + 1)
      BY <2>1, <2>2, <3>2, Zenon
    <3>6. \A p : p \in SubsOfType(T, 1..11, 3) <=> p \in (d + 2)..(d + m + 1)
      BY <2>1, <2>2, <3>3, Zenon
    <3>7. \A p : p \in SubsOfType(T, 1..11, 4) <=> p \in (d + m + 2)..11
      BY <2>1, <2>2, <3>4, Zenon
    <3> QED
      BY <3>1, <3>5, <3>6, <3>7
  <2>4. /\ Cardinality(1..1) = 1
        /\ Cardinality(2..(d + 1)) = d
        /\ Cardinality((d + 2)..(d + m + 1)) = m
        /\ Cardinality((d + m + 2)..11) = f
    <3>1. \A i, j \in Int : i <= j + 1 => Cardinality(i..j) = j - i + 1
      BY SubsIntervalSize
    <3>2. /\ d \in Int /\ m \in Int /\ d + 1 \in Int /\ d + 2 \in Int /\ d + m + 1 \in Int
          /\ d + m + 2 \in Int
      BY <1>3
    <3>3. Cardinality(1..1) = 1
      <4>1. 1..1 = {1}
        OBVIOUS
      <4> QED
        BY <4>1, FS_Singleton, Zenon
    <3>4. Cardinality(2..(d + 1)) = ((d + 1) - 2) + 1
      BY <1>3, <3>1, <3>2
    <3>5. Cardinality((d + 2)..(d + m + 1)) = ((d + m + 1) - (d + 2)) + 1
      BY <1>3, <3>1, <3>2
    <3>6. Cardinality((d + m + 2)..11) = (11 - (d + m + 2)) + 1
      <4>1. \A i \in Int : i <= 12 => Cardinality(i..11) = (11 - i) + 1
        BY <3>1
      <4>2. d + m + 2 <= 12
        BY <1>3
      <4> QED
        BY <3>2, <4>1, <4>2, Zenon
    <3> QED
      BY <1>3, <3>3, <3>4, <3>5, <3>6
  <2>5. /\ SubsCount(T, 1..11, 1) = 1 /\ SubsCount(T, 1..11, 2) = d
        /\ SubsCount(T, 1..11, 3) = m /\ SubsCount(T, 1..11, 4) = f
    BY <2>3, <2>4 DEF SubsCount
  <2> QED
    BY <1>3, <2>5, ElevenStarters, FormationCounts
<1>9. squad = [elementType |-> T, out |-> {}]
  BY <1>2 DEF T, d, m
<1> QED
  BY <1>7, <1>8, <1>9 DEF SubsIInv, SubsSquadOK, Subs!Init

LEMMA SubsNextIInv == SubsIInv /\ [Subs!Next]_(Subs!vars) => SubsIInv'
<1> SUFFICES ASSUME SubsIInv, [Subs!Next]_(Subs!vars) PROVE SubsIInv'
  OBVIOUS
<1>1. ASSUME NEW p \in 1..15, Subs!Miss(p) PROVE SubsIInv'
  <2>1. /\ squad' = [squad EXCEPT !.out = squad.out \cup {p}]
        /\ predicted' = Subs!Predict(squad') /\ official = None /\ official' = official
    BY <1>1 DEF Subs!Miss
  <2>2. SubsSquadOK(squad')
    <3>1. squad'.elementType = squad.elementType
      BY <2>1 DEF SubsIInv, SubsSquadOK
    <3>2. squad' \in [elementType : [1..15 -> 1..4], out : SUBSET (1..15)]
      BY <2>1 DEF SubsIInv, SubsSquadOK
    <3> QED
      BY <3>1, <3>2 DEF SubsIInv, SubsSquadOK
  <2> QED
    BY <2>1, <2>2, Zenon DEF SubsIInv
<1>2. ASSUME Subs!Publish PROVE SubsIInv'
  <2>1. PICK A \in Subs!Lineups : official' = Subs!Published(squad, A)
    BY <1>2 DEF Subs!Publish
  <2>2. squad' = squad /\ predicted' = predicted
    BY <1>2 DEF Subs!Publish
  <2>3. SubsSquadOK(squad) /\ SubsSquadOK(squad')
    BY <2>2 DEF SubsIInv
  <2>4. Subs!Lineups' = Subs!Lineups
    BY <2>2 DEF Subs!Lineups
  <2> QED
    BY <2>1, <2>2, <2>3, <2>4 DEF SubsIInv
<1>3. ASSUME UNCHANGED Subs!vars PROVE SubsIInv'
  <2>1. squad' = squad /\ predicted' = predicted /\ official' = official
    BY <1>3 DEF Subs!vars
  <2>2. Subs!Lineups' = Subs!Lineups
    BY <2>1 DEF Subs!Lineups
  <2> QED
    BY <2>1, <2>2 DEF SubsIInv
<1> QED
  BY <1>1, <1>2, <1>3 DEF Subs!Next

LEMMA SubsBest == SubsIInv => Subs!BestComeOn
<1> SUFFICES ASSUME SubsIInv PROVE Subs!BestComeOn
  OBVIOUS
<1> DEFINE P == Subs!Predict(squad).active
<1>1. SubsSquadOK(squad) /\ predicted.active = P
  BY DEF SubsIInv
<1>2. Fielded(squad, P) /\ \A A : Fielded(squad, A) => ~Subs!Before(A, P)
  BY <1>1, PredictBest
<1>3. \A A : A \in Subs!Lineups <=> Fielded(squad, A)
  BY <1>1, LineupsAre
<1> QED
  BY <1>1, <1>2, <1>3, Zenon DEF Subs!BestComeOn

LEMMA SubsNothingMoves == SubsIInv => Subs!NothingMoves
<1> SUFFICES ASSUME SubsIInv, official # None PROVE Subs!NothingMoves
  BY DEF Subs!NothingMoves
<1>1. PICK A \in Subs!Lineups : official = Subs!Published(squad, A)
  BY DEF SubsIInv
<1>2. SubsSquadOK(squad) /\ predicted = Subs!Predict(squad)
  BY DEF SubsIInv
<1>3. official.active = A
  BY <1>1, PublishedIs
<1>4. A \subseteq 1..15 /\ Cardinality(A) = 11
  BY <1>2, LineupsAre, FormationCounts DEF Fielded
<1>5. \A p \in 1..15 : p \in official.active <=> official.at[p] \in 1..11
  BY <1>1, <1>3, <1>4, PublishedStands
<1>6. ASSUME official.active = predicted.active
      PROVE  official.pairs = predicted.pairs /\ official.at = predicted.at
  BY <1>1, <1>2, <1>3, <1>6, PublishedAlike
<1> QED
  BY <1>5, <1>6 DEF Subs!NothingMoves, Subs!Starters

SubsPart == part = "subs" => SubsIInv

LEMMA SubsInit == Init => SubsPart
<1> SUFFICES ASSUME Init, part = "subs" PROVE SubsIInv
  BY DEF SubsPart
<1>1. Subs!Init
  BY DEF Init
<1> QED
  BY <1>1, SubsInitIInv

LEMMA SubsNext == SubsPart /\ [Next]_all => SubsPart'
<1> SUFFICES ASSUME SubsPart, [Next]_all, part' = "subs" PROVE SubsIInv'
  BY DEF SubsPart
<1>1. part = "subs" /\ [Subs!Next]_(Subs!vars)
  BY DEF Next, OfPrices, OfManage, all, subsVars, NotSubs, Subs!vars
<1> QED
  BY <1>1, SubsNextIInv DEF SubsPart

\* Of any squad that starts in a valid formation, and whoever misses his fixtures in whatever
\* order: one pass over the bench, which never takes a swap back, brings on the best that the
\* bench can field (live-auto-subs.ts:243).
THEOREM BestComeOnHolds == Spec => []BestComeOn
<1>1. SubsPart => BestComeOn
  BY SubsBest DEF SubsPart, BestComeOn
<1> QED
  BY <1>1, SubsInit, SubsNext, PTL DEF Spec

\* Publication of the predicted lineup reconstructs the predicted pairs and places, and in
\* every published lineup who counts stands where a starter stood (live-auto-subs.ts:187).
THEOREM NothingMovesHolds == Spec => []NothingMoves
<1>1. SubsPart => NothingMoves
  BY SubsNothingMoves DEF SubsPart, NothingMoves
<1> QED
  BY <1>1, SubsInit, SubsNext, PTL DEF Spec
=============================================================================
