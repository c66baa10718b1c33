---------------------------- MODULE ServicesProofs ----------------------------
(***************************************************************************)
(* Proofs about the services a task and its process lean on: the model     *)
(* gateway, the connectors, speech output and the audit log.  Each part    *)
(* is about one component alone, for every value of its constants.         *)
(***************************************************************************)
EXTENDS ModelGateway, Connector, SpeechOutput, AuditLog,
    FiniteSetTheorems, SequenceTheorems, TLAPS

------------------------------------------------------------------------------
(* The model gateway.                                                       *)

\* The calls that hold a slot of the local adapter.
Holding == {r \in Request : NeedsSlot(r) /\ progress[r] = "posted"}

\* Nothing is under way for a request that asks nothing, and only a request of
\* an open level is on its way to the fallback.
Orderly ==
    \A r \in Request :
        /\ ~Asking(r) => progress[r] = "ready" /\ attempt[r] = "first"
        /\ attempt[r] = "fallback" => level[r] \in OpenLevel

GatewayInv == GatewayTypeOK /\ SlotsKept /\ Orderly

Rounds == Over \cup {"idle", "route", "calculate", "classify", "reclassify",
                     "extract", "extractAgain", "chat", "polish", "polishAgain"}

\* What the request r's own step may do to the adapter's slots: nothing, take
\* one, or end r's call.
Keeps == UNCHANGED <<slots, attempt, progress>>
Takes(r) ==
    /\ NeedsSlot(r) /\ progress[r] # "posted"
    /\ slots > 0 /\ slots' = slots - 1
    /\ progress' = [progress EXCEPT ![r] = "posted"]
    /\ UNCHANGED attempt
Passes(r, p) ==
    /\ ~(NeedsSlot(r) /\ progress[r] = "posted")
    /\ ~(NeedsSlot(r) /\ p = "posted")
    /\ progress' = [progress EXCEPT ![r] = p]
    /\ UNCHANGED <<slots, attempt>>
Releases(r) ==
    /\ Returns(r)
    /\ \E a \in {"first", "second", "fallback"} : attempt' = [attempt EXCEPT ![r] = a]

\* Whatever step a request takes, it does one of these to the slots.
LEMMA SlotUse ==
    ASSUME GatewayTypeOK, NEW r \in Request,
           \/ \E l \in Level : Interpret(r, l)
           \/ GeneralChat(r) \/ TextPolish(r) \/ Advance(r) \/ Interrupted(r)
    PROVE  Keeps \/ Takes(r) \/ (\E p \in {"queued", "posted"} : Passes(r, p)) \/ Releases(r)
<1> USE DEF GatewayTypeOK
<1>1. CASE \/ \E l \in Level : Interpret(r, l)
           \/ GeneralChat(r) \/ TextPolish(r) \/ Route(r) \/ Calculate(r)
  BY <1>1 DEF Interpret, GeneralChat, TextPolish, Begin, Route, Calculate, Keeps
<1>2. CASE Queue(r)
  BY <1>2 DEF Queue, Passes
<1>3. CASE Post(r)
  BY <1>3 DEF Post, Passes, Takes, NeedsSlot
<1>4. ASSUME NEW next, RoundEnds(r, next) PROVE Releases(r)
  BY <1>4 DEF RoundEnds, Releases
<1>5. CASE Answered(r) \/ Interrupted(r)
  BY <1>4, <1>5 DEF Answered, Interrupted
<1>6. ASSUME NEW e, TryAgain(r, e) \/ FallBackToCloud(r, e) \/ GivesUp(r, e) PROVE Releases(r)
  BY <1>4, <1>6 DEF TryAgain, FallBackToCloud, GivesUp, Releases
<1>. QED
  BY <1>1, <1>2, <1>3, <1>5, <1>6 DEF Advance

\* Each of these keeps the slots in balance.
LEMMA SlotBalance ==
    ASSUME GatewayAssumption, GatewayTypeOK, SlotsKept, UNCHANGED gatewaySetup,
           NEW r \in Request,
           Keeps \/ Takes(r) \/ (\E p \in {"queued", "posted"} : Passes(r, p)) \/ Releases(r)
    PROVE  SlotsKept' /\ slots' \in 0..MaxConcurrency
<1> USE DEF GatewayTypeOK, gatewaySetup, NeedsSlot, OnDevice
<1>1. IsFiniteSet(Holding)
  BY FS_Subset DEF GatewayAssumption, Holding
<1>2. Cardinality(Holding) \in Nat
  BY <1>1, FS_CardinalityType
<1>3. slots \in Nat /\ MaxConcurrency \in Nat
  BY DEF GatewayAssumption
<1>4. slots + Cardinality(Holding) = IF provider \in Queueing THEN MaxConcurrency ELSE slots
  BY DEF SlotsKept, Holding
<1>5. SUFFICES /\ slots' \in 0..MaxConcurrency
               /\ slots' + Cardinality(Holding')
                    = IF provider \in Queueing THEN MaxConcurrency ELSE slots'
  BY DEF SlotsKept, Holding
<1>6. CASE Keeps \/ \E p \in {"queued", "posted"} : Passes(r, p)
  <2>1. Holding' = Holding
    BY <1>6 DEF Holding, Keeps, Passes
  <2>2. slots' = slots
    BY <1>6 DEF Keeps, Passes
  <2>. QED
    BY <2>1, <2>2, <1>4
<1>7. CASE Takes(r)
  <2>1. Holding' = Holding \cup {r} /\ r \notin Holding
    BY <1>7 DEF Holding, Takes
  <2>2. Cardinality(Holding') = Cardinality(Holding) + 1
    BY <2>1, <1>1, FS_AddElement
  <2>3. slots' = slots - 1 /\ slots > 0 /\ provider \in Queueing
    BY <1>7 DEF Takes
  <2>. QED
    BY <2>2, <2>3, <1>2, <1>3, <1>4
<1>8. CASE Releases(r)
  <2>1. Holding' = Holding \ {r}
    BY <1>8 DEF Holding, Releases, Returns
  <2>2. CASE r \in Holding
    <3>1. Cardinality(Holding') = Cardinality(Holding) - 1
      BY <2>1, <2>2, <1>1, FS_RemoveElement
    <3>2. slots' = slots + 1 /\ provider \in Queueing
      BY <1>8, <2>2 DEF Holding, Releases, Returns
    <3>3. Holding # {}
      BY <2>2
    <3>4. Cardinality(Holding) # 0
      BY <3>3, <1>1, FS_EmptySet
    <3>. QED
      BY <3>1, <3>2, <3>4, <1>2, <1>3, <1>4
  <2>3. CASE r \notin Holding
    <3>1. Holding' = Holding
      BY <2>1, <2>3
    <3>2. slots' = slots
      BY <1>8, <2>3 DEF Holding, Releases, Returns
    <3>. QED
      BY <3>1, <3>2, <1>4
  <2>. QED
    BY <2>2, <2>3
<1>. QED
  BY <1>6, <1>7, <1>8

LEMMA GatewayInitInv == ASSUME GatewayAssumption, GatewayInit PROVE GatewayInv
<1> USE DEF GatewayInit
<1>1. GatewayTypeOK
  BY DEF GatewayTypeOK, GatewayAssumption, Over
<1>2. SlotsKept
  <2>1. Holding = {}
    BY DEF Holding
  <2>2. Cardinality(Holding) = 0
    BY <2>1, FS_EmptySet
  <2>. QED
    BY <2>2 DEF SlotsKept, Holding, GatewayAssumption
<1>3. Orderly
  BY DEF Orderly, Asking
<1>. QED
  BY <1>1, <1>2, <1>3 DEF GatewayInv

\* A round that ended badly is followed by another round, or by none.
LEMMA AfterErrorType ==
    ASSUME NEW asked, NEW e PROVE AfterError(asked, e) \in Rounds \ {"idle", "route", "calculate"}
BY DEF AfterError, Rounds, Over

\* What RoundEnds leaves behind.
LEMMA RoundEndsInv ==
    ASSUME GatewayTypeOK, Orderly, NEW r \in Request,
           NEW next \in Rounds \ {"idle", "route", "calculate"}, RoundEnds(r, next)
    PROVE  /\ Orderly'
           /\ round' \in [Request -> Rounds]
           /\ progress' \in [Request -> {"ready", "queued", "posted"}]
           /\ attempt' \in [Request -> {"first", "second", "fallback"}]
<1> USE DEF GatewayTypeOK, RoundEnds, Returns, Rounds
<1>1. Orderly'
  BY DEF Orderly, Asking, Over
<1>. QED
  BY <1>1

\* One step of a request keeps what the types and the order of its rounds say;
\* the balance of the slots is SlotBalance's.
LEMMA GatewayStep ==
    ASSUME GatewayAssumption, GatewayInv, NEW r \in Request,
           \/ \E l \in Level : Interpret(r, l)
           \/ GeneralChat(r) \/ TextPolish(r) \/ Advance(r) \/ Interrupted(r)
    PROVE  /\ UNCHANGED gatewaySetup
           /\ round' \in [Request -> Rounds]
           /\ attempt' \in [Request -> {"first", "second", "fallback"}]
           /\ progress' \in [Request -> {"ready", "queued", "posted"}]
           /\ level' \in [Request -> Level \cup {"none"}]
           /\ reached' \in [Request -> SUBSET {"primary", "fallback"}]
           /\ Orderly'
<1> USE DEF GatewayInv, GatewayTypeOK, gatewaySetup
<1>0. round \in [Request -> Rounds]
  BY DEF Rounds
<1>1. ASSUME NEW l \in Level \cup {"none"}, NEW first \in {"route", "calculate", "polish"},
             Begin(r, first, l)
      PROVE  /\ UNCHANGED gatewaySetup /\ UNCHANGED <<attempt, progress, reached>>
             /\ round' \in [Request -> Rounds] /\ level' \in [Request -> Level \cup {"none"}]
             /\ Orderly'
  BY <1>0, <1>1 DEF Begin, Orderly, Asking, Over, Rounds
<1>2. CASE (\E l \in Level : Interpret(r, l)) \/ GeneralChat(r) \/ TextPolish(r)
  BY <1>1, <1>2 DEF Interpret, GeneralChat, TextPolish, GatewayAssumption
<1>3. CASE Route(r) \/ Calculate(r)
  <2>1. UNCHANGED <<gatewaySetup, attempt, progress, level, reached>>
    BY <1>3 DEF Route, Calculate
  <2>2. round' \in [Request -> Rounds]
    BY <1>0, <1>3 DEF Route, Calculate, Rounds, Over
  <2>3. Orderly'
    BY <1>0, <1>3 DEF Route, Calculate, Orderly, Asking, Over, Rounds
  <2>. QED
    BY <1>0, <2>1, <2>2, <2>3
<1>4. CASE Queue(r)
  BY <1>0, <1>4 DEF Queue, Orderly, Asking
<1>5. CASE Post(r)
  <2>1. UNCHANGED <<gatewaySetup, round, attempt, level>>
    BY <1>5 DEF Post
  <2>2. /\ progress' \in [Request -> {"ready", "queued", "posted"}]
        /\ reached' \in [Request -> SUBSET {"primary", "fallback"}]
    BY <1>5 DEF Post
  <2>3. Orderly'
    BY <1>0, <1>5 DEF Post, Orderly, Asking
  <2>. QED
    BY <1>0, <2>1, <2>2, <2>3
<1>6. ASSUME NEW next \in Rounds \ {"idle", "route", "calculate"}, RoundEnds(r, next)
      PROVE  /\ UNCHANGED <<gatewaySetup, level, reached>>
             /\ round' \in [Request -> Rounds]
             /\ progress' \in [Request -> {"ready", "queued", "posted"}]
             /\ attempt' \in [Request -> {"first", "second", "fallback"}]
             /\ Orderly'
  <2>1. UNCHANGED <<gatewaySetup, level, reached>>
    BY <1>6 DEF RoundEnds
  <2>. QED
    BY <2>1, <1>6, RoundEndsInv
<1>7. CASE Answered(r)
  <2>1. PICK next \in AfterGood(round[r]) : RoundEnds(r, next)
    BY <1>7 DEF Answered
  <2>2. next \in Rounds \ {"idle", "route", "calculate"}
    BY DEF AfterGood, Rounds, Over
  <2>. QED
    BY <2>1, <2>2, <1>6
<1>8. CASE Interrupted(r)
  <2>1. "failed" \in Rounds \ {"idle", "route", "calculate"}
    BY DEF Rounds, Over
  <2>. QED
    BY <2>1, <1>6, <1>8 DEF Interrupted
<1>9. ASSUME NEW e \in Answer \ {"good"}, GivesUp(r, e)
      PROVE  \E next \in Rounds \ {"idle", "route", "calculate"} : RoundEnds(r, next)
  BY <1>9, AfterErrorType DEF GivesUp
<1>10. ASSUME NEW e \in Answer \ {"good"}, CallFails(r, e), Returns(r),
              NEW a \in {"second", "fallback"}, a = "fallback" => CanFallback(r, e),
              attempt' = [attempt EXCEPT ![r] = a],
              UNCHANGED <<provider, fallback, round, level, reached>>
       PROVE  /\ attempt' \in [Request -> {"first", "second", "fallback"}]
              /\ progress' \in [Request -> {"ready", "queued", "posted"}]
              /\ Orderly'
  <2>1. progress[r] # "ready"
    BY <1>10 DEF CallFails
  <2>2. Asking(r)
    BY <2>1 DEF Orderly
  <2>3. progress' = [progress EXCEPT ![r] = "ready"]
    BY <1>10 DEF Returns
  <2>4. a = "fallback" => level[r] \in OpenLevel
    BY <1>10 DEF CanFallback
  <2>5. Orderly'
    BY <1>10, <2>2, <2>3, <2>4 DEF Orderly, Asking
  <2>. QED
    BY <1>10, <2>3, <2>5
<1>11. ASSUME NEW e \in Answer \ {"good"}, TryAgain(r, e) \/ FallBackToCloud(r, e)
       PROVE  /\ attempt' \in [Request -> {"first", "second", "fallback"}]
              /\ progress' \in [Request -> {"ready", "queued", "posted"}]
              /\ Orderly'
              /\ UNCHANGED <<gatewaySetup, round, level, reached>>
  <2>1. CASE TryAgain(r, e)
    BY <2>1, <1>10 DEF TryAgain
  <2>2. CASE FallBackToCloud(r, e)
    BY <2>2, <1>10 DEF FallBackToCloud
  <2>. QED
    BY <1>11, <2>1, <2>2
<1>12. CASE \E e \in Answer \ {"good"} : TryAgain(r, e) \/ FallBackToCloud(r, e) \/ GivesUp(r, e)
  BY <1>0, <1>6, <1>9, <1>11, <1>12
<1>. QED
  BY <1>2, <1>3, <1>4, <1>5, <1>7, <1>8, <1>12 DEF Advance

LEMMA GatewayNextInv ==
    ASSUME GatewayAssumption, GatewayInv, [GatewayNext]_gatewayVars PROVE GatewayInv'
<1>1. CASE UNCHANGED gatewayVars
  BY <1>1 DEF GatewayInv, GatewayTypeOK, SlotsKept, Orderly, gatewayVars, NeedsSlot, OnDevice, Asking
<1>2. CASE GatewayNext
  <2>1. PICK r \in Request :
           \/ \E l \in Level : Interpret(r, l)
           \/ GeneralChat(r) \/ TextPolish(r) \/ Advance(r) \/ Interrupted(r)
    BY <1>2 DEF GatewayNext
  <2>2. /\ UNCHANGED gatewaySetup
        /\ round' \in [Request -> Rounds]
        /\ attempt' \in [Request -> {"first", "second", "fallback"}]
        /\ progress' \in [Request -> {"ready", "queued", "posted"}]
        /\ level' \in [Request -> Level \cup {"none"}]
        /\ reached' \in [Request -> SUBSET {"primary", "fallback"}]
        /\ Orderly'
    BY <2>1, GatewayStep
  <2>3. SlotsKept' /\ slots' \in 0..MaxConcurrency
    BY <2>1, <2>2, SlotUse, SlotBalance DEF GatewayInv
  <2>4. GatewayTypeOK'
    BY <2>2, <2>3 DEF GatewayInv, GatewayTypeOK, gatewaySetup, Rounds
  <2>. QED
    BY <2>2, <2>3, <2>4 DEF GatewayInv
<1>. QED
  BY <1>1, <1>2

LEMMA GatewayInvariant == GatewaySpec => []GatewayInv
<1>1. GatewayInit => GatewayInv
  BY GatewayAssumption, GatewayInitInv
<1>2. GatewayInv /\ [GatewayNext]_gatewayVars => GatewayInv'
  BY GatewayAssumption, GatewayNextInv
<1>. QED
  BY <1>1, <1>2, PTL DEF GatewaySpec

\* Every slot of the local adapter is free or held by one call the server works
\* on (the adapters' semaphore and its finally clause), whatever the number of
\* requests and of slots.
THEOREM SlotsAreKept == GatewaySpec => []SlotsKept
<1>1. GatewayInv => SlotsKept
  BY DEF GatewayInv
<1>. QED
  BY <1>1, GatewayInvariant, PTL

\* The gateway's variables keep their types (ModelGateway.generate and the
\* rounds of its callers).
THEOREM GatewayTypeCorrect == GatewaySpec => []GatewayTypeOK
<1>1. GatewayInv => GatewayTypeOK
  BY DEF GatewayInv
<1>. QED
  BY <1>1, GatewayInvariant, PTL

LEMMA ServiceInit == ASSUME GatewayInit PROVE Service!Init
BY DEF GatewayInit, Service!Init, Status

\* A step that moves r from one round to another moves the service's status of r.
LEMMA RoundStep ==
    ASSUME GatewayTypeOK, NEW r \in Request, NEW next \in Rounds \ {"idle"},
           round[r] \notin Over \cup {"idle"},
           round' = [round EXCEPT ![r] = next], UNCHANGED <<level, reached>>
    PROVE  [Service!Next]_(Service!vars)
<1> DEFINE status == [q \in Request |-> Status(q)]
<1>1. status[r] = "asking"
  BY DEF Status, Over
<1>2. \A q \in Request : q # r => Status(q)' = Status(q)
  BY DEF Status, GatewayTypeOK
<1>3. round'[r] = next
  BY DEF GatewayTypeOK
<1>4. CASE next \in Over
  <2>1. Status(r)' \in {"answered", "failed"}
    BY <1>3, <1>4 DEF Status, Over
  <2>2. status' = [status EXCEPT ![r] = Status(r)']
    BY <1>2
  <2>3. Service!End(r)
    BY <1>1, <2>1, <2>2 DEF Service!End
  <2>. QED
    BY <2>3 DEF Service!Next
<1>5. CASE next \notin Over
  <2>1. Status(r)' = "asking"
    BY <1>3, <1>5 DEF Status, Over
  <2>2. status' = status
    BY <1>1, <1>2, <2>1
  <2>. QED
    BY <2>2 DEF Service!vars
<1>. QED
  BY <1>4, <1>5

\* A step that leaves the rounds alone leaves the service's statuses alone.
LEMMA SameRounds ==
    ASSUME UNCHANGED round
    PROVE  [r \in Request |-> Status(r)]' = [r \in Request |-> Status(r)]
BY DEF Status

LEMMA ServiceStep ==
    ASSUME GatewayAssumption, GatewayInv, [GatewayNext]_gatewayVars
    PROVE  [Service!Next]_(Service!vars)
<1> DEFINE status == [q \in Request |-> Status(q)]
<1>1. CASE UNCHANGED gatewayVars
  BY <1>1, SameRounds DEF gatewayVars, Service!vars
<1>2. CASE GatewayNext
  <2>1. PICK r \in Request :
           \/ \E l \in Level : Interpret(r, l)
           \/ GeneralChat(r) \/ TextPolish(r) \/ Advance(r) \/ Interrupted(r)
    BY <1>2 DEF GatewayNext
  <2>2. ASSUME NEW l \in Level \cup {"none"}, NEW first \in {"route", "calculate", "polish"},
               Begin(r, first, l)
        PROVE  [Service!Next]_(Service!vars)
    <3>1. status[r] = "idle"
      BY <2>2 DEF Begin, Status
    <3>2. status' = [status EXCEPT ![r] = "asking"]
      BY <2>2 DEF Begin, Status, Over, GatewayInv, GatewayTypeOK
    <3>3. Service!Ask(r, l)
      BY <2>2, <3>1, <3>2 DEF Service!Ask, Begin
    <3>. QED
      BY <3>3 DEF Service!Next
  <2>3. CASE (\E l \in Level : Interpret(r, l)) \/ GeneralChat(r) \/ TextPolish(r)
    BY <2>2, <2>3 DEF Interpret, GeneralChat, TextPolish, GatewayAssumption
  <2>4. CASE Route(r) \/ Calculate(r)
    BY <2>4, RoundStep DEF Route, Calculate, GatewayInv, Rounds, Over
  <2>5. CASE Queue(r)
    BY <2>5, SameRounds DEF Queue, Service!vars
  <2>6. CASE Post(r)
    <3> DEFINE place == IF OnDevice(r) THEN "primary" ELSE "fallback"
    <3>1. status[r] = "asking"
      BY <2>6 DEF Post, Asking, Status, Over
    <3>2. status' = status
      BY <2>6, SameRounds DEF Post
    <3>3. place = "fallback" => level[r] \in OpenLevel
      BY DEF GatewayInv, Orderly, OnDevice
    <3>4. Service!Reach(r, place)
      BY <2>6, <3>1, <3>2, <3>3 DEF Service!Reach, Post
    <3>5. place \in {"primary", "fallback"}
      OBVIOUS
    <3>. QED
      BY <3>4, <3>5 DEF Service!Next
  <2>7. ASSUME NEW next \in Rounds \ {"idle"}, progress[r] # "ready", RoundEnds(r, next)
        PROVE  [Service!Next]_(Service!vars)
    <3>1. round[r] \notin Over \cup {"idle"}
      BY <2>7 DEF GatewayInv, Orderly, Asking
    <3>. QED
      BY <2>7, <3>1, RoundStep DEF RoundEnds, GatewayInv
  <2>8. CASE Answered(r)
    <3>1. PICK next \in AfterGood(round[r]) : RoundEnds(r, next)
      BY <2>8 DEF Answered
    <3>2. next \in Rounds \ {"idle"}
      BY DEF AfterGood, Rounds, Over
    <3>. QED
      BY <2>7, <2>8, <3>1, <3>2 DEF Answered
  <2>9. CASE Interrupted(r)
    BY <2>7, <2>9 DEF Interrupted, Rounds, Over
  <2>10. ASSUME NEW e \in Answer \ {"good"}, GivesUp(r, e)
         PROVE  [Service!Next]_(Service!vars)
    <3>1. progress[r] # "ready"
      BY <2>10 DEF GivesUp, CallFails
    <3>. QED
      BY <2>7, <2>10, <3>1, AfterErrorType DEF GivesUp
  <2>11. ASSUME NEW e \in Answer \ {"good"}, TryAgain(r, e) \/ FallBackToCloud(r, e)
         PROVE  [Service!Next]_(Service!vars)
    BY <2>11, SameRounds DEF TryAgain, FallBackToCloud, Service!vars
  <2>. QED
    BY <2>1, <2>3, <2>4, <2>5, <2>6, <2>8, <2>9, <2>10, <2>11 DEF Advance
<1>. QED
  BY <1>1, <1>2

\* The gateway with its retries, repairs and fallback implements the service its
\* callers rely on: no adapter is reached for a request that is over, and the
\* fallback never for data above its levels.
THEOREM GatewayImplementsService == GatewaySpec => ImplementsService
<1>1. GatewayInit => Service!Init
  BY ServiceInit
<1>2. GatewayInv /\ [GatewayNext]_gatewayVars => [Service!Next]_(Service!vars)
  BY GatewayAssumption, ServiceStep
<1>. QED
  BY <1>1, <1>2, GatewayInvariant, PTL DEF GatewaySpec, ImplementsService, Service!Spec

------------------------------------------------------------------------------
(* The connectors.                                                          *)

BucketTypeOK ==
    /\ tick \in Nat /\ updatedAt \in 0..tick
    /\ tokens \in 0..Burst
    /\ granted \in Seq(0..updatedAt)

\* What was granted since the i-th grant, together with what is in the bucket now,
\* is at most the burst and what has come back since.
Budgeted ==
    \A i \in DOMAIN granted :
        Len(granted) - i + 1 + tokens <= Burst + Rate * (updatedAt - granted[i])

RateInv == BucketTypeOK /\ Budgeted /\ RateRespected

LEMMA RefillAddsUp ==
    ASSUME NEW a \in Int, NEW x \in Int, NEW y \in Int, NEW z \in Int
    PROVE  a * (y - x) + (z - y) * a = a * (z - x)
OBVIOUS

LEMMA RefillIsPositive ==
    ASSUME NEW a \in Nat, NEW x \in Nat PROVE x * a \in Nat
OBVIOUS

\* A refill leaves the bucket between empty and full, and the budget kept up to now.
LEMMA RefillBudget ==
    ASSUME ConnectorAssumption, RateInv
    PROVE  /\ Refilled \in 0..Burst
           /\ \A i \in DOMAIN granted :
                Len(granted) - i + 1 + Refilled <= Burst + Rate * (tick - granted[i])
<1> USE DEF RateInv, BucketTypeOK, ConnectorAssumption
<1> DEFINE back == (tick - updatedAt) * Rate
<1>1. back \in Nat
  BY RefillIsPositive
<1>2. Refilled = IF tokens + back > Burst THEN Burst ELSE tokens + back
  BY DEF Refilled
<1>. HIDE DEF back
<1>3. Refilled \in 0..Burst /\ Refilled <= tokens + back
  BY <1>1, <1>2
<1>4. ASSUME NEW i \in DOMAIN granted
      PROVE  Len(granted) - i + 1 + Refilled <= Burst + Rate * (tick - granted[i])
  <2>1. granted[i] \in 0..updatedAt /\ i \in Nat /\ Len(granted) \in Nat
    OBVIOUS
  <2> DEFINE before == Rate * (updatedAt - granted[i])
             now == Rate * (tick - granted[i])
  <2>2. before \in Int /\ now \in Int
    BY <2>1
  <2>3. before + back = now
    BY <2>1, RefillAddsUp DEF back
  <2>4. Len(granted) - i + 1 + tokens <= Burst + before
    BY DEF Budgeted
  <2>. HIDE DEF before, now
  <2>5. Len(granted) - i + 1 + Refilled <= Burst + now
    BY <1>1, <1>3, <2>1, <2>2, <2>3, <2>4
  <2>. QED
    BY <2>5 DEF now
<1>. QED
  BY <1>3, <1>4

LEMMA RateInit == ASSUME ConnectorAssumption, ConnectorInit PROVE RateInv
BY DEF ConnectorAssumption, ConnectorInit, RateInv, BucketTypeOK, Budgeted, RateRespected

\* A request that gets no token refills the bucket.
LEMMA RefusalInv ==
    ASSUME ConnectorAssumption, RateInv,
           updatedAt' = tick, tokens' = Refilled, UNCHANGED <<granted, tick>>
    PROVE  RateInv'
<1>1. BucketTypeOK'
  BY RefillBudget DEF RateInv, BucketTypeOK
<1>2. Budgeted'
  BY RefillBudget DEF Budgeted
<1>3. RateRespected'
  BY DEF RateInv, RateRespected
<1>. QED
  BY <1>1, <1>2, <1>3 DEF RateInv

\* One that gets a token is granted it now.
LEMMA GrantInv ==
    ASSUME ConnectorAssumption, RateInv, Refilled >= 1,
           updatedAt' = tick, tokens' = Refilled - 1,
           granted' = Append(granted, tick), UNCHANGED tick
    PROVE  RateInv'
<1> USE DEF ConnectorAssumption
<1> DEFINE n == Len(granted)
<1>1. Refilled \in 0..Burst
  BY RefillBudget
<1>2. granted \in Seq(0..tick) /\ n \in Nat /\ tick \in Nat
  BY DEF RateInv, BucketTypeOK
<1>3. BucketTypeOK'
  BY <1>1, <1>2 DEF BucketTypeOK
<1>4. /\ DOMAIN granted = 1..n /\ DOMAIN granted' = 1..(n + 1) /\ Len(granted') = n + 1
      /\ granted'[n + 1] = tick
      /\ \A i \in 1..n : granted'[i] = granted[i]
  BY <1>2
<1>5. ASSUME NEW i \in DOMAIN granted'
      PROVE  n + 1 - i + 1 + tokens' <= Burst + Rate * (tick - granted'[i])
  <2>1. CASE i = n + 1
    <3>1. Rate * (tick - granted'[i]) = 0
      BY <1>2, <1>4, <2>1
    <3>. QED
      BY <1>1, <1>2, <2>1, <3>1
  <2>2. CASE i # n + 1
    <3>1. i \in 1..n /\ granted'[i] = granted[i]
      BY <1>2, <1>4, <2>2
    <3>2. n - i + 1 + Refilled <= Burst + Rate * (tick - granted[i])
      BY <1>4, <3>1, RefillBudget
    <3>. DEFINE back == Rate * (tick - granted[i])
    <3>3. back \in Int
      BY <1>2, <3>1
    <3>4. n - i + 1 + Refilled <= Burst + back
      BY <3>2
    <3>. HIDE DEF back
    <3>5. n + 1 - i + 1 + (Refilled - 1) <= Burst + back
      BY <1>1, <1>2, <3>1, <3>3, <3>4
    <3>. QED
      BY <3>1, <3>5 DEF back
  <2>. QED
    BY <2>1, <2>2
<1>6. Budgeted'
  BY <1>4, <1>5 DEF Budgeted
<1>7. ASSUME NEW i \in DOMAIN granted', NEW j \in DOMAIN granted', i <= j
      PROVE  j - i + 1 <= Burst + Rate * (granted'[j] - granted'[i])
  <2>1. CASE j = n + 1
    <3>. DEFINE back == Rate * (tick - granted'[i])
    <3>1. back \in Int /\ i \in Nat
      BY <1>2, <1>4
    <3>2. n + 1 - i + 1 + tokens' <= Burst + back
      BY <1>5
    <3>3. tokens' \in Nat
      BY <1>1
    <3>. HIDE DEF back
    <3>4. n + 1 - i + 1 <= Burst + back
      BY <1>2, <3>1, <3>2, <3>3
    <3>. QED
      BY <1>4, <2>1, <3>4 DEF back
  <2>2. CASE j # n + 1
    <3>1. i \in 1..n /\ j \in 1..n
      BY <1>2, <1>4, <1>7, <2>2
    <3>. QED
      BY <1>4, <1>7, <3>1 DEF RateInv, RateRespected
  <2>. QED
    BY <2>1, <2>2
<1>8. RateRespected'
  BY <1>7 DEF RateRespected
<1>. QED
  BY <1>3, <1>6, <1>8 DEF RateInv

LEMMA RateNext ==
    ASSUME ConnectorAssumption, RateInv, [ConnectorNext]_connectorVars
    PROVE  RateInv'
<1>1. ASSUME UNCHANGED <<tokens, updatedAt, granted>>, tick' \in {tick, tick + 1} PROVE RateInv'
  BY <1>1 DEF RateInv, BucketTypeOK, Budgeted, RateRespected
<1>2. CASE UNCHANGED connectorVars
  BY <1>1, <1>2 DEF connectorVars
<1>3. CASE ClockTicks
  BY <1>1, <1>3 DEF ClockTicks
<1>4. ASSUME NEW c \in Client, ExecuteRequest(c) PROVE RateInv'
  <2>1. CASE Refilled >= 1
    BY <1>4, <2>1, GrantInv DEF ExecuteRequest
  <2>2. CASE ~(Refilled >= 1)
    BY <1>4, <2>2, RefusalInv DEF ExecuteRequest
  <2>. QED
    BY <2>1, <2>2
<1>5. ASSUME NEW c \in Client, RequestSucceeds(c) \/ RequestFails(c) \/ RequestLimited(c)
      PROVE  RateInv'
  BY <1>1, <1>5 DEF RequestSucceeds, RequestFails, RequestLimited
<1>. QED
  BY <1>2, <1>3, <1>4, <1>5 DEF ConnectorNext

\* In every interval the clients of a connector get at most the burst and what its
\* token bucket (base_http_connector.py) took back meanwhile: for every rate and
\* burst, however many clients there are and however long they idle.
THEOREM RateIsRespected == ConnectorSpec => []RateRespected
<1>1. ConnectorInit => RateInv
  BY ConnectorAssumption, RateInit
<1>2. RateInv /\ [ConnectorNext]_connectorVars => RateInv'
  BY ConnectorAssumption, RateNext
<1>3. RateInv => RateRespected
  BY DEF RateInv
<1>. QED
  BY <1>1, <1>2, <1>3, PTL DEF ConnectorSpec

------------------------------------------------------------------------------
(* Speech output.                                                           *)

\* The lock of a task: one of its requests at a time is past it.
OneAtATime ==
    \A s, u \in Speaker :
        s # u /\ asks[s] = asks[u] /\ point[s] \in HoldsTask => point[u] \notin HoldsTask

\* A version that has been written and not returned yet is there.
WrittenOnDisk == \A s \in Speaker : point[s] = "written" => mine[s] \in versions[asks[s]]

\* The engine's lock is held by a thread.
EngineHeld == \A s \in running : point[s] = "thread"

SpeechInv == SpeechTypeOK /\ OneAtATime /\ EngineHeld /\ WrittenOnDisk /\ NewestOnDisk

LEMMA ZeroWritten == 0 \in 0..MaxWritten
BY SpeechAssumption

LEMMA SpeechInitInv == ASSUME SpeechInit PROVE SpeechInv
<1> USE DEF SpeechInit
<1>1. SpeechTypeOK
  BY ZeroWritten DEF SpeechTypeOK
<1>2. \A s \in Speaker : point[s] = "idle"
  OBVIOUS
<1>3. OneAtATime /\ EngineHeld /\ WrittenOnDisk
  BY <1>2 DEF OneAtATime, EngineHeld, WrittenOnDisk, HoldsTask
<1>4. NewestOnDisk
  BY DEF NewestOnDisk
<1>. QED
  BY <1>1, <1>3, <1>4 DEF SpeechInv

\* A step that moves one request without its files: past the lock only if it was,
\* or if no other one of its task is.
LEMMA MoveInv ==
    ASSUME SpeechInv, NEW s \in Speaker,
           NEW p \in {"idle", "waiting", "locked", "thread", "audio"}, Goes(s, p),
           \/ p \notin HoldsTask
           \/ point[s] \in HoldsTask
           \/ \A u \in Speaker : asks[u] = asks[s] => point[u] \notin HoldsTask,
           closed' \in {"no", "closing", "yes"}, engine' \in BOOLEAN,
           running' \in SUBSET (running \ {s}),
           UNCHANGED <<asks, versions, made, mine, given>>
    PROVE  SpeechInv'
<1>1. point' = [point EXCEPT ![s] = p]
  BY DEF Goes
<1>2. SpeechTypeOK'
  BY <1>1 DEF SpeechInv, SpeechTypeOK, HoldsTask
<1>3. OneAtATime'
  BY <1>1 DEF SpeechInv, SpeechTypeOK, OneAtATime
<1>4. WrittenOnDisk'
  BY <1>1 DEF SpeechInv, SpeechTypeOK, WrittenOnDisk
<1>5. EngineHeld'
  BY <1>1 DEF SpeechInv, SpeechTypeOK, EngineHeld
<1>. QED
  BY <1>2, <1>3, <1>4, <1>5 DEF SpeechInv, NewestOnDisk

\* A step that moves no request and touches no file.
LEMMA EngineInv ==
    ASSUME SpeechInv,
           closed' \in {"no", "closing", "yes"}, engine' \in BOOLEAN,
           running' \in SUBSET {s \in Speaker : point[s] = "thread"},
           UNCHANGED <<asks, point, versions, made, mine, given>>
    PROVE  SpeechInv'
BY DEF SpeechInv, SpeechTypeOK, OneAtATime, EngineHeld, WrittenOnDisk, NewestOnDisk

LEMMA WriteInv == ASSUME SpeechInv, NEW s \in Speaker, WriteVersion(s) PROVE SpeechInv'
<1> USE DEF SpeechInv, SpeechTypeOK
<1>1. /\ point[s] = "audio" /\ point' = [point EXCEPT ![s] = "written"]
      /\ made < MaxWritten /\ made' = made + 1
      /\ mine' = [mine EXCEPT ![s] = made']
      /\ versions' = [versions EXCEPT ![asks[s]] = @ \cup {made'}]
      /\ UNCHANGED <<asks, closed, engine, running, given>>
  BY DEF WriteVersion, Goes
<1>2. made' \in 1..MaxWritten
  BY <1>1, SpeechAssumption
<1>3. SpeechTypeOK'
  BY <1>1, <1>2 DEF HoldsTask
<1>4. OneAtATime'
  BY <1>1 DEF OneAtATime, HoldsTask
<1>5. WrittenOnDisk'
  <2>. SUFFICES ASSUME NEW u \in Speaker, point'[u] = "written"
                PROVE  mine'[u] \in versions'[asks'[u]]
    BY DEF WrittenOnDisk
  <2>1. CASE u = s
    BY <1>1, <2>1
  <2>2. CASE u # s
    BY <1>1, <2>2 DEF WrittenOnDisk
  <2>. QED
    BY <2>1, <2>2
<1>6. NewestOnDisk'
  BY <1>1 DEF NewestOnDisk
<1>7. EngineHeld'
  BY <1>1 DEF EngineHeld
<1>. QED
  BY <1>3, <1>4, <1>5, <1>6, <1>7

\* The clean-up can take no version of another request of its task: none is past
\* the task's lock.
LEMMA RemoveInv == ASSUME SpeechInv, NEW s \in Speaker, RemoveOldVersions(s) PROVE SpeechInv'
<1> USE DEF SpeechInv, SpeechTypeOK
<1> DEFINE t == asks[s]
           stay == versions[t] \cap ({mine[s]} \cup NewestOf(versions[t] \ {mine[s]}, KeepVersions - 1))
<1>1. /\ point[s] = "written" /\ point' = [point EXCEPT ![s] = "idle"]
      /\ versions' = [versions EXCEPT ![t] = stay]
      /\ given' = [given EXCEPT ![t] = mine[s]]
      /\ mine' = [mine EXCEPT ![s] = 0]
      /\ UNCHANGED <<asks, closed, engine, running, made>>
  BY DEF RemoveOldVersions, Goes
<1>2. stay \subseteq versions[t] /\ mine[s] \in stay
  BY <1>1 DEF WrittenOnDisk
<1>. HIDE DEF stay
<1>3. SpeechTypeOK'
  <2>1. versions' \in [Spoken -> SUBSET (1..MaxWritten)]
    BY <1>1, <1>2
  <2>2. mine' \in [Speaker -> 0..MaxWritten] /\ given' \in [Spoken -> 0..MaxWritten]
    BY <1>1, ZeroWritten
  <2>. QED
    BY <1>1, <2>1, <2>2
<1>4. OneAtATime'
  BY <1>1 DEF OneAtATime, HoldsTask
<1>5. WrittenOnDisk'
  <2>. SUFFICES ASSUME NEW u \in Speaker, point'[u] = "written"
                PROVE  mine'[u] \in versions'[asks'[u]]
    BY DEF WrittenOnDisk
  <2>1. u # s /\ point[u] = "written"
    BY <1>1
  <2>2. asks[u] # t
    BY <1>1, <2>1 DEF OneAtATime, HoldsTask
  <2>. QED
    BY <1>1, <2>1, <2>2 DEF WrittenOnDisk
<1>6. NewestOnDisk'
  BY <1>1, <1>2 DEF NewestOnDisk
<1>7. EngineHeld'
  BY <1>1 DEF EngineHeld
<1>. QED
  BY <1>3, <1>4, <1>5, <1>6, <1>7

LEMMA RestartInv == ASSUME SpeechInv, RestartSpeech PROVE SpeechInv'
<1> USE DEF SpeechInv, RestartSpeech
<1>1. SpeechTypeOK'
  BY ZeroWritten DEF SpeechTypeOK
<1>2. \A s \in Speaker : point'[s] = "idle"
  OBVIOUS
<1>3. OneAtATime' /\ EngineHeld' /\ WrittenOnDisk'
  BY <1>2 DEF OneAtATime, EngineHeld, WrittenOnDisk, HoldsTask
<1>. QED
  BY <1>1, <1>3 DEF NewestOnDisk

LEMMA SpeechNextInv == ASSUME SpeechInv, [SpeechNext]_speechVars PROVE SpeechInv'
<1>1. CASE UNCHANGED speechVars
  BY <1>1, EngineInv DEF EngineHeld, speechVars, SpeechInv, SpeechTypeOK
<1>2. CASE CloseSpeech
  BY <1>2, EngineInv DEF EngineHeld, CloseSpeech, SpeechInv, SpeechTypeOK
<1>3. CASE RestartSpeech
  BY <1>3, RestartInv
<1>4. ASSUME NEW s \in Speaker, AskSpeech(s) PROVE SpeechInv'
  BY <1>4, MoveInv DEF EngineHeld, AskSpeech, SpeechInv, SpeechTypeOK, HoldsTask
<1>5. ASSUME NEW s \in Speaker, LockTask(s) PROVE SpeechInv'
  BY <1>5, MoveInv DEF EngineHeld, LockTask, SpeechInv, SpeechTypeOK
<1>6. ASSUME NEW s \in Speaker, Synthesize(s) PROVE SpeechInv'
  BY <1>6, MoveInv DEF EngineHeld, Synthesize, SpeechInv, SpeechTypeOK, HoldsTask
<1>7. ASSUME NEW s \in Speaker, TakeEngine(s) PROVE SpeechInv'
  BY <1>7, EngineInv DEF EngineHeld, TakeEngine, SpeechInv, SpeechTypeOK
<1>8. ASSUME NEW s \in Speaker, Generated(s) PROVE SpeechInv'
  <2>1. CASE Goes(s, "idle")
    BY <1>8, <2>1, MoveInv DEF EngineHeld, Generated, SpeechInv, SpeechTypeOK, HoldsTask
  <2>2. CASE Goes(s, "audio")
    BY <1>8, <2>2, MoveInv DEF EngineHeld, Generated, SpeechInv, SpeechTypeOK, HoldsTask
  <2>. QED
    BY <1>8, <2>1, <2>2 DEF Generated
<1>. QED
  BY <1>1, <1>2, <1>3, <1>4, <1>5, <1>6, <1>7, <1>8, WriteInv, RemoveInv DEF SpeechNext

\* The URL that SpeechOutputService.create returned last for a task can be played,
\* however many requests, tasks, restarts and versions to keep there are: the
\* clean-up by modification time takes nothing of a request behind the task's lock.
THEOREM NewestStaysOnDisk == SpeechSpec => []NewestOnDisk
<1>1. SpeechInit => SpeechInv
  BY SpeechInitInv
<1>2. SpeechInv /\ [SpeechNext]_speechVars => SpeechInv'
  BY SpeechNextInv
<1>3. SpeechInv => NewestOnDisk
  BY DEF SpeechInv
<1>. QED
  BY <1>1, <1>2, <1>3, PTL DEF SpeechSpec
------------------------------------------------------------------------------
(* The audit log.                                                           *)

\* Where e stands in a buffer b.
Places(b, e) == {i \in DOMAIN b : b[i] = e}

Once(b) == \A i \in DOMAIN b, j \in DOMAIN b : b[i] = b[j] => i = j

AuditTypes ==
    /\ day \in Nat
    /\ recorded \in Seq(Nat) /\ Len(recorded) <= MaxEvent
    /\ buffer \in Seq(Nat) /\ \A i \in DOMAIN buffer : buffer[i] \in Event
    /\ logFile \in [1..MaxEvent -> Nat]
    /\ failedWrites \in Nat

\* An event waits in one place, and nothing is on file before it was recorded.
AuditInv ==
    /\ AuditTypes
    /\ Once(buffer)
    /\ \A e \in (1..MaxEvent) \ Event : logFile[e] = 0
    /\ AuditKeepsAll

LEMMA PlacesCounted ==
    ASSUME NEW S, NEW b \in Seq(S), NEW e
    PROVE  /\ \A P \in SUBSET Places(b, e) : Cardinality(P) \in Nat
           /\ (\A i \in DOMAIN b : b[i] # e) => \A P \in SUBSET Places(b, e) : Cardinality(P) = 0
           /\ \A i \in DOMAIN b : b[i] = e => Cardinality(Places(b, e)) > 0
           /\ \A i \in DOMAIN b : b[i] = e /\ Once(b) => Cardinality(Places(b, e)) = 1
<1>1. IsFiniteSet(Places(b, e))
  BY FS_Interval, FS_Subset DEF Places
<1>2. ASSUME NEW P \in SUBSET Places(b, e) PROVE Cardinality(P) \in Nat
  BY <1>1, FS_Subset, FS_CardinalityType
<1>3. ASSUME \A i \in DOMAIN b : b[i] # e, NEW P \in SUBSET Places(b, e) PROVE Cardinality(P) = 0
  BY <1>3, FS_EmptySet DEF Places
<1>4. ASSUME NEW i \in DOMAIN b, b[i] = e PROVE Cardinality(Places(b, e)) > 0
  <2>1. Places(b, e) # {}
    BY <1>4 DEF Places
  <2>. QED
    BY <1>1, <1>2, <2>1, FS_EmptySet
<1>5. ASSUME NEW i \in DOMAIN b, b[i] = e, Once(b) PROVE Cardinality(Places(b, e)) = 1
  <2>1. Places(b, e) = {i}
    BY <1>5 DEF Places, Once
  <2>. QED
    BY <2>1, FS_Singleton
<1>. QED
  BY <1>2, <1>3, <1>4, <1>5

\* _flush_unlocked over any buffer that holds each event once.
LEMMA FlushKeeps ==
    ASSUME AuditTypes, NEW b \in Seq(Nat), Once(b), Flush(b)
    PROVE  /\ logFile' \in [1..MaxEvent -> Nat] /\ failedWrites' \in Nat
           /\ \A e \in 1..MaxEvent : logFile'[e] >= logFile[e]
           /\ \A e \in 1..MaxEvent : (\A i \in DOMAIN b : b[i] # e) => logFile'[e] = logFile[e]
           /\ \/ buffer' = b
              \/ buffer' = <<>> /\ \A e \in 1..MaxEvent, i \in DOMAIN b : b[i] = e => logFile'[e] > 0
           /\ failedWrites' = 0 =>
                /\ failedWrites = 0 /\ buffer' = <<>>
                /\ \A e \in 1..MaxEvent, i \in DOMAIN b : b[i] = e => logFile'[e] = logFile[e] + 1
<1> USE AuditAssumption DEF AuditTypes
<1>1. CASE Flushed(b)
  <2> DEFINE count(e) == Cardinality(Places(b, e))
  <2>1. /\ logFile' = [e \in 1..MaxEvent |-> logFile[e] + count(e)]
        /\ buffer' = <<>> /\ failedWrites' = failedWrites
    BY <1>1 DEF Flushed, Places
  <2>2. \A e : Places(b, e) \in SUBSET Places(b, e)
    OBVIOUS
  <2>3. ASSUME NEW e \in 1..MaxEvent
        PROVE  /\ count(e) \in Nat
               /\ (\A i \in DOMAIN b : b[i] # e) => count(e) = 0
               /\ \A i \in DOMAIN b : b[i] = e => count(e) = 1
    BY <2>2, PlacesCounted
  <2> HIDE DEF count
  <2>4. logFile' \in [1..MaxEvent -> Nat] /\ \A e \in 1..MaxEvent : logFile'[e] = logFile[e] + count(e)
    BY <2>1, <2>3
  <2>5. \A e \in 1..MaxEvent : logFile'[e] >= logFile[e]
    BY <2>3, <2>4
  <2>6. ASSUME NEW e \in 1..MaxEvent, \A i \in DOMAIN b : b[i] # e PROVE logFile'[e] = logFile[e]
    <3>1. count(e) = 0
      BY <2>3, <2>6
    <3>. QED
      BY <2>4, <3>1
  <2>7. \A e \in 1..MaxEvent, i \in DOMAIN b : b[i] = e => logFile'[e] = logFile[e] + 1
    BY <2>3, <2>4
  <2>8. \A e \in 1..MaxEvent, i \in DOMAIN b : b[i] = e => logFile'[e] > 0
    BY <2>7
  <2>. QED
    BY <2>1, <2>4, <2>5, <2>6, <2>7, <2>8
<1>2. ASSUME NEW d, NEW n, FlushFails(b, d, n)
      PROVE  /\ logFile' \in [1..MaxEvent -> Nat] /\ failedWrites' \in Nat \ {0} /\ buffer' = b
             /\ \A e \in 1..MaxEvent : logFile'[e] >= logFile[e]
             /\ \A e \in 1..MaxEvent : (\A i \in DOMAIN b : b[i] # e) => logFile'[e] = logFile[e]
  <2> DEFINE Written(e) == {i \in DOMAIN b : b[i] = e /\
                \/ recorded'[e] < d
                \/ recorded'[e] = d /\ Cardinality({j \in 1..i : recorded'[b[j]] = d}) <= n}
  <2>1. \A e : Written(e) \in SUBSET Places(b, e)
    BY DEF Places
  <2> DEFINE count(e) == Cardinality(Written(e))
  <2>2. ASSUME NEW e \in 1..MaxEvent
        PROVE  count(e) \in Nat /\ ((\A i \in DOMAIN b : b[i] # e) => count(e) = 0)
    <3>1. Written(e) \in SUBSET Places(b, e)
      BY <2>1
    <3>. QED
      BY <3>1, PlacesCounted
  <2>3. /\ logFile' = [e \in 1..MaxEvent |-> logFile[e] + count(e)]
        /\ buffer' = b /\ failedWrites' = failedWrites + 1
    BY <1>2 DEF FlushFails
  <2> HIDE DEF count
  <2>4. logFile' \in [1..MaxEvent -> Nat] /\ \A e \in 1..MaxEvent : logFile'[e] = logFile[e] + count(e)
    BY <2>2, <2>3
  <2>5. \A e \in 1..MaxEvent : logFile'[e] >= logFile[e]
    BY <2>2, <2>4
  <2>6. ASSUME NEW e \in 1..MaxEvent, \A i \in DOMAIN b : b[i] # e PROVE logFile'[e] = logFile[e]
    <3>1. count(e) = 0
      BY <2>2, <2>6
    <3>. QED
      BY <2>4, <3>1
  <2>. QED
    BY <2>3, <2>4, <2>5, <2>6
<1>. QED
  BY <1>1, <1>2 DEF Flush

\* An event recorded, if any, and the buffer b with it, is flushed.
LEMMA FlushInv ==
    ASSUME AuditTypes, NEW b \in Seq(Nat), Once(b), Flush(b),
           \A i \in DOMAIN b : b[i] \in 1..Len(recorded'),
           recorded' \in Seq(Nat), Len(recorded') <= MaxEvent, UNCHANGED <<day, lost>>,
           \A e \in (1..MaxEvent) \ (1..Len(recorded')) : logFile[e] = 0,
           \A e \in 1..Len(recorded') :
             \/ logFile[e] > 0 \/ (\E i \in DOMAIN b : b[i] = e) \/ e \in lost
             \/ recorded'[e] < day - RetentionDays,
           failedWrites = 0 =>
             \A e \in 1..Len(recorded') :
               logFile[e] <= 1 /\ ((\E i \in DOMAIN b : b[i] = e) => logFile[e] = 0)
    PROVE  AuditInv'
<1> USE AuditAssumption DEF Event
<1>1. /\ logFile' \in [1..MaxEvent -> Nat] /\ failedWrites' \in Nat
      /\ \A e \in 1..MaxEvent : logFile'[e] >= logFile[e]
      /\ \A e \in 1..MaxEvent : (\A i \in DOMAIN b : b[i] # e) => logFile'[e] = logFile[e]
      /\ \/ buffer' = b
         \/ buffer' = <<>> /\ \A e \in 1..MaxEvent, i \in DOMAIN b : b[i] = e => logFile'[e] > 0
      /\ failedWrites' = 0 =>
           /\ failedWrites = 0 /\ buffer' = <<>>
           /\ \A e \in 1..MaxEvent, i \in DOMAIN b : b[i] = e => logFile'[e] = logFile[e] + 1
  BY FlushKeeps
<1>2. AuditTypes'
  <2>1. buffer' \in Seq(Nat) /\ \A i \in DOMAIN buffer' : buffer'[i] \in 1..Len(recorded')
    <3>1. CASE buffer' = <<>>
      BY <3>1
    <3>2. CASE buffer' = b
      BY <3>2
    <3>. QED
      BY <1>1, <3>1, <3>2
  <2>. QED
    BY <1>1, <2>1 DEF AuditTypes
<1>3. Once(buffer)'
  BY <1>1 DEF Once
<1>4. (\A e \in (1..MaxEvent) \ Event : logFile[e] = 0)'
  <2>1. \A e \in (1..MaxEvent) \ (1..Len(recorded')) : \A i \in DOMAIN b : b[i] # e
    OBVIOUS
  <2>. QED
    BY <1>1, <2>1
<1>5. AuditKeepsAll'
  <2>1. ASSUME NEW e \in 1..Len(recorded')
        PROVE  \/ logFile'[e] > 0 \/ e \in Buffered' \/ e \in lost'
               \/ recorded'[e] < day' - RetentionDays
    <3>1. e \in 1..MaxEvent /\ logFile[e] \in Nat /\ logFile'[e] \in Nat
      BY <1>1 DEF AuditTypes
    <3>2. CASE \E i \in DOMAIN b : b[i] = e
      BY <1>1, <3>1, <3>2 DEF Buffered
    <3>3. CASE ~ \E i \in DOMAIN b : b[i] = e
      BY <1>1, <3>1, <3>3
    <3>. QED
      BY <3>2, <3>3
  <2>2. ASSUME failedWrites' = 0, NEW e \in 1..Len(recorded')
        PROVE  logFile'[e] + (IF e \in Buffered' THEN 1 ELSE 0) <= 1
    <3>1. e \in 1..MaxEvent /\ logFile[e] \in Nat /\ logFile'[e] \in Nat
      BY <1>1 DEF AuditTypes
    <3>2. e \notin Buffered'
      BY <1>1, <2>2 DEF Buffered
    <3>3. failedWrites = 0 /\ logFile[e] <= 1
      BY <1>1, <2>2
    <3>4. CASE \E i \in DOMAIN b : b[i] = e
      <4>1. logFile'[e] = logFile[e] + 1
        BY <1>1, <2>2, <3>1, <3>4
      <4>2. logFile[e] = 0
        BY <2>2, <3>3, <3>4
      <4>. QED
        BY <3>2, <4>1, <4>2
    <3>5. CASE ~ \E i \in DOMAIN b : b[i] = e
      <4>1. logFile'[e] = logFile[e]
        BY <1>1, <3>1, <3>5
      <4>. QED
        BY <3>1, <3>2, <3>3, <4>1
    <3>. QED
      BY <3>4, <3>5
  <2>3. failedWrites' = 0 => Len(buffer') < FlushSize
    BY <1>1
  <2>. QED
    BY <2>1, <2>2, <2>3 DEF AuditKeepsAll
<1>. QED
  BY <1>2, <1>3, <1>4, <1>5 DEF AuditInv

LEMMA AuditStarts == ASSUME AuditInit PROVE AuditInv
<1> USE AuditAssumption DEF AuditInit, Event
<1>1. AuditTypes /\ Once(buffer)
  BY DEF AuditTypes, Once
<1>2. Event = {} /\ Len(buffer) < FlushSize
  OBVIOUS
<1>3. AuditKeepsAll
  BY <1>2 DEF AuditKeepsAll
<1>. QED
  BY <1>1, <1>3 DEF AuditInv

LEMMA RecordEventInv == ASSUME AuditInv, RecordEvent PROVE AuditInv'
<1> DEFINE b == Append(buffer, Len(recorded'))
<1> USE AuditAssumption DEF RecordEvent, AuditInv, AuditTypes, Event
<1>1. /\ recorded' \in Seq(Nat) /\ Len(recorded') = Len(recorded) + 1 /\ Len(recorded') <= MaxEvent
      /\ \A e \in 1..Len(recorded) : recorded'[e] = recorded[e]
  OBVIOUS
<1>2. /\ b \in Seq(Nat) /\ Len(b) = Len(buffer) + 1
      /\ \A i \in DOMAIN buffer : b[i] = buffer[i] /\ b[i] \in 1..Len(recorded)
      /\ b[Len(buffer) + 1] = Len(recorded')
      /\ DOMAIN b = DOMAIN buffer \cup {Len(buffer) + 1}
  <2>1. /\ Len(recorded') \in Nat /\ buffer \in Seq(Nat)
        /\ \A i \in DOMAIN buffer : buffer[i] \in 1..Len(recorded)
    BY <1>1
  <2> HIDE DEF RecordEvent, AuditInv, AuditTypes
  <2>. QED
    BY <2>1
<1>3. Once(b)
  <2>1. Once(buffer) /\ Len(recorded) \in Nat
    BY <1>1
  <2> HIDE DEF b, RecordEvent, AuditInv, AuditTypes
  <2>2. \A i \in DOMAIN buffer : b[i] # Len(recorded')
    BY <1>1, <1>2, <2>1
  <2>3. ASSUME NEW i \in DOMAIN b, NEW j \in DOMAIN b, b[i] = b[j] PROVE i = j
    <3>1. CASE i \in DOMAIN buffer /\ j \in DOMAIN buffer
      BY <1>2, <2>1, <2>3, <3>1 DEF Once
    <3>2. CASE ~(i \in DOMAIN buffer /\ j \in DOMAIN buffer)
      BY <1>2, <2>2, <2>3, <3>2
    <3>. QED
      BY <3>1, <3>2
  <2>. QED
    BY <2>3 DEF Once
<1>4. \A e \in (1..MaxEvent) \ (1..Len(recorded')) : logFile[e] = 0
  BY <1>1
<1>5. ASSUME NEW e \in 1..Len(recorded')
      PROVE  /\ \/ logFile[e] > 0 \/ (\E i \in DOMAIN b : b[i] = e) \/ e \in lost
                \/ recorded'[e] < day - RetentionDays
             /\ failedWrites = 0 =>
                  logFile[e] <= 1 /\ ((\E i \in DOMAIN b : b[i] = e) => logFile[e] = 0)
  <2> HIDE DEF b
  <2>1. CASE e = Len(recorded')
    <3>1. e \in (1..MaxEvent) \ Event
      BY <1>1, <2>1
    <3>2. logFile[e] = 0 /\ b[Len(buffer) + 1] = e /\ Len(buffer) + 1 \in DOMAIN b
      BY <1>2, <2>1, <3>1
    <3>. QED
      BY <3>2
  <2>2. CASE e \in Event
    <3>1. recorded'[e] = recorded[e] /\ logFile[e] \in Nat
      BY <1>1, <2>2
    <3>2. e \in Buffered => \E i \in DOMAIN b : b[i] = e
      BY <1>2 DEF Buffered
    <3>3. (\E i \in DOMAIN b : b[i] = e) => e \in Buffered
      <4>1. ASSUME NEW i \in DOMAIN b, b[i] = e PROVE i \in DOMAIN buffer
        <5>1. CASE i = Len(buffer) + 1
          BY <1>1, <1>2, <2>2, <4>1, <5>1
        <5>. QED
          BY <1>2, <5>1
      <4>. QED
        BY <1>2, <4>1 DEF Buffered
    <3>. QED
      BY <2>2, <3>1, <3>2, <3>3 DEF AuditKeepsAll
  <2>. QED
    BY <1>1, <2>1, <2>2
<1>6. CASE Len(b) >= FlushSize
  <2>1. \A i \in DOMAIN b : b[i] \in 1..Len(recorded')
    BY <1>1, <1>2
  <2>2. Flush(b)
    BY <1>2, <1>6
  <2> HIDE DEF b
  <2>. QED
    BY <2>1, <2>2, <1>1, <1>2, <1>3, <1>4, <1>5, <1>6, FlushInv
<1>7. CASE Len(b) < FlushSize
  <2>1. buffer' = b /\ UNCHANGED <<logFile, failedWrites, day, lost>>
    BY <1>2, <1>7
  <2>4. \A i \in DOMAIN b : b[i] \in 1..Len(recorded')
    BY <1>1, <1>2
  <2> HIDE DEF b
  <2>2. AuditTypes' /\ Once(buffer)'
    <3>1. Once(buffer)'
      BY <1>3, <2>1 DEF Once
    <3>. QED
      BY <1>1, <1>2, <2>1, <2>4, <3>1
  <2>3. AuditKeepsAll'
    <3>1. ASSUME NEW e \in 1..Len(recorded')
          PROVE  /\ \/ logFile'[e] > 0 \/ e \in Buffered' \/ e \in lost'
                    \/ recorded'[e] < day' - RetentionDays
                 /\ failedWrites' = 0 => logFile'[e] + (IF e \in Buffered' THEN 1 ELSE 0) <= 1
      <4>1. logFile'[e] = logFile[e] /\ logFile[e] \in Nat /\ failedWrites' = failedWrites
        BY <1>1, <2>1
      <4>2. e \in Buffered' <=> \E i \in DOMAIN b : b[i] = e
        BY <2>1 DEF Buffered
      <4>3. \/ logFile[e] > 0 \/ (\E i \in DOMAIN b : b[i] = e) \/ e \in lost
            \/ recorded'[e] < day - RetentionDays
        BY <1>5
      <4>4. failedWrites = 0 =>
              logFile[e] <= 1 /\ ((\E i \in DOMAIN b : b[i] = e) => logFile[e] = 0)
        BY <1>5
      <4>. QED
        BY <2>1, <4>1, <4>2, <4>3, <4>4
    <3>. QED
      BY <1>7, <2>1, <3>1 DEF AuditKeepsAll
  <2>. QED
    BY <1>4, <2>1, <2>2, <2>3
<1>. QED
  BY <1>2, <1>6, <1>7

LEMMA FlushEventsInv == ASSUME AuditInv, FlushEvents PROVE AuditInv'
<1> USE AuditAssumption DEF FlushEvents, AuditInv, AuditTypes, Event
<1>1. ASSUME NEW e \in 1..Len(recorded)
      PROVE  /\ \/ logFile[e] > 0 \/ (\E i \in DOMAIN buffer : buffer[i] = e) \/ e \in lost
                \/ recorded[e] < day - RetentionDays
             /\ failedWrites = 0 =>
                  logFile[e] <= 1 /\ ((\E i \in DOMAIN buffer : buffer[i] = e) => logFile[e] = 0)
  <2>1. logFile[e] \in Nat /\ (e \in Buffered <=> \E i \in DOMAIN buffer : buffer[i] = e)
    BY DEF Buffered
  <2>. QED
    BY <2>1 DEF AuditKeepsAll
<1>. QED
  BY <1>1, FlushInv

LEMMA MidnightInv == ASSUME AuditInv, Midnight PROVE AuditInv'
<1> USE AuditAssumption DEF Midnight, AuditInv, AuditTypes, Event
<1>1. AuditTypes' /\ Once(buffer)'
  BY DEF Once
<1>2. AuditKeepsAll'
  BY DEF AuditKeepsAll, Buffered
<1>. QED
  BY <1>1, <1>2

LEMMA RestartAuditInv == ASSUME AuditInv, RestartAudit PROVE AuditInv'
<1> USE AuditAssumption DEF RestartAudit, AuditInv, AuditTypes, Event
<1>1. AuditTypes' /\ Once(buffer)'
  BY DEF Once
<1>2. \A e \in (1..MaxEvent) : logFile'[e] = logFile[e] \/ logFile'[e] = 0
  OBVIOUS
<1>3. \A e \in Event : logFile'[e] = logFile[e] \/ recorded[e] < day - RetentionDays
  OBVIOUS
<1>4. \A e \in Event : e \in Buffered => logFile[e] > 0 \/ e \in lost'
  OBVIOUS
<1>5. Buffered' = {} /\ Len(buffer') < FlushSize
  BY DEF Buffered
<1>6. AuditKeepsAll'
  <2>1. ASSUME NEW e \in Event
        PROVE  /\ \/ logFile'[e] > 0 \/ e \in Buffered' \/ e \in lost'
                  \/ recorded'[e] < day' - RetentionDays
               /\ failedWrites' = 0 => logFile'[e] + (IF e \in Buffered' THEN 1 ELSE 0) <= 1
    <3>1. logFile[e] \in Nat /\ logFile'[e] \in Nat /\ e \in 1..MaxEvent
      OBVIOUS
    <3>. QED
      BY <1>2, <1>3, <1>4, <1>5, <2>1, <3>1 DEF AuditKeepsAll
  <2>. QED
    BY <1>5, <2>1 DEF AuditKeepsAll
<1>. QED
  BY <1>1, <1>2, <1>6

LEMMA AuditInvariant == AuditSpec => []AuditInv
<1>1. AuditInv /\ [AuditNext]_auditVars => AuditInv'
  <2> SUFFICES ASSUME AuditInv, [AuditNext]_auditVars PROVE AuditInv'
    OBVIOUS
  <2>1. CASE UNCHANGED auditVars
    BY <2>1 DEF auditVars, AuditInv, AuditTypes, Once, Event, Buffered, AuditKeepsAll
  <2>. QED
    BY <2>1, RecordEventInv, FlushEventsInv, MidnightInv, RestartAuditInv DEF AuditNext
<1>. QED
  BY <1>1, AuditStarts, PTL DEF AuditSpec

\* Every audit event is on file or waiting until its days are over, unless the
\* process was killed with it in a buffer that is not full; only a failed write
\* puts it on file twice (AuditService._flush_unlocked).
THEOREM AuditKeeps == AuditSpec => []AuditKeepsAll
BY AuditInvariant, PTL DEF AuditInv
==============================================================================
