----------------------------- MODULE ModelGateway -----------------------------
(***************************************************************************)
(* ModelGateway over its adapters, with the two tools that ask it for text.*)
(* A request is a coroutine: it goes through rounds (calls of generate or  *)
(* generate_text), a round through attempts, and an attempt waits for a    *)
(* slot of the local adapter and for the server's answer.  An answer       *)
(* stands for what the adapter makes of it: "good", or the kind of error   *)
(* it raises.  "connection" is a retryable plain ModelError (transport     *)
(* failure or 5xx), "rejected" one that is not (4xx, no protocol, no JSON),*)
(* "schema" a ModelSchemaError, and "unfit" the ValidationError of the     *)
(* mock, which is no ModelError: nothing retries, repairs or replaces it.  *)
(***************************************************************************)
EXTENDS Naturals, FiniteSets

CONSTANTS
    Request,
    Level,          \* data levels a caller may pass
    OpenLevel,      \* ModelGateway._fallback_data_levels
    Provider,       \* MODEL_PROVIDER values to consider
    MaxConcurrency  \* slots of the local adapter

ASSUME GatewayAssumption ==
    /\ IsFiniteSet(Request)
    /\ OpenLevel \subseteq Level
    /\ "D0" \in Level /\ "none" \notin Level
    /\ MaxConcurrency \in Nat \ {0}

VARIABLES
    provider, fallback,  \* the adapters from_settings built
    slots,               \* free slots of the primary adapter's semaphore
    round, attempt, progress,  \* where each request is
    level,               \* the data level its caller passed
    reached              \* the adapters that were sent something for it (history)

gatewayVars == <<provider, fallback, slots, round, attempt, progress, level, reached>>
gatewaySetup == <<provider, fallback>>

Queueing == {"rkllm", "llamacpp"}
Over == {"done", "failed"}
Retryable == {"timeout", "rate", "busy", "connection"}
Repairable == {"rejected", "schema"}
Answer == {"good", "unfit"} \cup Repairable \cup Retryable

\* ModelGateway.from_settings.
GatewayInit ==
    /\ provider \in Provider
    /\ fallback \in {b \in BOOLEAN : b => provider \in Queueing}
    /\ slots = MaxConcurrency
    /\ round = [r \in Request |-> "idle"]
    /\ attempt = [r \in Request |-> "first"]
    /\ progress = [r \in Request |-> "ready"]
    /\ level = [r \in Request |-> "none"]
    /\ reached = [r \in Request |-> {}]

Begin(r, first, l) ==
    /\ round[r] = "idle"
    /\ round' = [round EXCEPT ![r] = first]
    /\ level' = [level EXCEPT ![r] = l]
    /\ UNCHANGED <<provider, fallback, slots, attempt, progress, reached>>

\* interpret() is given the level of the classified text; general_chat passes
\* D0 whatever the text is, text_polish passes none.
Interpret(r, l) == Begin(r, "route", l)
GeneralChat(r) == Begin(r, "calculate", "D0")
TextPolish(r) == Begin(r, "polish", "none")

\* Anchored rules select an intent without a model; a terminal intent, and
\* arguments that can be derived and satisfy the schema, need none at all.
Route(r) ==
    /\ round[r] = "route"
    /\ \E next \in {"classify", "extract", "done"} : round' = [round EXCEPT ![r] = next]
    /\ UNCHANGED <<provider, fallback, slots, attempt, progress, level, reached>>

\* Arithmetic is answered without a model.
Calculate(r) ==
    /\ round[r] = "calculate"
    /\ \E next \in {"chat", "done"} : round' = [round EXCEPT ![r] = next]
    /\ UNCHANGED <<provider, fallback, slots, attempt, progress, level, reached>>

Asking(r) == round[r] \notin Over \cup {"idle", "route", "calculate"}
OnDevice(r) == attempt[r] # "fallback"
NeedsSlot(r) == OnDevice(r) /\ provider \in Queueing

Queue(r) ==
    /\ Asking(r) /\ progress[r] = "ready" /\ NeedsSlot(r)
    /\ progress' = [progress EXCEPT ![r] = "queued"]
    /\ UNCHANGED <<provider, fallback, slots, round, attempt, level, reached>>

Post(r) ==
    /\ Asking(r)
    /\ \/ NeedsSlot(r) /\ progress[r] = "queued" /\ slots > 0 /\ slots' = slots - 1
       \/ ~NeedsSlot(r) /\ progress[r] = "ready" /\ UNCHANGED slots
    /\ progress' = [progress EXCEPT ![r] = "posted"]
    /\ reached' = [reached EXCEPT ![r] = @ \cup {IF OnDevice(r) THEN "primary" ELSE "fallback"}]
    /\ UNCHANGED <<provider, fallback, round, attempt, level>>

\* Mutant of Returns: a call that ends badly keeps its slot.
ReturnsIfReady(r) ==
    /\ progress' = [progress EXCEPT ![r] = "ready"]
    /\ UNCHANGED slots

\* The adapter's finally clause gives the slot back, however the call ended.
Returns(r) ==
    /\ progress' = [progress EXCEPT ![r] = "ready"]
    /\ slots' = IF NeedsSlot(r) /\ progress[r] = "posted" THEN slots + 1 ELSE slots

\* What an adapter can make of a server's answer; free text meets no schema.  The
\* mock's rules find an intent of their own, whose arguments need not fit the
\* schema of the intent that was selected.
MockAnswers(asked) == IF asked \in {"extract", "extractAgain"} THEN {"good", "unfit"} ELSE {"good"}
TextAnswers == {"good", "rejected"} \cup Retryable
AnswersOf(r) ==
    LET adapter == IF OnDevice(r) THEN provider ELSE "cloud" IN
    CASE adapter = "mock"    -> MockAnswers(round[r])
      [] round[r] = "chat"   -> TextAnswers
      [] OTHER               -> {"good"} \cup Repairable \cup Retryable

\* The call fails with e: its queue was full for too long, or so was the answer.
CallFails(r, e) ==
    \/ progress[r] = "queued" /\ slots = 0 /\ e = "busy"
    \/ progress[r] = "posted" /\ e \in AnswersOf(r) \ {"good"}

\* A second attempt follows a connection error only, and its own error is
\* dropped: the first one decides what comes next and is what is raised.
Raised(r, e) == IF attempt[r] = "second" THEN "connection" ELSE e

SecondFollows(r, e) == attempt[r] = "first" /\ e = "connection" /\ round[r] # "chat"

\* Mutant of CanFallback: the level is not looked at.
CanFallbackAnyLevel(r, e) == OnDevice(r) /\ fallback /\ Raised(r, e) \in Retryable

CanFallback(r, e) ==
    OnDevice(r) /\ fallback /\ Raised(r, e) \in Retryable /\ level[r] \in OpenLevel

TryAgain(r, e) ==
    /\ CallFails(r, e)
    /\ SecondFollows(r, e)
    /\ Returns(r)
    /\ attempt' = [attempt EXCEPT ![r] = "second"]
    /\ UNCHANGED <<provider, fallback, round, level, reached>>

FallBackToCloud(r, e) ==
    /\ CallFails(r, e)
    /\ ~SecondFollows(r, e) /\ CanFallback(r, e)
    /\ Returns(r)
    /\ attempt' = [attempt EXCEPT ![r] = "fallback"]
    /\ UNCHANGED <<provider, fallback, round, level, reached>>

\* What follows a round that answered, and one that raised e.
AfterGood(asked) == IF asked \in {"classify", "reclassify"} THEN {"extract", "done"} ELSE {"done"}
AfterError(asked, e) ==
    CASE asked = "classify" /\ e = "schema"               -> "reclassify"
      [] asked = "extract" /\ e \in Repairable            -> "extractAgain"
      [] asked = "polish" /\ e \in Repairable             -> "polishAgain"
      [] asked = "polishAgain" /\ e \in Repairable        -> "done"
      [] OTHER                                           -> "failed"

RoundEnds(r, next) ==
    /\ Returns(r)
    /\ round' = [round EXCEPT ![r] = next]
    /\ attempt' = [attempt EXCEPT ![r] = "first"]
    /\ UNCHANGED <<provider, fallback, level, reached>>

Answered(r) ==
    /\ progress[r] = "posted" /\ "good" \in AnswersOf(r)
    /\ \E next \in AfterGood(round[r]) : RoundEnds(r, next)

GivesUp(r, e) ==
    /\ CallFails(r, e)
    /\ ~SecondFollows(r, e) /\ ~CanFallback(r, e)
    /\ RoundEnds(r, AfterError(round[r], Raised(r, e)))

\* The task is cancelled, or its tool's timeout is over, while it waits.
Interrupted(r) ==
    /\ progress[r] \in {"queued", "posted"}
    /\ RoundEnds(r, "failed")

Advance(r) ==
    \/ Route(r) \/ Calculate(r) \/ Queue(r) \/ Post(r) \/ Answered(r)
    \/ \E e \in Answer \ {"good"} : TryAgain(r, e) \/ FallBackToCloud(r, e) \/ GivesUp(r, e)

GatewayNext == \E r \in Request :
    \/ \E l \in Level : Interpret(r, l)
    \/ GeneralChat(r) \/ TextPolish(r)
    \/ Advance(r)
    \/ Interrupted(r)

GatewaySpec == GatewayInit /\ [][GatewayNext]_gatewayVars

------------------------------------------------------------------------------
(* Properties.                                                              *)

GatewayTypeOK ==
    /\ provider \in Provider /\ fallback \in BOOLEAN
    /\ slots \in 0..MaxConcurrency
    /\ round \in [Request -> Over \cup {"idle", "route", "calculate", "classify", "reclassify",
                    "extract", "extractAgain", "chat", "polish", "polishAgain"}]
    /\ attempt \in [Request -> {"first", "second", "fallback"}]
    /\ progress \in [Request -> {"ready", "queued", "posted"}]
    /\ level \in [Request -> Level \cup {"none"}]
    /\ reached \in [Request -> SUBSET {"primary", "fallback"}]

\* Every slot of the local adapter is free or held by exactly one call that the
\* server is working on, whatever errors, retries and cancellations came before.
SlotsKept ==
    slots + Cardinality({r \in Request : NeedsSlot(r) /\ progress[r] = "posted"})
        = IF provider \in Queueing THEN MaxConcurrency ELSE slots

\* The gateway is the service its callers rely on: the fallback sees nothing
\* above its data levels in any round, and no adapter is reached, in any retry,
\* repair or fallback, for a request that is over.
Status(r) ==
    CASE round[r] = "idle"   -> "idle"
      [] round[r] = "done"   -> "answered"
      [] round[r] = "failed" -> "failed"
      [] OTHER               -> "asking"

Service == INSTANCE ModelService WITH
    status <- [r \in Request |-> Status(r)], level <- level, reached <- reached
ImplementsService == Service!Spec
===============================================================================
