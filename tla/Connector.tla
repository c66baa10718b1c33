------------------------------ MODULE Connector ------------------------------
(***************************************************************************)
(* BaseHttpConnector: coroutines that execute requests to one provider,    *)
(* under its token bucket, retry budget and degraded interval.  Time is    *)
(* counted in ticks, in which Rate tokens come back.                       *)
(***************************************************************************)
EXTENDS Integers, Sequences

CONSTANTS
    Client,
    Rate, Burst, AttemptBudget, DegradedTicks,  \* ConnectorConfig; retry_budget
    MaxTick                                     \* bound on the clock

ASSUME ConnectorAssumption ==
    /\ Rate \in Nat /\ Burst \in Nat \ {0} /\ AttemptBudget \in Nat
    /\ DegradedTicks \in Nat /\ MaxTick \in Nat

VARIABLES
    tick,
    tokens, updatedAt,         \* TokenBucket
    failures, degradedUntil,   \* the connector's own
    sending,                   \* attempt each client is making, 0 for none
    granted                    \* when tokens were handed out (history)

connectorVars == <<tick, tokens, updatedAt, failures, degradedUntil, sending, granted>>

ConnectorInit ==
    /\ tick = 0 /\ tokens = Burst /\ updatedAt = 0
    /\ failures = 0 /\ degradedUntil = 0
    /\ sending = [c \in Client |-> 0]
    /\ granted = <<>>

\* Mutant of Refilled: an idle time counts in full.
RefilledUncapped == tokens + (tick - updatedAt) * Rate

Refilled == LET t == tokens + (tick - updatedAt) * Rate IN IF t > Burst THEN Burst ELSE t
Degraded == tick < degradedUntil

\* acquire(wait=False), then the degraded answer or the first attempt.
ExecuteRequest(c) ==
    /\ sending[c] = 0
    /\ updatedAt' = tick
    /\ IF Refilled >= 1
       THEN /\ tokens' = Refilled - 1
            /\ granted' = Append(granted, tick)
            /\ sending' = IF Degraded THEN sending ELSE [sending EXCEPT ![c] = 1]
       ELSE tokens' = Refilled /\ UNCHANGED <<granted, sending>>
    /\ UNCHANGED <<tick, failures, degradedUntil>>

RequestSucceeds(c) ==
    /\ sending[c] > 0
    /\ sending' = [sending EXCEPT ![c] = 0]
    /\ failures' = 0 /\ degradedUntil' = 0
    /\ UNCHANGED <<tick, tokens, updatedAt, granted>>

\* A failed attempt is repeated after a short sleep, in which others go on.
\* The counter is shared: another client's success in between resets it.
RequestFails(c) ==
    /\ sending[c] > 0
    /\ failures' = failures + 1
    /\ IF sending[c] <= AttemptBudget
       THEN sending' = [sending EXCEPT ![c] = @ + 1] /\ UNCHANGED degradedUntil
       ELSE /\ sending' = [sending EXCEPT ![c] = 0]
            /\ degradedUntil' =
                IF failures' >= AttemptBudget + 1 THEN tick + DegradedTicks ELSE degradedUntil
    /\ UNCHANGED <<tick, tokens, updatedAt, granted>>

\* The request itself answers that the provider's limit is reached: no retry.
RequestLimited(c) ==
    /\ sending[c] > 0
    /\ sending' = [sending EXCEPT ![c] = 0]
    /\ UNCHANGED <<tick, tokens, updatedAt, failures, degradedUntil, granted>>

ClockTicks ==
    /\ tick < MaxTick /\ tick' = tick + 1
    /\ UNCHANGED <<tokens, updatedAt, failures, degradedUntil, sending, granted>>

ConnectorNext ==
    \/ ClockTicks
    \/ \E c \in Client :
        ExecuteRequest(c) \/ RequestSucceeds(c) \/ RequestFails(c) \/ RequestLimited(c)

ConnectorSpec == ConnectorInit /\ [][ConnectorNext]_connectorVars

------------------------------------------------------------------------------
(* Properties.                                                              *)

\* In every interval the clients together get at most the burst and what came
\* back meanwhile, however long the connector idled before and whoever asks.
RateRespected ==
    \A i, j \in DOMAIN granted :
        i <= j => j - i + 1 <= Burst + Rate * (granted[j] - granted[i])
===============================================================================
