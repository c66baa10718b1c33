----------------------------- MODULE ToolExecutor -----------------------------
(***************************************************************************)
(* ToolExecutor: executions of tool calls, each in the coroutine of a task,*)
(* over one cache of receipts.  A call stands for its idempotency key.     *)
(* What the tool does while its call is "running" is the tool's own module.*)
(***************************************************************************)
EXTENDS Naturals

CONSTANTS
    Worker,       \* coroutines that execute calls
    Call, Mutation, Unkeyed,  \* calls; those with a "mutation:" key; those whose key is new each time
    MutationTtl, Ttl,         \* in ticks
    RetryBudget,              \* of the tools' metadata
    MaxMonotonic                   \* bound on the clock

ASSUME ExecutorAssumption ==
    /\ Mutation \subseteq Call /\ Unkeyed \subseteq Call \ Mutation
    /\ MutationTtl \in Nat /\ Ttl \in Nat /\ RetryBudget \in Nat /\ MaxMonotonic \in Nat

\* A receipt is a pair: what it is about, and the version it shows.
Nothing == <<"nothing", 0>>
Idle == "none"
Empty == [until |-> 0, value |-> Nothing]

VARIABLES
    monotonic,         \* time.monotonic(), in ticks
    cached,      \* [until, value] of the receipt of each call
    doing,       \* the call each worker executes
    phase,       \* "idle", "running", "ended" (the tool is done, execute() not resumed), "raised"
    tries,       \* attempts made before the one under way
    value,       \* what the tool returned
    lastDone,    \* when a call was last executed with success (history)
    overlapped   \* a receipt of this worker's call was stored since it looked for one (history)

executorVars == <<monotonic, cached, doing, phase, tries, value, lastDone, overlapped>>
Never == MaxMonotonic + Ttl + MutationTtl + 1

ExecutorInit ==
    /\ monotonic = 0
    /\ cached = [c \in Call |-> Empty]
    /\ doing = [w \in Worker |-> Idle]
    /\ phase = [w \in Worker |-> "idle"]
    /\ tries = [w \in Worker |-> 0]
    /\ value = [w \in Worker |-> Nothing]
    /\ lastDone = [c \in Call |-> Never]
    /\ overlapped = [w \in Worker |-> FALSE]

Live(c) == cached[c].until > monotonic

\* Mutant of Execute: the cache is not consulted.
ExecuteAlways(w, c) ==
    /\ phase[w] = "idle"
    /\ phase' = [phase EXCEPT ![w] = "running"]
    /\ doing' = [doing EXCEPT ![w] = c]
    /\ UNCHANGED <<monotonic, cached, tries, value, lastDone, overlapped>>

\* The lookup and the start of the tool are one step: the cache lock is never
\* held across a suspension.
Execute(w, c) ==
    /\ phase[w] = "idle"
    /\ c \in Unkeyed \/ ~Live(c)
    /\ phase' = [phase EXCEPT ![w] = "running"]
    /\ doing' = [doing EXCEPT ![w] = c]
    /\ UNCHANGED <<monotonic, cached, tries, value, lastDone, overlapped>>

\* The receipt in the cache is returned; nothing else happens.
ExecuteFromCache(w, c) ==
    /\ phase[w] = "idle" /\ c \notin Unkeyed /\ Live(c)
    /\ UNCHANGED executorVars

\* For the tools: the call of w runs in the event loop, and ends there.
Runs(w, c) == phase[w] = "running" /\ doing[w] = c
ToolEnds(w, v) ==
    /\ phase' = [phase EXCEPT ![w] = "ended"]
    /\ value' = [value EXCEPT ![w] = v]
    /\ UNCHANGED <<monotonic, cached, doing, tries, lastDone, overlapped>>
ToolRaises(w) ==
    /\ phase' = [phase EXCEPT ![w] = "raised"]
    /\ UNCHANGED <<monotonic, cached, doing, tries, value, lastDone, overlapped>>

Leaves(w) ==
    /\ doing' = [doing EXCEPT ![w] = Idle]
    /\ phase' = [phase EXCEPT ![w] = "idle"]
    /\ tries' = [tries EXCEPT ![w] = 0]
    /\ value' = [value EXCEPT ![w] = Nothing]

TtlOf(c) == IF c \in Mutation THEN MutationTtl ELSE Ttl

\* execute() resumes, stores the receipt and returns it.
Store(w) ==
    LET c == doing[w] IN
    /\ phase[w] = "ended"
    /\ Leaves(w)
    /\ cached' = [cached EXCEPT ![c] = [until |-> monotonic + TtlOf(c), value |-> value[w]]]
    /\ lastDone' = [lastDone EXCEPT ![c] = monotonic]
    /\ overlapped' = [u \in Worker |-> u # w /\ (overlapped[u] \/ doing[u] = c)]
    /\ UNCHANGED monotonic

RetryOrRaise(w) ==
    /\ phase[w] = "raised"
    /\ \/ /\ tries[w] < RetryBudget
          /\ phase' = [phase EXCEPT ![w] = "running"]
          /\ tries' = [tries EXCEPT ![w] = @ + 1]
          /\ UNCHANGED <<doing, value, overlapped>>
       \/ /\ tries[w] = RetryBudget
          /\ Leaves(w)
          /\ overlapped' = [overlapped EXCEPT ![w] = FALSE]
    /\ UNCHANGED <<monotonic, cached, lastDone>>

\* The cancellation event wins, also over a tool that is done in the same turn
\* of the loop: its receipt is neither returned nor stored.
Cancelled(w) ==
    /\ phase[w] \in {"running", "ended"}
    /\ Leaves(w)
    /\ overlapped' = [overlapped EXCEPT ![w] = FALSE]
    /\ UNCHANGED <<monotonic, cached, lastDone>>

\* A tool call (10 s at most) is short against a tick (the cache keeps for minutes).
\* An entry is dropped by the first lookup after its time, which nothing tells
\* from dropping it in time; what was done longer ago than the window is forgotten.
Pass ==
    /\ monotonic < MaxMonotonic
    /\ \A w \in Worker : phase[w] = "idle"
    /\ monotonic' = monotonic + 1
    /\ cached' = [c \in Call |-> IF cached[c].until > monotonic' THEN cached[c] ELSE Empty]
    /\ lastDone' = [c \in Call |-> IF monotonic' < lastDone[c] + TtlOf(c) THEN lastDone[c] ELSE Never]
    /\ UNCHANGED <<doing, phase, tries, value, overlapped>>

\* The process ends: its cache and its coroutines are gone.
ExecutorCrash ==
    /\ cached' = [c \in Call |-> Empty]
    /\ doing' = [w \in Worker |-> Idle]
    /\ phase' = [w \in Worker |-> "idle"]
    /\ tries' = [w \in Worker |-> 0]
    /\ value' = [w \in Worker |-> Nothing]
    /\ lastDone' = [c \in Call |-> Never]
    /\ overlapped' = [w \in Worker |-> FALSE]
    /\ UNCHANGED monotonic

ExecutorTypeOK ==
    /\ monotonic \in 0..MaxMonotonic
    /\ doing \in [Worker -> Call \cup {Idle}]
    /\ phase \in [Worker -> {"idle", "running", "ended", "raised"}]
    /\ tries \in [Worker -> 0..RetryBudget]
    /\ overlapped \in [Worker -> BOOLEAN]
    /\ lastDone \in [Call -> 0..MaxMonotonic \cup {Never}]
===============================================================================
