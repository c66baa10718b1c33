------------------------------ MODULE AgentCore ------------------------------
(***************************************************************************)
(* The orchestration kernel: core/agent_core.py with the task store        *)
(* (core/session_manager.py, core/task_api.py), the tool executor's cache  *)
(* and cancellation race (core/tool_executor.py), the routes that drive it *)
(* (api/routes.py) and the process lifecycle (api/container.py).           *)
(*                                                                         *)
(* Everything runs on one asyncio event loop, so a coroutine loses control *)
(* only where it really suspends: the 50 ms sleep of the background        *)
(* wrapper, the model call, and the wait for a tool.  Between two          *)
(* suspensions a coroutine takes several steps here, one per persisted     *)
(* transition; no other coroutine runs in between (LoopFree), but the      *)
(* process may die there.                                                  *)
(***************************************************************************)
EXTENDS Naturals, TaskStateMachine

CONSTANTS
    Task,           \* task identifiers; a UUID is never reused
    Confirmer,      \* HTTP handlers of POST /tasks/{id}/confirm
    Call,           \* tool calls: a tool and its arguments
    NoCall,         \* no interpretation stored yet
    ToolOf,         \* [Call -> tool name]
    ChatCall,       \* the general_chat call an empty knowledge answer falls back to
    KnowledgeCall,  \* calls of knowledge_query
    InvalidCall,    \* arguments that fail the tool's JSON schema
    DriftCall,      \* calls _capability_boundary answers itself
    DeniedCall,     \* calls the policy does not allow
    RiskyCall,      \* calls whose policy decision requires confirmation (R2, R3)
    FreshCall,      \* calls whose idempotency key holds a timestamp (queries)
    MaxStops        \* bound on shutdowns and crashes

ASSUME CallAssumption ==
    /\ NoCall \notin Call
    /\ ChatCall \in Call
    /\ KnowledgeCall \subseteq Call
    /\ RiskyCall \subseteq Call
    /\ ChatCall \notin RiskyCall \cup KnowledgeCall \cup InvalidCall
    /\ "process" \notin Confirmer
    /\ MaxStops \in Nat

VARIABLES
    state,          \* the persisted state of every task
    call,           \* context["intent"] and context["arguments"] of each row
    missing,        \* whether context["missing_fields"] is non-empty
    result,         \* the type of the result stored in each row
    mode,           \* the server process
    pc,             \* where each coroutine is
    job,            \* the local tool name and arguments of each coroutine
    tool,           \* the executor's view of the coroutine's tool task
    cancelEvent,    \* TaskAPI._cancel_events, by task: set or not
    cache,          \* ToolExecutor._cache
    stops,          \* shutdowns and crashes so far
    effects,        \* history: how often a task's tool took effect, by call
    approved,       \* history: calls the user approved, by task
    shown           \* history: calls a risk confirmation was shown for, by task

rows     == <<state, call, missing, result>>
history  == <<effects, approved, shown>>
coroutine == <<pc, job, tool>>
vars == <<rows, mode, coroutine, cancelEvent, cache, stops, history>>

\* One background process() and some confirm handlers may exist for a task.
Runner == {"process"} \cup Confirmer
Coroutine == Task \X Runner

\* A coroutine waiting for the event loop, and one that is holding it.
Suspended == {"sleeping", "interpreting", "tool"}
Holding   == {"continue", "answer", "execute", "receipt", "complete", "fail"}

\* What a tool run can come to.  "needs" asks the user for a candidate or a
\* field, "empty" is a knowledge answer without sources, "error" stands for an
\* exception, a timeout and a receipt with success = False.
Success == {"done", "needs", "clarify", "empty"}
Outcome == Success \cup {"error"}

LoopFree == \A p \in Coroutine : pc[p] \notin Holding

\* TaskAPI.transition: read the row, look the event up, write the row back.
Transition(t, e) ==
    \E u \in TaskState :
        /\ Edge(state[t], e, u)
        /\ state' = [state EXCEPT ![t] = u]

AddShown(t, c) == shown' = [shown EXCEPT ![t] = @ \cup {c}]
CountEffect(t, c) == effects' = [effects EXCEPT ![t][c] = @ + 1]

------------------------------------------------------------------------------
Init ==
    /\ state = [t \in Task |-> "absent"]
    /\ call = [t \in Task |-> NoCall]
    /\ missing = [t \in Task |-> FALSE]
    /\ result = [t \in Task |-> "none"]
    /\ mode = "up"
    /\ pc = [p \in Coroutine |-> "idle"]
    /\ job = [p \in Coroutine |-> NoCall]
    /\ tool = [p \in Coroutine |-> "none"]
    /\ cancelEvent = [t \in Task |-> FALSE]
    /\ cache = [c \in Call |-> "none"]
    /\ stops = 0
    /\ effects = [t \in Task |-> [c \in Call |-> 0]]
    /\ approved = [t \in Task |-> {}]
    /\ shown = [t \in Task |-> {}]

\* POST /tasks: the row is inserted and the background wrapper spawned.
Submit(t) ==
    /\ mode = "up"
    /\ LoopFree
    /\ state[t] = "absent"
    /\ state' = [state EXCEPT ![t] = "received"]
    /\ pc' = [pc EXCEPT ![<<t, "process">>] = "sleeping"]
    /\ cancelEvent' = [cancelEvent EXCEPT ![t] = FALSE]
    /\ UNCHANGED <<call, missing, result, mode, job, tool, cache, stops, history>>

\* process() starts.  A task cancelled during the sleep makes UNDERSTAND raise,
\* and _fail leaves a terminal row alone.
Wake(t) ==
    LET p == <<t, "process">> IN
    /\ mode \in {"up", "draining"}
    /\ LoopFree
    /\ pc[p] = "sleeping"
    /\ \/ /\ Transition(t, "understand")
          /\ pc' = [pc EXCEPT ![p] = "interpreting"]
       \/ /\ ~Legal(state[t], "understand")
          /\ pc' = [pc EXCEPT ![p] = "fail"]
          /\ UNCHANGED state
    /\ UNCHANGED <<call, missing, result, mode, job, tool, cancelEvent, cache,
                   stops, history>>

\* The model answers with a call.  Missing fields survive only when the
\* normalized arguments do not satisfy the schema.
Interpret(t, c, m) ==
    LET p == <<t, "process">> IN
    /\ mode \in {"up", "draining"}
    /\ LoopFree
    /\ pc[p] = "interpreting"
    /\ m => c \in InvalidCall
    /\ Transition(t, "validate")
    /\ call' = [call EXCEPT ![t] = c]
    /\ missing' = [missing EXCEPT ![t] = m]
    /\ job' = [job EXCEPT ![p] = c]
    /\ pc' = [pc EXCEPT ![p] = "continue"]
    /\ UNCHANGED <<result, mode, tool, cancelEvent, cache, stops, history>>

\* The model answers that the request is unclear or unsupported.
InterpretTerminal(t) ==
    LET p == <<t, "process">> IN
    /\ mode \in {"up", "draining"}
    /\ LoopFree
    /\ pc[p] = "interpreting"
    /\ Transition(t, "validate")
    /\ pc' = [pc EXCEPT ![p] = "answer"]
    /\ UNCHANGED <<call, missing, result, mode, job, tool, cancelEvent, cache,
                   stops, history>>

\* Mutant of InterpretFails: the exception is logged, the row left.
InterpretFailsUnhandled(t) ==
    LET p == <<t, "process">> IN
    /\ mode \in {"up", "draining"}
    /\ LoopFree
    /\ pc[p] = "interpreting"
    /\ pc' = [pc EXCEPT ![p] = "idle"]
    /\ UNCHANGED <<rows, mode, job, tool, cancelEvent, cache, stops, history>>

\* The model call fails, or its answer comes for a task cancelled meanwhile.
InterpretFails(t) ==
    LET p == <<t, "process">> IN
    /\ mode \in {"up", "draining"}
    /\ LoopFree
    /\ pc[p] = "interpreting"
    /\ pc' = [pc EXCEPT ![p] = "fail"]
    /\ UNCHANGED <<rows, mode, job, tool, cancelEvent, cache, stops, history>>

------------------------------------------------------------------------------
(* _continue: one action per way out of it, in the order of its checks.     *)

\* Fields are still missing: ask for them.
AskMissing(p) ==
    /\ pc[p] = "continue"
    /\ missing[p[1]]
    /\ Transition(p[1], "require_confirmation")
    /\ result' = [result EXCEPT ![p[1]] = "missing_fields"]
    /\ pc' = [pc EXCEPT ![p] = "idle"]
    /\ UNCHANGED <<call, missing, mode, job, tool, cancelEvent, cache, stops, history>>

\* _capability_boundary answers instead of a tool.
AnswerDrift(p) ==
    /\ pc[p] = "continue"
    /\ ~missing[p[1]]
    /\ job[p] \in DriftCall
    /\ pc' = [pc EXCEPT ![p] = "answer"]
    /\ UNCHANGED <<rows, mode, job, tool, cancelEvent, cache, stops, history>>

\* Calls that pass the boundary, the schema and the policy.
Permitted(p) ==
    /\ ~missing[p[1]]
    /\ job[p] \notin DriftCall \cup InvalidCall \cup DeniedCall

\* Schema validation or the policy raises.
Refuse(p) ==
    /\ pc[p] = "continue"
    /\ ~missing[p[1]]
    /\ job[p] \notin DriftCall
    /\ job[p] \in InvalidCall \cup DeniedCall
    /\ pc' = [pc EXCEPT ![p] = "fail"]
    /\ UNCHANGED <<rows, mode, job, tool, cancelEvent, cache, stops, history>>

\* Mutant of NeedsRisk: the test of `confirmed` is inverted.
NeedsRiskOfUser(p) == job[p] \in RiskyCall /\ p[2] # "process"

\* The policy wants a confirmation; only process() passes confirmed = False.
NeedsRisk(p) == job[p] \in RiskyCall /\ p[2] = "process"

\* Mutant of AskRisk: the return after the question is lost.
AskRiskAndGo(p) ==
    /\ pc[p] = "continue"
    /\ Permitted(p)
    /\ NeedsRisk(p)
    /\ Transition(p[1], "require_confirmation")
    /\ result' = [result EXCEPT ![p[1]] = "risk_confirmation"]
    /\ AddShown(p[1], job[p])
    /\ pc' = [pc EXCEPT ![p] = "execute"]
    /\ UNCHANGED <<call, missing, mode, job, tool, cancelEvent, cache, stops,
                   effects, approved>>

AskRisk(p) ==
    /\ pc[p] = "continue"
    /\ Permitted(p)
    /\ NeedsRisk(p)
    /\ Transition(p[1], "require_confirmation")
    /\ result' = [result EXCEPT ![p[1]] = "risk_confirmation"]
    /\ AddShown(p[1], job[p])
    /\ pc' = [pc EXCEPT ![p] = "idle"]
    /\ UNCHANGED <<call, missing, mode, job, tool, cancelEvent, cache, stops,
                   effects, approved>>

\* A thermally throttled machine routes to the queue, which is an error.
RouterRefuses(p) ==
    /\ pc[p] = "continue"
    /\ Permitted(p)
    /\ ~NeedsRisk(p)
    /\ pc' = [pc EXCEPT ![p] = "fail"]
    /\ UNCHANGED <<rows, mode, job, tool, cancelEvent, cache, stops, history>>

EnterExecution(p) ==
    /\ pc[p] = "continue"
    /\ Permitted(p)
    /\ ~NeedsRisk(p)
    /\ Transition(p[1], "execute")
    /\ pc' = [pc EXCEPT ![p] = "execute"]
    /\ UNCHANGED <<call, missing, result, mode, job, tool, cancelEvent, cache,
                   stops, history>>

\* A clarification or "unsupported" still walks through EXECUTE and DELIVER.
Answer(p) ==
    /\ pc[p] = "answer"
    /\ \/ /\ Transition(p[1], "execute")
          /\ UNCHANGED <<pc, result>>
       \/ /\ Transition(p[1], "deliver")
          /\ result' = [result EXCEPT ![p[1]] = "message"]
          /\ pc' = [pc EXCEPT ![p] = "complete"]
    /\ UNCHANGED <<call, missing, mode, job, tool, cancelEvent, cache, stops, history>>

------------------------------------------------------------------------------
(* ToolExecutor.execute, for the registered tools (all retry_budget 0).     *)

\* A cached receipt is returned at once, cancelled or not.
ExecuteCached(p) ==
    /\ pc[p] = "execute"
    /\ cache[job[p]] # "none"
    /\ tool' = [tool EXCEPT ![p] = cache[job[p]]]
    /\ pc' = [pc EXCEPT ![p] = "receipt"]
    /\ UNCHANGED <<rows, mode, job, cancelEvent, cache, stops, history>>

\* The task was cancelled before the tool started.
ExecuteCancelled(p) ==
    /\ pc[p] = "execute"
    /\ cache[job[p]] = "none"
    /\ cancelEvent[p[1]]
    /\ pc' = [pc EXCEPT ![p] = "idle"]
    /\ UNCHANGED <<rows, mode, job, tool, cancelEvent, cache, stops, history>>

\* Mutant of ExecuteStarts: the event is not looked at before the tool starts.
ExecuteStartsUnchecked(p) ==
    /\ pc[p] = "execute"
    /\ cache[job[p]] = "none"
    /\ tool' = [tool EXCEPT ![p] = "scheduled"]
    /\ pc' = [pc EXCEPT ![p] = "tool"]
    /\ UNCHANGED <<rows, mode, job, cancelEvent, cache, stops, history>>

\* The tool task is created and the coroutine waits for it.
ExecuteStarts(p) ==
    /\ pc[p] = "execute"
    /\ cache[job[p]] = "none"
    /\ ~cancelEvent[p[1]]
    /\ tool' = [tool EXCEPT ![p] = "scheduled"]
    /\ pc' = [pc EXCEPT ![p] = "tool"]
    /\ UNCHANGED <<rows, mode, job, cancelEvent, cache, stops, history>>

\* What the tools can come to: only knowledge answers are empty or clarify, and
\* neither a knowledge answer nor a chat asks the user for anything.
OutcomesOf(c) ==
    {"done", "error"}
    \cup (IF c \in KnowledgeCall THEN {"empty", "clarify"} ELSE {})
    \cup (IF c \in KnowledgeCall \cup {ChatCall} THEN {} ELSE {"needs"})

\* Whether a tool that came to this outcome has had its effect.
TakesEffect(p, outcome) ==
    \/ outcome \in {"done", "empty"} /\ CountEffect(p[1], job[p])
    \/ outcome \in {"needs", "clarify"} /\ UNCHANGED effects
    \/ outcome = "error" /\ (CountEffect(p[1], job[p]) \/ UNCHANGED effects)

\* The tool task runs, to the end or to its timeout, before or after a cancel.
ToolRuns(p, outcome) ==
    /\ mode \in {"up", "draining"}
    /\ LoopFree
    /\ pc[p] = "tool"
    /\ tool[p] = "scheduled"
    /\ outcome \in OutcomesOf(job[p])
    /\ tool' = [tool EXCEPT ![p] = outcome]
    /\ TakesEffect(p, outcome)
    /\ UNCHANGED <<rows, mode, pc, job, cancelEvent, cache, stops, approved, shown>>

\* Mutant of AfterTool: a failed tool is run again.
AfterToolRetried(outcome) == IF outcome = "error" THEN "execute" ELSE "receipt"

\* A failed tool raises; the receipt of any other is handed back.
AfterTool(outcome) == IF outcome = "error" THEN "fail" ELSE "receipt"

\* Mutant of Cacheable: failed receipts are cached with the others.
CacheableAll(p) == job[p] \notin FreshCall

\* Only a successful receipt is cached; the key of a query never comes back.
Cacheable(p) == tool[p] # "error" /\ job[p] \notin FreshCall

\* asyncio.wait sees the tool done.
ToolReturns(p) ==
    /\ mode \in {"up", "draining"}
    /\ LoopFree
    /\ pc[p] = "tool"
    /\ tool[p] \in Outcome
    /\ pc' = [pc EXCEPT ![p] = AfterTool(tool[p])]
    /\ cache' = IF Cacheable(p) THEN [cache EXCEPT ![job[p]] = tool[p]] ELSE cache
    /\ UNCHANGED <<rows, mode, job, tool, cancelEvent, stops, history>>

\* asyncio.wait sees the cancellation: whatever the tool did, its receipt is
\* dropped.  A tool still running in a thread may yet have its effect.
ToolCancelled(p) ==
    /\ mode \in {"up", "draining"}
    /\ LoopFree
    /\ pc[p] = "tool"
    /\ cancelEvent[p[1]]
    /\ \/ UNCHANGED effects
       \/ tool[p] = "scheduled" /\ CountEffect(p[1], job[p])
    /\ pc' = [pc EXCEPT ![p] = "idle"]
    /\ tool' = [tool EXCEPT ![p] = "none"]
    /\ UNCHANGED <<rows, mode, job, cancelEvent, cache, stops, approved, shown>>

\* The TTL of a receipt runs out.
CacheExpires(c) ==
    /\ mode \in {"up", "draining"}
    /\ LoopFree
    /\ cache[c] # "none"
    /\ cache' = [cache EXCEPT ![c] = "none"]
    /\ UNCHANGED <<rows, mode, coroutine, cancelEvent, stops, history>>
------------------------------------------------------------------------------
(* The rest of _continue: what is done with the receipt.                    *)

\* Mutant of FallBack: every answer is retried as a chat.
FallBackAlways(p) ==
    /\ pc[p] = "receipt"
    /\ job' = [job EXCEPT ![p] = ChatCall]
    /\ pc' = [pc EXCEPT ![p] = "execute"]
    /\ UNCHANGED <<rows, mode, tool, cancelEvent, cache, stops, history>>

\* An empty knowledge answer to a general question is retried as a chat.
FallBack(p) ==
    /\ pc[p] = "receipt"
    /\ tool[p] = "empty"
    /\ job' = [job EXCEPT ![p] = ChatCall]
    /\ pc' = [pc EXCEPT ![p] = "execute"]
    /\ UNCHANGED <<rows, mode, tool, cancelEvent, cache, stops, history>>

\* The event the receipt leads to, and the type of result stored with it.
ReceiptEvent(outcome) == IF outcome = "needs" THEN "require_confirmation" ELSE "deliver"
ReceiptResult(outcome) ==
    IF outcome = "needs" THEN "candidate"
    ELSE IF outcome = "clarify" THEN "message" ELSE "receipt"

UseReceipt(p) ==
    LET e == ReceiptEvent(tool[p]) IN
    /\ pc[p] = "receipt"
    /\ \/ /\ Transition(p[1], e)
          /\ result' = [result EXCEPT ![p[1]] = ReceiptResult(tool[p])]
          /\ pc' = [pc EXCEPT ![p] = IF e = "deliver" THEN "complete" ELSE "idle"]
       \/ /\ ~Legal(state[p[1]], e)
          /\ pc' = [pc EXCEPT ![p] = "fail"]
          /\ UNCHANGED <<state, result>>
    /\ UNCHANGED <<call, missing, mode, job, tool, cancelEvent, cache, stops, history>>

Complete(p) ==
    /\ pc[p] = "complete"
    /\ Transition(p[1], "complete")
    /\ pc' = [pc EXCEPT ![p] = "idle"]
    /\ UNCHANGED <<call, missing, result, mode, job, tool, cancelEvent, cache,
                   stops, history>>

\* Mutant of Fail: a row that is over is failed like the others.
FailAnyRow(p) ==
    /\ pc[p] = "fail"
    /\ state' = [state EXCEPT ![p[1]] = "failed"]
    /\ pc' = [pc EXCEPT ![p] = "idle"]
    /\ UNCHANGED <<call, missing, result, mode, job, tool, cancelEvent, cache,
                   stops, history>>

\* _fail: a terminal row is returned as it is.
Fail(p) ==
    /\ pc[p] = "fail"
    /\ \/ Transition(p[1], "fail")
       \/ state[p[1]] \in Terminal /\ UNCHANGED state
    /\ pc' = [pc EXCEPT ![p] = "idle"]
    /\ UNCHANGED <<call, missing, result, mode, job, tool, cancelEvent, cache,
                   stops, history>>

------------------------------------------------------------------------------
(* Requests on an existing task.                                            *)

\* POST /tasks/{id}/confirm, approved: the user's arguments replace the stored
\* ones, the tool stays.
Confirm(t, r, c) ==
    LET p == <<t, r>> IN
    /\ mode = "up"
    /\ LoopFree
    /\ pc[p] = "idle"
    /\ state[t] = "awaiting_confirmation"
    /\ ToolOf[c] = ToolOf[call[t]]
    /\ Transition(t, "confirm")
    /\ call' = [call EXCEPT ![t] = c]
    /\ missing' = [missing EXCEPT ![t] = FALSE]
    /\ job' = [job EXCEPT ![p] = c]
    /\ pc' = [pc EXCEPT ![p] = "continue"]
    /\ approved' = [approved EXCEPT ![t] = @ \cup {c}]
    /\ UNCHANGED <<result, mode, tool, cancelEvent, cache, stops, effects, shown>>

\* Mutant of CancelTask: the event of a row that is over is set as well.
CancelTaskAnyRow(t) ==
    /\ cancelEvent' = [cancelEvent EXCEPT ![t] = TRUE]
    /\ Transition(t, "cancel") \/ UNCHANGED state

\* TaskAPI.cancel: the event is set, then the row is moved.
CancelTask(t) ==
    /\ cancelEvent' = [cancelEvent EXCEPT ![t] = TRUE]
    /\ Transition(t, "cancel")

\* POST /tasks/{id}/cancel on a task that is not over, and a confirmation that
\* is rejected.
Cancel(t) ==
    /\ mode = "up"
    /\ LoopFree
    /\ CancelTask(t)
    /\ UNCHANGED <<call, missing, result, mode, coroutine, cache, stops, history>>

------------------------------------------------------------------------------
(* The server process.                                                      *)

\* A finished server has no request in flight; ApplicationContainer.close then
\* waits for the background tasks.
BeginShutdown ==
    /\ mode = "up"
    /\ LoopFree
    /\ stops < MaxStops
    /\ \A t \in Task, r \in Confirmer : pc[<<t, r>>] = "idle"
    /\ mode' = "draining"
    /\ stops' = stops + 1
    /\ UNCHANGED <<rows, coroutine, cancelEvent, cache, history>>

\* Five seconds are over: the background tasks still pending are cancelled.
GraceExpires ==
    /\ mode = "draining"
    /\ LoopFree
    /\ mode' = "cancelling"
    /\ UNCHANGED <<rows, coroutine, cancelEvent, cache, stops, history>>

\* CancelledError in the wrapper's sleep leaves the row as it is; in process()
\* it cancels the task.  The tool task itself is not cancelled and may run.
CancelBackground(t) ==
    LET p == <<t, "process">> IN
    /\ mode = "cancelling"
    /\ pc[p] \in Suspended
    /\ \/ pc[p] # "sleeping" /\ CancelTask(t)
       \/ pc[p] = "sleeping" /\ UNCHANGED <<state, cancelEvent>>
       \/ state[t] = "cancelled" /\ UNCHANGED <<state, cancelEvent>>
    /\ \/ UNCHANGED effects
       \/ pc[p] = "tool" /\ tool[p] = "scheduled" /\ CountEffect(t, job[p])
    /\ pc' = [pc EXCEPT ![p] = "idle"]
    /\ tool' = [tool EXCEPT ![p] = "none"]
    /\ UNCHANGED <<call, missing, result, mode, job, cache, stops, approved, shown>>

\* What a process takes with it when it ends.
ForgetMemory ==
    /\ mode' = "down"
    /\ pc' = [p \in Coroutine |-> "idle"]
    /\ job' = [p \in Coroutine |-> NoCall]
    /\ tool' = [p \in Coroutine |-> "none"]
    /\ cancelEvent' = [t \in Task |-> FALSE]
    /\ cache' = [c \in Call |-> "none"]

Exit ==
    /\ mode \in {"draining", "cancelling"}
    /\ \A p \in Coroutine : pc[p] = "idle"
    /\ ForgetMemory
    /\ UNCHANGED <<rows, stops, history>>

\* The process is killed, between any two persisted transitions.
Crash ==
    /\ mode # "down"
    /\ stops < MaxStops
    /\ stops' = stops + 1
    /\ ForgetMemory
    /\ UNCHANGED <<rows, history>>

\* TaskAPI.initialize gives the unfinished rows fresh cancel events and resumes
\* none of them; rows past their retention are purged.
Start(expired) ==
    /\ mode = "down"
    /\ mode' = "up"
    /\ \A t \in expired : state[t] \in Terminal
    /\ state' = [t \in Task |-> IF t \in expired THEN "purged" ELSE state[t]]
    /\ UNCHANGED <<call, missing, result, coroutine, cancelEvent, cache, stops, history>>

------------------------------------------------------------------------------
Process(p) ==
    \/ AskMissing(p) \/ AnswerDrift(p) \/ Refuse(p) \/ AskRisk(p)
    \/ RouterRefuses(p) \/ EnterExecution(p) \/ Answer(p)
    \/ ExecuteCached(p) \/ ExecuteCancelled(p) \/ ExecuteStarts(p)
    \/ \E outcome \in Outcome : ToolRuns(p, outcome)
    \/ ToolReturns(p) \/ ToolCancelled(p)
    \/ FallBack(p) \/ UseReceipt(p) \/ Complete(p) \/ Fail(p)

Background(t) ==
    \/ Wake(t)
    \/ \E c \in Call, m \in BOOLEAN : Interpret(t, c, m)
    \/ InterpretTerminal(t)
    \/ InterpretFails(t)

Request(t) ==
    \/ Submit(t)
    \/ \E r \in Confirmer, c \in Call : Confirm(t, r, c)
    \/ Cancel(t)

Server ==
    \/ BeginShutdown \/ GraceExpires \/ Exit \/ Crash
    \/ \E t \in Task : CancelBackground(t)
    \/ \E expired \in SUBSET Task : Start(expired)

Next ==
    \/ \E p \in Coroutine : Process(p)
    \/ \E t \in Task : Background(t) \/ Request(t)
    \/ \E c \in Call : CacheExpires(c)
    \/ Server

Spec == Init /\ [][Next]_vars

\* The loop's ready queue is FIFO: a coroutine that is ready over and over is
\* resumed, whatever the others do.  Model and tool calls end, both having
\* timeouts, and a stopped server is started again.  Nothing makes a user act.
Fairness ==
    /\ \A p \in Coroutine : SF_vars(Process(p))
    /\ \A t \in Task : SF_vars(Background(t)) /\ SF_vars(CancelBackground(t))
    /\ WF_vars(Exit)
    /\ WF_vars(Start({}))

FairSpec == Spec /\ Fairness

------------------------------------------------------------------------------
(* Properties.                                                              *)

\* Every variable holds what the code can put there.
TypeOK ==
    /\ state \in [Task -> RowState]
    /\ call \in [Task -> Call \cup {NoCall}]
    /\ missing \in [Task -> BOOLEAN]
    /\ result \in [Task -> {"none", "missing_fields", "risk_confirmation",
                            "candidate", "message", "receipt"}]
    /\ mode \in {"up", "draining", "cancelling", "down"}
    /\ pc \in [Coroutine -> {"idle"} \cup Suspended \cup Holding]
    /\ job \in [Coroutine -> Call \cup {NoCall}]
    /\ tool \in [Coroutine -> {"none", "scheduled"} \cup Outcome]
    /\ \A p \in Coroutine :
          pc[p] \in {"continue", "execute", "tool", "receipt"} => job[p] \in Call
    /\ cancelEvent \in [Task -> BOOLEAN]
    /\ cache \in [Call -> {"none"} \cup Success]
    /\ stops \in 0..MaxStops
    /\ effects \in [Task -> [Call -> Nat]]
    /\ approved \in [Task -> SUBSET Call]
    /\ shown \in [Task -> SUBSET Call]

\* A task is never driven by two coroutines at once: neither by process() and a
\* confirm handler, nor by two confirm handlers.  AgentCore takes no lock per
\* task; only the state checks between suspensions keep this.
SingleRunner ==
    \A p, q \in Coroutine :
        p[1] = q[1] /\ pc[p] # "idle" /\ pc[q] # "idle" => p = q

\* One task makes one call take effect at most once, through confirmations,
\* cancellations, timeouts, crashes and restarts.
EffectOnce == \A t \in Task, c \in Call : effects[t][c] <= 1

\* A risky call takes effect only for a task whose user approved that very
\* call, and no refused call ever does.  The chat fallback of an empty
\* knowledge answer is not taken to the policy again.
EffectsPermitted ==
    \A t \in Task, c \in Call :
        effects[t][c] > 0 =>
            /\ c \in RiskyCall => c \in approved[t]
            /\ c = ChatCall \/ c \notin DriftCall \cup InvalidCall \cup DeniedCall

\* A set cancellation event belongs to a cancelled task, so the executor's
\* CancelledError never ends a task that its row still calls live.
CancelEventMeansCancelled ==
    \A t \in Task : cancelEvent[t] => state[t] = "cancelled"

\* A task that delivers a receipt, cached or fresh, delivers something a tool
\* has really done for it or for an earlier task with the same call.
DeliversWhatWasDone ==
    \A t \in Task :
        state[t] \in {"delivering", "completed"} /\ result[t] = "receipt" =>
            \E u \in Task :
                \/ effects[u][call[t]] > 0
                \/ (call[t] \in KnowledgeCall /\ effects[u][ChatCall] > 0)

------------------------------------------------------------------------------
(* The inductive invariant.                                                 *)

\* Where a coroutine of runner r can be while its row is in state s.  This is
\* what lets state checks stand in for a lock: a row that awaits its user has
\* no coroutine, and a cancelled one at most a coroutine that will find out.
Fits(r, place, s) ==
    /\ place = "sleeping" => s \in {"received", "cancelled"}
    /\ place = "interpreting" => s \in {"understanding", "cancelled"}
    /\ place = "continue" => s = "validating"
    /\ place = "answer" => s \in {"validating", "executing"}
    /\ place \in {"execute", "tool", "receipt"} => s \in {"executing", "cancelled"}
    /\ place = "complete" => s = "delivering"
    /\ place \in {"sleeping", "interpreting"} => r = "process"

Placed == \A p \in Coroutine : Fits(p[2], pc[p], state[p[1]])

\* A coroutine that is executing for a cancelled task has its event set.
Informed ==
    \A p \in Coroutine :
        pc[p] \in {"execute", "tool", "receipt"} /\ state[p[1]] = "cancelled" =>
            cancelEvent[p[1]]

DownIsEmpty ==
    mode = "down" => /\ \A p \in Coroutine : pc[p] = "idle"
                     /\ \A t \in Task : ~cancelEvent[t]

Control == Placed /\ SingleRunner /\ CancelEventMeansCancelled /\ Informed /\ DownIsEmpty

\* A task that has not been executed, and one whose tool only asked back, has
\* had no effect.
Clean(t) == \A c \in Call : effects[t][c] = 0

NotExecuted == {"absent", "received", "understanding", "validating",
                "awaiting_confirmation"}

Unspent(p) ==
    /\ pc[p] = "execute" \/ (pc[p] = "tool" /\ tool[p] = "scheduled") =>
          IF job[p] = ChatCall THEN effects[p[1]][ChatCall] = 0 ELSE Clean(p[1])
    /\ pc[p] = "tool" /\ tool[p] \in {"needs", "clarify"} => Clean(p[1])
    /\ pc[p] = "receipt" /\ tool[p] = "needs" => Clean(p[1])
    /\ pc[p] \in {"tool", "receipt"} /\ tool[p] = "empty" =>
          effects[p[1]][ChatCall] = 0
    /\ pc[p] = "tool" /\ tool[p] \in Outcome => tool[p] \in OutcomesOf(job[p])
    /\ pc[p] = "receipt" => tool[p] \in OutcomesOf(job[p])

Spending ==
    /\ EffectOnce
    /\ \A t \in Task : state[t] \in NotExecuted => Clean(t)
    /\ \A p \in Coroutine : Unspent(p)
    /\ \A c \in Call : cache[c] # "none" => cache[c] \in OutcomesOf(c)

\* A coroutine that has passed the policy runs a call the user approved, if it
\* is risky, and one that nothing refuses.
Cleared(p) ==
    /\ pc[p] = "continue" /\ p[2] # "process" => job[p] \in approved[p[1]]
    /\ pc[p] \in {"execute", "tool"} =>
          /\ job[p] \in RiskyCall => job[p] \in approved[p[1]]
          /\ job[p] = ChatCall \/ job[p] \notin DriftCall \cup InvalidCall \cup DeniedCall

Clearance == EffectsPermitted /\ \A p \in Coroutine : Cleared(p)

\* Some task made the call take effect.
Performed(c) == \E u \in Task : effects[u][c] > 0

Backed(p) ==
    /\ pc[p] \in {"tool", "receipt"} /\ tool[p] \in {"done", "empty"} => Performed(job[p])
    /\ pc[p] = "receipt" => tool[p] \in Success
    /\ pc[p] = "continue" => job[p] = call[p[1]]
    /\ pc[p] \in {"execute", "tool", "receipt"} =>
          \/ job[p] = call[p[1]]
          \/ job[p] = ChatCall /\ call[p[1]] \in KnowledgeCall

Backing ==
    /\ DeliversWhatWasDone
    /\ \A t \in Task :
          state[t] \in {"delivering", "completed"} /\ result[t] = "receipt" => call[t] \in Call
    /\ \A c \in Call : cache[c] \in {"done", "empty"} => Performed(c)
    /\ \A p \in Coroutine : Backed(p)

IInv == TypeOK /\ Control /\ Spending /\ Clearance /\ Backing

------------------------------------------------------------------------------
\* No tool is started for a task that is already over, the chat fallback
\* included, whose first tool may have ended after the cancellation.
NoToolAfterEnd ==
    [][\A p \in Coroutine :
          pc'[p] = "tool" /\ pc[p] # "tool" => state[p[1]] = "executing"]_vars

\* The kernel implements the promised task lifecycle.
Tasks == INSTANCE TaskLifecycle
ImplementsLifecycle == Tasks!Spec

\* A task that a coroutine drives ends, or comes to wait for its user, unless the
\* process stops first.
Settled(t) == state[t] \in Terminal \cup NoRow \cup {"awaiting_confirmation"}
Driven(t) == state[t] \in Live /\ \E p \in Coroutine : p[1] = t /\ pc[p] # "idle"
Settles ==
    \A t \in Task : \A n \in 0..MaxStops :
        Driven(t) /\ mode = "up" /\ stops = n ~> Settled(t) \/ stops > n

\* SessionManager's docstring: "recover non-terminal work after restart".  A
\* task found unfinished at a restart is taken up again.
RecoversAfterRestart ==
    \A t \in Task : (stops > 0 /\ mode = "up" /\ state[t] \in Live) ~> Settled(t)

\* README: a confirmation control is shown before execution.  A risky call that
\* took effect was first put before the user as a risk confirmation.
RiskShownFirst ==
    \A t \in Task, c \in RiskyCall : effects[t][c] > 0 => c \in shown[t]
==============================================================================
