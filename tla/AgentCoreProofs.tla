--------------------------- MODULE AgentCoreProofs ---------------------------
(***************************************************************************)
(* What holds of AgentCore for every number of tasks, confirm handlers,    *)
(* calls and stops.                                                        *)
(***************************************************************************)
EXTENDS AgentCore, TLAPS

\* A transition leaves every row in a state of the machine.
LEMMA TransitionTyped ==
    ASSUME state \in [Task -> RowState], NEW t, NEW e, Transition(t, e)
    PROVE  state' \in [Task -> RowState]
BY DEF Transition, RowState

\* The literal states a step writes.
LEMMA WrittenStates == "received" \in RowState /\ "purged" \in RowState
BY DEF RowState, TaskState, Live, NoRow

\* Counting one more effect keeps the counters natural numbers.
LEMMA CountTyped ==
    ASSUME effects \in [Task -> [Call -> Nat]], NEW t \in Task, NEW c \in Call,
           CountEffect(t, c)
    PROVE  effects' \in [Task -> [Call -> Nat]]
BY DEF CountEffect

\* Type correctness: no step of the kernel takes a variable out of its type.
THEOREM TypeCorrect == Spec => []TypeOK
<1>1. Init => TypeOK
  BY CallAssumption DEF Init, TypeOK, RowState, NoRow
<1>2. TypeOK /\ [Next]_vars => TypeOK'
  <2> SUFFICES ASSUME TypeOK, [Next]_vars PROVE TypeOK'
    OBVIOUS
  <2> USE TransitionTyped, CountTyped
  <2> USE DEF TypeOK, rows, history, coroutine
  <2>1. ASSUME NEW p \in Coroutine, Process(p) PROVE TypeOK'
    <3>0. p[1] \in Task /\ ChatCall \in Call /\ RiskyCall \subseteq Call
      BY CallAssumption DEF Coroutine
    <3> USE <3>0 DEF Holding, Suspended
    <3>1. CASE AskMissing(p) BY <3>1 DEF AskMissing
    <3>2. CASE AnswerDrift(p) BY <3>2 DEF AnswerDrift
    <3>3. CASE Refuse(p) BY <3>3 DEF Refuse
    <3>4. CASE AskRisk(p) BY <3>4 DEF AskRisk, AddShown, NeedsRisk
    <3>5. CASE RouterRefuses(p) BY <3>5 DEF RouterRefuses
    <3>6. CASE EnterExecution(p) BY <3>6 DEF EnterExecution
    <3>7. CASE Answer(p) BY <3>7 DEF Answer
    <3>8. CASE ExecuteCached(p) BY <3>8 DEF ExecuteCached, Outcome, Success
    <3>9. CASE ExecuteCancelled(p) BY <3>9 DEF ExecuteCancelled
    <3>10. CASE ExecuteStarts(p) BY <3>10 DEF ExecuteStarts
    <3>11. CASE \E outcome \in Outcome : ToolRuns(p, outcome)
      BY <3>11 DEF ToolRuns, TakesEffect, Outcome, Success
    <3>12. CASE ToolReturns(p) BY <3>12 DEF ToolReturns, AfterTool, Cacheable, Outcome, Success
    <3>13. CASE ToolCancelled(p) BY <3>13 DEF ToolCancelled
    <3>14. CASE FallBack(p) BY <3>14 DEF FallBack
    <3>15. CASE UseReceipt(p) BY <3>15 DEF UseReceipt, ReceiptEvent, ReceiptResult
    <3>16. CASE Complete(p) BY <3>16 DEF Complete
    <3>17. CASE Fail(p) BY <3>17 DEF Fail
    <3> QED BY <2>1, <3>1, <3>2, <3>3, <3>4, <3>5, <3>6, <3>7, <3>8, <3>9, <3>10,
               <3>11, <3>12, <3>13, <3>14, <3>15, <3>16, <3>17 DEF Process
  <2>2. ASSUME NEW t \in Task, Background(t) PROVE TypeOK'
    <3> USE DEF Holding, Suspended
    <3>1. CASE Wake(t) BY <3>1 DEF Wake
    <3>2. CASE \E c \in Call, m \in BOOLEAN : Interpret(t, c, m)
      <4> PICK c \in Call, m \in BOOLEAN : Interpret(t, c, m) BY <3>2
      <4>1. state' \in [Task -> RowState] BY DEF Interpret
      <4> QED BY <4>1 DEF Interpret
    <3>3. CASE InterpretTerminal(t) BY <3>3 DEF InterpretTerminal
    <3>4. CASE InterpretFails(t) BY <3>4 DEF InterpretFails
    <3> QED BY <2>2, <3>1, <3>2, <3>3, <3>4 DEF Background
  <2>3. ASSUME NEW t \in Task, Request(t) PROVE TypeOK'
    <3> USE DEF Holding, Suspended
    <3>1. CASE Submit(t) BY <3>1, WrittenStates DEF Submit
    <3>2. CASE \E r \in Confirmer, c \in Call : Confirm(t, r, c)
      <4> PICK r \in Confirmer, c \in Call : Confirm(t, r, c) BY <3>2
      <4>1. state' \in [Task -> RowState] BY DEF Confirm
      <4> QED BY <4>1 DEF Confirm
    <3>3. CASE Cancel(t) BY <3>3 DEF Cancel, CancelTask
    <3> QED BY <2>3, <3>1, <3>2, <3>3 DEF Request
  <2>4. CASE \E c \in Call : CacheExpires(c)
    BY <2>4 DEF CacheExpires
  <2>5. CASE Server
    <3>1. CASE BeginShutdown BY <3>1, CallAssumption DEF BeginShutdown
    <3>2. CASE GraceExpires BY <3>2 DEF GraceExpires
    <3>3. CASE Exit BY <3>3 DEF Exit, ForgetMemory
    <3>4. CASE Crash BY <3>4, CallAssumption DEF Crash, ForgetMemory
    <3>5. CASE \E t \in Task : CancelBackground(t)
      <4> PICK t \in Task : CancelBackground(t) BY <3>5
      <4>1. state' \in [Task -> RowState] /\ cancelEvent' \in [Task -> BOOLEAN]
        BY DEF CancelBackground, CancelTask
      <4>2. effects' \in [Task -> [Call -> Nat]]
        BY DEF CancelBackground, Coroutine, Runner
      <4> QED BY <4>1, <4>2 DEF CancelBackground
    <3>6. CASE \E expired \in SUBSET Task : Start(expired)
      BY <3>6, WrittenStates DEF Start
    <3> QED BY <2>5, <3>1, <3>2, <3>3, <3>4, <3>5, <3>6 DEF Server
  <2>6. CASE UNCHANGED vars
    BY <2>6 DEF vars
  <2> QED BY <2>1, <2>2, <2>3, <2>4, <2>5, <2>6 DEF Next
<1> QED BY <1>1, <1>2, PTL DEF Spec
------------------------------------------------------------------------------
(* Control: the place of every coroutine fits the state of its row.         *)

\* A step in which one coroutine moves, its own row at most with it.
LEMMA MoveOne ==
    ASSUME TypeOK, TypeOK', Control, NEW p \in Coroutine,
           pc[p] # "idle",
           \A q \in Coroutine : q # p => pc'[q] = pc[q],
           \A t \in Task : t # p[1] => state'[t] = state[t],
           mode' = mode, cancelEvent' = cancelEvent,
           state[p[1]] = "cancelled" => state'[p[1]] = "cancelled",
           pc'[p] \in {"execute", "tool", "receipt"} /\ state'[p[1]] = "cancelled" =>
               pc[p] \in {"execute", "tool", "receipt"} /\ state[p[1]] = "cancelled",
           Fits(p[2], pc'[p], state'[p[1]])
    PROVE  Control'
<1>0. /\ Coroutine \in SUBSET (Task \X Runner)
      /\ \A q \in Coroutine : q[1] \in Task
  BY DEF Coroutine
<1>1. \A q \in Coroutine : q # p /\ q[1] = p[1] => pc[q] = "idle"
  BY DEF Control, SingleRunner
<1>2. Placed'
  <2> SUFFICES ASSUME NEW q \in Coroutine PROVE Fits(q[2], pc'[q], state'[q[1]])
    BY DEF Placed
  <2>1. CASE q = p
    BY <2>1
  <2>2. CASE q # p /\ q[1] = p[1]
    BY <1>1, <2>2 DEF Fits
  <2>3. CASE q[1] # p[1]
    BY <1>0, <2>3 DEF Control, Placed
  <2> QED BY <2>1, <2>2, <2>3
<1>3. SingleRunner'
  BY <1>1 DEF Control, SingleRunner
<1>4. CancelEventMeansCancelled'
  BY DEF Control, CancelEventMeansCancelled
<1>5. DownIsEmpty'
  BY DEF Control, DownIsEmpty
<1>6. Informed'
  <2> SUFFICES ASSUME NEW q \in Coroutine,
                      pc'[q] \in {"execute", "tool", "receipt"},
                      state'[q[1]] = "cancelled"
               PROVE  cancelEvent[q[1]]
    BY DEF Informed
  <2>1. CASE q = p
    BY <2>1 DEF Control, Informed
  <2>2. CASE q # p
    <3>1. q[1] # p[1]
      BY <1>1, <2>2
    <3> QED BY <1>0, <2>2, <3>1 DEF Control, Informed
  <2> QED BY <2>1, <2>2
<1> QED BY <1>2, <1>3, <1>4, <1>5, <1>6 DEF Control

\* No step of the kernel breaks the control invariant.
LEMMA ControlStep == TypeOK /\ TypeOK' /\ Control /\ [Next]_vars => Control'
<1> SUFFICES ASSUME TypeOK, TypeOK', Control, [Next]_vars PROVE Control'
  OBVIOUS
<1> USE DEF rows, history, coroutine
<1>1. ASSUME NEW p \in Coroutine, Process(p) PROVE Control'
  <2>0. p[1] \in Task /\ Fits(p[2], pc[p], state[p[1]])
    BY DEF Coroutine, Control, Placed
  <2> SUFFICES /\ pc[p] # "idle"
               /\ \A q \in Coroutine : q # p => pc'[q] = pc[q]
               /\ \A t \in Task : t # p[1] => state'[t] = state[t]
               /\ mode' = mode /\ cancelEvent' = cancelEvent
               /\ state[p[1]] = "cancelled" => state'[p[1]] = "cancelled"
               /\ pc'[p] \in {"execute", "tool", "receipt"} /\ state'[p[1]] = "cancelled" =>
                      pc[p] \in {"execute", "tool", "receipt"} /\ state[p[1]] = "cancelled"
               /\ Fits(p[2], pc'[p], state'[p[1]])
    BY MoveOne
  <2> USE <2>0 DEF Fits, TypeOK, Transition, Edge, Live
  <2>1. CASE AskMissing(p) BY <2>1 DEF AskMissing
  <2>2. CASE AnswerDrift(p) BY <2>2 DEF AnswerDrift
  <2>3. CASE Refuse(p) BY <2>3 DEF Refuse
  <2>4. CASE AskRisk(p) BY <2>4 DEF AskRisk
  <2>5. CASE RouterRefuses(p) BY <2>5 DEF RouterRefuses
  <2>6. CASE EnterExecution(p) BY <2>6 DEF EnterExecution
  <2>7. CASE Answer(p) BY <2>7 DEF Answer
  <2>8. CASE ExecuteCached(p) BY <2>8 DEF ExecuteCached
  <2>9. CASE ExecuteCancelled(p) BY <2>9 DEF ExecuteCancelled
  <2>10. CASE ExecuteStarts(p) BY <2>10 DEF ExecuteStarts
  <2>11. CASE \E outcome \in Outcome : ToolRuns(p, outcome) BY <2>11 DEF ToolRuns
  <2>12. CASE ToolReturns(p) BY <2>12 DEF ToolReturns, AfterTool, Cacheable
  <2>13. CASE ToolCancelled(p) BY <2>13 DEF ToolCancelled
  <2>14. CASE FallBack(p) BY <2>14 DEF FallBack
  <2>15. CASE UseReceipt(p) BY <2>15 DEF UseReceipt, ReceiptEvent
  <2>16. CASE Complete(p) BY <2>16 DEF Complete
  <2>17. CASE Fail(p) BY <2>17 DEF Fail
  <2> QED BY <1>1, <2>1, <2>2, <2>3, <2>4, <2>5, <2>6, <2>7, <2>8, <2>9, <2>10,
             <2>11, <2>12, <2>13, <2>14, <2>15, <2>16, <2>17 DEF Process
<1>2. ASSUME NEW t \in Task, Background(t) PROVE Control'
  <2> DEFINE p == <<t, "process">>
  <2>0. /\ p \in Coroutine /\ p[1] = t /\ p[2] = "process"
        /\ Fits("process", pc[p], state[t])
    BY DEF Coroutine, Runner, Control, Placed
  <2> HIDE DEF p
  <2> SUFFICES /\ pc[p] # "idle"
               /\ \A q \in Coroutine : q # p => pc'[q] = pc[q]
               /\ \A u \in Task : u # t => state'[u] = state[u]
               /\ mode' = mode /\ cancelEvent' = cancelEvent
               /\ state[t] = "cancelled" => state'[t] = "cancelled"
               /\ pc'[p] \in {"execute", "tool", "receipt"} /\ state'[t] = "cancelled" =>
                      pc[p] \in {"execute", "tool", "receipt"} /\ state[t] = "cancelled"
               /\ Fits("process", pc'[p], state'[t])
    BY <2>0, MoveOne
  <2> USE <2>0 DEF Fits, TypeOK, Transition, Edge, Live
  <2>1. CASE Wake(t) BY <2>1 DEF Wake, p
  <2>2. CASE \E c \in Call, m \in BOOLEAN : Interpret(t, c, m) BY <2>2 DEF Interpret, p
  <2>3. CASE InterpretTerminal(t) BY <2>3 DEF InterpretTerminal, p
  <2>4. CASE InterpretFails(t) BY <2>4 DEF InterpretFails, p
  <2> QED BY <1>2, <2>1, <2>2, <2>3, <2>4 DEF Background
<1>3. ASSUME NEW t \in Task, Request(t) PROVE Control'
  <2> USE DEF Coroutine, Runner
  <2>1. ASSUME NEW q \in Coroutine, q[1] = t, LoopFree, pc[q] # "idle"
        PROVE  Fits(q[2], pc[q], state[t]) /\ pc[q] \in Suspended
    BY <2>1 DEF Control, Placed, LoopFree, TypeOK
  <2>2. CASE Submit(t)
    <3>1. \A q \in Coroutine : q[1] = t => pc[q] = "idle"
      BY <2>1, <2>2 DEF Submit, Fits, Suspended
    <3>2. Placed'
      BY <2>2 DEF Submit, Placed, Fits, Control, TypeOK
    <3>3. SingleRunner'
      BY <3>1, <2>2 DEF Submit, SingleRunner, Control, TypeOK
    <3>4. \A q \in Coroutine : pc'[q] \in {"execute", "tool", "receipt"} =>
              pc[q] = pc'[q] /\ q[1] # t
      BY <3>1, <2>2 DEF Submit, TypeOK
    <3>5. Informed'
      BY <3>4, <2>2 DEF Submit, Control, Informed, TypeOK
    <3> QED BY <2>2, <3>2, <3>3, <3>5
        DEF Submit, Control, CancelEventMeansCancelled, DownIsEmpty, TypeOK
  <2>3. CASE \E r \in Confirmer, c \in Call : Confirm(t, r, c)
    <3> PICK r \in Confirmer, c \in Call : Confirm(t, r, c) BY <2>3
    <3> USE DEF Confirm
    <3>1. \A q \in Coroutine : q[1] = t => pc[q] = "idle"
      BY <2>1 DEF Fits, Suspended
    <3>2. state' = [state EXCEPT ![t] = "validating"]
      BY DEF Transition, Edge, Live
    <3>3. Placed'
      BY <3>1, <3>2 DEF Placed, Fits, Control, TypeOK
    <3>4. \A q \in Coroutine : q # <<t, r>> => pc'[q] = pc[q]
      BY DEF TypeOK
    <3>5. SingleRunner'
      BY <3>1, <3>4 DEF SingleRunner, Control
    <3>6. Informed'
      BY <3>2, <3>4 DEF Control, Informed, TypeOK
    <3> QED BY <3>2, <3>3, <3>5, <3>6
        DEF Control, CancelEventMeansCancelled, DownIsEmpty, TypeOK
  <2>4. CASE Cancel(t)
    <3> USE <2>4 DEF Cancel, CancelTask
    <3>1. state' = [state EXCEPT ![t] = "cancelled"]
      BY DEF Transition, Edge, Live
    <3>2. \A q \in Coroutine : q[1] = t => pc[q] \in Suspended \cup {"idle"}
      BY <2>1
    <3>3. \A q \in Coroutine : q[1] # t => state'[q[1]] = state[q[1]]
      BY <3>1 DEF TypeOK
    <3>4. Placed'
      BY <3>1, <3>2, <3>3 DEF Placed, Fits, Control, TypeOK, Suspended
    <3>5. Informed'
      BY <3>1 DEF Control, Informed, TypeOK
    <3> QED BY <3>1, <3>4, <3>5
        DEF Control, CancelEventMeansCancelled, SingleRunner, DownIsEmpty, TypeOK
  <2> QED BY <1>3, <2>2, <2>3, <2>4 DEF Request
<1>4. CASE \E c \in Call : CacheExpires(c)
  BY <1>4 DEF CacheExpires, Control, Placed, SingleRunner, CancelEventMeansCancelled,
              Informed, DownIsEmpty
<1>5. CASE Server
  <2> USE DEF Control, SingleRunner, CancelEventMeansCancelled, Informed, DownIsEmpty
  <2>1. CASE BeginShutdown BY <2>1 DEF BeginShutdown, Placed
  <2>2. CASE GraceExpires BY <2>2 DEF GraceExpires, Placed
  <2>3. CASE Exit BY <2>3 DEF Exit, ForgetMemory, Placed, Fits
  <2>4. CASE Crash BY <2>4 DEF Crash, ForgetMemory, Placed, Fits
  <2>5. CASE \E t \in Task : CancelBackground(t)
    <3> PICK t \in Task : CancelBackground(t) BY <2>5
    <3> USE DEF CancelBackground, Coroutine, Runner
    <3>1. \/ state' = [state EXCEPT ![t] = "cancelled"] /\ cancelEvent' = [cancelEvent EXCEPT ![t] = TRUE]
          \/ state' = state /\ cancelEvent' = cancelEvent
      BY DEF CancelTask, Transition, Edge, Live
    <3>2. \A q \in Coroutine : q[1] = t => pc'[q] = "idle"
      BY DEF Suspended, TypeOK
    <3>3. Placed'
      BY <3>1, <3>2 DEF Placed, Fits, TypeOK
    <3>4. \A q \in Coroutine : pc'[q] # "idle" => pc'[q] = pc[q] /\ q[1] # t
      BY <3>2 DEF TypeOK
    <3>5. SingleRunner'
      BY <3>4
    <3>6. CancelEventMeansCancelled'
      BY <3>1 DEF TypeOK
    <3>7. Informed'
      <4>1. \A u \in Task : u # t => state'[u] = state[u] /\ cancelEvent'[u] = cancelEvent[u]
        BY <3>1 DEF TypeOK
      <4> HIDE DEF CancelBackground
      <4> QED BY <3>4, <4>1
    <3>8. DownIsEmpty'
      OBVIOUS
    <3> QED BY <3>3, <3>5, <3>6, <3>7, <3>8
  <2>6. CASE \E expired \in SUBSET Task : Start(expired)
    BY <2>6 DEF Start, Placed, Fits, Coroutine, TypeOK
  <2> QED BY <1>5, <2>1, <2>2, <2>3, <2>4, <2>5, <2>6 DEF Server
<1>6. CASE UNCHANGED vars
  BY <1>6 DEF vars, Control, Placed, SingleRunner, CancelEventMeansCancelled, Informed,
              DownIsEmpty
<1> QED BY <1>1, <1>2, <1>3, <1>4, <1>5, <1>6 DEF Next

\* The control invariant holds in every reachable state.
LEMMA ControlHolds == Spec => [](TypeOK /\ Control)
<1>1. Init => Control
  BY DEF Init, Control, Placed, Fits, SingleRunner, CancelEventMeansCancelled, Informed,
         DownIsEmpty, Coroutine, Runner
<1>2. QED BY <1>1, TypeCorrect, ControlStep, PTL DEF Spec

\* No task is ever driven by two coroutines, though AgentCore holds no lock: the
\* state checks made between two suspensions are enough.
THEOREM OneRunnerPerTask == Spec => []SingleRunner
<1>1. Control => SingleRunner
  BY DEF Control
<1> QED BY <1>1, ControlHolds, PTL

\* The executor's cancellation event is only ever set for a cancelled row.
THEOREM EventsOfCancelledTasks == Spec => []CancelEventMeansCancelled
<1>1. Control => CancelEventMeansCancelled
  BY DEF Control
<1> QED BY <1>1, ControlHolds, PTL

\* No tool task is created for a row that is not executing: a cancelled one has
\* its event set by the time the executor looks.
THEOREM NoToolStartsLate == Spec => NoToolAfterEnd
<1> DEFINE Late == \A p \in Coroutine :
              pc'[p] = "tool" /\ pc[p] # "tool" => state[p[1]] = "executing"
<1>1. TypeOK /\ Control /\ [Next]_vars => [Late]_vars
  <2> SUFFICES ASSUME TypeOK, Control, [Next]_vars, NEW q \in Coroutine,
                      pc'[q] = "tool", pc[q] # "tool"
               PROVE  state[q[1]] = "executing"
    OBVIOUS
  <2> USE DEF TypeOK, rows, history, coroutine
  <2>0. /\ q[1] \in Task
        /\ ExecuteStarts(q) => state[q[1]] = "executing"
    BY DEF Coroutine, ExecuteStarts, Control, Placed, Fits, Informed
  <2>1. ASSUME NEW p \in Coroutine, Process(p) PROVE ExecuteStarts(q)
    <3>1. CASE AskMissing(p) BY <3>1 DEF AskMissing
    <3>2. CASE AnswerDrift(p) BY <3>2 DEF AnswerDrift
    <3>3. CASE Refuse(p) BY <3>3 DEF Refuse
    <3>4. CASE AskRisk(p) BY <3>4 DEF AskRisk
    <3>5. CASE RouterRefuses(p) BY <3>5 DEF RouterRefuses
    <3>6. CASE EnterExecution(p) BY <3>6 DEF EnterExecution
    <3>7. CASE Answer(p) BY <3>7 DEF Answer
    <3>8. CASE ExecuteCached(p) BY <3>8 DEF ExecuteCached
    <3>9. CASE ExecuteCancelled(p) BY <3>9 DEF ExecuteCancelled
    <3>10. CASE ExecuteStarts(p)
      <4>1. q = p BY <3>10 DEF ExecuteStarts
      <4> QED BY <3>10, <4>1
    <3>11. CASE \E outcome \in Outcome : ToolRuns(p, outcome) BY <3>11 DEF ToolRuns
    <3>12. CASE ToolReturns(p) BY <3>12 DEF ToolReturns, AfterTool, Cacheable
    <3>13. CASE ToolCancelled(p) BY <3>13 DEF ToolCancelled
    <3>14. CASE FallBack(p) BY <3>14 DEF FallBack
    <3>15. CASE UseReceipt(p) BY <3>15 DEF UseReceipt
    <3>16. CASE Complete(p) BY <3>16 DEF Complete
    <3>17. CASE Fail(p) BY <3>17 DEF Fail
    <3> QED BY <2>1, <3>1, <3>2, <3>3, <3>4, <3>5, <3>6, <3>7, <3>8, <3>9, <3>10,
               <3>11, <3>12, <3>13, <3>14, <3>15, <3>16, <3>17 DEF Process
  <2>2. ASSUME NEW t \in Task, Background(t) PROVE FALSE
    BY <2>2 DEF Background, Wake, Interpret, InterpretTerminal, InterpretFails
  <2>3. ASSUME NEW t \in Task, Request(t) PROVE FALSE
    BY <2>3 DEF Request, Submit, Confirm, Cancel
  <2>4. CASE \E c \in Call : CacheExpires(c)
    BY <2>4 DEF CacheExpires
  <2>5. CASE Server
    BY <2>5 DEF Server, BeginShutdown, GraceExpires, Exit, Crash, ForgetMemory,
                CancelBackground, Start
  <2>6. CASE UNCHANGED vars
    BY <2>6 DEF vars
  <2> QED BY <2>0, <2>1, <2>2, <2>3, <2>4, <2>5, <2>6 DEF Next
<1> QED BY <1>1, ControlHolds, PTL DEF Spec, NoToolAfterEnd
------------------------------------------------------------------------------
(* Refinement: a kernel step is a step of the promised lifecycle.           *)

\* The kernel's transitions are the lifecycle's.
LEMMA TransitionMaps ==
    ASSUME NEW t \in Task, NEW e \in TaskEvent, Transition(t, e)
    PROVE  Tasks!Next
<1>1. Tasks!Transition(t, e)
  BY DEF Transition, Tasks!Transition, Edge, Tasks!Edge, TaskState, Tasks!TaskState,
         Live, Tasks!Live, Terminal, Tasks!Terminal
<1>2. e \in Tasks!TaskEvent
  BY DEF TaskEvent, Tasks!TaskEvent
<1> QED BY <1>1, <1>2 DEF Tasks!Next

\* AgentCore implements TaskLifecycle: rows are created once, move along the
\* transition table one event at a time, and are deleted only when over.
THEOREM KernelImplementsLifecycle == Spec => ImplementsLifecycle
<1>1. Init => Tasks!Init
  BY DEF Init, Tasks!Init
<1>2. [Next]_vars => [Tasks!Next]_state
  <2> SUFFICES ASSUME [Next]_vars PROVE Tasks!Next \/ UNCHANGED state
    OBVIOUS
  <2> USE DEF rows, TaskEvent
  <2>1. ASSUME NEW p \in Coroutine, Process(p) PROVE Tasks!Next \/ UNCHANGED state
    <3>0. p[1] \in Task
      BY DEF Coroutine
    <3> USE <3>0, TransitionMaps
    <3>1. CASE AskMissing(p) BY <3>1 DEF AskMissing
    <3>2. CASE AnswerDrift(p) BY <3>2 DEF AnswerDrift
    <3>3. CASE Refuse(p) BY <3>3 DEF Refuse
    <3>4. CASE AskRisk(p) BY <3>4 DEF AskRisk
    <3>5. CASE RouterRefuses(p) BY <3>5 DEF RouterRefuses
    <3>6. CASE EnterExecution(p) BY <3>6 DEF EnterExecution
    <3>7. CASE Answer(p) BY <3>7 DEF Answer
    <3>8. CASE ExecuteCached(p) BY <3>8 DEF ExecuteCached
    <3>9. CASE ExecuteCancelled(p) BY <3>9 DEF ExecuteCancelled
    <3>10. CASE ExecuteStarts(p) BY <3>10 DEF ExecuteStarts
    <3>11. CASE \E outcome \in Outcome : ToolRuns(p, outcome) BY <3>11 DEF ToolRuns
    <3>12. CASE ToolReturns(p) BY <3>12 DEF ToolReturns, AfterTool, Cacheable
    <3>13. CASE ToolCancelled(p) BY <3>13 DEF ToolCancelled
    <3>14. CASE FallBack(p) BY <3>14 DEF FallBack
    <3>15. CASE UseReceipt(p) BY <3>15 DEF UseReceipt, ReceiptEvent
    <3>16. CASE Complete(p) BY <3>16 DEF Complete
    <3>17. CASE Fail(p) BY <3>17 DEF Fail
    <3> QED BY <2>1, <3>1, <3>2, <3>3, <3>4, <3>5, <3>6, <3>7, <3>8, <3>9, <3>10,
               <3>11, <3>12, <3>13, <3>14, <3>15, <3>16, <3>17 DEF Process
  <2>2. ASSUME NEW t \in Task, Background(t) PROVE Tasks!Next \/ UNCHANGED state
    BY <2>2, TransitionMaps DEF Background, Wake, Interpret, InterpretTerminal, InterpretFails
  <2>3. ASSUME NEW t \in Task, Request(t) PROVE Tasks!Next
    <3>1. CASE Submit(t)
      BY <3>1 DEF Submit, Tasks!Next, Tasks!Create
    <3>2. CASE \E r \in Confirmer, c \in Call : Confirm(t, r, c)
      BY <3>2, TransitionMaps DEF Confirm
    <3>3. CASE Cancel(t)
      BY <3>3, TransitionMaps DEF Cancel, CancelTask
    <3> QED BY <2>3, <3>1, <3>2, <3>3 DEF Request
  <2>4. CASE \E c \in Call : CacheExpires(c)
    BY <2>4 DEF CacheExpires
  <2>5. CASE Server
    <3>1. CASE BeginShutdown \/ GraceExpires \/ Exit \/ Crash
      BY <3>1 DEF BeginShutdown, GraceExpires, Exit, Crash
    <3>2. CASE \E t \in Task : CancelBackground(t)
      BY <3>2, TransitionMaps DEF CancelBackground, CancelTask
    <3>3. CASE \E expired \in SUBSET Task : Start(expired)
      BY <3>3 DEF Start, Tasks!Next, Tasks!Purge, Terminal, Tasks!Terminal
    <3> QED BY <2>5, <3>1, <3>2, <3>3 DEF Server
  <2>6. CASE UNCHANGED vars
    BY <2>6 DEF vars
  <2> QED BY <2>1, <2>2, <2>3, <2>4, <2>5, <2>6 DEF Next
<1> QED BY <1>1, <1>2, PTL DEF Spec, ImplementsLifecycle, Tasks!Spec
------------------------------------------------------------------------------
(* Effects: what a tool does, and on whose word.                            *)

\* Coroutine q is left where it is.
Stands(q) == pc'[q] = pc[q] /\ job'[q] = job[q] /\ tool'[q] = tool[q]

\* The tool of coroutine p takes effect, and is no longer scheduled.
Strikes(p) ==
    /\ pc[p] = "tool" /\ tool[p] = "scheduled" /\ CountEffect(p[1], job[p])
    /\ ~Stands(p)

\* A tool takes effect only while it is scheduled, for the call of its coroutine.
LEMMA EffectSource ==
    ASSUME TypeOK, [Next]_vars
    PROVE  UNCHANGED effects \/ \E p \in Coroutine : Strikes(p)
<1> USE DEF rows, history, coroutine, Strikes, Stands, TypeOK, Outcome, Success
<1>1. ASSUME NEW p \in Coroutine, Process(p)
      PROVE  UNCHANGED effects \/ Strikes(p)
  <2>1. CASE AskMissing(p) BY <2>1 DEF AskMissing
  <2>2. CASE AnswerDrift(p) BY <2>2 DEF AnswerDrift
  <2>3. CASE Refuse(p) BY <2>3 DEF Refuse
  <2>4. CASE AskRisk(p) BY <2>4 DEF AskRisk
  <2>5. CASE RouterRefuses(p) BY <2>5 DEF RouterRefuses
  <2>6. CASE EnterExecution(p) BY <2>6 DEF EnterExecution
  <2>7. CASE Answer(p) BY <2>7 DEF Answer
  <2>8. CASE ExecuteCached(p) BY <2>8 DEF ExecuteCached
  <2>9. CASE ExecuteCancelled(p) BY <2>9 DEF ExecuteCancelled
  <2>10. CASE ExecuteStarts(p) BY <2>10 DEF ExecuteStarts
  <2>11. CASE \E outcome \in Outcome : ToolRuns(p, outcome) BY <2>11 DEF ToolRuns, TakesEffect
  <2>12. CASE ToolReturns(p) BY <2>12 DEF ToolReturns, AfterTool, Cacheable
  <2>13. CASE ToolCancelled(p) BY <2>13 DEF ToolCancelled
  <2>14. CASE FallBack(p) BY <2>14 DEF FallBack
  <2>15. CASE UseReceipt(p) BY <2>15 DEF UseReceipt
  <2>16. CASE Complete(p) BY <2>16 DEF Complete
  <2>17. CASE Fail(p) BY <2>17 DEF Fail
  <2> QED BY <1>1, <2>1, <2>2, <2>3, <2>4, <2>5, <2>6, <2>7, <2>8, <2>9, <2>10,
              <2>11, <2>12, <2>13, <2>14, <2>15, <2>16, <2>17 DEF Process
<1>2. ASSUME NEW t \in Task, Background(t) \/ Request(t) PROVE UNCHANGED effects
  BY <1>2 DEF Background, Wake, Interpret, InterpretTerminal, InterpretFails,
              Request, Submit, Confirm, Cancel
<1>3. CASE \E c \in Call : CacheExpires(c)
  BY <1>3 DEF CacheExpires
<1>4. CASE Server
  <2>1. CASE BeginShutdown \/ GraceExpires \/ Exit \/ Crash
    BY <2>1 DEF BeginShutdown, GraceExpires, Exit, Crash
  <2>2. CASE \E t \in Task : CancelBackground(t)
    <3> PICK t \in Task : CancelBackground(t) BY <2>2
    <3> DEFINE p == <<t, "process">>
    <3>1. p \in Coroutine /\ p[1] = t
      BY DEF Coroutine, Runner
    <3> QED BY <3>1 DEF CancelBackground
  <2>3. CASE \E expired \in SUBSET Task : Start(expired)
    BY <2>3 DEF Start
  <2> QED BY <1>4, <2>1, <2>2, <2>3 DEF Server
<1>5. CASE UNCHANGED vars
  BY <1>5 DEF vars
<1> QED BY <1>1, <1>2, <1>3, <1>4, <1>5 DEF Next

\* A user's approval is never taken back.
LEMMA ApprovalsKept ==
    ASSUME TypeOK, [Next]_vars, NEW t \in Task
    PROVE  approved[t] \subseteq approved'[t]
<1> USE DEF rows, history, coroutine
<1>1. ASSUME NEW p \in Coroutine, Process(p) PROVE approved' = approved
  <2>1. CASE AskMissing(p) BY <2>1 DEF AskMissing
  <2>2. CASE AnswerDrift(p) BY <2>2 DEF AnswerDrift
  <2>3. CASE Refuse(p) BY <2>3 DEF Refuse
  <2>4. CASE AskRisk(p) BY <2>4 DEF AskRisk
  <2>5. CASE RouterRefuses(p) BY <2>5 DEF RouterRefuses
  <2>6. CASE EnterExecution(p) BY <2>6 DEF EnterExecution
  <2>7. CASE Answer(p) BY <2>7 DEF Answer
  <2>8. CASE ExecuteCached(p) BY <2>8 DEF ExecuteCached
  <2>9. CASE ExecuteCancelled(p) BY <2>9 DEF ExecuteCancelled
  <2>10. CASE ExecuteStarts(p) BY <2>10 DEF ExecuteStarts
  <2>11. CASE \E outcome \in Outcome : ToolRuns(p, outcome) BY <2>11 DEF ToolRuns
  <2>12. CASE ToolReturns(p) BY <2>12 DEF ToolReturns, AfterTool, Cacheable
  <2>13. CASE ToolCancelled(p) BY <2>13 DEF ToolCancelled
  <2>14. CASE FallBack(p) BY <2>14 DEF FallBack
  <2>15. CASE UseReceipt(p) BY <2>15 DEF UseReceipt
  <2>16. CASE Complete(p) BY <2>16 DEF Complete
  <2>17. CASE Fail(p) BY <2>17 DEF Fail
  <2> QED BY <1>1, <2>1, <2>2, <2>3, <2>4, <2>5, <2>6, <2>7, <2>8, <2>9, <2>10,
              <2>11, <2>12, <2>13, <2>14, <2>15, <2>16, <2>17 DEF Process
<1>2. ASSUME NEW u \in Task, Background(u) PROVE approved' = approved
  BY <1>2 DEF Background, Wake, Interpret, InterpretTerminal, InterpretFails
<1>3. ASSUME NEW u \in Task, Request(u) PROVE approved[t] \subseteq approved'[t]
  <2>1. CASE \E r \in Confirmer, c \in Call : Confirm(u, r, c)
    <3> PICK r \in Confirmer, c \in Call : Confirm(u, r, c) BY <2>1
    <3>1. approved' = [approved EXCEPT ![u] = @ \cup {c}]
      BY DEF Confirm
    <3> QED BY <3>1 DEF TypeOK
  <2>2. CASE Submit(u) \/ Cancel(u)
    BY <2>2 DEF Submit, Cancel
  <2> QED BY <1>3, <2>1, <2>2 DEF Request
<1>4. CASE \E c \in Call : CacheExpires(c)
  BY <1>4 DEF CacheExpires
<1>5. CASE Server
  BY <1>5 DEF Server, BeginShutdown, GraceExpires, Exit, Crash, CancelBackground, Start
<1>6. CASE UNCHANGED vars
  BY <1>6 DEF vars
<1> QED BY <1>1, <1>2, <1>3, <1>4, <1>5, <1>6 DEF Next

\* A step of one coroutine leaves the others, and their rows, alone.
LEMMA OthersStand ==
    ASSUME TypeOK, NEW p \in Coroutine, Process(p)
    PROVE  /\ \A q \in Coroutine : q # p => Stands(q)
           /\ \A t \in Task : t # p[1] => state'[t] = state[t] /\ result'[t] = result[t]
           /\ UNCHANGED <<call, approved>>
<1> USE DEF rows, history, coroutine, TypeOK, Stands, Transition
<1>1. CASE AskMissing(p) BY <1>1 DEF AskMissing
<1>2. CASE AnswerDrift(p) BY <1>2 DEF AnswerDrift
<1>3. CASE Refuse(p) BY <1>3 DEF Refuse
<1>4. CASE AskRisk(p) BY <1>4 DEF AskRisk
<1>5. CASE RouterRefuses(p) BY <1>5 DEF RouterRefuses
<1>6. CASE EnterExecution(p) BY <1>6 DEF EnterExecution
<1>7. CASE Answer(p) BY <1>7 DEF Answer
<1>8. CASE ExecuteCached(p) BY <1>8 DEF ExecuteCached
<1>9. CASE ExecuteCancelled(p) BY <1>9 DEF ExecuteCancelled
<1>10. CASE ExecuteStarts(p) BY <1>10 DEF ExecuteStarts
<1>11. CASE \E outcome \in Outcome : ToolRuns(p, outcome) BY <1>11 DEF ToolRuns
<1>12. CASE ToolReturns(p) BY <1>12 DEF ToolReturns, AfterTool, Cacheable
<1>13. CASE ToolCancelled(p) BY <1>13 DEF ToolCancelled
<1>14. CASE FallBack(p) BY <1>14 DEF FallBack
<1>15. CASE UseReceipt(p) BY <1>15 DEF UseReceipt
<1>16. CASE Complete(p) BY <1>16 DEF Complete
<1>17. CASE Fail(p) BY <1>17 DEF Fail
<1> QED BY <1>1, <1>2, <1>3, <1>4, <1>5, <1>6, <1>7, <1>8, <1>9, <1>10,
            <1>11, <1>12, <1>13, <1>14, <1>15, <1>16, <1>17 DEF Process

\* Only a coroutine's own step takes it into, or through, an execution.
LEMMA ExecutingStands ==
    ASSUME TypeOK, [Next]_vars, NEW q \in Coroutine, ~Process(q),
           pc'[q] \in {"execute", "tool", "receipt"}
    PROVE  Stands(q)
<1> USE DEF rows, history, coroutine, TypeOK
<1>1. ASSUME NEW p \in Coroutine, Process(p) PROVE Stands(q)
  BY <1>1, OthersStand
<1>2. ASSUME NEW t \in Task, Background(t) PROVE Stands(q)
  BY <1>2 DEF Background, Wake, Interpret, InterpretTerminal, InterpretFails, Stands
<1>3. ASSUME NEW t \in Task, Request(t) PROVE Stands(q)
  BY <1>3 DEF Request, Submit, Confirm, Cancel, Stands
<1>4. CASE \E c \in Call : CacheExpires(c)
  BY <1>4 DEF CacheExpires, Stands
<1>5. CASE Server
  BY <1>5 DEF Server, BeginShutdown, GraceExpires, Exit, Crash, ForgetMemory,
              CancelBackground, Start, Stands
<1>6. CASE UNCHANGED vars
  BY <1>6 DEF vars, Stands
<1> QED BY <1>1, <1>2, <1>3, <1>4, <1>5, <1>6 DEF Next

\* No step lets a call past the policy that neither the policy nor the user lets
\* past.
LEMMA ClearanceStep == TypeOK /\ TypeOK' /\ Clearance /\ [Next]_vars => Clearance'
<1> SUFFICES ASSUME TypeOK, TypeOK', Clearance, [Next]_vars PROVE Clearance'
  OBVIOUS
<1> USE DEF rows, history, coroutine
<1>1. EffectsPermitted'
  <2>1. CASE UNCHANGED effects
    BY <2>1, ApprovalsKept DEF Clearance, EffectsPermitted
  <2>2. ASSUME NEW p \in Coroutine, Strikes(p) PROVE EffectsPermitted'
    <3> SUFFICES ASSUME NEW t \in Task, NEW c \in Call, effects'[t][c] > 0
                 PROVE  /\ c \in RiskyCall => c \in approved'[t]
                        /\ c = ChatCall \/ c \notin DriftCall \cup InvalidCall \cup DeniedCall
      BY DEF EffectsPermitted
    <3>1. CASE t = p[1] /\ c = job[p]
      BY <2>2, <3>1, ApprovalsKept DEF Strikes, Clearance, Cleared
    <3>2. CASE ~(t = p[1] /\ c = job[p])
      <4>1. effects'[t][c] = effects[t][c]
        BY <2>2, <3>2 DEF Strikes, CountEffect, TypeOK
      <4> QED BY <4>1, ApprovalsKept DEF Clearance, EffectsPermitted
    <3> QED BY <3>1, <3>2
  <2> QED BY <2>1, <2>2, EffectSource
<1>2. ASSUME NEW q \in Coroutine PROVE Cleared(q)'
  <2>0. q[1] \in Task /\ approved[q[1]] \subseteq approved'[q[1]]
    BY ApprovalsKept DEF Coroutine
  <2>1. CASE Stands(q)
    BY <2>0, <2>1 DEF Stands, Clearance, Cleared
  <2>2. ASSUME NEW p \in Coroutine, p = q, Process(p) PROVE Cleared(p)'
    <3> USE <2>0, <2>2, CallAssumption DEF TypeOK, Clearance, Cleared
    <3>1. CASE AskMissing(p) BY <3>1 DEF AskMissing
    <3>2. CASE AnswerDrift(p) BY <3>2 DEF AnswerDrift
    <3>3. CASE Refuse(p) BY <3>3 DEF Refuse
    <3>4. CASE AskRisk(p) BY <3>4 DEF AskRisk
    <3>5. CASE RouterRefuses(p) BY <3>5 DEF RouterRefuses
    <3>6. CASE EnterExecution(p) BY <3>6 DEF EnterExecution, Permitted, NeedsRisk, Coroutine, Runner
    <3>7. CASE Answer(p) BY <3>7 DEF Answer
    <3>8. CASE ExecuteCached(p) BY <3>8 DEF ExecuteCached
    <3>9. CASE ExecuteCancelled(p) BY <3>9 DEF ExecuteCancelled
    <3>10. CASE ExecuteStarts(p) BY <3>10 DEF ExecuteStarts
    <3>11. CASE \E outcome \in Outcome : ToolRuns(p, outcome) BY <3>11 DEF ToolRuns
    <3>12. CASE ToolReturns(p) BY <3>12 DEF ToolReturns, AfterTool, Cacheable
    <3>13. CASE ToolCancelled(p) BY <3>13 DEF ToolCancelled
    <3>14. CASE FallBack(p) BY <3>14 DEF FallBack
    <3>15. CASE UseReceipt(p) BY <3>15 DEF UseReceipt
    <3>16. CASE Complete(p) BY <3>16 DEF Complete
    <3>17. CASE Fail(p) BY <3>17 DEF Fail
    <3> QED BY <2>2, <3>1, <3>2, <3>3, <3>4, <3>5, <3>6, <3>7, <3>8, <3>9, <3>10,
                <3>11, <3>12, <3>13, <3>14, <3>15, <3>16, <3>17 DEF Process
  <2>3. CASE ~Stands(q) /\ ~Process(q)
    <3>1. pc'[q] \notin {"execute", "tool", "receipt"}
      BY <2>3, ExecutingStands
    <3>2. pc'[q] = "continue" /\ q[2] # "process" => job'[q] \in approved'[q[1]]
      <4>1. ASSUME NEW p \in Coroutine, Process(p) PROVE FALSE
        BY <2>3, <4>1, OthersStand
      <4>2. ASSUME NEW t \in Task, Background(t), q[2] # "process" PROVE FALSE
        <5>1. q # <<t, "process">>
          BY <4>2
        <5> QED BY <2>3, <4>2, <5>1 DEF Background, Wake, Interpret, InterpretTerminal,
                                        InterpretFails, TypeOK, Stands
      <4>3. ASSUME NEW t \in Task, Request(t), pc'[q] = "continue"
            PROVE  job'[q] \in approved'[q[1]]
        <5>1. CASE \E r \in Confirmer, c \in Call : Confirm(t, r, c)
          <6> PICK r \in Confirmer, c \in Call : Confirm(t, r, c) BY <5>1
          <6>1. CASE q = <<t, r>>
            BY <6>1 DEF Confirm, TypeOK
          <6>2. CASE q # <<t, r>>
            BY <2>3, <6>2 DEF Confirm, TypeOK, Stands
          <6> QED BY <6>1, <6>2
        <5>2. CASE Submit(t) \/ Cancel(t)
          BY <2>3, <4>3, <5>2 DEF Submit, Cancel, TypeOK, Stands
        <5> QED BY <4>3, <5>1, <5>2 DEF Request
      <4>4. CASE \E c \in Call : CacheExpires(c)
        BY <2>3, <4>4 DEF CacheExpires, Stands
      <4>5. CASE Server
        BY <2>3, <4>5 DEF Server, BeginShutdown, GraceExpires, Exit, Crash, ForgetMemory,
                    CancelBackground, Start, Stands, TypeOK
      <4>6. CASE UNCHANGED vars
        BY <2>3, <4>6 DEF vars, Stands
      <4> QED BY <4>1, <4>2, <4>3, <4>4, <4>5, <4>6 DEF Next
    <3> QED BY <3>1, <3>2 DEF Cleared
  <2> QED BY <2>1, <2>2, <2>3
<1> QED BY <1>1, <1>2 DEF Clearance

\* A risky call takes effect only for a user who approved it, and no refused call
\* takes effect at all.
THEOREM EffectsArePermitted == Spec => []EffectsPermitted
<1>1. Init => Clearance
  BY DEF Init, Clearance, EffectsPermitted, Cleared
<1>2. Clearance => EffectsPermitted
  BY DEF Clearance
<1> QED BY <1>1, <1>2, TypeCorrect, ClearanceStep, PTL DEF Spec
------------------------------------------------------------------------------
(* Spending: a call that may still take effect has not done so yet.         *)

\* A row goes back to its user, or to the policy, only from a state that has
\* executed nothing, or with a receipt that asks for something.
LEMMA BackToUser ==
    ASSUME TypeOK, Control, [Next]_vars, NEW t \in Task,
           state[t] \notin NotExecuted, state'[t] \in NotExecuted
    PROVE  /\ UNCHANGED effects
           /\ \E p \in Coroutine : p[1] = t /\ pc[p] = "receipt" /\ tool[p] = "needs"
<1> USE DEF rows, history, coroutine, TypeOK, NotExecuted, Transition, Edge, Live
<1>1. ASSUME NEW p \in Coroutine, Process(p)
      PROVE  UNCHANGED effects /\ p[1] = t /\ pc[p] = "receipt" /\ tool[p] = "needs"
  <2>0. p[1] = t /\ Fits(p[2], pc[p], state[t])
    BY <1>1, OthersStand DEF Control, Placed
  <2> USE <2>0 DEF Fits
  <2>1. CASE AskMissing(p) BY <2>1 DEF AskMissing
  <2>2. CASE AnswerDrift(p) BY <2>2 DEF AnswerDrift
  <2>3. CASE Refuse(p) BY <2>3 DEF Refuse
  <2>4. CASE AskRisk(p) BY <2>4 DEF AskRisk
  <2>5. CASE RouterRefuses(p) BY <2>5 DEF RouterRefuses
  <2>6. CASE EnterExecution(p) BY <2>6 DEF EnterExecution
  <2>7. CASE Answer(p) BY <2>7 DEF Answer
  <2>8. CASE ExecuteCached(p) BY <2>8 DEF ExecuteCached
  <2>9. CASE ExecuteCancelled(p) BY <2>9 DEF ExecuteCancelled
  <2>10. CASE ExecuteStarts(p) BY <2>10 DEF ExecuteStarts
  <2>11. CASE \E outcome \in Outcome : ToolRuns(p, outcome) BY <2>11 DEF ToolRuns
  <2>12. CASE ToolReturns(p) BY <2>12 DEF ToolReturns, AfterTool, Cacheable
  <2>13. CASE ToolCancelled(p) BY <2>13 DEF ToolCancelled
  <2>14. CASE FallBack(p) BY <2>14 DEF FallBack
  <2>15. CASE UseReceipt(p) BY <2>15 DEF UseReceipt, ReceiptEvent
  <2>16. CASE Complete(p) BY <2>16 DEF Complete
  <2>17. CASE Fail(p) BY <2>17 DEF Fail
  <2> QED BY <1>1, <2>1, <2>2, <2>3, <2>4, <2>5, <2>6, <2>7, <2>8, <2>9, <2>10,
              <2>11, <2>12, <2>13, <2>14, <2>15, <2>16, <2>17 DEF Process
<1>2. ASSUME NEW u \in Task, Background(u) PROVE FALSE
  BY <1>2 DEF Background, Wake, Interpret, InterpretTerminal, InterpretFails
<1>3. ASSUME NEW u \in Task, Request(u) PROVE FALSE
  BY <1>3 DEF Request, Submit, Confirm, Cancel, CancelTask
<1>4. CASE \E c \in Call : CacheExpires(c)
  BY <1>4 DEF CacheExpires
<1>5. CASE Server
  BY <1>5 DEF Server, BeginShutdown, GraceExpires, Exit, Crash, ForgetMemory,
              CancelBackground, CancelTask, Start
<1>6. CASE UNCHANGED vars
  BY <1>6 DEF vars
<1> QED BY <1>1, <1>2, <1>3, <1>4, <1>5, <1>6 DEF Next

\* What a tool can come to, by the kind of its call.
LEMMA ChatOutcomes ==
    /\ OutcomesOf(ChatCall) = {"done", "error"}
    /\ \A c \in Call : "empty" \in OutcomesOf(c) => c # ChatCall
BY CallAssumption DEF OutcomesOf

\* No step makes a call take effect twice for one task, or lets one that has
\* taken effect be executed again.
LEMMA SpendingStep ==
    TypeOK /\ TypeOK' /\ Control /\ Spending /\ [Next]_vars => Spending'
<1> SUFFICES ASSUME TypeOK, TypeOK', Control, Spending, [Next]_vars PROVE Spending'
  OBVIOUS
<1> USE DEF rows, history, coroutine
<1>1. EffectOnce'
  <2>1. CASE UNCHANGED effects
    BY <2>1 DEF Spending, EffectOnce
  <2>2. ASSUME NEW p \in Coroutine, Strikes(p) PROVE EffectOnce'
    <3>1. effects[p[1]][job[p]] = 0
      BY <2>2, CallAssumption DEF Strikes, Spending, Unspent, Clean, TypeOK
    <3>2. \A t \in Task, c \in Call :
              effects'[t][c] = effects[t][c] \/ effects'[t][c] = 1
      BY <2>2, <3>1 DEF Strikes, CountEffect, TypeOK
    <3> QED BY <3>2 DEF Spending, EffectOnce
  <2> QED BY <2>1, <2>2, EffectSource
<1>2. ASSUME NEW t \in Task, state'[t] \in NotExecuted PROVE Clean(t)'
  <2>1. CASE state[t] \in NotExecuted
    <3>1. effects'[t] = effects[t]
      <4>1. ASSUME NEW p \in Coroutine, Strikes(p) PROVE p[1] # t
        BY <2>1, <4>1 DEF Strikes, Control, Placed, Fits, NotExecuted
      <4> QED BY <4>1, EffectSource DEF Strikes, CountEffect, TypeOK
    <3> QED BY <2>1, <3>1 DEF Spending, Clean
  <2>2. CASE state[t] \notin NotExecuted
    BY <1>2, <2>2, BackToUser DEF Spending, Unspent, Clean
  <2> QED BY <2>1, <2>2
<1>3. ASSUME NEW q \in Coroutine PROVE Unspent(q)'
  <2>0. q[1] \in Task
    BY DEF Coroutine
  <2>1. CASE Process(q)
    <3> DEFINE p == q
    <3>0. /\ p \in Coroutine /\ p[1] \in Task /\ ChatCall \in Call /\ Unspent(p)
          /\ ChatCall \notin KnowledgeCall
          /\ state[p[1]] \in NotExecuted => Clean(p[1])
          /\ Fits(p[2], pc[p], state[p[1]])
      BY <2>0, CallAssumption DEF Spending, Control, Placed
    <3> HIDE DEF p
    <3>00. Process(p) BY <2>1 DEF p
    <3> SUFFICES Unspent(p)' BY DEF p
    <3> USE <3>0, ChatOutcomes DEF TypeOK, Unspent, Clean
    <3>1. CASE AskMissing(p) BY <3>1 DEF AskMissing
    <3>2. CASE AnswerDrift(p) BY <3>2 DEF AnswerDrift
    <3>3. CASE Refuse(p) BY <3>3 DEF Refuse
    <3>4. CASE AskRisk(p) BY <3>4 DEF AskRisk
    <3>5. CASE RouterRefuses(p) BY <3>5 DEF RouterRefuses
    <3>6. CASE EnterExecution(p) BY <3>6 DEF EnterExecution, Fits, NotExecuted
    <3>7. CASE Answer(p) BY <3>7 DEF Answer
    <3>8. CASE ExecuteCached(p) BY <3>8 DEF ExecuteCached, Spending, Outcome, Success, OutcomesOf
    <3>9. CASE ExecuteCancelled(p) BY <3>9 DEF ExecuteCancelled
    <3>10. CASE ExecuteStarts(p) BY <3>10 DEF ExecuteStarts, Outcome, Success
    <3>11. CASE \E outcome \in Outcome : ToolRuns(p, outcome)
      BY <3>11 DEF ToolRuns, TakesEffect, CountEffect, OutcomesOf, Outcome, Success
    <3>12. CASE ToolReturns(p) BY <3>12 DEF ToolReturns, AfterTool, Cacheable, Outcome, Success
    <3>13. CASE ToolCancelled(p) BY <3>13 DEF ToolCancelled
    <3>14. CASE FallBack(p) BY <3>14 DEF FallBack
    <3>15. CASE UseReceipt(p) BY <3>15 DEF UseReceipt
    <3>16. CASE Complete(p) BY <3>16 DEF Complete
    <3>17. CASE Fail(p) BY <3>17 DEF Fail
    <3> QED BY <3>00, <3>1, <3>2, <3>3, <3>4, <3>5, <3>6, <3>7, <3>8, <3>9, <3>10,
                <3>11, <3>12, <3>13, <3>14, <3>15, <3>16, <3>17 DEF Process
  <2>2. CASE ~Process(q) /\ pc'[q] \in {"execute", "tool", "receipt"}
    <3>1. Stands(q)
      BY <2>2, ExecutingStands
    <3>2. effects'[q[1]] = effects[q[1]]
      <4>1. ASSUME NEW p \in Coroutine, Strikes(p) PROVE p[1] # q[1]
        BY <2>2, <3>1, <4>1 DEF Strikes, Stands, Control, SingleRunner
      <4> QED BY <2>0, <4>1, EffectSource DEF Strikes, CountEffect, TypeOK, Coroutine
    <3> QED BY <3>1, <3>2 DEF Stands, Spending, Unspent, Clean
  <2>3. CASE pc'[q] \notin {"execute", "tool", "receipt"}
    BY <2>3 DEF Unspent
  <2> QED BY <2>1, <2>2, <2>3
<1>4. ASSUME NEW c \in Call, cache'[c] # "none" PROVE cache'[c] \in OutcomesOf(c)
  <2> SUFFICES cache'[c] = cache[c] \/ \E p \in Coroutine :
                   /\ c = job[p] /\ cache'[c] = tool[p]
                   /\ pc[p] = "tool" /\ tool[p] \in Outcome
    BY <1>4 DEF Spending, Unspent
  <2>1. ASSUME NEW p \in Coroutine, Process(p)
        PROVE  \/ cache'[c] = cache[c]
               \/ c = job[p] /\ cache'[c] = tool[p] /\ pc[p] = "tool" /\ tool[p] \in Outcome
    <3> USE DEF TypeOK
    <3>1. CASE AskMissing(p) BY <3>1 DEF AskMissing
    <3>2. CASE AnswerDrift(p) BY <3>2 DEF AnswerDrift
    <3>3. CASE Refuse(p) BY <3>3 DEF Refuse
    <3>4. CASE AskRisk(p) BY <3>4 DEF AskRisk
    <3>5. CASE RouterRefuses(p) BY <3>5 DEF RouterRefuses
    <3>6. CASE EnterExecution(p) BY <3>6 DEF EnterExecution
    <3>7. CASE Answer(p) BY <3>7 DEF Answer
    <3>8. CASE ExecuteCached(p) BY <3>8 DEF ExecuteCached
    <3>9. CASE ExecuteCancelled(p) BY <3>9 DEF ExecuteCancelled
    <3>10. CASE ExecuteStarts(p) BY <3>10 DEF ExecuteStarts
    <3>11. CASE \E outcome \in Outcome : ToolRuns(p, outcome) BY <3>11 DEF ToolRuns
    <3>12. CASE ToolReturns(p) BY <3>12 DEF ToolReturns, AfterTool, Cacheable
    <3>13. CASE ToolCancelled(p) BY <3>13 DEF ToolCancelled
    <3>14. CASE FallBack(p) BY <3>14 DEF FallBack
    <3>15. CASE UseReceipt(p) BY <3>15 DEF UseReceipt
    <3>16. CASE Complete(p) BY <3>16 DEF Complete
    <3>17. CASE Fail(p) BY <3>17 DEF Fail
    <3> QED BY <2>1, <3>1, <3>2, <3>3, <3>4, <3>5, <3>6, <3>7, <3>8, <3>9, <3>10,
                <3>11, <3>12, <3>13, <3>14, <3>15, <3>16, <3>17 DEF Process
  <2>2. ASSUME NEW t \in Task, Background(t) \/ Request(t) PROVE cache' = cache
    BY <2>2 DEF Background, Wake, Interpret, InterpretTerminal, InterpretFails,
                Request, Submit, Confirm, Cancel
  <2>3. CASE \E d \in Call : CacheExpires(d)
    BY <1>4, <2>3 DEF CacheExpires, TypeOK
  <2>4. CASE Server
    BY <1>4, <2>4 DEF Server, BeginShutdown, GraceExpires, Exit, Crash, ForgetMemory,
                      CancelBackground, Start
  <2>5. CASE UNCHANGED vars
    BY <2>5 DEF vars
  <2> QED BY <2>1, <2>2, <2>3, <2>4, <2>5 DEF Next
<1> QED BY <1>1, <1>2, <1>3, <1>4 DEF Spending

\* One task makes one call take effect at most once, however it is confirmed,
\* cancelled, timed out, killed and restarted.
THEOREM EffectsHappenOnce == Spec => []EffectOnce
<1>1. Init => Spending
  BY DEF Init, Spending, EffectOnce, Clean, Unspent
<1>2. Spending => EffectOnce
  BY DEF Spending
<1> QED BY <1>1, <1>2, ControlHolds, SpendingStep, PTL DEF Spec
------------------------------------------------------------------------------
(* Backing: what is delivered was done.                                     *)

\* What has been done stays done.
LEMMA PerformedStays ==
    ASSUME TypeOK, [Next]_vars, NEW c \in Call, Performed(c)
    PROVE  Performed(c)'
<1>1. PICK u \in Task : effects[u][c] > 0
  BY DEF Performed
<1>2. effects'[u][c] > 0
  <2>1. ASSUME NEW p \in Coroutine, Strikes(p) PROVE effects'[u][c] > 0
    BY <1>1, <2>1 DEF Strikes, CountEffect, TypeOK
  <2> QED BY <1>1, <2>1, EffectSource
<1> QED BY <1>2 DEF Performed

\* The stored call of a row changes only while nothing runs for it, and then the
\* row is being validated.
LEMMA CallStays ==
    ASSUME TypeOK, Control, [Next]_vars, NEW t \in Task, call'[t] # call[t]
    PROVE  /\ state'[t] = "validating"
           /\ \A q \in Coroutine : q[1] = t /\ pc'[q] # "idle" =>
                  pc'[q] = "continue" /\ job'[q] = call'[t]
<1> USE DEF rows, history, coroutine, TypeOK, Transition, Edge, Live
<1>1. ASSUME NEW p \in Coroutine, Process(p) PROVE FALSE
  BY <1>1, OthersStand
<1>2. ASSUME NEW u \in Task, Background(u)
      PROVE  /\ state'[t] = "validating"
             /\ \A q \in Coroutine : q[1] = t /\ pc'[q] # "idle" =>
                    pc'[q] = "continue" /\ job'[q] = call'[t]
  <2>1. PICK c \in Call, m \in BOOLEAN : Interpret(u, c, m)
    BY <1>2 DEF Background, Wake, InterpretTerminal, InterpretFails
  <2> DEFINE p == <<u, "process">>
  <2>2. p \in Coroutine /\ u = t /\ p[1] = u
    BY <2>1 DEF Interpret, Coroutine, Runner
  <2>3. pc[p] = "interpreting"
    BY <2>1 DEF Interpret
  <2>4. \A q \in Coroutine : q[1] = t /\ q # p => pc[q] = "idle"
    BY <2>2, <2>3 DEF Control, SingleRunner
  <2>5. /\ pc' = [pc EXCEPT ![p] = "continue"] /\ job' = [job EXCEPT ![p] = c]
        /\ call' = [call EXCEPT ![u] = c] /\ state'[u] = "validating"
    BY <2>1 DEF Interpret
  <2> HIDE DEF p
  <2> QED BY <2>2, <2>4, <2>5
<1>3. ASSUME NEW u \in Task, Request(u)
      PROVE  /\ state'[t] = "validating"
             /\ \A q \in Coroutine : q[1] = t /\ pc'[q] # "idle" =>
                    pc'[q] = "continue" /\ job'[q] = call'[t]
  <2>1. PICK r \in Confirmer, c \in Call : Confirm(u, r, c)
    BY <1>3 DEF Request, Submit, Cancel
  <2> DEFINE p == <<u, r>>
  <2>2. p \in Coroutine /\ u = t /\ p[1] = u
    BY <2>1 DEF Confirm, Coroutine, Runner
  <2>3. state[u] = "awaiting_confirmation" /\ LoopFree
    BY <2>1 DEF Confirm
  <2>4. \A q \in Coroutine : q[1] = t => pc[q] = "idle"
    BY <2>2, <2>3 DEF Control, Placed, Fits, LoopFree, Suspended, Holding
  <2>5. /\ pc' = [pc EXCEPT ![p] = "continue"] /\ job' = [job EXCEPT ![p] = c]
        /\ call' = [call EXCEPT ![u] = c] /\ state'[u] = "validating"
    BY <2>1 DEF Confirm
  <2> HIDE DEF p
  <2> QED BY <2>2, <2>4, <2>5
<1>4. CASE \E c \in Call : CacheExpires(c)
  BY <1>4 DEF CacheExpires
<1>5. CASE Server
  BY <1>5 DEF Server, BeginShutdown, GraceExpires, Exit, Crash, CancelBackground, Start
<1>6. CASE UNCHANGED vars
  BY <1>6 DEF vars
<1> QED BY <1>1, <1>2, <1>3, <1>4, <1>5, <1>6 DEF Next

\* A receipt comes to a row that delivers only from a coroutine that holds one.
LEMMA DeliverySource ==
    ASSUME TypeOK, Control, [Next]_vars, NEW t \in Task,
           state'[t] \in {"delivering", "completed"}, result'[t] = "receipt",
           ~(state[t] \in {"delivering", "completed"} /\ result[t] = "receipt")
    PROVE  \E p \in Coroutine : /\ p[1] = t /\ pc[p] = "receipt"
                                /\ tool[p] \notin {"needs", "clarify"}
<1> USE DEF rows, history, coroutine, TypeOK, Transition, Edge, Live
<1>1. ASSUME NEW p \in Coroutine, Process(p)
      PROVE  p[1] = t /\ pc[p] = "receipt" /\ tool[p] \notin {"needs", "clarify"}
  <2>0. p[1] = t /\ Fits(p[2], pc[p], state[t])
    BY <1>1, OthersStand DEF Control, Placed
  <2> USE <2>0 DEF Fits
  <2>1. CASE AskMissing(p) BY <2>1 DEF AskMissing
  <2>2. CASE AnswerDrift(p) BY <2>2 DEF AnswerDrift
  <2>3. CASE Refuse(p) BY <2>3 DEF Refuse
  <2>4. CASE AskRisk(p) BY <2>4 DEF AskRisk
  <2>5. CASE RouterRefuses(p) BY <2>5 DEF RouterRefuses
  <2>6. CASE EnterExecution(p) BY <2>6 DEF EnterExecution
  <2>7. CASE Answer(p) BY <2>7 DEF Answer
  <2>8. CASE ExecuteCached(p) BY <2>8 DEF ExecuteCached
  <2>9. CASE ExecuteCancelled(p) BY <2>9 DEF ExecuteCancelled
  <2>10. CASE ExecuteStarts(p) BY <2>10 DEF ExecuteStarts
  <2>11. CASE \E outcome \in Outcome : ToolRuns(p, outcome) BY <2>11 DEF ToolRuns
  <2>12. CASE ToolReturns(p) BY <2>12 DEF ToolReturns, AfterTool, Cacheable
  <2>13. CASE ToolCancelled(p) BY <2>13 DEF ToolCancelled
  <2>14. CASE FallBack(p) BY <2>14 DEF FallBack
  <2>15. CASE UseReceipt(p) BY <2>15 DEF UseReceipt, ReceiptEvent, ReceiptResult
  <2>16. CASE Complete(p) BY <2>16 DEF Complete
  <2>17. CASE Fail(p) BY <2>17 DEF Fail
  <2> QED BY <1>1, <2>1, <2>2, <2>3, <2>4, <2>5, <2>6, <2>7, <2>8, <2>9, <2>10,
              <2>11, <2>12, <2>13, <2>14, <2>15, <2>16, <2>17 DEF Process
<1>2. ASSUME NEW u \in Task, Background(u) PROVE FALSE
  BY <1>2 DEF Background, Wake, Interpret, InterpretTerminal, InterpretFails
<1>3. ASSUME NEW u \in Task, Request(u) PROVE FALSE
  BY <1>3 DEF Request, Submit, Confirm, Cancel, CancelTask
<1>4. CASE \E c \in Call : CacheExpires(c)
  BY <1>4 DEF CacheExpires
<1>5. CASE Server
  BY <1>5 DEF Server, BeginShutdown, GraceExpires, Exit, Crash, ForgetMemory,
              CancelBackground, CancelTask, Start
<1>6. CASE UNCHANGED vars
  BY <1>6 DEF vars
<1> QED BY <1>1, <1>2, <1>3, <1>4, <1>5, <1>6 DEF Next

\* No step delivers, caches or hands on a receipt for something nobody did.
LEMMA BackingStep ==
    /\ TypeOK /\ TypeOK' /\ Control /\ Spending /\ Backing
    /\ [Next]_vars
    => Backing'
<1> SUFFICES ASSUME TypeOK, TypeOK', Control, Spending, Backing, [Next]_vars PROVE Backing'
  OBVIOUS
<1> USE DEF rows, history, coroutine
<1>0. \A c \in Call : Performed(c) => Performed(c)'
  BY PerformedStays
<1>1. ASSUME NEW t \in Task, state'[t] \in {"delivering", "completed"},
             result'[t] = "receipt"
      PROVE  /\ call'[t] \in Call
             /\ \E u \in Task :
                    \/ effects'[u][call'[t]] > 0
                    \/ (call'[t] \in KnowledgeCall /\ effects'[u][ChatCall] > 0)
  <2> DEFINE After(c) == \E u \in Task : effects'[u][c] > 0
  <2>0. call'[t] = call[t] /\ ChatCall \in Call /\ KnowledgeCall \subseteq Call
    BY <1>1, CallStays, CallAssumption
  <2>00. \A c \in Call : Performed(c) => After(c)
    BY <1>0 DEF Performed
  <2> SUFFICES /\ call[t] \in Call
               /\ After(call[t]) \/ (call[t] \in KnowledgeCall /\ After(ChatCall))
    BY <2>0
  <2>1. CASE state[t] \in {"delivering", "completed"} /\ result[t] = "receipt"
    <3>1. /\ call[t] \in Call
          /\ Performed(call[t]) \/ (call[t] \in KnowledgeCall /\ Performed(ChatCall))
      BY <2>1 DEF Backing, DeliversWhatWasDone, Performed
    <3> HIDE DEF After
    <3> QED BY <2>0, <2>00, <3>1
  <2>2. CASE ~(state[t] \in {"delivering", "completed"} /\ result[t] = "receipt")
    <3>1. PICK p \in Coroutine : /\ p[1] = t /\ pc[p] = "receipt"
                                 /\ tool[p] \notin {"needs", "clarify"}
      BY <1>1, <2>2, DeliverySource
    <3>2. job[p] \in Call /\ Performed(job[p])
      BY <3>1 DEF Backing, Backed, Success, TypeOK
    <3>3. job[p] = call[t] \/ (job[p] = ChatCall /\ call[t] \in KnowledgeCall)
      BY <3>1 DEF Backing, Backed
    <3> HIDE DEF After
    <3> QED BY <2>0, <2>00, <3>2, <3>3
  <2> QED BY <2>1, <2>2
<1>2. ASSUME NEW c \in Call, cache'[c] \in {"done", "empty"} PROVE Performed(c)'
  <2> SUFFICES ASSUME ~Performed(c) PROVE Performed(c)'
    BY <1>0
  <2>0. cache[c] \notin {"done", "empty"}
    BY DEF Backing
  <2>1. ASSUME NEW p \in Coroutine, Process(p) PROVE Performed(c)'
    <3> USE <1>2, <2>0 DEF TypeOK
    <3>1. CASE AskMissing(p) BY <3>1 DEF AskMissing
    <3>2. CASE AnswerDrift(p) BY <3>2 DEF AnswerDrift
    <3>3. CASE Refuse(p) BY <3>3 DEF Refuse
    <3>4. CASE AskRisk(p) BY <3>4 DEF AskRisk
    <3>5. CASE RouterRefuses(p) BY <3>5 DEF RouterRefuses
    <3>6. CASE EnterExecution(p) BY <3>6 DEF EnterExecution
    <3>7. CASE Answer(p) BY <3>7 DEF Answer
    <3>8. CASE ExecuteCached(p) BY <3>8 DEF ExecuteCached
    <3>9. CASE ExecuteCancelled(p) BY <3>9 DEF ExecuteCancelled
    <3>10. CASE ExecuteStarts(p) BY <3>10 DEF ExecuteStarts
    <3>11. CASE \E outcome \in Outcome : ToolRuns(p, outcome) BY <3>11 DEF ToolRuns
    <3>12. CASE ToolReturns(p)
      <4>1. c = job[p] /\ tool[p] \in {"done", "empty"} /\ pc[p] = "tool"
        BY <3>12 DEF ToolReturns, AfterTool, Cacheable
      <4> QED BY <1>0, <4>1 DEF Backing, Backed
    <3>13. CASE ToolCancelled(p) BY <3>13 DEF ToolCancelled
    <3>14. CASE FallBack(p) BY <3>14 DEF FallBack
    <3>15. CASE UseReceipt(p) BY <3>15 DEF UseReceipt
    <3>16. CASE Complete(p) BY <3>16 DEF Complete
    <3>17. CASE Fail(p) BY <3>17 DEF Fail
    <3> QED BY <2>1, <3>1, <3>2, <3>3, <3>4, <3>5, <3>6, <3>7, <3>8, <3>9, <3>10,
                <3>11, <3>12, <3>13, <3>14, <3>15, <3>16, <3>17 DEF Process
  <2>2. ASSUME NEW t \in Task, Background(t) \/ Request(t) PROVE FALSE
    BY <1>2, <2>0, <2>2 DEF Background, Wake, Interpret, InterpretTerminal, InterpretFails,
                Request, Submit, Confirm, Cancel
  <2>3. CASE \E d \in Call : CacheExpires(d)
    BY <1>2, <2>0, <2>3 DEF CacheExpires, TypeOK
  <2>4. CASE Server
    BY <1>2, <2>0, <2>4 DEF Server, BeginShutdown, GraceExpires, Exit, Crash, ForgetMemory,
                            CancelBackground, Start
  <2>5. CASE UNCHANGED vars
    BY <1>2, <2>0, <2>5 DEF vars
  <2> QED BY <2>1, <2>2, <2>3, <2>4, <2>5 DEF Next
<1>3. ASSUME NEW q \in Coroutine PROVE Backed(q)'
  <2>0. q[1] \in Task /\ (pc[q] \in {"continue", "execute", "tool", "receipt"} => job[q] \in Call)
    BY DEF Coroutine, TypeOK
  <2>1. CASE call'[q[1]] # call[q[1]]
    <3>1. pc'[q] \in {"idle", "continue"} /\ (pc'[q] = "continue" => job'[q] = call'[q[1]])
      BY <2>0, <2>1, CallStays
    <3> QED BY <3>1 DEF Backed
  <2>2. CASE call'[q[1]] = call[q[1]] /\ Stands(q)
    BY <1>0, <2>0, <2>2 DEF Stands, Backing, Backed
  <2>3. CASE call'[q[1]] = call[q[1]] /\ Process(q)
    <3> DEFINE p == q
    <3>0. /\ p \in Coroutine /\ Backed(p) /\ Unspent(p) /\ call' = call
          /\ ChatCall \notin KnowledgeCall
      BY <2>3, OthersStand, CallAssumption DEF Backing, Spending
    <3>00. Process(p) /\ p[1] \in Task
           /\ (pc[p] \in {"continue", "execute", "tool", "receipt"} => job[p] \in Call)
      BY <2>0, <2>3 DEF p
    <3> HIDE DEF p
    <3> SUFFICES Backed(p)' BY DEF p
    <3> USE <1>0, <3>0, <3>00 DEF TypeOK, Backed
    <3>1. CASE AskMissing(p) BY <3>1 DEF AskMissing
    <3>2. CASE AnswerDrift(p) BY <3>2 DEF AnswerDrift
    <3>3. CASE Refuse(p) BY <3>3 DEF Refuse
    <3>4. CASE AskRisk(p) BY <3>4 DEF AskRisk
    <3>5. CASE RouterRefuses(p) BY <3>5 DEF RouterRefuses
    <3>6. CASE EnterExecution(p) BY <3>6 DEF EnterExecution
    <3>7. CASE Answer(p) BY <3>7 DEF Answer
    <3>8. CASE ExecuteCached(p) BY <3>8 DEF ExecuteCached, Backing
    <3>9. CASE ExecuteCancelled(p) BY <3>9 DEF ExecuteCancelled
    <3>10. CASE ExecuteStarts(p) BY <3>10 DEF ExecuteStarts
    <3>11. CASE \E outcome \in Outcome : ToolRuns(p, outcome)
      <4> PICK outcome \in Outcome : ToolRuns(p, outcome) BY <3>11
      <4>1. outcome \in {"done", "empty"} => Performed(job[p])'
        BY DEF ToolRuns, TakesEffect, CountEffect, Performed
      <4> QED BY <4>1 DEF ToolRuns
    <3>12. CASE ToolReturns(p) BY <3>12 DEF ToolReturns, AfterTool, Cacheable, Success, Outcome
    <3>13. CASE ToolCancelled(p) BY <3>13 DEF ToolCancelled
    <3>14. CASE FallBack(p) BY <3>14 DEF FallBack, Unspent, OutcomesOf
    <3>15. CASE UseReceipt(p) BY <3>15 DEF UseReceipt
    <3>16. CASE Complete(p) BY <3>16 DEF Complete
    <3>17. CASE Fail(p) BY <3>17 DEF Fail
    <3> QED BY <3>00, <3>1, <3>2, <3>3, <3>4, <3>5, <3>6, <3>7, <3>8, <3>9, <3>10,
                <3>11, <3>12, <3>13, <3>14, <3>15, <3>16, <3>17 DEF Process
  <2>4. CASE call'[q[1]] = call[q[1]] /\ ~Stands(q) /\ ~Process(q)
    <3>1. pc'[q] \notin {"execute", "tool", "receipt"}
      BY <2>4, ExecutingStands
    <3>2. pc'[q] = "continue" => job'[q] = call'[q[1]]
      <4> USE DEF TypeOK
      <4>1. ASSUME NEW p \in Coroutine, Process(p) PROVE FALSE
        BY <2>4, <4>1, OthersStand
      <4>2. ASSUME NEW t \in Task, Background(t), pc'[q] = "continue"
            PROVE  job'[q] = call'[q[1]]
        <5>1. PICK c \in Call, m \in BOOLEAN : Interpret(t, c, m)
          BY <2>4, <4>2 DEF Background, Wake, InterpretTerminal, InterpretFails, Stands
        <5>2. q = <<t, "process">>
          BY <2>4, <5>1 DEF Interpret, Stands
        <5> QED BY <5>1, <5>2 DEF Interpret
      <4>3. ASSUME NEW t \in Task, Request(t), pc'[q] = "continue"
            PROVE  job'[q] = call'[q[1]]
        <5>1. PICK r \in Confirmer, c \in Call : Confirm(t, r, c)
          BY <2>4, <4>3 DEF Request, Submit, Cancel, Stands
        <5>2. q = <<t, r>>
          BY <2>4, <5>1 DEF Confirm, Stands
        <5> QED BY <5>1, <5>2 DEF Confirm
      <4>4. CASE \E c \in Call : CacheExpires(c)
        BY <2>4, <4>4 DEF CacheExpires, Stands
      <4>5. CASE Server
        BY <2>4, <4>5 DEF Server, BeginShutdown, GraceExpires, Exit, Crash, ForgetMemory,
                    CancelBackground, Start, Stands
      <4>6. CASE UNCHANGED vars
        BY <2>4, <4>6 DEF vars, Stands
      <4> QED BY <4>1, <4>2, <4>3, <4>4, <4>5, <4>6 DEF Next
    <3> QED BY <3>1, <3>2 DEF Backed
  <2> QED BY <2>1, <2>2, <2>3, <2>4
<1>4. DeliversWhatWasDone'
  BY <1>1 DEF DeliversWhatWasDone, Performed
<1> QED BY <1>1, <1>2, <1>3, <1>4 DEF Backing

\* A task that delivers a receipt delivers something a tool has really done.
THEOREM DeliveriesWereDone == Spec => []DeliversWhatWasDone
<1>1. Init => Spending /\ Backing
  BY DEF Init, Spending, EffectOnce, Clean, Unspent, Backing, DeliversWhatWasDone, Backed
<1>2. Backing => DeliversWhatWasDone
  BY DEF Backing
<1> QED BY <1>1, <1>2, ControlHolds, SpendingStep, BackingStep, PTL DEF Spec
------------------------------------------------------------------------------
\* The invariant is inductive: the pieces above carry each other.
THEOREM InductiveInvariant == Spec => []IInv
<1>1. Init => Spending /\ Clearance /\ Backing
  BY DEF Init, Spending, EffectOnce, Clean, Unspent, Clearance, EffectsPermitted, Cleared,
         Backing, DeliversWhatWasDone, Backed
<1> QED BY <1>1, ControlHolds, SpendingStep, ClearanceStep, BackingStep, PTL DEF Spec, IInv
==============================================================================
