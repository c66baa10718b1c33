------------------------------- MODULE Toolbox -------------------------------
(***************************************************************************)
(* The tool executor with two of the tools it runs, the to-do list and the *)
(* knowledge base, next to the admin page's reindex and to whoever edits   *)
(* the documents.  The tools' code has no await: it has the event loop     *)
(* until it returns, and only the reindex thread runs beside it.           *)
(***************************************************************************)
EXTENDS ToolExecutor, KnowledgeIndex, TodoBook

\* A receipt tells what it is about by its first component.
ASSUME ToolboxAssumption == "ask" \notin Mutation /\ Doc \cap (Call \cup {"nothing"}) = {}

VARIABLE replaced  \* since when a newer version of a document is on disk (history)

tools == <<knowledgeVars, todoVars>>
toolboxVars == <<executorVars, tools, replaced>>

ToolboxInit ==
    /\ ExecutorInit /\ KnowledgeInit /\ TodoInit
    /\ replaced = [d \in Doc |-> [v \in 1..MaxVersion |-> Never]]

NoToolRuns == step["tool"] = "idle"

\* The executor's own steps.
ExecutorStep ==
    /\ NoToolRuns
    /\ \E w \in Worker :
        \/ \E c \in Call : Execute(w, c) \/ ExecuteFromCache(w, c)
        \/ Store(w) \/ RetryOrRaise(w)
        \/ Cancelled(w)
    /\ UNCHANGED <<tools, replaced>>

Mutates(w, c, effect) == Runs(w, c) /\ effect /\ ToolEnds(w, <<c, 1>>)
Misses(w, c) == Runs(w, c) /\ ReadTodos /\ ToolEnds(w, Nothing)

TodoStep(w) ==
    /\ NoToolRuns
    /\ \/ Mutates(w, "create", CreateTodo)
       \/ \E t \in Todo :
            \/ Mutates(w, "complete", t = 1 /\ CompleteTodo(t))
            \/ Mutates(w, "reopen", t = 1 /\ UpdateTodo(t, "pending"))
            \/ Mutates(w, "delete", t = 1 /\ DeleteTodo(t))
       \/ \E c \in {"complete", "reopen", "delete"} : todo[1] = "none" /\ Misses(w, c)
       \/ Misses(w, "todos")
       \/ Runs(w, "create") /\ ReadTodos /\ ToolRaises(w)
    /\ UNCHANGED <<knowledgeVars, replaced>>

AskStep(w) ==
    /\ Runs(w, "ask")
    /\ \/ Lists("tool") /\ UNCHANGED <<executorVars, reindexes>>
       \/ Ingest("tool") /\ UNCHANGED executorVars
       \/ /\ ToolIndexed /\ ToolLeaves
          /\ \E a \in Found \cup {Nothing} : ToolEnds(w, a)
       \/ step["tool"] = "failed" /\ ToolLeaves /\ ToolRaises(w)
    /\ UNCHANGED <<todoVars, replaced>>

AdminStep ==
    /\ Reindex \/ Ingest("admin") \/ ReindexEnds
    /\ UNCHANGED <<executorVars, todoVars, replaced>>

EditStep(d) ==
    /\ \/ /\ WriteFile(d)
          /\ replaced' = [replaced EXCEPT ![d] =
                [v \in 1..MaxVersion |-> IF v <= written[d] /\ @[v] = Never THEN monotonic ELSE @[v]]]
       \/ /\ RemoveFile(d)
          /\ replaced' = [replaced EXCEPT ![d] = [v \in 1..MaxVersion |-> Never]]
    /\ UNCHANGED <<executorVars, todoVars>>

TimePasses ==
    /\ \A i \in Indexer : step[i] = "idle"
    /\ Pass
    /\ UNCHANGED <<tools, replaced>>

ToolboxCrash ==
    /\ ExecutorCrash /\ KnowledgeCrash
    /\ UNCHANGED <<todoVars, replaced>>

ToolboxNext ==
    \/ ExecutorStep \/ AdminStep \/ TimePasses \/ ToolboxCrash
    \/ \E w \in Worker : TodoStep(w) \/ AskStep(w)
    \/ \E d \in Doc : EditStep(d)

ToolboxSpec == ToolboxInit /\ [][ToolboxNext]_toolboxVars

------------------------------------------------------------------------------
(* Properties.                                                              *)

ToolboxTypeOK == ExecutorTypeOK /\ KnowledgeTypeOK /\ TodoTypeOK

MutatesBy(w) ==
    /\ doing[w] \in Mutation
    /\ phase[w] = "running" /\ phase'[w] = "ended" /\ value'[w] = <<doing[w], 1>>

\* The same mutation asked again within the idempotency window changes nothing,
\* in whatever coroutine it is asked: unless the first call was still under way
\* when this one started, was cancelled after its effect, or died with the process.
NoRepeatInWindow ==
    [][\A w \in Worker : MutatesBy(w) =>
        LET c == doing[w] IN
        lastDone[c] = Never \/ monotonic >= lastDone[c] + MutationTtl \/ overlapped[w]]_toolboxVars

\* "A short window still absorbs double-click storms" (tool_executor.py): also when
\* the second call was under way before the first one's receipt was stored.
DoubleClicksAbsorbed ==
    [][\A w \in Worker : MutatesBy(w) =>
        LET c == doing[w] IN
        lastDone[c] = Never \/ monotonic >= lastDone[c] + MutationTtl]_toolboxVars

\* No receipt in the cache shows a version of a document since whose replacement
\* the cache's lifetime has passed: the index notices every change, also one that
\* falls between two steps of an ingestion, and a failed one or a crash leaves it
\* fit to.  Overlapping ingestions are excepted, see IndexFollowsFiles; and a
\* document that was removed stays searchable until it is written again.
AnswersAreRecent ==
    \A c \in Call : Live(c) =>
        LET answer == cached[c].value IN
        answer[1] \in Doc => raced \/ monotonic < replaced[answer[1]][answer[2]] + Ttl

\* An ID stands for one to-do for good, so that no deletion reaches another row
\* than the one the user was asked about (what that row says may have been updated
\* since); and completed_at is set exactly on completed rows, whatever sequence of
\* updates led there.
TodosAreSound ==
    \A t \in Todo : issued[t] <= 1 /\ (stamped[t] <=> todo[t] = "completed")

\* "The admin reindex route opens a second connection" (vector_store.py), so that
\* an indexed modification time vouches for the indexed text.
IndexFollowsFiles ==
    (\A i \in Indexer : step[i] = "idle") =>
        \A d \in Doc : file[d] > 0 /\ row[d].mtime = file[d] => row[d].chunks = file[d]
===============================================================================
