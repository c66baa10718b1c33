---------------------------- MODULE ToolboxProofs ----------------------------
(***************************************************************************)
(* The to-do rows are sound, the idempotency window is kept, and an answer *)
(* from the documents is as recent as its receipt: proofs about Toolbox    *)
(* for every number of workers, calls, to-dos and documents.               *)
(***************************************************************************)
EXTENDS Toolbox, TLAPS

\* An ID above the last one was not given to any row yet.
Fresh == \A t \in Todo : t > lastTodo => issued[t] = 0

TodoInv ==
    /\ TodoTypeOK
    /\ Fresh
    /\ TodosAreSound

LEMMA TodoInitInv == ASSUME TodoInit PROVE TodoInv
BY TodoAssumption DEF TodoInit, TodoInv, TodoTypeOK, Fresh, TodosAreSound, Todo, TodoStatus

LEMMA CreateInv == ASSUME TodoInv, CreateTodo PROVE TodoInv'
<1>1. /\ lastTodo \in 0..MaxTodo /\ lastTodo' = lastTodo + 1 /\ lastTodo' \in Todo
      /\ todo' = [todo EXCEPT ![lastTodo + 1] = "pending"]
      /\ stamped' = [stamped EXCEPT ![lastTodo + 1] = FALSE]
      /\ issued' = [issued EXCEPT ![lastTodo + 1] = @ + 1]
  BY DEF CreateTodo, NextId, TodoInv, TodoTypeOK
<1>2. issued[lastTodo + 1] = 0
  BY <1>1 DEF TodoInv, Fresh
<1>3. TodoTypeOK'
  BY <1>1, TodoAssumption DEF TodoInv, TodoTypeOK, Todo, TodoStatus
<1>4. Fresh'
  BY <1>1 DEF TodoInv, TodoTypeOK, Fresh, Todo
<1>5. ASSUME NEW t \in Todo PROVE issued'[t] <= 1 /\ (stamped'[t] <=> todo'[t] = "completed")
  <2>1. CASE t = lastTodo + 1
    BY <1>1, <1>2, <2>1 DEF TodoInv, TodoTypeOK
  <2>2. CASE t # lastTodo + 1
    BY <1>1, <2>2 DEF TodoInv, TodoTypeOK, TodosAreSound
  <2>. QED
    BY <2>1, <2>2
<1>. QED
  BY <1>3, <1>4, <1>5 DEF TodoInv, TodosAreSound

LEMMA UpdateInv ==
    ASSUME TodoInv, NEW t \in Todo, NEW s, UpdateTodo(t, s) PROVE TodoInv'
<1>1. /\ todo' = [todo EXCEPT ![t] = s] /\ stamped' = [stamped EXCEPT ![t] = (s = "completed")]
      /\ s \in TodoStatus /\ UNCHANGED <<lastTodo, issued>>
  BY DEF UpdateTodo
<1>2. TodoTypeOK'
  BY <1>1 DEF TodoInv, TodoTypeOK
<1>3. \A u \in Todo : stamped'[u] <=> todo'[u] = "completed"
  BY <1>1 DEF TodoInv, TodoTypeOK, TodosAreSound
<1>. QED
  BY <1>1, <1>2, <1>3 DEF TodoInv, Fresh, TodosAreSound

LEMMA DeleteInv == ASSUME TodoInv, NEW t \in Todo, DeleteTodo(t) PROVE TodoInv'
<1>1. /\ todo' = [todo EXCEPT ![t] = "none"] /\ stamped' = [stamped EXCEPT ![t] = FALSE]
      /\ UNCHANGED <<lastTodo, issued>>
  BY DEF DeleteTodo
<1>2. TodoTypeOK'
  BY <1>1 DEF TodoInv, TodoTypeOK
<1>3. \A u \in Todo : stamped'[u] <=> todo'[u] = "completed"
  BY <1>1 DEF TodoInv, TodoTypeOK, TodosAreSound
<1>. QED
  BY <1>1, <1>2, <1>3 DEF TodoInv, Fresh, TodosAreSound

LEMMA SameBook == ASSUME TodoInv, UNCHANGED todoVars PROVE TodoInv'
BY DEF TodoInv, TodoTypeOK, Fresh, TodosAreSound, todoVars

\* A tool call changes the table by one of its transactions, or not at all; what
\* else runs beside it never does.
LEMMA ToolboxStep ==
    ASSUME [ToolboxNext]_toolboxVars
    PROVE  \/ UNCHANGED todoVars
           \/ CreateTodo
           \/ \E t \in Todo : (\E s \in TodoStatus : UpdateTodo(t, s)) \/ DeleteTodo(t)
<1>1. CASE UNCHANGED toolboxVars
  BY <1>1 DEF toolboxVars, tools
<1>2. CASE ExecutorStep \/ AdminStep \/ TimePasses \/ ToolboxCrash
  BY <1>2 DEF ExecutorStep, AdminStep, TimePasses, ToolboxCrash, tools
<1>3. ASSUME NEW w \in Worker, TodoStep(w)
      PROVE  \/ UNCHANGED todoVars
             \/ CreateTodo
             \/ \E t \in Todo : (\E s \in TodoStatus : UpdateTodo(t, s)) \/ DeleteTodo(t)
  <2>1. "pending" \in TodoStatus /\ "completed" \in TodoStatus
    BY DEF TodoStatus
  <2>. QED
    BY <1>3, <2>1 DEF TodoStep, Mutates, Misses, ReadTodos, CompleteTodo
<1>4. ASSUME NEW w \in Worker, AskStep(w) PROVE UNCHANGED todoVars
  BY <1>4 DEF AskStep
<1>5. ASSUME NEW d \in Doc, EditStep(d) PROVE UNCHANGED todoVars
  BY <1>5 DEF EditStep
<1>. QED
  BY <1>1, <1>2, <1>3, <1>4, <1>5 DEF ToolboxNext

\* An ID stands for one to-do for good, and completed_at is set exactly on the
\* completed rows: whatever calls, retries, crashes and cancellations the tools run
\* under, and however many to-dos there are.
THEOREM TodosStaySound == ToolboxSpec => []TodosAreSound
<1>1. ToolboxInit => TodoInv
  BY TodoInitInv DEF ToolboxInit
<1>2. TodoInv /\ [ToolboxNext]_toolboxVars => TodoInv'
  BY ToolboxStep, SameBook, CreateInv, UpdateInv, DeleteInv
<1>3. TodoInv => TodosAreSound
  BY DEF TodoInv
<1>. QED
  BY <1>1, <1>2, <1>3, PTL DEF ToolboxSpec

------------------------------------------------------------------------------
(* The idempotency window.                                                  *)

\* What a call did last is in the cache until its time is over; and a keyed call
\* under way was not done within the window, unless another one overlapped it.
WindowInv ==
    /\ monotonic \in Nat
    /\ lastDone \in [Call -> Nat] /\ DOMAIN cached = Call
    /\ doing \in [Worker -> Call \cup {Idle}]
    /\ phase \in [Worker -> {"idle", "running", "ended", "raised"}]
    /\ overlapped \in [Worker -> BOOLEAN]
    /\ \A c \in Call : lastDone[c] # Never => cached[c].until = lastDone[c] + TtlOf(c)
    /\ \A w \in Worker : phase[w] # "idle" =>
        /\ doing[w] \in Call
        /\ \/ doing[w] \in Unkeyed
           \/ lastDone[doing[w]] = Never
           \/ monotonic >= lastDone[doing[w]] + TtlOf(doing[w])
           \/ overlapped[w]

LEMMA Durations == Never \in Nat /\ \A c : TtlOf(c) \in Nat
BY ExecutorAssumption DEF Never, TtlOf

LEMMA WindowInitInv == ASSUME ExecutorInit PROVE WindowInv
BY Durations DEF ExecutorInit, WindowInv

\* The steps that start, carry on or give up a call without a receipt.
LEMMA CarriesOn ==
    ASSUME WindowInv, UNCHANGED <<monotonic, cached, lastDone>>, NEW w \in Worker,
           doing' \in [Worker -> Call \cup {Idle}],
           phase' \in [Worker -> {"idle", "running", "ended", "raised"}],
           overlapped' \in [Worker -> BOOLEAN],
           \A u \in Worker \ {w} :
                doing'[u] = doing[u] /\ phase'[u] = phase[u] /\ overlapped'[u] = overlapped[u],
           \/ phase'[w] = "idle"
           \/ phase[w] # "idle" /\ doing'[w] = doing[w] /\ overlapped'[w] = overlapped[w]
           \/ doing'[w] \in Call /\ (doing'[w] \in Unkeyed \/ ~Live(doing'[w]))
    PROVE  WindowInv'
<1>1. CASE phase'[w] = "idle" \/ (phase[w] # "idle" /\ doing'[w] = doing[w] /\ overlapped'[w] = overlapped[w])
  BY <1>1 DEF WindowInv
<1>2. CASE doing'[w] \in Call /\ (doing'[w] \in Unkeyed \/ ~Live(doing'[w]))
  <2> DEFINE c == doing'[w]
  <2>1. c \in Unkeyed \/ lastDone[c] = Never \/ monotonic >= lastDone[c] + TtlOf(c)
    BY <1>2, Durations DEF WindowInv, Live
  <2>. QED
    BY <1>2, <2>1 DEF WindowInv
<1>. QED
  BY <1>1, <1>2

LEMMA ExecuteInv == ASSUME WindowInv, NEW w \in Worker, NEW c \in Call, Execute(w, c) PROVE WindowInv'
<1>1. /\ doing' = [doing EXCEPT ![w] = c] /\ phase' = [phase EXCEPT ![w] = "running"]
      /\ c \in Unkeyed \/ ~Live(c)
      /\ UNCHANGED <<monotonic, cached, lastDone, overlapped>>
  BY DEF Execute
<1>2. doing'[w] = c
  BY <1>1 DEF WindowInv
<1>. QED
  BY <1>1, <1>2, CarriesOn DEF WindowInv

LEMMA LeavesInv ==
    ASSUME WindowInv, NEW w \in Worker, Leaves(w),
           overlapped' = [overlapped EXCEPT ![w] = FALSE],
           UNCHANGED <<monotonic, cached, lastDone>>
    PROVE  WindowInv'
<1>1. doing' = [doing EXCEPT ![w] = Idle] /\ phase' = [phase EXCEPT ![w] = "idle"]
  BY DEF Leaves
<1>. QED
  BY <1>1, CarriesOn DEF WindowInv

\* The tool itself, and a retry, go on with the call that was looked up.
LEMMA ToolInv ==
    ASSUME WindowInv, NEW w \in Worker, phase[w] # "idle",
           NEW p \in {"running", "ended", "raised"}, phase' = [phase EXCEPT ![w] = p],
           UNCHANGED <<monotonic, cached, lastDone, doing, overlapped>>
    PROVE  WindowInv'
BY CarriesOn DEF WindowInv

\* A receipt that is stored starts a new window, and overlaps the same call of
\* the other workers.
LEMMA StoreInv == ASSUME WindowInv, NEW w \in Worker, Store(w) PROVE WindowInv'
<1> DEFINE c == doing[w]
<1>1. /\ phase[w] = "ended" /\ c \in Call
      /\ doing' = [doing EXCEPT ![w] = Idle] /\ phase' = [phase EXCEPT ![w] = "idle"]
      /\ cached' = [cached EXCEPT ![c] = [until |-> monotonic + TtlOf(c), value |-> value[w]]]
      /\ lastDone' = [lastDone EXCEPT ![c] = monotonic]
      /\ overlapped' = [u \in Worker |-> u # w /\ (overlapped[u] \/ doing[u] = c)]
      /\ UNCHANGED monotonic
  BY DEF Store, Leaves, WindowInv
<1>. HIDE DEF c
<1>2. /\ lastDone' \in [Call -> Nat] /\ DOMAIN cached' = Call
      /\ doing' \in [Worker -> Call \cup {Idle}]
      /\ phase' \in [Worker -> {"idle", "running", "ended", "raised"}]
      /\ overlapped' \in [Worker -> BOOLEAN]
  BY <1>1 DEF WindowInv
<1>3. ASSUME NEW d \in Call, lastDone'[d] # Never
      PROVE  cached'[d].until = lastDone'[d] + TtlOf(d)
  <2>1. CASE d = c
    BY <1>1, <2>1 DEF WindowInv
  <2>2. CASE d # c
    BY <1>1, <1>3, <2>2 DEF WindowInv
  <2>. QED
    BY <2>1, <2>2
<1>4. ASSUME NEW u \in Worker, phase'[u] # "idle"
      PROVE  /\ doing'[u] \in Call
             /\ \/ doing'[u] \in Unkeyed
                \/ lastDone'[doing'[u]] = Never
                \/ monotonic >= lastDone'[doing'[u]] + TtlOf(doing'[u])
                \/ overlapped'[u]
  <2>1. u # w /\ phase[u] # "idle" /\ doing'[u] = doing[u] /\ doing[u] \in Call
    BY <1>1, <1>4 DEF WindowInv
  <2>2. CASE doing[u] = c
    BY <1>1, <2>1, <2>2
  <2>3. CASE doing[u] # c
    BY <1>1, <2>1, <2>3 DEF WindowInv
  <2>. QED
    BY <2>1, <2>2, <2>3
<1>. QED
  BY <1>1, <1>2, <1>3, <1>4 DEF WindowInv

\* A receipt and what it stands for are forgotten together.
LEMMA PassInv == ASSUME WindowInv, Pass PROVE WindowInv'
<1>1. /\ monotonic' = monotonic + 1
      /\ cached' = [c \in Call |-> IF cached[c].until > monotonic' THEN cached[c] ELSE Empty]
      /\ lastDone' = [c \in Call |->
                IF monotonic' < lastDone[c] + TtlOf(c) THEN lastDone[c] ELSE Never]
      /\ UNCHANGED <<doing, phase, overlapped>>
      /\ \A w \in Worker : phase[w] = "idle"
  BY DEF Pass
<1>2. lastDone' \in [Call -> Nat] /\ monotonic' \in Nat
  BY <1>1, Durations DEF WindowInv
<1>3. ASSUME NEW c \in Call, lastDone'[c] # Never
      PROVE  cached'[c].until = lastDone'[c] + TtlOf(c)
  <2>1. monotonic' < lastDone[c] + TtlOf(c) /\ lastDone'[c] = lastDone[c]
    BY <1>1, <1>3
  <2>2. cached[c].until = lastDone[c] + TtlOf(c)
    BY <1>3, <2>1 DEF WindowInv
  <2>3. monotonic' \in Nat /\ lastDone[c] \in Nat /\ TtlOf(c) \in Nat
    BY <1>2, Durations DEF WindowInv
  <2>4. cached[c].until > monotonic'
    BY <2>1, <2>2, <2>3
  <2>. QED
    BY <1>1, <2>1, <2>2, <2>4
<1>. QED
  BY <1>1, <1>2, <1>3 DEF WindowInv

LEMMA CrashInv == ASSUME WindowInv, ExecutorCrash PROVE WindowInv'
BY Durations DEF ExecutorCrash, WindowInv

LEMMA SameWindow == ASSUME WindowInv, UNCHANGED executorVars PROVE WindowInv'
BY DEF executorVars, WindowInv

LEMMA WindowNextInv == ASSUME WindowInv, [ToolboxNext]_toolboxVars PROVE WindowInv'
<1>1. ASSUME NEW w \in Worker, NEW c \in Call, NEW v, Runs(w, c), ToolEnds(w, v) \/ ToolRaises(w)
      PROVE  WindowInv'
  BY <1>1, ToolInv DEF Runs, ToolEnds, ToolRaises
<1>2. CASE ExecutorStep
  <2>1. ASSUME NEW w \in Worker, NEW c \in Call, ExecuteFromCache(w, c) PROVE WindowInv'
    BY <2>1, SameWindow DEF ExecuteFromCache
  <2>2. ASSUME NEW w \in Worker, RetryOrRaise(w) PROVE WindowInv'
    <3>1. CASE phase' = [phase EXCEPT ![w] = "running"] /\ UNCHANGED <<doing, overlapped>>
      BY <2>2, <3>1, ToolInv DEF RetryOrRaise
    <3>2. CASE Leaves(w) /\ overlapped' = [overlapped EXCEPT ![w] = FALSE]
      BY <2>2, <3>2, LeavesInv DEF RetryOrRaise
    <3>. QED
      BY <2>2, <3>1, <3>2 DEF RetryOrRaise
  <2>3. ASSUME NEW w \in Worker, Cancelled(w) PROVE WindowInv'
    BY <2>3, LeavesInv DEF Cancelled
  <2>. QED
    BY <1>2, <2>1, <2>2, <2>3, ExecuteInv, StoreInv DEF ExecutorStep
<1>3. ASSUME NEW w \in Worker, TodoStep(w) PROVE WindowInv'
  <2>1. ASSUME NEW c, Runs(w, c) PROVE c \in Call
    BY <2>1 DEF Runs, WindowInv
  <2>2. ASSUME NEW c, NEW effect \in BOOLEAN, Mutates(w, c, effect) \/ Misses(w, c) PROVE WindowInv'
    BY <1>1, <2>1, <2>2 DEF Mutates, Misses
  <2>3. ASSUME NEW c, Runs(w, c), ToolRaises(w) PROVE WindowInv'
    BY <1>1, <2>1, <2>3
  <2>4. ASSUME NEW c, Runs(w, c), NEW v, ToolEnds(w, v) PROVE WindowInv'
    BY <1>1, <2>1, <2>4
  <2>. QED
    BY <1>3, <2>3, <2>4 DEF TodoStep, Mutates, Misses
<1>4. ASSUME NEW w \in Worker, AskStep(w) PROVE WindowInv'
  <2>1. "ask" \in Call
    BY <1>4 DEF AskStep, Runs, WindowInv
  <2>. QED
    BY <1>1, <1>4, <2>1, SameWindow DEF AskStep
<1>5. CASE AdminStep \/ \E d \in Doc : EditStep(d)
  BY <1>5, SameWindow DEF AdminStep, EditStep
<1>6. CASE TimePasses \/ ToolboxCrash
  BY <1>6, PassInv, CrashInv DEF TimePasses, ToolboxCrash
<1>7. CASE UNCHANGED toolboxVars
  BY <1>7, SameWindow DEF toolboxVars
<1>. QED
  BY <1>2, <1>3, <1>4, <1>5, <1>6, <1>7 DEF ToolboxNext

\* Within the idempotency window a mutation has its effect once, for every window
\* and number of coroutines: unless the first call was under way when this one
\* started, was cancelled after its effect, or died with the process
\* (ToolExecutor.execute's lookup and store).
THEOREM WindowIsKept == ToolboxSpec => NoRepeatInWindow
<1> DEFINE Kept == \A w \in Worker : MutatesBy(w) =>
            LET c == doing[w] IN
            lastDone[c] = Never \/ monotonic >= lastDone[c] + MutationTtl \/ overlapped[w]
<1>1. ToolboxInit => WindowInv
  BY WindowInitInv DEF ToolboxInit
<1>2. WindowInv /\ [ToolboxNext]_toolboxVars => WindowInv'
  BY WindowNextInv
<1>3. WindowInv => Kept
  <2>. SUFFICES ASSUME WindowInv, NEW w \in Worker, MutatesBy(w)
                PROVE  LET c == doing[w] IN
                       lastDone[c] = Never \/ monotonic >= lastDone[c] + MutationTtl \/ overlapped[w]
    OBVIOUS
  <2>1. doing[w] \in Mutation /\ phase[w] # "idle"
    BY DEF MutatesBy
  <2>2. doing[w] \notin Unkeyed /\ TtlOf(doing[w]) = MutationTtl
    BY <2>1, ExecutorAssumption DEF TtlOf
  <2>. QED
    BY <2>1, <2>2 DEF WindowInv
<1>. QED
  BY <1>1, <1>2, <1>3, PTL DEF ToolboxSpec, NoRepeatInWindow

------------------------------------------------------------------------------
(* Answers from the documents.                                              *)

\* Version v of document d was the newest one at some moment of this tick.
Current(d, v) == v \in 1..MaxVersion /\ replaced[d][v] >= monotonic

Receipt == (Doc \cup Call \cup {"nothing"}) \X Nat

IndexTypes ==
    /\ monotonic \in 0..MaxMonotonic
    /\ KnowledgeTypeOK /\ raced \in BOOLEAN
    /\ replaced \in [Doc -> [1..MaxVersion -> Nat]]

\* What is on disk is the last version written, and nothing has replaced that.
NewestIsUnreplaced ==
    \A d \in Doc :
        /\ file[d] \in {0, written[d]}
        /\ \A v \in 1..MaxVersion : v >= written[d] \/ file[d] = 0 => replaced[d][v] = Never

\* An indexed modification time is never newer than the text indexed with it.
Vouched(rows) ==
    \A d \in Doc : rows[d].chunks > 0 => rows[d].mtime <= rows[d].chunks /\ rows[d].chunks <= written[d]

\* What an ingestion knows of the document it is about.
IngestionKnows(i) ==
    /\ Ingesting(i) => mtime[i] <= written[doc[i]]
    /\ step[i] \in {"delete", "upsert", "insert", "commit"} =>
        mtime[i] <= text[i] /\ text[i] <= written[doc[i]] /\ Current(doc[i], text[i])
    /\ step[i] \in {"upsert", "insert"} => row[doc[i]].chunks = 0
    /\ step[i] = "insert" => row[doc[i]].mtime = mtime[i]

\* The documents a query has looked at are indexed as they were in this tick.
LookedAt ==
    step["tool"] \notin {"idle", "failed"} =>
        \A d \in Doc \ left["tool"] :
            \/ row[d].chunks = 0
            \/ Current(d, row[d].chunks)
            \/ step["tool"] \in {"parse", "delete"} /\ doc["tool"] = d

IndexKept ==
    /\ Vouched(row) /\ Vouched(saved)
    /\ ~(Ingesting("tool") /\ Ingesting("admin"))
    /\ \A i \in Indexer : IngestionKnows(i)
    /\ LookedAt

IndexInv == IndexTypes /\ NewestIsUnreplaced /\ (raced \/ IndexKept)

\* An answer that waits to be stored is of this tick; a stored one outlives the
\* version it shows by the cache's lifetime at most.
AnswerIsCurrent(w) ==
    value[w][1] \in Doc =>
        /\ doing[w] = "ask" /\ phase[w] # "idle"
        /\ raced \/ Current(value[w][1], value[w][2])
ReceiptExpires(c) ==
    LET answer == cached[c].value IN
    answer[1] \in Doc =>
        \/ raced
        \/ /\ answer[2] \in 1..MaxVersion
           /\ cached[c].until <= monotonic + Ttl
           /\ cached[c].until <= replaced[answer[1]][answer[2]] + Ttl

ReceiptInv ==
    /\ value \in [Worker -> Receipt]
    /\ cached \in [Call -> [until : Nat, value : Receipt]]
    /\ \A w \in Worker : AnswerIsCurrent(w)
    /\ \A c \in Call : ReceiptExpires(c)

LEMMA Ticks ==
    /\ MaxMonotonic \in Nat /\ Ttl \in Nat /\ MaxVersion \in Nat /\ MaxVersion >= 1
    /\ Never \in Nat /\ Never > MaxMonotonic + Ttl
BY ExecutorAssumption, KnowledgeAssumption DEF Never

LEMMA IndexStarts == ASSUME ToolboxInit PROVE IndexInv
<1>. USE Ticks
<1>1. /\ monotonic = 0 /\ raced = FALSE /\ file = [d \in Doc |-> 1] /\ written = file
      /\ row = [d \in Doc |-> NoRow] /\ saved = row
      /\ step = [i \in Indexer |-> "idle"] /\ left = [i \in Indexer |-> {}]
      /\ doc \in [Indexer -> Doc] /\ mtime = [i \in Indexer |-> 0] /\ text = mtime
      /\ replaced = [d \in Doc |-> [v \in 1..MaxVersion |-> Never]]
  BY DEF ToolboxInit, ExecutorInit, KnowledgeInit
<1>2. IndexTypes
  <2>1. file \in [Doc -> 0..MaxVersion] /\ written \in [Doc -> 1..MaxVersion]
    BY <1>1
  <2>2. replaced \in [Doc -> [1..MaxVersion -> Nat]]
    BY <1>1
  <2>3. /\ row \in [Doc -> [mtime : 0..MaxVersion, chunks : 0..MaxVersion]]
        /\ mtime \in [Indexer -> 0..MaxVersion] /\ left \in [Indexer -> SUBSET Doc]
    BY <1>1 DEF NoRow
  <2>4. text = mtime /\ saved = row /\ doc \in [Indexer -> Doc] /\ raced \in BOOLEAN
    BY <1>1
  <2>5. step \in [Indexer -> {"idle", "next", "parse", "delete", "upsert", "insert", "commit", "failed"}]
    BY <1>1
  <2>6. monotonic \in 0..MaxMonotonic
    BY <1>1
  <2>. QED
    BY <2>1, <2>2, <2>3, <2>4, <2>5, <2>6 DEF IndexTypes, KnowledgeTypeOK
<1>3. NewestIsUnreplaced
  BY <1>1 DEF NewestIsUnreplaced
<1>4. IndexKept
  BY <1>1 DEF IndexKept, Vouched, IngestionKnows, Ingesting, LookedAt, NoRow, Indexer
<1>. QED
  BY <1>2, <1>3, <1>4 DEF IndexInv

LEMMA SameIndex ==
    ASSUME IndexInv, UNCHANGED <<knowledgeVars, replaced, monotonic>> PROVE IndexInv'
<1>1. UNCHANGED <<file, written, row, saved, step, left, doc, mtime, text, raced, replaced, monotonic>>
  BY DEF knowledgeVars
<1>. QED
  BY <1>1 DEF IndexInv, IndexTypes, KnowledgeTypeOK, NewestIsUnreplaced, IndexKept, Vouched,
              IngestionKnows, Ingesting, LookedAt, Current

LEMMA Ranges ==
    ASSUME IndexTypes
    PROVE  /\ \A d \in Doc :
                /\ file[d] \in 0..MaxVersion /\ written[d] \in 1..MaxVersion
                /\ row[d].mtime \in 0..MaxVersion /\ row[d].chunks \in 0..MaxVersion
                /\ saved[d].mtime \in 0..MaxVersion /\ saved[d].chunks \in 0..MaxVersion
           /\ \A i \in Indexer :
                doc[i] \in Doc /\ mtime[i] \in 0..MaxVersion /\ text[i] \in 0..MaxVersion
BY DEF IndexTypes, KnowledgeTypeOK

LEMMA TypesKept ==
    ASSUME IndexTypes, UNCHANGED <<file, written, left, doc, raced, replaced, monotonic>>,
           NEW i \in Indexer, NEW s \in {"next", "parse", "delete", "upsert", "insert", "commit", "failed"},
           step' = [step EXCEPT ![i] = s],
           row' \in [Doc -> [mtime : 0..MaxVersion, chunks : 0..MaxVersion]],
           saved' \in [Doc -> [mtime : 0..MaxVersion, chunks : 0..MaxVersion]],
           mtime' \in [Indexer -> 0..MaxVersion], text' \in [Indexer -> 0..MaxVersion]
    PROVE  IndexTypes'
BY DEF IndexTypes, KnowledgeTypeOK

LEMMA ZeroTypes ==
    ASSUME IndexTypes, NEW i \in Indexer
    PROVE  /\ [mtime EXCEPT ![i] = 0] \in [Indexer -> 0..MaxVersion]
           /\ [text EXCEPT ![i] = 0] \in [Indexer -> 0..MaxVersion]
<1>1. 0 \in 0..MaxVersion
  BY Ticks
<1>. QED
  BY <1>1 DEF IndexTypes, KnowledgeTypeOK

LEMMA RowTypes ==
    ASSUME IndexTypes, NEW d \in Doc, NEW v \in 0..MaxVersion
    PROVE  /\ [row EXCEPT ![d].mtime = v] \in [Doc -> [mtime : 0..MaxVersion, chunks : 0..MaxVersion]]
           /\ [row EXCEPT ![d].chunks = v] \in [Doc -> [mtime : 0..MaxVersion, chunks : 0..MaxVersion]]
BY DEF IndexTypes, KnowledgeTypeOK

\* An ingestion changes nothing but the index and what it remembers itself.
Ingestion == UNCHANGED <<file, written, replaced, monotonic>> /\ (raced => raced')

LEMMA SameNewest == ASSUME NewestIsUnreplaced, Ingestion PROVE NewestIsUnreplaced'
BY DEF NewestIsUnreplaced, Ingestion

\* The indexer that is not at work knows what it knew.
LEMMA OtherKnows ==
    ASSUME IndexTypes, Ingestion, NEW j \in Indexer, IngestionKnows(j),
           step'[j] = step[j], doc'[j] = doc[j], mtime'[j] = mtime[j], text'[j] = text[j],
           row' = row \/ ~Ingesting(j)
    PROVE  IngestionKnows(j)'
BY DEF Ingestion, IngestionKnows, Ingesting, Current

\* The list holds every document on disk; the others have no newer version.
LEMMA ListsInv ==
    ASSUME IndexInv, NEW i \in Indexer, Lists(i), UNCHANGED <<replaced, monotonic>>
    PROVE  IndexInv'
<1>. USE Ticks
<1>1. /\ step[i] = "idle" /\ step' = [step EXCEPT ![i] = "next"]
      /\ left' = [left EXCEPT ![i] = {d \in Doc : file[d] > 0}]
      /\ UNCHANGED <<file, written, row, saved, doc, mtime, text, raced>>
  BY DEF Lists, Moves, disk, index
<1>2. Ingestion
  BY <1>1 DEF Ingestion
<1>3. IndexTypes'
  BY <1>1 DEF IndexInv, IndexTypes, KnowledgeTypeOK
<1>4. /\ \A j \in Indexer \ {i} : step'[j] = step[j] /\ left'[j] = left[j]
      /\ step'[i] = "next" /\ left'[i] = {d \in Doc : file[d] > 0}
  BY <1>1 DEF IndexInv, IndexTypes, KnowledgeTypeOK
<1>5. ASSUME IndexKept PROVE IndexKept'
  <2>1. ASSUME NEW j \in Indexer PROVE IngestionKnows(j)'
    BY <1>1, <1>2, <1>4, <1>5, <2>1, OtherKnows
       DEF IndexInv, IndexKept, IngestionKnows, Ingesting
  <2>2. LookedAt'
    <3>1. CASE i = "tool"
      <4>. SUFFICES ASSUME NEW d \in Doc, file[d] = 0, row[d].chunks # 0
                    PROVE  Current(d, row[d].chunks)'
        BY <1>1, <1>4, <3>1, Ranges DEF LookedAt, IndexInv
      <4>1. row[d].chunks \in 1..MaxVersion /\ replaced[d][row[d].chunks] = Never
        BY Ranges DEF IndexInv, NewestIsUnreplaced
      <4>2. Never >= monotonic
        BY DEF IndexInv, IndexTypes
      <4>. QED
        BY <1>1, <4>1, <4>2 DEF Current
    <3>2. CASE i # "tool"
      BY <1>1, <1>4, <1>5, <3>2 DEF IndexKept, LookedAt, Current, Indexer
    <3>. QED
      BY <3>1, <3>2
  <2>3. ~(Ingesting("tool") /\ Ingesting("admin"))'
    BY <1>1, <1>4, <1>5 DEF IndexKept, Ingesting, Indexer
  <2>. QED
    BY <1>1, <1>5, <2>1, <2>2, <2>3 DEF IndexKept, Vouched
<1>. QED
  BY <1>1, <1>2, <1>3, <1>5, SameNewest DEF IndexInv

\* A document that is skipped is indexed as it is on disk.
LEMMA ExamineInv ==
    ASSUME IndexInv, NEW i \in Indexer, NEW d \in Doc, Examine(i, d), UNCHANGED <<replaced, monotonic>>
    PROVE  IndexInv'
<1>. USE Ticks
<1> DEFINE skips == i = "tool" /\ file[d] > 0 /\ row[d].mtime = file[d]
<1>1. /\ step[i] = "next" /\ left' = [left EXCEPT ![i] = @ \ {d}]
      /\ UNCHANGED <<file, written, row, saved, text>>
      /\ skips => UNCHANGED <<step, doc, mtime, raced>>
      /\ ~skips => /\ step' = [step EXCEPT ![i] = "parse"] /\ doc' = [doc EXCEPT ![i] = d]
                   /\ mtime' = [mtime EXCEPT ![i] = file[d]]
                   /\ raced' = (raced \/ \E j \in Indexer \ {i} : Ingesting(j))
  BY DEF Examine, Moves, disk, index
<1>. HIDE DEF skips
<1>2. Ingestion
  <2>1. CASE skips
    BY <1>1, <2>1 DEF Ingestion
  <2>2. CASE ~skips
    <3>1. raced => raced'
      BY <1>1, <2>2, Zenon
    <3>. QED
      BY <1>1, <3>1 DEF Ingestion
  <2>. QED
    BY <2>1, <2>2
<1>3. IndexTypes'
  BY <1>1, Ranges DEF IndexInv, IndexTypes, KnowledgeTypeOK
<1>4. /\ \A j \in Indexer \ {i} : /\ step'[j] = step[j] /\ left'[j] = left[j] /\ doc'[j] = doc[j]
                                  /\ mtime'[j] = mtime[j] /\ text'[j] = text[j]
      /\ left'[i] = left[i] \ {d}
      /\ skips => step'[i] = "next"
      /\ ~skips => step'[i] = "parse" /\ doc'[i] = d /\ mtime'[i] = file[d]
  BY <1>1 DEF IndexInv, IndexTypes, KnowledgeTypeOK
<1>5. ASSUME ~raced' PROVE IndexKept'
  <2>1. IndexKept
    BY <1>2, <1>5 DEF IndexInv, Ingestion
  <2>2. ASSUME NEW j \in Indexer PROVE IngestionKnows(j)'
    <3>1. CASE j # i
      BY <1>1, <1>2, <1>4, <2>1, <3>1, OtherKnows DEF IndexInv, IndexKept
    <3>2. CASE j = i /\ skips
      BY <1>4, <3>2 DEF IngestionKnows, Ingesting
    <3>3. CASE j = i /\ ~skips
      <4>1. file[d] <= written[d] /\ written' = written
        BY <1>1, Ranges DEF IndexInv, NewestIsUnreplaced
      <4>. QED
        BY <1>4, <3>3, <4>1 DEF IngestionKnows, Ingesting
    <3>. QED
      BY <3>1, <3>2, <3>3
  <2>3. LookedAt'
    <3>1. CASE i = "tool" /\ skips
      <4>1. ASSUME row[d].chunks # 0 PROVE Current(d, row[d].chunks)'
        <5>1. row[d].mtime = written[d] /\ row[d].chunks \in 1..MaxVersion /\ written[d] \in 1..MaxVersion
          BY <3>1, <4>1, Ranges DEF skips, IndexInv, NewestIsUnreplaced
        <5>2. row[d].chunks = written[d]
          BY <2>1, <5>1 DEF IndexKept, Vouched
        <5>3. replaced[d][written[d]] = Never /\ Never >= monotonic
          BY <5>1 DEF IndexInv, IndexTypes, NewestIsUnreplaced
        <5>. QED
          BY <1>1, <5>1, <5>2, <5>3 DEF Current
      <4>2. ASSUME NEW e \in Doc \ left["tool"], row[e].chunks # 0 PROVE Current(e, row[e].chunks)'
        BY <1>1, <2>1, <3>1, <4>2 DEF IndexKept, LookedAt, Current
      <4>. QED
        BY <1>1, <1>4, <3>1, <4>1, <4>2 DEF LookedAt
    <3>2. CASE i = "tool" /\ ~skips
      BY <1>1, <1>4, <2>1, <3>2 DEF IndexKept, LookedAt, Current
    <3>3. CASE i # "tool"
      BY <1>1, <1>4, <2>1, <3>3 DEF IndexKept, LookedAt, Current, Indexer
    <3>. QED
      BY <3>1, <3>2, <3>3
  <2>4. ~(Ingesting("tool") /\ Ingesting("admin"))'
    <3>1. CASE skips
      BY <1>1, <2>1, <3>1 DEF IndexKept, Ingesting
    <3>2. CASE ~skips
      <4>1. \A j \in Indexer \ {i} : ~Ingesting(j) /\ step'[j] = step[j]
        BY <1>1, <1>4, <1>5, <3>2
      <4>. QED
        BY <4>1 DEF Ingesting, Indexer
    <3>. QED
      BY <3>1, <3>2
  <2>. QED
    BY <1>1, <2>1, <2>2, <2>3, <2>4 DEF IndexKept, Vouched
<1>. QED
  BY <1>2, <1>3, <1>5, SameNewest DEF IndexInv

\* What the steps of an ingestion have in common: only its own steps, times and
\* texts change, and the other indexer is not at one of these steps.
LEMMA IngestsInv ==
    ASSUME IndexInv, NEW i \in Indexer, Ingesting(i),
           UNCHANGED <<file, written, left, doc, raced, replaced, monotonic>>, IndexTypes',
           \A j \in Indexer \ {i} : step'[j] = step[j] /\ mtime'[j] = mtime[j] /\ text'[j] = text[j],
           IndexKept => Vouched(row)' /\ Vouched(saved)' /\ IngestionKnows(i)' /\ LookedAt'
    PROVE  IndexInv'
<1>1. Ingestion
  BY DEF Ingestion
<1>2. ASSUME IndexKept PROVE IndexKept'
  <2>1. \A j \in Indexer \ {i} : ~Ingesting(j) /\ ~Ingesting(j)'
    BY <1>2 DEF IndexKept, Ingesting, Indexer
  <2>2. ASSUME NEW j \in Indexer PROVE IngestionKnows(j)'
    <3>1. CASE j # i
      BY <1>1, <1>2, <2>1, <3>1, OtherKnows DEF IndexInv, IndexKept
    <3>. QED
      BY <1>2, <3>1
  <2>3. ~(Ingesting("tool") /\ Ingesting("admin"))'
    BY <2>1 DEF Indexer
  <2>. QED
    BY <1>2, <2>2, <2>3 DEF IndexKept
<1>. QED
  BY <1>1, <1>2, SameNewest DEF IndexInv

\* The text is read after the time, so that it is at least as new.
LEMMA ParseInv ==
    ASSUME IndexInv, NEW i \in Indexer, Parse(i), UNCHANGED <<replaced, monotonic>> PROVE IndexInv'
<1>. USE Ticks
<1>1. /\ step[i] = "parse" /\ file[doc[i]] # 0 /\ text' = [text EXCEPT ![i] = file[doc[i]]]
      /\ step' = [step EXCEPT ![i] = "delete"]
      /\ UNCHANGED <<file, written, row, saved, left, doc, mtime, raced>>
  BY DEF Parse, Gone, Moves, disk, index
<1>2. IndexTypes'
  BY <1>1, Ranges DEF IndexInv, IndexTypes, KnowledgeTypeOK
<1>3. /\ \A j \in Indexer \ {i} : step'[j] = step[j] /\ text'[j] = text[j]
      /\ step'[i] = "delete" /\ text'[i] = file[doc[i]]
  BY <1>1 DEF IndexInv, IndexTypes, KnowledgeTypeOK
<1>4. ASSUME IndexKept PROVE IngestionKnows(i)' /\ LookedAt'
  <2>1. /\ doc[i] \in Doc /\ written[doc[i]] \in 1..MaxVersion /\ mtime[i] <= written[doc[i]]
        /\ mtime[i] \in 0..MaxVersion
    BY <1>1, <1>4, Ranges DEF IndexInv, IndexKept, IngestionKnows, Ingesting
  <2>2. file[doc[i]] = written[doc[i]] /\ replaced[doc[i]][written[doc[i]]] = Never
    BY <1>1, <2>1 DEF IndexInv, NewestIsUnreplaced
  <2>3. Current(doc[i], file[doc[i]])'
    <3>1. Never >= monotonic
      BY DEF IndexInv, IndexTypes
    <3>. QED
      BY <1>1, <2>1, <2>2, <3>1 DEF Current
  <2>4. IngestionKnows(i)'
    BY <1>1, <1>3, <2>1, <2>2, <2>3 DEF IngestionKnows
  <2>5. LookedAt'
    BY <1>1, <1>3, <1>4 DEF IndexKept, LookedAt, Current, Indexer
  <2>. QED
    BY <2>4, <2>5
<1>. QED
  BY <1>1, <1>2, <1>3, <1>4, IngestsInv DEF IndexKept, Vouched, Ingesting

LEMMA ParseFailsInv ==
    ASSUME IndexInv, NEW i \in Indexer, ParseFails(i), UNCHANGED <<replaced, monotonic>> PROVE IndexInv'
<1>. USE Ticks
<1> DEFINE then == IF i = "tool" THEN "failed" ELSE "next"
<1>1. /\ step[i] = "parse" /\ step' = [step EXCEPT ![i] = then]
      /\ mtime' = [mtime EXCEPT ![i] = 0] /\ text' = [text EXCEPT ![i] = 0]
      /\ UNCHANGED <<file, written, row, saved, left, doc, raced>>
  BY DEF ParseFails, DoneWith, Moves, disk, index
<1>2. IndexTypes'
  BY <1>1, ZeroTypes, TypesKept DEF IndexInv, IndexTypes, KnowledgeTypeOK
<1>3. /\ \A j \in Indexer \ {i} : step'[j] = step[j] /\ mtime'[j] = mtime[j] /\ text'[j] = text[j]
      /\ step'[i] = then
  BY <1>1 DEF IndexInv, IndexTypes, KnowledgeTypeOK
<1>4. ASSUME IndexKept PROVE IngestionKnows(i)' /\ LookedAt'
  BY <1>1, <1>3, <1>4 DEF IndexKept, IngestionKnows, Ingesting, LookedAt, Current, Indexer
<1>. QED
  BY <1>1, <1>2, <1>3, <1>4, IngestsInv DEF IndexKept, Vouched, Ingesting

LEMMA DeleteChunksInv ==
    ASSUME IndexInv, NEW i \in Indexer, DeleteChunks(i), UNCHANGED <<replaced, monotonic>> PROVE IndexInv'
<1>. USE Ticks
<1>1. /\ step[i] = "delete" /\ step' = [step EXCEPT ![i] = "upsert"]
      /\ row' = [row EXCEPT ![doc[i]].chunks = 0]
      /\ UNCHANGED <<file, written, saved, left, doc, mtime, text, raced>>
  BY DEF DeleteChunks, Moves, disk
<1>2. IndexTypes'
  <2>1. IndexTypes /\ doc[i] \in Doc /\ 0 \in 0..MaxVersion
    BY Ranges DEF IndexInv
  <2>2. row' \in [Doc -> [mtime : 0..MaxVersion, chunks : 0..MaxVersion]]
    BY <1>1, <2>1, RowTypes
  <2>. QED
    BY <1>1, <2>1, <2>2, TypesKept DEF IndexTypes, KnowledgeTypeOK
<1>3. /\ \A j \in Indexer \ {i} : step'[j] = step[j]
      /\ step'[i] = "upsert" /\ row'[doc[i]].chunks = 0
      /\ \A d \in Doc \ {doc[i]} : row'[d] = row[d]
  BY <1>1, Ranges DEF IndexInv, IndexTypes, KnowledgeTypeOK
<1>4. ASSUME IndexKept PROVE Vouched(row)' /\ IngestionKnows(i)' /\ LookedAt'
  <2>1. Vouched(row)'
    BY <1>1, <1>3, <1>4 DEF IndexKept, Vouched
  <2>2. IngestionKnows(i)'
    BY <1>1, <1>3, <1>4 DEF IndexKept, IngestionKnows, Ingesting, Current
  <2>3. LookedAt'
    BY <1>1, <1>3, <1>4 DEF IndexKept, LookedAt, Current, Indexer
  <2>. QED
    BY <2>1, <2>2, <2>3
<1>. QED
  BY <1>1, <1>2, <1>3, <1>4, IngestsInv DEF IndexKept, Vouched, Ingesting

LEMMA UpsertDocumentInv ==
    ASSUME IndexInv, NEW i \in Indexer, UpsertDocument(i), UNCHANGED <<replaced, monotonic>> PROVE IndexInv'
<1>. USE Ticks
<1>1. /\ step[i] = "upsert" /\ step' = [step EXCEPT ![i] = "insert"]
      /\ row' = [row EXCEPT ![doc[i]].mtime = mtime[i]]
      /\ UNCHANGED <<file, written, saved, left, doc, mtime, text, raced>>
  BY DEF UpsertDocument, Moves, disk
<1>2. IndexTypes'
  <2>1. IndexTypes /\ doc[i] \in Doc /\ mtime[i] \in 0..MaxVersion
    BY Ranges DEF IndexInv
  <2>2. row' \in [Doc -> [mtime : 0..MaxVersion, chunks : 0..MaxVersion]]
    BY <1>1, <2>1, RowTypes
  <2>. QED
    BY <1>1, <2>1, <2>2, TypesKept DEF IndexTypes, KnowledgeTypeOK
<1>3. /\ \A j \in Indexer \ {i} : step'[j] = step[j]
      /\ step'[i] = "insert" /\ row'[doc[i]].mtime = mtime[i]
      /\ \A d \in Doc : row'[d].chunks = row[d].chunks
      /\ \A d \in Doc \ {doc[i]} : row'[d] = row[d]
  BY <1>1, Ranges DEF IndexInv, IndexTypes, KnowledgeTypeOK
<1>4. ASSUME IndexKept PROVE Vouched(row)' /\ IngestionKnows(i)' /\ LookedAt'
  <2>1. row[doc[i]].chunks = 0 /\ doc[i] \in Doc
    BY <1>1, <1>4, Ranges DEF IndexInv, IndexKept, IngestionKnows
  <2>2. Vouched(row)'
    BY <1>1, <1>3, <1>4, <2>1 DEF IndexKept, Vouched
  <2>3. IngestionKnows(i)'
    BY <1>1, <1>3, <1>4, <2>1 DEF IndexKept, IngestionKnows, Ingesting, Current
  <2>4. LookedAt'
    BY <1>1, <1>3, <1>4 DEF IndexKept, LookedAt, Current, Indexer
  <2>. QED
    BY <2>2, <2>3, <2>4
<1>. QED
  BY <1>1, <1>2, <1>3, <1>4, IngestsInv DEF IndexKept, Vouched, Ingesting

\* The chunks were deleted in the same transaction, so the key is free.
LEMMA InsertChunksInv ==
    ASSUME IndexInv, NEW i \in Indexer, InsertChunks(i), UNCHANGED <<replaced, monotonic>> PROVE IndexInv'
<1>. USE Ticks
<1>1. /\ step[i] = "insert" /\ UNCHANGED <<file, written, saved, left, doc, raced>>
  BY DEF InsertChunks, disk
<1>2. CASE row[doc[i]].chunks = 0
  <2>1. /\ row' = [row EXCEPT ![doc[i]].chunks = text[i]] /\ step' = [step EXCEPT ![i] = "commit"]
        /\ UNCHANGED <<mtime, text>>
    BY <1>2 DEF InsertChunks, Moves
  <2>2. IndexTypes'
    <3>1. IndexTypes /\ doc[i] \in Doc /\ text[i] \in 0..MaxVersion
      BY Ranges DEF IndexInv
    <3>2. row' \in [Doc -> [mtime : 0..MaxVersion, chunks : 0..MaxVersion]]
      BY <2>1, <3>1, RowTypes
    <3>. QED
      BY <1>1, <2>1, <3>1, <3>2, TypesKept DEF IndexTypes, KnowledgeTypeOK
  <2>3. /\ \A j \in Indexer \ {i} : step'[j] = step[j]
        /\ step'[i] = "commit" /\ row'[doc[i]].chunks = text[i] /\ row'[doc[i]].mtime = row[doc[i]].mtime
        /\ \A d \in Doc \ {doc[i]} : row'[d] = row[d]
    BY <2>1, Ranges DEF IndexInv, IndexTypes, KnowledgeTypeOK
  <2>4. ASSUME IndexKept PROVE Vouched(row)' /\ IngestionKnows(i)' /\ LookedAt'
    <3>1. /\ doc[i] \in Doc /\ row[doc[i]].mtime = mtime[i] /\ mtime[i] <= text[i]
          /\ text[i] <= written[doc[i]] /\ Current(doc[i], text[i])
      BY <1>1, <2>4, Ranges DEF IndexInv, IndexKept, IngestionKnows
    <3>2. Vouched(row)'
      BY <1>1, <2>3, <2>4, <3>1 DEF IndexKept, Vouched
    <3>3. IngestionKnows(i)'
      BY <1>1, <2>1, <2>3, <2>4, <3>1 DEF IndexKept, IngestionKnows, Ingesting, Current
    <3>4. LookedAt'
      BY <1>1, <2>3, <2>4, <3>1 DEF IndexKept, LookedAt, Current, Indexer
    <3>. QED
      BY <3>2, <3>3, <3>4
  <2>. QED
    BY <1>1, <2>1, <2>2, <2>3, <2>4, IngestsInv DEF IndexKept, Vouched, Ingesting
<1>3. CASE row[doc[i]].chunks # 0
  <2> DEFINE then == IF i = "tool" THEN "failed" ELSE "next"
  <2>1. /\ row' = saved /\ step' = [step EXCEPT ![i] = then]
        /\ mtime' = [mtime EXCEPT ![i] = 0] /\ text' = [text EXCEPT ![i] = 0]
    BY <1>3 DEF InsertChunks, DoneWith, Moves
  <2>2. IndexTypes'
    BY <1>1, <2>1, ZeroTypes, TypesKept DEF IndexInv, IndexTypes, KnowledgeTypeOK
  <2>3. raced /\ raced'
    BY <1>1, <1>3 DEF IndexInv, IndexKept, IngestionKnows
  <2>. QED
    BY <1>1, <2>2, <2>3, SameNewest DEF IndexInv, Ingestion
<1>. QED
  BY <1>2, <1>3

LEMMA CommitInv ==
    ASSUME IndexInv, NEW i \in Indexer, Commit(i), UNCHANGED <<replaced, monotonic>> PROVE IndexInv'
<1>. USE Ticks
<1>1. /\ step[i] = "commit" /\ step' = [step EXCEPT ![i] = "next"] /\ saved' = row
      /\ mtime' = [mtime EXCEPT ![i] = 0] /\ text' = [text EXCEPT ![i] = 0]
      /\ UNCHANGED <<file, written, row, left, doc, raced>>
  BY DEF Commit, DoneWith, Moves, disk
<1>2. IndexTypes'
  BY <1>1, ZeroTypes, TypesKept DEF IndexInv, IndexTypes, KnowledgeTypeOK
<1>3. /\ \A j \in Indexer \ {i} : step'[j] = step[j] /\ mtime'[j] = mtime[j] /\ text'[j] = text[j]
      /\ step'[i] = "next"
  BY <1>1 DEF IndexInv, IndexTypes, KnowledgeTypeOK
<1>4. ASSUME IndexKept PROVE IngestionKnows(i)' /\ LookedAt'
  BY <1>1, <1>3, <1>4 DEF IndexKept, IngestionKnows, Ingesting, LookedAt, Current, Indexer
<1>. QED
  BY <1>1, <1>2, <1>3, <1>4, IngestsInv DEF IndexKept, Vouched, Ingesting

LEMMA IngestInv ==
    ASSUME IndexInv, NEW i \in Indexer, Ingest(i), UNCHANGED <<replaced, monotonic>> PROVE IndexInv'
BY ExamineInv, ParseInv, ParseFailsInv, DeleteChunksInv, UpsertDocumentInv, InsertChunksInv, CommitInv
   DEF Ingest

LEMMA StopsInv ==
    ASSUME IndexInv, NEW i \in Indexer, ~Ingesting(i), step' = [step EXCEPT ![i] = "idle"],
           UNCHANGED <<disk, index, left, doc, mtime, text, raced, replaced, monotonic>>
    PROVE  IndexInv'
<1>1. /\ UNCHANGED <<file, written, row, saved, left, doc, mtime, text, raced, replaced, monotonic>>
      /\ \A j \in Indexer \ {i} : step'[j] = step[j]
      /\ step'[i] = "idle"
  BY DEF disk, index, IndexInv, IndexTypes, KnowledgeTypeOK
<1>2. IndexTypes'
  BY <1>1 DEF IndexInv, IndexTypes, KnowledgeTypeOK
<1>3. ASSUME IndexKept PROVE IndexKept'
  BY <1>1, <1>3 DEF IndexKept, Vouched, IngestionKnows, Ingesting, LookedAt, Current, Indexer
<1>. QED
  BY <1>1, <1>2, <1>3 DEF IndexInv, NewestIsUnreplaced

\* What was committed is as good as what the connection saw; nobody is at work.
LEMMA IndexCrashInv ==
    ASSUME IndexInv, KnowledgeCrash, UNCHANGED <<replaced, monotonic>> PROVE IndexInv'
<1>. USE Ticks
<1>1. /\ row' = saved /\ step' = [i \in Indexer |-> "idle"] /\ left' = [i \in Indexer |-> {}]
      /\ mtime' = [i \in Indexer |-> 0] /\ text' = mtime'
      /\ UNCHANGED <<file, written, saved, doc, raced>>
  BY DEF KnowledgeCrash, disk
<1>2. IndexTypes'
  <2>1. mtime' \in [Indexer -> 0..MaxVersion] /\ text' \in [Indexer -> 0..MaxVersion]
    BY <1>1
  <2>. QED
    BY <1>1, <2>1 DEF IndexInv, IndexTypes, KnowledgeTypeOK
<1>3. ASSUME IndexKept PROVE IndexKept'
  BY <1>1, <1>3 DEF IndexKept, Vouched, IngestionKnows, Ingesting, LookedAt, Indexer
<1>. QED
  BY <1>1, <1>2, <1>3 DEF IndexInv, NewestIsUnreplaced

\* Time passes while nobody is at work.
LEMMA IndexPassInv ==
    ASSUME IndexInv, Pass, UNCHANGED <<knowledgeVars, replaced>>, \A i \in Indexer : step[i] = "idle"
    PROVE  IndexInv'
<1>. USE Ticks
<1>1. /\ monotonic < MaxMonotonic /\ monotonic' = monotonic + 1
      /\ UNCHANGED <<file, written, row, saved, step, left, doc, mtime, text, raced, replaced>>
  BY DEF Pass, knowledgeVars
<1>2. IndexTypes'
  BY <1>1 DEF IndexInv, IndexTypes, KnowledgeTypeOK
<1>3. ASSUME IndexKept PROVE IndexKept'
  BY <1>1, <1>3 DEF IndexKept, Vouched, IngestionKnows, Ingesting, LookedAt, Indexer
<1>. QED
  BY <1>1, <1>2, <1>3 DEF IndexInv, NewestIsUnreplaced

\* An edit makes older versions older than this tick, never the newest.
LEMMA EditInv == ASSUME IndexInv, NEW d \in Doc, EditStep(d) PROVE IndexInv'
<1>. USE Ticks
<1>1. /\ UNCHANGED <<row, saved, step, left, doc, mtime, text, raced, monotonic>>
      /\ \/ /\ written[d] < MaxVersion
            /\ written' = [written EXCEPT ![d] = @ + 1] /\ file' = [file EXCEPT ![d] = written'[d]]
            /\ replaced' = [replaced EXCEPT ![d] =
                  [v \in 1..MaxVersion |-> IF v <= written[d] /\ @[v] = Never THEN monotonic ELSE @[v]]]
         \/ /\ written' = written /\ file' = [file EXCEPT ![d] = 0]
            /\ replaced' = [replaced EXCEPT ![d] = [v \in 1..MaxVersion |-> Never]]
  BY DEF EditStep, WriteFile, RemoveFile, executorVars, index
<1>2. /\ file \in [Doc -> 0..MaxVersion] /\ written \in [Doc -> 1..MaxVersion]
      /\ replaced \in [Doc -> [1..MaxVersion -> Nat]] /\ monotonic \in 0..MaxMonotonic
  BY DEF IndexInv, IndexTypes, KnowledgeTypeOK
<1>3. /\ \A e \in Doc \ {d} :
            file'[e] = file[e] /\ written'[e] = written[e] /\ replaced'[e] = replaced[e]
      /\ \/ /\ written'[d] = written[d] + 1 /\ written[d] < MaxVersion /\ file'[d] = written'[d]
            /\ \A v \in 1..MaxVersion : replaced'[d][v] =
                  IF v <= written[d] /\ replaced[d][v] = Never THEN monotonic ELSE replaced[d][v]
         \/ /\ written'[d] = written[d] /\ file'[d] = 0
            /\ \A v \in 1..MaxVersion : replaced'[d][v] = Never
  BY <1>1, <1>2
<1>4. /\ file' \in [Doc -> 0..MaxVersion] /\ written' \in [Doc -> 1..MaxVersion]
  <2>1. written'[d] \in 1..MaxVersion /\ file'[d] \in 0..MaxVersion
    BY <1>2, <1>3
  <2>. QED
    BY <1>1, <1>2, <2>1
<1>5. replaced' \in [Doc -> [1..MaxVersion -> Nat]]
  <2>1. replaced[d] \in [1..MaxVersion -> Nat] /\ monotonic \in Nat
    BY <1>2
  <2> DEFINE then == [v \in 1..MaxVersion |->
                        IF v <= written[d] /\ replaced[d][v] = Never THEN monotonic ELSE replaced[d][v]]
             never == [v \in 1..MaxVersion |-> Never]
  <2>3. then \in [1..MaxVersion -> Nat] /\ never \in [1..MaxVersion -> Nat]
    BY <2>1
  <2>4. replaced'[d] = then \/ replaced'[d] = never
    BY <1>1, <1>2
  <2>2. replaced'[d] \in [1..MaxVersion -> Nat]
    BY <2>3, <2>4
  <2>. QED
    BY <1>1, <1>2, <2>2
<1>6. IndexTypes'
  BY <1>1, <1>4, <1>5 DEF IndexInv, IndexTypes, KnowledgeTypeOK
<1>7. NewestIsUnreplaced'
  <2>1. ASSUME NEW e \in Doc, e # d, NEW v \in 1..MaxVersion
        PROVE  /\ file'[e] \in {0, written'[e]}
               /\ v >= written'[e] \/ file'[e] = 0 => replaced'[e][v] = Never
    BY <1>3, <2>1 DEF IndexInv, NewestIsUnreplaced
  <2>2. ASSUME NEW v \in 1..MaxVersion
        PROVE  /\ file'[d] \in {0, written'[d]}
               /\ v >= written'[d] \/ file'[d] = 0 => replaced'[d][v] = Never
    <3>1. written[d] \in 1..MaxVersion /\ (v >= written[d] => replaced[d][v] = Never)
      BY <1>2 DEF IndexInv, NewestIsUnreplaced
    <3>. QED
      BY <1>3, <3>1
  <2>. QED
    BY <2>1, <2>2 DEF NewestIsUnreplaced
<1>8. \A e \in Doc : written'[e] >= written[e]
  <2>1. ASSUME NEW e \in Doc, e # d PROVE written'[e] >= written[e]
    BY <1>2, <1>3, <2>1
  <2>2. written'[d] >= written[d]
    BY <1>2, <1>3
  <2>. QED
    BY <2>1, <2>2
<1>9. \A e \in Doc, v \in Nat : Current(e, v) => Current(e, v)'
  <2>. SUFFICES ASSUME NEW e \in Doc, NEW v \in 1..MaxVersion, replaced[e][v] >= monotonic
                PROVE  replaced'[e][v] >= monotonic
    BY <1>1 DEF Current
  <2>1. CASE e = d
    <3>1. monotonic \in Nat /\ Never >= monotonic
      BY <1>2
    <3>. QED
      BY <1>3, <2>1, <3>1
  <2>2. CASE e # d
    BY <1>3, <2>2
  <2>. QED
    BY <2>1, <2>2
<1>10. /\ row \in [Doc -> [mtime : 0..MaxVersion, chunks : 0..MaxVersion]]
      /\ saved \in [Doc -> [mtime : 0..MaxVersion, chunks : 0..MaxVersion]]
      /\ doc \in [Indexer -> Doc]
      /\ mtime \in [Indexer -> 0..MaxVersion] /\ text \in [Indexer -> 0..MaxVersion]
  BY DEF IndexInv, IndexTypes, KnowledgeTypeOK
<1>11. ASSUME IndexKept PROVE IndexKept'
  <2>1. Vouched(row)' /\ Vouched(saved)'
    <3>. SUFFICES ASSUME NEW e \in Doc
                  PROVE  /\ row[e].chunks > 0 =>
                                row[e].mtime <= row[e].chunks /\ row[e].chunks <= written'[e]
                         /\ saved[e].chunks > 0 =>
                                saved[e].mtime <= saved[e].chunks /\ saved[e].chunks <= written'[e]
      BY <1>1 DEF Vouched
    <3>1. /\ row[e].chunks \in Nat /\ saved[e].chunks \in Nat
          /\ written[e] \in Nat /\ written'[e] \in Nat /\ written'[e] >= written[e]
      <4>1. row[e].chunks \in 0..MaxVersion /\ saved[e].chunks \in 0..MaxVersion
        BY <1>10
      <4>2. written[e] \in 1..MaxVersion /\ written'[e] \in 1..MaxVersion
        BY <1>2, <1>4
      <4>. QED
        BY <1>8, <4>1, <4>2
    <3>. QED
      BY <1>11, <3>1 DEF IndexKept, Vouched
  <2>2. ASSUME NEW i \in Indexer PROVE IngestionKnows(i)'
    <3>1. IngestionKnows(i) /\ doc[i] \in Doc /\ written'[doc[i]] >= written[doc[i]]
      BY <1>8, <1>11, <1>10 DEF IndexKept
    <3>2. Current(doc[i], text[i]) => Current(doc[i], text[i])'
      BY <1>1, <1>9, <1>10
    <3>4. mtime[i] \in 0..MaxVersion /\ text[i] \in 0..MaxVersion /\ doc[i] \in Doc
      BY <1>10
    <3>5. written[doc[i]] \in 1..MaxVersion /\ written'[doc[i]] \in 1..MaxVersion
      BY <1>2, <1>4, <3>4
    <3>3. mtime[i] \in Nat /\ text[i] \in Nat /\ written[doc[i]] \in Nat /\ written'[doc[i]] \in Nat
      BY <3>4, <3>5
    <3>. QED
      BY <1>1, <3>1, <3>2, <3>3 DEF IngestionKnows, Ingesting
  <2>3. LookedAt'
    <3>1. \A e \in Doc : row[e].chunks \in Nat
      BY <1>10
    <3>2. \A e \in Doc : Current(e, row[e].chunks) => Current(e, row[e].chunks)'
      BY <1>1, <1>9, <3>1
    <3>. QED
      BY <1>1, <1>11, <3>2 DEF IndexKept, LookedAt
  <2>. QED
    BY <1>1, <1>11, <2>1, <2>2, <2>3 DEF IndexKept, Ingesting
<1>. QED
  BY <1>1, <1>6, <1>7, <1>11 DEF IndexInv

LEMMA IndexKeptByAll == ASSUME IndexInv, [ToolboxNext]_toolboxVars PROVE IndexInv'
<1>0. "tool" \in Indexer /\ "admin" \in Indexer
  BY DEF Indexer
<1>1. CASE ExecutorStep
  <2>1. UNCHANGED monotonic
    BY <1>1 DEF ExecutorStep, Execute, ExecuteFromCache, Store, RetryOrRaise, Cancelled, executorVars
  <2>. QED
    BY <1>1, <2>1, SameIndex DEF ExecutorStep, tools
<1>2. CASE AdminStep
  <2>1. UNCHANGED <<replaced, monotonic>>
    BY <1>2 DEF AdminStep, executorVars
  <2>2. CASE Reindex \/ Ingest("admin")
    BY <1>0, <2>1, <2>2, ListsInv, IngestInv DEF Reindex
  <2>3. CASE ReindexEnds
    BY <1>0, <2>1, <2>3, StopsInv DEF ReindexEnds, Moves, Ingesting
  <2>. QED
    BY <1>2, <2>2, <2>3 DEF AdminStep
<1>3. CASE TimePasses
  BY <1>3, IndexPassInv DEF TimePasses, tools
<1>4. CASE ToolboxCrash
  BY <1>4, IndexCrashInv DEF ToolboxCrash, ExecutorCrash
<1>5. ASSUME NEW w \in Worker, TodoStep(w) PROVE IndexInv'
  <2>1. UNCHANGED monotonic
    BY <1>5 DEF TodoStep, Mutates, Misses, ToolEnds, ToolRaises
  <2>. QED
    BY <1>5, <2>1, SameIndex DEF TodoStep
<1>6. ASSUME NEW w \in Worker, AskStep(w) PROVE IndexInv'
  <2>1. UNCHANGED <<replaced, monotonic>>
    BY <1>6 DEF AskStep, ToolEnds, ToolRaises, executorVars
  <2>2. CASE Lists("tool") \/ Ingest("tool")
    BY <1>0, <2>1, <2>2, ListsInv, IngestInv
  <2>3. CASE step["tool"] \in {"next", "failed"} /\ ToolLeaves
    BY <1>0, <2>1, <2>3, StopsInv DEF ToolLeaves, Moves, Ingesting
  <2>. QED
    BY <1>6, <2>2, <2>3 DEF AskStep, ToolIndexed
<1>7. ASSUME NEW d \in Doc, EditStep(d) PROVE IndexInv'
  BY <1>7, EditInv
<1>8. CASE UNCHANGED toolboxVars
  BY <1>8, SameIndex DEF toolboxVars, tools, executorVars
<1>. QED
  BY <1>1, <1>2, <1>3, <1>4, <1>5, <1>6, <1>7, <1>8 DEF ToolboxNext

LEMMA NothingIsAboutNoDocument == Nothing \in Receipt /\ Nothing[1] \notin Doc
BY ToolboxAssumption DEF Nothing, Receipt

LEMMA EmptyReceipt == Empty \in [until : Nat, value : Receipt] /\ Empty.value = Nothing
BY NothingIsAboutNoDocument DEF Empty

LEMMA ReceiptsStart == ASSUME ToolboxInit PROVE ReceiptInv
<1>1. cached = [c \in Call |-> Empty] /\ value = [w \in Worker |-> Nothing]
  BY DEF ToolboxInit, ExecutorInit
<1>. QED
  BY <1>1, NothingIsAboutNoDocument, EmptyReceipt DEF ReceiptInv, AnswerIsCurrent, ReceiptExpires

\* A version that is replaced now was current until now.
LEMMA ReceiptsStay ==
    ASSUME IndexTypes, ReceiptInv, UNCHANGED <<monotonic, cached, doing, phase, value>>, raced => raced',
           \A d \in Doc, v \in 1..MaxVersion :
                replaced'[d][v] >= replaced[d][v] \/ replaced'[d][v] >= monotonic,
           \A d \in Doc, v \in 1..MaxVersion : replaced'[d][v] \in Nat
    PROVE  ReceiptInv'
<1>. USE Ticks
<1>1. monotonic \in Nat /\ \A d \in Doc, v \in 1..MaxVersion : replaced[d][v] \in Nat
  BY DEF IndexTypes
<1>2. ASSUME NEW w \in Worker PROVE AnswerIsCurrent(w)'
  BY <1>1 DEF ReceiptInv, AnswerIsCurrent, Current
<1>3. ASSUME NEW c \in Call PROVE ReceiptExpires(c)'
  <2> DEFINE answer == cached[c].value
  <2>. SUFFICES ASSUME answer[1] \in Doc, ~raced'
                PROVE  /\ answer[2] \in 1..MaxVersion
                       /\ cached[c].until <= monotonic + Ttl
                       /\ cached[c].until <= replaced'[answer[1]][answer[2]] + Ttl
    BY DEF ReceiptExpires
  <2>1. /\ answer[2] \in 1..MaxVersion /\ cached[c].until <= monotonic + Ttl
        /\ cached[c].until <= replaced[answer[1]][answer[2]] + Ttl
    BY DEF ReceiptInv, ReceiptExpires
  <2>2. cached[c].until \in Nat
    BY DEF ReceiptInv
  <2>. HIDE DEF answer
  <2>. QED
    BY <1>1, <2>1, <2>2
<1>. QED
  BY <1>2, <1>3 DEF ReceiptInv

LEMMA RacedStays ==
    ASSUME IndexTypes, NEW i \in Indexer, Ingest(i) PROVE raced => raced'
<1>1. ASSUME NEW d \in Doc, Examine(i, d) PROVE raced => raced'
  <2>1. raced' = raced \/ raced' = (raced \/ \E j \in Indexer \ {i} : Ingesting(j))
    BY <1>1 DEF Examine
  <2>. QED
    BY <2>1, Zenon
<1>2. CASE Parse(i) \/ ParseFails(i) \/ DeleteChunks(i) \/ UpsertDocument(i) \/ InsertChunks(i) \/ Commit(i)
  BY <1>2 DEF Parse, ParseFails, DeleteChunks, UpsertDocument, InsertChunks, Commit
<1>. QED
  BY <1>1, <1>2 DEF Ingest

LEMMA SameReceipts ==
    ASSUME IndexTypes, ReceiptInv, UNCHANGED <<executorVars, replaced>>, raced => raced'
    PROVE  ReceiptInv'
<1>1. \A d \in Doc, v \in 1..MaxVersion : replaced[d][v] \in Nat
  BY DEF IndexTypes
<1>2. UNCHANGED <<monotonic, cached, doing, phase, value, replaced>>
  BY DEF executorVars
<1>3. \A d \in Doc, v \in 1..MaxVersion : replaced'[d][v] \in Nat /\ replaced'[d][v] >= replaced[d][v]
  BY <1>1, <1>2
<1>. QED
  BY <1>2, <1>3, ReceiptsStay

LEMMA EditReceipts ==
    ASSUME IndexTypes, ReceiptInv, NEW d \in Doc, EditStep(d) PROVE ReceiptInv'
<1>. USE Ticks
<1>1. /\ UNCHANGED <<monotonic, cached, doing, phase, value, raced>>
      /\ \/ replaced' = [replaced EXCEPT ![d] =
               [v \in 1..MaxVersion |-> IF v <= written[d] /\ @[v] = Never THEN monotonic ELSE @[v]]]
         \/ replaced' = [replaced EXCEPT ![d] = [v \in 1..MaxVersion |-> Never]]
  BY DEF EditStep, WriteFile, RemoveFile, executorVars
<1>2. ASSUME NEW e \in Doc, NEW v \in 1..MaxVersion
      PROVE  /\ replaced'[e][v] >= replaced[e][v] \/ replaced'[e][v] >= monotonic
             /\ replaced'[e][v] \in Nat
  <2>1. /\ replaced \in [Doc -> [1..MaxVersion -> Nat]] /\ monotonic \in Nat /\ Never >= monotonic
        /\ replaced[e][v] \in Nat
    BY DEF IndexTypes
  <2>2. replaced'[e][v] \in {replaced[e][v], monotonic, Never}
    <3>1. CASE e = d
      BY <1>1, <2>1, <3>1
    <3>2. CASE e # d
      BY <1>1, <2>1, <3>2
    <3>. QED
      BY <3>1, <3>2
  <2>. QED
    BY <2>1, <2>2
<1>. QED
  BY <1>1, <1>2, ReceiptsStay

\* A step of one worker that stores nothing.
LEMMA WorkerInv ==
    ASSUME ReceiptInv, NEW w \in Worker, UNCHANGED <<monotonic, cached, raced, replaced>>,
           value' \in [Worker -> Receipt],
           \A u \in Worker \ {w} : doing'[u] = doing[u] /\ phase'[u] = phase[u] /\ value'[u] = value[u],
           AnswerIsCurrent(w)'
    PROVE  ReceiptInv'
<1>1. ASSUME NEW u \in Worker PROVE AnswerIsCurrent(u)'
  <2>1. CASE u # w
    BY <2>1 DEF ReceiptInv, AnswerIsCurrent, Current
  <2>. QED
    BY <2>1
<1>2. ASSUME NEW c \in Call PROVE ReceiptExpires(c)'
  BY DEF ReceiptInv, ReceiptExpires
<1>. QED
  BY <1>1, <1>2 DEF ReceiptInv

LEMMA EndsReceipts ==
    ASSUME WindowInv, ReceiptInv, NEW w \in Worker, NEW v \in Receipt, phase[w] = "running", ToolEnds(w, v),
           UNCHANGED <<raced, replaced>>,
           v[1] \in Doc => doing[w] = "ask" /\ (raced \/ Current(v[1], v[2]))
    PROVE  ReceiptInv'
<1>1. /\ phase' = [phase EXCEPT ![w] = "ended"] /\ value' = [value EXCEPT ![w] = v]
      /\ UNCHANGED <<monotonic, cached, doing>>
  BY DEF ToolEnds
<1>2. /\ value' \in [Worker -> Receipt] /\ value'[w] = v /\ phase'[w] = "ended"
      /\ \A u \in Worker \ {w} : phase'[u] = phase[u] /\ value'[u] = value[u]
  BY <1>1 DEF ReceiptInv, WindowInv
<1>3. AnswerIsCurrent(w)'
  BY <1>1, <1>2 DEF AnswerIsCurrent, Current
<1>. QED
  BY <1>1, <1>2, <1>3, WorkerInv

\* The receipt a worker holds goes on being its own while its call goes on.
LEMMA HoldsReceipt ==
    ASSUME WindowInv, ReceiptInv, NEW w \in Worker, NEW p \in {"running", "raised"},
           phase[w] # "idle", phase' = [phase EXCEPT ![w] = p],
           UNCHANGED <<monotonic, cached, doing, value, raced, replaced>>
    PROVE  ReceiptInv'
<1>1. phase'[w] = p /\ \A u \in Worker \ {w} : phase'[u] = phase[u]
  BY DEF WindowInv
<1>2. AnswerIsCurrent(w)'
  BY <1>1 DEF ReceiptInv, AnswerIsCurrent, Current
<1>. QED
  BY <1>1, <1>2, WorkerInv DEF ReceiptInv

LEMMA StartsReceipts ==
    ASSUME WindowInv, ReceiptInv, NEW w \in Worker, NEW c \in Call, Execute(w, c), UNCHANGED <<raced, replaced>>
    PROVE  ReceiptInv'
<1>1. /\ phase[w] = "idle" /\ phase' = [phase EXCEPT ![w] = "running"] /\ doing' = [doing EXCEPT ![w] = c]
      /\ UNCHANGED <<monotonic, cached, value>>
  BY DEF Execute
<1>2. \A u \in Worker \ {w} : phase'[u] = phase[u] /\ doing'[u] = doing[u]
  BY <1>1 DEF WindowInv
<1>3. AnswerIsCurrent(w)'
  BY <1>1 DEF ReceiptInv, AnswerIsCurrent
<1>. QED
  BY <1>1, <1>2, <1>3, WorkerInv DEF ReceiptInv

LEMMA LeavesReceipts ==
    ASSUME WindowInv, ReceiptInv, NEW w \in Worker, Leaves(w), UNCHANGED <<monotonic, cached, raced, replaced>>
    PROVE  ReceiptInv'
<1>1. /\ doing' = [doing EXCEPT ![w] = Idle] /\ phase' = [phase EXCEPT ![w] = "idle"]
      /\ value' = [value EXCEPT ![w] = Nothing]
  BY DEF Leaves
<1>2. /\ value' \in [Worker -> Receipt] /\ value'[w] = Nothing
      /\ \A u \in Worker \ {w} : phase'[u] = phase[u] /\ doing'[u] = doing[u] /\ value'[u] = value[u]
  BY <1>1, NothingIsAboutNoDocument DEF ReceiptInv, WindowInv
<1>3. AnswerIsCurrent(w)'
  BY <1>2, NothingIsAboutNoDocument DEF AnswerIsCurrent
<1>. QED
  BY <1>2, <1>3, WorkerInv

\* A receipt of a document lives from this tick on, for the lifetime of answers.
LEMMA StoreReceipts ==
    ASSUME IndexTypes, WindowInv, ReceiptInv, NEW w \in Worker, Store(w), UNCHANGED <<raced, replaced>>
    PROVE  ReceiptInv'
<1>. USE Ticks
<1> DEFINE new == [until |-> monotonic + TtlOf(doing[w]), value |-> value[w]]
<1>1. /\ phase[w] = "ended" /\ doing[w] \in Call /\ Leaves(w)
      /\ cached' = [cached EXCEPT ![doing[w]] = new] /\ UNCHANGED monotonic
  BY DEF Store, WindowInv
<1>2. /\ doing' = [doing EXCEPT ![w] = Idle] /\ phase' = [phase EXCEPT ![w] = "idle"]
      /\ value' = [value EXCEPT ![w] = Nothing]
  BY <1>1 DEF Leaves
<1>3. /\ value' \in [Worker -> Receipt] /\ value'[w] = Nothing
      /\ \A u \in Worker \ {w} : phase'[u] = phase[u] /\ doing'[u] = doing[u] /\ value'[u] = value[u]
  BY <1>2, NothingIsAboutNoDocument DEF ReceiptInv, WindowInv
<1>4. ASSUME NEW u \in Worker PROVE AnswerIsCurrent(u)'
  <2>1. CASE u = w
    BY <1>3, <2>1, NothingIsAboutNoDocument DEF AnswerIsCurrent
  <2>2. CASE u # w
    BY <1>1, <1>3, <2>2 DEF ReceiptInv, AnswerIsCurrent, Current
  <2>. QED
    BY <2>1, <2>2
<1>5. monotonic \in Nat /\ TtlOf(doing[w]) \in Nat /\ value[w] \in Receipt
  BY Durations DEF IndexTypes, ReceiptInv
<1>6. new \in [until : Nat, value : Receipt]
  BY <1>5
<1>7. ASSUME value[w][1] \in Doc
      PROVE  \/ raced
             \/ /\ value[w][2] \in 1..MaxVersion
                /\ new.until <= monotonic + Ttl /\ new.until <= replaced[value[w][1]][value[w][2]] + Ttl
  <2>1. doing[w] = "ask" /\ (raced \/ Current(value[w][1], value[w][2]))
    BY <1>7 DEF ReceiptInv, AnswerIsCurrent
  <2>2. new.until = monotonic + Ttl
    BY <2>1, ToolboxAssumption DEF TtlOf
  <2>3. ASSUME Current(value[w][1], value[w][2])
        PROVE  monotonic + Ttl <= replaced[value[w][1]][value[w][2]] + Ttl
    <3>1. replaced[value[w][1]][value[w][2]] \in Nat
      BY <1>7, <2>3 DEF Current, IndexTypes
    <3>. QED
      BY <1>5, <2>3, <3>1 DEF Current
  <2>. QED
    BY <1>5, <2>1, <2>2, <2>3 DEF Current
<1>. HIDE DEF new
<1>8. /\ cached' \in [Call -> [until : Nat, value : Receipt]] /\ cached'[doing[w]] = new
      /\ \A c \in Call \ {doing[w]} : cached'[c] = cached[c]
  BY <1>1, <1>6 DEF ReceiptInv
<1>9. ASSUME NEW c \in Call PROVE ReceiptExpires(c)'
  <2>1. CASE c = doing[w]
    <3>1. cached'[c].value = value[w] /\ cached'[c].until = new.until
      BY <1>8, <2>1 DEF new
    <3>. QED
      BY <1>1, <1>7, <3>1 DEF ReceiptExpires
  <2>2. CASE c # doing[w]
    BY <1>1, <1>8, <2>2 DEF ReceiptInv, ReceiptExpires
  <2>. QED
    BY <2>1, <2>2
<1>. QED
  BY <1>3, <1>4, <1>8, <1>9 DEF ReceiptInv

\* Nobody holds a receipt while time passes; what is dropped shows nothing.
LEMMA PassReceipts ==
    ASSUME IndexTypes, ReceiptInv, Pass, UNCHANGED <<raced, replaced>> PROVE ReceiptInv'
<1>. USE Ticks
<1>1. /\ monotonic' = monotonic + 1 /\ monotonic \in Nat
      /\ cached' = [c \in Call |-> IF cached[c].until > monotonic' THEN cached[c] ELSE Empty]
      /\ UNCHANGED <<doing, phase, value>> /\ \A w \in Worker : phase[w] = "idle"
  BY DEF Pass, IndexTypes
<1>2. ASSUME NEW w \in Worker PROVE AnswerIsCurrent(w)'
  BY <1>1 DEF ReceiptInv, AnswerIsCurrent
<1>3. cached' \in [Call -> [until : Nat, value : Receipt]]
  BY <1>1, EmptyReceipt DEF ReceiptInv
<1>4. ASSUME NEW c \in Call PROVE ReceiptExpires(c)'
  <2>1. CASE cached'[c] = Empty
    BY <2>1, EmptyReceipt, NothingIsAboutNoDocument DEF ReceiptExpires
  <2>2. CASE cached'[c] = cached[c]
    <3>1. cached[c].until \in Nat
      BY DEF ReceiptInv
    <3>. QED
      BY <1>1, <2>2, <3>1 DEF ReceiptInv, ReceiptExpires
  <2>. QED
    BY <1>1, <2>1, <2>2
<1>. QED
  BY <1>1, <1>2, <1>3, <1>4 DEF ReceiptInv

LEMMA CrashReceipts == ASSUME ReceiptInv, ExecutorCrash PROVE ReceiptInv'
<1>1. cached' = [c \in Call |-> Empty] /\ value' = [w \in Worker |-> Nothing]
  BY DEF ExecutorCrash
<1>. QED
  BY <1>1, NothingIsAboutNoDocument, EmptyReceipt DEF ReceiptInv, AnswerIsCurrent, ReceiptExpires

\* A query that has looked at every document finds versions of this tick only.
LEMMA AnswersAreCurrent ==
    ASSUME IndexInv, ToolIndexed, NEW v \in Found
    PROVE  v \in Receipt /\ v[1] \in Doc /\ (raced \/ Current(v[1], v[2]))
<1>1. PICK d \in Doc : row[d].chunks > 0 /\ v = <<d, row[d].chunks>>
  BY DEF Found
<1>2. row[d].chunks \in Nat /\ row[d].chunks # 0
  BY <1>1, Ranges, Ticks DEF IndexInv
<1>3. ASSUME ~raced PROVE Current(d, row[d].chunks)
  BY <1>2, <1>3 DEF IndexInv, IndexKept, LookedAt, ToolIndexed
<1>. QED
  BY <1>1, <1>2, <1>3 DEF Receipt

LEMMA ReceiptsNext ==
    ASSUME IndexInv, WindowInv, ReceiptInv, [ToolboxNext]_toolboxVars PROVE ReceiptInv'
<1>0. IndexTypes /\ "tool" \in Indexer /\ "admin" \in Indexer
  BY DEF IndexInv, Indexer
<1>1. CASE ExecutorStep
  <2>1. UNCHANGED <<raced, replaced>>
    BY <1>1 DEF ExecutorStep, tools, knowledgeVars
  <2>2. ASSUME NEW w \in Worker, NEW c \in Call, ExecuteFromCache(w, c) PROVE ReceiptInv'
    BY <1>0, <2>1, <2>2, SameReceipts DEF ExecuteFromCache
  <2>3. ASSUME NEW w \in Worker, RetryOrRaise(w) PROVE ReceiptInv'
    BY <2>1, <2>3, HoldsReceipt, LeavesReceipts DEF RetryOrRaise
  <2>4. ASSUME NEW w \in Worker, Cancelled(w) PROVE ReceiptInv'
    BY <2>1, <2>4, LeavesReceipts DEF Cancelled
  <2>. QED
    BY <1>0, <1>1, <2>1, <2>2, <2>3, <2>4, StartsReceipts, StoreReceipts DEF ExecutorStep
<1>2. CASE AdminStep
  <2>1. raced => raced'
    BY <1>0, <1>2, RacedStays DEF AdminStep, Reindex, Lists, ReindexEnds
  <2>. QED
    BY <1>0, <1>2, <2>1, SameReceipts DEF AdminStep
<1>3. CASE TimePasses
  BY <1>0, <1>3, PassReceipts DEF TimePasses, tools, knowledgeVars
<1>4. CASE ToolboxCrash
  BY <1>4, CrashReceipts DEF ToolboxCrash
<1>5. ASSUME NEW w \in Worker, TodoStep(w) PROVE ReceiptInv'
  <2>1. UNCHANGED <<raced, replaced>>
    BY <1>5 DEF TodoStep, knowledgeVars
  <2>2. ASSUME NEW c, Runs(w, c) PROVE c \in Call /\ phase[w] = "running"
    BY <2>2 DEF Runs, WindowInv
  <2>3. ASSUME NEW c, Runs(w, c), ToolEnds(w, <<c, 1>>) PROVE ReceiptInv'
    <3>1. <<c, 1>> \in Receipt /\ <<c, 1>>[1] \notin Doc
      BY <2>2, <2>3, ToolboxAssumption DEF Receipt
    <3>. QED
      BY <2>1, <2>2, <2>3, <3>1, EndsReceipts
  <2>4. ASSUME NEW c, Runs(w, c), ToolEnds(w, Nothing) PROVE ReceiptInv'
    BY <2>1, <2>2, <2>4, NothingIsAboutNoDocument, EndsReceipts
  <2>5. ASSUME NEW c, Runs(w, c), ToolRaises(w) PROVE ReceiptInv'
    BY <2>1, <2>2, <2>5, HoldsReceipt DEF ToolRaises
  <2>. QED
    BY <1>5, <2>3, <2>4, <2>5 DEF TodoStep, Mutates, Misses
<1>6. ASSUME NEW w \in Worker, AskStep(w) PROVE ReceiptInv'
  <2>1. phase[w] = "running" /\ doing[w] = "ask" /\ replaced' = replaced
    BY <1>6 DEF AskStep, Runs
  <2>2. CASE (Lists("tool") \/ Ingest("tool")) /\ UNCHANGED executorVars
    <3>1. raced => raced'
      BY <1>0, <2>2, RacedStays DEF Lists
    <3>. QED
      BY <1>0, <2>1, <2>2, <3>1, SameReceipts
  <2>3. ASSUME ToolIndexed, ToolLeaves, NEW v \in Found \cup {Nothing}, ToolEnds(w, v) PROVE ReceiptInv'
    <3>1. v \in Receipt /\ (v[1] \in Doc => raced \/ Current(v[1], v[2]))
      BY <2>3, AnswersAreCurrent, NothingIsAboutNoDocument
    <3>. QED
      BY <2>1, <2>3, <3>1, EndsReceipts DEF ToolLeaves
  <2>4. CASE ToolLeaves /\ ToolRaises(w)
    BY <2>1, <2>4, HoldsReceipt DEF ToolLeaves, ToolRaises
  <2>. QED
    BY <1>6, <2>2, <2>3, <2>4 DEF AskStep
<1>7. ASSUME NEW d \in Doc, EditStep(d) PROVE ReceiptInv'
  BY <1>0, <1>7, EditReceipts
<1>8. CASE UNCHANGED toolboxVars
  BY <1>0, <1>8, SameReceipts DEF toolboxVars, tools, knowledgeVars
<1>. QED
  BY <1>1, <1>2, <1>3, <1>4, <1>5, <1>6, <1>7, <1>8 DEF ToolboxNext

\* No receipt in the cache shows a version of a document since whose replacement
\* the cache's lifetime has passed, whatever edits, failed or forced ingestions,
\* retries and crashes come between: for any documents, workers and lifetimes
\* (KnowledgeTool's check of the modification times before every search, and the
\* executor's expiry of receipts); unless two ingestions overlapped.
THEOREM AnswersStayRecent == ToolboxSpec => []AnswersAreRecent
<1>1. ToolboxInit => IndexInv /\ WindowInv /\ ReceiptInv
  BY IndexStarts, WindowInitInv, ReceiptsStart DEF ToolboxInit
<1>2. IndexInv /\ WindowInv /\ ReceiptInv /\ [ToolboxNext]_toolboxVars => (IndexInv /\ WindowInv /\ ReceiptInv)'
  BY IndexKeptByAll, WindowNextInv, ReceiptsNext
<1>3. IndexInv /\ ReceiptInv => AnswersAreRecent
  <2>. SUFFICES ASSUME IndexInv, ReceiptInv, NEW c \in Call, Live(c), cached[c].value[1] \in Doc, ~raced
                PROVE  monotonic < replaced[cached[c].value[1]][cached[c].value[2]] + Ttl
    BY DEF AnswersAreRecent
  <2> DEFINE since == replaced[cached[c].value[1]][cached[c].value[2]]
  <2>1. cached[c].value[2] \in 1..MaxVersion /\ cached[c].until <= since + Ttl
    BY DEF ReceiptInv, ReceiptExpires
  <2>2. monotonic \in Nat /\ cached[c].until \in Nat /\ cached[c].until > monotonic /\ since \in Nat
    BY <2>1, Ticks DEF IndexInv, IndexTypes, ReceiptInv, Live
  <2>. HIDE DEF since
  <2>3. monotonic < since + Ttl
    BY <2>1, <2>2, Ticks
  <2>. QED
    BY <2>3 DEF since
<1>. QED
  BY <1>1, <1>2, <1>3, PTL DEF ToolboxSpec

------------------------------------------------------------------------------
(* The index and the files.                                                 *)

Replacing(i) == step[i] \in {"delete", "upsert", "insert", "commit"}

\* A document without chunks is not indexed, or about to get its chunks.
Whole ==
    /\ \A d \in Doc : saved[d].chunks = 0 => saved[d].mtime = 0
    /\ \A d \in Doc : row[d].chunks = 0 /\ row[d].mtime # 0 =>
        \E i \in Indexer : step[i] \in {"upsert", "insert"} /\ doc[i] = d
    /\ \A i \in Indexer : Replacing(i) => text[i] # 0

WholeInv == raced \/ Whole

\* Steps beside the replacement of a document.
LEMMA BesideWhole ==
    ASSUME WholeInv, UNCHANGED <<row, saved>>, raced => raced',
           \A i \in Indexer :
              \/ step'[i] = step[i] /\ doc'[i] = doc[i] /\ text'[i] = text[i]
              \/ ~Replacing(i) /\ ~Replacing(i)'
    PROVE  WholeInv'
BY DEF WholeInv, Whole, Replacing

LEMMA ReplacesWhole ==
    ASSUME IndexInv, WholeInv, NEW i \in Indexer, Ingest(i) PROVE WholeInv'
<1>1. IndexTypes /\ doc[i] \in Doc
  BY Ranges DEF IndexInv
<1>2. raced => raced'
  BY <1>1, RacedStays
<1>3. ASSUME NEW d \in Doc, Examine(i, d) PROVE WholeInv'
  <2>1. UNCHANGED <<row, saved, text>> /\ ~Replacing(i)
    BY <1>3 DEF Examine, index, Replacing
  <2>2. \A j \in Indexer : (step'[j] = step[j] /\ doc'[j] = doc[j]) \/ (j = i /\ step'[i] \in {step[i], "parse"})
    BY <1>1, <1>3 DEF Examine, Moves, IndexTypes, KnowledgeTypeOK
  <2>. QED
    BY <1>2, <2>1, <2>2, BesideWhole DEF Replacing
<1>4. CASE Parse(i)
  <2>1. /\ UNCHANGED <<row, saved, doc, raced>>
        /\ \A j \in Indexer \ {i} : step'[j] = step[j] /\ text'[j] = text[j]
        /\ step[i] = "parse" /\ step'[i] = "delete" /\ text'[i] # 0
    BY <1>1, <1>4 DEF Parse, Gone, Moves, index, IndexTypes, KnowledgeTypeOK
  <2>. QED
    BY <2>1 DEF WholeInv, Whole, Replacing
<1>5. CASE ParseFails(i)
  <2>1. /\ UNCHANGED <<row, saved, doc>>
        /\ \A j \in Indexer \ {i} : step'[j] = step[j] /\ text'[j] = text[j]
        /\ step[i] = "parse" /\ step'[i] \in {"failed", "next"}
    BY <1>1, <1>5 DEF ParseFails, DoneWith, Moves, index, IndexTypes, KnowledgeTypeOK
  <2>. QED
    BY <1>2, <2>1, BesideWhole DEF Replacing
<1>6. CASE DeleteChunks(i)
  <2>1. /\ UNCHANGED <<saved, doc, text, raced>>
        /\ \A j \in Indexer \ {i} : step'[j] = step[j]
        /\ step[i] = "delete" /\ step'[i] = "upsert"
        /\ \A d \in Doc \ {doc[i]} : row'[d] = row[d]
    BY <1>1, <1>6 DEF DeleteChunks, Moves, IndexTypes, KnowledgeTypeOK
  <2>. QED
    BY <2>1 DEF WholeInv, Whole, Replacing
<1>7. CASE UpsertDocument(i)
  <2>1. /\ UNCHANGED <<saved, doc, text, raced>>
        /\ \A j \in Indexer \ {i} : step'[j] = step[j]
        /\ step[i] = "upsert" /\ step'[i] = "insert"
        /\ \A d \in Doc \ {doc[i]} : row'[d] = row[d]
    BY <1>1, <1>7 DEF UpsertDocument, Moves, IndexTypes, KnowledgeTypeOK
  <2>. QED
    BY <2>1 DEF WholeInv, Whole, Replacing
<1>8. CASE InsertChunks(i) /\ ~raced
  <2>1. step[i] = "insert" /\ row[doc[i]].chunks = 0
    BY <1>8 DEF InsertChunks, IndexInv, IndexKept, IngestionKnows
  <2>2. /\ UNCHANGED <<saved, doc, text, raced>>
        /\ \A j \in Indexer \ {i} : step'[j] = step[j]
        /\ step'[i] = "commit" /\ row'[doc[i]].chunks = text[i]
        /\ \A d \in Doc \ {doc[i]} : row'[d] = row[d]
    BY <1>1, <1>8, <2>1 DEF InsertChunks, Moves, IndexTypes, KnowledgeTypeOK
  <2>. QED
    BY <1>1, <1>8, <2>1, <2>2 DEF WholeInv, Whole, Replacing
<1>9. CASE Commit(i) /\ ~raced
  <2>1. /\ UNCHANGED <<row, doc, raced>> /\ saved' = row
        /\ \A j \in Indexer \ {i} : step'[j] = step[j] /\ text'[j] = text[j]
        /\ step[i] = "commit" /\ step'[i] = "next"
    BY <1>1, <1>9 DEF Commit, DoneWith, Moves, IndexTypes, KnowledgeTypeOK
  <2>2. \A j \in Indexer : step[j] \notin {"upsert", "insert"}
    BY <1>9, <2>1 DEF IndexInv, IndexKept, Ingesting, Indexer
  <2>. QED
    BY <1>9, <2>1, <2>2 DEF WholeInv, Whole, Replacing
<1>. QED
  BY <1>2, <1>3, <1>4, <1>5, <1>6, <1>7, <1>8, <1>9 DEF Ingest, WholeInv

LEMMA WholeNext == ASSUME IndexInv, WholeInv, [ToolboxNext]_toolboxVars PROVE WholeInv'
<1>0. IndexTypes /\ "tool" \in Indexer /\ "admin" \in Indexer
  BY DEF IndexInv, Indexer
<1>1. CASE UNCHANGED knowledgeVars
  BY <1>1, BesideWhole DEF knowledgeVars
<1>2. ASSUME NEW i \in Indexer, Lists(i) PROVE WholeInv'
  <2>1. /\ UNCHANGED <<row, saved, doc, text, raced>>
        /\ \A j \in Indexer : step'[j] = step[j] \/ (j = i /\ step[i] = "idle" /\ step'[i] = "next")
    BY <1>0, <1>2 DEF Lists, Moves, index, IndexTypes, KnowledgeTypeOK
  <2>. QED
    BY <2>1, BesideWhole DEF Replacing
<1>3. ASSUME NEW i \in Indexer, step[i] \in {"next", "failed"}, Moves(i, "idle"),
             UNCHANGED <<index, doc, text, raced>>
      PROVE  WholeInv'
  <2>1. \A j \in Indexer : step'[j] = step[j] \/ (j = i /\ step'[i] = "idle")
    BY <1>0, <1>3 DEF Moves, IndexTypes, KnowledgeTypeOK
  <2>. QED
    BY <1>3, <2>1, BesideWhole DEF index, Replacing
<1>4. CASE ToolboxCrash
  <2>1. /\ row' = saved /\ UNCHANGED <<saved, raced>>
        /\ \A i \in Indexer : step'[i] = "idle"
    BY <1>4 DEF ToolboxCrash, KnowledgeCrash
  <2>. QED
    BY <2>1 DEF WholeInv, Whole, Replacing
<1>5. ASSUME NEW d \in Doc, EditStep(d) PROVE WholeInv'
  <2>1. UNCHANGED <<row, saved, step, doc, text, raced>>
    BY <1>5 DEF EditStep, WriteFile, RemoveFile, index
  <2>. QED
    BY <2>1, BesideWhole
<1>6. CASE AdminStep
  BY <1>0, <1>2, <1>3, <1>6, ReplacesWhole DEF AdminStep, Reindex, ReindexEnds
<1>7. ASSUME NEW w \in Worker, AskStep(w) PROVE WholeInv'
  BY <1>0, <1>2, <1>3, <1>7, ReplacesWhole DEF AskStep, ToolIndexed, ToolLeaves
<1>8. ExecutorStep \/ TimePasses \/ (\E w \in Worker : TodoStep(w)) => UNCHANGED knowledgeVars
  BY DEF ExecutorStep, TimePasses, TodoStep, tools
<1>. QED
  BY <1>1, <1>4, <1>5, <1>6, <1>7, <1>8 DEF ToolboxNext, toolboxVars, tools

\* What the comment in vector_store.py claims does hold as long as no reindex
\* overlaps an ingestion of the tool: at rest, an indexed modification time vouches
\* for the indexed text, through failures, crashes and edits at any moment.
THEOREM IndexFollowsAlone == ToolboxSpec => [](raced \/ IndexFollowsFiles)
<1>1. ToolboxInit => IndexInv /\ WholeInv
  <2>1. ToolboxInit => Whole
    BY DEF ToolboxInit, KnowledgeInit, Whole, Replacing, NoRow
  <2>. QED
    BY <2>1, IndexStarts DEF WholeInv
<1>2. IndexInv /\ WholeInv /\ [ToolboxNext]_toolboxVars => (IndexInv /\ WholeInv)'
  BY IndexKeptByAll, WholeNext
<1>3. IndexInv /\ WholeInv => raced \/ IndexFollowsFiles
  <2>. SUFFICES ASSUME IndexInv, WholeInv, ~raced, \A i \in Indexer : step[i] = "idle",
                       NEW d \in Doc, file[d] > 0, row[d].mtime = file[d]
                PROVE  row[d].chunks = file[d]
    BY DEF IndexFollowsFiles
  <2>1. file[d] = written[d] /\ file[d] \in Nat /\ row[d].chunks \in Nat /\ written[d] \in Nat
    BY Ranges, Ticks DEF IndexInv, NewestIsUnreplaced
  <2>2. row[d].chunks # 0
    BY <2>1 DEF WholeInv, Whole
  <2>3. row[d].mtime <= row[d].chunks /\ row[d].chunks <= written[d]
    BY <2>1, <2>2 DEF IndexInv, IndexKept, Vouched
  <2>. QED
    BY <2>1, <2>3
<1>. QED
  BY <1>1, <1>2, <1>3, PTL DEF ToolboxSpec
===============================================================================
