-------------------------- MODULE SurroundingsProofs --------------------------
(***************************************************************************)
(* Proofs about what surrounds the agent: how a request becomes a call,    *)
(* and the components the program is measured and delivered with, which    *)
(* are the evaluation, the offline bundle and its services; and that every *)
(* component keeps its specification among the others.                     *)
(***************************************************************************)
EXTENDS Surroundings, RequestReader, OfflineBundle, SequenceTheorems, TLAPS

------------------------------------------------------------------------------
(* From a request to a call.                                                *)

\* The arguments of an intent's tool.
NamesOf ==
    [reminder_create |-> {"action", "id", "when", "scope"},
     todo_manage     |-> {"action", "id", "title", "title_query", "priority", "status"},
     schedule_manage |-> {"action", "id", "title", "title_query", "start_text", "end_text", "recurrence",
                          "weekdays", "range", "range_start", "range_end"},
     text_polish     |-> {"operation", "text", "tone"},
     knowledge_query |-> {"query", "question"},
     file_open       |-> {"query", "keyword"},
     meeting_process |-> {"source_path"},
     general_chat    |-> {"text"}]
ItemArguments == {"reminder_create", "todo_manage", "schedule_manage"}

LEMMA Intents ==
    Intent = ItemArguments \cup {"text_polish", "knowledge_query", "file_open", "meeting_process", "general_chat"}
BY DEF Intent, Anchored, ItemArguments

\* An answer of the model has the fields of its schema, and so has a blank one.
LEMMA AcceptedNames == ASSUME NEW i \in Intent, NEW a \in Fields(i) PROVE DOMAIN a = NamesOf[i]
<1>1. CASE i = "reminder_create"
  BY <1>1 DEF Fields, NamesOf
<1>2. CASE i = "todo_manage"
  BY <1>2 DEF Fields, NamesOf
<1>3. CASE i = "schedule_manage"
  BY <1>3 DEF Fields, NamesOf
<1>4. CASE i = "text_polish"
  BY <1>4 DEF Fields, NamesOf
<1>5. CASE i = "knowledge_query"
  BY <1>5 DEF Fields, NamesOf
<1>6. CASE i = "file_open"
  BY <1>6 DEF Fields, NamesOf
<1>7. CASE i = "meeting_process"
  BY <1>7 DEF Fields, NamesOf
<1>8. CASE i = "general_chat"
  BY <1>8 DEF Fields, NamesOf
<1>. QED
  BY <1>1, <1>2, <1>3, <1>4, <1>5, <1>6, <1>7, <1>8, Intents DEF ItemArguments

LEMMA BlankNames == ASSUME NEW i \in Intent PROVE DOMAIN Blank(i) = NamesOf[i]
<1>1. \E a \in Fields(i) : \A x \in DOMAIN a : a[x] = No
  <2>1. CASE i = "reminder_create"
    <3>1. [action |-> No, id |-> No, when |-> No, scope |-> No] \in Fields(i)
      BY <2>1 DEF Fields, ID, No
    <3>. QED
      BY <3>1
  <2>2. CASE i = "todo_manage"
    <3>1. [action |-> No, id |-> No, title |-> No, title_query |-> No, priority |-> No, status |-> No] \in Fields(i)
      BY <2>2 DEF Fields, ID, No
    <3>. QED
      BY <3>1
  <2>3. CASE i = "schedule_manage"
    <3>1. [action |-> No, id |-> No, title |-> No, title_query |-> No, start_text |-> No, end_text |-> No,
           recurrence |-> No, weekdays |-> No, range |-> No, range_start |-> No, range_end |-> No] \in Fields(i)
      BY <2>3 DEF Fields, ID, No
    <3>. QED
      BY <3>1
  <2>4. CASE i = "text_polish"
    <3>1. [operation |-> No, text |-> No, tone |-> No] \in Fields(i)
      BY <2>4 DEF Fields, No
    <3>. QED
      BY <3>1
  <2>5. CASE i = "knowledge_query"
    <3>1. [query |-> No, question |-> No] \in Fields(i)
      BY <2>5 DEF Fields, No
    <3>. QED
      BY <3>1
  <2>6. CASE i = "file_open"
    <3>1. [query |-> No, keyword |-> No] \in Fields(i)
      BY <2>6 DEF Fields, No
    <3>. QED
      BY <3>1
  <2>7. CASE i = "meeting_process"
    <3>1. [source_path |-> No] \in Fields(i)
      BY <2>7 DEF Fields, No
    <3>. QED
      BY <3>1
  <2>8. CASE i = "general_chat"
    <3>1. [text |-> No] \in Fields(i)
      BY <2>8 DEF Fields, No
    <3>. QED
      BY <3>1
  <2>. QED
    BY <2>1, <2>2, <2>3, <2>4, <2>5, <2>6, <2>7, <2>8, Intents DEF ItemArguments
<1>2. Blank(i) \in Fields(i)
  BY <1>1 DEF Blank
<1>. QED
  BY <1>2, AcceptedNames

LEMMA DerivedNames == ASSUME NEW f, NEW i \in Intent, NEW a \in Derived(f, i) PROVE DOMAIN a = NamesOf[i]
<1>. HIDE DEF Blank
<1>1. DOMAIN a = DOMAIN Blank(i)
  BY DEF Derived
<1>. QED
  BY <1>1, BlankNames

\* The wordings that name an item are anchored with it, or repaired afterwards.
LEMMA DerivedItem ==
    ASSUME NEW f \in {"complete to-do 1", "delete to-do 1"}, NEW a \in Derived(f, "todo_manage")
    PROVE  a.action \in {"complete", "delete"} /\ a.id = "1"
<1>1. DOMAIN Blank("todo_manage") = NamesOf["todo_manage"]
  BY BlankNames, Intents DEF ItemArguments
<1>2. /\ "todo_manage" \notin DOMAIN Aliases
      /\ f \notin CancelReminder /\ f \notin DeleteAllReminders /\ f \notin CancelScheduleTitle
  BY DEF Aliases, CancelReminder, DeleteAllReminders, CancelScheduleTitle
<1>3. CASE f = "complete to-do 1"
  <2>1. a = [Blank("todo_manage") EXCEPT !.action = "complete", !.id = "1"]
    BY <1>2, <1>3 DEF Derived
  <2>. QED
    BY <1>1, <2>1 DEF NamesOf
<1>4. CASE f = "delete to-do 1"
  <2>1. a = [Blank("todo_manage") EXCEPT !.action = "delete", !.id = "1"]
    BY <1>2, <1>4 DEF Derived
  <2>. QED
    BY <1>1, <2>1 DEF NamesOf
<1>. QED
  BY <1>3, <1>4

\* The normalizer of each tool.
LEMMA NormalizedBy ==
    ASSUME NEW f, NEW a
    PROVE  /\ Normalized(f, "reminder_create", a) = NormalizedReminder(f, a)
           /\ Normalized(f, "todo_manage", a) = TodoQueried(f, TodoUpdated(f, a))
           /\ Normalized(f, "schedule_manage", a) = NormalizedSchedule(f, ScheduleStarted(f, a))
           /\ Normalized(f, "text_polish", a) = NormalizedText(f, a)
<1>0. DOMAIN Aliases = {"knowledge_query", "file_open"}
  BY DEF Aliases
<1>1. ASSUME NEW i, i = "reminder_create" PROVE Normalized(f, i, a) = NormalizedReminder(f, a)
  <2>1. i \notin DOMAIN Aliases
    BY <1>0, <1>1
  <2>. QED
    BY <1>1, <2>1 DEF Normalized
<1>2. ASSUME NEW i, i = "todo_manage" PROVE Normalized(f, i, a) = NormalizedTodo(f, a)
  <2>1. i \notin DOMAIN Aliases
    BY <1>0, <1>2
  <2>. QED
    BY <1>2, <2>1 DEF Normalized
<1>3. ASSUME NEW i, i = "schedule_manage" PROVE Normalized(f, i, a) = NormalizedSchedule(f, ScheduleStarted(f, a))
  <2>1. i \notin DOMAIN Aliases
    BY <1>0, <1>3
  <2>. QED
    BY <1>3, <2>1 DEF Normalized
<1>4. ASSUME NEW i, i = "text_polish" PROVE Normalized(f, i, a) = NormalizedText(f, a)
  <2>1. i \notin DOMAIN Aliases
    BY <1>0, <1>4
  <2>. QED
    BY <1>4, <2>1 DEF Normalized
<1>. QED
  BY <1>1, <1>2, <1>3, <1>4 DEF NormalizedTodo

\* What is read of the time, and of the range, keeps the fields.
LEMMA StartedNames == ASSUME NEW f, NEW a PROVE DOMAIN ScheduleStarted(f, a) = DOMAIN a
<1>1. DOMAIN RangeMoved(a) = DOMAIN a
  BY DEF RangeMoved
<1>. HIDE DEF RangeMoved
<1>2. DOMAIN TimeRead(f, RangeMoved(a)) = DOMAIN RangeMoved(a)
  BY DEF TimeRead
<1>. QED
  BY <1>1, <1>2 DEF ScheduleStarted

LEMMA ItemOfWords ==
    ASSUME NEW f \in Literal, NEW a, DOMAIN a = NamesOf[ToolOfWords(f)],
           f \in {"complete to-do 1", "delete to-do 1"} => a.action \in {"complete", "delete"} /\ a.id = "1"
    PROVE  LET n == Normalized(f, ToolOfWords(f), a) IN
           {"action", "id"} \subseteq DOMAIN n /\ n.action \in Addressed /\ n.id = "1"
<1>1. CASE f \in CancelReminder \cup CompleteReminder
  <2>1. ToolOfWords(f) = "reminder_create"
    BY <1>1 DEF ToolOfWords
  <2>2. Normalized(f, ToolOfWords(f), a) = NormalizedReminder(f, a) /\ DOMAIN a = NamesOf["reminder_create"]
    BY <2>1, NormalizedBy
  <2>3. \/ NormalizedReminder(f, a) = [a EXCEPT !.action = "cancel", !.id = "1"]
        \/ NormalizedReminder(f, a) = [a EXCEPT !.action = "complete", !.id = "1"]
    <3>1. f \notin DeleteAllReminders /\ ~(f \in CancelReminder /\ f \in CompleteReminder)
      BY <1>1 DEF CancelReminder, CompleteReminder, DeleteAllReminders
    <3>2. CASE f \in CancelReminder
      BY <3>1, <3>2 DEF NormalizedReminder
    <3>3. CASE f \in CompleteReminder
      BY <3>1, <3>3 DEF NormalizedReminder
    <3>. QED
      BY <1>1, <3>2, <3>3
  <2>. QED
    BY <2>2, <2>3 DEF NamesOf, Addressed
<1>2. CASE f \in CancelSchedule
  <2>1. /\ ToolOfWords(f) = "schedule_manage" /\ f = "cancel schedule 1"
        /\ DOMAIN a = NamesOf["schedule_manage"]
    BY <1>2 DEF ToolOfWords, CancelSchedule, CancelReminder, CompleteReminder
  <2>2. Normalized(f, ToolOfWords(f), a) = NormalizedSchedule(f, ScheduleStarted(f, a))
    BY <2>1, NormalizedBy
  <2> DEFINE s == ScheduleStarted(f, a)
  <2>3. DOMAIN s = NamesOf["schedule_manage"]
    BY <2>1, StartedNames
  <2> HIDE DEF s
  <2>4. NormalizedSchedule(f, s) = [s EXCEPT !.action = "cancel", !.id = "1"]
    <3>1. f \notin CancelScheduleTitle /\ f \notin EveryWeek
      BY <2>1 DEF CancelScheduleTitle, EveryWeek
    <3>. QED
      BY <1>2, <2>1, <3>1 DEF NormalizedSchedule
  <2>5. Normalized(f, ToolOfWords(f), a) = [s EXCEPT !.action = "cancel", !.id = "1"]
    BY <2>2, <2>4, Zenon DEF s
  <2>. QED
    BY <2>3, <2>5 DEF NamesOf, Addressed
<1>3. CASE f \in TodoUpdateRequest \cup {"complete to-do 1", "delete to-do 1"}
  <2>1. ToolOfWords(f) = "todo_manage" /\ DOMAIN a = NamesOf["todo_manage"]
    BY <1>3 DEF ToolOfWords, CancelSchedule, CancelReminder, CompleteReminder, TodoUpdateRequest
  <2>2. Normalized(f, ToolOfWords(f), a) = TodoQueried(f, TodoUpdated(f, a))
    BY <2>1, NormalizedBy
  <2>3. /\ TodoUpdated(f, a).action \in {"update", "complete", "delete"} /\ TodoUpdated(f, a).id = "1"
        /\ DOMAIN TodoUpdated(f, a) = NamesOf["todo_manage"]
    <3>1. CASE f \in TodoUpdateRequest
      BY <2>1, <3>1 DEF TodoUpdated, NamesOf
    <3>2. CASE f \in {"complete to-do 1", "delete to-do 1"}
      BY <2>1, <3>2 DEF TodoUpdated, TodoUpdateRequest
    <3>. QED
      BY <1>3, <3>1, <3>2
  <2>4. TodoQueried(f, TodoUpdated(f, a)) = TodoUpdated(f, a)
    BY <2>3 DEF TodoQueried, No
  <2>. QED
    BY <2>2, <2>3, <2>4 DEF Addressed, NamesOf
<1>. QED
  BY <1>1, <1>2, <1>3 DEF Literal

\* How far the request has been read tells where its intent and arguments are from:
\* the client sets nothing before it confirms, and keeps what it does not set.
AfterRepair == {"normalized", "asking", "confirming", "confirmed", "cleared", "executing"}
ReaderInv ==
    /\ reading \notin {"received", "answered"} => intent \in Intent
    /\ reading = "anchored" => form \in Anchored[intent]
    /\ reading = "classified" => \A i \in Intent : form \notin Anchored[i]
    /\ reading = "extracted" =>
        /\ DOMAIN arguments = NamesOf[intent]
        /\ form \in {"complete to-do 1", "delete to-do 1"} /\ intent = "todo_manage" =>
            arguments.action \in {"complete", "delete"} /\ arguments.id = "1"
    /\ reading \notin {"confirmed", "cleared", "executing", "answered", "failed"} => supplied = {}
    /\ reading \in AfterRepair /\ form \in Literal /\ intent = ToolOfWords(form) =>
        /\ {"action", "id"} \subseteq DOMAIN arguments
        /\ "action" \notin supplied => arguments.action \in Addressed
        /\ "id" \notin supplied => arguments.id = "1"

LEMMA ReaderStarts == ASSUME ReaderInit PROVE ReaderInv
BY DEF ReaderInit, ReaderInv, AfterRepair

LEMMA ExtractsInv == ASSUME ReaderInv, DerivesArguments \/ ExtractsArguments PROVE ReaderInv'
<1>1. /\ reading \in {"anchored", "classified"} /\ reading' = "extracted" /\ intent \in Intent
      /\ form' = form /\ intent' = intent /\ supplied' = supplied /\ supplied = {}
      /\ arguments' \in Derived(form, intent) \/ arguments' \in Fields(intent)
  BY DEF DerivesArguments, ExtractsArguments, Reads, Accepted, ReaderInv
<1>2. DOMAIN arguments' = NamesOf[intent]
  BY <1>1, DerivedNames, AcceptedNames
<1>3. ASSUME form \in {"complete to-do 1", "delete to-do 1"}, intent = "todo_manage"
      PROVE  arguments'.action \in {"complete", "delete"} /\ arguments'.id = "1"
  <2>1. form \in Anchored["todo_manage"] /\ "todo_manage" \in Intent
    BY <1>3, Intents DEF Anchored, ItemArguments
  <2>2. reading = "anchored"
    BY <1>1, <2>1 DEF ReaderInv
  <2>3. Derived(form, "todo_manage") # {}
    BY <1>3 DEF Derived, Aliases
  <2>4. arguments' \in Derived(form, "todo_manage")
    BY <1>3, <2>2, <2>3 DEF DerivesArguments, ExtractsArguments
  <2>. QED
    BY <1>3, <2>4, DerivedItem
<1>. QED
  BY <1>1, <1>2, <1>3 DEF ReaderInv, AfterRepair

LEMMA NormalizesInv == ASSUME ReaderInv, NormalizesArguments PROVE ReaderInv'
<1>1. /\ reading = "extracted" /\ reading' = "normalized" /\ form' = form /\ intent' = intent
      /\ supplied' = supplied /\ supplied = {}
      /\ intent \in Intent /\ DOMAIN arguments = NamesOf[intent]
      /\ intent # "text_polish" => arguments' = Normalized(form, intent, arguments)
  BY DEF NormalizesArguments, Reads, ReaderInv
<1>2. ASSUME form \in Literal, intent = ToolOfWords(form)
      PROVE  /\ {"action", "id"} \subseteq DOMAIN arguments'
             /\ arguments'.action \in Addressed /\ arguments'.id = "1"
  <2>1. intent # "text_polish" /\ (form \in {"complete to-do 1", "delete to-do 1"} => intent = "todo_manage")
    BY <1>2 DEF ToolOfWords, CancelReminder, CompleteReminder, CancelSchedule
  <2>2. form \in {"complete to-do 1", "delete to-do 1"} =>
            arguments.action \in {"complete", "delete"} /\ arguments.id = "1"
    BY <1>1, <2>1 DEF ReaderInv
  <2>. QED
    BY <1>1, <1>2, <2>1, <2>2, ItemOfWords
<1>. QED
  BY <1>1, <1>2 DEF ReaderInv

LEMMA ReaderKept == ASSUME ReaderInv, [ReaderNext]_readerVars PROVE ReaderInv'
<1>1. CASE AnchorsIntent
  BY <1>1 DEF AnchorsIntent, Reads, ReaderInv, AfterRepair
<1>2. CASE ClassifiesIntent
  BY <1>2 DEF ClassifiesIntent, Reads, ReaderInv, AfterRepair
<1>3. CASE DerivesArguments \/ ExtractsArguments \/ NormalizesArguments
  BY <1>3, ExtractsInv, NormalizesInv
<1>4. CASE AsksOrAnswers
  <2>1. /\ UNCHANGED <<form, intent, arguments, supplied>>
        /\ \/ reading = "normalized" /\ reading' = "asking"
           \/ reading \in {"normalized", "confirmed"} /\ reading' = "answered"
    BY <1>4 DEF AsksOrAnswers, Reads, Continues
  <2>. QED
    BY <2>1 DEF ReaderInv, AfterRepair
<1>5. CASE Evaluates
  <2>1. /\ UNCHANGED <<form, intent, arguments, supplied>>
        /\ reading \in {"normalized", "confirmed"} /\ reading' \in {"failed", "confirming", "cleared"}
        /\ reading' = "confirming" => reading = "normalized"
    BY <1>5 DEF Evaluates, Proceeds, Continues
  <2>. QED
    BY <2>1 DEF ReaderInv, AfterRepair
<1>6. CASE UserConfirms
  <2>1. /\ reading \in {"asking", "confirming"} /\ reading' = "confirmed" /\ UNCHANGED <<form, intent>>
        /\ DOMAIN arguments' = DOMAIN arguments
        /\ \A x \in DOMAIN arguments : x \notin supplied' => arguments'[x] = arguments[x]
    BY <1>6 DEF UserConfirms
  <2>2. supplied = {}
    BY <2>1 DEF ReaderInv
  <2>. QED
    BY <2>1, <2>2 DEF ReaderInv, AfterRepair
<1>7. CASE RoutesCall
  <2>1. /\ reading = "cleared" /\ reading' \in {"failed", "executing"}
        /\ UNCHANGED <<form, intent, arguments, supplied>>
    BY <1>7 DEF RoutesCall
  <2>. QED
    BY <2>1 DEF ReaderInv, AfterRepair
<1>8. CASE UNCHANGED readerVars
  BY <1>8 DEF readerVars, ReaderInv
<1>. QED
  BY <1>1, <1>2, <1>3, <1>4, <1>5, <1>6, <1>7, <1>8 DEF ReaderNext

\* The item a literal request names is the one its tool is called with, whatever
\* the model answers, for any set of requests, roles, data classes and values that
\* a client may send: the words are read before the model is asked
\* (deterministic_pre_route_arguments) or put its answer right afterwards
\* (normalize_arguments), and a confirmation changes only what it names (confirm).
THEOREM NamedItemAlwaysWins == ReaderSpec => []NamedItemWins
<1>1. ReaderInv => NamedItemWins
  BY DEF ReaderInv, NamedItemWins, AfterRepair
<1>. QED
  BY <1>1, ReaderStarts, ReaderKept, PTL DEF ReaderSpec

\* What each tool's schema asks of its arguments.
LEMMA ValidBy ==
    ASSUME NEW a
    PROVE  /\ Valid("reminder_create", a) <=> a.action # No /\ (a.action \in Addressed => a.id # No)
           /\ Valid("todo_manage", a) <=>
                /\ a.action # No /\ (a.action \in Addressed => a.id # No)
                /\ a.action = "create" => a.title # No
                /\ a.action = "update" => {a.title, a.priority, a.status} # {No}
           /\ Valid("schedule_manage", a) <=>
                /\ a.action # No /\ (a.action \in Addressed => a.id # No)
                /\ a.action = "create" => a.title # No /\ a.start_text # No
                /\ a.recurrence = "weekly" => a.weekdays # No
                /\ a.range = "custom" => a.range_start # No /\ a.range_end # No
           /\ Valid("text_polish", a) <=> a.operation # No /\ a.text # No
           /\ Valid("knowledge_query", a) <=> a.query # No /\ a.question = No
           /\ Valid("file_open", a) <=> a.query # No /\ a.keyword = No
           /\ Valid("meeting_process", a) <=> a.source_path # No
<1>0. /\ DOMAIN Aliases = {"knowledge_query", "file_open"}
      /\ Aliases["knowledge_query"] = "question" /\ Aliases["file_open"] = "keyword"
      /\ Required["reminder_create"] = {"action"} /\ Required["todo_manage"] = {"action"}
      /\ Required["schedule_manage"] = {"action"} /\ Required["text_polish"] = {"operation", "text"}
      /\ Required["knowledge_query"] = {"query"} /\ Required["file_open"] = {"query"}
      /\ Required["meeting_process"] = {"source_path"}
  BY DEF Aliases, Required
<1>. HIDE DEF No, Addressed
<1>1. Valid("reminder_create", a) <=> a.action # No /\ (a.action \in Addressed => a.id # No)
  BY <1>0 DEF Valid
<1>2. Valid("todo_manage", a) <=>
        /\ a.action # No /\ (a.action \in Addressed => a.id # No)
        /\ a.action = "create" => a.title # No
        /\ a.action = "update" => {a.title, a.priority, a.status} # {No}
  BY <1>0 DEF Valid
<1>3. Valid("schedule_manage", a) <=>
        /\ a.action # No /\ (a.action \in Addressed => a.id # No)
        /\ a.action = "create" => a.title # No /\ a.start_text # No
        /\ a.recurrence = "weekly" => a.weekdays # No
        /\ a.range = "custom" => a.range_start # No /\ a.range_end # No
  BY <1>0 DEF Valid
<1>4. Valid("text_polish", a) <=> a.operation # No /\ a.text # No
  BY <1>0 DEF Valid
<1>5. Valid("knowledge_query", a) <=> a.query # No /\ a.question = No
  BY <1>0 DEF Valid
<1>6. Valid("file_open", a) <=> a.query # No /\ a.keyword = No
  BY <1>0 DEF Valid
<1>7. Valid("meeting_process", a) <=> a.source_path # No
  BY <1>0 DEF Valid
<1>. QED
  BY <1>1, <1>2, <1>3, <1>4, <1>5, <1>6, <1>7

\* Two wordings ask for what no repair can supply.
Unanswerable == {"set to-do 1 blue", "schedule weekly at 9"}

LEMMA ReminderStaysValid ==
    ASSUME NEW f, NEW a, DOMAIN a = NamesOf["reminder_create"], Valid("reminder_create", a)
    PROVE  Valid("reminder_create", NormalizedReminder(f, a))
<1> DEFINE n == NormalizedReminder(f, a)
<1>1. n.action # No /\ (n.action \in Addressed => n.id # No)
  <2>1. /\ f \in CancelReminder => f \notin CompleteReminder /\ f \notin DeleteAllReminders
        /\ f \in CompleteReminder => f \notin DeleteAllReminders
    BY DEF CancelReminder, CompleteReminder, DeleteAllReminders
  <2>2. a.action # No /\ (a.action \in Addressed => a.id # No)
    BY ValidBy
  <2>3. CASE f \in CancelReminder
    <3>1. n = [a EXCEPT !.action = "cancel", !.id = "1"]
      BY <2>1, <2>3 DEF NormalizedReminder
    <3>. QED
      BY <3>1 DEF NamesOf, No
  <2>4. CASE f \in CompleteReminder
    <3>1. n = [a EXCEPT !.action = "complete", !.id = "1"]
      BY <2>1, <2>4 DEF NormalizedReminder
    <3>. QED
      BY <3>1 DEF NamesOf, No
  <2>5. CASE f \in DeleteAllReminders
    <3>1. n = [a EXCEPT !.action = "delete_all"]
      BY <2>1, <2>5 DEF NormalizedReminder
    <3>. QED
      BY <3>1 DEF NamesOf, No, Addressed
  <2>6. CASE f \notin CancelReminder \cup CompleteReminder \cup DeleteAllReminders
    <3>1. f \notin CancelReminder /\ f \notin CompleteReminder /\ f \notin DeleteAllReminders
      BY <2>6
    <3>2. n.action = a.action /\ n.id = a.id
      <4>1. CASE a.action = "create"
        <5>1. n = [a EXCEPT !.scope = No, !.when = IF f \in ReminderTimeCue THEN "words" ELSE @]
          BY <2>6, <3>1, <4>1 DEF NormalizedReminder
        <5>. QED
          BY <5>1 DEF NamesOf
      <4>2. CASE a.action # "create"
        BY <3>1, <4>2 DEF NormalizedReminder
      <4>. QED
        BY <4>1, <4>2
    <3>. QED
      BY <2>2, <3>2
  <2>. QED
    BY <2>3, <2>4, <2>5, <2>6
<1>. HIDE DEF n
<1>2. Valid("reminder_create", n)
  BY <1>1, ValidBy
<1>. QED
  BY <1>2 DEF n

LEMMA TodoStaysValid ==
    ASSUME NEW f, NEW a, DOMAIN a = NamesOf["todo_manage"], Valid("todo_manage", a), f \notin Unanswerable
    PROVE  Valid("todo_manage", TodoQueried(f, TodoUpdated(f, a)))
<1> DEFINE u == TodoUpdated(f, a)
           n == TodoQueried(f, u)
<1>1. DOMAIN u = NamesOf["todo_manage"] /\ Valid("todo_manage", u)
  <2>1. CASE f \in TodoUpdateRequest
    <3>1. u = [a EXCEPT !.action = "update", !.id = "1", !.title = No, !.title_query = No,
                  !.priority = IF f = "set to-do 1 high" THEN "high" ELSE @,
                  !.status = IF f = "set to-do 1 completed" THEN "completed" ELSE @]
      BY <2>1 DEF TodoUpdated
    <3>2. f \in {"set to-do 1 high", "set to-do 1 completed"}
      BY <2>1 DEF TodoUpdateRequest, Unanswerable
    <3>3. /\ DOMAIN u = NamesOf["todo_manage"] /\ u.action = "update" /\ u.id = "1"
          /\ u.priority = "high" \/ u.status = "completed"
      BY <3>1, <3>2 DEF NamesOf
    <3>. HIDE DEF u
    <3>4. {u.title, u.priority, u.status} # {No}
      BY <3>3 DEF No
    <3>5. u.action # No /\ u.id # No /\ u.action # "create"
      BY <3>3 DEF No
    <3>. QED
      BY <3>3, <3>4, <3>5, ValidBy
  <2>2. CASE f \notin TodoUpdateRequest
    BY <2>2 DEF TodoUpdated
  <2>. QED
    BY <2>1, <2>2
<1>. HIDE DEF u
<1>2. /\ u.action # No /\ (u.action \in Addressed => u.id # No)
      /\ u.action = "create" => u.title # No
      /\ u.action = "update" => {u.title, u.priority, u.status} # {No}
  BY <1>1, ValidBy
<1>3. n = u \/ (u.action = "query" /\ n.action = "query")
  <2>1. ~(u.action \in {"complete", "delete", "update"} /\ u.id = No /\ u.title_query # No)
    BY <1>2 DEF Addressed
  <2>2. CASE u.action = "query" /\ f = "show completed to-dos"
    <3>1. n = [u EXCEPT !.status = "completed", !.title_query = IF @ = "sentence" THEN No ELSE @]
      BY <2>1, <2>2 DEF TodoQueried
    <3>. QED
      BY <1>1, <2>2, <3>1 DEF NamesOf
  <2>3. CASE ~(u.action = "query" /\ f = "show completed to-dos")
    BY <2>1, <2>3 DEF TodoQueried
  <2>. QED
    BY <2>2, <2>3
<1>. HIDE DEF n
<1>4. Valid("todo_manage", n)
  <2>1. CASE n = u
    BY <1>1, <2>1
  <2>2. CASE n.action = "query"
    BY <2>2, ValidBy DEF No, Addressed
  <2>. QED
    BY <1>3, <2>1, <2>2
<1>. QED
  BY <1>4 DEF n, u

\* What a schedule's arguments must satisfy, and what neither the time that is read
\* nor the range that is moved breaks.
ScheduleFits(a) ==
    /\ a.action # No /\ (a.action \in Addressed => a.id # No)
    /\ a.action = "create" => a.title # No /\ a.start_text # No
    /\ a.recurrence = "weekly" => a.weekdays # No
    /\ a.range = "custom" => a.range_start # No /\ a.range_end # No

LEMMA ScheduleStartedFits ==
    ASSUME NEW f, NEW a, DOMAIN a = NamesOf["schedule_manage"], ScheduleFits(a),
           ~(a.action = "create" /\ a.range = "custom")
    PROVE  DOMAIN ScheduleStarted(f, a) = NamesOf["schedule_manage"] /\ ScheduleFits(ScheduleStarted(f, a))
<1> DEFINE r == RangeMoved(a)
           s == TimeRead(f, r)
<1>1. /\ DOMAIN r = NamesOf["schedule_manage"] /\ ScheduleFits(r)
      /\ r.action = "create" => r.range # "custom"
  <2>1. CASE a.action = "create"
    <3>1. r = [a EXCEPT !.end_text = IF @ = No THEN a.range_end ELSE @, !.range_end = No]
      BY <2>1 DEF RangeMoved
    <3>2. /\ DOMAIN r = DOMAIN a /\ r.action = a.action /\ r.id = a.id /\ r.title = a.title
          /\ r.start_text = a.start_text /\ r.recurrence = a.recurrence /\ r.weekdays = a.weekdays
          /\ r.range = a.range
      BY <3>1 DEF NamesOf
    <3>. HIDE DEF r
    <3>. QED
      BY <2>1, <3>2 DEF ScheduleFits
  <2>2. CASE a.action # "create"
    BY <2>2 DEF RangeMoved
  <2>. QED
    BY <2>1, <2>2
<1>. HIDE DEF r
<1>2. DOMAIN s = NamesOf["schedule_manage"] /\ ScheduleFits(s)
  <2>1. CASE s = r
    BY <1>1, <2>1
  <2>2. CASE s = [r EXCEPT !.start_text = "words", !.title = IF @ = No THEN "words" ELSE @]
    <3>1. /\ DOMAIN s = DOMAIN r /\ s.action = r.action /\ s.id = r.id
          /\ s.recurrence = r.recurrence /\ s.weekdays = r.weekdays
          /\ s.range = r.range /\ s.range_start = r.range_start /\ s.range_end = r.range_end
          /\ s.start_text = "words" /\ s.title = IF r.title = No THEN "words" ELSE r.title
      BY <1>1, <2>2 DEF NamesOf
    <3>. HIDE DEF s
    <3>. QED
      BY <1>1, <3>1 DEF ScheduleFits, No
  <2>. QED
    BY <2>1, <2>2 DEF TimeRead
<1>. QED
  BY <1>2 DEF ScheduleStarted, r

LEMMA ScheduleStaysValid ==
    ASSUME NEW f, NEW a, DOMAIN a = NamesOf["schedule_manage"], Valid("schedule_manage", a), f \notin Unanswerable,
           ~(a.action = "create" /\ a.range = "custom")
    PROVE  Valid("schedule_manage", NormalizedSchedule(f, ScheduleStarted(f, a)))
<1> DEFINE s == ScheduleStarted(f, a)
           n == NormalizedSchedule(f, s)
<1>1. ScheduleFits(a)
  BY ValidBy DEF ScheduleFits
<1>2. DOMAIN s = NamesOf["schedule_manage"] /\ ScheduleFits(s)
  BY <1>1, ScheduleStartedFits
<1>. HIDE DEF s
<1>3. ScheduleFits(n)
  <2>1. /\ f \in CancelSchedule => f \notin CancelScheduleTitle
        /\ f \in CancelSchedule \/ f \in CancelScheduleTitle => f \notin EveryWeek /\ f # "today's schedule"
        /\ f \in EveryWeek => f # "today's schedule"
    BY DEF CancelSchedule, CancelScheduleTitle, EveryWeek
  <2> DEFINE Others == /\ n.range = s.range /\ n.range_start = s.range_start /\ n.range_end = s.range_end
  <2>2. CASE f \in CancelSchedule
    <3>1. n = [s EXCEPT !.action = "cancel", !.id = "1"]
      BY <2>1, <2>2 DEF NormalizedSchedule
    <3>2. /\ n.action = "cancel" /\ n.id = "1"
          /\ n.recurrence = s.recurrence /\ n.weekdays = s.weekdays /\ Others
      BY <1>2, <3>1 DEF NamesOf
    <3>. HIDE DEF n
    <3>. QED
      BY <1>2, <3>2 DEF No, ScheduleFits
  <2>3. CASE f \in CancelScheduleTitle
    <3>1. n = [s EXCEPT !.action = "query", !.title_query = "words", !.id = No, !.title = No]
      BY <2>1, <2>3 DEF NormalizedSchedule
    <3>2. n.action = "query" /\ n.recurrence = s.recurrence /\ n.weekdays = s.weekdays /\ Others
      BY <1>2, <3>1 DEF NamesOf
    <3>. HIDE DEF n
    <3>. QED
      BY <1>2, <3>2 DEF No, Addressed, ScheduleFits
  <2>4. CASE f \in EveryWeek /\ s.action = "create"
    <3>1. f = "schedule every Monday at 9" /\ f \notin CancelSchedule /\ f \notin CancelScheduleTitle
      BY <2>1, <2>4 DEF EveryWeek, Unanswerable
    <3>2. n = [s EXCEPT !.recurrence = "weekly",
                  !.weekdays = IF f = "schedule every Monday at 9" THEN "words" ELSE @]
      BY <2>1, <2>4, <3>1 DEF NormalizedSchedule
    <3>3. /\ n.action = s.action /\ n.title = s.title /\ n.start_text = s.start_text
          /\ n.weekdays = "words" /\ Others
      BY <1>2, <3>1, <3>2 DEF NamesOf
    <3>. HIDE DEF n
    <3>. QED
      BY <1>2, <2>4, <3>3 DEF No, Addressed, ScheduleFits
  <2>5. CASE /\ f \notin CancelSchedule /\ f \notin CancelScheduleTitle /\ ~(s.action = "create" /\ f \in EveryWeek)
    <3>1. CASE s.action = "query" /\ s.range = No /\ f = "today's schedule"
      <4>1. n = [s EXCEPT !.range = "today"]
        BY <2>5, <3>1 DEF NormalizedSchedule
      <4>2. n.action = "query" /\ n.recurrence = s.recurrence /\ n.weekdays = s.weekdays /\ n.range = "today"
        BY <1>2, <3>1, <4>1 DEF NamesOf
      <4>. HIDE DEF n
      <4>. QED
        BY <1>2, <4>2 DEF No, Addressed, ScheduleFits
    <3>2. CASE ~(s.action = "query" /\ s.range = No /\ f = "today's schedule")
      <4>1. n = s
        BY <2>5, <3>2 DEF NormalizedSchedule
      <4>. QED
        BY <1>2, <4>1
    <3>. QED
      BY <3>1, <3>2
  <2>. QED
    BY <2>2, <2>3, <2>4, <2>5
<1>. HIDE DEF n
<1>4. Valid("schedule_manage", n)
  BY <1>3, ValidBy DEF ScheduleFits
<1>. QED
  BY <1>4 DEF n, s

LEMMA TextStaysValid ==
    ASSUME NEW f, NEW a, DOMAIN a = NamesOf["text_polish"], Valid("text_polish", a)
    PROVE  /\ Valid("text_polish", NormalizedText(f, a))
           /\ Valid("text_polish", [NormalizedText(f, a) EXCEPT !.text = "words"])
<1> DEFINE n == NormalizedText(f, a)
           w == [n EXCEPT !.text = "words"]
<1>1. a.operation # No /\ a.text # No
  BY ValidBy
<1>2. DOMAIN n = NamesOf["text_polish"] /\ n.operation # No /\ n.text # No
  <2>1. CASE n = a
    BY <1>1, <2>1
  <2>2. CASE n = [a EXCEPT !.operation = "summarize"]
    BY <1>1, <2>2 DEF NamesOf, No
  <2>3. CASE n = [a EXCEPT !.operation = "tone_adjust", !.tone = "formal"]
    BY <1>1, <2>3 DEF NamesOf, No
  <2>4. CASE n = [a EXCEPT !.operation = "tone_adjust"]
    BY <1>1, <2>4 DEF NamesOf, No
  <2>5. \/ n = a \/ n = [a EXCEPT !.operation = "summarize"]
        \/ n = [a EXCEPT !.operation = "tone_adjust", !.tone = "formal"]
        \/ n = [a EXCEPT !.operation = "tone_adjust"]
    BY DEF NormalizedText
  <2>. QED
    BY <2>1, <2>2, <2>3, <2>4, <2>5
<1>. HIDE DEF n
<1>3. w.operation # No /\ w.text # No
  BY <1>2 DEF NamesOf, No
<1>. HIDE DEF w
<1>4. Valid("text_polish", n) /\ Valid("text_polish", w)
  BY <1>2, <1>3, ValidBy
<1>. QED
  BY <1>4 DEF n, w

LEMMA SearchStaysValid ==
    ASSUME NEW f, NEW i, i \in {"knowledge_query", "file_open"}, NEW a, DOMAIN a = NamesOf[i], Valid(i, a)
    PROVE  Valid(i, Normalized(f, i, a))
<1> DEFINE alias == Aliases[i]
           u == Unaliased(i, a)
           n == Normalized(f, i, a)
<1>1. /\ alias = IF i = "knowledge_query" THEN "question" ELSE "keyword"
      /\ i \in DOMAIN Aliases /\ DOMAIN a = {"query", alias} /\ alias # "query"
  BY DEF Aliases, NamesOf
<1>2. a.query # No /\ a[alias] = No
  BY <1>1, ValidBy
<1>3. u = [a EXCEPT !.query = IF @ = No THEN a[alias] ELSE @, ![alias] = No]
  BY DEF Unaliased
<1>. HIDE DEF alias
<1>4. DOMAIN u = {"query", alias} /\ u.query = a.query /\ u[alias] = No
  BY <1>1, <1>2, <1>3
<1>. HIDE DEF u
<1>5. n = u \/ n = [u EXCEPT !.query = "words"]
  BY <1>1 DEF Normalized, u
<1>6. n.query # No /\ n[alias] = No
  BY <1>1, <1>2, <1>4, <1>5 DEF No
<1>. HIDE DEF n
<1>7. Valid(i, n)
  <2>1. CASE i = "knowledge_query"
    <3>1. Valid("knowledge_query", n)
      BY <1>1, <1>6, <2>1, ValidBy
    <3>. QED
      BY <2>1, <3>1
  <2>2. CASE i = "file_open"
    <3>1. Valid("file_open", n)
      BY <1>1, <1>6, <2>2, ValidBy
    <3>. QED
      BY <2>2, <3>1
  <2>. QED
    BY <2>1, <2>2
<1>. QED
  BY <1>7 DEF n

LEMMA OtherStaysValid ==
    ASSUME NEW f, NEW i, i \in {"meeting_process", "general_chat"}, NEW a, DOMAIN a = NamesOf[i], Valid(i, a)
    PROVE  Valid(i, Normalized(f, i, a))
<1>1. i \notin DOMAIN Aliases
  BY DEF Aliases
<1>2. \/ Normalized(f, i, a) = a
      \/ i = "meeting_process" /\ Normalized(f, i, a) = [a EXCEPT !.source_path = "words"]
  BY <1>1 DEF Normalized
<1>3. CASE Normalized(f, i, a) = a
  BY <1>3
<1>4. CASE i = "meeting_process" /\ Normalized(f, i, a) = [a EXCEPT !.source_path = "words"]
  <2>1. [a EXCEPT !.source_path = "words"].source_path # No
    BY <1>4 DEF NamesOf, No
  <2>. QED
    BY <1>4, <2>1, ValidBy
<1>. QED
  BY <1>2, <1>3, <1>4

\* The normalizer never turns arguments that the tool's schema takes into ones it
\* refuses, whatever the request and the answer, but for an update to an unknown
\* value, for "every week" without a day and for a creation with a custom range
\* (normalize_arguments).
THEOREM RepairsKeepWhatIsValid == ReaderSpec => RepairsDoNotBreak
<1> DEFINE StaysValid == reading = "extracted" /\ Valid(intent, arguments) =>
                              \/ Valid(intent, arguments') \/ form \in Unanswerable
                              \/ CustomRange(intent, arguments)
<1>1. ASSUME ReaderInv, [ReaderNext]_readerVars, reading = "extracted", Valid(intent, arguments),
             form \notin Unanswerable, ~CustomRange(intent, arguments)
      PROVE  Valid(intent, arguments')
  <2>1. CASE UNCHANGED readerVars
    BY <1>1, <2>1 DEF readerVars
  <2>2. CASE NormalizesArguments
    <3>1. /\ intent \in Intent /\ DOMAIN arguments = NamesOf[intent]
          /\ \/ arguments' = Normalized(form, intent, arguments)
             \/ /\ intent = "text_polish"
                /\ arguments' = [Normalized(form, intent, arguments) EXCEPT !.text = "words"]
      BY <1>1, <2>2 DEF NormalizesArguments, ReaderInv
    <3>2. CASE intent = "reminder_create"
      BY <1>1, <3>1, <3>2, NormalizedBy, ReminderStaysValid
    <3>3. CASE intent = "todo_manage"
      BY <1>1, <3>1, <3>3, NormalizedBy, TodoStaysValid
    <3>4. CASE intent = "schedule_manage"
      <4>1. ~(arguments.action = "create" /\ arguments.range = "custom")
        BY <1>1, <3>4 DEF CustomRange
      <4>. QED
        BY <1>1, <3>1, <3>4, <4>1, NormalizedBy, ScheduleStaysValid
    <3>5. CASE intent = "text_polish"
      <4>1. Normalized(form, intent, arguments) = NormalizedText(form, arguments)
        BY <3>5, NormalizedBy
      <4>2. /\ Valid(intent, NormalizedText(form, arguments))
            /\ Valid(intent, [NormalizedText(form, arguments) EXCEPT !.text = "words"])
        BY <1>1, <3>1, <3>5, TextStaysValid
      <4>. QED
        BY <3>1, <4>1, <4>2, Zenon
    <3>6. CASE intent \in {"knowledge_query", "file_open"}
      BY <1>1, <3>1, <3>6, SearchStaysValid
    <3>7. CASE intent \in {"meeting_process", "general_chat"}
      BY <1>1, <3>1, <3>7, OtherStaysValid
    <3>. QED
      BY <3>1, <3>2, <3>3, <3>4, <3>5, <3>6, <3>7, Intents DEF ItemArguments
  <2>3. ~(ReaderNext /\ ~NormalizesArguments)
    BY <1>1 DEF ReaderNext, AnchorsIntent, ClassifiesIntent, DerivesArguments, ExtractsArguments,
                AsksOrAnswers, Proceeds, Continues, Evaluates, UserConfirms, RoutesCall, Reads
  <2>. QED
    BY <1>1, <2>1, <2>2, <2>3
<1>2. ReaderInv /\ [ReaderNext]_readerVars => StaysValid
  BY <1>1
<1>. QED
  BY <1>2, ReaderStarts, ReaderKept, PTL DEF ReaderSpec, RepairsDoNotBreak, Unanswerable

------------------------------------------------------------------------------
(* The evaluation.                                                          *)

Texts == [Case -> Nat]
Expectations == [Case -> Reading \cup {"any"}]
LineError == AnyAnswer \cup {"none", "missing", "changed"}
Line == [case : Case, text : Nat, answer : AnyAnswer, error : LineError]
\* What a capture writes: the errors of a replay are never recorded.
RecordedLine == {line \in Line : line.error \notin {"missing", "changed"}}
RunInProgress == [mode : {"capture", "replay"}, detailed : BOOLEAN, baseline : BOOLEAN, text : Texts,
        expected : Expectations, source : SUBSET RecordedLine, lines : Seq(Line),
        written : BOOLEAN]

EvaluationTypes ==
    /\ inputText \in Texts /\ expected \in Expectations
    /\ \A i \in DOMAIN snapshotFile.lines : snapshotFile.lines[i] \in RecordedLine
    /\ job = None \/ job \in RunInProgress

\* The row of a line, and the line a replay takes, apart from the run in progress.
RowOf(line, detailed, wanted) ==
    LET error == IF line.error # "none" THEN line.error
                 ELSE IF line.answer \in Admitted(detailed) THEN "none" ELSE "invalid"
        parsed == error = "none"
        verdict == CASE wanted[line.case] = "any" -> "needs_review"
                     [] Repaired(line.case, line.answer) = wanted[line.case] -> "match"
                     [] OTHER -> "mismatch"
    IN [error    |-> error,
        schema   |-> parsed,
        exact    |-> parsed /\ wanted[line.case] \in {"any", line.answer},
        semantic |-> IF ~detailed THEN "none" ELSE IF parsed THEN verdict ELSE "mismatch",
        pipeline |-> IF detailed /\ parsed THEN PipelineOutcome(line.case, line.answer)
                     ELSE "not_run"]

ReplayOf(lines, texts, c) ==
    LET absent == [case |-> c, text |-> texts[c], answer |-> "unavailable", error |-> "missing"] IN
    IF ~Covers(lines, c) THEN absent
    ELSE LET line == SnapshotOf(lines, c) IN
         IF line.text = texts[c] THEN line
         ELSE [line EXCEPT !.answer = "unavailable", !.error = "changed"]

\* The last capture's rows are those of the lines on file.
FileIsCaptured ==
    captured # None =>
        /\ DOMAIN snapshotFile.lines = Case
        /\ \A c \in Case :
            /\ snapshotFile.lines[c].case = c
            /\ snapshotFile.lines[c].text = captured.text[c]
            /\ captured.rows[c] = RowOf(snapshotFile.lines[c], captured.detailed, captured.expected)

\* A run takes the cases in order, from the model or from the file as it is still.
TakenInOrder(j) ==
    /\ j.mode = "capture" =>
        /\ \A c \in 1..Len(j.lines) :
            j.lines[c] \in RecordedLine /\ j.lines[c].case = c /\ j.lines[c].text = j.text[c]
        /\ j.written => Len(j.lines) = LastCase /\ snapshotFile.lines = j.lines
    /\ j.mode = "replay" =>
        /\ j.source = Lines(snapshotFile)
        /\ \A c \in 1..Len(j.lines) : j.lines[c] = ReplayOf(j.source, j.text, c)
        /\ j.baseline =>
            /\ {line.case : line \in j.source} = Case
            /\ \A line \in j.source : line.text = j.text[line.case]

EvaluationInv ==
    /\ EvaluationTypes
    /\ FileIsCaptured
    /\ job # None => TakenInOrder(job)
    /\ ReplayAgrees

LEMMA OfTheRun ==
    /\ \A line : Row(line) = RowOf(line, job.detailed, job.expected)
    /\ \A c : ReplayedLine(c) = ReplayOf(job.source, job.text, c)
BY DEF Row, RowOf, ParseError, SemanticStatus, ReplayedLine, ReplayOf

\* A line that is found is one of the lines, for its case.
LEMMA FoundLine ==
    ASSUME NEW lines, NEW c, Covers(lines, c)
    PROVE  SnapshotOf(lines, c) \in lines /\ SnapshotOf(lines, c).case = c
BY DEF Covers, SnapshotOf

LEMMA ReplayedType ==
    ASSUME NEW lines \in SUBSET RecordedLine, NEW texts \in Texts, NEW c \in Case
    PROVE  ReplayOf(lines, texts, c) \in Line
<1>1. CASE ~Covers(lines, c)
  BY <1>1 DEF ReplayOf, Line, Texts, LineError, AnyAnswer
<1>2. CASE Covers(lines, c)
  <2> DEFINE line == SnapshotOf(lines, c)
  <2>1. line \in Line
    BY <1>2, FoundLine DEF RecordedLine
  <2> HIDE DEF line
  <2>2. [line EXCEPT !.answer = "unavailable", !.error = "changed"] \in Line
    BY <2>1 DEF Line, LineError, AnyAnswer
  <2>. QED
    BY <1>2, <2>1, <2>2 DEF ReplayOf, line
<1>. QED
  BY <1>1, <1>2

LEMMA EvaluationStarts == ASSUME EvaluationInit PROVE EvaluationInv
BY DEF EvaluationInit, EvaluationInv, EvaluationTypes, Texts, Expectations, FileIsCaptured,
    ReplayAgrees, None, Reading

LEMMA StartsRunInv == ASSUME EvaluationInv, StartsRun PROVE EvaluationInv'
<1>1. PICK mode \in {"capture", "replay"}, detailed \in BOOLEAN, baseline \in BOOLEAN :
        /\ baseline => FitsDataset(Lines(snapshotFile))
        /\ job' = [mode |-> mode, detailed |-> detailed, baseline |-> baseline,
                   text |-> inputText, expected |-> expected,
                   source |-> IF mode = "replay" THEN Lines(snapshotFile) ELSE {},
                   lines |-> <<>>, written |-> FALSE]
  BY DEF StartsRun
<1>2. UNCHANGED <<inputText, expected, snapshotFile, captured>> /\ report' = None
  BY DEF StartsRun
<1>3. EvaluationTypes'
  <2> DEFINE source == IF mode = "replay" THEN Lines(snapshotFile) ELSE {}
             q == <<>>
  <2>1. source \in SUBSET RecordedLine
    BY DEF EvaluationInv, EvaluationTypes, Lines
  <2>2. q \in Seq(Line)
    OBVIOUS
  <2> HIDE DEF source, q
  <2>3. [mode |-> mode, detailed |-> detailed, baseline |-> baseline, text |-> inputText,
         expected |-> expected, source |-> source, lines |-> q, written |-> FALSE] \in RunInProgress
    BY <2>1, <2>2 DEF RunInProgress, EvaluationInv, EvaluationTypes
  <2>4. job' \in RunInProgress
    BY <1>1, <2>3 DEF source, q
  <2>. QED
    BY <1>2, <2>4 DEF EvaluationInv, EvaluationTypes
<1>4. TakenInOrder(job)'
  BY <1>1, <1>2 DEF TakenInOrder, FitsDataset, Lines
<1>5. FileIsCaptured' /\ ReplayAgrees'
  BY <1>2 DEF EvaluationInv, FileIsCaptured, ReplayAgrees, None
<1>. QED
  BY <1>3, <1>4, <1>5 DEF EvaluationInv

LEMMA TakesCaseInv == ASSUME EvaluationInv, TakesCase PROVE EvaluationInv'
<1> DEFINE c == Len(job.lines) + 1
<1>1. job \in RunInProgress /\ TakenInOrder(job) /\ Len(job.lines) < LastCase /\ c \in Case
  BY EvaluationAssumption DEF EvaluationInv, EvaluationTypes, TakesCase, RunInProgress, Case
<1>2. PICK line : /\ job' = [job EXCEPT !.lines = Append(@, line)]
                  /\ job.mode = "replay" => line = ReplayOf(job.source, job.text, c)
                  /\ job.mode # "replay" => \E answer \in ModelAnswer : line = CapturedLine(c, answer)
  BY OfTheRun DEF TakesCase
<1>3. UNCHANGED <<inputText, expected, snapshotFile, report, captured>>
  BY DEF TakesCase
<1>4. /\ line \in Line
      /\ job.mode = "capture" => line \in RecordedLine /\ line.case = c /\ line.text = job.text[c]
  <2>1. CASE job.mode = "replay"
    BY <1>1, <1>2, <2>1, ReplayedType DEF RunInProgress
  <2>2. CASE job.mode = "capture"
    <3>1. PICK answer \in AnyAnswer : line = CapturedLine(c, answer)
      BY <1>2, <2>2, EvaluationAssumption
    <3>2. line.error \in AnyAnswer \cup {"none"} /\ line.text = job.text[c] /\ job.text[c] \in Nat
      BY <1>1, <3>1 DEF CapturedLine, RunInProgress, Texts
    <3>. QED
      BY <1>1, <3>1, <3>2 DEF CapturedLine, RecordedLine, Line, LineError, AnyAnswer, Reading
  <2>. QED
    BY <1>1, <2>1, <2>2 DEF RunInProgress
<1> DEFINE lines == Append(job.lines, line)
<1>5. /\ lines \in Seq(Line) /\ Len(lines) = c
      /\ \A i \in 1..Len(job.lines) : lines[i] = job.lines[i]
      /\ lines[c] = line /\ Len(job.lines) \in Nat
  BY <1>1, <1>4 DEF RunInProgress
<1>6. job' = [job EXCEPT !.lines = lines]
  BY <1>2
<1> HIDE DEF lines
<1>7. /\ job' \in RunInProgress /\ job'.lines = lines /\ job'.mode = job.mode /\ job'.text = job.text
      /\ job'.source = job.source /\ job'.baseline = job.baseline /\ job'.written = job.written
  BY <1>1, <1>5, <1>6 DEF RunInProgress
<1>8. \A i \in 1..Len(lines) : i \in 1..Len(job.lines) \/ i = c
  BY <1>5
<1>9. TakenInOrder(job)'
  <2>1. CASE job.mode = "capture"
    <3>1. ~job.written
      BY <1>1, <2>1 DEF TakenInOrder
    <3>2. \A i \in 1..Len(lines) :
            lines[i] \in RecordedLine /\ lines[i].case = i /\ lines[i].text = job.text[i]
      BY <1>1, <1>4, <1>5, <1>8, <2>1 DEF TakenInOrder
    <3>. QED
      BY <1>7, <2>1, <3>1, <3>2 DEF TakenInOrder
  <2>2. CASE job.mode = "replay"
    <3>1. \A i \in 1..Len(lines) : lines[i] = ReplayOf(job.source, job.text, i)
      BY <1>1, <1>2, <1>5, <1>8, <2>2 DEF TakenInOrder
    <3>2. job'.source = Lines(snapshotFile')
      BY <1>1, <1>3, <1>7, <2>2 DEF TakenInOrder
    <3>. QED
      BY <1>1, <1>7, <2>2, <3>1, <3>2 DEF TakenInOrder
  <2>. QED
    BY <1>1, <2>1, <2>2 DEF RunInProgress
<1>10. EvaluationTypes' /\ FileIsCaptured' /\ ReplayAgrees'
  BY <1>3, <1>7 DEF EvaluationInv, EvaluationTypes, FileIsCaptured, ReplayAgrees
<1>. QED
  BY <1>9, <1>10 DEF EvaluationInv

LEMMA WritesSnapshotsInv == ASSUME EvaluationInv, WritesSnapshots PROVE EvaluationInv'
<1>1. /\ job \in RunInProgress /\ TakenInOrder(job) /\ job.mode = "capture" /\ Len(job.lines) = LastCase
  BY DEF EvaluationInv, EvaluationTypes, WritesSnapshots, Scored
<1>2. /\ job' = [job EXCEPT !.written = TRUE] /\ captured' = None
      /\ snapshotFile'.lines = job.lines /\ UNCHANGED <<inputText, expected, report>>
  BY DEF WritesSnapshots
<1>3. /\ job' \in RunInProgress /\ job'.lines = job.lines /\ job'.mode = "capture" /\ job'.text = job.text
  BY <1>1, <1>2 DEF RunInProgress
<1>4. DOMAIN job.lines = 1..Len(job.lines)
  BY <1>1 DEF RunInProgress
<1>5. EvaluationTypes'
  BY <1>1, <1>2, <1>3, <1>4 DEF EvaluationInv, EvaluationTypes, TakenInOrder
<1>6. TakenInOrder(job)'
  BY <1>1, <1>2, <1>3 DEF TakenInOrder
<1>7. FileIsCaptured' /\ ReplayAgrees'
  BY <1>2 DEF EvaluationInv, FileIsCaptured, ReplayAgrees
<1>. QED
  BY <1>5, <1>6, <1>7 DEF EvaluationInv

LEMMA LosesSnapshotsInv == ASSUME EvaluationInv, LosesSnapshots PROVE EvaluationInv'
<1>1. /\ job \in RunInProgress /\ TakenInOrder(job) /\ job.mode = "capture" /\ Len(job.lines) = LastCase
  BY DEF EvaluationInv, EvaluationTypes, LosesSnapshots, Scored
<1>2. PICK last \in 0..(LastCase - 1) : snapshotFile'.lines = SubSeq(job.lines, 1, last)
  BY DEF LosesSnapshots
<1>3. job' = None /\ captured' = None /\ UNCHANGED <<inputText, expected, report>>
  BY DEF LosesSnapshots
<1>4. \A i \in 1..last : job.lines[i] \in RecordedLine
  BY <1>1, EvaluationAssumption DEF TakenInOrder
<1>5. /\ SubSeq(job.lines, 1, last) \in Seq(RecordedLine)
  BY <1>4, SubSeqProperties, EvaluationAssumption
<1>6. \A i \in DOMAIN snapshotFile'.lines : snapshotFile'.lines[i] \in RecordedLine
  BY <1>2, <1>5
<1>. QED
  BY <1>3, <1>6 DEF EvaluationInv, EvaluationTypes, FileIsCaptured, ReplayAgrees

\* The heart of the matter: what a replay reports of a case.
LEMMA ReplayReports ==
    ASSUME EvaluationInv, job # None, job.mode = "replay", Len(job.lines) = LastCase,
           NEW c \in Case
    PROVE  /\ captured # None /\ job.detailed = captured.detailed =>
                IF job.text[c] # captured.text[c] THEN ~Row(job.lines[c]).schema
                ELSE job.expected[c] = captured.expected[c] => Row(job.lines[c]) = captured.rows[c]
           /\ job.baseline => Row(job.lines[c]).error \notin {"missing", "changed"}
<1>1. /\ job.source = Lines(snapshotFile) /\ job.source \subseteq RecordedLine
      /\ job.lines[c] = ReplayOf(job.source, job.text, c)
      /\ job.baseline => {line.case : line \in job.source} = Case
                         /\ \A line \in job.source : line.text = job.text[line.case]
  BY EvaluationAssumption DEF EvaluationInv, EvaluationTypes, TakenInOrder, RunInProgress, Case
<1>2. Row(job.lines[c]) = RowOf(job.lines[c], job.detailed, job.expected)
  BY OfTheRun
<1>3. ASSUME captured # None, job.detailed = captured.detailed
      PROVE  IF job.text[c] # captured.text[c] THEN ~Row(job.lines[c]).schema
             ELSE job.expected[c] = captured.expected[c] => Row(job.lines[c]) = captured.rows[c]
  <2> DEFINE line == snapshotFile.lines[c]
  <2>1. /\ line \in job.source /\ line.case = c /\ line.text = captured.text[c]
        /\ captured.rows[c] = RowOf(line, captured.detailed, captured.expected)
        /\ \A other \in job.source : other.case = c => other = line
    BY <1>1, <1>3 DEF EvaluationInv, FileIsCaptured, Lines
  <2> HIDE DEF line
  <2>2. Covers(job.source, c) /\ SnapshotOf(job.source, c) = line
    BY <2>1, FoundLine DEF Covers
  <2>3. CASE job.text[c] # captured.text[c]
    <3>1. job.lines[c] = [line EXCEPT !.answer = "unavailable", !.error = "changed"]
      BY <1>1, <2>1, <2>2, <2>3 DEF ReplayOf
    <3>2. job.lines[c].error = "changed"
      BY <1>1, <2>1, <3>1 DEF RecordedLine, Line
    <3>3. RowOf(job.lines[c], job.detailed, job.expected).schema = FALSE
      BY <3>2 DEF RowOf
    <3>. QED
      BY <1>2, <2>3, <3>3
  <2>4. CASE job.text[c] = captured.text[c]
    <3>1. job.lines[c] = line
      BY <1>1, <2>1, <2>2, <2>4 DEF ReplayOf
    <3>2. ASSUME job.expected[c] = captured.expected[c]
          PROVE  RowOf(line, job.detailed, job.expected) = RowOf(line, captured.detailed, captured.expected)
      BY <1>3, <2>1, <3>2 DEF RowOf
    <3>. QED
      BY <1>2, <2>1, <2>4, <3>1, <3>2
  <2>. QED
    BY <2>3, <2>4
<1>4. ASSUME job.baseline PROVE Row(job.lines[c]).error \notin {"missing", "changed"}
  <2>1. Covers(job.source, c)
    BY <1>1, <1>4 DEF Covers
  <2>2. /\ SnapshotOf(job.source, c) \in RecordedLine
        /\ SnapshotOf(job.source, c).text = job.text[c]
    BY <1>1, <1>4, <2>1, FoundLine
  <2>3. job.lines[c] \in RecordedLine
    BY <1>1, <2>1, <2>2 DEF ReplayOf
  <2>. QED
    BY <1>2, <2>3 DEF RowOf, RecordedLine
<1>. QED
  BY <1>3, <1>4

LEMMA WritesReportInv == ASSUME EvaluationInv, WritesReport PROVE EvaluationInv'
<1>1. job \in RunInProgress /\ TakenInOrder(job) /\ Len(job.lines) = LastCase /\ (job.mode = "capture" => job.written)
  BY DEF EvaluationInv, EvaluationTypes, WritesReport, Scored
<1>2. /\ report'.mode = job.mode /\ report'.detailed = job.detailed
      /\ report'.baseline = job.baseline /\ report'.text = job.text
      /\ report'.expected = job.expected /\ \A c \in Case : report'.rows[c] = Row(job.lines[c])
  BY DEF WritesReport
<1>3. /\ captured' = IF job.mode = "capture" THEN report' ELSE captured
      /\ job' = None /\ UNCHANGED <<inputText, expected, snapshotFile>>
  BY DEF WritesReport
<1>4. EvaluationTypes'
  BY <1>3 DEF EvaluationInv, EvaluationTypes
<1>5. CASE job.mode = "capture"
  <2>1. FileIsCaptured'
    <3>1. snapshotFile'.lines = job.lines /\ DOMAIN job.lines = Case
      BY <1>1, <1>3, <1>5 DEF TakenInOrder, RunInProgress, Case
    <3>2. \A c \in Case : job.lines[c].case = c /\ job.lines[c].text = job.text[c]
      BY <1>1, <1>5 DEF TakenInOrder, Case
    <3>3. \A c \in Case : report'.rows[c] = RowOf(job.lines[c], job.detailed, job.expected)
      BY <1>2, OfTheRun
    <3>. QED
      BY <1>2, <1>3, <1>5, <3>1, <3>2, <3>3 DEF FileIsCaptured
  <2>2. ReplayAgrees'
    BY <1>2, <1>5 DEF ReplayAgrees
  <2>. QED
    BY <1>3, <1>4, <2>1, <2>2 DEF EvaluationInv
<1>6. CASE job.mode = "replay"
  <2>1. captured' = captured
    BY <1>3, <1>6
  <2>2. FileIsCaptured'
    BY <1>3, <2>1 DEF EvaluationInv, FileIsCaptured
  <2>3. ReplayAgrees'
    BY <1>1, <1>2, <1>6, <2>1, ReplayReports DEF ReplayAgrees, WritesReport, Scored
  <2>. QED
    BY <1>3, <1>4, <2>2, <2>3 DEF EvaluationInv
<1>. QED
  BY <1>1, <1>5, <1>6 DEF RunInProgress

LEMMA EvaluationKept ==
    ASSUME EvaluationInv, [EvaluationNext]_evaluationVars PROVE EvaluationInv'
<1>1. CASE EditsCase
  <2>1. inputText' \in Texts /\ expected' \in Expectations
    BY <1>1 DEF EditsCase, EvaluationInv, EvaluationTypes, Texts, Expectations
  <2>. QED
    BY <1>1, <2>1 DEF EditsCase, EvaluationInv, EvaluationTypes, FileIsCaptured, TakenInOrder, ReplayAgrees
<1>2. CASE StopsRun
  BY <1>2 DEF StopsRun, EvaluationInv, EvaluationTypes, FileIsCaptured, ReplayAgrees
<1>3. CASE UNCHANGED evaluationVars
  BY <1>3 DEF evaluationVars, EvaluationInv, EvaluationTypes, FileIsCaptured, TakenInOrder, ReplayAgrees
<1>. QED
  BY <1>1, <1>2, <1>3, StartsRunInv, TakesCaseInv, WritesSnapshotsInv, LosesSnapshotsInv,
     WritesReportInv DEF EvaluationNext

LEMMA EvaluationInvariant == EvaluationSpec => []EvaluationInv
BY EvaluationStarts, EvaluationKept, PTL DEF EvaluationSpec

\* A replay of the last capture's snapshots gives an unchanged case the capture's
\* row and a changed one no credit, and after the check against the dataset none is
\* missing, whatever was edited, run or cut short in between (evaluation/metrics.py).
THEOREM ReplaysAgree == EvaluationSpec => []ReplayAgrees
BY EvaluationInvariant, PTL DEF EvaluationInv

------------------------------------------------------------------------------
(* The offline bundle.                                                      *)

\* A build is at work until its bundle has the bundle's name.
AtWork == {"verifying", "verified", "removing", "staging", "summed"}
BuildJob == [at : AtWork \cup {"idle", "opening", "zipping"}, id : Nat, files : [Name -> Nat], done : Nat,
             of : SUBSET Nat]
BuildMade == [kind : Kind, named : SUBSET Name]

BundleTypes ==
    /\ builder \in [Builder -> BuildJob] /\ built \in Seq(BuildMade)
    /\ bundle \in [Name -> Nat] /\ archive \subseteq [Name -> Nat]

\* The builds that nothing but their own stage has files of yet.
Secret == {builder[b].id : b \in {b \in Builder : builder[b].at \in AtWork}}

\* Every file is of a build that has been published, with complete checksums.
Summed(kind, named) == named = Files(kind) \ Unsummed
Genuine(d, all, secret) ==
    \A n \in Name : d[n] # NoFile =>
        /\ d[n] \in DOMAIN all /\ d[n] \notin secret
        /\ n \in Files(all[d[n]].kind) /\ Summed(all[d[n]].kind, all[d[n]].named)

\* No file but those of build k, and files that can be of several builds only when
\* the first and the last that a zip is given are of two.
Only(d, k) == \A n \in Name : d[n] \in {NoFile, k}
Sealed(z) == z["sums"] # NoFile /\ z["sums"] = z["metadata"] => Only(z, z["sums"])

\* A stage grows in the order of Part and is summed up when it is whole.
SoFar(done) == IF done = 0 THEN {} ELSE IF done = 1 THEN Part[1] ELSE Part[1] \cup Part[2]
StagesWell(work, all) ==
    /\ work.id \in DOMAIN all
    /\ work.at \notin {"staging", "summed"} => work.done = 0 /\ work.files = NoFiles
    /\ work.at = "staging" =>
        /\ work.done \in 0..2
        /\ \A n \in Name :
              work.files[n] = IF n \in SoFar(work.done) \cap Files(all[work.id].kind) THEN work.id ELSE NoFile
    /\ work.at = "summed" =>
        /\ \A n \in Name : work.files[n] = IF n \in Files(all[work.id].kind) THEN work.id ELSE NoFile
        /\ Summed(all[work.id].kind, all[work.id].named)

\* A zip that has begun with a build's metadata has files of others only when that
\* build's bundle is gone, which comes back no more.
ZipsWell(work, all, secret, dir) ==
    /\ work.done \in 0..6 /\ Genuine(work.files, all, secret) /\ Sealed(work.files)
    /\ \A j \in 1..6 : j > work.done => work.files[Sorted[j]] = NoFile
    /\ \A n \in Name : work.files["metadata"] # NoFile /\ dir[n] = work.files["metadata"] =>
            Only(work.files, work.files["metadata"])

JobInv(work, all, secret, dir) ==
    /\ work.at \in AtWork => StagesWell(work, all)
    /\ work.at = "opening" => work.done = 0 /\ work.files = NoFiles
    /\ work.at = "zipping" => ZipsWell(work, all, secret, dir)

BundleInv ==
    /\ BundleTypes
    /\ \A k \in DOMAIN built : MayBuild(built[k].kind)
    /\ Genuine(bundle, built, Secret) /\ \E k \in Nat : Only(bundle, k)
    /\ \A z \in archive : Genuine(z, built, Secret) /\ Sealed(z)
    /\ \A b \in Builder : JobInv(builder[b], built, Secret, bundle)
    /\ \A b, c \in Builder : b # c /\ builder[b].at \in AtWork /\ builder[c].at \in AtWork =>
            builder[b].id # builder[c].id

\* What a step may do to the files that have been published: nothing.
KeepsPublished(all, secret, later, hidden) ==
    \A k \in DOMAIN all : k \notin secret => k \in DOMAIN later /\ later[k] = all[k] /\ k \notin hidden

LEMMA GenuineStays ==
    ASSUME NEW d, NEW all, NEW secret, NEW later, NEW hidden,
           Genuine(d, all, secret), KeepsPublished(all, secret, later, hidden)
    PROVE  Genuine(d, later, hidden)
BY DEF Genuine, KeepsPublished

LEMMA NoBuildType ==
    /\ NoFiles \in [Name -> Nat] /\ \A n \in Name : NoFiles[n] = NoFile
    /\ NoBuild \in BuildJob /\ NoBuild.at = "idle" /\ NoBuild.done = 0 /\ NoBuild.files = NoFiles /\ NoBuild.id = 0
    /\ Sealed(NoFiles) /\ Only(NoFiles, 0)
<1>1. NoFiles \in [Name -> Nat] /\ \A n \in Name : NoFiles[n] = NoFile
  BY DEF NoFiles, NoFile
<1>2. "sums" \in Name
  BY DEF Name
<1>. QED
  BY <1>1, <1>2 DEF NoBuild, BuildJob, Sealed, Only

\* What a build begins with.
LEMMA JobBegins ==
    ASSUME NEW k \in Nat, NEW j, j = [NoBuild EXCEPT !.at = "verifying", !.id = k]
    PROVE  j \in BuildJob /\ j.at = "verifying" /\ j.id = k /\ j.done = 0 /\ j.files = NoFiles
BY NoBuildType DEF BuildJob, AtWork

LEMMA SortedNames ==
    /\ Len(Sorted) = 6 /\ Sorted[1] = "metadata" /\ Sorted[6] = "sums"
    /\ \A i \in 1..6 : Sorted[i] \in Name
    /\ \A n \in Name : \E i \in 1..6 : Sorted[i] = n
    /\ \A i, l \in 1..6 : Sorted[i] = Sorted[l] => i = l
<1>1. /\ Len(Sorted) = 6 /\ Sorted[1] = "metadata" /\ Sorted[2] = "settings" /\ Sorted[3] = "assets"
      /\ Sorted[4] = "voices" /\ Sorted[5] = "status" /\ Sorted[6] = "sums"
  BY DEF Sorted
<1>2. \A i \in 1..6 : i = 1 \/ i = 2 \/ i = 3 \/ i = 4 \/ i = 5 \/ i = 6
  OBVIOUS
<1>3. \A i \in 1..6 : Sorted[i] \in Name
  BY <1>1, <1>2 DEF Name
<1>4. \A n \in Name : \E i \in 1..6 : Sorted[i] = n
  BY <1>1 DEF Name
<1>5. \A i, l \in 1..6 : Sorted[i] = Sorted[l] => i = l
  <2>. SUFFICES ASSUME NEW i \in 1..6, NEW l \in 1..6, i # l PROVE Sorted[i] # Sorted[l]
    OBVIOUS
  <2>. QED
    BY <1>1, <1>2
<1>. QED
  BY <1>1, <1>3, <1>4, <1>5

LEMMA BundleStarts == ASSUME BundleInit PROVE BundleInv
<1>1. PICK kind \in Kind : MayBuild(kind) /\ built = <<[kind |-> kind, named |-> Files(kind) \ Unsummed]>>
  BY DEF BundleInit
<1> DEFINE all == [kind |-> kind, named |-> Files(kind) \ Unsummed]
<1>2. all \in BuildMade /\ all.kind = kind /\ all.named = Files(kind) \ Unsummed
  BY DEF BuildMade, Files
<1>3. built = <<all>>
  BY <1>1
<1> HIDE DEF all
<1>4. built \in Seq(BuildMade) /\ DOMAIN built = {1} /\ built[1] = all /\ Len(built) = 1
  BY <1>2, <1>3
<1>5. bundle \in [Name -> Nat] /\ \A n \in Name : bundle[n] = NoFile \/ (bundle[n] = 1 /\ n \in Files(kind))
  <2>1. CASE bundle = NoFiles
    BY <2>1, NoBuildType
  <2>2. CASE bundle = Whole(1)
    BY <1>2, <1>4, <2>2 DEF Whole, FilesOf, NoFile
  <2>. QED
    BY <2>1, <2>2 DEF BundleInit
<1>6. builder = [b \in Builder |-> NoBuild] /\ archive = {}
  BY DEF BundleInit
<1>7. Secret = {}
  BY <1>6, NoBuildType DEF Secret, AtWork
<1>8. BundleTypes
  BY <1>4, <1>5, <1>6, NoBuildType DEF BundleTypes
<1>9. Genuine(bundle, built, Secret)
  BY <1>2, <1>4, <1>5, <1>7 DEF Genuine, Summed, NoFile
<1>10. Only(bundle, 1)
  BY <1>5 DEF Only
<1>11. \A b \in Builder : builder[b].at = "idle"
  BY <1>6, NoBuildType
<1>. QED
  BY <1>1, <1>2, <1>4, <1>6, <1>8, <1>9, <1>10, <1>11 DEF BundleInv, JobInv, AtWork

\* One builder has moved: it has done nothing to the records of the others' builds,
\* and to the bundle nothing but remove files, or put its own stage where none are.
Below(d, e) == \A n \in Name : d[n] \in {NoFile, e[n]}

LEMMA BuilderMoves ==
    ASSUME BundleInv, NEW b \in Builder, NEW j \in BuildJob, builder' = [builder EXCEPT ![b] = j],
           built' \in Seq(BuildMade), \A k \in DOMAIN built' : MayBuild(built'[k].kind),
           \A k \in DOMAIN built :
              /\ k \in DOMAIN built'
              /\ built'[k] = built[k] \/ (builder[b].at \in AtWork /\ k = builder[b].id),
           j.at \in AtWork => j.id \notin DOMAIN built \/ (builder[b].at \in AtWork /\ j.id = builder[b].id),
           bundle' \in [Name -> Nat],
           \/ Below(bundle', bundle)
           \/ /\ builder[b].at = "summed" /\ bundle' = builder[b].files
              /\ j.at \notin AtWork /\ built' = built,
           \A z \in archive' : z \in archive \/ (builder[b].at = "zipping" /\ z = builder[b].files),
           j.at \in AtWork => StagesWell(j, built'),
           j.at = "opening" => j.done = 0 /\ j.files = NoFiles,
           j.at = "zipping" => ZipsWell(j, built, Secret, bundle) /\ bundle' = bundle
    PROVE  BundleInv'
<1>1. /\ builder \in [Builder -> BuildJob] /\ builder[b] \in BuildJob /\ bundle \in [Name -> Nat]
      /\ archive \subseteq [Name -> Nat]
      /\ Genuine(bundle, built, Secret)
      /\ \A c \in Builder : JobInv(builder[c], built, Secret, bundle)
      /\ \A z \in archive : Genuine(z, built, Secret) /\ Sealed(z)
  BY DEF BundleInv, BundleTypes
<1>2. builder'[b] = j /\ \A c \in Builder : c # b => builder'[c] = builder[c]
  BY <1>1
<1>3. BundleTypes'
  BY <1>1 DEF BundleTypes, BuildJob
<1>4. \A c \in Builder : builder[c].at \in AtWork => builder[c].id \in Secret
  BY DEF Secret
<1>5. \A k \in Secret' : \/ k \in Secret \/ k \notin DOMAIN built
  BY <1>2, <1>4 DEF Secret
<1>6. KeepsPublished(built, Secret, built', Secret')
  BY <1>4, <1>5 DEF KeepsPublished
<1>7. Genuine(bundle', built', Secret') /\ \E k \in Nat : Only(bundle', k)
  <2>1. CASE Below(bundle', bundle)
    <3>1. Genuine(bundle', built, Secret)
      BY <1>1, <2>1 DEF Below, Genuine
    <3>2. PICK k \in Nat : Only(bundle, k)
      BY DEF BundleInv
    <3>3. Only(bundle', k)
      BY <2>1, <3>2 DEF Only, Below
    <3>. QED
      BY <1>6, <3>1, <3>3, GenuineStays
  <2>2. CASE builder[b].at = "summed" /\ bundle' = builder[b].files /\ j.at \notin AtWork /\ built' = built
    <3>1. StagesWell(builder[b], built) /\ builder[b].at \in AtWork
      BY <1>1, <2>2 DEF JobInv, AtWork
    <3>2. /\ builder[b].id \in DOMAIN built
          /\ \A n \in Name : bundle'[n] = IF n \in Files(built[builder[b].id].kind) THEN builder[b].id ELSE NoFile
          /\ Summed(built[builder[b].id].kind, built[builder[b].id].named)
      BY <2>2, <3>1 DEF StagesWell
    <3>3. builder[b].id \notin Secret'
      BY <1>2, <2>2, <3>1 DEF Secret, BundleInv
    <3>4. Only(bundle', builder[b].id) /\ builder[b].id \in Nat
      BY <1>1, <3>2 DEF Only, BuildJob
    <3>. QED
      BY <2>2, <3>2, <3>3, <3>4 DEF Genuine
  <2>. QED
    BY <2>1, <2>2
<1>8. \A z \in archive' : Genuine(z, built', Secret') /\ Sealed(z)
  <2>. SUFFICES ASSUME NEW z \in archive' PROVE Genuine(z, built', Secret') /\ Sealed(z)
    OBVIOUS
  <2>1. Genuine(z, built, Secret) /\ Sealed(z)
    BY <1>1 DEF JobInv, ZipsWell
  <2>. QED
    BY <1>6, <2>1, GenuineStays
<1>9. ASSUME NEW c \in Builder PROVE JobInv(builder'[c], built', Secret', bundle')
  <2>1. CASE c = b
    <3>1. ASSUME j.at = "zipping" PROVE ZipsWell(j, built', Secret', bundle')
      <4>1. Genuine(j.files, built', Secret')
        BY <1>6, <3>1, GenuineStays DEF ZipsWell
      <4>. QED
        BY <3>1, <4>1 DEF ZipsWell
    <3>. QED
      BY <1>2, <2>1, <3>1 DEF JobInv
  <2>2. CASE c # b
    <3> DEFINE o == builder[c]
    <3>1. builder'[c] = o /\ JobInv(o, built, Secret, bundle)
      BY <1>1, <1>2, <2>2
    <3>2. ASSUME o.at \in AtWork PROVE StagesWell(o, built')
      <4>1. StagesWell(o, built) /\ o.id \in DOMAIN built
        BY <3>1, <3>2 DEF JobInv, StagesWell
      <4>2. ~(builder[b].at \in AtWork /\ o.id = builder[b].id)
        BY <2>2, <3>2 DEF BundleInv
      <4>3. o.id \in DOMAIN built' /\ built'[o.id] = built[o.id]
        BY <4>1, <4>2
      <4> HIDE DEF o
      <4>. QED
        BY <4>1, <4>3 DEF StagesWell
    <3>3. ASSUME o.at = "zipping" PROVE ZipsWell(o, built', Secret', bundle')
      <4>1. ZipsWell(o, built, Secret, bundle)
        BY <3>1, <3>3 DEF JobInv
      <4>2. Genuine(o.files, built', Secret')
        BY <1>6, <4>1, GenuineStays DEF ZipsWell
      <4> DEFINE m == o.files["metadata"]
      <4>3. ASSUME NEW n \in Name, m # NoFile, bundle'[n] = m PROVE Only(o.files, m)
        <5>1. CASE Below(bundle', bundle)
          <6>1. bundle[n] = m
            BY <4>3, <5>1 DEF Below
          <6>. QED
            BY <4>1, <4>3, <6>1 DEF ZipsWell
        <5>2. CASE builder[b].at = "summed" /\ bundle' = builder[b].files
          <6>1. StagesWell(builder[b], built) /\ builder[b].at \in AtWork
            BY <1>1, <5>2 DEF JobInv, AtWork
          <6>2. m = builder[b].id
            BY <4>3, <5>2, <6>1 DEF StagesWell
          <6>3. m \notin Secret
            BY <4>1, <4>3 DEF ZipsWell, Genuine, Name
          <6>. QED
            BY <1>4, <6>1, <6>2, <6>3
        <5>. QED
          BY <5>1, <5>2
      <4>. QED
        BY <4>1, <4>2, <4>3 DEF ZipsWell
    <3>. QED
      BY <3>1, <3>2, <3>3 DEF JobInv
  <2>. QED
    BY <2>1, <2>2
<1>10. ASSUME NEW c \in Builder, NEW e \in Builder, c # e, builder'[c].at \in AtWork, builder'[e].at \in AtWork
       PROVE  builder'[c].id # builder'[e].id
  <2>1. \A o \in Builder : builder[o].at \in AtWork => builder[o].id \in DOMAIN built
    BY <1>1 DEF JobInv, StagesWell
  <2>. QED
    BY <1>2, <1>10, <2>1 DEF BundleInv
<1>. QED
  BY <1>3, <1>7, <1>8, <1>9, <1>10 DEF BundleInv

\* The steps that leave the records of the builds and the archive alone, and no more
\* than change how far a builder is.
LEMMA BuilderAdvances ==
    ASSUME BundleInv, NEW b \in Builder, NEW from, NEW to, Advances(b, from, to),
           from \in {"verifying", "verified", "removing"}, to \in {"verified", "removing", "staging"},
           bundle' \in [Name -> Nat], Below(bundle', bundle), UNCHANGED <<built, archive>>
    PROVE  BundleInv'
<1> DEFINE j == [builder[b] EXCEPT !.at = to]
<1>1. builder' = [builder EXCEPT ![b] = j] /\ builder[b].at = from
  BY DEF Advances, Becomes, Job
<1>2. /\ builder[b] \in BuildJob /\ JobInv(builder[b], built, Secret, bundle)
      /\ built \in Seq(BuildMade) /\ \A k \in DOMAIN built : MayBuild(built[k].kind)
  BY DEF BundleInv, BundleTypes
<1>3. StagesWell(builder[b], built) /\ builder[b].done = 0 /\ builder[b].files = NoFiles
  BY <1>1, <1>2 DEF JobInv, StagesWell, AtWork
<1>4. /\ j \in BuildJob /\ j.at = to /\ j.id = builder[b].id /\ j.done = 0 /\ j.files = NoFiles
      /\ to \in AtWork /\ from \in AtWork
  BY <1>2, <1>3 DEF BuildJob, AtWork
<1> HIDE DEF j
<1>5. StagesWell(j, built)
  BY <1>3, <1>4, NoBuildType DEF StagesWell, SoFar
<1>. QED
  BY <1>1, <1>2, <1>4, <1>5, BuilderMoves

LEMMA BuilderEnds ==
    ASSUME BundleInv, NEW b \in Builder, NEW at \in {"idle", "opening"},
           builder' = [builder EXCEPT ![b] = [NoBuild EXCEPT !.at = at]],
           built' = built, bundle' \in [Name -> Nat],
           Below(bundle', bundle) \/ (builder[b].at = "summed" /\ bundle' = builder[b].files),
           \A z \in archive' : z \in archive \/ (builder[b].at = "zipping" /\ z = builder[b].files)
    PROVE  BundleInv'
<1> DEFINE j == [NoBuild EXCEPT !.at = at]
<1>1. j \in BuildJob /\ j.at = at /\ j.done = 0 /\ j.files = NoFiles /\ at \notin AtWork /\ at # "zipping"
  BY NoBuildType DEF BuildJob, AtWork
<1> HIDE DEF j
<1>2. built \in Seq(BuildMade) /\ \A k \in DOMAIN built : MayBuild(built[k].kind)
  BY DEF BundleInv, BundleTypes
<1>. QED
  BY <1>1, <1>2, BuilderMoves DEF j

LEMMA ZipsKept == ASSUME BundleInv, NEW b \in Builder, ZipsFile(b) PROVE BundleInv'
<1> DEFINE old == builder[b]
           i == old.done + 1
           n == Sorted[i]
           next == [old.files EXCEPT ![n] = bundle[n]]
<1>0. /\ old \in BuildJob /\ bundle \in [Name -> Nat] /\ Genuine(bundle, built, Secret)
      /\ built \in Seq(BuildMade) /\ \A k \in DOMAIN built : MayBuild(built[k].kind)
  BY DEF BundleInv, BundleTypes
<1>1. old.at = "zipping" /\ ZipsWell(old, built, Secret, bundle)
  BY DEF ZipsFile, Job, BundleInv, JobInv
<1>2. old.done \in 0..6 /\ old.done < 6 /\ UNCHANGED <<bundle, archive, built>>
  BY <1>1, SortedNames DEF ZipsFile, Job, ZipsWell
<1>3. i \in 1..6 /\ i \in Nat /\ n \in Name
  BY <1>2, SortedNames
<1>4. PICK files : /\ files = old.files \/ (bundle[n] # NoFile /\ files = next)
                   /\ builder' = [builder EXCEPT ![b] = [old EXCEPT !.done = i, !.files = files]]
  <2>1. CASE bundle[n] # NoFile /\ Becomes(b, [Job(b) EXCEPT !.done = @ + 1, !.files[n] = bundle[n]])
    BY <2>1 DEF Becomes, Job
  <2>2. CASE Becomes(b, [Job(b) EXCEPT !.done = @ + 1])
    <3>1. [old EXCEPT !.done = i] = [old EXCEPT !.done = i, !.files = old.files]
      BY <1>0 DEF BuildJob
    <3>. QED
      BY <2>2, <3>1 DEF Becomes, Job
  <2>. QED
    BY <2>1, <2>2 DEF ZipsFile, Job
<1> DEFINE j == [old EXCEPT !.done = i, !.files = files]
<1>5. old.files \in [Name -> Nat] /\ next \in [Name -> Nat]
  BY <1>0 DEF BuildJob
<1>6. j \in BuildJob /\ j.at = "zipping" /\ j.done = i /\ j.files = files
  <2>1. files \in [Name -> Nat] /\ j = [old EXCEPT !.done = i, !.files = files]
    BY <1>4, <1>5
  <2> HIDE DEF i, j, old, next
  <2>. QED
    BY <1>0, <1>1, <1>3, <2>1 DEF BuildJob
<1>. HIDE DEF j
<1>7. ASSUME ZipsWell(j, built, Secret, bundle) PROVE BundleInv'
  BY <1>0, <1>1, <1>2, <1>4, <1>6, <1>7, BuilderMoves DEF AtWork, Below, j
<1>8. i \in 0..6 /\ \A x \in 1..6 : x > i => x > old.done /\ x # i
  BY <1>2, <1>3
<1>9. old.files[n] = NoFile
  BY <1>1, <1>2, <1>3 DEF ZipsWell
<1>. HIDE DEF i
<1>10. \A x \in 1..6 : x > i => files[Sorted[x]] = NoFile
  <2>1. \A x \in 1..6 : x > i => old.files[Sorted[x]] = NoFile /\ Sorted[x] # n
    BY <1>1, <1>3, <1>8, SortedNames DEF ZipsWell
  <2>. QED
    BY <1>4, <1>5, <2>1, SortedNames
<1>11. CASE files = old.files
  <2>1. ZipsWell(j, built, Secret, bundle)
    BY <1>1, <1>6, <1>8, <1>10, <1>11 DEF ZipsWell
  <2>. QED
    BY <1>7, <2>1
<1>12. CASE bundle[n] # NoFile /\ files = next
  <2>1. files[n] = bundle[n] /\ \A x \in Name : x # n => files[x] = old.files[x]
    BY <1>3, <1>5, <1>12
  <2>2. Genuine(files, built, Secret)
    BY <1>0, <1>1, <1>3, <2>1 DEF ZipsWell, Genuine
  <2> DEFINE m == files["metadata"]
  <2>3. "metadata" \in Name /\ "sums" \in Name
    BY DEF Name
  <2>. HIDE DEF n, old
  <2>4. ASSUME NEW x \in Name, m # NoFile, bundle[x] = m PROVE Only(files, m)
    <3>1. PICK k \in Nat : Only(bundle, k)
      BY DEF BundleInv
    <3>2. bundle[n] = m
      BY <1>3, <1>12, <2>4, <3>1 DEF Only
    <3>3. CASE n = "metadata"
      <4>1. i = 1
        BY <1>3, <3>3, SortedNames DEF n
      <4>2. \A y \in 1..6 : old.files[Sorted[y]] = NoFile
        BY <1>1, <1>2, <4>1 DEF ZipsWell, i, old
      <4>3. \A y \in Name : old.files[y] = NoFile
        BY <4>2, SortedNames
      <4>. QED
        BY <2>1, <3>2, <4>3 DEF Only
    <3>4. CASE n # "metadata"
      <4>1. old.files["metadata"] = m
        BY <2>1, <2>3, <3>4
      <4>2. Only(old.files, m)
        BY <1>1, <2>4, <4>1 DEF ZipsWell, old
      <4>. QED
        BY <2>1, <3>2, <4>2 DEF Only
    <3>. QED
      BY <3>3, <3>4
  <2>5. Sealed(files)
    <3>1. SUFFICES ASSUME files["sums"] # NoFile, files["sums"] = files["metadata"]
                   PROVE  Only(files, files["sums"])
      BY DEF Sealed
    <3>2. n = "sums"
      <4>1. CASE i = 6
        BY <4>1, SortedNames DEF n
      <4>2. CASE i # 6
        BY <1>3, <1>10, <3>1, <4>2, SortedNames
      <4>. QED
        BY <4>1, <4>2
    <3>3. bundle[n] = m
      BY <2>1, <3>1, <3>2
    <3>. QED
      BY <1>3, <2>4, <3>1, <3>3
  <2>6. ZipsWell(j, built, Secret, bundle)
    BY <1>6, <1>8, <1>10, <2>2, <2>4, <2>5 DEF ZipsWell
  <2>. QED
    BY <1>7, <2>6
<1>. QED
  BY <1>4, <1>11, <1>12

LEMMA BundleKept == ASSUME BundleInv, BundleNext PROVE BundleInv'
<1> PICK b \in Builder :
        \/ Begins(b) \/ Verifies(b) \/ MakesRoom(b) \/ StagesPart(b) \/ WritesSums(b) \/ Publishes(b)
        \/ OpensArchive(b) \/ ZipsFile(b) \/ ClosesArchive(b) \/ StopsBuild(b)
  BY DEF BundleNext
<1>0. /\ bundle \in [Name -> Nat] /\ Below(bundle, bundle) /\ Below(NoFiles, bundle)
      /\ built \in Seq(BuildMade) /\ \A k \in DOMAIN built : MayBuild(built[k].kind)
      /\ DOMAIN built = 1..Len(built) /\ Len(built) \in Nat
      /\ builder[b] \in BuildJob /\ JobInv(builder[b], built, Secret, bundle)
  BY NoBuildType DEF BundleInv, BundleTypes, Below
<1>1. CASE Begins(b)
  <2>1. PICK kind \in Kind : MayBuild(kind) /\ built' = Append(built, [kind |-> kind, named |-> {}])
    BY <1>1 DEF Begins
  <2> DEFINE j == [NoBuild EXCEPT !.at = "verifying", !.id = Len(built) + 1]
             new == [kind |-> kind, named |-> {}]
  <2>2. builder[b].at = "idle" /\ builder' = [builder EXCEPT ![b] = j] /\ UNCHANGED <<bundle, archive>>
    BY <1>1 DEF Begins, Becomes, Job
  <2>3. /\ j \in BuildJob /\ j.at = "verifying" /\ j.id = Len(built) + 1
        /\ j.done = 0 /\ j.files = NoFiles
    <3> DEFINE k == Len(built) + 1
    <3>1. k \in Nat /\ j = [NoBuild EXCEPT !.at = "verifying", !.id = k]
      BY <1>0
    <3> HIDE DEF j, k
    <3>2. j \in BuildJob /\ j.at = "verifying" /\ j.id = k /\ j.done = 0 /\ j.files = NoFiles
      BY <3>1, JobBegins
    <3>. QED
      BY <3>2 DEF k
  <2>4. new \in BuildMade /\ new.kind = kind
    BY DEF BuildMade
  <2> HIDE DEF j, new
  <2>5. /\ built' \in Seq(BuildMade) /\ DOMAIN built' = 1..(Len(built) + 1) /\ built'[Len(built) + 1] = new
        /\ \A k \in DOMAIN built : k \in DOMAIN built' /\ built'[k] = built[k]
    BY <1>0, <2>1, <2>4 DEF new
  <2>6. \A k \in DOMAIN built' : MayBuild(built'[k].kind)
    <3>. SUFFICES ASSUME NEW k \in DOMAIN built' PROVE MayBuild(built'[k].kind)
      OBVIOUS
    <3>1. k \in DOMAIN built \/ k = Len(built) + 1
      BY <1>0, <2>5
    <3>. QED
      BY <1>0, <2>1, <2>4, <2>5, <3>1
  <2>7. StagesWell(j, built') /\ j.id \notin DOMAIN built
    BY <1>0, <2>3, <2>5 DEF StagesWell
  <2>. QED
    BY <1>0, <2>2, <2>3, <2>5, <2>6, <2>7, BuilderMoves
<1>2. CASE Verifies(b)
  BY <1>0, <1>2, BuilderAdvances DEF Verifies
<1>3. CASE MakesRoom(b)
  <2>1. UNCHANGED <<archive, built>>
    BY <1>3 DEF MakesRoom
  <2>2. CASE \E from \in {"verified", "removing"}, to \in {"removing", "staging"} :
                Advances(b, from, to) /\ UNCHANGED bundle
    BY <1>0, <2>1, <2>2, BuilderAdvances
  <2>3. CASE /\ builder[b].at = "removing" /\ UNCHANGED builder
             /\ \E n \in Present(bundle) : bundle' = [bundle EXCEPT ![n] = NoFile]
    <3>1. bundle' \in [Name -> Nat] /\ Below(bundle', bundle)
      BY <1>0, <2>3 DEF Below, Present, NoFile
    <3>2. builder' = [builder EXCEPT ![b] = builder[b]] /\ builder[b].at \in AtWork /\ StagesWell(builder[b], built)
      BY <1>0, <2>3 DEF BundleInv, BundleTypes, JobInv, AtWork
    <3>. QED
      BY <1>0, <2>1, <2>3, <3>1, <3>2, BuilderMoves
  <2>. QED
    BY <1>3, <2>2, <2>3 DEF MakesRoom, Job
<1>4. CASE StagesPart(b)
  <2> DEFINE old == builder[b]
             files == [n \in Name |-> IF n \in Part[old.done + 1] \cap FilesOf(old.id) THEN old.id ELSE old.files[n]]
             done == old.done + 1
             j == [old EXCEPT !.done = done, !.files = files]
  <2>1. /\ old.at = "staging" /\ old.done < 2 /\ UNCHANGED <<bundle, archive, built>>
    BY <1>4 DEF StagesPart, Job, Part
  <2>2. builder' = [builder EXCEPT ![b] = j]
    BY <1>4 DEF StagesPart, Becomes, Job
  <2>3. /\ StagesWell(old, built) /\ old.id \in Nat /\ old.id \in DOMAIN built /\ old.done \in {0, 1}
        /\ old.files \in [Name -> Nat] /\ old \in BuildJob
        /\ \A n \in Name :
              old.files[n] = IF n \in SoFar(old.done) \cap Files(built[old.id].kind) THEN old.id ELSE NoFile
    BY <1>0, <2>1 DEF JobInv, AtWork, StagesWell, BuildJob
  <2> HIDE DEF old
  <2>4. files \in [Name -> Nat]
    BY <2>3
  <2>5. \A n \in Name :
          files[n] = IF n \in SoFar(old.done + 1) \cap Files(built[old.id].kind) THEN old.id ELSE NoFile
    BY <2>3 DEF SoFar, FilesOf
  <2> HIDE DEF files
  <2>6. j \in BuildJob /\ j.at = "staging" /\ j.id = old.id /\ j.done = done /\ j.files = files
    <3>1. done \in Nat
      BY <2>3
    <3>2. j = [old EXCEPT !.done = done, !.files = files]
      OBVIOUS
    <3> HIDE DEF done, j
    <3>. QED
      BY <2>1, <2>3, <2>4, <3>1, <3>2 DEF BuildJob
  <2> HIDE DEF j
  <2>7. StagesWell(j, built)
    BY <2>3, <2>5, <2>6 DEF StagesWell
  <2>. QED
    BY <1>0, <2>1, <2>2, <2>6, <2>7, BuilderMoves DEF AtWork, old
<1>5. CASE WritesSums(b)
  <2> DEFINE old == builder[b]
             k == old.id
             files == [old.files EXCEPT !["metadata"] = k, !["sums"] = k]
             named == (Present(old.files) \cup {"metadata"}) \ Unsummed
             j == [old EXCEPT !.at = "summed", !.files = files]
  <2>1. old.at = "staging" /\ old.done = 2 /\ UNCHANGED <<bundle, archive>>
    BY <1>5 DEF WritesSums, Sums, Job, Part
  <2>2. builder' = [builder EXCEPT ![b] = j] /\ built' = [built EXCEPT ![k].named = named]
    BY <1>5 DEF WritesSums, Sums, Becomes, Job
  <2>3. /\ StagesWell(old, built) /\ k \in Nat /\ k \in DOMAIN built /\ k # NoFile
        /\ old.files \in [Name -> Nat] /\ old \in BuildJob
        /\ \A n \in Name : old.files[n] = IF n \in SoFar(2) \cap Files(built[k].kind) THEN k ELSE NoFile
    BY <1>0, <2>1 DEF JobInv, AtWork, StagesWell, BuildJob, NoFile
  <2> HIDE DEF old
  <2>4. /\ SoFar(2) = Name \ {"metadata", "sums"}
        /\ {"metadata", "sums"} \subseteq Files(built[k].kind) /\ Files(built[k].kind) \subseteq Name
    BY DEF SoFar, Part, Name, Files
  <2> HIDE DEF k
  <2>5. /\ files \in [Name -> Nat]
        /\ \A n \in Name : files[n] = IF n \in Files(built[k].kind) THEN k ELSE NoFile
    BY <2>3, <2>4
  <2>6. named = Files(built[k].kind) \ Unsummed /\ named \subseteq Name
    BY <2>3, <2>4 DEF Present, Unsummed
  <2> HIDE DEF files, named
  <2>7. j \in BuildJob /\ j.at = "summed" /\ j.id = k /\ j.files = files
    BY <2>3, <2>5 DEF BuildJob, AtWork, k
  <2> HIDE DEF j
  <2>8. /\ built' \in Seq(BuildMade) /\ DOMAIN built' = DOMAIN built
        /\ built'[k].kind = built[k].kind /\ built'[k].named = named
        /\ \A x \in DOMAIN built : x # k => built'[x] = built[x]
    <3>1. built[k] \in BuildMade
      BY <1>0, <2>3
    <3>2. [built[k] EXCEPT !.named = named] \in BuildMade
      BY <2>6, <3>1 DEF BuildMade
    <3>3. built' = [built EXCEPT ![k] = [built[k] EXCEPT !.named = named]]
      BY <2>2
    <3>4. built'[k] = [built[k] EXCEPT !.named = named]
      BY <2>3, <3>3
    <3>5. built'[k].kind = built[k].kind /\ built'[k].named = named
      BY <3>1, <3>4 DEF BuildMade
    <3>. QED
      BY <1>0, <2>3, <3>2, <3>3, <3>5
  <2>9. StagesWell(j, built')
    BY <2>3, <2>5, <2>6, <2>7, <2>8 DEF StagesWell, Summed
  <2>10. \A x \in DOMAIN built' : MayBuild(built'[x].kind)
    BY <1>0, <2>3, <2>8
  <2>. QED
    BY <1>0, <2>1, <2>2, <2>7, <2>8, <2>9, <2>10, BuilderMoves DEF AtWork, old, k
<1>6. CASE Publishes(b)
  <2>1. builder[b].at = "summed" /\ bundle' = builder[b].files /\ UNCHANGED <<archive, built>>
    BY <1>6 DEF Publishes, Job
  <2>2. \E at \in {"idle", "opening"} : builder' = [builder EXCEPT ![b] = [NoBuild EXCEPT !.at = at]]
    <3>1. NoBuild = [NoBuild EXCEPT !.at = "idle"]
      BY DEF NoBuild
    <3>. QED
      BY <1>6, <3>1 DEF Publishes, Becomes
  <2>3. bundle' \in [Name -> Nat]
    BY <1>0, <2>1 DEF BuildJob
  <2>. QED
    BY <2>1, <2>2, <2>3, BuilderEnds
<1>7. CASE OpensArchive(b)
  <2> DEFINE j == [NoBuild EXCEPT !.at = "zipping", !.of = BuildsOf(bundle)]
  <2>1. /\ builder[b].at = "opening" /\ builder' = [builder EXCEPT ![b] = j]
        /\ archive' = {} /\ UNCHANGED <<bundle, built>>
    BY <1>7 DEF OpensArchive, Becomes, Job
  <2>2. BuildsOf(bundle) \subseteq Nat
    BY <1>0 DEF BuildsOf, Present
  <2>3. j \in BuildJob /\ j.at = "zipping" /\ j.done = 0 /\ j.files = NoFiles
    BY <2>2, NoBuildType DEF BuildJob, AtWork
  <2> HIDE DEF j
  <2>4. ZipsWell(j, built, Secret, bundle)
    <3>1. Genuine(NoFiles, built, Secret) /\ Sealed(NoFiles) /\ NoFiles["metadata"] = NoFile
      BY NoBuildType DEF Genuine, Name
    <3>2. \A i \in 1..6 : NoFiles[Sorted[i]] = NoFile
      BY NoBuildType DEF Sorted, Name
    <3>. QED
      BY <2>3, <3>1, <3>2 DEF ZipsWell
  <2>. QED
    BY <1>0, <2>1, <2>3, <2>4, BuilderMoves DEF AtWork
<1>8. CASE ZipsFile(b)
  BY <1>8, ZipsKept
<1>9. CASE ClosesArchive(b) \/ StopsBuild(b)
  <2>1. /\ builder' = [builder EXCEPT ![b] = [NoBuild EXCEPT !.at = "idle"]] /\ UNCHANGED <<bundle, built>>
        /\ \A z \in archive' : z \in archive \/ (builder[b].at = "zipping" /\ z = builder[b].files)
    <3>1. NoBuild = [NoBuild EXCEPT !.at = "idle"]
      BY DEF NoBuild
    <3>. QED
      BY <1>9, <3>1 DEF ClosesArchive, StopsBuild, Becomes, Job
  <2>. QED
    BY <1>0, <2>1, BuilderEnds
<1>. QED
  BY <1>1, <1>2, <1>3, <1>4, <1>5, <1>6, <1>7, <1>8, <1>9

LEMMA BundleInvariant == BundleSpec => []BundleInv
<1>1. BundleInv /\ UNCHANGED bundleVars => BundleInv'
  BY DEF bundleVars, BundleInv, BundleTypes, Secret
<1>. QED
  BY <1>1, BundleStarts, BundleKept, PTL DEF BundleSpec

\* What passes the check of the checksums is one build's and whole.
LEMMA PassingIsWhole ==
    ASSUME NEW d, Genuine(d, built, Secret), Sealed(d), PassesSums(d)
    PROVE  WholeBut(d, d["sums"], {"settings"}) /\ OfOneBuild(d, d["sums"]) /\ d["sums"] \in DOMAIN built
<1> DEFINE k == d["sums"]
<1>1. k # NoFile /\ \A n \in built[k].named : d[n] # NoFile /\ (n \in Stamped => d[n] = k)
  BY DEF PassesSums
<1>2. k \in DOMAIN built /\ built[k].named = Files(built[k].kind) \ Unsummed
  BY <1>1 DEF Genuine, Name, Summed
<1>3. {"metadata", "sums"} \subseteq Files(built[k].kind) /\ Files(built[k].kind) \subseteq Name
  BY DEF Files, Name
<1>4. d["metadata"] = k
  BY <1>1, <1>2, <1>3 DEF Unsummed, Stamped
<1>5. Only(d, k)
  BY <1>1, <1>4 DEF Sealed
<1>. HIDE DEF k
<1>6. \A n \in FilesOf(k) \ {"settings"} : d[n] = k
  BY <1>1, <1>2, <1>3, <1>5 DEF FilesOf, Unsummed, Only, k
<1>7. \A n \in Present(d) : d[n] = k
  BY <1>5 DEF Only, Present
<1>. QED
  BY <1>2, <1>6, <1>7 DEF WholeBut, OfOneBuild, k

\* A directory with one build's files says no more of it than the gate let through.
LEMMA OneBuildSaysTruly ==
    ASSUME NEW d, NEW k, Genuine(d, built, Secret), Only(d, k), BundleInv, SaysRedistributable(d)
    PROVE  MayBePassedOn(d)
<1>1. d["status"] # NoFile /\ d["status"] = k /\ k \in DOMAIN built /\ built[k].kind.mode = "distributable"
  BY DEF SaysRedistributable, Only, Genuine, Name
<1>2. built[k].kind.cleared /\ ~built[k].kind.voices
  BY <1>1 DEF BundleInv, MayBuild
<1>3. d["voices"] = NoFile
  BY <1>2 DEF Only, Genuine, Name, Files
<1>4. d["assets"] # NoFile => d["assets"] = k
  BY DEF Only, Name
<1>. QED
  BY <1>2, <1>3, <1>4 DEF MayBePassedOn

\* What has the bundle's name says truly whether it may be passed on and passes the
\* check of its checksums when it is whole; and what passes that check, there or out
\* of the archive, is one build's, whole but for the settings and true, for any number
\* of builds, however they overlap, file by file, and wherever they fail
\* (build_bundle.py's build and create_archive, Self-Check.ps1).
THEOREM BundleTellsTruth == BundleSpec => []BundleIsWhatItSays
<1>1. BundleInv => BundleIsWhatItSays
  <2> SUFFICES ASSUME BundleInv PROVE BundleIsWhatItSays
    OBVIOUS
  <2>1. PICK k \in Nat : Only(bundle, k)
    BY DEF BundleInv
  <2>2. Genuine(bundle, built, Secret) /\ bundle \in [Name -> Nat]
    BY DEF BundleInv, BundleTypes
  <2>3. ASSUME NEW i \in DOMAIN built, WholeBut(bundle, i, {}) PROVE PassesSums(bundle)
    <3>1. bundle["sums"] = i /\ i # NoFile
      BY <2>3 DEF WholeBut, FilesOf, Files, Name, NoFile, BundleInv, BundleTypes
    <3>2. built[i].named = Files(built[i].kind) \ Unsummed
      BY <2>2, <3>1 DEF Genuine, Name, Summed
    <3>. QED
      BY <2>3, <3>1, <3>2 DEF PassesSums, WholeBut, FilesOf
  <2>4. SaysRedistributable(bundle) => MayBePassedOn(bundle)
    BY <2>1, <2>2, OneBuildSaysTruly
  <2>5. ASSUME NEW d \in {bundle} \cup UNION {Parts(z) : z \in archive}, PassesSums(d)
        PROVE  /\ WholeBut(d, d["sums"], {"settings"}) /\ OfOneBuild(d, d["sums"])
               /\ SaysRedistributable(d) => MayBePassedOn(d)
    <3>1. Genuine(d, built, Secret) /\ Sealed(d)
      <4>1. CASE d = bundle
        BY <2>1, <2>2, <4>1 DEF Sealed, Only, Name
      <4>2. CASE \E z \in archive : d \in Parts(z)
        <5>1. PICK z \in archive : d \in Parts(z)
          BY <4>2
        <5>2. PICK some \in SUBSET Name : d = [n \in Name |-> IF n \in some THEN z[n] ELSE NoFile]
          BY <5>1 DEF Parts
        <5>3. Genuine(z, built, Secret) /\ Sealed(z)
          BY DEF BundleInv
        <5>. QED
          BY <5>2, <5>3 DEF Genuine, Sealed, Only, Name
      <4>. QED
        BY <4>1, <4>2
    <3>2. /\ WholeBut(d, d["sums"], {"settings"}) /\ OfOneBuild(d, d["sums"])
      BY <2>5, <3>1, PassingIsWhole
    <3>3. Only(d, d["sums"])
      BY <3>2 DEF OfOneBuild, Only, Present
    <3>. QED
      BY <3>1, <3>2, <3>3, OneBuildSaysTruly
  <2>. QED
    BY <2>3, <2>4, <2>5 DEF BundleIsWhatItSays
<1>. QED
  BY <1>1, BundleInvariant, PTL

------------------------------------------------------------------------------
(* The packaged services.                                                   *)

PackagedTypes ==
    /\ process \in [Pid -> Hosted \cup {"free", "other"}]
    /\ DOMAIN script = Script
    /\ DOMAIN own = Script /\ \A w \in Script : DOMAIN own[w] = Hosted

\* A service that no script has warned of.
Unwarned(p) == process[p] \in Hosted /\ p \notin warned

\* Whether script w accounts for the service that runs as p: by the state file, by
\* what the script has started, or by both, as far as it has come; and no agent runs
\* before one is started, or after it was stopped.
Accounts(w, p) ==
    LET onFile == stateFile[process[p]] = p
        started == own[w][process[p]] = p
        alone == process[p] = "model"
    IN  CASE script[w] \in {"starting", "stopping"} -> onFile
          [] script[w] = "recording model" -> started /\ alone
          [] script[w] \in {"waiting model", "spawning agent"} ->
                started /\ stateFile = own[w] /\ alone
          [] script[w] \in {"recording agent", "cleaning"} -> started
          [] script[w] = "waiting agent" -> started /\ stateFile = own[w]
          [] script[w] = "stopping agent" -> onFile /\ started
          [] script[w] = "stopping model" -> onFile /\ started /\ alone
          [] OTHER -> FALSE

AtRest(w) == script[w] = "idle"

\* One script at a time, and every service is accounted for: by the script that is
\* under way, by the state file, or by the warning that it could not be stopped.
AllAccountedFor ==
    /\ \A v \in Script, w \in Script : AtRest(v) \/ AtRest(w) \/ v = w
    /\ \A p \in Pid : Unwarned(p) =>
        /\ (\A w \in Script : AtRest(w)) => stateFile[process[p]] = p
        /\ \A w \in Script : AtRest(w) \/ Accounts(w, p)

PackagedInv == PackagedTypes /\ (lapsed \/ AllAccountedFor)
LEMMA PackagedStarts == ASSUME PackagedInit PROVE PackagedInv
BY DEF PackagedInit, PackagedInv, PackagedTypes, AllAccountedFor, Hosted, AtRest, Unstarted, Unwarned

LEMMA StoppedKeeps ==
    ASSUME PackagedTypes, NEW S, Stopped(S)
    PROVE  /\ process' \in [Pid -> Hosted \cup {"free", "other"}]
           /\ \A p \in Pid : process'[p] \in Hosted => p \notin S /\ process'[p] = process[p]
BY DEF PackagedTypes, Stopped, Hosted

LEMMA EndedKeeps ==
    ASSUME PackagedTypes, NEW S, Ended(S)
    PROVE  /\ process' \in [Pid -> Hosted \cup {"free", "other"}]
           /\ \A p \in Pid : Unwarned(p)' => p \notin S /\ process'[p] = process[p] /\ Unwarned(p)
BY StoppedKeeps DEF Ended, Unwarned

LEMMA PackagedTypesKept == ASSUME PackagedTypes, PackagedNext PROVE PackagedTypes'
<1>1. ASSUME NEW w \in Script, RunsScript(w) PROVE PackagedTypes'
  BY <1>1 DEF PackagedTypes, RunsScript, Turns, Unstarted
<1>2. ASSUME NEW w \in Script, ScriptStep(w) PROVE PackagedTypes'
  <2> USE DEF PackagedTypes, Turns
  <2>1. CASE ChecksState(w) \/ ChecksPorts(w) \/ RemovesState(w)
    BY <2>1 DEF ChecksState, ChecksPorts, RemovesState
  <2>2. CASE CleansUp(w)
    BY <2>2, StoppedKeeps DEF CleansUp
  <2>3. CASE ValidatesState(w)
    BY <2>3 DEF ValidatesState
  <2>4. ASSUME NEW s \in Hosted, Spawns(w, s) PROVE PackagedTypes'
    BY <2>4 DEF Spawns, Hosted
  <2>5. ASSUME NEW s \in Hosted, Records(w, s) \/ BecomesReady(w, s) \/ FailsToStart(w, s)
        PROVE  PackagedTypes'
    BY <2>5 DEF Records, BecomesReady, FailsToStart
  <2>6. ASSUME NEW s \in Hosted, Stops(w, s) PROVE PackagedTypes'
    BY <2>6, EndedKeeps DEF Stops
  <2>. QED
    BY <1>2, <2>1, <2>2, <2>3, <2>4, <2>5, <2>6 DEF ScriptStep
<1>3. ASSUME NEW w \in Script, KillsScript(w) PROVE PackagedTypes'
  BY <1>3 DEF PackagedTypes, KillsScript
<1>4. ASSUME NEW p \in Pid, Binds(p) \/ Ends(p) \/ OtherTakes(p) PROVE PackagedTypes'
  BY <1>4, EndedKeeps DEF PackagedTypes, Binds, Ends, OtherTakes, Hosted
<1>. QED
  BY <1>1, <1>2, <1>3, <1>4 DEF PackagedNext

\* A script that is under way goes on: what has to be shown is that the services
\* that run afterwards are accounted for where it has come to.
LEMMA ScriptGoesOn ==
    ASSUME PackagedTypes, AllAccountedFor, NEW w \in Script, ~AtRest(w), NEW to, to # "idle",
           script' = [script EXCEPT ![w] = to],
           \A p \in Pid : Unwarned(p)' => Accounts(w, p)'
    PROVE  AllAccountedFor'
<1>1. /\ \A v \in Script : v # w => AtRest(v)'
      /\ ~AtRest(w)'
  BY DEF PackagedTypes, AllAccountedFor, AtRest
<1>. QED
  BY <1>1 DEF AllAccountedFor

LEMMA ScriptReturns ==
    ASSUME PackagedTypes, AllAccountedFor, NEW w \in Script, ~AtRest(w),
           script' = [script EXCEPT ![w] = "idle"],
           \A p \in Pid : Unwarned(p)' => stateFile'[process'[p]] = p
    PROVE  AllAccountedFor'
<1>1. \A v \in Script : AtRest(v)'
  BY DEF PackagedTypes, AllAccountedFor, AtRest
<1>. QED
  BY <1>1 DEF AllAccountedFor

\* Where a script is before and after a step for one of the services.
LEMMA Stages ==
    /\ Spawning["model"] = "spawning model" /\ Spawning["agent"] = "spawning agent"
    /\ Recording["model"] = "recording model" /\ Recording["agent"] = "recording agent"
    /\ Waiting["model"] = "waiting model" /\ Waiting["agent"] = "waiting agent"
    /\ Stopping["model"] = "stopping model" /\ Stopping["agent"] = "stopping agent"
BY DEF Spawning, Recording, Waiting, Stopping

LEMMA ScriptStepAccounts ==
    ASSUME PackagedTypes, PackagedTypes', AllAccountedFor, NEW w \in Script, ScriptStep(w)
    PROVE  AllAccountedFor'
<1> USE DEF PackagedTypes, Turns, Unwarned
<1>0. \A s \in Hosted : s = "model" \/ s = "agent"
  BY DEF Hosted
<1>1. ~AtRest(w)
  <2>1. ASSUME NEW s \in Hosted,
               Spawns(w, s) \/ Records(w, s) \/ BecomesReady(w, s) \/ FailsToStart(w, s) \/ Stops(w, s)
        PROVE  ~AtRest(w)
    BY <1>0, <2>1, Stages DEF Spawns, Records, BecomesReady, FailsToStart, Stops, AtRest
  <2>. QED
    BY <2>1 DEF ScriptStep, ChecksState, ChecksPorts, CleansUp, ValidatesState, RemovesState, AtRest
<1>2. \A p \in Pid : Unwarned(p) => Accounts(w, p)
  BY <1>1 DEF AllAccountedFor
<1>3. CASE ChecksState(w)
  <2>1. CASE UNCHANGED stateFile /\ script' = [script EXCEPT ![w] = "idle"]
    <3>1. \A p \in Pid : Unwarned(p)' => stateFile'[process'[p]] = p
      BY <1>2, <1>3, <2>1 DEF ChecksState, Accounts
    <3>. QED
      BY <1>1, <2>1, <3>1, ScriptReturns
  <2>2. CASE script' = [script EXCEPT ![w] = "checking ports"] /\ ~ \E s \in Hosted : IsLive(s, stateFile[s])
    <3>1. \A p \in Pid : ~Unwarned(p)'
      BY <1>2, <1>3, <2>2 DEF ChecksState, Accounts, IsLive
    <3>. QED
      BY <1>1, <2>2, <3>1, ScriptGoesOn
  <2>. QED
    BY <1>3, <2>1, <2>2 DEF ChecksState
<1>4. CASE ChecksPorts(w) \/ RemovesState(w)
  <2>1. \A p \in Pid : ~Unwarned(p)'
    BY <1>2, <1>4 DEF ChecksPorts, RemovesState, Accounts
  <2>2. \/ script' = [script EXCEPT ![w] = "idle"]
        \/ script' = [script EXCEPT ![w] = "spawning model"]
    BY <1>4 DEF ChecksPorts, RemovesState
  <2>. QED
    BY <1>1, <2>1, <2>2, ScriptGoesOn, ScriptReturns
<1>5. CASE CleansUp(w)
  <2> DEFINE started == {own[w][s] : s \in {r \in Hosted : IsLive(r, own[w][r])}}
  <2>1. \A p \in Pid : Unwarned(p) => p \in started
    BY <1>2, <1>5 DEF CleansUp, Accounts, IsLive
  <2>2. PICK failed \in SUBSET started : Stopped(started \ failed) /\ warned' = warned \cup failed
    BY <1>5 DEF CleansUp
  <2>3. script' = [script EXCEPT ![w] = "idle"]
    BY <1>5 DEF CleansUp
  <2> HIDE DEF started
  <2>4. \A p \in Pid : ~Unwarned(p)'
    BY <2>1, <2>2, StoppedKeeps
  <2>. QED
    BY <1>1, <2>3, <2>4, ScriptReturns
<1>6. CASE ValidatesState(w)
  <2>1. UNCHANGED <<process, stateFile, warned>> /\ \A p \in Pid : Unwarned(p) => stateFile[process[p]] = p
    BY <1>2, <1>6 DEF ValidatesState, Accounts
  <2>2. CASE script' = [script EXCEPT ![w] = "idle"]
    BY <1>1, <2>1, <2>2, ScriptReturns
  <2>3. CASE script' = [script EXCEPT ![w] = "stopping agent"] /\
             own' = [own EXCEPT ![w] = [s \in Hosted |->
                    IF IsLive(s, stateFile[s]) THEN stateFile[s] ELSE NoPid]]
    <3>1. script'[w] = "stopping agent"
      BY <2>3
    <3>2. \A p \in Pid : Unwarned(p)' => Accounts(w, p)'
      BY <2>1, <2>3, <3>1 DEF Accounts, IsLive
    <3>. QED
      BY <1>1, <2>3, <3>2, ScriptGoesOn
  <2>. QED
    BY <1>6, <2>2, <2>3 DEF ValidatesState
<1>7. ASSUME NEW s \in Hosted, Spawns(w, s) PROVE AllAccountedFor'
  <2>1. PICK q \in Pid : /\ process' = [process EXCEPT ![q] = s] /\ own' = [own EXCEPT ![w][s] = q]
                        /\ warned' = warned
    BY <1>7 DEF Spawns
  <2>2. script[w] = Spawning[s] /\ script' = [script EXCEPT ![w] = Recording[s]]
    BY <1>7 DEF Spawns
  <2>3. own'[w][s] = q /\ \A r \in Hosted : r # s => own'[w][r] = own[w][r]
    BY <2>1
  <2>4. ASSUME NEW p \in Pid, Unwarned(p)'
        PROVE  own'[w][process'[p]] = p
    <3>1. CASE p = q
      BY <2>1, <2>3, <3>1
    <3>2. CASE p # q
      <4>1. process'[p] = process[p] /\ process[p] \in Hosted /\ Accounts(w, p)
        BY <1>2, <2>1, <2>4, <3>2
      <4>2. s = "agent" /\ own[w][process[p]] = p
        BY <1>0, <2>2, <4>1, Stages DEF Accounts
      <4>3. process[p] = "model"
        BY <2>2, <4>1, <4>2, Stages DEF Accounts
      <4>. QED
        BY <2>3, <2>4, <4>1, <4>2, <4>3
    <3>. QED
      BY <3>1, <3>2
  <2>5. script'[w] = Recording[s] /\ Recording[s] \in {"recording model", "recording agent"}
    BY <1>0, <2>2, Stages
  <2>8. ASSUME NEW p \in Pid, Unwarned(p)', s = "model" PROVE process'[p] = "model"
    <3>1. CASE p = q
      BY <2>1, <2>8, <3>1
    <3>2. CASE p # q
      BY <1>2, <2>1, <2>2, <2>8, <3>2, Stages DEF Accounts
    <3>. QED
      BY <3>1, <3>2
  <2>6. \A p \in Pid : Unwarned(p)' => Accounts(w, p)'
    BY <1>0, <2>4, <2>5, <2>8, Stages DEF Accounts
  <2>7. Recording[s] # "idle"
    BY <2>5
  <2>. QED
    BY <1>1, <2>2, <2>6, <2>7, ScriptGoesOn
<1>8. ASSUME NEW s \in Hosted, Records(w, s) PROVE AllAccountedFor'
  <2>1. script[w] \in {"recording model", "recording agent"}
    BY <1>0, <1>8, Stages DEF Records
  <2>2. /\ script' = [script EXCEPT ![w] = Waiting[s]] /\ stateFile' = own[w]
        /\ UNCHANGED <<process, own, warned>>
    BY <1>8 DEF Records
  <2>3. script'[w] = Waiting[s] /\ Waiting[s] \in {"waiting model", "waiting agent"}
    BY <1>0, <2>2, Stages
  <2>4. \A p \in Pid : Unwarned(p)' => Accounts(w, p)'
    <3>1. CASE s = "model"
      <4>1. script[w] = "recording model" /\ script'[w] = "waiting model"
        BY <1>8, <2>3, <3>1, Stages DEF Records
      <4>. QED
        BY <1>2, <2>2, <4>1 DEF Accounts
    <3>2. CASE s = "agent"
      <4>1. script[w] = "recording agent" /\ script'[w] = "waiting agent"
        BY <1>8, <2>3, <3>2, Stages DEF Records
      <4>. QED
        BY <1>2, <2>2, <4>1 DEF Accounts
    <3>. QED
      BY <1>0, <3>1, <3>2
  <2>. QED
    BY <1>1, <2>2, <2>3, <2>4, ScriptGoesOn
<1>9. ASSUME NEW s \in Hosted, BecomesReady(w, s) PROVE AllAccountedFor'
  <2>1. script[w] \in {"waiting model", "waiting agent"} /\ UNCHANGED <<process, own, stateFile, warned>>
    BY <1>0, <1>9, Stages DEF BecomesReady
  <2>2. \A p \in Pid : Unwarned(p) => own[w][process[p]] = p /\ stateFile = own[w]
    BY <1>2, <2>1 DEF Accounts
  <2>3. CASE script' = [script EXCEPT ![w] = "idle"]
    BY <1>1, <2>1, <2>2, <2>3, ScriptReturns
  <2>4. CASE script' = [script EXCEPT ![w] = "spawning agent"]
    <3>1. script[w] = "waiting model" /\ script'[w] = "spawning agent"
      <4>1. script'[w] = "spawning agent"
        BY <2>4
      <4>2. script'[w] = IF s = "model" THEN "spawning agent" ELSE "idle"
        BY <1>9 DEF BecomesReady
      <4>3. s = "model"
        BY <4>1, <4>2
      <4>. QED
        BY <1>9, <4>1, <4>3, Stages DEF BecomesReady
    <3>2. \A p \in Pid : Unwarned(p)' => Accounts(w, p)'
      BY <1>2, <2>1, <2>2, <3>1 DEF Accounts
    <3>. QED
      BY <1>1, <2>4, <3>2, ScriptGoesOn
  <2>. QED
    BY <1>9, <2>3, <2>4 DEF BecomesReady
<1>10. ASSUME NEW s \in Hosted, FailsToStart(w, s) PROVE AllAccountedFor'
  <2>1. script[w] \in {Spawning[s], Recording[s], Waiting[s]}
        /\ script' = [script EXCEPT ![w] = "cleaning"] /\ UNCHANGED <<process, own, warned>>
    BY <1>10 DEF FailsToStart
  <2>2. script[w] \in {"spawning model", "spawning agent", "recording model",
                       "recording agent", "waiting model", "waiting agent"}
    BY <1>0, <2>1, Stages
  <2>3. script'[w] = "cleaning"
    BY <2>1
  <2>4. \A p \in Pid : Unwarned(p)' => Accounts(w, p)'
    BY <1>2, <2>1, <2>2, <2>3 DEF Accounts
  <2>. QED
    BY <1>1, <2>1, <2>4, ScriptGoesOn
<1>11. ASSUME NEW s \in Hosted, Stops(w, s) PROVE AllAccountedFor'
  <2>1. UNCHANGED <<stateFile, own>> /\ script[w] = Stopping[s]
    BY <1>11 DEF Stops
  <2>5. \/ s = "model" /\ script[w] = "stopping model"
        \/ s = "agent" /\ script[w] = "stopping agent"
    <3>1. s = "model" \/ s = "agent"
      BY <1>0
    <3>. QED
      BY <2>1, <3>1, Stages
  <2>2. \A p \in Pid : Unwarned(p) =>
          stateFile[process[p]] = p /\ own[w][process[p]] = p /\ (s = "model" => process[p] = "model")
    BY <1>2, <2>5 DEF Accounts
  <2>3. CASE script' = [script EXCEPT ![w] = "idle"] /\ UNCHANGED <<process, warned>>
    BY <1>1, <2>1, <2>2, <2>3, ScriptReturns
  <2>4. CASE script' = [script EXCEPT ![w] = IF s = "agent" THEN "stopping model" ELSE "removing state"]
             /\ Ended(IF IsLive(s, own[w][s]) THEN {own[w][s]} ELSE {})
    <3> DEFINE ends == IF IsLive(s, own[w][s]) THEN {own[w][s]} ELSE {}
    <3>1. \A p \in Pid : Unwarned(p)' => p \notin ends /\ process'[p] = process[p] /\ Unwarned(p)
      BY <2>4, EndedKeeps
    <3>2. \A p \in Pid : Unwarned(p)' => process[p] # s
      <4>1. \A p \in Pid : Unwarned(p) /\ process[p] = s => p \in ends
        BY <2>2 DEF IsLive
      <4>. QED
        BY <3>1, <4>1
    <3>3. CASE s = "model"
      <4>1. ASSUME NEW p \in Pid, Unwarned(p)' PROVE FALSE
        <5>1. Unwarned(p) /\ process[p] # "model"
          BY <3>1, <3>2, <3>3, <4>1
        <5>. QED
          BY <2>2, <3>3, <5>1
      <4>2. script' = [script EXCEPT ![w] = "removing state"]
        BY <2>4, <3>3
      <4>. QED
        BY <1>1, <4>1, <4>2, ScriptGoesOn
    <3>4. CASE s = "agent"
      <4>1. script' = [script EXCEPT ![w] = "stopping model"] /\ script'[w] = "stopping model"
        BY <2>4, <3>4
      <4>2. \A p \in Pid : Unwarned(p)' => process'[p] = "model"
        BY <1>0, <3>1, <3>2, <3>4
      <4>3. \A p \in Pid : Unwarned(p)' => Accounts(w, p)'
        <5>1. \A p \in Pid : Unwarned(p)' => stateFile'[process'[p]] = p /\ own'[w][process'[p]] = p
          BY <2>1, <2>2, <3>1
        <5>. QED
          BY <4>1, <4>2, <5>1 DEF Accounts
      <4>. QED
        BY <1>1, <4>1, <4>3, ScriptGoesOn
    <3>. QED
      BY <1>0, <3>3, <3>4
  <2>. QED
    BY <1>11, <2>3, <2>4 DEF Stops
<1>. QED
  BY <1>3, <1>4, <1>5, <1>6, <1>7, <1>8, <1>9, <1>10, <1>11 DEF ScriptStep

LEMMA MachineAccounts ==
    ASSUME PackagedTypes, AllAccountedFor, NEW q \in Pid, Binds(q) \/ Ends(q) \/ OtherTakes(q)
    PROVE  AllAccountedFor'
<1>1. UNCHANGED <<script, own, stateFile>>
  BY DEF Binds, Ends, OtherTakes
<1>2. \A p \in Pid : Unwarned(p)' => process'[p] = process[p] /\ Unwarned(p)
  BY EndedKeeps DEF Binds, Ends, OtherTakes, PackagedTypes, Hosted, Unwarned
<1>3. ASSUME NEW p \in Pid, Unwarned(p)', NEW w \in Script, Accounts(w, p)
      PROVE  Accounts(w, p)'
  BY <1>1, <1>2, <1>3 DEF Accounts
<1>4. \A w \in Script : AtRest(w)' <=> AtRest(w)
  BY <1>1 DEF AtRest
<1>. QED
  BY <1>1, <1>2, <1>3, <1>4 DEF AllAccountedFor

LEMMA RunsScriptAccounts ==
    ASSUME PackagedTypes, AllAccountedFor, NEW w \in Script, RunsScript(w), ~lapsed'
    PROVE  AllAccountedFor'
<1> USE DEF PackagedTypes, RunsScript, Turns, AtRest, Unwarned
<1>1. \A v \in Script : script[v] = "idle"
  OBVIOUS
<1>2. /\ script'[w] \in {"starting", "stopping"}
      /\ \A v \in Script : v # w => script'[v] = "idle"
      /\ UNCHANGED <<process, stateFile, warned>>
  BY <1>1
<1>3. \A p \in Pid : Unwarned(p) => stateFile[process[p]] = p
  BY <1>1 DEF AllAccountedFor
<1>. QED
  BY <1>2, <1>3 DEF AllAccountedFor, Accounts

LEMMA PackagedInvariant == PackagedSpec => []PackagedInv
<1>1. PackagedInv /\ [PackagedNext]_packagedVars => PackagedInv'
  <2> SUFFICES ASSUME PackagedInv, [PackagedNext]_packagedVars PROVE PackagedInv'
    OBVIOUS
  <2>1. CASE UNCHANGED packagedVars
    BY <2>1 DEF packagedVars, PackagedInv, PackagedTypes, AllAccountedFor, Accounts, AtRest, Unwarned
  <2>2. CASE PackagedNext
    <3>1. PackagedTypes /\ PackagedTypes'
      BY <2>2, PackagedTypesKept DEF PackagedInv
    <3>2. ASSUME lapsed PROVE lapsed'
      BY <2>2, <3>2 DEF PackagedNext, RunsScript, ScriptStep, KillsScript, ChecksState, ChecksPorts,
          CleansUp, ValidatesState, RemovesState, Spawns, Records, BecomesReady, FailsToStart,
          Stops, Binds, Ends, OtherTakes
    <3>3. ASSUME AllAccountedFor, ~lapsed' PROVE AllAccountedFor'
      BY <2>2, <3>1, <3>3, RunsScriptAccounts, ScriptStepAccounts, MachineAccounts
      DEF PackagedNext, KillsScript
    <3>. QED
      BY <3>1, <3>2, <3>3 DEF PackagedInv
  <2>. QED
    BY <2>1, <2>2
<1>. QED
  BY <1>1, PackagedStarts, PTL DEF PackagedSpec

\* Once no script is under way and no state file is left, no service is, but for those
\* a script warned it could not stop, unless a script was killed or overlapped
\* (Start.ps1's catch block, Stop.ps1).
THEOREM PackagedLeavesNothing == PackagedSpec => []NothingLeftBehind
<1>1. PackagedInv => NothingLeftBehind
  BY PackagedAssumption
  DEF PackagedInv, AllAccountedFor, AtRest, NothingLeftBehind, Absent, PackagedTypes, Unwarned
<1>. QED
  BY <1>1, PackagedInvariant, PTL

\* No script ends another program's process, even one that has got the process ID
\* of a service since (Get-ManagedProcess).
THEOREM PackagedStopsServices == PackagedSpec => OnlyServicesStopped
<1>1. ASSUME PackagedTypes, NEW w \in Script, ScriptStep(w), NEW p \in Pid, process[p] = "other"
      PROVE  process'[p] = "other"
  <2> USE DEF PackagedTypes, Hosted
  <2>1. CASE CleansUp(w)
    BY <1>1, <2>1 DEF CleansUp, Stopped, IsLive
  <2>2. ASSUME NEW s \in Hosted, Stops(w, s) PROVE process'[p] = "other"
    BY <1>1, <2>2 DEF Stops, Ended, Stopped, IsLive
  <2>3. ASSUME NEW s \in Hosted, Spawns(w, s) PROVE process'[p] = "other"
    BY <1>1, <2>3 DEF Spawns
  <2>. QED
    BY <1>1, <2>1, <2>2, <2>3 DEF ScriptStep, ChecksState, ChecksPorts, ValidatesState,
        RemovesState, Records, BecomesReady, FailsToStart
<1>2. PackagedInv /\ [PackagedNext]_packagedVars =>
        [(\E w \in Script : ScriptStep(w)) =>
            \A p \in Pid : process[p] = "other" => process'[p] = "other"]_packagedVars
  BY <1>1 DEF PackagedInv
<1>. QED
  BY <1>2, PackagedInvariant, PTL DEF PackagedSpec, OnlyServicesStopped

------------------------------------------------------------------------------
(* The components together.                                                 *)

\* While one component runs the others stand still, so that a step of the whole is
\* a step, or none, of each.
LEMMA EachPartSteps ==
    ASSUME [Next]_vars
    PROVE  /\ [GatewayNext]_gatewayVars /\ [SpeechNext]_speechVars /\ [ConnectorNext]_connectorVars
           /\ [ToolboxNext]_toolboxVars /\ [AuditNext]_auditVars /\ [NotifiersNext]_notifiersVars
           /\ [EvaluationNext]_evaluationVars /\ [PackagedNext]_packagedVars
<1>1. CASE Served /\ UNCHANGED <<kept, delivered>>
  <2>1. /\ UNCHANGED <<toolboxVars, auditVars, notifiersVars>>
        /\ UNCHANGED <<evaluationVars, packagedVars>>
    BY <1>1 DEF kept, delivered
  <2>2. /\ GatewayNext \/ UNCHANGED gatewayVars
        /\ SpeechNext \/ UNCHANGED speechVars
        /\ ConnectorNext \/ UNCHANGED connectorVars
    BY <1>1 DEF Served, Turn
  <2>. QED
    BY <2>1, <2>2
<1>2. CASE Kept /\ UNCHANGED <<served, delivered>>
  <2>1. /\ UNCHANGED <<gatewayVars, speechVars, connectorVars>>
        /\ UNCHANGED <<evaluationVars, packagedVars>>
    BY <1>2 DEF served, delivered
  <2>2. /\ ToolboxNext \/ UNCHANGED toolboxVars
        /\ AuditNext \/ UNCHANGED auditVars
        /\ NotifiersNext \/ UNCHANGED notifiersVars
    BY <1>2 DEF Kept, Tools, Turn
  <2>. QED
    BY <2>1, <2>2
<1>3. CASE Delivered /\ UNCHANGED <<served, kept>>
  <2>1. /\ UNCHANGED <<gatewayVars, speechVars, connectorVars>>
        /\ UNCHANGED <<toolboxVars, auditVars, notifiersVars>>
    BY <1>3 DEF served, kept
  <2>2. /\ EvaluationNext \/ UNCHANGED evaluationVars
        /\ PackagedNext \/ UNCHANGED packagedVars
    BY <1>3 DEF Delivered, Turn
  <2>. QED
    BY <2>1, <2>2
<1>4. CASE UNCHANGED vars
  BY <1>4 DEF vars, served, kept, delivered
<1>. QED
  BY <1>1, <1>2, <1>3, <1>4 DEF Next

\* What holds of a component alone holds of it among the others: the behaviours
\* that the model checker explores together are behaviours of every component's
\* own specification, to which the theorems about it apply.
THEOREM EachPartByItself ==
    Spec => /\ GatewaySpec /\ SpeechSpec /\ ConnectorSpec /\ ToolboxSpec /\ AuditSpec /\ NotifiersSpec
            /\ EvaluationSpec /\ PackagedSpec
<1>1. Init => /\ GatewayInit /\ SpeechInit /\ ConnectorInit /\ ToolboxInit /\ AuditInit /\ NotifiersInit
              /\ EvaluationInit /\ PackagedInit
  BY DEF Init
<1>2. [Next]_vars =>
        /\ [GatewayNext]_gatewayVars /\ [SpeechNext]_speechVars /\ [ConnectorNext]_connectorVars
        /\ [ToolboxNext]_toolboxVars /\ [AuditNext]_auditVars /\ [NotifiersNext]_notifiersVars
        /\ [EvaluationNext]_evaluationVars /\ [PackagedNext]_packagedVars
  BY EachPartSteps
<1>. QED
  BY <1>1, <1>2, PTL DEF Spec, GatewaySpec, SpeechSpec, ConnectorSpec, ToolboxSpec, AuditSpec,
                         NotifiersSpec, EvaluationSpec, PackagedSpec
==============================================================================
