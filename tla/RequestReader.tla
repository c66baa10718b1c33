---------------------------- MODULE RequestReader ----------------------------
(***************************************************************************)
(* From the words of a request to a call: the anchors of the intent router,*)
(* arguments derived from literal wordings, a model that may answer what   *)
(* its schema admits, the repairs of the normalizer, the capability        *)
(* boundary, the tool's schema, policy, the user's confirmation with what  *)
(* the client adds to it, and router.  A form stands for the sentences of  *)
(* one wording; where it names an item by ID, that is "1".                 *)
(***************************************************************************)
EXTENDS Naturals

CONSTANTS
    Form, Role, Domain, DataClass,
    ClientField, ClientValue    \* what a client may add to its confirmation

\* The patterns of the normalizer, as the forms they match.
CancelReminder == {"cancel reminder 1"}
CompleteReminder == {"complete reminder 1"}
DeleteAllReminders == {"delete all reminders", "clear reminders"}
ReminderTimeCue == {"remind me in 10 minutes", "to-do in 10 minutes"}
TodoUpdateRequest == {"set to-do 1 high", "set to-do 1 completed", "set to-do 1 blue"}
CancelSchedule == {"cancel schedule 1"}
CancelScheduleTitle == {"cancel schedule by title"}
ScheduleTimeCue == {"schedule tomorrow at 9", "schedule every Monday at 9", "schedule weekly at 9"}
ScheduleDateCue == {"schedule tomorrow at 9"}
EveryWeek == {"schedule every Monday at 9", "schedule weekly at 9"}

\* pre_route_intent: an anchored form has its intent without a model.
Anchored ==
    [reminder_create |-> CancelReminder \cup ReminderTimeCue \cup
        {"please cancel reminder 1", "delete reminder 1", "delete all reminders", "remind me",
         "show reminders"},
     todo_manage     |-> {"complete to-do 1", "delete to-do 1", "cancel to-do 1",
        "complete to-do by title", "add to-do", "show to-dos"},
     schedule_manage |-> CancelSchedule \cup CancelScheduleTitle \cup ScheduleTimeCue \cup
        {"delete schedule 1", "book a room", "today's schedule"},
     text_polish     |-> {"summarize: ...", "formal tone: ...", "polish: ..."},
     knowledge_query |-> {"in the knowledge base?"},
     file_open       |-> {"open a file", "open the weekly summary"},
     meeting_process |-> {"minutes of a file"},
     general_chat    |-> {"translate"}]
Intent == DOMAIN Anchored
TerminalIntent == {"clarify", "unsupported"}

\* What the words contain, for the capability boundary.
Verb == [cancel |-> CancelSchedule \cup CancelScheduleTitle \cup CancelReminder \cup
                        {"please cancel reminder 1", "cancel to-do 1"},
         complete |-> CompleteReminder \cup
                        {"complete to-do 1", "complete to-do by title", "set to-do 1 completed",
                         "show completed to-dos"},
         delete |-> {"delete to-do 1", "delete reminder 1", "delete all reminders", "delete schedule 1"},
         deleteAll |-> {"delete all reminders"},
         add |-> {"add to-do"}, create |-> ScheduleTimeCue, book |-> {"book a room"},
         open |-> {"open a file", "open the weekly summary"}]
View == {"show reminders", "show to-dos", "show completed to-dos"}
HasActionWord(f) == \E v \in DOMAIN Verb : f \in Verb[v]
HasQuestionWord(f) == f \in {"today's schedule", "in the knowledge base?"}
HasBody(f) == f \in Anchored.text_polish
HasLocalWord(f) == f \notin Anchored.text_polish \cup {"translate", "hello", "adjust the tone", "today's schedule"}

\* Arguments.  A field holds "none" when it is absent; "words" is a value taken
\* from the request, "model" one of the model's own.  Fields that nothing below
\* tells apart are left out, and so are values that no answer can have because
\* the acceptance schema keeps the tools' enumerations.
No == "none"
ID == {"1", "2", No}
Fields(intent) ==
    CASE intent = "reminder_create" ->
            [action : {"create", "query", "cancel", "complete", "delete_all", No}, id : ID,
             when : {"model", No}, scope : {"overdue", No}]
      [] intent = "todo_manage" ->
            [action : {"create", "query", "update", "complete", "delete", No}, id : ID,
             title : {"model", No}, title_query : {"model", No}, priority : {"model", No},
             status : {"completed", No}]
      [] intent = "schedule_manage" ->
            [action : {"create", "query", "cancel", No}, id : ID, title : {"model", No},
             title_query : {"model", No}, start_text : {"model", "clock", "words", No},
             end_text : {"model", No}, recurrence : {"weekly", No}, weekdays : {"model", No},
             range : {"custom", No}, range_start : {"model", No}, range_end : {"model", No}]
      [] intent = "text_polish" ->
            [operation : {"polish", "summarize", "tone_adjust", No}, text : {"model", No},
             tone : {"formal", "casual", No}]
      [] intent = "knowledge_query" -> [query : {"model", No}, question : {"model", No}]
      [] intent = "file_open" -> [query : {"model", No}, keyword : {"model", No}]
      [] intent = "meeting_process" -> [source_path : {"model", No}]
      [] intent = "general_chat" -> [text : {"model", No}]
      [] OTHER -> {<<>>}

\* At most one of a field and its alias; a complete answer has what is required.
Aliases == [knowledge_query |-> "question", file_open |-> "keyword"]
Required == [reminder_create |-> {"action"}, todo_manage |-> {"action"}, schedule_manage |-> {"action"},
             text_polish |-> {"operation", "text"}, knowledge_query |-> {"query"}, file_open |-> {"query"},
             meeting_process |-> {"source_path"}, general_chat |-> {"text"}]
Lacks(intent, a) ==
    {x \in Required[intent] : a[x] = No /\ (intent \in DOMAIN Aliases => a[Aliases[intent]] = No)}
Accepted(intent) ==
    {a \in Fields(intent) : intent \in DOMAIN Aliases => No \in {a.query, a[Aliases[intent]]}}

\* The tool's own schema, with its conditions.
Addressed == {"cancel", "complete", "delete", "update"}
Valid(intent, a) ==
    /\ \A x \in Required[intent] : a[x] # No
    /\ intent \in DOMAIN Aliases => a[Aliases[intent]] = No
    /\ intent \in {"reminder_create", "todo_manage", "schedule_manage"} /\ a.action \in Addressed => a.id # No
    /\ intent = "todo_manage" =>
        /\ a.action = "create" => a.title # No
        /\ a.action = "update" => {a.title, a.priority, a.status} # {No}
    /\ intent = "schedule_manage" =>
        /\ a.action = "create" => No \notin {a.title, a.start_text}
        /\ a.recurrence = "weekly" => a.weekdays # No
        /\ a.range = "custom" => No \notin {a.range_start, a.range_end}

\* deterministic_pre_route_arguments, for anchored forms; {} when there are none.
Blank(intent) == CHOOSE a \in Fields(intent) : \A x \in DOMAIN a : a[x] = No
Derived(f, intent) ==
    LET a == Blank(intent) IN
    CASE intent = "general_chat" -> {[a EXCEPT !.text = "words"]}
      [] intent \in DOMAIN Aliases -> {[a EXCEPT !.query = "sentence"]}
      [] intent = "meeting_process" -> {[a EXCEPT !.source_path = "words"]}
      [] intent = "text_polish" ->
            {[a EXCEPT !.text = "words",
                !.operation = CASE f = "summarize: ..." -> "summarize"
                                [] f = "formal tone: ..." -> "tone_adjust"
                                [] OTHER -> "polish",
                !.tone = IF f = "formal tone: ..." THEN "formal" ELSE No]}
      [] f = "complete to-do 1" -> {[a EXCEPT !.action = "complete", !.id = "1"]}
      [] f = "delete to-do 1"   -> {[a EXCEPT !.action = "delete", !.id = "1"]}
      [] f = "show to-dos"      -> {[a EXCEPT !.action = "query", !.status = "all"]}
      [] f = "show reminders"   -> {[a EXCEPT !.action = "query", !.scope = "next_7_days"]}
      [] f = "add to-do"        -> {[a EXCEPT !.action = "create", !.title = "words"]}
      [] f \in CancelReminder   -> {[a EXCEPT !.action = "cancel", !.id = "1"]}
      [] f \in DeleteAllReminders -> {[a EXCEPT !.action = "delete_all"]}
      [] f = "to-do in 10 minutes" -> {[a EXCEPT !.action = "create", !.when = "words"]}
      [] f = "book a room" -> {[a EXCEPT !.action = "create", !.title = "words", !.start_text = "words"]}
      [] f \in CancelScheduleTitle -> {[a EXCEPT !.action = "query", !.title_query = "words"]}
      [] OTHER -> {}

\* Mutant of NormalizedReminder: the ID of a completion is left to the model.
NormalizedReminderAction(f, a) ==
    CASE f \in CancelReminder     -> [a EXCEPT !.action = "cancel", !.id = "1"]
      [] f \in CompleteReminder   -> [a EXCEPT !.action = "complete"]
      [] f \in DeleteAllReminders -> [a EXCEPT !.action = "delete_all"]
      [] OTHER -> a

\* normalize_arguments, tool by tool.
NormalizedReminder(f, a) ==
    CASE f \in CancelReminder     -> [a EXCEPT !.action = "cancel", !.id = "1"]
      [] f \in CompleteReminder   -> [a EXCEPT !.action = "complete", !.id = "1"]
      [] f \in DeleteAllReminders -> [a EXCEPT !.action = "delete_all"]
      [] a.action = "create" /\ f \notin CancelReminder \cup CompleteReminder \cup DeleteAllReminders ->
            [a EXCEPT !.scope = No, !.when = IF f \in ReminderTimeCue THEN "words" ELSE @]
      [] OTHER -> a

\* Mutant of TodoUpdated: an ID that the model gave stays.
TodoUpdatedElsewhere(f, a) ==
    IF f \notin TodoUpdateRequest THEN a
    ELSE [a EXCEPT !.action = "update", !.id = IF @ = No THEN "1" ELSE @, !.title = No,
            !.title_query = No, !.status = IF f = "set to-do 1 completed" THEN "completed" ELSE @]

TodoUpdated(f, a) ==
    IF f \notin TodoUpdateRequest THEN a
    ELSE [a EXCEPT !.action = "update", !.id = "1", !.title = No, !.title_query = No,
            !.priority = IF f = "set to-do 1 high" THEN "high" ELSE @,
            !.status = IF f = "set to-do 1 completed" THEN "completed" ELSE @]
\* A mutation by title becomes a query, and a query takes its status from the words.
TodoQueried(f, a) ==
    CASE a.action \in {"complete", "delete", "update"} /\ a.id = No /\ a.title_query # No ->
            [a EXCEPT !.action = "query"]
      [] a.action = "query" /\ f = "show completed to-dos" ->
            [a EXCEPT !.status = "completed", !.title_query = IF @ = "sentence" THEN No ELSE @]
      [] OTHER -> a
NormalizedTodo(f, a) == TodoQueried(f, TodoUpdated(f, a))

\* On a creation the end of a range becomes the end of the event, and never stays.
RangeMoved(a) ==
    IF a.action = "create"
    THEN [a EXCEPT !.end_text = IF @ = No THEN a.range_end ELSE @, !.range_end = No] ELSE a
TimeRead(f, a) ==
    IF a.action = "create" /\ f \in ScheduleTimeCue /\
        (a.start_text \in {No, "model"} \/ (f \in ScheduleDateCue /\ a.start_text = "clock"))
    THEN [a EXCEPT !.start_text = "words", !.title = IF @ = No THEN "words" ELSE @] ELSE a
ScheduleStarted(f, a) == TimeRead(f, RangeMoved(a))
NormalizedSchedule(f, a) ==
    CASE f \in CancelSchedule -> [a EXCEPT !.action = "cancel", !.id = "1"]
      [] f \in CancelScheduleTitle ->
            [a EXCEPT !.action = "query", !.title_query = "words", !.id = No, !.title = No]
      [] a.action = "create" /\ f \in EveryWeek ->
            [a EXCEPT !.recurrence = "weekly",
                !.weekdays = IF f = "schedule every Monday at 9" THEN "words" ELSE @]
      [] a.action = "query" /\ a.range = No /\ f = "today's schedule" -> [a EXCEPT !.range = "today"]
      [] OTHER -> a

\* The prefix decides, then a cue anywhere in the text.
NormalizedText(f, a) ==
    CASE f \in {"summarize: ...", "summarize: adjust the tone"} /\ a.operation \in {No, "polish"} ->
            [a EXCEPT !.operation = "summarize"]
      [] f = "formal tone: ..." -> [a EXCEPT !.operation = "tone_adjust", !.tone = "formal"]
      [] f = "adjust the tone" \/ (f = "summarize: adjust the tone" /\ a.operation \notin {No, "polish"}) ->
            [a EXCEPT !.operation = "tone_adjust"]
      [] OTHER -> a

Unaliased(intent, a) ==
    LET alias == Aliases[intent] IN
    [a EXCEPT !.query = IF @ = No THEN a[alias] ELSE @, ![alias] = No]

Normalized(f, intent, a) ==
    CASE intent = "reminder_create" -> NormalizedReminder(f, a)
      [] intent = "todo_manage"     -> NormalizedTodo(f, a)
      [] intent = "schedule_manage" -> NormalizedSchedule(f, ScheduleStarted(f, a))
      [] intent = "text_polish"     -> NormalizedText(f, a)
      [] intent = "meeting_process" /\ f = "minutes of a file" -> [a EXCEPT !.source_path = "words"]
      [] intent \in DOMAIN Aliases  ->
            IF f \in Anchored[intent]
            THEN [Unaliased(intent, a) EXCEPT !.query = "words"] ELSE Unaliased(intent, a)
      [] OTHER -> a

\* process(): what is still missing of the fields the model named.
StillMissing(f, intent, a, named) ==
    IF Valid(intent, a) THEN {}
    ELSE CASE intent = "meeting_process" /\ a.source_path = "words" -> named \ {"source_path"}
           [] intent = "text_polish" -> {x \in named : x \in Required[intent] /\ a[x] = No}
           [] OTHER -> named

\* _capability_boundary.
Expected ==
    [reminder_create |-> {<<"deleteAll", "delete_all">>, <<"cancel", "cancel">>, <<"complete", "complete">>},
     todo_manage     |-> {<<"delete", "delete">>, <<"complete", "complete">>, <<"add", "create">>, <<"create", "create">>},
     schedule_manage |-> {<<"cancel", "cancel">>, <<"book", "create">>, <<"create", "create">>}]
Contradicts(f, intent, a) ==
    intent \in DOMAIN Expected /\ \E e \in Expected[intent] :
        /\ f \in Verb[e[1]] /\ a.action # e[2]
        /\ ~(e[2] \in {"cancel", "complete", "delete"} /\ a.action = "query" /\ a.id = No)
OutOfBounds(f, intent, a) ==
    \/ intent = "general_chat" /\ HasLocalWord(f)
    \/ intent = "knowledge_query" /\ HasActionWord(f) /\ ~HasQuestionWord(f)
    \/ intent = "file_open" /\ f = "open the weekly summary"
    \/ intent = "meeting_process" /\ a.source_path # "words"
    \/ intent = "text_polish" /\ ~HasBody(f)
    \/ intent = "reminder_create" /\ f \in View /\ a.action # "query"
    \/ Contradicts(f, intent, a)

\* PolicyEngine with config/policies.yaml and config/policy_rules.yaml.
Ruled(intent, a) ==
    \/ intent = "schedule_manage" /\ a.action = "cancel"
    \/ intent = "todo_manage" /\ a.action = "delete"
    \/ intent = "reminder_create" /\ a.action = "delete_all"
Risk(intent, a) ==
    CASE Ruled(intent, a) -> IF a.action = "delete_all" THEN 3 ELSE 2
      [] intent \in {"knowledge_query", "general_chat"} -> 0
      [] intent = "meeting_process" -> 2
      [] OTHER -> 1
MaxRisk == [user |-> 2, admin |-> 3]
Allowed(role, domain, intent, a) ==
    /\ role \in DOMAIN MaxRisk
    /\ role = "admin" \/ domain \in {"personal", "public"}
    /\ Risk(intent, a) > MaxRisk[role] => Ruled(intent, a)
NeedsConfirmation(intent, a) == Risk(intent, a) \in {2, 3}

\* EdgeCloudRouter.decide, in its order of priority.
Target(level, localTool, cloudTool, network, throttled, loaded, prefersCloud) ==
    CASE level \in {"D2", "D3"} -> IF localTool THEN "local" ELSE "rejected"
      [] ~localTool -> IF ~network THEN "queue" ELSE IF cloudTool THEN "cloud" ELSE "rejected"
      [] throttled  -> IF network /\ cloudTool THEN "cloud" ELSE "queue"
      [] loaded /\ network /\ cloudTool -> "cloud"
      [] ~network -> "local"
      [] OTHER -> IF prefersCloud /\ cloudTool THEN "cloud" ELSE "local"

VARIABLES
    form,       \* the request
    reading,    \* how far it has been read
    intent,
    arguments,
    missing,    \* fields the model named as missing
    supplied    \* fields the client set when it confirmed

readerVars == <<form, reading, intent, arguments, missing, supplied>>

ReaderInit ==
    /\ form \in Form
    /\ reading = "received" /\ intent = No /\ arguments = <<>> /\ missing = {} /\ supplied = {}

Reads(from, to) == reading = from /\ reading' = to

AnchorsIntent ==
    /\ Reads("received", "anchored")
    /\ \E i \in Intent : form \in Anchored[i] /\ intent' = i
    /\ UNCHANGED <<form, arguments, missing, supplied>>

ClassifiesIntent ==
    /\ \A i \in Intent : form \notin Anchored[i]
    /\ \/ \E i \in Intent : Reads("received", "classified") /\ intent' = i
       \/ \E i \in TerminalIntent : Reads("received", "answered") /\ intent' = i
    /\ UNCHANGED <<form, arguments, missing, supplied>>

\* Arguments derived from the words spare the model.
DerivesArguments ==
    /\ Reads("anchored", "extracted")
    /\ arguments' \in Derived(form, intent)
    /\ UNCHANGED <<form, intent, missing, supplied>>
ExtractsArguments ==
    /\ reading = "classified" \/ (reading = "anchored" /\ Derived(form, intent) = {})
    /\ reading' = "extracted"
    /\ arguments' \in Accepted(intent)
    /\ \/ Lacks(intent, arguments') = {} /\ missing' = {}
       \/ \E x \in Required[intent] \cup {"other"} : missing' = {x}
    /\ UNCHANGED <<form, intent, supplied>>

\* process(): the normalization, and the text as the user wrote it, which a local
\* model's answer does not replace unless it is D3.
NormalizesArguments ==
    /\ Reads("extracted", "normalized")
    /\ LET a == Normalized(form, intent, arguments) IN
       /\ arguments' \in {a} \cup IF intent = "text_polish" THEN {[a EXCEPT !.text = "words"]} ELSE {}
       /\ missing' = StillMissing(form, intent, arguments', missing)
    /\ UNCHANGED <<form, intent, supplied>>

\* _continue: the checks up to the policy, and once more after the confirmation,
\* when nothing is asked again.
Continues == reading \in {"normalized", "confirmed"}
AsksOrAnswers ==
    /\ \/ Reads("normalized", "asking") /\ missing # {}
       \/ /\ Continues /\ reading' = "answered"
          /\ missing = {} /\ OutOfBounds(form, intent, arguments)
    /\ UNCHANGED <<form, intent, arguments, missing, supplied>>
Proceeds == Continues /\ missing = {} /\ ~OutOfBounds(form, intent, arguments)
\* The role and the domain, which a task keeps, are chosen at each evaluation.
Evaluates ==
    /\ Proceeds
    /\ \E role \in Role, domain \in Domain :
        reading' = IF ~Valid(intent, arguments) \/ ~Allowed(role, domain, intent, arguments) THEN "failed"
                   ELSE IF NeedsConfirmation(intent, arguments) /\ reading = "normalized"
                   THEN "confirming" ELSE "cleared"
    /\ UNCHANGED <<form, intent, arguments, missing, supplied>>
\* confirm(): what the client sends is merged into the call, whichever question was
\* asked.  D3 text and an end by the user or by the clock are AgentCore's.
UserConfirms ==
    /\ reading \in {"asking", "confirming"} /\ reading' = "confirmed" /\ missing' = {}
    /\ supplied' \in SUBSET (ClientField \cap DOMAIN arguments)
    /\ \E value \in [supplied' -> ClientValue] :
        arguments' = [x \in DOMAIN arguments |-> IF x \in supplied' THEN value[x] ELSE arguments[x]]
    /\ UNCHANGED <<form, intent>>
RoutesCall ==
    /\ reading = "cleared"
    /\ \E level \in DataClass, network, throttled, loaded \in BOOLEAN :
        reading' = IF Target(level, TRUE, FALSE, network, throttled, loaded, FALSE) = "local"
                   THEN "executing" ELSE "failed"
    /\ UNCHANGED <<form, intent, arguments, missing, supplied>>

ReaderNext ==
    \/ AnchorsIntent \/ ClassifiesIntent \/ DerivesArguments \/ ExtractsArguments
    \/ NormalizesArguments \/ AsksOrAnswers \/ Evaluates \/ UserConfirms \/ RoutesCall

ReaderSpec == ReaderInit /\ [][ReaderNext]_readerVars

------------------------------------------------------------------------------
(* Properties.                                                              *)

\* Requests whose wording names the action and the item for the program to read.
Literal == CancelReminder \cup CompleteReminder \cup TodoUpdateRequest \cup CancelSchedule
                \cup {"complete to-do 1", "delete to-do 1"}
ToolOfWords(f) ==
    IF f \in CancelReminder \cup CompleteReminder THEN "reminder_create"
    ELSE IF f \in CancelSchedule THEN "schedule_manage" ELSE "todo_manage"

\* The item that a literal request names is the one its tool is called with,
\* whatever the model answered: only the client can name another, with the
\* arguments of its confirmation.  (A model that classifies an unanchored request
\* as another tool's is not corrected: "complete reminder 1" can complete a to-do.)
NamedItemWins ==
    reading \in {"confirming", "cleared", "executing"} /\ form \in Literal /\ intent = ToolOfWords(form) =>
        /\ "action" \notin supplied => arguments.action \in Addressed
        /\ "id" \notin supplied => arguments.id = "1"

\* Normalization never breaks an answer that the tool would have taken, but for
\* an update to an unknown value, for "every week" without a day, and for a
\* creation with a custom range, which loses the end of it.
CustomRange(i, a) == i = "schedule_manage" /\ a.action = "create" /\ a.range = "custom"
RepairsDoNotBreak ==
    [][reading = "extracted" /\ Valid(intent, arguments) =>
        \/ Valid(intent, arguments')
        \/ form \in {"set to-do 1 blue", "schedule weekly at 9"}
        \/ CustomRange(intent, arguments)]_readerVars

\* "Sentences such as 'update to-do 7 to completed' are supported."
UpdatesAreServed ==
    form \in {"set to-do 1 high", "set to-do 1 completed"} /\ intent = "todo_manage" =>
        reading # "answered"
==============================================================================
