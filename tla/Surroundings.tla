----------------------------- MODULE Surroundings -----------------------------
(***************************************************************************)
(* Everything around the task kernel: what its tools and its process are   *)
(* served by, and what the program is delivered and measured with.  These  *)
(* components share no state, so a behaviour lets one of them (`part`) run *)
(* and keeps the others where they start: what the steps of one do between *)
(* those of another changes nothing that the properties look at.           *)
(***************************************************************************)
EXTENDS ModelGateway, Toolbox, SpeechOutput, Connector, AuditLog, LocalNotifiers,
    Evaluation, PackagedServices

VARIABLE part

Component == {"gateway", "documents", "todos", "speech", "connector", "audit", "notifiers",
              "evaluation", "packaged"}

served == <<gatewayVars, speechVars, connectorVars>>
kept == <<toolboxVars, auditVars, notifiersVars>>
delivered == <<evaluationVars, packagedVars>>
vars == <<part, served, kept, delivered>>

\* A component that rests starts in one of its initial states only.
Some(S) == CHOOSE x \in S : TRUE
Init ==
    /\ part \in Component
    /\ GatewayInit /\ (part # "gateway" => provider = Some(Provider) /\ fallback = FALSE)
    /\ ToolboxInit /\ (part # "documents" => doc = [i \in Indexer |-> Some(Doc)])
    /\ SpeechInit /\ (part # "speech" => asks = [s \in Speaker |-> Some(Spoken)])
    /\ ConnectorInit /\ AuditInit /\ NotifiersInit
    /\ EvaluationInit
    /\ PackagedInit /\ (part # "packaged" => process = [p \in Pid |-> "free"])

Turn(p, action) == part = p /\ action /\ UNCHANGED part

\* One tool at a time: the knowledge base asked by one worker; the to-do list by all,
\* for an idempotency window and the next.
AskedByOne == \A w \in Worker : doing[w] = Idle \/ (doing[w] = "ask" /\ w = Some(Worker))
AskedByNone == monotonic <= MutationTtl /\ \A w \in Worker : doing[w] # "ask"
Tools ==
    \/ Turn("documents", ToolboxNext /\ AskedByOne') /\ UNCHANGED todoVars
    \/ Turn("todos", ToolboxNext /\ AskedByNone') /\ UNCHANGED knowledgeVars

Served ==
    \/ Turn("gateway", GatewayNext) /\ UNCHANGED <<speechVars, connectorVars>>
    \/ Turn("speech", SpeechNext) /\ UNCHANGED <<gatewayVars, connectorVars>>
    \/ Turn("connector", ConnectorNext) /\ UNCHANGED <<gatewayVars, speechVars>>
Kept ==
    \/ Tools /\ UNCHANGED <<auditVars, notifiersVars>>
    \/ Turn("audit", AuditNext) /\ UNCHANGED <<toolboxVars, notifiersVars>>
    \/ Turn("notifiers", NotifiersNext) /\ UNCHANGED <<toolboxVars, auditVars>>
Delivered ==
    \/ Turn("evaluation", EvaluationNext) /\ UNCHANGED packagedVars
    \/ Turn("packaged", PackagedNext) /\ UNCHANGED evaluationVars

Next ==
    \/ Served /\ UNCHANGED <<kept, delivered>>
    \/ Kept /\ UNCHANGED <<served, delivered>>
    \/ Delivered /\ UNCHANGED <<served, kept>>

\* Both notification loops poll for ever, and a server that stopped is started again.
Fairness ==
    /\ SF_notifiersVars(Turn("notifiers", ReminderLoop /\ UNCHANGED scheduleVars))
    /\ SF_notifiersVars(Turn("notifiers", ScheduleLoop /\ UNCHANGED reminderVars))
    /\ WF_notifiersVars(Turn("notifiers", Restart /\ UNCHANGED <<reminderVars, scheduleVars>>))

Spec == Init /\ [][Next]_vars /\ Fairness

\* Every variable holds what the code can put there.
TypeOK == GatewayTypeOK /\ ToolboxTypeOK /\ SpeechTypeOK /\ NotifiersTypeOK
===============================================================================
