--------------------------- MODULE PackagedServices ---------------------------
(***************************************************************************)
(* The start and stop scripts of the Windows bundle: a model server and an *)
(* agent, each known by the process ID that run\service-state.json records.*)
(* Several scripts may run at once, a script may be killed, a service may  *)
(* end by itself, and a process ID that is free may be given to any program.*)
(***************************************************************************)
EXTENDS FiniteSets, Naturals

CONSTANTS
    Script,     \* the windows scripts are run from
    Pid,
    MaxScript   \* bound: scripts run

Hosted == {"model", "agent"}
NoPid == "none"

ASSUME PackagedAssumption == NoPid \notin Pid /\ "absent" \notin Pid /\ MaxScript \in Nat

VARIABLES
    process,    \* what runs under every process ID: a service, "other" or "free"
    listener,   \* the process that holds the port of every service
    stateFile,  \* run\service-state.json: the process ID of every service
    script,     \* what every script is doing
    own,        \* the processes a start script has started
    scripts,
    lapsed,     \* a script was killed, or ran beside another
    warned      \* the processes that a start script warned it could not stop

packagedVars == <<process, listener, stateFile, script, own, scripts, lapsed, warned>>

Absent == [s \in Hosted |-> "absent"]
Unstarted == [s \in Hosted |-> NoPid]

PackagedInit ==
    /\ process \in [Pid -> {"free", "other"}]
    /\ listener = Unstarted /\ stateFile = Absent
    /\ script = [w \in Script |-> "idle"]
    /\ own = [w \in Script |-> Unstarted]
    /\ scripts = 0 /\ lapsed = FALSE /\ warned = {}

Turns(w, from, to) == script[w] = from /\ script' = [script EXCEPT ![w] = to]

\* Get-ManagedProcess: a recorded process is the service's own, is gone, or belongs
\* to another program, which is an error.
IsLive(s, pid) == pid \in Pid /\ process[pid] = s
IsForeign(s, pid) == pid \in Pid /\ process[pid] \notin {s, "free"}

Stopped(pids) ==
    /\ process' = [p \in Pid |-> IF p \in pids THEN "free" ELSE process[p]]
    /\ listener' = [s \in Hosted |-> IF listener[s] \in pids THEN NoPid ELSE listener[s]]
Ended(pids) == Stopped(pids) /\ warned' = warned \ pids

------------------------------------------------------------------------------
(* Start.ps1                                                                *)

RunsScript(w) ==
    /\ scripts < MaxScript /\ scripts' = scripts + 1
    /\ Turns(w, "idle", "starting") \/ Turns(w, "idle", "stopping")
    /\ lapsed' = (lapsed \/ \E v \in Script : script[v] # "idle")
    /\ own' = [own EXCEPT ![w] = Unstarted]
    /\ UNCHANGED <<process, listener, stateFile, warned>>

ChecksState(w) ==
    /\ IF \E s \in Hosted : IsLive(s, stateFile[s]) \/ IsForeign(s, stateFile[s])
       THEN Turns(w, "starting", "idle") /\ UNCHANGED stateFile
       ELSE Turns(w, "starting", "checking ports") /\ stateFile' = Absent
    /\ UNCHANGED <<process, listener, own, scripts, lapsed, warned>>

ChecksPorts(w) ==
    /\ Turns(w, "checking ports", IF listener = Unstarted THEN "spawning model" ELSE "idle")
    /\ UNCHANGED <<process, listener, stateFile, own, scripts, lapsed, warned>>

Spawning == [model |-> "spawning model", agent |-> "spawning agent"]
Recording == [model |-> "recording model", agent |-> "recording agent"]
Waiting == [model |-> "waiting model", agent |-> "waiting agent"]

Spawns(w, s) ==
    /\ Turns(w, Spawning[s], Recording[s])
    /\ \E p \in Pid :
        /\ process[p] = "free"
        /\ process' = [process EXCEPT ![p] = s]
        /\ own' = [own EXCEPT ![w][s] = p]
    /\ UNCHANGED <<listener, stateFile, scripts, lapsed, warned>>

Records(w, s) ==
    /\ Turns(w, Recording[s], Waiting[s])
    /\ stateFile' = own[w]
    /\ UNCHANGED <<process, listener, own, scripts, lapsed, warned>>

\* Wait-HttpReady: the process must live, and whatever holds the port answers.
BecomesReady(w, s) ==
    /\ Turns(w, Waiting[s], IF s = "model" THEN "spawning agent" ELSE "idle")
    /\ IsLive(s, own[w][s]) /\ listener[s] # NoPid
    /\ UNCHANGED <<process, listener, stateFile, own, scripts, lapsed, warned>>

\* The process is gone, the wait times out, or the start fails.
FailsToStart(w, s) ==
    /\ \E at \in {Spawning, Recording, Waiting} : Turns(w, at[s], "cleaning")
    /\ UNCHANGED <<process, listener, stateFile, own, scripts, lapsed, warned>>

\* Mutant of CleansUp: the state file is removed and the services stay.
CleansUpFile(w) ==
    /\ Turns(w, "cleaning", "idle")
    /\ stateFile' = Absent
    /\ UNCHANGED <<process, listener, own, scripts, lapsed, warned>>

\* The catch block stops what this script started, warns of what it fails to stop,
\* and removes the state file all the same.
CleansUp(w) ==
    /\ Turns(w, "cleaning", "idle")
    /\ LET live == {own[w][s] : s \in {r \in Hosted : IsLive(r, own[w][r])}} IN
       \E failed \in SUBSET live : Stopped(live \ failed) /\ warned' = warned \cup failed
    /\ stateFile' = Absent
    /\ UNCHANGED <<own, scripts, lapsed>>

------------------------------------------------------------------------------
(* Stop.ps1: Stop-ServicesFromState                                         *)

\* All entries are validated before the first is stopped; those that live are.
ValidatesState(w) ==
    /\ IF stateFile = Absent \/ \E s \in Hosted : IsForeign(s, stateFile[s])
       THEN Turns(w, "stopping", "idle") /\ UNCHANGED own
       ELSE /\ Turns(w, "stopping", "stopping agent")
            /\ own' = [own EXCEPT ![w] = [s \in Hosted |->
                    IF IsLive(s, stateFile[s]) THEN stateFile[s] ELSE NoPid]]
    /\ UNCHANGED <<process, listener, stateFile, scripts, lapsed, warned>>

Stopping == [agent |-> "stopping agent", model |-> "stopping model"]

\* Mutant of Stops: the process is not inspected again.
StopsRecorded(w, s) ==
    /\ Turns(w, Stopping[s], IF s = "agent" THEN "stopping model" ELSE "removing state")
    /\ Ended({own[w][s]})
    /\ UNCHANGED <<stateFile, own, scripts, lapsed>>

\* Stop-ManagedProcess inspects the process again before it ends it (the moment
\* between the two is neglected).  When it fails, so does the script.
Stops(w, s) ==
    /\ \/ /\ ~IsForeign(s, own[w][s])
          /\ Turns(w, Stopping[s], IF s = "agent" THEN "stopping model" ELSE "removing state")
          /\ Ended(IF IsLive(s, own[w][s]) THEN {own[w][s]} ELSE {})
       \/ /\ own[w][s] \in Pid /\ Turns(w, Stopping[s], "idle")
          /\ UNCHANGED <<process, listener, warned>>
    /\ UNCHANGED <<stateFile, own, scripts, lapsed>>

RemovesState(w) ==
    /\ Turns(w, "removing state", "idle")
    /\ stateFile' = Absent
    /\ UNCHANGED <<process, listener, own, scripts, lapsed, warned>>

------------------------------------------------------------------------------
(* The machine.                                                             *)

KillsScript(w) ==
    /\ script[w] # "idle" /\ script' = [script EXCEPT ![w] = "idle"]
    /\ lapsed' = TRUE
    /\ UNCHANGED <<process, listener, stateFile, own, scripts, warned>>

\* A service takes its port, or ends when another process holds it.
Binds(p) ==
    /\ process[p] \in Hosted /\ listener[process[p]] # p
    /\ IF listener[process[p]] = NoPid
       THEN listener' = [listener EXCEPT ![process[p]] = p] /\ UNCHANGED <<process, warned>>
       ELSE Ended({p})
    /\ UNCHANGED <<stateFile, script, own, scripts, lapsed>>

Ends(p) ==
    /\ process[p] # "free" /\ Ended({p})
    /\ UNCHANGED <<stateFile, script, own, scripts, lapsed>>

OtherTakes(p) ==
    /\ process[p] = "free" /\ process' = [process EXCEPT ![p] = "other"]
    /\ UNCHANGED <<listener, stateFile, script, own, scripts, lapsed, warned>>

ScriptStep(w) ==
    \/ ChecksState(w) \/ ChecksPorts(w) \/ CleansUp(w)
    \/ ValidatesState(w) \/ RemovesState(w)
    \/ \E s \in Hosted :
        Spawns(w, s) \/ Records(w, s) \/ BecomesReady(w, s) \/ FailsToStart(w, s) \/ Stops(w, s)

PackagedNext ==
    \/ \E w \in Script : RunsScript(w) \/ ScriptStep(w) \/ KillsScript(w)
    \/ \E p \in Pid : Binds(p) \/ Ends(p) \/ OtherTakes(p)

PackagedSpec == PackagedInit /\ [][PackagedNext]_packagedVars

------------------------------------------------------------------------------
(* Properties.                                                              *)

\* No script ends a process that is not one of the bundle's services, although the
\* process ID it recorded may have passed to another program since.
OnlyServicesStopped ==
    [][(\E w \in Script : ScriptStep(w)) =>
        \A p \in Pid : process[p] = "other" => process'[p] = "other"]_packagedVars

\* When no script is under way and no state file is left, no service is, but for
\* those that a start script warned it could not stop: a failed start and a stop
\* leave nothing else behind.  Scripts that are killed or that overlap are excused,
\* and they do leave services that no script knows of.
NothingLeftBehind ==
    ~lapsed /\ stateFile = Absent /\ (\A w \in Script : script[w] = "idle") =>
        \A p \in Pid : process[p] \in Hosted => p \in warned
==============================================================================
