---------------------------- MODULE DesktopSession ----------------------------
(***************************************************************************)
(* A session of `agent-platform desktop`: the supervisor boots a server,   *)
(* and once it is up the session looks at the supervisor's restarts, at    *)
(* the pages that follow a task, or at the recordings (`part`).  The three *)
(* share no state, and a server's restart under the pages is a step of     *)
(* TaskStream: what the steps of one do between those of another changes   *)
(* nothing that the properties look at.                                    *)
(***************************************************************************)
EXTENDS DesktopSupervisor, TaskStream, VoiceInput

VARIABLE part

vars == <<part, desktopVars, streamVars, voiceVars>>

Init == part = "supervisor" /\ DesktopInit /\ StreamInit /\ VoiceInit

\* The first server is up, and its watcher has seen it.
TurnsTo(p) ==
    /\ part = "supervisor" /\ status = "ready" /\ saves = 0 /\ phase = "serving"
    /\ part' = p
    /\ UNCHANGED <<desktopVars, streamVars, voiceVars>>

Turn(p, action) == part = p /\ action /\ UNCHANGED part

Next ==
    \/ TurnsTo("pages") \/ TurnsTo("recordings")
    \/ Turn("supervisor", DesktopNext) /\ UNCHANGED <<streamVars, voiceVars>>
    \/ Turn("pages", StreamNext) /\ UNCHANGED <<desktopVars, voiceVars>>
    \/ Turn("recordings", VoiceNext) /\ UNCHANGED <<desktopVars, streamVars>>

\* Threads are scheduled and timers fire; nobody has to save or interrupt.
DesktopFairness ==
    \A action \in {"loop", "timer", "watcher"} :
        WF_desktopVars(Turn("supervisor",
            \/ action = "loop" /\ Loop
            \/ action = "timer" /\ TimerFires
            \/ action = "watcher" /\ MarkReady))

\* The event loop resumes a generator that can go on, the network delivers, and
\* an EventSource that lost its connection tries again.  Nothing makes the task
\* go on or keeps a connection up.
StreamFairness == \A s \in Page : WF_streamVars(Turn("pages", Serve(s)))

\* A request that has claimed a recording is carried on, and its timeout comes.
\* A transcription need never end, and a user need never stop recording.
VoiceFairness == \A n \in Recording : WF_voiceVars(Turn("recordings", Finishes(n)))

Spec == Init /\ [][Next]_vars /\ DesktopFairness /\ StreamFairness /\ VoiceFairness

\* Every variable holds what the code can put there.
TypeOK == DesktopTypeOK /\ StreamTypeOK /\ VoiceTypeOK
==============================================================================
