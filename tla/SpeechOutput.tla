---------------------------- MODULE SpeechOutput ----------------------------
(***************************************************************************)
(* SpeechOutputService and the ZipVoice synthesizer: requests to read a    *)
(* task aloud, each of which leaves a new version of its WAV file.  One    *)
(* lock per task, and one for the engine.  Versions are numbered in the    *)
(* order they are written, so a number stands for a modification time too. *)
(***************************************************************************)
EXTENDS Naturals, FiniteSets

CONSTANTS
    Speaker,      \* requests
    Spoken,       \* tasks; which of them are finished and have a text is the kernel's matter
    KeepVersions, \* keep_versions
    MaxWritten    \* bound on the versions written

ASSUME SpeechAssumption == KeepVersions \in Nat \ {0} /\ MaxWritten \in Nat

VARIABLES
    asks,       \* the task each request is about
    point,      \* where it is
    closed,     \* "no", "closing" (close() waits for the engine's lock), "yes"
    engine,     \* the model is loaded
    running,    \* requests whose thread holds the engine's lock
    versions,   \* files of each task
    made,       \* versions written so far
    mine,       \* the version each request has written, 0 for none
    given       \* the last version each task's requests returned (history)

speechVars == <<asks, point, closed, engine, running, versions, made, mine, given>>

SpeechInit ==
    /\ asks \in [Speaker -> Spoken]
    /\ point = [s \in Speaker |-> "idle"]
    /\ closed = "no" /\ engine = FALSE /\ running = {}
    /\ versions = [t \in Spoken |-> {}]
    /\ made = 0
    /\ mine = [s \in Speaker |-> 0]
    /\ given = [t \in Spoken |-> 0]

Goes(s, p) == point' = [point EXCEPT ![s] = p]
HoldsTask == {"locked", "thread", "audio", "written"}
\* close() waits for the engine's lock on the event loop's own thread.
Serving == closed # "closing"

\* A request that is refused (another session's task, an unfinished one, no text,
\* or too long a text) changes nothing.
AskSpeech(s) ==
    /\ Serving /\ point[s] = "idle" /\ Goes(s, "waiting")
    /\ UNCHANGED <<asks, closed, engine, running, versions, made, mine, given>>

\* Mutant of LockTask: requests for the same task go on side by side.
LockNothing(s) ==
    /\ Serving /\ point[s] = "waiting"
    /\ Goes(s, "locked")
    /\ UNCHANGED <<asks, closed, engine, running, versions, made, mine, given>>

LockTask(s) ==
    /\ Serving /\ point[s] = "waiting"
    /\ \A u \in Speaker : asks[u] = asks[s] => point[u] \notin HoldsTask
    /\ Goes(s, "locked")
    /\ UNCHANGED <<asks, closed, engine, running, versions, made, mine, given>>

\* synthesize() looks at the flag and the voice, then hands over to a thread.
Synthesize(s) ==
    /\ Serving /\ point[s] = "locked"
    /\ \/ closed = "no" /\ Goes(s, "thread")
       \/ Goes(s, "idle")
    /\ UNCHANGED <<asks, closed, engine, running, versions, made, mine, given>>

\* The thread: under the lock it loads the engine if there is none, which may
\* fail, and generates, which may fail too.
TakeEngine(s) ==
    /\ point[s] = "thread" /\ running = {}
    /\ running' = {s}
    /\ engine' \in {engine, TRUE}
    /\ UNCHANGED <<asks, point, closed, versions, made, mine, given>>
Generated(s) ==
    /\ running = {s}
    /\ running' = {}
    /\ \/ engine /\ Goes(s, "audio")
       \/ Goes(s, "idle")
    /\ UNCHANGED <<asks, closed, engine, versions, made, mine, given>>

WriteVersion(s) ==
    /\ Serving /\ point[s] = "audio" /\ made < MaxWritten
    /\ Goes(s, "written")
    /\ made' = made + 1
    /\ mine' = [mine EXCEPT ![s] = made']
    /\ versions' = [versions EXCEPT ![asks[s]] = @ \cup {made'}]
    /\ UNCHANGED <<asks, closed, engine, running, given>>

NewestOf(files, n) == {v \in files : Cardinality({u \in files : u > v}) < n}

\* _remove_old_versions: the request's own file and the newest of the others stay.
RemoveOldVersions(s) ==
    LET t == asks[s] IN
    /\ Serving /\ point[s] = "written"
    /\ Goes(s, "idle")
    /\ versions' = [versions EXCEPT ![t] =
            @ \cap ({mine[s]} \cup NewestOf(@ \ {mine[s]}, KeepVersions - 1))]
    /\ given' = [given EXCEPT ![t] = mine[s]]
    /\ mine' = [mine EXCEPT ![s] = 0]
    /\ UNCHANGED <<asks, closed, engine, running, made>>

\* close(): the flag, then the engine once its lock is free.
CloseSpeech ==
    /\ \/ closed = "no" /\ closed' = "closing" /\ UNCHANGED engine
       \/ closed = "closing" /\ running = {} /\ closed' = "yes" /\ engine' = FALSE
    /\ UNCHANGED <<asks, point, running, versions, made, mine, given>>

\* The process ends and starts again: the files stay.
RestartSpeech ==
    /\ \E s \in Speaker : point[s] # "idle"
    /\ point' = [s \in Speaker |-> "idle"]
    /\ mine' = [s \in Speaker |-> 0]
    /\ closed' = "no" /\ engine' = FALSE /\ running' = {}
    /\ UNCHANGED <<asks, versions, made, given>>

SpeechNext ==
    \/ CloseSpeech \/ RestartSpeech
    \/ \E s \in Speaker :
        \/ AskSpeech(s) \/ LockTask(s) \/ Synthesize(s) \/ TakeEngine(s) \/ Generated(s)
        \/ WriteVersion(s) \/ RemoveOldVersions(s)

SpeechSpec == SpeechInit /\ [][SpeechNext]_speechVars

------------------------------------------------------------------------------
(* Properties.                                                              *)

SpeechTypeOK ==
    /\ asks \in [Speaker -> Spoken]
    /\ point \in [Speaker -> {"idle", "waiting"} \cup HoldsTask]
    /\ closed \in {"no", "closing", "yes"} /\ engine \in BOOLEAN
    /\ running \in SUBSET Speaker
    /\ versions \in [Spoken -> SUBSET (1..MaxWritten)] /\ made \in 0..MaxWritten
    /\ mine \in [Speaker -> 0..MaxWritten] /\ given \in [Spoken -> 0..MaxWritten]

\* The URL that was returned last for a task can be played: no other request, for
\* this task or another, has cleaned its file away between its writing and its
\* return or since, and no file a killed process left behind displaces it.
NewestOnDisk == \A t \in Spoken : given[t] = 0 \/ given[t] \in versions[t]
===============================================================================
