------------------------------ MODULE VoiceInput ------------------------------
(***************************************************************************)
(* Push-to-talk recording, core/voice_input.py, behind the routes of       *)
(* api/voice_routes.py.                                                    *)
(*                                                                         *)
(* start, stop and cancel run on the event loop's thread and suspend only  *)
(* while a transcription is awaited.  The audio callback runs on a thread  *)
(* of the sound library, and every transcription on a worker thread that   *)
(* nothing can stop.  Closing a stream waits for its callback.             *)
(***************************************************************************)
EXTENDS Naturals

CONSTANTS
    Recording,      \* recording identifiers
    None,           \* no active recording
    MaxBytes,       \* voice_max_recording_seconds, in bytes of PCM
    MinBytes,       \* voice_min_recording_seconds, in bytes of PCM
    Chunk           \* sizes of the chunks the sound library hands over

ASSUME VoiceAssumption ==
    /\ None \notin Recording
    /\ MaxBytes \in Nat \ {0} /\ MinBytes \in Nat
    /\ Chunk \subseteq Nat \ {0}

VARIABLES
    up,             \* whether the server is up
    active,         \* _active, by identifier
    processing,     \* _active.processing
    stream,         \* the input stream of each recording
    pcm,            \* bytes in _ActiveRecording.chunks
    loud,           \* whether the peak is above voice_silence_dbfs
    limited,        \* limit_reached
    handler,        \* the request that ends a recording
    samples,        \* bytes in stop()'s joined copy
    thread,         \* the transcription thread of a recording
    reply,          \* what the ending request answered
    taken           \* history: bytes the service has accepted

recording == <<active, processing, stream, pcm, loud, limited>>
ending    == <<handler, samples, reply>>
voiceVars == <<up, recording, ending, thread, taken>>

Handler == {"none", "stopping", "cancelling", "waiting", "ended"}
Reply   == {"none", "transcript", "short", "silent", "timeout", "failed",
            "cancelled", "buffer_error"}

\* "converting": the thread exports the samples' buffer to numpy; "running": it
\* works on a copy of its own.
Thread  == {"none", "queued", "converting", "running", "text", "blank", "raised"}
Answers == {"text", "blank", "raised"}

\* No request holds the event loop between two of its steps.
LoopFree == \A n \in Recording : handler[n] \notin {"stopping", "cancelling"}

VoiceInit ==
    /\ up = TRUE
    /\ active = None
    /\ processing = FALSE
    /\ stream = [n \in Recording |-> "none"]
    /\ pcm = [n \in Recording |-> 0]
    /\ loud = [n \in Recording |-> FALSE]
    /\ limited = [n \in Recording |-> FALSE]
    /\ handler = [n \in Recording |-> "none"]
    /\ samples = [n \in Recording |-> 0]
    /\ thread = [n \in Recording |-> "none"]
    /\ reply = [n \in Recording |-> "none"]
    /\ taken = [n \in Recording |-> 0]

\* Mutant of MayStart: the test for an active recording is lost.
MayStartAny == TRUE

\* start() refuses a second recording.
MayStart == active = None

\* start(), whose stream starts or fails to; a failed one is closed again.
Start(n) ==
    /\ up
    /\ LoopFree
    /\ stream[n] = "none"
    /\ MayStart
    /\ \/ /\ stream' = [stream EXCEPT ![n] = "open"]
          /\ active' = n
          /\ processing' = FALSE
       \/ /\ stream' = [stream EXCEPT ![n] = "closed"]
          /\ UNCHANGED <<active, processing>>
    /\ UNCHANGED <<up, pcm, loud, limited, ending, thread, taken>>

\* What _accept_chunk still has room for.
Room(n) == MaxBytes - pcm[n]

\* The callback hands over a chunk, also while a request is ending the
\* recording: `processing` is not looked at.
Accept(n, size, peak) ==
    LET kept == IF size < Room(n) THEN size ELSE Room(n) IN
    /\ stream[n] = "open"
    /\ active = n
    /\ pcm' = [pcm EXCEPT ![n] = @ + kept]
    /\ taken' = [taken EXCEPT ![n] = @ + kept]
    /\ loud' = [loud EXCEPT ![n] = @ \/ (peak /\ kept > 0)]
    /\ limited' = [limited EXCEPT ![n] = @ \/ kept < size]
    /\ UNCHANGED <<up, active, processing, stream, ending, thread>>

\* _claim: of the owner's requests, the first one gets the recording.
Claim(n, how) ==
    /\ up
    /\ LoopFree
    /\ active = n
    /\ ~processing
    /\ processing' = TRUE
    /\ handler' = [handler EXCEPT ![n] = how]
    /\ UNCHANGED <<up, active, stream, pcm, loud, limited, samples, reply, thread, taken>>

\* Mutant of Erase: the chunks are dropped with the record, not emptied.
EraseNothing(n) == UNCHANGED pcm

\* _release empties the chunks.
Erase(n) == pcm' = [pcm EXCEPT ![n] = 0]

\* _release: the service is free if the recording is still its active one.
Release(n) ==
    /\ Erase(n)
    /\ active' = IF active = n THEN None ELSE active
    /\ processing' = IF active = n THEN FALSE ELSE processing

\* The ending request answers.
Answer(n, what) ==
    /\ handler' = [handler EXCEPT ![n] = "ended"]
    /\ reply' = [reply EXCEPT ![n] = what]

\* cancel() closes the stream and releases, whether the stream stops well or not.
CancelEnds(n) ==
    /\ handler[n] = "cancelling"
    /\ stream' = [stream EXCEPT ![n] = "closed"]
    /\ Release(n)
    /\ Answer(n, "cancelled") \/ Answer(n, "failed")
    /\ UNCHANGED <<up, loud, limited, samples, thread, taken>>

\* Why stop() gives up before it transcribes.
Refusal(n) ==
    \/ Answer(n, "failed")
    \/ pcm[n] < MinBytes /\ Answer(n, "short")
    \/ pcm[n] >= MinBytes /\ ~loud[n] /\ Answer(n, "silent")

\* stop() closes the stream and finds nothing to transcribe.
StopRefuses(n) ==
    /\ handler[n] = "stopping"
    /\ stream' = [stream EXCEPT ![n] = "closed"]
    /\ Refusal(n)
    /\ Release(n)
    /\ UNCHANGED <<up, loud, limited, samples, thread, taken>>

\* Mutant of StopTranscribes: the chunks are joined before the stream is closed.
StopTranscribesOpen(n) ==
    /\ handler[n] = "stopping"
    /\ pcm[n] >= MinBytes /\ loud[n]
    /\ samples' = [samples EXCEPT ![n] = pcm[n]]
    /\ handler' = [handler EXCEPT ![n] = "waiting"]
    /\ thread' = [thread EXCEPT ![n] = "queued"]
    /\ UNCHANGED <<up, active, processing, stream, pcm, loud, limited, reply, taken>>

\* stop() closes the stream, joins the chunks and hands them to a thread.
StopTranscribes(n) ==
    /\ handler[n] = "stopping"
    /\ stream' = [stream EXCEPT ![n] = "closed"]
    /\ pcm[n] >= MinBytes /\ loud[n]
    /\ samples' = [samples EXCEPT ![n] = pcm[n]]
    /\ handler' = [handler EXCEPT ![n] = "waiting"]
    /\ thread' = [thread EXCEPT ![n] = "queued"]
    /\ UNCHANGED <<up, active, processing, pcm, loud, limited, reply, taken>>

\* The worker thread: it picks the samples up, copies them, and comes to an end.
ThreadSteps(n) ==
    /\ \/ /\ thread[n] = "queued"
          /\ thread' = [thread EXCEPT ![n] = "converting"]
       \/ /\ thread[n] = "converting"
          /\ thread' = [thread EXCEPT ![n] = "running"]
       \/ /\ thread[n] = "running"
          /\ \E what \in Answers : thread' = [thread EXCEPT ![n] = what]
    /\ UNCHANGED <<up, recording, ending, taken>>

\* The answer of the thread is awaited no longer; stop() wipes and releases.
StopAnswers(n) ==
    /\ handler[n] = "waiting"
    /\ LoopFree
    /\ \/ thread[n] = "text" /\ Answer(n, "transcript")
       \/ thread[n] = "blank" /\ Answer(n, "silent")
       \/ thread[n] = "raised" /\ Answer(n, "failed")
    /\ samples' = [samples EXCEPT ![n] = 0]
    /\ Release(n)
    /\ UNCHANGED <<up, stream, loud, limited, thread, taken>>

\* Mutant of StopTimesOut: a timeout waits for the thread to end.
StopTimesOutPatiently(n) ==
    /\ handler[n] = "waiting"
    /\ LoopFree
    /\ thread[n] \in Answers
    /\ samples' = [samples EXCEPT ![n] = 0]
    /\ Release(n)
    /\ Answer(n, "timeout")
    /\ UNCHANGED <<up, stream, loud, limited, thread, taken>>

\* wait_for times out.  A thread that has not started never will; a running one
\* goes on.  While the thread exports the buffer, the samples cannot be resized:
\* they are overwritten, clear() raises, and _release is not reached.
StopTimesOut(n) ==
    /\ handler[n] = "waiting"
    /\ LoopFree
    /\ samples' = [samples EXCEPT ![n] = 0]
    /\ thread' = [thread EXCEPT ![n] = IF @ = "queued" THEN "none" ELSE @]
    /\ \/ /\ thread[n] # "converting"
          /\ Release(n)
          /\ Answer(n, "timeout")
       \/ /\ thread[n] = "converting"
          /\ Answer(n, "buffer_error")
          /\ UNCHANGED <<active, processing, pcm>>
    /\ UNCHANGED <<up, stream, loud, limited, taken>>

\* The container closes once no request is in flight: close() ends what is left.
Close ==
    /\ up
    /\ \A n \in Recording : handler[n] \in {"none", "ended"}
    /\ up' = FALSE
    /\ \/ active = None /\ UNCHANGED <<active, processing, stream, pcm>>
       \/ /\ active # None
          /\ stream' = [stream EXCEPT ![active] = "closed"]
          /\ Release(active)
    /\ UNCHANGED <<loud, limited, ending, thread, taken>>

Finishes(n) ==
    \/ CancelEnds(n) \/ StopRefuses(n) \/ StopTranscribes(n)
    \/ StopAnswers(n) \/ StopTimesOut(n)

VoiceNext ==
    \/ \E n \in Recording :
          \/ Start(n)
          \/ \E size \in Chunk, peak \in BOOLEAN : Accept(n, size, peak)
          \/ Claim(n, "stopping") \/ Claim(n, "cancelling")
          \/ Finishes(n)
          \/ ThreadSteps(n)
    \/ Close

VoiceSpec == VoiceInit /\ [][VoiceNext]_voiceVars

------------------------------------------------------------------------------
(* Properties.                                                              *)

\* Every variable holds what the code can put there; no recording is longer
\* than the service allows.
VoiceTypeOK ==
    /\ up \in BOOLEAN /\ processing \in BOOLEAN
    /\ active \in Recording \cup {None}
    /\ stream \in [Recording -> {"none", "open", "closed"}]
    /\ pcm \in [Recording -> 0..MaxBytes] /\ samples \in [Recording -> 0..MaxBytes]
    /\ loud \in [Recording -> BOOLEAN] /\ limited \in [Recording -> BOOLEAN]
    /\ handler \in [Recording -> Handler]
    /\ thread \in [Recording -> Thread]
    /\ reply \in [Recording -> Reply]
    /\ taken \in [Recording -> Nat]

\* A microphone that is open belongs to the active recording: none is left on
\* when a recording is over or another one has begun.
MicrophoneIsActive == \A n \in Recording : stream[n] = "open" => active = n /\ up

\* What is handed to the transcriber is everything that was accepted: no chunk
\* arrives between the join of the buffer and the end of the stream.
NothingCutOff ==
    \A n \in Recording : handler[n] = "waiting" => samples[n] = taken[n]

\* A request that has answered has freed the service and emptied the buffers,
\* unless its timeout fell into the conversion of the samples.
Released ==
    \A n \in Recording :
        handler[n] = "ended" /\ reply[n] # "buffer_error" =>
            active # n /\ pcm[n] = 0 /\ samples[n] = 0

\* A claimed recording is given up again, even if the transcription never ends.
Frees ==
    \A n \in Recording :
        active = n /\ processing ~> active # n \/ reply[n] = "buffer_error"

\* README: the PCM is cleared "immediately after completion, cancellation, an
\* error or a timeout".  Nothing works on a copy of it after the answer.
PcmCleared ==
    \A n \in Recording : handler[n] = "ended" => thread[n] # "running"
==============================================================================
