--------------------------- MODULE VoiceInputProofs ---------------------------
(***************************************************************************)
(* The safety properties of VoiceInput, for every set of recordings, every *)
(* length of a recording and every way the sound arrives.                  *)
(***************************************************************************)
EXTENDS VoiceInput, TLAPS

Ending == {"stopping", "cancelling", "waiting"}

\* A request that ends a recording has claimed the active one of a server that is
\* up, and who has claimed one once cannot record under its name again.
ClaimIsActive ==
    \A n \in Recording :
        /\ handler[n] \in Ending => up /\ active = n /\ processing
        /\ handler[n] # "none" => stream[n] # "none"
        /\ active = n => stream[n] # "none"
        /\ active = n /\ ~processing => handler[n] = "none"

\* The buffer holds what was accepted until the samples are taken from it, and no
\* more is accepted after that.
BufferIsWhole ==
    \A n \in Recording :
        /\ up /\ handler[n] \in {"none", "stopping", "cancelling"} => pcm[n] = taken[n]
        /\ handler[n] \in {"none", "stopping", "cancelling"} => samples[n] = 0
        /\ handler[n] = "waiting" => stream[n] = "closed"

VoiceInv ==
    /\ VoiceTypeOK
    /\ ClaimIsActive /\ BufferIsWhole
    /\ MicrophoneIsActive /\ NothingCutOff /\ Released

LEMMA VoiceInitInv == ASSUME VoiceInit PROVE VoiceInv
<1> USE DEF VoiceInit
<1>0. 0 \in 0..MaxBytes /\ None \notin Recording
  BY VoiceAssumption
<1>1. VoiceTypeOK
  BY <1>0 DEF VoiceTypeOK, Handler, Reply, Thread
<1>2. \A n \in Recording :
        /\ handler[n] = "none" /\ stream[n] = "none" /\ active # n
        /\ pcm[n] = 0 /\ taken[n] = 0 /\ samples[n] = 0
  BY <1>0
<1>3. ClaimIsActive /\ BufferIsWhole
  BY <1>2 DEF ClaimIsActive, BufferIsWhole, Ending
<1>4. MicrophoneIsActive /\ NothingCutOff /\ Released
  BY <1>2 DEF MicrophoneIsActive, NothingCutOff, Released
<1>. QED
  BY <1>1, <1>3, <1>4 DEF VoiceInv

LEMMA StartInv == ASSUME VoiceInv, NEW n \in Recording, Start(n) PROVE VoiceInv'
<1> USE VoiceAssumption DEF VoiceInv, Start, MayStart, ending
<1>1. VoiceTypeOK'
  BY DEF VoiceTypeOK
<1>2. handler[n] = "none"
  BY DEF ClaimIsActive
<1>3. ClaimIsActive'
  BY <1>2 DEF VoiceTypeOK, ClaimIsActive, Ending
<1>4. BufferIsWhole' /\ NothingCutOff'
  BY <1>2 DEF VoiceTypeOK, BufferIsWhole, NothingCutOff
<1>5. MicrophoneIsActive' /\ Released'
  BY <1>2 DEF VoiceTypeOK, MicrophoneIsActive, Released
<1>. QED
  BY <1>1, <1>3, <1>4, <1>5

LEMMA AcceptInv ==
    ASSUME VoiceInv, NEW n \in Recording, NEW size \in Chunk, NEW peak \in BOOLEAN,
           Accept(n, size, peak)
    PROVE  VoiceInv'
<1> USE DEF VoiceInv
<1> DEFINE kept == IF size < Room(n) THEN size ELSE Room(n)
<1>1. kept \in Nat /\ pcm[n] + kept \in 0..MaxBytes
  BY VoiceAssumption DEF Room, VoiceTypeOK
<1>2. /\ stream[n] = "open" /\ active = n
      /\ pcm' = [pcm EXCEPT ![n] = @ + kept]
      /\ taken' = [taken EXCEPT ![n] = @ + kept]
      /\ loud' = [loud EXCEPT ![n] = @ \/ (peak /\ kept > 0)]
      /\ limited' = [limited EXCEPT ![n] = @ \/ kept < size]
      /\ UNCHANGED <<up, active, processing, stream, handler, samples, reply, thread>>
  BY DEF Accept, ending
<1>. HIDE DEF kept
<1>3. VoiceTypeOK'
  <2>1. pcm' \in [Recording -> 0..MaxBytes] /\ taken' \in [Recording -> Nat]
    BY <1>1, <1>2 DEF VoiceTypeOK
  <2>2. loud' \in [Recording -> BOOLEAN] /\ limited' \in [Recording -> BOOLEAN]
    BY <1>2 DEF VoiceTypeOK
  <2>. QED
    BY <1>2, <2>1, <2>2 DEF VoiceTypeOK
<1>4. handler[n] # "waiting"
  BY <1>2 DEF BufferIsWhole
<1>5. ClaimIsActive' /\ MicrophoneIsActive'
  BY <1>2 DEF ClaimIsActive, MicrophoneIsActive
<1>6. BufferIsWhole' /\ NothingCutOff'
  BY <1>1, <1>2, <1>4 DEF VoiceTypeOK, BufferIsWhole, NothingCutOff
<1>7. Released'
  BY <1>2 DEF VoiceTypeOK, Released
<1>. QED
  BY <1>3, <1>5, <1>6, <1>7

LEMMA ClaimInv ==
    ASSUME VoiceInv, NEW n \in Recording, NEW how \in {"stopping", "cancelling"}, Claim(n, how)
    PROVE  VoiceInv'
<1> USE DEF VoiceInv, Claim
<1>1. VoiceTypeOK'
  BY DEF VoiceTypeOK, Handler
<1>2. handler[n] = "none"
  BY DEF ClaimIsActive
<1>3. ClaimIsActive'
  BY <1>2 DEF VoiceTypeOK, ClaimIsActive, Ending
<1>4. BufferIsWhole' /\ NothingCutOff'
  BY <1>2 DEF VoiceTypeOK, BufferIsWhole, NothingCutOff
<1>5. MicrophoneIsActive' /\ Released'
  BY DEF VoiceTypeOK, MicrophoneIsActive, Released
<1>. QED
  BY <1>1, <1>3, <1>4, <1>5

\* What every way to end a recording has in common: it closes the stream, frees
\* the service, empties the buffers and answers.
LEMMA EndedInv ==
    ASSUME VoiceInv, NEW n \in Recording, handler[n] \in Ending,
           stream' \in {stream, [stream EXCEPT ![n] = "closed"]},
           stream[n] = "open" => stream' # stream,
           Release(n), NEW what \in Reply, Answer(n, what),
           samples' \in {samples, [samples EXCEPT ![n] = 0]},
           handler[n] = "waiting" => samples' # samples \/ samples[n] = 0,
           thread' \in [Recording -> Thread],
           UNCHANGED <<up, loud, limited, taken>>
    PROVE  VoiceInv'
<1> USE DEF VoiceInv, Ending
<1>1. up /\ active = n /\ processing
  BY DEF ClaimIsActive
<1>2. /\ active' = None /\ processing' = FALSE
      /\ pcm' = [pcm EXCEPT ![n] = 0]
      /\ handler' = [handler EXCEPT ![n] = "ended"]
      /\ reply' = [reply EXCEPT ![n] = what]
  BY <1>1 DEF Release, Erase, Answer
<1>3. 0 \in 0..MaxBytes /\ None \notin Recording
  BY VoiceAssumption
<1>4. samples'[n] = 0 /\ \A m \in Recording : m # n => samples'[m] = samples[m]
  BY DEF VoiceTypeOK, BufferIsWhole
<1>5. stream'[n] # "open" /\ \A m \in Recording : m # n => stream'[m] = stream[m]
  BY DEF VoiceTypeOK
<1>6. VoiceTypeOK'
  <2>1. /\ pcm' \in [Recording -> 0..MaxBytes] /\ samples' \in [Recording -> 0..MaxBytes]
        /\ stream' \in [Recording -> {"none", "open", "closed"}]
    BY <1>2, <1>3 DEF VoiceTypeOK
  <2>2. handler' \in [Recording -> Handler] /\ reply' \in [Recording -> Reply]
    BY <1>2 DEF VoiceTypeOK, Handler
  <2>. QED
    BY <1>2, <2>1, <2>2 DEF VoiceTypeOK
<1>7. stream'[n] # "none"
  BY DEF VoiceTypeOK, ClaimIsActive
<1>8. ClaimIsActive'
  BY <1>1, <1>2, <1>3, <1>5, <1>7 DEF VoiceTypeOK, ClaimIsActive
<1>9. BufferIsWhole' /\ NothingCutOff'
  BY <1>2, <1>4, <1>5 DEF VoiceTypeOK, BufferIsWhole, NothingCutOff
<1>10. MicrophoneIsActive'
  BY <1>1, <1>5 DEF MicrophoneIsActive
<1>11. Released'
  BY <1>2, <1>3, <1>4 DEF VoiceTypeOK, Released
<1>. QED
  BY <1>6, <1>8, <1>9, <1>10, <1>11

LEMMA CancelInv == ASSUME VoiceInv, NEW n \in Recording, CancelEnds(n) PROVE VoiceInv'
<1>1. PICK what \in {"cancelled", "failed"} : Answer(n, what)
  BY DEF CancelEnds
<1>2. handler[n] = "cancelling" /\ thread' \in [Recording -> Thread] /\ what \in Reply
  BY DEF CancelEnds, VoiceInv, VoiceTypeOK, Reply
<1>3. stream' = [stream EXCEPT ![n] = "closed"]
  BY DEF CancelEnds
<1>4. stream[n] = "open" => stream' # stream
  BY <1>3 DEF VoiceInv, VoiceTypeOK
<1>. QED
  BY <1>1, <1>2, <1>3, <1>4, EndedInv DEF CancelEnds, Ending

LEMMA RefusesInv == ASSUME VoiceInv, NEW n \in Recording, StopRefuses(n) PROVE VoiceInv'
<1>1. PICK what \in {"failed", "short", "silent"} : Answer(n, what)
  BY DEF StopRefuses, Refusal
<1>2. handler[n] = "stopping" /\ thread' \in [Recording -> Thread] /\ what \in Reply
  BY DEF StopRefuses, VoiceInv, VoiceTypeOK, Reply
<1>3. stream' = [stream EXCEPT ![n] = "closed"]
  BY DEF StopRefuses
<1>4. stream[n] = "open" => stream' # stream
  BY <1>3 DEF VoiceInv, VoiceTypeOK
<1>. QED
  BY <1>1, <1>2, <1>3, <1>4, EndedInv DEF StopRefuses, Ending

LEMMA TranscribesInv == ASSUME VoiceInv, NEW n \in Recording, StopTranscribes(n) PROVE VoiceInv'
<1> USE DEF VoiceInv, StopTranscribes
<1>1. VoiceTypeOK'
  BY DEF VoiceTypeOK, Handler, Thread
<1>2. up /\ active = n /\ processing /\ pcm[n] = taken[n]
  BY DEF ClaimIsActive, BufferIsWhole, Ending
<1>3. ClaimIsActive'
  BY <1>2 DEF VoiceTypeOK, ClaimIsActive, Ending
<1>4. BufferIsWhole' /\ NothingCutOff'
  BY <1>2 DEF VoiceTypeOK, BufferIsWhole, NothingCutOff
<1>5. MicrophoneIsActive' /\ Released'
  BY DEF VoiceTypeOK, MicrophoneIsActive, Released
<1>. QED
  BY <1>1, <1>3, <1>4, <1>5

LEMMA ThreadInv == ASSUME VoiceInv, NEW n \in Recording, ThreadSteps(n) PROVE VoiceInv'
<1>1. UNCHANGED <<up, active, processing, stream, pcm, loud, limited, handler, samples, reply, taken>>
  BY DEF ThreadSteps, recording, ending
<1>2. thread' \in [Recording -> Thread]
  BY DEF ThreadSteps, VoiceInv, VoiceTypeOK, Thread, Answers
<1>. QED
  BY <1>1, <1>2 DEF VoiceInv, VoiceTypeOK, ClaimIsActive, BufferIsWhole, MicrophoneIsActive,
                    NothingCutOff, Released

\* A transcription that is given up or has answered.
LEMMA AnswersInv == ASSUME VoiceInv, NEW n \in Recording, StopAnswers(n) PROVE VoiceInv'
<1>1. PICK what \in {"transcript", "silent", "failed"} : Answer(n, what)
  BY DEF StopAnswers
<1>2. handler[n] = "waiting" /\ thread' \in [Recording -> Thread] /\ what \in Reply
  BY DEF StopAnswers, VoiceInv, VoiceTypeOK, Reply
<1>3. stream[n] = "closed"
  BY <1>2 DEF VoiceInv, BufferIsWhole
<1>4. samples' = [samples EXCEPT ![n] = 0] /\ (samples' = samples => samples[n] = 0)
  BY DEF StopAnswers, VoiceInv, VoiceTypeOK
<1>. QED
  BY <1>1, <1>2, <1>3, <1>4, EndedInv DEF StopAnswers, Ending

LEMMA TimesOutInv == ASSUME VoiceInv, NEW n \in Recording, StopTimesOut(n) PROVE VoiceInv'
<1>1. handler[n] = "waiting" /\ thread' \in [Recording -> Thread]
  BY DEF StopTimesOut, VoiceInv, VoiceTypeOK, Thread
<1>2. stream[n] = "closed"
  BY <1>1 DEF VoiceInv, BufferIsWhole
<1>3. samples' = [samples EXCEPT ![n] = 0] /\ (samples' = samples => samples[n] = 0)
  BY DEF StopTimesOut, VoiceInv, VoiceTypeOK
<1>4. CASE Release(n) /\ Answer(n, "timeout")
  <2>1. "timeout" \in Reply
    BY DEF Reply
  <2>. QED
    BY <1>1, <1>2, <1>3, <1>4, <2>1, EndedInv DEF StopTimesOut, Ending
<1>5. CASE Answer(n, "buffer_error") /\ UNCHANGED <<active, processing, pcm>>
  <2> USE DEF VoiceInv
  <2>1. /\ handler' = [handler EXCEPT ![n] = "ended"]
        /\ reply' = [reply EXCEPT ![n] = "buffer_error"]
        /\ UNCHANGED <<up, active, processing, stream, pcm, loud, limited, taken>>
    BY <1>5 DEF StopTimesOut, Answer
  <2>2. up /\ active = n /\ processing
    BY <1>1 DEF ClaimIsActive, Ending
  <2>3. VoiceTypeOK'
    <3>1. samples' \in [Recording -> 0..MaxBytes]
      BY <1>3, VoiceAssumption DEF VoiceTypeOK
    <3>2. handler' \in [Recording -> Handler] /\ reply' \in [Recording -> Reply]
      BY <2>1 DEF VoiceTypeOK, Handler, Reply
    <3>. QED
      BY <1>1, <2>1, <3>1, <3>2 DEF VoiceTypeOK
  <2>4. ClaimIsActive'
    BY <2>1, <2>2 DEF VoiceTypeOK, ClaimIsActive, Ending
  <2>5. BufferIsWhole' /\ NothingCutOff'
    BY <1>3, <2>1 DEF VoiceTypeOK, BufferIsWhole, NothingCutOff
  <2>6. MicrophoneIsActive' /\ Released'
    BY <1>3, <2>1 DEF VoiceTypeOK, MicrophoneIsActive, Released
  <2>. QED
    BY <2>3, <2>4, <2>5, <2>6
<1>. QED
  BY <1>4, <1>5 DEF StopTimesOut

LEMMA CloseInv == ASSUME VoiceInv, Close PROVE VoiceInv'
<1> USE DEF VoiceInv
<1>0. /\ up' = FALSE /\ \A n \in Recording : handler[n] \in {"none", "ended"}
      /\ UNCHANGED <<loud, limited, handler, samples, reply, thread, taken>>
  BY DEF Close, ending
<1>1. CASE active = None /\ UNCHANGED <<active, processing, stream, pcm>>
  <2>1. VoiceTypeOK'
    BY <1>0, <1>1 DEF VoiceTypeOK
  <2>2. ClaimIsActive' /\ BufferIsWhole'
    BY <1>0, <1>1 DEF ClaimIsActive, BufferIsWhole, Ending
  <2>3. MicrophoneIsActive' /\ NothingCutOff' /\ Released'
    BY <1>0, <1>1, VoiceAssumption DEF MicrophoneIsActive, NothingCutOff, Released
  <2>. QED
    BY <2>1, <2>2, <2>3
<1>2. CASE active # None /\ stream' = [stream EXCEPT ![active] = "closed"] /\ Release(active)
  <2>1. /\ active \in Recording /\ active' = None /\ processing' = FALSE
        /\ pcm' = [pcm EXCEPT ![active] = 0]
    BY <1>2 DEF VoiceTypeOK, Release, Erase
  <2>2. VoiceTypeOK'
    <3>1. pcm' \in [Recording -> 0..MaxBytes]
      BY <2>1, VoiceAssumption DEF VoiceTypeOK
    <3>2. stream' \in [Recording -> {"none", "open", "closed"}]
      BY <1>2, <2>1 DEF VoiceTypeOK
    <3>. QED
      BY <1>0, <2>1, <3>1, <3>2 DEF VoiceTypeOK
  <2>3. ClaimIsActive' /\ BufferIsWhole'
    BY <1>0, <1>2, <2>1, VoiceAssumption DEF VoiceTypeOK, ClaimIsActive, BufferIsWhole, Ending
  <2>4. MicrophoneIsActive'
    BY <1>2, <2>1 DEF VoiceTypeOK, MicrophoneIsActive
  <2>5. NothingCutOff' /\ Released'
    BY <1>0, <2>1, VoiceAssumption DEF VoiceTypeOK, NothingCutOff, Released
  <2>. QED
    BY <2>2, <2>3, <2>4, <2>5
<1>. QED
  BY <1>1, <1>2 DEF Close

\* The invariant holds in every reachable state.
LEMMA VoiceInvariant == VoiceSpec => []VoiceInv
<1>1. VoiceInit => VoiceInv
  BY VoiceInitInv
<1>2. VoiceInv /\ [VoiceNext]_voiceVars => VoiceInv'
  <2>. SUFFICES ASSUME VoiceInv, [VoiceNext]_voiceVars PROVE VoiceInv'
    OBVIOUS
  <2>1. ASSUME NEW n \in Recording, Finishes(n) PROVE VoiceInv'
    BY <2>1, CancelInv, RefusesInv, TranscribesInv, AnswersInv, TimesOutInv DEF Finishes
  <2>2. CASE UNCHANGED voiceVars
    BY <2>2 DEF voiceVars, recording, ending, VoiceInv, VoiceTypeOK, ClaimIsActive, BufferIsWhole,
                MicrophoneIsActive, NothingCutOff, Released
  <2>. QED
    BY <2>1, <2>2, StartInv, AcceptInv, ClaimInv, ThreadInv, CloseInv DEF VoiceNext
<1>. QED
  BY <1>1, <1>2, PTL DEF VoiceSpec

\* No recording exceeds what the service allows, whatever the chunks' sizes
\* (_accept_chunk).
THEOREM VoiceTypeCorrect == VoiceSpec => []VoiceTypeOK
BY VoiceInvariant, PTL DEF VoiceInv

\* A microphone that is open belongs to the active recording of a running server:
\* the streams are closed on every path of stop, cancel and close.
THEOREM MicrophoneStaysActive == VoiceSpec => []MicrophoneIsActive
BY VoiceInvariant, PTL DEF VoiceInv

\* What is handed to the transcriber is everything that was accepted: stop closes
\* the stream before it joins the chunks.
THEOREM NothingIsCutOff == VoiceSpec => []NothingCutOff
BY VoiceInvariant, PTL DEF VoiceInv

\* A request that has answered has freed the service and emptied the buffers,
\* unless its timeout fell into the conversion of the samples.
THEOREM AnsweredIsReleased == VoiceSpec => []Released
BY VoiceInvariant, PTL DEF VoiceInv

------------------------------------------------------------------------------
(* The transcription after the answer.                                      *)

\* A thread is there once the samples are handed over, and is left at work only by
\* a request that has timed out.
ThreadsLeft ==
    \A n \in Recording :
        /\ handler[n] \notin {"waiting", "ended"} => thread[n] = "none"
        /\ handler[n] = "ended" =>
            /\ thread[n] # "queued"
            /\ thread[n] \in {"converting", "running"} => reply[n] \in {"timeout", "buffer_error"}

LEMMA ThreadsLeftNext == ASSUME VoiceInv, ThreadsLeft, [VoiceNext]_voiceVars PROVE ThreadsLeft'
<1> USE DEF VoiceInv, VoiceTypeOK
<1>1. ASSUME NEW n \in Recording, Start(n) \/ \E size \in Chunk, peak \in BOOLEAN : Accept(n, size, peak)
      PROVE  ThreadsLeft'
  <2>1. UNCHANGED <<handler, thread, reply>>
    BY <1>1 DEF Start, Accept, ending
  <2>. QED
    BY <2>1 DEF ThreadsLeft
<1>2. ASSUME NEW n \in Recording, NEW how \in {"stopping", "cancelling"}, Claim(n, how) PROVE ThreadsLeft'
  <2>1. handler[n] = "none"
    BY <1>2 DEF Claim, ClaimIsActive
  <2>. QED
    BY <1>2, <2>1 DEF Claim, ThreadsLeft
<1>3. ASSUME NEW n \in Recording, CancelEnds(n) \/ StopRefuses(n) PROVE ThreadsLeft'
  BY <1>3 DEF CancelEnds, StopRefuses, Refusal, Answer, ThreadsLeft
<1>4. ASSUME NEW n \in Recording, StopTranscribes(n) PROVE ThreadsLeft'
  BY <1>4 DEF StopTranscribes, ThreadsLeft
<1>5. ASSUME NEW n \in Recording, StopAnswers(n) PROVE ThreadsLeft'
  BY <1>5 DEF StopAnswers, Answer, ThreadsLeft
<1>6. ASSUME NEW n \in Recording, StopTimesOut(n) PROVE ThreadsLeft'
  BY <1>6 DEF StopTimesOut, Answer, ThreadsLeft
<1>7. ASSUME NEW n \in Recording, ThreadSteps(n) PROVE ThreadsLeft'
  BY <1>7 DEF ThreadSteps, Answers, ending, ThreadsLeft
<1>8. CASE Close \/ UNCHANGED voiceVars
  BY <1>8 DEF Close, voiceVars, ending, ThreadsLeft
<1>. QED
  BY <1>1, <1>2, <1>3, <1>4, <1>5, <1>6, <1>7, <1>8 DEF VoiceNext, Finishes

\* What remains of the README's claim that the samples are gone after the answer: a
\* thread works on a copy of them after the answer only if that was a timeout.
CopiesAfterTimeouts ==
    \A n \in Recording :
        handler[n] = "ended" /\ thread[n] = "running" => reply[n] \in {"timeout", "buffer_error"}

\* stop() awaits its thread on every path but that of the timeout.
THEOREM OnlyTimeoutsLeaveCopies == VoiceSpec => []CopiesAfterTimeouts
<1>1. VoiceInit => ThreadsLeft
  BY DEF VoiceInit, ThreadsLeft
<1>2. VoiceInv /\ ThreadsLeft /\ [VoiceNext]_voiceVars => ThreadsLeft'
  BY ThreadsLeftNext
<1>3. ThreadsLeft => CopiesAfterTimeouts
  BY DEF ThreadsLeft, CopiesAfterTimeouts
<1>. QED
  BY <1>1, <1>2, <1>3, VoiceInvariant, PTL DEF VoiceSpec
===============================================================================
