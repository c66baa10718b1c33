------------------------------- MODULE AuditLog -------------------------------
(***************************************************************************)
(* AuditService: events are redacted, buffered, and appended to one file a *)
(* day.  A flush writes the buffer's days in turn; when a write fails the  *)
(* exception leaves the whole buffer in place.                             *)
(***************************************************************************)
EXTENDS Integers, Sequences, FiniteSets

CONSTANTS
    FlushSize, RetentionDays,
    MaxEvent, MaxDay, MaxFailedWrite  \* bounds on the events recorded, the calendar and the failed writes

ASSUME AuditAssumption ==
    /\ FlushSize \in Nat \ {0} /\ RetentionDays \in Nat
    /\ MaxEvent \in Nat /\ MaxDay \in Nat /\ MaxFailedWrite \in Nat

VARIABLES
    day,          \* today
    recorded,     \* day of each event recorded so far
    buffer,       \* events waiting, in order
    logFile,      \* times each event is on file
    failedWrites,         \* writes that have failed (history)
    lost          \* events in the buffer of a process that was killed (history)

auditVars == <<day, recorded, buffer, logFile, failedWrites, lost>>
Event == 1..Len(recorded)
Buffered == {buffer[i] : i \in DOMAIN buffer}

AuditInit ==
    /\ day = 1 /\ recorded = <<>> /\ buffer = <<>>
    /\ logFile = [e \in 1..MaxEvent |-> 0]
    /\ failedWrites = 0 /\ lost = {}

\* Mutant of FlushFails: the buffer is emptied first.
FlushFailsEmptied(b, d, n) ==
    /\ failedWrites < MaxFailedWrite
    /\ n = 0
    /\ logFile' = [e \in 1..MaxEvent |-> logFile[e] + Cardinality(
            {i \in DOMAIN b : b[i] = e /\ recorded'[e] < d})]
    /\ buffer' = <<>> /\ failedWrites' = failedWrites + 1

\* _flush_unlocked over b: every event of b is written, or those of the days
\* before d and none or some of d's, in which case the buffer stays as it is.
Flushed(b) ==
    /\ logFile' = [e \in 1..MaxEvent |-> logFile[e] + Cardinality({i \in DOMAIN b : b[i] = e})]
    /\ buffer' = <<>> /\ UNCHANGED failedWrites

FlushFails(b, d, n) ==
    /\ failedWrites < MaxFailedWrite
    /\ n < Cardinality({i \in DOMAIN b : recorded'[b[i]] = d})
    /\ logFile' = [e \in 1..MaxEvent |-> logFile[e] + Cardinality(
            {i \in DOMAIN b : b[i] = e /\
                \/ recorded'[e] < d
                \/ recorded'[e] = d /\ Cardinality({j \in 1..i : recorded'[b[j]] = d}) <= n})]
    /\ buffer' = b /\ failedWrites' = failedWrites + 1

Flush(b) == Flushed(b) \/ \E d \in 1..day, n \in 0..(FlushSize - 1) : FlushFails(b, d, n)

RecordEvent ==
    /\ Len(recorded) < MaxEvent
    /\ recorded' = Append(recorded, day)
    /\ LET b == Append(buffer, Len(recorded')) IN
       IF Len(b) >= FlushSize THEN Flush(b) ELSE buffer' = b /\ UNCHANGED <<logFile, failedWrites>>
    /\ UNCHANGED <<day, lost>>

\* flush(), at shutdown and before by_task reads the files.
FlushEvents ==
    /\ buffer # <<>>
    /\ UNCHANGED <<day, recorded, lost>>
    /\ Flush(buffer)

Midnight ==
    /\ day < MaxDay /\ day' = day + 1
    /\ UNCHANGED <<recorded, buffer, logFile, failedWrites, lost>>

\* The process ends with what is in its buffer, and the next one starts: the
\* files of days before the cutoff are removed then, and only then.
RestartAudit ==
    /\ buffer' = <<>>
    /\ lost' = lost \cup {e \in Buffered : logFile[e] = 0}
    /\ logFile' = [e \in 1..MaxEvent |->
            IF e \in Event /\ recorded[e] < day - RetentionDays THEN 0 ELSE logFile[e]]
    /\ UNCHANGED <<day, recorded, failedWrites>>

AuditNext == RecordEvent \/ FlushEvents \/ Midnight \/ RestartAudit

AuditSpec == AuditInit /\ [][AuditNext]_auditVars

------------------------------------------------------------------------------
(* Properties.                                                              *)

\* Every event is on file or in the buffer until its day is over for good; what a
\* kill can lose is less than a full buffer unless a write had failed, and only a
\* failed write puts an event on file twice, or beside the buffer.
AuditKeepsAll ==
    /\ \A e \in Event :
        logFile[e] > 0 \/ e \in Buffered \/ e \in lost \/ recorded[e] < day - RetentionDays
    /\ failedWrites = 0 =>
        /\ Len(buffer) < FlushSize
        /\ \A e \in Event : logFile[e] + (IF e \in Buffered THEN 1 ELSE 0) <= 1
===============================================================================
