------------------------------ MODULE Evaluation ------------------------------
(***************************************************************************)
(* The fixed-dataset evaluation: a run loads the cases once, takes an      *)
(* answer per case from the model (capture) or from a snapshot file        *)
(* (replay), scores it, and writes the snapshots and then the report.  The *)
(* dataset may be edited between runs and during one, and the process may  *)
(* end at any step; neither file is written atomically.                    *)
(***************************************************************************)
EXTENDS Naturals, Sequences

CONSTANTS
    LastCase,   \* the cases are 1..LastCase, in the order of their files
    ModelAnswer,     \* what a model may answer, see below
    Decided,    \* the cases whose words decide the arguments, by normalization
    Open,       \* the cases that expect no arguments in particular
    MaxEdit,    \* bound: edits of the dataset
    MaxRun      \* bound: runs of the evaluation

Case == 1..LastCase

\* Of a model's answers: two readings that the case's tool takes, arguments
\* that only the acceptance schema admits, an object that only the one-shot schema
\* admits, an object that none does, and no answer.
Reading == {"A", "B"}
AnyAnswer == Reading \cup {"loose", "legacy", "invalid", "unavailable"}
Admitted(detailed) == Reading \cup {"loose"} \cup IF detailed THEN {} ELSE {"legacy"}

ASSUME EvaluationAssumption ==
    LastCase \in Nat /\ Decided \subseteq Case /\ Open \subseteq Case /\ ModelAnswer \subseteq AnyAnswer

VARIABLES
    inputText,  \* the version of every case's text
    expected,   \* its expected arguments, "any" when the case has none
    edits,
    snapshotFile, \* the JSONL file: [whole, lines]
    job,        \* the run in progress
    runs,
    report,     \* what the last run reported
    captured    \* the report of the capture that wrote the snapshot file

evaluationVars == <<inputText, expected, edits, snapshotFile, job, runs, report, captured>>

None == [mode |-> "none"]

EvaluationInit ==
    /\ inputText = [c \in Case |-> 0]
    /\ expected = [c \in Case |-> IF c \in Open THEN "any" ELSE "A"]
    /\ edits = 0 /\ runs = 0
    /\ snapshotFile = [whole |-> TRUE, lines |-> <<>>]
    /\ job = None /\ report = None /\ captured = None

EditsCase ==
    /\ edits < MaxEdit /\ edits' = edits + 1
    /\ \E c \in Case :
        \/ inputText' = [inputText EXCEPT ![c] = @ + 1] /\ UNCHANGED expected
        \/ \E e \in Reading : expected' = [expected EXCEPT ![c] = e] /\ UNCHANGED inputText
    /\ UNCHANGED <<snapshotFile, job, runs, report, captured>>

\* load_raw_snapshots refuses a corrupt line; a file cut between lines is read.
Lines(file) == {file.lines[i] : i \in DOMAIN file.lines}
SnapshotOf(lines, c) == CHOOSE line \in lines : line.case = c
Covers(lines, c) == \E line \in lines : line.case = c

\* validate_snapshot_inputs: exactly the cases, with the same inputs.
FitsDataset(lines) ==
    /\ {line.case : line \in lines} = Case
    /\ \A line \in lines : line.text = inputText[line.case]

StartsRun ==
    /\ job = None /\ runs < MaxRun /\ runs' = runs + 1
    /\ \E mode \in {"capture", "replay"}, detailed, baseline \in BOOLEAN :
        /\ mode = "replay" \/ baseline => snapshotFile.whole
        /\ baseline => FitsDataset(Lines(snapshotFile))
        /\ job' = [mode |-> mode, detailed |-> detailed, baseline |-> baseline,
                   text |-> inputText, expected |-> expected,
                   source |-> IF mode = "replay" THEN Lines(snapshotFile) ELSE {},
                   lines |-> <<>>, written |-> FALSE]
    /\ report' = None
    /\ UNCHANGED <<inputText, expected, edits, snapshotFile, captured>>

\* _capture_one: every answer becomes a line, failures included.
CapturedLine(c, answer) ==
    [case |-> c, text |-> job.text[c], answer |-> answer,
     error |-> IF answer \in Admitted(job.detailed) THEN "none" ELSE answer]

\* Mutant of ReplayedLine: a line is replayed for its case whatever the input was.
ReplayedLineOfCase(c) ==
    IF Covers(job.source, c) THEN SnapshotOf(job.source, c)
    ELSE [case |-> c, text |-> job.text[c], answer |-> "unavailable", error |-> "missing"]

\* run: a line is replayed only for the input it was captured for.
ReplayedLine(c) ==
    LET lost == [case |-> c, text |-> job.text[c], answer |-> "unavailable", error |-> "missing"] IN
    IF ~Covers(job.source, c) THEN lost
    ELSE LET line == SnapshotOf(job.source, c) IN
         IF line.text = job.text[c] THEN line
         ELSE [line EXCEPT !.answer = "unavailable", !.error = "changed"]

TakesCase ==
    /\ job # None /\ Len(job.lines) < LastCase
    /\ LET c == Len(job.lines) + 1 IN
       \E line \in IF job.mode = "replay" THEN {ReplayedLine(c)}
                   ELSE {CapturedLine(c, answer) : answer \in ModelAnswer} :
          job' = [job EXCEPT !.lines = Append(@, line)]
    /\ UNCHANGED <<inputText, expected, edits, snapshotFile, runs, report, captured>>

\* _parse_snapshot: the recorded error first, then the schema of this run.
ParseError(line) ==
    IF line.error # "none" THEN line.error
    ELSE IF line.answer \in Admitted(job.detailed) THEN "none" ELSE "invalid"

\* _score_detailed_case: the normalized arguments against the case, and the outcome
\* of the task that an isolated core makes of the text and the raw answer.
Repaired(c, answer) == IF c \in Decided THEN "A" ELSE answer
SemanticStatus(c, answer) ==
    CASE job.expected[c] = "any" -> "needs_review"
      [] Repaired(c, answer) = job.expected[c] -> "match"
      [] OTHER -> "mismatch"
PipelineOutcome(c, answer) ==
    CASE Repaired(c, answer) = "A" -> "executed"
      [] Repaired(c, answer) = "B" -> "awaiting_confirmation"
      [] OTHER -> "not_run"

Row(line) ==
    LET c == line.case
        parsed == ParseError(line) = "none" IN
    [error    |-> ParseError(line),
     schema   |-> parsed,
     exact    |-> parsed /\ job.expected[c] \in {"any", line.answer},
     semantic |-> IF ~job.detailed THEN "none"
                  ELSE IF parsed THEN SemanticStatus(c, line.answer) ELSE "mismatch",
     pipeline |-> IF job.detailed /\ parsed THEN PipelineOutcome(c, line.answer) ELSE "not_run"]

Scored == job # None /\ Len(job.lines) = LastCase

WritesSnapshots ==
    /\ Scored /\ job.mode = "capture" /\ ~job.written
    /\ snapshotFile' = [whole |-> TRUE, lines |-> job.lines]
    /\ job' = [job EXCEPT !.written = TRUE]
    /\ captured' = None
    /\ UNCHANGED <<inputText, expected, edits, runs, report>>

\* The process ends while the file is being written: a prefix is left, whose last
\* line may be cut.
LosesSnapshots ==
    /\ Scored /\ job.mode = "capture" /\ ~job.written
    /\ \E last \in 0..(LastCase - 1), whole \in BOOLEAN :
        snapshotFile' = [whole |-> whole, lines |-> SubSeq(job.lines, 1, last)]
    /\ job' = None /\ captured' = None
    /\ UNCHANGED <<inputText, expected, edits, runs, report>>

WritesReport ==
    /\ Scored /\ (job.mode = "capture" => job.written)
    /\ report' = [mode |-> job.mode, detailed |-> job.detailed, baseline |-> job.baseline,
                  text |-> job.text, expected |-> job.expected,
                  rows |-> [c \in Case |-> Row(job.lines[c])]]
    /\ captured' = IF job.mode = "capture" THEN report' ELSE captured
    /\ job' = None
    /\ UNCHANGED <<inputText, expected, edits, snapshotFile, runs>>

StopsRun ==
    /\ job # None /\ job' = None
    /\ UNCHANGED <<inputText, expected, edits, snapshotFile, runs, report, captured>>

EvaluationNext ==
    \/ EditsCase \/ StartsRun \/ TakesCase
    \/ WritesSnapshots \/ LosesSnapshots \/ WritesReport \/ StopsRun

EvaluationSpec == EvaluationInit /\ [][EvaluationNext]_evaluationVars

------------------------------------------------------------------------------
(* Properties.                                                              *)

\* Replaying the snapshots of a capture at the same depth gives every unchanged
\* case the capture's row and every case with a new text no credit, whatever else
\* was run, edited or cut short in between; and a replay that was checked against
\* the dataset first scores no case as missing or changed.
ReplayAgrees ==
    report.mode = "replay" =>
        /\ captured # None /\ report.detailed = captured.detailed =>
            \A c \in Case :
                IF report.text[c] # captured.text[c] THEN ~report.rows[c].schema
                ELSE report.expected[c] = captured.expected[c] => report.rows[c] = captured.rows[c]
        /\ report.baseline =>
            \A c \in Case : report.rows[c].error \notin {"missing", "changed"}
==============================================================================
