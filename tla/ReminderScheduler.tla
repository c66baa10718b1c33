-------------------------- MODULE ReminderScheduler --------------------------
(***************************************************************************)
(* The reminders of tools/reminder_tool.py: the rows, what the tool's      *)
(* actions do to them, and the polling loop.                               *)
(***************************************************************************)
EXTENDS ServerClock

CONSTANTS
    Reminder,       \* row identifiers; AUTOINCREMENT never reuses one
    Week            \* the distance of two occurrences of a weekly reminder

ASSUME WeekAssumption == Week \in Nat \ {0}

VARIABLES
    status,         \* the status column, "absent" and "deleted" for no row
    due,            \* the due_at column
    weekly,         \* whether repeat_rule is set
    batch,          \* what poll_due has read and not dealt with: <<row, due_at>>
    calling,        \* the row of the batch whose callback has been called
    first,          \* history: the due_at a row was created with
    attempts,       \* history: calls of the callback, by row and due_at
    torn            \* history: rows called and not committed when the process ended

reminderVars == <<status, due, weekly, batch, calling, first, attempts, torn>>

\* A row may be moved one week past the clock's end.
Due == 0..(MaxTime + Week)

ReminderInit ==
    /\ status = [i \in Reminder |-> "absent"]
    /\ due = [i \in Reminder |-> 0]
    /\ weekly = [i \in Reminder |-> FALSE]
    /\ batch = {}
    /\ calling = {}
    /\ first = [i \in Reminder |-> 0]
    /\ attempts = [i \in Reminder |-> [d \in Due |-> 0]]
    /\ torn = [i \in Reminder |-> [d \in Due |-> 0]]

\* The tool's create action.  The parser takes a date that is over, but a weekly
\* reminder begins with a weekday to come.
ReminderCreate(i, d, repeats) ==
    /\ LoopFree
    /\ status[i] = "absent"
    /\ repeats => d > now
    /\ status' = [status EXCEPT ![i] = "active"]
    /\ due' = [due EXCEPT ![i] = d]
    /\ weekly' = [weekly EXCEPT ![i] = repeats]
    /\ first' = [first EXCEPT ![i] = d]
    /\ UNCHANGED <<clockVars, batch, calling, attempts, torn>>

\* cancel and complete: whatever the row's status is.
ReminderEnd(i, s) ==
    /\ LoopFree
    /\ status[i] \notin {"absent", "deleted"}
    /\ status' = [status EXCEPT ![i] = s]
    /\ UNCHANGED <<clockVars, due, weekly, batch, calling, first, attempts, torn>>

\* delete_all empties the table.
ReminderDeleteAll ==
    /\ LoopFree
    /\ status' = [i \in Reminder |-> IF status[i] = "absent" THEN "absent" ELSE "deleted"]
    /\ UNCHANGED <<clockVars, due, weekly, batch, calling, first, attempts, torn>>

\* Mutant of DueRows: a reminder is due only after its time.
DueRowsAfter == {i \in Reminder : status[i] = "active" /\ due[i] < now}

\* The rows poll_due selects.
DueRows == {i \in Reminder : status[i] = "active" /\ due[i] <= now}

\* poll_due finds due rows.
ReminderPoll ==
    /\ DueRows # {}
    /\ Take("reminders")
    /\ batch' = {<<i, due[i]>> : i \in DueRows}
    /\ UNCHANGED <<status, due, weekly, calling, first, attempts, torn>>

\* The rows of a batch are dealt with in the order of due_at.
Foremost(x) == x \in batch /\ \A y \in batch : x[2] <= y[2]

\* The callback of a row is called; an exception is logged and changes nothing.
ReminderNotify(x) ==
    /\ holder = "reminders"
    /\ calling = {}
    /\ Foremost(x)
    /\ calling' = {x}
    /\ attempts' = [attempts EXCEPT ![x[1]][x[2]] = @ + 1]
    /\ UNCHANGED <<clockVars, status, due, weekly, batch, first, torn>>

\* Mutant of NextDue: the occurrences that were missed are jumped over.
NextDueFuture(d) == CHOOSE e \in Due : e > now /\ e <= now + Week /\ (e - d) % Week = 0

\* A weekly reminder moves on by one week from where it was.
NextDue(d) == d + Week

\* Mutant of AfterCall: a row whose callback failed stays as it is.
AfterCallFailed(i) == status[i]

\* A reminder that does not repeat has been notified.
AfterCall(i) == IF weekly[i] THEN status[i] ELSE "notified"

\* The row is updated and committed.
ReminderCommit(x) ==
    LET i == x[1] IN
    /\ holder = "reminders"
    /\ calling = {x}
    /\ due' = [due EXCEPT ![i] = IF weekly[i] THEN NextDue(x[2]) ELSE @]
    /\ status' = [status EXCEPT ![i] = AfterCall(i)]
    /\ batch' = batch \ {x}
    /\ calling' = {}
    /\ HandBack(batch' = {})
    /\ UNCHANGED <<weekly, first, attempts, torn>>

\* What the end of the process does here: the batch is lost, and a row that has
\* been called is still active.
ReminderStop ==
    /\ batch' = {}
    /\ calling' = {}
    /\ torn' = [i \in Reminder |-> [d \in Due |->
                  torn[i][d] + (IF <<i, d>> \in calling THEN 1 ELSE 0)]]
    /\ UNCHANGED <<status, due, weekly, first, attempts>>

ReminderTypeOK ==
    /\ status \in [Reminder -> {"absent", "active", "notified", "completed",
                                "cancelled", "deleted"}]
    /\ due \in [Reminder -> Due] /\ first \in [Reminder -> Due]
    /\ weekly \in [Reminder -> BOOLEAN]
    /\ batch \subseteq Reminder \X Due
    /\ calling \subseteq batch
    /\ attempts \in [Reminder -> [Due -> Nat]] /\ torn \in [Reminder -> [Due -> Nat]]
==============================================================================
