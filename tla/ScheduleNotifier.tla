--------------------------- MODULE ScheduleNotifier ---------------------------
(***************************************************************************)
(* The notifications of tools/schedule_tool.py: the schedules, the keys    *)
(* recorded for their occurrences, and the polling loop.  A recurrence is  *)
(* the set of minutes its occurrences start in.                            *)
(***************************************************************************)
EXTENDS ServerClock

CONSTANTS
    Schedule,       \* schedule identifiers
    Pattern,        \* the sets of occurrences a schedule can have
    Lead,           \* notify_before_minutes
    Grace,          \* how far poll_due's window reaches back: one minute
    Ahead           \* how far it reaches forward: a day and a minute

ASSUME ScheduleAssumption ==
    /\ \A p \in Pattern : p \subseteq Nat
    /\ Lead \in Nat /\ Grace \in Nat /\ Ahead \in Nat
    /\ Lead < Ahead

VARIABLES
    active,         \* the schedules that are there and not cancelled
    plan,           \* the occurrences of each schedule, none before its creation
    since,          \* history: when it was created
    keys,           \* schedule_notifications: <<schedule, occurrence>>
    pending,        \* recorded by the poll under way and not emitted
    told            \* history: notifications emitted, by schedule and occurrence

scheduleVars == <<active, plan, since, keys, pending, told>>

Occurrence == Schedule \X Time

ScheduleInit ==
    /\ active = {}
    /\ plan = [s \in Schedule |-> {}]
    /\ since = [s \in Schedule |-> 0]
    /\ keys = {}
    /\ pending = {}
    /\ told = [x \in Occurrence |-> 0]

\* The tool's create action.
ScheduleCreate(s, p) ==
    /\ LoopFree
    /\ plan[s] = {}
    /\ active' = active \cup {s}
    /\ plan' = [plan EXCEPT ![s] = p]
    /\ since' = [since EXCEPT ![s] = now]
    /\ UNCHANGED <<clockVars, keys, pending, told>>

\* A confirmed cancel; a second one changes nothing.
ScheduleCancel(s) ==
    /\ LoopFree
    /\ s \in active
    /\ active' = active \ {s}
    /\ UNCHANGED <<clockVars, plan, since, keys, pending, told>>

\* Mutant of InWindow: the window begins now.
InWindowNow(o) == now <= o /\ o < now + Ahead

\* The window poll_due expands the recurrences in.
InWindow(o) == now <= o + Grace /\ o < now + Ahead

\* Mutant of Unrecorded: an occurrence's key is replaced, not ignored.
UnrecordedAny(x) == TRUE

\* INSERT OR IGNORE inserts a row.
Unrecorded(x) == x \notin keys

\* The occurrences that are to be notified now.
DueOccurrences ==
    {x \in Occurrence :
        /\ x[1] \in active
        /\ x[2] \in plan[x[1]]
        /\ InWindow(x[2])
        /\ x[2] <= now + Lead
        /\ Unrecorded(x)}

\* poll_due commits the keys before it emits anything.
SchedulePoll ==
    /\ DueOccurrences # {}
    /\ Take("schedules")
    /\ keys' = keys \cup DueOccurrences
    /\ pending' = DueOccurrences
    /\ UNCHANGED <<active, plan, since, told>>

\* The callback of an occurrence is called.  If it raises, the poll is over and
\* the notifications after it are lost with their keys recorded.
ScheduleNotify(x) ==
    /\ holder = "schedules"
    /\ x \in pending
    /\ told' = [told EXCEPT ![x] = @ + 1]
    /\ \/ pending' = pending \ {x}
       \/ pending' = {}
    /\ HandBack(pending' = {})
    /\ UNCHANGED <<active, plan, since, keys>>

\* What the end of the process does here.
ScheduleStop ==
    /\ pending' = {}
    /\ UNCHANGED <<active, plan, since, keys, told>>

ScheduleTypeOK ==
    /\ active \subseteq Schedule
    /\ plan \in [Schedule -> Pattern \cup {{}}]
    /\ since \in [Schedule -> Time]
    /\ keys \subseteq Occurrence
    /\ pending \subseteq keys
    /\ told \in [Occurrence -> Nat]
==============================================================================
