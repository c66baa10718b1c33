---------------------------- MODULE LocalNotifiers ----------------------------
(***************************************************************************)
(* The two notification schedulers of one server: they share its clock and *)
(* its event loop, take turns, and end together.                           *)
(***************************************************************************)
EXTENDS ReminderScheduler, ScheduleNotifier

notifiersVars == <<clockVars, reminderVars, scheduleVars>>

NotifiersInit == ClockInit /\ ReminderInit /\ ScheduleInit

ReminderRequest ==
    \/ \E i \in Reminder, d \in Time, repeats \in BOOLEAN : ReminderCreate(i, d, repeats)
    \/ \E i \in Reminder, s \in {"cancelled", "completed"} : ReminderEnd(i, s)
    \/ ReminderDeleteAll

ReminderLoop ==
    \/ ReminderPoll
    \/ \E x \in Reminder \X Due : ReminderNotify(x) \/ ReminderCommit(x)

ScheduleRequest ==
    \/ \E s \in Schedule, p \in Pattern : ScheduleCreate(s, p)
    \/ \E s \in Schedule : ScheduleCancel(s)

ScheduleLoop == SchedulePoll \/ \E x \in Occurrence : ScheduleNotify(x)

\* ApplicationContainer.initialize and close start and stop both loops.
Server ==
    \/ Stop /\ ReminderStop /\ ScheduleStop
    \/ Restart /\ UNCHANGED <<reminderVars, scheduleVars>>
    \/ /\ Tick(DueRows = {} /\ DueOccurrences = {})
       /\ UNCHANGED <<reminderVars, scheduleVars>>

NotifiersNext ==
    \/ (ReminderRequest \/ ReminderLoop) /\ UNCHANGED scheduleVars
    \/ (ScheduleRequest \/ ScheduleLoop) /\ UNCHANGED reminderVars
    \/ Server

NotifiersSpec == NotifiersInit /\ [][NotifiersNext]_notifiersVars

------------------------------------------------------------------------------
(* Properties.                                                              *)

\* Every variable holds what the code can put there.
NotifiersTypeOK == ClockTypeOK /\ ReminderTypeOK /\ ScheduleTypeOK

\* A weekly reminder has called for every week before the one it is at, those
\* that passed while the server was down included.
NoWeekSkipped ==
    \A i \in Reminder : weekly[i] =>
        \A d \in Due :
            first[i] <= d /\ d < due[i] /\ (d - first[i]) % Week = 0 => attempts[i][d] > 0

\* A reminder is called for once: again only if the process ended between its
\* callback and the commit.  A callback that raises repeats nothing.
RepeatsAreTorn ==
    \A i \in Reminder, d \in Due : attempts[i][d] <= torn[i][d] + 1

\* The schedule tool's acceptance list: the notification of an occurrence is
\* triggered only once, also after a restart.
ToldAtMostOnce == \A x \in Occurrence : told[x] <= 1

\* The minutes in which occurrence x can still be notified.
Chances(x) ==
    {t \in Time : since[x[1]] <= t /\ x[2] <= t + Lead /\ t <= x[2] + Grace}

\* An occurrence that has passed without a notification had its chances while
\* the server was down, or none.
MissedOnlyWhileDown ==
    \A x \in Occurrence :
        x[1] \in active /\ x[2] \in plan[x[1]] /\ x \notin keys /\ x[2] + Grace < now =>
            Chances(x) \subseteq downAt

\* A reminder that is due is called for, week after week, or its user ends it.
DueIsCalled ==
    \A i \in Reminder :
        status[i] = "active" /\ due[i] <= now ~>
            attempts[i][due[i]] > 0 \/ due[i] > now \/ status[i] \notin {"active", "notified"}
==============================================================================
