------------------------- MODULE LocalNotifiersProofs -------------------------
(***************************************************************************)
(* The safety properties of LocalNotifiers, for every set of reminders and *)
(* schedules, every plan, window and week, every time the server ends and  *)
(* every length of its outages.                                            *)
(***************************************************************************)
EXTENDS LocalNotifiers, TLAPS

------------------------------------------------------------------------------
(* Multiples of a week.                                                     *)

LEMMA NextMultiple ==
    ASSUME NEW w \in Nat \ {0}, NEW a \in Nat, a % w = 0 PROVE (a + w) % w = 0
<1> DEFINE k == a \div w
<1>1. a = w * k /\ k \in Nat
  OBVIOUS
<1>. HIDE DEF k
<1>2. a + w = w * (k + 1) /\ k + 1 \in Nat
  BY <1>1
<1>3. \A m \in Nat : (w * m) % w = 0
  OBVIOUS
<1>. QED
  BY <1>2, <1>3

LEMMA NothingBetween ==
    ASSUME NEW w \in Nat \ {0}, NEW a \in Nat, NEW b \in Nat,
           a % w = 0, b % w = 0, a <= b, b < a + w
    PROVE  a = b
<1> DEFINE k == a \div w
           l == b \div w
<1>1. a = w * k /\ k \in Nat
  OBVIOUS
<1>2. b = w * l /\ l \in Nat
  OBVIOUS
<1>. HIDE DEF k, l
<1>3. \A m, n \in Nat : w * m <= w * n /\ w * n < w * m + w => m = n
  OBVIOUS
<1>. QED
  BY <1>1, <1>2, <1>3

------------------------------------------------------------------------------
(* Schedules.                                                               *)

\* What is told is recorded first, and told once: nothing unrecorded or still
\* pending has been told.
RecordedFirst ==
    /\ pending \subseteq keys
    /\ told \in [Occurrence -> Nat]
    /\ \A x \in Occurrence : (x \notin keys \/ x \in pending) => told[x] = 0

\* A chance that was let pass fell into an outage.
ChancesWereDown ==
    \A x \in Occurrence :
        x[1] \in active /\ x[2] \in plan[x[1]] /\ x \notin keys =>
            \A t \in Chances(x) : t < now => t \in downAt

ScheduleShape ==
    /\ now \in Time /\ active \subseteq Schedule
    /\ plan \in [Schedule -> Pattern \cup {{}}] /\ since \in [Schedule -> Time]

ScheduleInv ==
    /\ ScheduleShape
    /\ RecordedFirst
    /\ ToldAtMostOnce
    /\ ChancesWereDown

LEMMA ScheduleInitInv == ASSUME NotifiersInit PROVE ScheduleInv
<1> USE DEF NotifiersInit, ClockInit, ScheduleInit
<1>1. ScheduleShape
  BY ClockAssumption DEF ScheduleShape, Time
<1>2. RecordedFirst /\ ToldAtMostOnce
  BY DEF RecordedFirst, ToldAtMostOnce
<1>3. ChancesWereDown
  BY DEF ChancesWereDown
<1>. QED
  BY <1>1, <1>2, <1>3 DEF ScheduleInv

\* Steps that leave the schedules and the clock alone.
LEMMA ScheduleRests ==
    ASSUME ScheduleInv, UNCHANGED <<scheduleVars, now, downAt>> PROVE ScheduleInv'
BY DEF scheduleVars, ScheduleInv, ScheduleShape, RecordedFirst, ToldAtMostOnce, ChancesWereDown, Chances

\* A schedule that is created now has had no chance yet.
LEMMA CreateInv ==
    ASSUME ScheduleInv, NEW s \in Schedule, NEW p \in Pattern, ScheduleCreate(s, p)
    PROVE  ScheduleInv'
<1> USE DEF ScheduleInv, ScheduleCreate, clockVars
<1>1. ScheduleShape'
  BY DEF ScheduleShape
<1>2. RecordedFirst' /\ ToldAtMostOnce'
  BY DEF RecordedFirst, ToldAtMostOnce
<1>3. ASSUME NEW x \in Occurrence, x[1] \in active', x[2] \in plan'[x[1]], x \notin keys',
             NEW t \in Chances(x)', t < now'
      PROVE  t \in downAt'
  <2>1. t \in Time /\ since'[x[1]] <= t /\ x[2] <= t + Lead /\ t <= x[2] + Grace
    BY <1>3 DEF Chances
  <2>2. CASE x[1] = s
    BY <1>3, <2>1, <2>2 DEF ScheduleShape, Time
  <2>3. CASE x[1] # s
    <3>1. x[1] \in active /\ x[2] \in plan[x[1]] /\ since'[x[1]] = since[x[1]]
      BY <1>3, <2>3 DEF ScheduleShape
    <3>2. t \in Chances(x)
      BY <2>1, <3>1 DEF Chances
    <3>. QED
      BY <1>3, <3>1, <3>2 DEF ChancesWereDown
  <2>. QED
    BY <2>2, <2>3
<1>4. ChancesWereDown'
  BY <1>3 DEF ChancesWereDown
<1>. QED
  BY <1>1, <1>2, <1>4

\* Cancelling, and recording, only take occurrences away that could be missed.
LEMMA FewerInv ==
    ASSUME ScheduleInv, active' \subseteq active, keys \subseteq keys',
           UNCHANGED <<now, downAt, plan, since>>
    PROVE  ScheduleShape' /\ ChancesWereDown'
<1>1. ScheduleShape'
  BY DEF ScheduleInv, ScheduleShape
<1>2. ASSUME NEW x PROVE Chances(x)' = Chances(x)
  BY DEF Chances
<1>3. ChancesWereDown'
  BY <1>2 DEF ScheduleInv, ChancesWereDown
<1>. QED
  BY <1>1, <1>3

LEMMA CancelInv == ASSUME ScheduleInv, NEW s \in Schedule, ScheduleCancel(s) PROVE ScheduleInv'
<1> USE DEF ScheduleCancel, clockVars
<1>1. ScheduleShape' /\ ChancesWereDown'
  BY FewerInv
<1>2. RecordedFirst' /\ ToldAtMostOnce'
  BY DEF ScheduleInv, RecordedFirst, ToldAtMostOnce
<1>. QED
  BY <1>1, <1>2 DEF ScheduleInv

LEMMA PollInv == ASSUME ScheduleInv, SchedulePoll PROVE ScheduleInv'
<1> USE DEF SchedulePoll, Take
<1>1. ScheduleShape' /\ ChancesWereDown'
  BY FewerInv
<1>2. RecordedFirst' /\ ToldAtMostOnce'
  BY DEF ScheduleInv, RecordedFirst, ToldAtMostOnce, DueOccurrences, Unrecorded
<1>. QED
  BY <1>1, <1>2 DEF ScheduleInv

LEMMA NotifyInv == ASSUME ScheduleInv, NEW x \in Occurrence, ScheduleNotify(x) PROVE ScheduleInv'
<1> USE DEF ScheduleNotify, HandBack
<1>1. ScheduleShape' /\ ChancesWereDown'
  BY FewerInv
<1>2. told[x] = 0 /\ x \notin pending'
  BY DEF ScheduleInv, RecordedFirst
<1>3. RecordedFirst' /\ ToldAtMostOnce'
  BY <1>2 DEF ScheduleInv, RecordedFirst, ToldAtMostOnce
<1>. QED
  BY <1>1, <1>3 DEF ScheduleInv

LEMMA ScheduleStopInv == ASSUME ScheduleInv, Stop, ScheduleStop PROVE ScheduleInv'
<1> USE DEF Stop, ScheduleStop
<1>1. ScheduleShape' /\ ChancesWereDown'
  BY FewerInv
<1>2. RecordedFirst' /\ ToldAtMostOnce'
  BY DEF ScheduleInv, RecordedFirst, ToldAtMostOnce
<1>. QED
  BY <1>1, <1>2 DEF ScheduleInv

\* A minute on a running server ends when nothing is due: a chance in it would
\* have been due, for the lead is shorter than the window.
LEMMA TickInv ==
    ASSUME ScheduleInv, Tick(DueRows = {} /\ DueOccurrences = {}), UNCHANGED scheduleVars
    PROVE  ScheduleInv'
<1> USE DEF ScheduleInv, scheduleVars, Tick
<1>1. ScheduleShape'
  BY ClockAssumption DEF ScheduleShape, Time
<1>2. RecordedFirst' /\ ToldAtMostOnce'
  BY DEF RecordedFirst, ToldAtMostOnce
<1>3. ASSUME NEW x \in Occurrence, x[1] \in active, x[2] \in plan[x[1]], x \notin keys,
             NEW t \in Chances(x)', t < now'
      PROVE  t \in downAt'
  <2>1. Chances(x)' = Chances(x)
    BY DEF Chances
  <2>2. t \in Nat /\ now \in Nat /\ x[2] \in Nat
    BY <1>3, <2>1 DEF Chances, Time, ScheduleShape, Occurrence
  <2>3. CASE t < now
    BY <1>3, <2>1, <2>3 DEF ChancesWereDown
  <2>4. CASE t = now /\ ~up
    BY <2>4
  <2>5. CASE t = now /\ up
    <3>1. x[2] <= now + Lead /\ now <= x[2] + Grace
      BY <1>3, <2>1, <2>5 DEF Chances
    <3>2. InWindow(x[2])
      BY <2>2, <3>1, ScheduleAssumption DEF InWindow
    <3>3. x \in DueOccurrences
      BY <1>3, <3>1, <3>2 DEF DueOccurrences, Unrecorded
    <3>. QED
      BY <2>5, <3>3
  <2>. QED
    BY <1>3, <2>2, <2>3, <2>4, <2>5
<1>4. ChancesWereDown'
  BY <1>3 DEF ChancesWereDown
<1>. QED
  BY <1>1, <1>2, <1>4

LEMMA ScheduleNextInv ==
    ASSUME ScheduleInv, [NotifiersNext]_notifiersVars PROVE ScheduleInv'
<1>1. CASE UNCHANGED notifiersVars
  BY <1>1, ScheduleRests DEF notifiersVars, clockVars
<1>2. CASE (ReminderRequest \/ ReminderLoop) /\ UNCHANGED scheduleVars
  <2>1. UNCHANGED <<now, downAt>>
    BY <1>2 DEF ReminderRequest, ReminderLoop, ReminderCreate, ReminderEnd, ReminderDeleteAll,
                ReminderPoll, ReminderNotify, ReminderCommit, Take, HandBack, clockVars
  <2>. QED
    BY <1>2, <2>1, ScheduleRests
<1>3. CASE ScheduleRequest \/ ScheduleLoop
  BY <1>3, CreateInv, CancelInv, PollInv, NotifyInv DEF ScheduleRequest, ScheduleLoop
<1>4. CASE Server
  <2>1. CASE Stop /\ ScheduleStop
    BY <2>1, ScheduleStopInv
  <2>2. CASE Restart /\ UNCHANGED scheduleVars
    BY <2>2, ScheduleRests DEF Restart
  <2>. QED
    BY <1>4, <2>1, <2>2, TickInv DEF Server
<1>. QED
  BY <1>1, <1>2, <1>3, <1>4 DEF NotifiersNext

LEMMA ScheduleInvariant == NotifiersSpec => []ScheduleInv
<1>1. NotifiersInit => ScheduleInv
  BY ScheduleInitInv
<1>2. ScheduleInv /\ [NotifiersNext]_notifiersVars => ScheduleInv'
  BY ScheduleNextInv
<1>. QED
  BY <1>1, <1>2, PTL DEF NotifiersSpec

\* The notification of an occurrence is triggered once, also after a restart: the
\* key is committed before the callback is called (poll_due).
THEOREM ToldOnce == NotifiersSpec => []ToldAtMostOnce
BY ScheduleInvariant, PTL DEF ScheduleInv

\* An occurrence that passed untold had its chances while the server was down, or
\* none: for every lead, grace and window of poll_due whose lead it covers.
THEOREM MissedWhileDown == NotifiersSpec => []MissedOnlyWhileDown
<1>1. ScheduleInv => MissedOnlyWhileDown
  <2>. SUFFICES ASSUME ScheduleInv, NEW x \in Occurrence,
                       x[1] \in active, x[2] \in plan[x[1]], x \notin keys, x[2] + Grace < now,
                       NEW t \in Chances(x)
                PROVE  t \in downAt
    BY DEF MissedOnlyWhileDown
  <2>1. t < now
    BY ScheduleAssumption DEF Chances, ScheduleInv, ScheduleShape, Time, Occurrence
  <2>. QED
    BY <2>1 DEF ScheduleInv, ChancesWereDown
<1>. QED
  BY <1>1, ScheduleInvariant, PTL

------------------------------------------------------------------------------
(* Reminders.                                                               *)

\* The rows of a batch are as they were read until they are dealt with: nothing
\* but the poll changes rows while it holds the event loop.
BatchIsCurrent ==
    /\ \A x \in batch :
        /\ x \in Reminder \X Due /\ x[2] <= now
        /\ status[x[1]] = "active" /\ due[x[1]] = x[2]
    /\ batch # {} => holder = "reminders"
    /\ calling \subseteq batch
    /\ \A x, y \in calling : x = y

\* Occurrence d of reminder i is yet to be called for.
ToCome(i, d) ==
    \/ status[i] = "absent"
    \/ status[i] = "active" /\ due[i] <= d /\ <<i, d>> \notin calling

CallsCounted ==
    \A i \in Reminder, d \in Due :
        /\ ToCome(i, d) => attempts[i][d] <= torn[i][d]
        /\ <<i, d>> \in calling => attempts[i][d] > 0

WeeksAligned ==
    \A i \in Reminder : weekly[i] => first[i] <= due[i] /\ (due[i] - first[i]) % Week = 0

ReminderShape ==
    /\ now \in Time
    /\ status \in [Reminder -> {"absent", "active", "notified", "completed",
                                "cancelled", "deleted"}]
    /\ due \in [Reminder -> Due] /\ first \in [Reminder -> Due]
    /\ weekly \in [Reminder -> BOOLEAN]
    /\ attempts \in [Reminder -> [Due -> Nat]] /\ torn \in [Reminder -> [Due -> Nat]]

ReminderInv ==
    /\ ReminderShape /\ BatchIsCurrent
    /\ CallsCounted /\ RepeatsAreTorn
    /\ WeeksAligned /\ NoWeekSkipped

LEMMA ReminderInitInv == ASSUME NotifiersInit PROVE ReminderInv
<1> USE DEF NotifiersInit, ClockInit, ReminderInit
<1>1. now \in Time /\ 0 \in Due
  BY ClockAssumption, WeekAssumption DEF Time, Due
<1>2. ReminderShape
  BY <1>1 DEF ReminderShape
<1>3. BatchIsCurrent
  BY DEF BatchIsCurrent
<1>4. CallsCounted /\ RepeatsAreTorn
  BY DEF CallsCounted, RepeatsAreTorn
<1>5. WeeksAligned /\ NoWeekSkipped
  BY DEF WeeksAligned, NoWeekSkipped
<1>. QED
  BY <1>2, <1>3, <1>4, <1>5 DEF ReminderInv

\* The clock goes on, or the event loop is taken and handed back, by others.
LEMMA ReminderRests ==
    ASSUME ReminderInv, UNCHANGED reminderVars, now' \in Time, now <= now',
           batch # {} => holder' = holder
    PROVE  ReminderInv'
<1> USE DEF ReminderInv, reminderVars
<1>1. ReminderShape'
  BY DEF ReminderShape
<1>2. BatchIsCurrent'
  BY DEF BatchIsCurrent, ReminderShape, Time, Due
<1>3. CallsCounted' /\ RepeatsAreTorn'
  BY DEF CallsCounted, ToCome, RepeatsAreTorn
<1>4. WeeksAligned' /\ NoWeekSkipped'
  BY DEF WeeksAligned, NoWeekSkipped
<1>. QED
  BY <1>1, <1>2, <1>3, <1>4

LEMMA NoBatch == ASSUME ReminderInv, holder # "reminders" PROVE batch = {} /\ calling = {}
BY DEF ReminderInv, BatchIsCurrent

LEMMA ReminderCreateInv ==
    ASSUME ReminderInv, NEW i \in Reminder, NEW d \in Time, NEW repeats \in BOOLEAN,
           ReminderCreate(i, d, repeats)
    PROVE  ReminderInv'
<1> USE DEF ReminderInv, ReminderCreate, clockVars
<1>1. d \in Due /\ batch = {} /\ calling = {}
  BY NoBatch, ClockAssumption, WeekAssumption DEF LoopFree, Time, Due
<1>2. ReminderShape'
  BY <1>1 DEF ReminderShape
<1>3. BatchIsCurrent'
  BY <1>1 DEF BatchIsCurrent
<1>4. CallsCounted' /\ RepeatsAreTorn'
  BY <1>1 DEF ReminderShape, CallsCounted, ToCome, RepeatsAreTorn
<1>5. WeeksAligned'
  <2>1. d - d = 0 /\ 0 % Week = 0 /\ d <= d
    BY WeekAssumption DEF Time
  <2>. QED
    BY <2>1 DEF ReminderShape, WeeksAligned
<1>6. NoWeekSkipped'
  <2>1. ASSUME NEW e \in Due PROVE ~(d <= e /\ e < d)
    BY DEF Time, Due
  <2>. QED
    BY <2>1 DEF ReminderShape, NoWeekSkipped
<1>. QED
  BY <1>2, <1>3, <1>4, <1>5, <1>6

\* A row that is ended or deleted is due no more, and is never due again.
LEMMA RowsEndedInv ==
    ASSUME ReminderInv, LoopFree, UNCHANGED <<clockVars, due, weekly, batch, calling, first, attempts, torn>>,
           status' \in [Reminder -> {"absent", "active", "notified", "completed",
                                    "cancelled", "deleted"}],
           \A i \in Reminder : status'[i] \in {"absent", "active"} => status'[i] = status[i]
    PROVE  ReminderInv'
<1> USE DEF ReminderInv, clockVars
<1>1. batch = {}
  BY NoBatch DEF LoopFree
<1>2. ReminderShape' /\ BatchIsCurrent'
  BY <1>1 DEF ReminderShape, BatchIsCurrent
<1>3. CallsCounted' /\ RepeatsAreTorn'
  BY DEF CallsCounted, ToCome, RepeatsAreTorn
<1>4. WeeksAligned' /\ NoWeekSkipped'
  BY DEF WeeksAligned, NoWeekSkipped
<1>. QED
  BY <1>2, <1>3, <1>4

LEMMA ReminderPollInv == ASSUME ReminderInv, ReminderPoll PROVE ReminderInv'
<1> USE DEF ReminderInv, ReminderPoll, Take
<1>1. calling = {}
  BY NoBatch DEF LoopFree
<1>2. ReminderShape'
  BY DEF ReminderShape
<1>3. BatchIsCurrent'
  BY <1>1 DEF BatchIsCurrent, ReminderShape, DueRows
<1>4. CallsCounted' /\ RepeatsAreTorn'
  BY DEF CallsCounted, ToCome, RepeatsAreTorn
<1>5. WeeksAligned' /\ NoWeekSkipped'
  BY DEF WeeksAligned, NoWeekSkipped
<1>. QED
  BY <1>2, <1>3, <1>4, <1>5

LEMMA ReminderNotifyInv ==
    ASSUME ReminderInv, NEW i \in Reminder, NEW d \in Due, ReminderNotify(<<i, d>>)
    PROVE  ReminderInv'
<1> USE DEF ReminderInv
<1>1. /\ <<i, d>> \in batch /\ calling = {} /\ calling' = {<<i, d>>}
      /\ attempts' = [attempts EXCEPT ![i][d] = @ + 1]
      /\ UNCHANGED <<now, holder, status, due, weekly, batch, first, torn>>
  BY DEF ReminderNotify, Foremost, clockVars
<1>2. status[i] = "active" /\ due[i] = d /\ d <= d
  BY <1>1 DEF BatchIsCurrent, Due
<1>3. attempts[i][d] <= torn[i][d]
  BY <1>1, <1>2 DEF CallsCounted, ToCome
<1>4. ASSUME NEW j \in Reminder, NEW e \in Due
      PROVE  attempts'[j][e] = IF j = i /\ e = d THEN attempts[j][e] + 1 ELSE attempts[j][e]
  BY <1>1 DEF ReminderShape
<1>5. ReminderShape'
  BY <1>1 DEF ReminderShape
<1>6. BatchIsCurrent'
  BY <1>1 DEF BatchIsCurrent
<1>7. ASSUME NEW j \in Reminder, NEW e \in Due
      PROVE  /\ ToCome(j, e)' => attempts'[j][e] <= torn'[j][e]
             /\ <<j, e>> \in calling' => attempts'[j][e] > 0
             /\ attempts'[j][e] <= torn'[j][e] + 1
  <2>0. attempts[j][e] \in Nat /\ torn[j][e] \in Nat
    BY DEF ReminderShape
  <2>1. CASE j = i /\ e = d
    BY <1>1, <1>2, <1>3, <1>4, <2>0, <2>1 DEF ToCome
  <2>2. CASE ~(j = i /\ e = d)
    BY <1>1, <1>4, <2>2 DEF ToCome, CallsCounted, RepeatsAreTorn
  <2>. QED
    BY <2>1, <2>2
<1>8. CallsCounted' /\ RepeatsAreTorn'
  BY <1>7 DEF CallsCounted, RepeatsAreTorn
<1>9. WeeksAligned'
  BY <1>1 DEF WeeksAligned
<1>10. NoWeekSkipped'
  <2>. SUFFICES ASSUME NEW j \in Reminder, weekly[j], NEW e \in Due,
                       first[j] <= e, e < due[j], (e - first[j]) % Week = 0
                PROVE  attempts'[j][e] > 0
    BY <1>1 DEF NoWeekSkipped
  <2>1. attempts[j][e] > 0 /\ attempts[j][e] \in Nat
    BY DEF NoWeekSkipped, ReminderShape
  <2>. QED
    BY <1>4, <2>1
<1>. QED
  BY <1>5, <1>6, <1>8, <1>9, <1>10

\* A row that moves on leaves no week between behind.
LEMMA MovesOn ==
    ASSUME NEW f \in Nat, NEW d \in Nat, NEW e \in Nat, f <= d, (d - f) % Week = 0,
           f <= e, e < d + Week, (e - f) % Week = 0
    PROVE  e < d \/ e = d
<1>. SUFFICES ASSUME d <= e PROVE e = d
  OBVIOUS
<1> DEFINE a == d - f
           b == e - f
<1>1. a \in Nat /\ b \in Nat /\ a <= b /\ b < a + Week
  BY WeekAssumption
<1>2. a % Week = 0 /\ b % Week = 0
  OBVIOUS
<1>. HIDE DEF a, b
<1>3. a = b
  BY <1>1, <1>2, WeekAssumption, NothingBetween
<1>. QED
  BY <1>3 DEF a, b

LEMMA ReminderCommitInv ==
    ASSUME ReminderInv, NEW i \in Reminder, NEW d \in Due, ReminderCommit(<<i, d>>)
    PROVE  ReminderInv'
<1> USE DEF ReminderInv
<1>1. /\ calling = {<<i, d>>} /\ calling' = {} /\ holder = "reminders"
      /\ due' = [due EXCEPT ![i] = IF weekly[i] THEN d + Week ELSE @]
      /\ status' = [status EXCEPT ![i] = IF weekly[i] THEN status[i] ELSE "notified"]
      /\ batch' = batch \ {<<i, d>>}
      /\ holder' = IF batch' = {} THEN "none" ELSE holder
      /\ UNCHANGED <<now, weekly, first, attempts, torn>>
  BY DEF ReminderCommit, HandBack, NextDue, AfterCall
<1>2. /\ <<i, d>> \in batch /\ status[i] = "active" /\ due[i] = d /\ d <= now
      /\ attempts[i][d] > 0
  BY <1>1 DEF BatchIsCurrent, CallsCounted
<1>3. d + Week \in Due /\ d \in Nat /\ Week \in Nat \ {0}
  BY <1>2, ClockAssumption, WeekAssumption DEF ReminderShape, Time, Due
<1>4. ReminderShape'
  BY <1>1, <1>3 DEF ReminderShape
<1>5. BatchIsCurrent'
  <2>1. ASSUME NEW x \in batch' PROVE x[1] # i
    <3>1. x \in batch /\ x # <<i, d>>
      BY <1>1
    <3>2. x \in Reminder \X Due /\ due[x[1]] = x[2]
      BY <3>1 DEF BatchIsCurrent
    <3>. QED
      BY <1>2, <3>1, <3>2
  <2>. QED
    BY <1>1, <2>1 DEF ReminderShape, BatchIsCurrent
<1>6. CallsCounted'
  <2>. SUFFICES ASSUME NEW j \in Reminder, NEW e \in Due, ToCome(j, e)'
                PROVE  attempts[j][e] <= torn[j][e]
    BY <1>1 DEF CallsCounted
  <2>1. CASE j = i
    <3>1. weekly[i] /\ status[i] = "active" /\ d + Week <= e
      BY <1>1, <1>2, <2>1 DEF ToCome, ReminderShape
    <3>2. due[i] <= e /\ e # d
      BY <1>2, <1>3, <3>1 DEF Due
    <3>. QED
      BY <1>1, <1>2, <2>1, <3>2 DEF ToCome, CallsCounted
  <2>2. CASE j # i
    BY <1>1, <2>2 DEF ToCome, CallsCounted, ReminderShape
  <2>. QED
    BY <2>1, <2>2
<1>7. RepeatsAreTorn'
  BY <1>1 DEF RepeatsAreTorn
<1>8. WeeksAligned'
  <2>. SUFFICES ASSUME NEW j \in Reminder, weekly[j]
                PROVE  first[j] <= due'[j] /\ (due'[j] - first[j]) % Week = 0
    BY <1>1 DEF WeeksAligned
  <2>1. CASE j = i
    <3>1. first[i] <= d /\ (d - first[i]) % Week = 0 /\ first[i] \in Nat
      BY <1>2, <2>1 DEF WeeksAligned, ReminderShape, Due
    <3>2. d - first[i] \in Nat
      BY <1>3, <3>1
    <3>3. ((d - first[i]) + Week) % Week = 0
      BY <1>3, <3>1, <3>2, NextMultiple
    <3>4. (d - first[i]) + Week = (d + Week) - first[i] /\ first[i] <= d + Week
      BY <1>3, <3>1
    <3>5. due'[i] = d + Week
      BY <1>1, <2>1 DEF ReminderShape
    <3>. QED
      BY <2>1, <3>3, <3>4, <3>5
  <2>2. CASE j # i
    BY <1>1, <2>2 DEF WeeksAligned, ReminderShape
  <2>. QED
    BY <2>1, <2>2
<1>9. NoWeekSkipped'
  <2>. SUFFICES ASSUME NEW j \in Reminder, weekly[j], NEW e \in Due,
                       first[j] <= e, e < due'[j], (e - first[j]) % Week = 0
                PROVE  attempts[j][e] > 0
    BY <1>1 DEF NoWeekSkipped
  <2>1. CASE j = i
    <3>1. due'[i] = d + Week
      BY <1>1, <2>1 DEF ReminderShape
    <3>2. first[i] <= d /\ (d - first[i]) % Week = 0 /\ first[i] \in Nat /\ e \in Nat
      BY <1>2, <2>1 DEF WeeksAligned, ReminderShape, Due
    <3>3. e < d \/ e = d
      BY <1>3, <2>1, <3>1, <3>2, MovesOn
    <3>. QED
      BY <1>2, <2>1, <3>3 DEF NoWeekSkipped
  <2>2. CASE j # i
    BY <1>1, <2>2 DEF NoWeekSkipped, ReminderShape
  <2>. QED
    BY <2>1, <2>2
<1>. QED
  BY <1>4, <1>5, <1>6, <1>7, <1>8, <1>9

\* The end of the process: what was called and not committed may be called again.
LEMMA ReminderStopInv == ASSUME ReminderInv, Stop, ReminderStop PROVE ReminderInv'
<1> USE DEF ReminderInv, Stop, ReminderStop
<1>1. ASSUME NEW i \in Reminder, NEW d \in Due
      PROVE  /\ torn'[i][d] = torn[i][d] + (IF <<i, d>> \in calling THEN 1 ELSE 0)
             /\ torn[i][d] \in Nat /\ attempts[i][d] \in Nat
  BY DEF ReminderShape
<1>2. ReminderShape'
  <2>1. torn' \in [Reminder -> [Due -> Nat]]
    BY DEF ReminderShape
  <2>. QED
    BY <2>1 DEF ReminderShape
<1>3. BatchIsCurrent'
  BY DEF BatchIsCurrent
<1>4. ASSUME NEW i \in Reminder, NEW d \in Due
      PROVE  /\ ToCome(i, d)' => attempts[i][d] <= torn'[i][d]
             /\ attempts[i][d] <= torn'[i][d] + 1
  <2>1. CASE <<i, d>> \in calling
    <3>1. attempts[i][d] <= torn[i][d] + 1
      BY DEF RepeatsAreTorn
    <3>. QED
      BY <1>1, <2>1, <3>1
  <2>2. CASE <<i, d>> \notin calling
    <3>1. torn'[i][d] = torn[i][d]
      BY <1>1, <2>2
    <3>. QED
      BY <2>2, <3>1 DEF ToCome, CallsCounted, RepeatsAreTorn
  <2>. QED
    BY <2>1, <2>2
<1>5. CallsCounted' /\ RepeatsAreTorn'
  BY <1>4 DEF CallsCounted, RepeatsAreTorn
<1>6. WeeksAligned' /\ NoWeekSkipped'
  BY DEF WeeksAligned, NoWeekSkipped
<1>. QED
  BY <1>2, <1>3, <1>5, <1>6

LEMMA ReminderNextInv ==
    ASSUME ReminderInv, [NotifiersNext]_notifiersVars PROVE ReminderInv'
<1>0. now \in Time /\ now <= now
  BY DEF ReminderInv, ReminderShape, Time
<1>1. CASE UNCHANGED notifiersVars
  BY <1>0, <1>1, ReminderRests DEF notifiersVars, clockVars
<1>2. CASE ReminderRequest
  <2>1. ASSUME NEW i \in Reminder, NEW s \in {"cancelled", "completed"}, ReminderEnd(i, s)
        PROVE  ReminderInv'
    BY <2>1, RowsEndedInv DEF ReminderEnd, ReminderInv, ReminderShape
  <2>2. CASE ReminderDeleteAll
    BY <2>2, RowsEndedInv DEF ReminderDeleteAll, ReminderInv, ReminderShape
  <2>. QED
    BY <1>2, <2>1, <2>2, ReminderCreateInv DEF ReminderRequest
<1>3. CASE ReminderLoop
  <2>1. ASSUME NEW x \in Reminder \X Due, ReminderNotify(x) \/ ReminderCommit(x)
        PROVE  ReminderInv'
    <3>1. PICK i \in Reminder, d \in Due : x = <<i, d>>
      OBVIOUS
    <3>. QED
      BY <2>1, <3>1, ReminderNotifyInv, ReminderCommitInv
  <2>. QED
    BY <1>3, <2>1, ReminderPollInv DEF ReminderLoop
<1>4. CASE (ScheduleRequest \/ ScheduleLoop) /\ UNCHANGED reminderVars
  <2>1. now' = now
    BY <1>4 DEF ScheduleRequest, ScheduleLoop, ScheduleCreate, ScheduleCancel, SchedulePoll,
                ScheduleNotify, Take, HandBack, clockVars
  <2>2. holder = "reminders" => holder' = holder
    BY <1>4 DEF ScheduleRequest, ScheduleLoop, ScheduleCreate, ScheduleCancel, SchedulePoll,
                ScheduleNotify, Take, LoopFree, clockVars
  <2>. QED
    BY <1>0, <1>4, <2>1, <2>2, ReminderRests DEF ReminderInv, BatchIsCurrent
<1>5. CASE Server
  <2>1. CASE Stop /\ ReminderStop
    BY <2>1, ReminderStopInv
  <2>2. CASE Restart /\ UNCHANGED reminderVars
    BY <1>0, <2>2, ReminderRests DEF Restart
  <2>3. CASE Tick(DueRows = {} /\ DueOccurrences = {}) /\ UNCHANGED reminderVars
    <3>1. now' \in Time /\ now <= now' /\ holder' = holder
      BY <1>0, <2>3, ClockAssumption DEF Tick, Time
    <3>. QED
      BY <2>3, <3>1, ReminderRests
  <2>. QED
    BY <1>5, <2>1, <2>2, <2>3 DEF Server
<1>. QED
  BY <1>1, <1>2, <1>3, <1>4, <1>5 DEF NotifiersNext

LEMMA ReminderInvariant == NotifiersSpec => []ReminderInv
<1>1. NotifiersInit => ReminderInv
  BY ReminderInitInv
<1>2. ReminderInv /\ [NotifiersNext]_notifiersVars => ReminderInv'
  BY ReminderNextInv
<1>. QED
  BY <1>1, <1>2, PTL DEF NotifiersSpec

\* A reminder is called for once: again only if the process ended between its
\* callback and the commit of its row (poll_due), however often that happens.
THEOREM RepeatsWereTorn == NotifiersSpec => []RepeatsAreTorn
BY ReminderInvariant, PTL DEF ReminderInv

\* A weekly reminder has called for every week before the one it is at, for every
\* length of a week, of an outage and of the clock's run.
THEOREM WeeksAreCalled == NotifiersSpec => []NoWeekSkipped
BY ReminderInvariant, PTL DEF ReminderInv
===============================================================================
