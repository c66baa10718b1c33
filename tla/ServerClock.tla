----------------------------- MODULE ServerClock -----------------------------
(***************************************************************************)
(* What the two notification schedulers share: the clock, in minutes, the  *)
(* server process and its event loop.  The callback the container installs *)
(* (adapters/notifications.py, windows_toast) never suspends, so a poll    *)
(* that has found something holds the event loop until it is done with it; *)
(* only the end of the process interrupts it.                              *)
(***************************************************************************)
EXTENDS Naturals

CONSTANTS
    MaxTime,        \* bound on the clock
    MaxStops        \* bound on the ends of the process

ASSUME ClockAssumption == MaxTime \in Nat /\ MaxStops \in Nat

VARIABLES
    now,            \* the current minute
    up,             \* whether the server runs
    holder,         \* whose poll holds the event loop: "none" for nobody's
    stops,          \* how often the process has ended
    downAt          \* history: minutes at whose end the server was down

clockVars == <<now, up, holder, stops, downAt>>

Time == 0..MaxTime

\* Requests and polls run one at a time.
LoopFree == up /\ holder = "none"

ClockInit ==
    /\ now = 0
    /\ up = TRUE
    /\ holder = "none"
    /\ stops = 0
    /\ downAt = {}

\* A minute passes.  The schedulers poll twice a second: a minute does not end
\* on a running server before they have nothing more to do (`idle`).
Tick(idle) ==
    /\ now < MaxTime
    /\ up => LoopFree /\ idle
    /\ now' = now + 1
    /\ downAt' = IF up THEN downAt ELSE downAt \cup {now}
    /\ UNCHANGED <<up, holder, stops>>

\* The process ends, by a crash or in order, at any point.
Stop ==
    /\ up
    /\ stops < MaxStops
    /\ up' = FALSE
    /\ holder' = "none"
    /\ stops' = stops + 1
    /\ UNCHANGED <<now, downAt>>

Restart ==
    /\ ~up
    /\ up' = TRUE
    /\ UNCHANGED <<now, holder, stops, downAt>>

\* A poll takes the event loop, and hands it back.
Take(name) == LoopFree /\ holder' = name /\ UNCHANGED <<now, up, stops, downAt>>
HandBack(done) ==
    /\ holder' = IF done THEN "none" ELSE holder
    /\ UNCHANGED <<now, up, stops, downAt>>

ClockTypeOK ==
    /\ now \in Time
    /\ up \in BOOLEAN
    /\ holder \in {"none", "reminders", "schedules"}
    /\ stops \in 0..MaxStops
    /\ downAt \subseteq Time
==============================================================================
