-------------------------- MODULE DesktopSupervisor --------------------------
(***************************************************************************)
(* The supervised restart of `agent-platform desktop`: the loop, the       *)
(* restart controller and the watcher threads of core/desktop_supervisor.py*)
(* and the saving and restoring of .env in core/desktop_settings.py.       *)
(*                                                                         *)
(* The loop, and inside server.run() the event loop with its requests, own *)
(* the main thread.  Watchers and timers are threads of their own and meet *)
(* it at the controller's lock.                                            *)
(***************************************************************************)
EXTENDS Naturals

CONSTANTS
    Config,         \* contents of .env
    Initial,        \* what .env holds at the first start
    FailsIn,        \* [Config -> where it fails: "settings" when it is loaded,
                    \*  "app" in create_app, "lifespan" or "port" in server.run,
                    \*  "nowhere"]
    Keep,           \* backups kept by _write_env, 5 in the code
    MaxSaves        \* bound on PUT /admin/settings

ASSUME SupervisorAssumption ==
    /\ Initial \in Config
    /\ FailsIn \in [Config -> {"settings", "app", "lifespan", "port", "nowhere"}]
    /\ Keep \in Nat \ {0}
    /\ MaxSaves \in Nat

VARIABLES
    phase,          \* the main thread
    running,        \* the configuration the current application was built from
    stop,           \* should_exit of the bound server
    timers,         \* whether a timer is about to set it
    watchers,       \* watcher threads that have yet to see a started server
    env,            \* the contents of .env
    files,          \* the backups on disk, by number
    requested,      \* the controller's _restart_requested
    backup,         \* its _backup_path, by number, 0 for None
    status,         \* its _status.state
    rolledBack,     \* its _status.rollback_performed
    saves,          \* backups written so far
    interrupted,    \* whether the user pressed Ctrl-C
    booted,         \* history: configurations a server has started with
    asked,          \* history: the last configuration saved
    unbooted,       \* history: accepted saves since a server last started
    refused,        \* history: refused saves since the last accepted one
    raced           \* history: a watcher has overtaken a restart request

server     == <<running, stop, timers>>
disk       == <<env, files, saves>>
controller == <<requested, backup, status, rolledBack>>
history    == <<booted, asked, unbooted, refused, raced>>
desktopVars == <<phase, server, watchers, disk, controller, interrupted, history>>

DesktopInit ==
    /\ phase = "loading"
    /\ running = Initial
    /\ stop = FALSE
    /\ timers = FALSE
    /\ watchers = 0
    /\ env = Initial
    /\ files = [n \in {} |-> Initial]
    /\ requested = FALSE
    /\ backup = 0
    /\ status = "starting"
    /\ rolledBack = FALSE
    /\ saves = 0
    /\ interrupted = FALSE
    /\ booted = {}
    /\ asked = Initial
    /\ unbooted = 0
    /\ refused = 0
    /\ raced = FALSE

------------------------------------------------------------------------------
(* Saving the settings.                                                     *)

\* Mutant of Kept: the slice begins one too early.
KeptFewer(all) == {n \in all : \A m \in all : m + 1 < n + Keep}

\* The newest backups, as _write_env leaves them in .env.backups.
Kept(all) == {n \in all : \A m \in all : m < n + Keep}

\* _write_env keeps a copy of the present .env and prunes the old copies.
BackUp ==
    LET all == DOMAIN files \cup {saves + 1} IN
    /\ saves < MaxSaves
    /\ saves' = saves + 1
    /\ files' = [n \in Kept(all) |-> IF n = saves + 1 THEN env ELSE files[n]]

\* DesktopSettingsService.update: .env is replaced and read back, and the
\* controller asked to restart.  Nothing in it suspends once it has validated.
Save(c) ==
    /\ phase = "serving"
    /\ FailsIn[c] # "settings"
    /\ BackUp
    /\ env' = c
    /\ requested' = TRUE
    /\ backup' = saves + 1
    /\ status' = "restarting"
    /\ rolledBack' = FALSE
    /\ timers' = TRUE
    /\ asked' = c
    /\ unbooted' = unbooted + 1
    /\ refused' = 0
    /\ UNCHANGED <<phase, running, stop, watchers, interrupted, booted, raced>>

\* The replaced file does not load: it is put back and the request refused.
SaveRefused(c) ==
    /\ phase = "serving"
    /\ FailsIn[c] = "settings"
    /\ BackUp
    /\ refused' = refused + 1
    /\ UNCHANGED <<phase, server, watchers, env, controller, interrupted, booted,
                   asked, unbooted, raced>>

------------------------------------------------------------------------------
(* Other threads.                                                           *)

\* The timer started by request_restart.
TimerFires ==
    /\ timers
    /\ timers' = FALSE
    /\ stop' = TRUE
    /\ UNCHANGED <<phase, running, watchers, disk, controller, interrupted, history>>

\* Mutant of ReadyRolledBack: the flag is left at its default.
ReadyRolledBackReset == FALSE

\* mark_ready hands the flag of the old status on to the new one.
ReadyRolledBack == rolledBack

\* A watcher sees its server started.  It may be late: the server may be gone.
MarkReady ==
    /\ watchers > 0
    /\ watchers' = watchers - 1
    /\ requested' = FALSE
    /\ backup' = 0
    /\ status' = "ready"
    /\ rolledBack' = ReadyRolledBack
    /\ raced' = (raced \/ phase # "serving" \/ unbooted > 0)
    /\ UNCHANGED <<phase, server, disk, interrupted, booted, asked, unbooted, refused>>

------------------------------------------------------------------------------
(* The supervising loop.                                                    *)

\* Mutant of NextBackup: the backup is not forgotten once it has been used.
NextBackupKept == backup

\* rollback's _backup_path.
NextBackup == 0

\* Whether restore_env_backup finds its file.
Restorable == backup \in DOMAIN files

\* Mutant of AfterRollback: the `continue` after it is missing.
AfterRollbackRaise == "gone"

\* Where the loop goes after rollback() in its exception handlers.
AfterRollback == IF Restorable THEN "loading" ELSE "gone"

\* DesktopRestartController.rollback.
Rollback ==
    /\ env' = IF Restorable THEN files[backup] ELSE env
    /\ requested' = Restorable
    /\ backup' = NextBackup
    /\ status' = IF Restorable THEN "rolling_back" ELSE "failed"
    /\ rolledBack' = Restorable

\* Settings are read and the application is built, or the loop rolls back; an
\* exception of server.run is handled in the same way.
Load ==
    /\ phase = "loading"
    /\ stop' = FALSE
    /\ timers' = FALSE
    /\ \/ /\ FailsIn[env] \notin {"settings", "app"}
          /\ phase' = "starting"
          /\ running' = env
          /\ UNCHANGED <<env, controller>>
       \/ /\ FailsIn[env] \in {"settings", "app"}
          /\ Rollback
          /\ phase' = AfterRollback
          /\ UNCHANGED running
    /\ UNCHANGED <<watchers, files, saves, interrupted, history>>

\* The server starts; its watcher will notice.
Boot ==
    /\ phase = "starting"
    /\ FailsIn[running] = "nowhere"
    /\ phase' = "serving"
    /\ watchers' = watchers + 1
    /\ booted' = booted \cup {running}
    /\ unbooted' = 0
    /\ UNCHANGED <<server, disk, controller, interrupted, asked,
                   refused, raced>>

\* The port is taken: SystemExit, and a rollback only if a restart was asked for.
PortFails ==
    /\ phase = "starting"
    /\ FailsIn[running] = "port"
    /\ \/ /\ requested
          /\ Rollback
          /\ phase' = AfterRollback
       \/ /\ ~requested
          /\ phase' = "gone"
          /\ UNCHANGED <<env, controller>>
    /\ UNCHANGED <<server, watchers, files, saves, interrupted, history>>

\* The lifespan fails: server.run returns with a server that never started, and
\* the loop goes on after a requested restart whether the rollback worked or not.
LifespanFails ==
    /\ phase = "starting"
    /\ FailsIn[running] = "lifespan"
    /\ \/ /\ requested
          /\ Rollback
          /\ phase' = "loading"
       \/ /\ ~requested
          /\ phase' = "gone"
          /\ UNCHANGED <<env, controller>>
    /\ UNCHANGED <<server, watchers, files, saves, interrupted, history>>

\* The server has seen should_exit and has shut down.
Stop ==
    /\ phase = "serving"
    /\ stop
    /\ phase' = "stopped"
    /\ UNCHANGED <<server, watchers, disk, controller, interrupted, history>>

\* The loop looks at the request.
Again ==
    /\ phase = "stopped"
    /\ phase' = IF requested THEN "loading" ELSE "gone"
    /\ UNCHANGED <<server, watchers, disk, controller, interrupted, history>>

\* Ctrl-C ends the loop, in server.run or outside it.
Interrupt ==
    /\ phase # "gone"
    /\ phase' = "gone"
    /\ interrupted' = TRUE
    /\ UNCHANGED <<server, watchers, disk, controller, history>>

Loop == Load \/ Boot \/ PortFails \/ LifespanFails \/ Stop \/ Again

DesktopNext ==
    \/ Loop \/ Interrupt
    \/ TimerFires \/ MarkReady
    \/ \E c \in Config : Save(c) \/ SaveRefused(c)

DesktopSpec == DesktopInit /\ [][DesktopNext]_desktopVars

------------------------------------------------------------------------------
(* Properties.                                                              *)

\* Every variable holds what the code can put there, and no more backups are on
\* disk than are kept.
DesktopTypeOK ==
    /\ phase \in {"loading", "starting", "serving", "stopped", "gone"}
    /\ running \in Config /\ env \in Config /\ asked \in Config
    /\ stop \in BOOLEAN /\ timers \in BOOLEAN /\ requested \in BOOLEAN
    /\ rolledBack \in BOOLEAN /\ interrupted \in BOOLEAN /\ raced \in BOOLEAN
    /\ watchers \in Nat
    /\ saves \in 0..MaxSaves /\ unbooted \in 0..MaxSaves /\ refused \in 0..MaxSaves
    /\ DOMAIN files \subseteq (saves + 1 - Keep)..saves
    /\ files \in [DOMAIN files -> Config]
    /\ backup \in 0..MaxSaves
    /\ status \in {"starting", "restarting", "ready", "rolling_back", "failed"}
    /\ booted \subseteq Config

\* The backup a rollback would use is on disk, unless refused saves, which leave
\* backups behind as well, have pushed it out.
BackupOnDisk == backup # 0 => backup \in DOMAIN files \/ refused >= Keep

\* The desktop ends by itself only when it has never been up, when a second save
\* came before the first was booted, when refused saves pruned the backup, or
\* when a watcher overtook the request: a single configuration that does not
\* boot never takes it down.
EndIsExcused ==
    phase = "gone" =>
        interrupted \/ booted = {} \/ unbooted > 1 \/ refused >= Keep \/ raced

\* A server that is to stay up runs what was last saved, or its status says that
\* a rollback was performed.
RollbackIsReported ==
    phase = "serving" /\ ~stop /\ ~timers => running = asked \/ rolledBack

\* The loop never goes round for ever: it comes to serve, or it ends.
Resolves == phase # "serving" ~> phase \in {"serving", "gone"}

\* ADR 0005: when the new configuration does not start, the supervisor restores
\* the backup "and starts the old configuration again".  What a rollback puts
\* back is a configuration that has been up.
OldConfigReturns == phase = "loading" /\ rolledBack => env \in booted
==============================================================================
