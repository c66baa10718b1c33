----------------------- MODULE DesktopSupervisorProofs -----------------------
(***************************************************************************)
(* The safety properties of DesktopSupervisor, for every set of            *)
(* configurations and places where they fail, every number of backups kept *)
(* and of saves, and every order of the threads.                           *)
(***************************************************************************)
EXTENDS DesktopSupervisor, TLAPS

\* A configuration a server starts with.
Good(c) == FailsIn[c] = "nowhere"

\* The backups on disk are the newest ones, and the one a rollback would use is
\* older than the copies that refused saves have left since, and only than those.
BackupsCounted ==
    /\ DOMAIN files = {n \in 1..saves : saves < n + Keep}
    /\ refused <= saves /\ unbooted <= saves
    /\ backup # 0 => backup + refused = saves

\* What the main thread knows where it is.  Whoever was asked to stop a server
\* that is up was asked by a save, since that server started.
LoopKnows ==
    /\ phase = "starting" =>
        /\ ~stop /\ ~timers
        /\ env = running /\ FailsIn[running] \notin {"settings", "app"}
    /\ phase \in {"serving", "stopped"} =>
        /\ Good(running)
        /\ unbooted = 0 => env = running
        /\ unbooted > 0 <=> stop \/ timers
    /\ phase = "stopped" => stop

\* .env is what was last saved, or was put back, or does not start.
EnvIsAsked == env = asked \/ rolledBack \/ ~Good(env)

\* The exceptions of EndIsExcused.
Excused == interrupted \/ booted = {} \/ unbooted > 1 \/ refused >= Keep \/ raced

BackupIsGood == backup \in DOMAIN files /\ Good(files[backup])

\* Without one of the exceptions a restart that is under way or will come was asked
\* for, and leads to a configuration that starts or is taken back to one.
Recoverable ==
    ~Excused =>
        /\ phase \in {"loading", "starting"} => requested /\ (Good(env) \/ BackupIsGood)
        /\ phase \in {"serving", "stopped"} /\ unbooted > 0 => requested /\ BackupIsGood

DesktopInv ==
    /\ DesktopTypeOK
    /\ BackupsCounted /\ LoopKnows /\ EnvIsAsked /\ Recoverable
    /\ EndIsExcused

LEMMA DesktopInitInv == ASSUME DesktopInit PROVE DesktopInv
<1> USE SupervisorAssumption DEF DesktopInit
<1>1. DesktopTypeOK
  <2>1. DOMAIN files = {} /\ files \in [DOMAIN files -> Config]
    OBVIOUS
  <2>2. DOMAIN files \subseteq (saves + 1 - Keep)..saves
    BY <2>1
  <2>3. {saves, unbooted, refused, backup} \subseteq 0..MaxSaves
    OBVIOUS
  <2>. QED
    BY <2>1, <2>2, <2>3, Zenon DEF DesktopTypeOK
<1>2. BackupsCounted
  BY DEF BackupsCounted
<1>3. LoopKnows /\ EnvIsAsked /\ Recoverable /\ EndIsExcused
  BY DEF LoopKnows, EnvIsAsked, Recoverable, Excused, EndIsExcused
<1>. QED
  BY <1>1, <1>2, <1>3 DEF DesktopInv

\* What _write_env leaves of the backups.
LEMMA BackUpKeeps ==
    ASSUME DesktopTypeOK, BackupsCounted, BackUp
    PROVE  /\ saves' = saves + 1 /\ saves' \in 0..MaxSaves
           /\ DOMAIN files' = {n \in 1..saves' : saves' < n + Keep}
           /\ files' \in [DOMAIN files' -> Config]
           /\ files'[saves + 1] = env
           /\ \A n \in DOMAIN files' : n # saves + 1 => n \in DOMAIN files /\ files'[n] = files[n]
<1> DEFINE all == DOMAIN files \cup {saves + 1}
<1> USE SupervisorAssumption
<1>1. saves \in Nat /\ saves' = saves + 1 /\ saves' \in 0..MaxSaves
  BY DEF BackUp, DesktopTypeOK
<1>2. all = {n \in 1..(saves + 1) : saves < n + Keep}
  BY <1>1 DEF BackupsCounted
<1>3. Kept(all) = {n \in 1..(saves + 1) : saves + 1 < n + Keep}
  BY <1>1, <1>2 DEF Kept
<1>4. files' = [n \in Kept(all) |-> IF n = saves + 1 THEN env ELSE files[n]]
  BY DEF BackUp
<1>5. \A n \in Kept(all) : n # saves + 1 => n \in DOMAIN files
  BY <1>1, <1>3 DEF BackupsCounted
<1>. HIDE DEF all
<1>6. saves + 1 \in Kept(all)
  <2>1. saves + 1 \in 1..(saves + 1) /\ saves + 1 < (saves + 1) + Keep
    BY <1>1
  <2>. QED
    BY <1>3, <2>1
<1>. QED
  BY <1>1, <1>3, <1>4, <1>5, <1>6 DEF DesktopTypeOK

LEMMA SaveInv == ASSUME DesktopInv, NEW c \in Config, Save(c) PROVE DesktopInv'
<1> USE SupervisorAssumption DEF DesktopInv
<1>1. BackUp /\ DesktopTypeOK /\ BackupsCounted
  BY DEF Save
<1>2. /\ saves' = saves + 1 /\ saves' \in 0..MaxSaves
      /\ DOMAIN files' = {n \in 1..saves' : saves' < n + Keep}
      /\ files' \in [DOMAIN files' -> Config]
      /\ files'[saves + 1] = env
  BY <1>1, BackUpKeeps
<1>3. saves + 1 \in DOMAIN files'
  BY <1>2 DEF DesktopTypeOK
<1>4. DesktopTypeOK'
  <2>1. unbooted' \in 0..MaxSaves /\ refused' \in 0..MaxSaves /\ backup' \in 0..MaxSaves
    BY <1>2 DEF Save, DesktopTypeOK, BackupsCounted
  <2>2. DOMAIN files' \subseteq (saves' + 1 - Keep)..saves'
    BY <1>2 DEF DesktopTypeOK
  <2>3. /\ phase' \in {"loading", "starting", "serving", "stopped", "gone"}
        /\ status' \in {"starting", "restarting", "ready", "rolling_back", "failed"}
    BY DEF Save
  <2>. QED
    BY <1>2, <2>1, <2>2, <2>3 DEF Save, DesktopTypeOK
<1>5. BackupsCounted'
  BY <1>2 DEF Save, DesktopTypeOK, BackupsCounted
<1>6. LoopKnows' /\ EnvIsAsked' /\ EndIsExcused'
  BY DEF Save, LoopKnows, EnvIsAsked, EndIsExcused, DesktopTypeOK, Good
<1>7. Recoverable'
  BY <1>2, <1>3 DEF Save, Recoverable, Excused, BackupIsGood, LoopKnows, DesktopTypeOK, Good
<1>. QED
  BY <1>4, <1>5, <1>6, <1>7

LEMMA SaveRefusedInv == ASSUME DesktopInv, NEW c \in Config, SaveRefused(c) PROVE DesktopInv'
<1> USE SupervisorAssumption DEF DesktopInv
<1>1. BackUp /\ DesktopTypeOK /\ BackupsCounted
  BY DEF SaveRefused
<1>2. /\ saves' = saves + 1 /\ saves' \in 0..MaxSaves
      /\ DOMAIN files' = {n \in 1..saves' : saves' < n + Keep}
      /\ files' \in [DOMAIN files' -> Config]
      /\ \A n \in DOMAIN files' : n # saves + 1 => n \in DOMAIN files /\ files'[n] = files[n]
  BY <1>1, BackUpKeeps
<1>3. DesktopTypeOK'
  BY <1>2 DEF SaveRefused, DesktopTypeOK, BackupsCounted, server, controller
<1>4. BackupsCounted'
  BY <1>2 DEF SaveRefused, DesktopTypeOK, BackupsCounted, server, controller
<1>5. LoopKnows' /\ EnvIsAsked' /\ EndIsExcused'
  BY DEF SaveRefused, LoopKnows, EnvIsAsked, EndIsExcused, DesktopTypeOK, Good, server, controller
<1>6. ASSUME BackupIsGood, refused' < Keep PROVE BackupIsGood'
  <2>1. backup' = backup /\ backup # 0 /\ backup \in 1..saves
    BY <1>6 DEF SaveRefused, controller, BackupIsGood, BackupsCounted
  <2>2. backup \in DOMAIN files'
    BY <1>2, <1>6, <2>1 DEF SaveRefused, BackupsCounted, DesktopTypeOK
  <2>. QED
    BY <1>2, <1>6, <2>1, <2>2 DEF BackupIsGood, Good, DesktopTypeOK
<1>7. Recoverable'
  BY <1>6 DEF SaveRefused, Recoverable, Excused, DesktopTypeOK, Good, server, controller
<1>. QED
  BY <1>3, <1>4, <1>5, <1>7

\* Steps that leave the disk, the history of saves and what the loop has built alone.
LEMMA TimerFiresInv == ASSUME DesktopInv, TimerFires PROVE DesktopInv'
<1> USE DEF TimerFires, disk, controller, history, DesktopInv
<1>1. DesktopTypeOK' /\ BackupsCounted' /\ EnvIsAsked'
  BY DEF DesktopTypeOK, BackupsCounted, EnvIsAsked, Good
<1>2. LoopKnows'
  BY DEF LoopKnows, Good
<1>3. Recoverable' /\ EndIsExcused'
  BY DEF Recoverable, Excused, BackupIsGood, EndIsExcused, Good
<1>. QED
  BY <1>1, <1>2, <1>3

LEMMA MarkReadyInv == ASSUME DesktopInv, MarkReady PROVE DesktopInv'
<1> USE DEF MarkReady, ReadyRolledBack, disk, server, DesktopInv
<1>1. DesktopTypeOK'
  <2>1. watchers' \in Nat /\ backup' \in 0..MaxSaves
    BY SupervisorAssumption DEF DesktopTypeOK
  <2>2. raced' \in BOOLEAN
    BY Zenon DEF DesktopTypeOK
  <2>. QED
    BY <2>1, <2>2 DEF DesktopTypeOK
<1>2. BackupsCounted' /\ EnvIsAsked' /\ LoopKnows'
  BY DEF BackupsCounted, EnvIsAsked, LoopKnows, Good
<1>3. Recoverable' /\ EndIsExcused'
  BY DEF Recoverable, Excused, EndIsExcused
<1>. QED
  BY <1>1, <1>2, <1>3

\* A rollback: the configuration it was for does not start.
LEMMA RollbackInv ==
    ASSUME DesktopInv, Rollback, ~Good(env), phase \in {"loading", "starting"},
           phase' \in {"loading", "gone"}, phase' = "gone" => ~Restorable,
           Excused \/ requested,
           UNCHANGED <<running, watchers, files, saves, interrupted, history>>,
           stop' \in BOOLEAN, timers' \in BOOLEAN
    PROVE  DesktopInv'
<1> USE DEF Rollback, NextBackup, Restorable, history, DesktopInv
<1>1. DesktopTypeOK'
  <2>1. backup' \in 0..MaxSaves
    BY SupervisorAssumption
  <2>2. env' \in Config
    BY DEF DesktopTypeOK
  <2>3. rolledBack' \in BOOLEAN /\ requested' \in BOOLEAN
    OBVIOUS
  <2>4. /\ phase' \in {"loading", "starting", "serving", "stopped", "gone"}
        /\ status' \in {"starting", "restarting", "ready", "rolling_back", "failed"}
    OBVIOUS
  <2>. QED
    BY <2>1, <2>2, <2>3, <2>4 DEF DesktopTypeOK
<1>2. BackupsCounted' /\ LoopKnows'
  BY DEF BackupsCounted, LoopKnows
<1>3. EnvIsAsked'
  BY DEF EnvIsAsked, Good
<1>4. ~Excused => Restorable /\ Good(files[backup])
  BY DEF Recoverable, BackupIsGood
<1>5. Excused' <=> Excused
  BY DEF Excused
<1>6. Recoverable'
  BY <1>4, <1>5 DEF Recoverable, Good
<1>7. EndIsExcused'
  BY <1>4, <1>5 DEF EndIsExcused, Excused
<1>. QED
  BY <1>1, <1>2, <1>3, <1>6, <1>7

LEMMA LoadInv == ASSUME DesktopInv, Load PROVE DesktopInv'
<1> USE DEF Load, history, controller, DesktopInv
<1>1. CASE FailsIn[env] \notin {"settings", "app"}
  <2>1. DesktopTypeOK' /\ BackupsCounted' /\ EnvIsAsked'
    BY <1>1 DEF DesktopTypeOK, BackupsCounted, EnvIsAsked, Good
  <2>2. LoopKnows' /\ EndIsExcused'
    BY <1>1 DEF LoopKnows, EndIsExcused
  <2>3. Recoverable'
    BY <1>1 DEF Recoverable, Excused, BackupIsGood, Good
  <2>. QED
    BY <2>1, <2>2, <2>3
<1>2. CASE FailsIn[env] \in {"settings", "app"}
  <2>1. ~Good(env)
    BY <1>2 DEF Good
  <2>2. Rollback /\ phase' = AfterRollback
    BY <1>2
  <2>. QED
    BY <1>2, <2>1, <2>2, RollbackInv DEF AfterRollback, Recoverable
<1>. QED
  BY <1>1, <1>2

\* server.run failed: the loop rolls back what a restart was asked for, or ends.
LEMMA FailedStartInv ==
    ASSUME DesktopInv, PortFails \/ LifespanFails PROVE DesktopInv'
<1> USE DEF PortFails, LifespanFails, server, history, controller, DesktopInv
<1>1. phase = "starting" /\ env = running /\ ~Good(env)
  BY DEF LoopKnows, Good
<1>2. CASE requested
  <2>1. phase' \in {"loading", "gone"} /\ (phase' = "gone" => ~Restorable)
    BY <1>2 DEF AfterRollback
  <2>. QED
    BY <1>1, <1>2, <2>1, RollbackInv DEF DesktopTypeOK
<1>3. CASE ~requested
  <2>1. DesktopTypeOK' /\ BackupsCounted' /\ EnvIsAsked' /\ LoopKnows'
    BY <1>3 DEF DesktopTypeOK, BackupsCounted, EnvIsAsked, LoopKnows, Good
  <2>2. Excused' /\ Recoverable' /\ EndIsExcused'
    BY <1>1, <1>3 DEF Recoverable, Excused, EndIsExcused
  <2>. QED
    BY <2>1, <2>2
<1>. QED
  BY <1>2, <1>3

LEMMA BootInv == ASSUME DesktopInv, Boot PROVE DesktopInv'
<1> USE DEF Boot, server, disk, controller, DesktopInv
<1>1. DesktopTypeOK'
  <2>1. watchers' \in Nat /\ unbooted' \in 0..MaxSaves
    BY SupervisorAssumption DEF DesktopTypeOK
  <2>. QED
    BY <2>1 DEF DesktopTypeOK
<1>4. BackupsCounted' /\ EnvIsAsked'
  BY DEF DesktopTypeOK, BackupsCounted, EnvIsAsked, Good
<1>2. LoopKnows'
  BY DEF LoopKnows, Good
<1>3. Recoverable' /\ EndIsExcused'
  BY DEF Recoverable, EndIsExcused
<1>. QED
  BY <1>1, <1>2, <1>3, <1>4

\* Steps of the main thread alone: the server stops, the loop goes on or ends.
LEMMA LoopEndsInv == ASSUME DesktopInv, Stop \/ Again \/ Interrupt PROVE DesktopInv'
<1> USE DEF Stop, Again, Interrupt, server, disk, controller, history, DesktopInv
<1>1. DesktopTypeOK' /\ BackupsCounted' /\ EnvIsAsked'
  BY DEF DesktopTypeOK, BackupsCounted, EnvIsAsked, Good
<1>2. LoopKnows'
  BY DEF LoopKnows, Good
<1>3. Recoverable'
  BY DEF Recoverable, Excused, BackupIsGood, LoopKnows, Good, DesktopTypeOK
<1>4. EndIsExcused'
  BY DEF Recoverable, Excused, EndIsExcused, LoopKnows, DesktopTypeOK
<1>. QED
  BY <1>1, <1>2, <1>3, <1>4

LEMMA DesktopNextInv == ASSUME DesktopInv, [DesktopNext]_desktopVars PROVE DesktopInv'
<1>1. CASE UNCHANGED desktopVars
  BY <1>1 DEF desktopVars, server, disk, controller, history, DesktopInv, DesktopTypeOK, BackupsCounted,
      LoopKnows, EnvIsAsked, Recoverable, Excused, BackupIsGood, Good, EndIsExcused
<1>2. CASE DesktopNext
  BY <1>2, SaveInv, SaveRefusedInv, TimerFiresInv, MarkReadyInv, LoadInv, FailedStartInv,
      BootInv, LoopEndsInv DEF DesktopNext, Loop
<1>. QED
  BY <1>1, <1>2

LEMMA DesktopInvariant == DesktopSpec => []DesktopInv
<1>1. DesktopInit => DesktopInv
  BY DesktopInitInv
<1>2. DesktopInv /\ [DesktopNext]_desktopVars => DesktopInv'
  BY DesktopNextInv
<1>. QED
  BY <1>1, <1>2, PTL DEF DesktopSpec

\* The variables of the supervisor keep their types, and no more backups are on disk
\* than are kept (_write_env).
THEOREM DesktopTypeCorrect == DesktopSpec => []DesktopTypeOK
BY DesktopInvariant, PTL DEF DesktopInv

\* A backup that a rollback would use is on disk unless as many saves as backups are
\* kept have been refused since: an accepted save never prunes its own.
THEOREM BackupStaysOnDisk == DesktopSpec => []BackupOnDisk
<1>1. DesktopInv => BackupOnDisk
  BY SupervisorAssumption DEF DesktopInv, BackupsCounted, BackupOnDisk, DesktopTypeOK
<1>. QED
  BY <1>1, DesktopInvariant, PTL

\* run_desktop ends by itself only with one of the named excuses, whatever
\* configurations fail and wherever they do.
THEOREM EndsAreExcused == DesktopSpec => []EndIsExcused
BY DesktopInvariant, PTL DEF DesktopInv

\* A server that is to stay up runs what was saved last, or its status says that a
\* rollback was performed (DesktopRestartController's status).
THEOREM RollbacksAreReported == DesktopSpec => []RollbackIsReported
<1>1. DesktopInv => RollbackIsReported
  BY DEF DesktopInv, LoopKnows, EnvIsAsked, RollbackIsReported, DesktopTypeOK
<1>. QED
  BY <1>1, DesktopInvariant, PTL

------------------------------------------------------------------------------
(* What a rollback puts back.                                               *)

\* Up to the second save before a start, the backup is a configuration that has been
\* up, and a loop that starts for the first time has nothing to roll back to.
Returning ==
    /\ phase \in {"serving", "stopped"} => running \in booted /\ (unbooted > 0 => ~rolledBack)
    /\ phase \in {"loading", "starting"} /\ unbooted = 0 => backup = 0 /\ ~rolledBack
    /\ unbooted = 1 /\ backup \in DOMAIN files => files[backup] \in booted
    /\ OldConfigReturns \/ unbooted > 1

LEMMA RollbackReturns ==
    ASSUME DesktopInv, Returning, Rollback, phase \in {"loading", "starting"},
           phase' \in {"loading", "gone"}, UNCHANGED <<running, files, history>>
    PROVE  Returning'
<1>1. /\ Restorable => env' = files[backup] /\ backup \in DOMAIN files
      /\ rolledBack' = Restorable /\ backup' = 0 /\ UNCHANGED <<booted, unbooted>>
  BY DEF Rollback, NextBackup, Restorable, history
<1>2. 0 \notin DOMAIN files /\ unbooted \in Nat
  BY SupervisorAssumption DEF DesktopInv, BackupsCounted, DesktopTypeOK
<1>. QED
  BY <1>1, <1>2 DEF Returning, OldConfigReturns

LEMMA ReturningNext == ASSUME DesktopInv, Returning, [DesktopNext]_desktopVars PROVE Returning'
<1>0. DesktopTypeOK /\ BackupsCounted /\ LoopKnows /\ SupervisorAssumption
  BY SupervisorAssumption DEF DesktopInv
<1>1. ASSUME NEW c \in Config, Save(c) PROVE Returning'
  <2>1. saves' = saves + 1 /\ files'[saves + 1] = env /\ saves \in Nat /\ unbooted \in Nat
    BY <1>0, <1>1, BackUpKeeps DEF Save, DesktopTypeOK
  <2>2. unbooted = 0 => env \in booted
    BY <1>0, <1>1 DEF Save, LoopKnows, Returning
  <2>3. /\ phase = "serving" /\ UNCHANGED <<phase, running, booted>> /\ rolledBack' = FALSE
        /\ backup' = saves + 1 /\ unbooted' = unbooted + 1
    BY <1>1 DEF Save
  <2>. QED
    BY <2>1, <2>2, <2>3 DEF Returning, OldConfigReturns
<1>2. ASSUME NEW c \in Config, SaveRefused(c) PROVE Returning'
  <2>1. /\ phase = "serving" /\ UNCHANGED <<phase, running, booted, unbooted, backup, rolledBack>>
    BY <1>2 DEF SaveRefused, server, controller
  <2>2. \A n \in DOMAIN files' : n # saves + 1 => n \in DOMAIN files /\ files'[n] = files[n]
    BY <1>0, <1>2, BackUpKeeps DEF SaveRefused
  <2>3. backup # saves + 1
    BY <1>0 DEF DesktopTypeOK, BackupsCounted
  <2>. QED
    BY <2>1, <2>2, <2>3 DEF Returning, OldConfigReturns
<1>3. CASE TimerFires
  BY <1>3 DEF TimerFires, disk, controller, history, Returning, OldConfigReturns
<1>4. CASE MarkReady
  <2>1. backup' = 0 /\ 0 \notin DOMAIN files /\ UNCHANGED <<phase, running, env, files, rolledBack, booted, unbooted>>
    BY <1>0, <1>4 DEF MarkReady, ReadyRolledBack, server, disk, BackupsCounted
  <2>. QED
    BY <2>1 DEF Returning, OldConfigReturns
<1>5. CASE Load
  <2>1. CASE Rollback /\ phase' = AfterRollback
    BY <1>5, <2>1, RollbackReturns DEF Load, AfterRollback
  <2>2. CASE phase' = "starting" /\ UNCHANGED <<env, controller>>
    BY <1>5, <2>2 DEF Load, controller, history, Returning, OldConfigReturns
  <2>. QED
    BY <1>5, <2>1, <2>2 DEF Load
<1>6. CASE PortFails \/ LifespanFails
  <2>1. UNCHANGED <<running, files, history>> /\ phase = "starting"
    BY <1>6 DEF PortFails, LifespanFails, server
  <2>2. CASE Rollback /\ phase' \in {"loading", "gone"}
    BY <2>1, <2>2, RollbackReturns
  <2>3. CASE phase' = "gone" /\ UNCHANGED <<env, controller>>
    BY <2>1, <2>3 DEF controller, history, Returning, OldConfigReturns
  <2>. QED
    BY <1>6, <2>2, <2>3 DEF PortFails, LifespanFails, AfterRollback
<1>7. CASE Boot
  BY <1>7 DEF Boot, server, disk, controller, Returning, OldConfigReturns
<1>8. CASE Stop \/ Interrupt
  BY <1>8 DEF Stop, Interrupt, server, disk, controller, history, Returning, OldConfigReturns
<1>9. CASE Again
  <2>1. unbooted > 0
    BY <1>0, <1>9 DEF Again, LoopKnows
  <2>. QED
    BY <1>0, <1>9, <2>1 DEF Again, server, disk, controller, history, Returning, OldConfigReturns, DesktopTypeOK
<1>10. CASE UNCHANGED desktopVars
  BY <1>10 DEF desktopVars, server, disk, controller, history, Returning, OldConfigReturns
<1>. QED
  BY <1>1, <1>2, <1>3, <1>4, <1>5, <1>6, <1>7, <1>8, <1>9, <1>10 DEF DesktopNext, Loop

\* ADR 0005 with its condition: unless a second save came before the first was
\* booted, what a rollback puts back is a configuration that has been up.
THEOREM OldConfigReturnsOnce == DesktopSpec => [](OldConfigReturns \/ unbooted > 1)
<1>1. DesktopInit => Returning
  BY DEF DesktopInit, Returning, OldConfigReturns
<1>2. DesktopInv /\ Returning /\ [DesktopNext]_desktopVars => Returning'
  BY ReturningNext
<1>3. Returning => OldConfigReturns \/ unbooted > 1
  BY DEF Returning
<1>. QED
  BY <1>1, <1>2, <1>3, DesktopInvariant, PTL DEF DesktopSpec
==============================================================================
