--------------------------- MODULE ServiceInstall ---------------------------
(***************************************************************************)
(* The background service of the controlled host: agentcli/service.go      *)
(* (InstallService, UninstallService and the runners for systemd and       *)
(* launchd), and what update.go does with the service (prepareUpdateService*)
(* and restartAndWait).                                                    *)
(*                                                                         *)
(* Four things may disagree: the unit file, the unit the service manager   *)
(* has loaded, the unit and the program the running daemon was started     *)
(* with, and the program at the stable path.  Each step of a command may   *)
(* fail and leaves the rest as it is.                                      *)
(***************************************************************************)
EXTENDS Naturals

CONSTANTS
    Places,     \* pairs of a config path and a runtime directory
    Envs,       \* the rest of a unit: PATH and the program's path
    Absent,     \* no unit, no daemon
    MaxVersion, \* bound: versions of the program
    MaxRuns     \* bound: commands that are started

VARIABLES
    os,         \* the platform: "linux" (systemd) or "darwin" (launchd)
    disk,       \* the unit file
    loaded,     \* the unit as the service manager knows it
    daemon,     \* the running daemon: its version and its unit
    installed,  \* the version of the program at the stable path
    command,    \* the command under way
    runs

serviceVars == <<os, disk, loaded, daemon, installed, command, runs>>

UnitsOf(place) == [place : {place}, env : Envs]
Units == UNION {UnitsOf(place) : place \in Places}

\* A unit its owner wrote: it does not hold the layout's marker.
Custom == [place |-> Absent, env |-> Absent]

Daemons == [version : 1..MaxVersion, unit : Units \cup {Custom}]

\* What the constants have to be: an instance assumes it.
ServiceAssumption ==
    /\ MaxVersion \in Nat \ {0} /\ MaxRuns \in Nat
    /\ Absent \notin Places \cup Units \cup {Custom} \cup Daemons

Free == [op |-> "none", at |-> "idle", want |-> Absent, changed |-> FALSE, agreed |-> FALSE, old |-> 0]

\* A process of the current program under unit u.
Spawn(u) == [version |-> installed, unit |-> u]
Started == IF loaded = Absent THEN Absent ELSE Spawn(loaded)

\* GET /ready: the daemon answers who names the config it serves.
Serves(place) == daemon # Absent /\ daemon.unit.place = place
DaemonReady == Serves(command.want.place) /\ daemon.version = installed

\* The types of all variables.
ServiceTypeOK ==
    /\ os \in {"linux", "darwin"} /\ installed \in 1..MaxVersion /\ runs \in 0..MaxRuns
    /\ disk \in Units \cup {Absent, Custom} /\ loaded \in Units \cup {Absent, Custom}
    /\ daemon \in Daemons \cup {Absent}
    /\ command.op \in {"none", "setup", "update", "start", "stop", "restart", "uninstall"}
    /\ command.want \in Units \cup {Absent}
    /\ {command.changed, command.agreed} \subseteq BOOLEAN

ServiceInit ==
    /\ os \in {"linux", "darwin"} /\ disk \in {Absent, Custom} /\ loaded = disk
    /\ daemon = Absent /\ installed = 1 /\ command = Free /\ runs = 0

Goes(at) == command' = [command EXCEPT !.at = at]
Ends == command' = Free
At(op, at) == command.op = op /\ command.at = at

(***************************************************************************)
(* The runners                                                             *)
(***************************************************************************)
\* WriteUnitFile renames a complete file into place; the last sync of its
\* directory may fail after that.
WriteUnitFile(ok) ==
    /\ \/ disk' = command.want
       \/ ~ok /\ UNCHANGED disk
    /\ UNCHANGED <<loaded, daemon, installed>>

\* launchd has no reload; systemd reads the units again.
DaemonReload(ok) ==
    /\ \/ loaded' = IF os = "linux" THEN disk ELSE loaded
       \/ ~ok /\ UNCHANGED loaded
    /\ os = "darwin" => ok
    /\ UNCHANGED <<disk, daemon, installed>>

\* systemctl enable --now leaves an active unit alone.
EnableNow(ok) ==
    /\ \/ daemon' = IF daemon = Absent THEN Started ELSE daemon
       \/ ~ok /\ UNCHANGED daemon
    /\ ok => loaded # Absent
    /\ UNCHANGED loaded

\* launchctl bootout, bootstrap and kickstart start over with the file.
Bootstrap(ok) ==
    \/ disk # Absent /\ loaded' = disk /\ daemon' = Spawn(disk)
    \/ ~ok /\ loaded' = Absent /\ daemon' = Absent

EnableAndStart(ok) ==
    /\ IF os = "linux" THEN EnableNow(ok) ELSE Bootstrap(ok)
    /\ UNCHANGED <<disk, installed>>

\* restart and kickstart -k: again with the unit that is loaded.
Kick(ok) ==
    /\ \/ daemon' = Started
       \/ ~ok /\ daemon' \in {daemon, Absent}
    /\ ok => loaded # Absent
    /\ UNCHANGED loaded

\* Without a loaded unit launchd gets the one of the file.
RestartRunner(ok) ==
    /\ IF loaded = Absent /\ os = "darwin" THEN Bootstrap(ok) ELSE Kick(ok)
    /\ UNCHANGED <<disk, installed>>

\* disable --now and stop; bootout also unloads.
StopRunner(ok) ==
    /\ \/ daemon' = Absent /\ loaded' = IF os = "darwin" THEN Absent ELSE loaded
       \/ ~ok /\ UNCHANGED <<daemon, loaded>>
    /\ UNCHANGED <<disk, installed>>

RemoveUnitFile(ok) ==
    /\ \/ disk' = Absent
       \/ ~ok /\ UNCHANGED disk
    /\ UNCHANGED <<loaded, daemon, installed>>

\* One step of a command: it works and the command goes on, or it fails and
\* ends the command.
Steps(Runner(_), at, next) ==
    /\ command.at = at
    /\ \/ Runner(TRUE) /\ Goes(next)
       \/ Runner(FALSE) /\ Ends
    /\ UNCHANGED <<os, runs>>

(***************************************************************************)
(* InstallService                                                          *)
(***************************************************************************)
\* agreed: the daemon ran the unit of the file when the command came.
BeginCommand(op, want) ==
    /\ command.at = "idle" /\ runs < MaxRuns /\ runs' = runs + 1
    /\ command' = [Free EXCEPT !.op = op, !.want = want,
         !.at = CASE op \in {"setup", "update"} -> "read" [] op = "uninstall" -> "disable" [] OTHER -> op,
         !.agreed = (disk = loaded /\ (daemon # Absent => daemon.unit = disk))]
    /\ UNCHANGED <<os, disk, loaded, daemon, installed>>

\* refusing to overwrite custom unit
Refuses ==
    /\ command.at = "read"
    /\ disk = Custom \/ (command.op = "update" /\ disk \notin UnitsOf(command.want.place))
    /\ Ends /\ UNCHANGED <<os, disk, loaded, daemon, installed, runs>>

\* Fault: a unit counts as changed when it names another place.
PlaceChanged == disk # Absent /\ disk \notin UnitsOf(command.want.place)
UnitChanged == disk # Absent /\ disk # command.want

ReadUnit ==
    /\ At("setup", "read") /\ disk # Custom
    /\ command' = [command EXCEPT !.at = "write", !.changed = UnitChanged]
    /\ UNCHANGED <<os, disk, loaded, daemon, installed, runs>>

WriteUnit == Steps(WriteUnitFile, "write", "reload")
Reload == command.op # "uninstall" /\ Steps(DaemonReload, "reload", IF command.op = "setup" THEN "enable" ELSE "switch")
Enable == Steps(EnableAndStart, "enable", IF command.changed THEN "kick" ELSE "probe")
RestartChanged == Steps(RestartRunner, "kick", "wait")

\* Fault: the daemon is asked for its version only.
SameVersion == ~command.changed /\ daemon # Absent /\ daemon.version # installed
\* callErr != nil || status.Version != Version
Outdated == ~command.changed /\ ~DaemonReady

\* A daemon that does not answer in a second is started again too.
ProbeVersion ==
    /\ command.at = "probe"
    /\ IF Outdated THEN Goes("again") ELSE Goes("wait") \/ Goes("again")
    /\ UNCHANGED <<os, disk, loaded, daemon, installed, runs>>

RestartInstalled == Steps(RestartRunner, "again", "wait")

\* waitForReadiness, and the end of the command.
Succeeds ==
    /\ command.at = "wait" /\ DaemonReady /\ Ends
    /\ UNCHANGED <<os, disk, loaded, daemon, installed, runs>>

\* 30 seconds pass; an update that switched goes back and starts the old
\* program again.
TimesOut ==
    /\ command.at = "wait"
    /\ IF command.old = 0
       THEN Ends /\ UNCHANGED installed
       ELSE command' = [command EXCEPT !.at = "kickback", !.old = 0] /\ installed' = command.old
    /\ UNCHANGED <<os, disk, loaded, daemon, runs>>

RestartRestored == Steps(RestartRunner, "kickback", "wait")

(***************************************************************************)
(* prepareUpdateService and applyRelease                                   *)
(***************************************************************************)
RepairUnit ==
    /\ At("update", "read") /\ disk \in UnitsOf(command.want.place)
    /\ command' = [command EXCEPT !.at = IF disk = command.want THEN "switch" ELSE "write"]
    /\ UNCHANGED <<os, disk, loaded, daemon, installed, runs>>

\* The stable path names another release, or the same: then a daemon that is
\* ready is left alone.
Switch(v) ==
    /\ command.at = "switch" /\ installed' = v
    /\ command' = IF v = installed
         THEN [command EXCEPT !.at = IF DaemonReady THEN "wait" ELSE "restart"]
         ELSE [command EXCEPT !.at = "restart", !.old = installed]
    /\ UNCHANGED <<os, disk, loaded, daemon, runs>>

RestartService ==
    /\ command.op \in {"update", "restart"}
    /\ Steps(RestartRunner, "restart", IF command.op = "update" THEN "wait" ELSE "done")

(***************************************************************************)
(* The other commands                                                      *)
(***************************************************************************)
Start == Steps(EnableAndStart, "start", "done")
Stop == Steps(StopRunner, "stop", "done")
Done == command.at = "done" /\ Ends /\ UNCHANGED <<os, disk, loaded, daemon, installed, runs>>

Disable == Steps(StopRunner, "disable", "remove")
RemoveUnit == Steps(RemoveUnitFile, "remove", "unload")
Unload == Steps(DaemonReload, "unload", "done")

(***************************************************************************)
(* The service manager and the owner                                       *)
(***************************************************************************)
\* Restart=always, KeepAlive: a daemon that ends is started again.
Crashes == daemon # Absent /\ daemon' = Started /\ UNCHANGED <<os, disk, loaded, installed, command, runs>>

\* The host starts again, which ends the command.
Boots ==
    /\ loaded' = disk /\ daemon' \in {Absent, IF disk = Absent THEN Absent ELSE Spawn(disk)}
    /\ Ends /\ UNCHANGED <<os, disk, installed, runs>>

\* The installer puts another version at the stable path.
Installs ==
    /\ command.at = "idle" /\ installed < MaxVersion /\ installed' = installed + 1
    /\ UNCHANGED <<os, disk, loaded, daemon, command, runs>>

ServiceNext ==
    \/ \E w \in Units : \E op \in {"setup", "update"} : BeginCommand(op, w)
    \/ \E op \in {"start", "stop", "restart", "uninstall"} : BeginCommand(op, Absent)
    \/ Refuses \/ ReadUnit \/ WriteUnit \/ Reload \/ Enable \/ RestartChanged
    \/ ProbeVersion \/ RestartInstalled \/ Succeeds \/ TimesOut \/ RestartRestored
    \/ RepairUnit \/ (\E v \in 1..MaxVersion : Switch(v)) \/ RestartService
    \/ Start \/ Stop \/ Done \/ Disable \/ RemoveUnit \/ Unload
    \/ Crashes \/ Boots \/ Installs

ServiceSpec == ServiceInit /\ [][ServiceNext]_serviceVars

(***************************************************************************)
(* What must hold                                                          *)
(***************************************************************************)
\* A setup whose steps all worked finds the daemon it asked for: the installed
\* program, with the config and the runtime directory that were named,
\* whatever an earlier setup or update that failed half way left behind
\* (update: the same, from the unit it may repair).  Only a daemon that cannot
\* start makes it fail.
CleanSetupSucceeds == At("setup", "wait") => DaemonReady

\* If the daemon ran the unit of the file before, it runs the unit of the file
\* at the end of a setup: also its PATH and its program's path, which no
\* answer of the daemon tells.
DaemonRunsUnit == At("setup", "wait") /\ command.agreed => daemon.unit = disk

\* Both hold of a service.
SetupTakesEffect == CleanSetupSucceeds /\ DaemonRunsUnit

\* The comment of launchd's DaemonReload: a changed plist takes effect with
\* bootout and bootstrap, which EnableAndStart and Restart see to.  So after an
\* update that repaired the unit and whose restart worked the daemon runs the
\* repaired unit.
RestartLoadsUnit ==
    At("update", "wait") /\ command.agreed /\ command.old # 0 /\ daemon # Absent
        => daemon.unit = disk

CommandRecords ==
    [op : {"none", "setup", "update", "start", "stop", "restart", "uninstall"},
     at : {"idle", "read", "write", "reload", "enable", "kick", "probe", "again", "wait", "kickback", "switch",
           "restart", "start", "stop", "done", "disable", "remove", "unload"},
     want : Units \cup {Absent}, changed : BOOLEAN, agreed : BOOLEAN, old : 0..MaxVersion]

\* The daemon, when one runs, was started with unit u.
RunsUnit(u) == daemon # Absent => daemon.unit = u

\* How far a setup has come: the unit is in the file, then loaded, and what
\* it found changed or outdated is started again.
SetupFits ==
    command.op = "setup" =>
        /\ command.want \in Units /\ command.old = 0
        /\ command.at \in {"read", "write", "reload", "enable", "kick", "probe", "again", "wait"}
        /\ command.at = "write" /\ ~ command.changed => disk \in {Absent, command.want}
        /\ command.at \notin {"read", "write"} => disk = command.want
        /\ command.at \in {"kick", "probe", "again", "wait"} \/ (command.at = "enable" /\ os = "linux")
            => loaded = command.want
        /\ command.at = "kick" => command.changed
        /\ command.at \in {"probe", "again"} => ~ command.changed
        /\ command.at = "wait" => DaemonReady

\* What ran the unit of the file when the setup came runs it in the end.
AgreedFits ==
    command.op = "setup" /\ command.agreed =>
        /\ command.at \in {"read", "write"} => disk = loaded /\ RunsUnit(disk)
        /\ command.at \in {"reload", "enable"} /\ ~ command.changed
            => loaded \in {Absent, command.want} /\ RunsUnit(command.want)
        /\ command.at \in {"probe", "wait"} => RunsUnit(command.want)

\* The invariant that every step preserves.
ServiceInv ==
    /\ os \in {"linux", "darwin"} /\ installed \in 1..MaxVersion /\ runs \in 0..MaxRuns
    /\ disk \in Units \cup {Absent, Custom} /\ loaded \in Units \cup {Absent, Custom}
    /\ daemon \in Daemons \cup {Absent}
    /\ command \in CommandRecords /\ (command.op = "update" /\ command.at # "idle" => command.want \in Units)
    /\ SetupFits /\ AgreedFits
=============================================================================
