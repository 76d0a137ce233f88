------------------------------ MODULE Lifecycle ------------------------------
(***************************************************************************)
(* The commands that install, restart, disable and uninstall the service:  *)
(* src/src/ops/lifecycle.rs, src/src/config/installed.rs and the dispatch  *)
(* of src/src/main.rs.  A command is run by root, one at a time, as a      *)
(* sequence of steps on files and on the service manager.  A step that the *)
(* code propagates with `?` may fail, one whose result it drops may fail   *)
(* without a word, the command may be killed and the machine may lose      *)
(* power between any two steps.                                            *)
(*                                                                         *)
(* A configuration is a name: config.json, a unit and a script contain it  *)
(* or are absent or torn.  A request to the manager, systemd or SysV init, *)
(* that fails does nothing; systemctl stop and restart wait for the old    *)
(* process, the script's stop does not.                                    *)
(*                                                                         *)
(* SaveInPlace, NoReload and the like, above the definitions they are    *)
(* named for, are wrong variants of them.                                  *)
(***************************************************************************)
EXTENDS Naturals

CONSTANTS
  Configurations,   \* what install is asked for
  Options,          \* per configuration: mode, listen and upstream
  InitSystems,      \* subset of {"systemd", "sysv"}
  MaxCommands,      \* bound of the model: commands
  MaxMishaps        \* bound of the model: failed steps, kills, crashes, reboots

Absent == "absent"
Torn == "torn"
Whole == "whole"

ASSUME LifecycleAssumption ==
  /\ Configurations \intersect {Absent, Torn, Whole} = {}
  /\ \A c \in Configurations : Options[c].mode \in {"sniff", "proxy"}
  /\ InitSystems \subseteq {"systemd", "sysv"}
  /\ MaxCommands \in Nat
  /\ MaxMishaps \in Nat

Commands == {"install", "restart", "disable", "uninstall"}

VARIABLES
  initSystem,    \* which manager the machine has
  files,         \* config, temporary, binary, unit and script
  private,       \* which of config and temporary have mode 0600
  loaded,        \* the unit as of the last daemon-reload
  enabled,       \* started at boot
  service,       \* its process: stage, configuration, and where its program is
  draining,      \* processes told to stop, by where their program is now
  command,       \* the command being run
  last,          \* history: what the last command did
  agreement,     \* history: "whole", "stale" or "broken"
  commands,      \* commands so far
  mishaps        \* mishaps so far

fileVars == <<files, private>>
managerVars == <<loaded, enabled, service, draining>>
historyVars == <<last, agreement>>
boundVars == <<initSystem, commands, mishaps>>
vars == <<fileVars, managerVars, command, historyVars, boundVars>>

NoService == [stage |-> "none", args |-> Absent, program |-> "installed"]
NoCommand ==
  [name |-> "none", step |-> "none", config |-> Absent, outside |-> FALSE, failed |-> FALSE]

Init ==
  /\ initSystem \in InitSystems
  /\ files = [config |-> Absent, temporary |-> Absent, binary |-> Absent,
              unit |-> Absent, script |-> Absent]
  /\ private = {}
  /\ loaded = Absent
  /\ enabled = FALSE
  /\ service = NoService
  /\ draining = [installed |-> 0, removed |-> 0]
  /\ command = NoCommand
  /\ last = "none"
  /\ agreement = "whole"
  /\ commands = 0
  /\ mishaps = 0

-----------------------------------------------------------------------------
(* What an installed service is.                                           *)

\* validate_proxy_endpoints, with the addresses parse_upstream makes: a name is
\* not compared with anything.
Local(ip) == ip \in {"loopback", "unspecified"}
IsLoop(listen, upstream) ==
  /\ upstream.ip # "name"
  /\ upstream.port = listen.port
  /\ Local(upstream.ip) /\ Local(listen.ip)

Accepted(c) == Options[c].mode = "proxy" => ~IsLoop(Options[c].listen, Options[c].upstream)

\* exec_args names the subcommand of the passive mode only, and main opens the
\* dashboard when there is none.
Subcommand(c) == IF Options[c].mode = "sniff" THEN "sniff" ELSE "none"
RunsAs(c) == IF Subcommand(c) = "none" THEN "dashboard" ELSE Subcommand(c)

\* The dashboard ends at once without a terminal.
NeedsTerminal(c) == RunsAs(c) = "dashboard"
Stays(c) == files.binary = Whole /\ c \in Configurations /\ ~NeedsTerminal(c)

\* What a start of the service starts: the loaded unit, or the script.
StartsWith == IF initSystem = "systemd" THEN loaded ELSE files.script

\* systemd holds a process that ended by itself as failed, and tries again.  An
\* absent or torn unit or script starts nothing.
Started(args) ==
  IF Stays(args) THEN [stage |-> "up", args |-> args, program |-> "installed"]
  ELSE IF initSystem = "systemd" /\ args \in Configurations
       THEN [stage |-> "failed", args |-> args, program |-> "installed"]
  ELSE NoService

\* The kernel does not let the program of a process be written.
Busy ==
  \/ service.stage = "up" /\ service.program = "installed"
  \/ draining.installed > 0

-----------------------------------------------------------------------------
(* Commands.                                                               *)

At(step) == command.step = step
Goto(step) == command' = [command EXCEPT !.step = step]
GoOnWithout(step) == command' = [command EXCEPT !.step = step, !.failed = TRUE]

\* What a command has done that reached its end and dropped no failure on the way.
Reports ==
  CASE command.name = "install" -> "installed"
    [] command.name = "restart" -> "restarted"
    [] command.name = "disable" -> "disabled"
    [] command.name = "uninstall" -> "uninstalled"

\* An installation that does not restart a running service leaves it stale; one
\* that is cut off may leave the files disagreeing.
Agreed(stale) ==
  CASE command.name = "install" -> IF stale THEN "stale" ELSE "whole"
    [] command.name = "uninstall" -> "whole"
    [] command.name = "restart" /\ agreement = "stale" -> "whole"
    [] OTHER -> agreement
Early == {"deploy", "deploying", "begin", "write", "writing", "protect", "rename"}
CutOff ==
  IF command.name \in {"install", "uninstall"} /\ command.step \notin Early
  THEN "broken" ELSE agreement

\* The command says that it has done everything and returns Ok, in either case.
End(failed, stale) ==
  /\ command' = NoCommand
  /\ last' = IF failed THEN "none" ELSE Reports
  /\ agreement' = IF failed THEN CutOff ELSE Agreed(stale)
Succeed(stale) == End(command.failed, stale)

Fail ==
  /\ command' = NoCommand
  /\ last' = "none"
  /\ agreement' = CutOff

\* outside: the command was not started from /usr/local/bin.
StartCommand(name, c, outside) ==
  /\ command = NoCommand
  /\ commands < MaxCommands
  /\ outside \/ files.binary = Whole
  /\ commands' = commands + 1
  /\ command' = [name |-> name, config |-> c, outside |-> outside, failed |-> FALSE,
                 step |-> IF outside THEN "deploy" ELSE "begin"]
  /\ last' = "none"
  /\ UNCHANGED <<fileVars, managerVars, agreement, initSystem, mishaps>>

\* auto_deploy_to_bin, at the start of every command: fs::copy truncates the
\* target and fills it.
Deploy ==
  /\ At("deploy")
  /\ IF Busy THEN Goto("begin") /\ UNCHANGED files
     ELSE Goto("deploying") /\ files' = [files EXCEPT !.binary = Torn]
  /\ UNCHANGED <<private, managerVars, historyVars, boundVars>>

Deployed ==
  /\ At("deploying")
  /\ Goto("begin")
  /\ files' = [files EXCEPT !.binary = Whole]
  /\ UNCHANGED <<private, managerVars, historyVars, boundVars>>

\* An error is ignored, with the target as it is.
DeployFails ==
  /\ command.step \in {"deploy", "deploying"}
  /\ mishaps < MaxMishaps
  /\ mishaps' = mishaps + 1
  /\ Goto("begin")
  /\ UNCHANGED <<fileVars, managerVars, historyVars, initSystem, commands>>

\* install_service validates the endpoints of a proxy before it writes.
Begin ==
  /\ At("begin")
  /\ IF command.name # "install" THEN Goto("stop") /\ UNCHANGED historyVars
     ELSE IF Accepted(command.config) THEN Goto("write") /\ UNCHANGED historyVars
     ELSE Fail
  /\ UNCHANGED <<fileVars, managerVars, boundVars>>

-----------------------------------------------------------------------------
(* save_installed_config.                                                  *)

\* fs::write truncates the temporary file, which keeps its mode if it exists.
SaveInPlace ==
  /\ At("write")
  /\ Goto("rename")
  /\ files' = [files EXCEPT !.config = Torn, !.temporary = command.config]
WriteTemporary ==
  /\ At("write")
  /\ Goto("writing")
  /\ files' = [files EXCEPT !.temporary = Torn]
StartWriting ==
  /\ WriteTemporary
  /\ UNCHANGED <<private, managerVars, historyVars, boundVars>>

FinishWriting ==
  /\ At("writing")
  /\ Goto("protect")
  /\ files' = [files EXCEPT !.temporary = command.config]
  /\ UNCHANGED <<private, managerVars, historyVars, boundVars>>

\* restrict_config_permissions of the temporary file.
Protected == private \union {"temporary"}
ProtectTemporary ==
  /\ At("protect")
  /\ Goto("rename")
  /\ private' = Protected
  /\ UNCHANGED <<files, managerVars, historyVars, boundVars>>

\* fs::rename takes the mode along.
Rename ==
  /\ At("rename")
  /\ Goto("protect again")
  /\ files' = [files EXCEPT !.config = files.temporary, !.temporary = Absent]
  /\ private' = IF "temporary" \in private THEN {"config"} ELSE {}
  /\ UNCHANGED <<managerVars, historyVars, boundVars>>

ProtectConfig ==
  /\ At("protect again")
  /\ Goto("copy")
  /\ private' = private \union {"config"}
  /\ UNCHANGED <<files, managerVars, historyVars, boundVars>>

-----------------------------------------------------------------------------
(* The rest of install_service.                                            *)

\* fs::copy of the program, unless it is the target itself.
CopyBinary ==
  /\ At("copy")
  /\ IF ~command.outside
     THEN Goto("prepare") /\ UNCHANGED <<files, historyVars>>
     ELSE IF Busy THEN Fail /\ UNCHANGED files
     ELSE /\ Goto("copying")
          /\ files' = [files EXCEPT !.binary = Torn]
          /\ UNCHANGED historyVars
  /\ UNCHANGED <<private, managerVars, boundVars>>

FinishCopying ==
  /\ At("copying")
  /\ Goto("prepare")
  /\ files' = [files EXCEPT !.binary = Whole]
  /\ UNCHANGED <<private, managerVars, historyVars, boundVars>>

\* Mode of the program, directory, user; then the unit, or the script where there
\* is no systemd or the unit could not be written.
RegisteredAs == IF initSystem = "systemd" /\ ~command.failed THEN "unit" ELSE "script"
StartRegistering ==
  /\ At("prepare")
  /\ Goto("registering")
  /\ files' = [files EXCEPT ![RegisteredAs] = Torn]
  /\ UNCHANGED <<private, managerVars, historyVars, boundVars>>

\* A machine with systemd has no chkconfig and no service command.
ArgsOfOldConfig(c) == IF loaded = Absent THEN c ELSE loaded
ExecArgs(c) == c
Register ==
  /\ At("registering")
  /\ files' = [files EXCEPT ![RegisteredAs] = ExecArgs(command.config)]
  /\ IF RegisteredAs = "unit" THEN Goto("reload") /\ UNCHANGED historyVars
     ELSE IF initSystem = "sysv" THEN Goto("enable") /\ UNCHANGED historyVars
     ELSE Succeed(FALSE)
  /\ UNCHANGED <<private, managerVars, boundVars>>

\* fs::write fails: the script is tried after the unit, and after the script the
\* command returns Ok without a service.
RegisterFails ==
  /\ command.step \in {"prepare", "registering"}
  /\ mishaps < MaxMishaps
  /\ mishaps' = mishaps + 1
  /\ IF RegisteredAs = "unit"
     THEN GoOnWithout("prepare") /\ UNCHANGED historyVars
     ELSE command' = NoCommand /\ last' = "copied" /\ agreement' = "broken"
  /\ UNCHANGED <<fileVars, managerVars, initSystem, commands>>

NoReload == loaded
Reloaded == files.unit
DaemonReload ==
  /\ At("reload")
  /\ Goto("enable")
  /\ loaded' = Reloaded
  /\ UNCHANGED <<fileVars, enabled, service, draining, historyVars, boundVars>>

\* systemd starts a service when the process before has ended; the script sleeps
\* for a second at most.
Idle == draining.installed + draining.removed = 0
WaitsForNobody == TRUE
Waited == initSystem = "systemd" => Idle

\* systemctl enable --now starts a service that is not running and leaves a
\* running one alone; chkconfig on, and then service reqlens restart.
Enable ==
  /\ At("enable")
  /\ service.stage = "none" => Waited
  /\ enabled' = TRUE
  /\ IF initSystem = "systemd"
     THEN /\ service' = IF service.stage = "none" THEN Started(loaded) ELSE service
          /\ Succeed(service.stage = "up" /\ service.args # loaded)
     ELSE Goto("stop") /\ UNCHANGED <<service, historyVars>>
  /\ UNCHANGED <<fileVars, loaded, draining, boundVars>>

-----------------------------------------------------------------------------
(* restart_service, disable_service and uninstall_service.                 *)

\* Whether there is a unit or a script that does what is asked.
Answers ==
  IF initSystem = "systemd" THEN command.name = "restart" => loaded \in Configurations
  ELSE files.script \in Configurations

\* systemctl stop, systemctl restart or the script's stop: SIGTERM.
Stop ==
  /\ At("stop")
  /\ Answers
  /\ Goto("stopped")
  /\ service' = NoService
  /\ draining' = IF service.stage = "up" THEN [draining EXCEPT ![service.program] = @ + 1]
                 ELSE draining
  /\ UNCHANGED <<fileVars, loaded, enabled, historyVars, boundVars>>

\* Nobody stops the service: restart warns, the others do not look.
NotStopped ==
  /\ At("stop")
  /\ ~Answers
  /\ IF command.name \in {"disable", "uninstall"}
     THEN /\ IF service = NoService THEN Goto("forget") ELSE GoOnWithout("forget")
          /\ UNCHANGED historyVars
     ELSE Fail
  /\ UNCHANGED <<fileVars, managerVars, boundVars>>

Stopped ==
  /\ At("stopped")
  /\ Waited
  /\ Goto(IF command.name \in {"install", "restart"} THEN "start" ELSE "forget")
  /\ UNCHANGED <<fileVars, managerVars, historyVars, boundVars>>

Start ==
  /\ At("start")
  /\ service' = Started(StartsWith)
  /\ Succeed(FALSE)
  /\ UNCHANGED <<fileVars, loaded, enabled, draining, boundVars>>

\* systemctl disable, chkconfig off or --del.
StaysEnabled == enabled
Disabled == FALSE
Disable ==
  /\ At("forget")
  /\ enabled' = Disabled
  /\ IF command.name = "disable" THEN Succeed(FALSE)
     ELSE Goto("remove unit") /\ UNCHANGED historyVars
  /\ UNCHANGED <<fileVars, loaded, service, draining, boundVars>>

\* uninstall_service goes on with the unit, systemd's memory of it, the script, the
\* program and the configuration, not with a temporary file that is left; --purge
\* adds the data and the user.
RemoveUnit ==
  /\ At("remove unit")
  /\ Goto("unload")
  /\ files' = [files EXCEPT !.unit = Absent]
  /\ UNCHANGED <<private, managerVars, historyVars, boundVars>>

Unload ==
  /\ At("unload")
  /\ Goto("remove script")
  /\ loaded' = files.unit
  /\ UNCHANGED <<fileVars, enabled, service, draining, historyVars, boundVars>>

RemoveScript ==
  /\ At("remove script")
  /\ Goto("remove binary")
  /\ files' = [files EXCEPT !.script = Absent]
  /\ UNCHANGED <<private, managerVars, historyVars, boundVars>>

\* A process keeps the program it runs.
RemoveBinary ==
  /\ At("remove binary")
  /\ Goto("remove config")
  /\ files' = [files EXCEPT !.binary = Absent]
  /\ service' = IF service.stage = "up" THEN [service EXCEPT !.program = "removed"] ELSE service
  /\ draining' = [installed |-> 0, removed |-> draining.removed + draining.installed]
  /\ UNCHANGED <<private, loaded, enabled, historyVars, boundVars>>

RemoveConfig ==
  /\ At("remove config")
  /\ files' = [files EXCEPT !.config = Absent]
  /\ private' = private \ {"config"}
  /\ Succeed(FALSE)
  /\ UNCHANGED <<managerVars, boundVars>>

-----------------------------------------------------------------------------
(* Mishaps.                                                                *)

\* A step with `?` fails, with the file as it is.
Propagating ==
  {"write", "writing", "protect", "rename", "protect again", "copy", "copying", "prepare"}
StepFails ==
  /\ command.step \in Propagating
  /\ mishaps < MaxMishaps
  /\ mishaps' = mishaps + 1
  /\ Fail
  /\ UNCHANGED <<fileVars, managerVars, initSystem, commands>>

\* A step whose result is dropped fails, and the command goes on.  An installation
\* has no step after service restart or enable --now, disable none after disabling.
Dropping ==
  {"reload", "enable", "stop", "forget",
   "remove unit", "unload", "remove script", "remove binary", "remove config"}
StepAfter ==
  CASE At("reload") -> "enable"
    [] At("enable") -> "stop"
    [] At("stop") -> "forget"
    [] At("forget") -> "remove unit"
    [] At("remove unit") -> "unload"
    [] At("unload") -> "remove script"
    [] At("remove script") -> "remove binary"
    [] At("remove binary") -> "remove config"
IsLast ==
  \/ At("enable") /\ initSystem = "systemd"
  \/ At("stop") /\ command.name = "install"
  \/ At("forget") /\ command.name = "disable"
  \/ At("remove config")
StepIgnored ==
  /\ command.step \in Dropping
  /\ mishaps < MaxMishaps
  /\ mishaps' = mishaps + 1
  /\ IF IsLast THEN End(TRUE, FALSE)
     ELSE IF At("stop") /\ command.name = "restart" THEN Fail
     ELSE GoOnWithout(StepAfter) /\ UNCHANGED historyVars
  /\ UNCHANGED <<fileVars, managerVars, initSystem, commands>>

Kill ==
  /\ command # NoCommand
  /\ mishaps < MaxMishaps
  /\ mishaps' = mishaps + 1
  /\ Fail
  /\ UNCHANGED <<fileVars, managerVars, initSystem, commands>>

\* The machine starts again; units are read from their files.
Reboot ==
  /\ mishaps < MaxMishaps
  /\ mishaps' = mishaps + 1
  /\ IF command = NoCommand
     THEN /\ agreement' = IF agreement = "stale" THEN "whole" ELSE agreement
          /\ UNCHANGED <<command, last>>
     ELSE Fail
  /\ draining' = [installed |-> 0, removed |-> 0]
  /\ loaded' = files.unit
  /\ service' = LET args == IF initSystem = "systemd" THEN files.unit ELSE files.script
                IN  IF enabled /\ args # Absent THEN Started(args) ELSE NoService
  /\ UNCHANGED <<fileVars, enabled, initSystem, commands>>

\* The service's process dies by itself.
ServiceDies ==
  /\ service.stage = "up"
  /\ mishaps < MaxMishaps
  /\ mishaps' = mishaps + 1
  /\ IF initSystem = "systemd"
     THEN service' = [service EXCEPT !.stage = "failed"] /\ UNCHANGED last
     ELSE service' = NoService /\ last' = "none"
  /\ UNCHANGED <<fileVars, loaded, enabled, draining, command, agreement, initSystem, commands>>

-----------------------------------------------------------------------------
(* The service and its manager.                                            *)

\* Restart=on-failure, RestartSec=5s: never fast enough for systemd to give up.
NeverRestarts == FALSE
RestartsOnFailure == service.stage = "failed"
RestartOnFailure ==
  /\ RestartsOnFailure
  /\ loaded \in Configurations
  /\ service' = Started(loaded)
  /\ agreement' = IF agreement = "stale" /\ Stays(loaded) THEN "whole" ELSE agreement
  /\ UNCHANGED <<fileVars, loaded, enabled, draining, command, last, boundVars>>

\* A process that was told to stop has flushed its queue.
Drained ==
  /\ \E p \in DOMAIN draining :
       draining[p] > 0 /\ draining' = [draining EXCEPT ![p] = @ - 1]
  /\ UNCHANGED <<fileVars, loaded, enabled, service, command, historyVars, boundVars>>

CommandStep ==
  \/ Deploy \/ Deployed \/ Begin
  \/ StartWriting \/ FinishWriting \/ ProtectTemporary \/ Rename \/ ProtectConfig
  \/ CopyBinary \/ FinishCopying \/ StartRegistering \/ Register \/ DaemonReload \/ Enable
  \/ Stop \/ NotStopped \/ Stopped \/ Start \/ Disable
  \/ RemoveUnit \/ Unload \/ RemoveScript \/ RemoveBinary \/ RemoveConfig

Next ==
  \/ \E c \in Configurations, outside \in BOOLEAN : StartCommand("install", c, outside)
  \/ \E name \in Commands \ {"install"}, outside \in BOOLEAN :
       StartCommand(name, Absent, outside)
  \/ CommandStep
  \/ DeployFails \/ RegisterFails \/ StepFails \/ StepIgnored
  \/ Kill \/ Reboot \/ ServiceDies
  \/ RestartOnFailure \/ Drained

Spec == Init /\ [][Next]_vars

\* A command goes on, processes end when told to, systemd tries again.
FairSpec ==
  /\ Spec
  /\ WF_vars(CommandStep) /\ WF_vars(Drained) /\ WF_vars(RestartOnFailure)

-----------------------------------------------------------------------------
(* Properties.                                                             *)

\* Types; and a program that runs is whole.
TypeOK ==
  /\ service.stage = "up" /\ service.program = "installed" => files.binary = Whole
  /\ initSystem \in InitSystems
  /\ files \in [config : Configurations \union {Absent, Torn},
                temporary : Configurations \union {Absent, Torn},
                binary : {Absent, Torn, Whole},
                unit : Configurations \union {Absent, Torn},
                script : Configurations \union {Absent, Torn}]
  /\ private \subseteq {"config", "temporary"}
  /\ loaded \in Configurations \union {Absent, Torn}
  /\ enabled \in BOOLEAN
  /\ service \in [stage : {"none", "up", "failed"}, args : Configurations \union {Absent},
                  program : {"installed", "removed"}]
  /\ draining \in [installed : Nat, removed : Nat]
  /\ command.name \in Commands \union {"none"}
  /\ agreement \in {"whole", "stale", "broken"}
  /\ commands \in 0 .. MaxCommands
  /\ mishaps \in 0 .. MaxMishaps

\* Whatever fails, whoever kills the command and whenever the power goes, the
\* file that tui and status parse at every start is a whole configuration or
\* is not there (save_installed_config writes next to it and renames).
ConfigIsWhole == files.config # Torn

\* config.json is never readable by others, not even for the moment between the
\* rename and the second restrict_config_permissions.
ConfigIsPrivate == files.config # Absent => "config" \in private

\* The configuration the dashboard reads is the one the service runs with, from
\* one command to the next, through reboots and restarts; unless a command was
\* cut off or dropped a failure, or a running service was installed again.
ServiceIsAsInstalled ==
  command = NoCommand /\ agreement = "whole" /\ service.stage = "up"
    => service.args = files.config

\* docs/OPERATIONS.md: install registers the service, starts it at once and
\* enables it, if nothing failed that it dropped; that lasts until another command,
\* through reboots.  Not so a configuration in proxy mode, whose command line opens
\* the dashboard: it is registered and enabled, and its process ends at once.
InstallStarts ==
  last = "installed" =>
    /\ enabled
    /\ StartsWith \in Configurations
    /\ \/ NeedsTerminal(StartsWith)
       \/ service.stage = "up"
       \/ service.stage = "failed" /\ Stays(loaded)

\* What disable and uninstall took away, when nothing failed that they dropped, does
\* not come back with a reboot, a failure or the manager's memory of a unit.
StaysAway ==
  /\ last \in {"disabled", "uninstalled"} => ~enabled /\ service = NoService
  /\ last = "uninstalled" =>
       /\ loaded = Absent
       /\ \A f \in {"config", "binary", "unit", "script"} : files[f] = Absent

\* docs/OPERATIONS.md on restart: the process before has drained its queue when
\* the next one starts.  The script for SysV init does not wait for that.
SafeRestart == initSystem = "systemd" /\ service.stage = "up" => Idle

\* Liveness: an installed service that fails comes back, until another command, if
\* it needs no terminal.
InstalledServiceRuns ==
  last = "installed" /\ initSystem = "systemd" /\ ~NeedsTerminal(loaded)
    ~> service.stage = "up" \/ last # "installed"
=============================================================================
