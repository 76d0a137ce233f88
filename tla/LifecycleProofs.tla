--------------------------- MODULE LifecycleProofs ---------------------------
(***************************************************************************)
(* Proofs about Lifecycle, for every set of configurations and any number  *)
(* of commands, failures, kills and reboots.  The inductive invariant      *)
(* IInv says what each step of a command finds: the steps before it have   *)
(* been taken, and nothing that can happen in between undoes them.         *)
(***************************************************************************)
EXTENDS Lifecycle, TLAPS

\* The steps of a command that only an installation takes, in order.
Saving == {"write", "writing", "protect", "rename"}
Saved ==
  {"protect again", "copy", "copying", "prepare", "registering", "reload", "enable"}
Stopping == {"stop", "stopped", "start"}
Uninstalling == {"remove unit", "unload", "remove script", "remove binary", "remove config"}
Removing == {"forget"} \union Uninstalling
Steps ==
  {"none", "deploy", "deploying", "begin"}
    \union Saving \union Saved \union Stopping \union Removing

\* What the variables hold.
CommandRecords ==
  [name : Commands \union {"none"}, step : Steps,
   config : Configurations \union {Absent}, outside : BOOLEAN, failed : BOOLEAN]
FileRecords ==
  [config : Configurations \union {Absent, Torn},
   temporary : Configurations \union {Absent, Torn},
   binary : {Absent, Torn, Whole},
   unit : Configurations \union {Absent, Torn},
   script : Configurations \union {Absent, Torn}]
ServiceRecords ==
  [stage : {"none", "up", "failed"}, args : Configurations \union {Absent},
   program : {"installed", "removed"}]

\* A command is one of the four on one of its own steps, and has not reported.
CommandInv ==
  /\ command \in CommandRecords
  /\ command.step = "none" => command = NoCommand
  /\ command.name = "none" => command = NoCommand
  /\ command # NoCommand => last = "none"
  /\ command.name = "install" => command.config \in Configurations
  /\ command.step \in Saving \union Saved => command.name = "install"
  /\ command.step = "start" => command.name \in {"install", "restart"}
  /\ command.step \in Removing => command.name \in {"disable", "uninstall"}
  /\ command.step \in Uninstalling => command.name = "uninstall"

\* The file that is renamed is whole and private.
ConfigInv ==
  /\ command.step \in {"protect", "rename"} => files.temporary = command.config
  /\ command.step = "rename" => "temporary" \in private

\* Once it is stopped the service stays so until the command starts it; what is
\* disabled and removed stays so too, as long as nothing has failed.
StopInv ==
  ~command.failed =>
    /\ command.step \in {"stopped", "start"} \union Removing => service = NoService
    /\ command.step \in Uninstalling => ~enabled
    /\ command.step \in Uninstalling \ {"remove unit"} => files.unit = Absent
    /\ command.step \in Uninstalling \ {"remove unit", "unload"} => loaded = Absent
    /\ command.step \in {"remove binary", "remove config"} => files.script = Absent
    /\ command.step = "remove config" => files.binary = Absent

\* Under systemd a service that is there has no predecessor that drains.
DrainInv ==
  initSystem = "systemd" =>
    /\ service.stage # "none" => Idle
    /\ command.step = "start" => Idle

\* What the manager starts is what the configuration says.
Registered ==
  IF initSystem = "systemd" THEN files.unit = files.config /\ loaded = files.config
  ELSE files.script = files.config

\* So it is unless an installation or a removal has begun to change it, and
\* again from the step on that completes an installation.
Undisturbed ==
  command.name \in {"install", "uninstall"} => command.step \in Early
AgreementInv ==
  /\ agreement # "broken" /\ Undisturbed =>
       /\ Registered
       /\ agreement = "whole" /\ service.stage = "up" => service.args = files.config
  /\ command.step \in Saved => files.config = command.config
  /\ command.step = "reload" => files.unit = files.config /\ initSystem = "systemd"
  /\ command.step = "enable" => Registered \/ (command.failed /\ initSystem = "systemd")
  /\ command.name = "install" /\ command.step \in Stopping =>
       Registered /\ initSystem # "systemd"
  /\ initSystem # "systemd" => service.stage # "failed"

IInv ==
  /\ TypeOK
  /\ CommandInv
  /\ ConfigIsWhole
  /\ ConfigIsPrivate
  /\ ConfigInv
  /\ StopInv
  /\ StaysAway
  /\ DrainInv
  /\ AgreementInv

\* What an installation leaves for the next start of the service: a whole program
\* and a configuration, enabled; and what stays so once it has reported.
Registering == {"prepare", "registering", "reload", "enable"}
StartInv ==
  /\ command.step \in {"deploy", "deploying", "copying"} => command.outside
  /\ command.name = "install" =>
       /\ command.outside \/ files.binary = Whole
       /\ command.step \in Saving \union Saved => command.config \in Configurations
       /\ command.step \in Registering \union Stopping => files.binary = Whole
       /\ command.step \in Stopping => StartsWith \in Configurations /\ (enabled \/ command.failed)
  /\ last = "installed" =>
       /\ enabled
       /\ files.binary = Whole
       /\ StartsWith \in Configurations
       /\ initSystem = "systemd" => files.unit = loaded
       /\ \/ service.stage = "up"
          \/ service.stage = "failed" /\ initSystem = "systemd"
          \/ NeedsTerminal(StartsWith)

-----------------------------------------------------------------------------
(* Lemmas.                                                                 *)

\* The names of configurations are not those of the states of a file.
LEMMA Names ==
  /\ Absent \notin Configurations /\ Torn \notin Configurations
  /\ Whole \notin Configurations
  /\ Absent # Torn /\ Absent # Whole /\ Torn # Whole
BY LifecycleAssumption DEF Absent, Torn, Whole

\* What a start makes: a service that is up has a whole program.
LEMMA StartedService ==
  ASSUME NEW args \in Configurations \union {Absent, Torn}
  PROVE  /\ Started(args) \in ServiceRecords
         /\ Started(args).program = "installed"
         /\ Started(args).stage = "up" => files.binary = Whole /\ Started(args).args = args
         /\ Started(args).stage = "none" => Started(args) = NoService
         /\ Started(args).stage = "failed" => initSystem = "systemd"
BY DEF Started, Stays, NoService, Absent, ServiceRecords

\* The steps of a command, and the variables a step does not change.
CommandSteps1 ==
  \/ Deploy \/ Deployed \/ Begin \/ StartWriting \/ FinishWriting \/ ProtectTemporary
  \/ Rename \/ ProtectConfig \/ CopyBinary \/ FinishCopying \/ StartRegistering \/ Register
CommandSteps2 ==
  \/ DaemonReload \/ Enable \/ Stop \/ NotStopped \/ Stopped \/ Start \/ Disable
  \/ RemoveUnit \/ Unload \/ RemoveScript \/ RemoveBinary \/ RemoveConfig
Mishap ==
  \/ DeployFails \/ RegisterFails \/ StepFails \/ StepIgnored
  \/ Kill \/ Reboot \/ ServiceDies

LEMMA Frame ==
  ASSUME [Next]_vars
  PROVE  /\ UNCHANGED initSystem
         /\ \/ UNCHANGED service
            \/ Enable \/ Stop \/ Start \/ RemoveBinary \/ Reboot \/ ServiceDies
            \/ RestartOnFailure
         /\ UNCHANGED draining \/ Stop \/ RemoveBinary \/ Reboot \/ Drained
         /\ UNCHANGED loaded \/ DaemonReload \/ Unload \/ Reboot
         /\ UNCHANGED enabled \/ Enable \/ Disable
         /\ \/ UNCHANGED private
            \/ ProtectTemporary \/ Rename \/ ProtectConfig \/ RemoveConfig
         /\ \/ UNCHANGED files
            \/ Deploy \/ Deployed \/ StartWriting \/ FinishWriting \/ Rename \/ CopyBinary
            \/ FinishCopying \/ StartRegistering \/ Register
            \/ RemoveUnit \/ RemoveScript \/ RemoveBinary \/ RemoveConfig
         /\ commands' = commands \/ (commands < MaxCommands /\ commands' = commands + 1)
         /\ mishaps' = mishaps \/ (mishaps < MaxMishaps /\ mishaps' = mishaps + 1)
<1> DEFINE Framed ==
         /\ UNCHANGED initSystem
         /\ \/ UNCHANGED service
            \/ Enable \/ Stop \/ Start \/ RemoveBinary \/ Reboot \/ ServiceDies
            \/ RestartOnFailure
         /\ UNCHANGED draining \/ Stop \/ RemoveBinary \/ Reboot \/ Drained
         /\ UNCHANGED loaded \/ DaemonReload \/ Unload \/ Reboot
         /\ UNCHANGED enabled \/ Enable \/ Disable
         /\ \/ UNCHANGED private
            \/ ProtectTemporary \/ Rename \/ ProtectConfig \/ RemoveConfig
         /\ \/ UNCHANGED files
            \/ Deploy \/ Deployed \/ StartWriting \/ FinishWriting \/ Rename \/ CopyBinary
            \/ FinishCopying \/ StartRegistering \/ Register
            \/ RemoveUnit \/ RemoveScript \/ RemoveBinary \/ RemoveConfig
         /\ commands' = commands \/ (commands < MaxCommands /\ commands' = commands + 1)
         /\ mishaps' = mishaps \/ (mishaps < MaxMishaps /\ mishaps' = mishaps + 1)
<1> USE DEF fileVars, managerVars, historyVars, boundVars
<1>1. CASE CommandSteps1
  <2>1. /\ UNCHANGED <<initSystem, service, draining, loaded, enabled, commands, mishaps>>
        /\ UNCHANGED private \/ ProtectTemporary \/ Rename \/ ProtectConfig
        /\ \/ UNCHANGED files
           \/ Deploy \/ Deployed \/ StartWriting \/ FinishWriting \/ Rename \/ CopyBinary
           \/ FinishCopying \/ StartRegistering \/ Register
    BY <1>1 DEF CommandSteps1, Deploy, Deployed, Begin, StartWriting, FinishWriting,
         ProtectTemporary, Rename, ProtectConfig, CopyBinary, FinishCopying, StartRegistering,
         Register
  <2>2. QED
    BY <2>1
<1>2. CASE CommandSteps2
  <2>1. UNCHANGED <<initSystem, commands, mishaps>>
    BY <1>2 DEF CommandSteps2, DaemonReload, Enable, Stop, NotStopped, Stopped, Start, Disable,
         RemoveUnit, Unload, RemoveScript, RemoveBinary, RemoveConfig
  <2>2. /\ UNCHANGED service \/ Enable \/ Stop \/ Start \/ RemoveBinary
        /\ UNCHANGED draining \/ Stop \/ RemoveBinary
        /\ UNCHANGED loaded \/ DaemonReload \/ Unload
        /\ UNCHANGED enabled \/ Enable \/ Disable
        /\ UNCHANGED private \/ RemoveConfig
        /\ UNCHANGED files \/ RemoveUnit \/ RemoveScript \/ RemoveBinary \/ RemoveConfig
    BY <1>2 DEF CommandSteps2, DaemonReload, Enable, Stop, NotStopped, Stopped, Start, Disable,
         RemoveUnit, Unload, RemoveScript, RemoveBinary, RemoveConfig
  <2>3. QED
    BY <2>1, <2>2
<1>3. CASE Mishap
  <2>1. /\ UNCHANGED <<initSystem, enabled, private, files, commands>>
        /\ UNCHANGED <<service, draining, loaded>> \/ Reboot \/ ServiceDies
        /\ UNCHANGED draining \/ Reboot
        /\ UNCHANGED loaded \/ Reboot
        /\ mishaps < MaxMishaps /\ mishaps' = mishaps + 1
    BY <1>3 DEF Mishap, DeployFails, RegisterFails, StepFails, StepIgnored, Kill, Reboot,
         ServiceDies
  <2>2. QED
    BY <2>1
<1>4. ASSUME NEW name, NEW c, NEW outside, StartCommand(name, c, outside)
      PROVE  Framed
  BY <1>4 DEF StartCommand
<1>5. CASE RestartOnFailure \/ Drained \/ UNCHANGED vars
  BY <1>5 DEF RestartOnFailure, Drained, vars
<1>6. Framed
  BY <1>1, <1>2, <1>3, <1>4, <1>5 DEF Next, CommandStep, CommandSteps1, CommandSteps2, Mishap
<1>7. QED
  BY <1>6

\* A command goes on to another step, with what failed so far.
GoesTo(s) == Goto(s) \/ GoOnWithout(s)

\* A command that goes on is the same command on another step.
LEMMA GoesOn ==
  ASSUME CommandInv, command.step # "none", UNCHANGED last,
         NEW s \in Steps \ {"none"}, GoesTo(s),
         s \in Saving \union Saved => command.name = "install",
         s = "start" => command.name \in {"install", "restart"},
         s \in Removing => command.name \in {"disable", "uninstall"},
         s \in Uninstalling => command.name = "uninstall"
  PROVE  /\ CommandInv'
         /\ command'.step = s
         /\ command'.name = command.name /\ command'.config = command.config
<1>1. /\ command \in CommandRecords
      /\ \/ command' = [command EXCEPT !.step = s]
         \/ command' = [command EXCEPT !.step = s, !.failed = TRUE]
  BY DEF CommandInv, Goto, GoOnWithout, GoesTo
<1>2. /\ command' \in CommandRecords
      /\ command'.step = s
      /\ command'.name = command.name /\ command'.config = command.config
  BY <1>1 DEF CommandRecords
<1>3. command # NoCommand /\ last' = "none" /\ command.name # "none"
  BY DEF CommandInv, NoCommand
<1>4. QED
  BY <1>2, <1>3 DEF CommandInv

\* Where it has got to, and what stays of it.
LEMMA Goes ==
  ASSUME command \in CommandRecords, NEW s
  PROVE  /\ GoesTo(s) => /\ command'.step = s /\ command'.name = command.name
                         /\ command'.config = command.config
                         /\ command'.outside = command.outside
                         /\ command.failed => command'.failed
         /\ Goto(s) => command'.failed = command.failed
         /\ GoOnWithout(s) => command'.failed
BY DEF CommandRecords, GoesTo, Goto, GoOnWithout

\* A command that has ended is none.
LEMMA Ends ==
  ASSUME command' = NoCommand
  PROVE  CommandInv' /\ command'.step = "none" /\ command'.name = "none" /\ ~command'.failed
BY DEF CommandInv, NoCommand, Steps, Saving, Saved, Removing, Uninstalling, CommandRecords

\* The invariant holds of a machine without ReqLens.
LEMMA InvInit == Init => IInv
<1> SUFFICES ASSUME Init PROVE IInv
  OBVIOUS
<1>1. TypeOK
  <2>1. /\ service.stage = "none" /\ command.name = "none" /\ service \in ServiceRecords
    BY DEF Init, NoService, NoCommand, ServiceRecords
  <2>2. files \in FileRecords /\ draining \in [installed : Nat, removed : Nat]
    BY DEF Init, FileRecords
  <2>3. 0 \in 0 .. MaxCommands /\ 0 \in 0 .. MaxMishaps
    BY LifecycleAssumption
  <2>4. /\ initSystem \in InitSystems /\ private \subseteq {"config", "temporary"}
        /\ loaded \in Configurations \union {Absent, Torn} /\ enabled \in BOOLEAN
        /\ agreement \in {"whole", "stale", "broken"} /\ commands = 0 /\ mishaps = 0
    BY DEF Init
  <2>5. QED
    BY <2>1, <2>2, <2>3, <2>4 DEF TypeOK, FileRecords, ServiceRecords
<1>2. CommandInv /\ command.step = "none" /\ command.name = "none"
  BY DEF Init, CommandInv, NoCommand, Steps, Saving, Saved, Removing, Uninstalling,
         CommandRecords
<1>3. ConfigIsWhole /\ ConfigIsPrivate /\ ConfigInv
  BY <1>2, Names DEF Init, ConfigIsWhole, ConfigIsPrivate, ConfigInv
<1>4. StopInv /\ StaysAway
  BY <1>2 DEF Init, StopInv, StaysAway, Removing, Uninstalling
<1>5. DrainInv
  BY <1>2 DEF Init, DrainInv, Idle
<1>6. AgreementInv
  BY <1>2 DEF Init, AgreementInv, Registered, Undisturbed, Saved, Stopping, NoService
<1>7. QED
  BY <1>1, <1>2, <1>3, <1>4, <1>5, <1>6 DEF IInv

\* A step of a command ends it or goes on to a step that is one of its own.
OwnStep(s) ==
  /\ s \in Steps \ {"none"} /\ GoesTo(s) /\ UNCHANGED last
  /\ s \in Saving \union Saved => command.name = "install"
  /\ s = "start" => command.name \in {"install", "restart"}
  /\ s \in Removing => command.name \in {"disable", "uninstall"}
  /\ s \in Uninstalling => command.name = "uninstall"
OwnMove == command' = NoCommand \/ \E s \in Steps : OwnStep(s)

LEMMA StepsOfCommand ==
  ASSUME CommandInv,
         CommandStep \/ DeployFails \/ RegisterFails \/ StepIgnored
  PROVE  /\ command.step # "none"
         /\ OwnMove
<1> USE DEF At, historyVars
<1>n. command.step # "none"
  BY DEF CommandStep, Deploy, Deployed, Begin, StartWriting, WriteTemporary, FinishWriting,
       ProtectTemporary, Rename, ProtectConfig, CopyBinary, FinishCopying, StartRegistering,
       Register, DaemonReload, Enable, Stop, NotStopped, Stopped, Start, Disable, RemoveUnit,
       Unload, RemoveScript, RemoveBinary, RemoveConfig, DeployFails, RegisterFails,
       StepIgnored, Dropping
<1> SUFFICES OwnMove
  BY <1>n
<1>0. /\ command.step \in Steps
      /\ command.step \in Saving \union Saved => command.name = "install"
      /\ command.step = "start" => command.name \in {"install", "restart"}
      /\ command.step \in Removing => command.name \in {"disable", "uninstall"}
      /\ command.step \in Uninstalling => command.name = "uninstall"
      /\ command.step # "none" =>
           command.name \in {"install", "restart", "disable", "uninstall"}
  BY DEF CommandInv, CommandRecords, Commands, NoCommand
<1>s. ASSUME NEW s \in Steps \ {"none"}, Goto(s) \/ GoOnWithout(s), UNCHANGED last,
             s \in Saving \union Saved => command.name = "install",
             s = "start" => command.name \in {"install", "restart"},
             s \in Removing => command.name \in {"disable", "uninstall"},
             s \in Uninstalling => command.name = "uninstall"
      PROVE  OwnMove
  BY <1>s DEF OwnStep, OwnMove, GoesTo
<1> USE DEF Steps, Saving, Saved, Stopping, Removing, Uninstalling
<1>1. CASE Deploy
  <2>1. (Goto("begin") \/ Goto("deploying")) /\ UNCHANGED last
    BY <1>1 DEF Deploy
  <2>2. QED BY <2>1, <1>s
<1>2. CASE Deployed BY <1>2, <1>s DEF Deployed
<1>3. CASE Begin
  <2>1. CASE command' = NoCommand BY <2>1 DEF OwnMove
  <2>2. CASE Goto("stop") /\ UNCHANGED last BY <2>2, <1>s
  <2>3. CASE Goto("write") /\ UNCHANGED last /\ command.name = "install" BY <2>3, <1>s
  <2>4. QED BY <1>3, <2>1, <2>2, <2>3 DEF Begin, Fail
<1>4. CASE StartWriting BY <1>0, <1>4, <1>s DEF StartWriting, WriteTemporary
<1>5. CASE FinishWriting BY <1>0, <1>5, <1>s DEF FinishWriting
<1>6. CASE ProtectTemporary BY <1>0, <1>6, <1>s DEF ProtectTemporary
<1>7. CASE Rename BY <1>0, <1>7, <1>s DEF Rename
<1>8. CASE ProtectConfig BY <1>0, <1>8, <1>s DEF ProtectConfig
<1>9. CASE CopyBinary
  <2>1. CASE command' = NoCommand BY <2>1 DEF OwnMove
  <2>2. CASE (Goto("prepare") \/ Goto("copying")) /\ UNCHANGED last /\ At("copy")
    <3>1. command.name = "install" BY <1>0, <2>2
    <3>2. CASE Goto("prepare") BY <2>2, <3>1, <3>2, <1>s
    <3>3. CASE Goto("copying") BY <2>2, <3>1, <3>3, <1>s
    <3>4. QED BY <2>2, <3>2, <3>3
  <2>3. QED BY <1>9, <2>1, <2>2 DEF CopyBinary, Fail
<1>10. CASE FinishCopying BY <1>0, <1>10, <1>s DEF FinishCopying
<1>11. CASE StartRegistering BY <1>0, <1>11, <1>s DEF StartRegistering
<1>12. CASE Register
  <2>1. CASE command' = NoCommand BY <2>1 DEF OwnMove
  <2>2. CASE (Goto("reload") \/ Goto("enable")) /\ UNCHANGED last /\ At("registering")
    <3>1. command.name = "install" BY <1>0, <2>2
    <3>2. CASE Goto("reload") BY <2>2, <3>1, <3>2, <1>s
    <3>3. CASE Goto("enable") BY <2>2, <3>1, <3>3, <1>s
    <3>4. QED BY <2>2, <3>2, <3>3
  <2>3. QED BY <1>12, <2>1, <2>2 DEF Register, Succeed, End
<1>13. CASE DaemonReload BY <1>0, <1>13, <1>s DEF DaemonReload
<1>14. CASE Enable
  <2>1. CASE command' = NoCommand BY <2>1 DEF OwnMove
  <2>2. CASE Goto("stop") /\ UNCHANGED last BY <2>2, <1>s
  <2>3. QED BY <1>14, <2>1, <2>2 DEF Enable, Succeed, End
<1>15. CASE Stop BY <1>0, <1>15, <1>s DEF Stop
<1>16. CASE NotStopped
  <2>1. CASE command' = NoCommand BY <2>1 DEF OwnMove
  <2>2. CASE /\ Goto("forget") \/ GoOnWithout("forget")
             /\ UNCHANGED last /\ command.name \in {"disable", "uninstall"}
    BY <2>2, <1>s
  <2>3. QED BY <1>16, <2>1, <2>2 DEF NotStopped, Fail
<1>17. CASE Stopped
  <2>1. CASE command.name \in {"install", "restart"}
    BY <1>17, <1>s, <2>1 DEF Stopped
  <2>2. CASE command.name \in {"disable", "uninstall"}
    BY <1>17, <1>s, <2>2 DEF Stopped
  <2>3. command.name \in {"install", "restart", "disable", "uninstall"}
    BY <1>0, <1>17 DEF Stopped
  <2>4. QED BY <2>1, <2>2, <2>3
<1>18. CASE Start BY <1>18 DEF Start, Succeed, End, OwnMove
<1>19. CASE Disable
  <2>1. CASE command' = NoCommand BY <2>1 DEF OwnMove
  <2>2. CASE Goto("remove unit") /\ UNCHANGED last /\ At("forget") /\ command.name # "disable"
    <3>1. command.name = "uninstall" BY <1>0, <2>2
    <3>2. QED BY <2>2, <3>1, <1>s
  <2>3. QED BY <1>19, <2>1, <2>2 DEF Disable, Succeed, End
<1>20. CASE RemoveUnit BY <1>0, <1>20, <1>s DEF RemoveUnit
<1>21. CASE Unload BY <1>0, <1>21, <1>s DEF Unload
<1>22. CASE RemoveScript BY <1>0, <1>22, <1>s DEF RemoveScript
<1>23. CASE RemoveBinary BY <1>0, <1>23, <1>s DEF RemoveBinary
<1>24. CASE RemoveConfig BY <1>24 DEF RemoveConfig, Succeed, End, OwnMove
<1>25. CASE DeployFails BY <1>25, <1>s DEF DeployFails
<1>26. CASE RegisterFails
  <2>1. CASE command' = NoCommand BY <2>1 DEF OwnMove
  <2>2. CASE GoOnWithout("prepare") /\ UNCHANGED last
    <3>1. command.name = "install" BY <1>0, <1>26 DEF RegisterFails
    <3>2. QED BY <2>2, <3>1, <1>s
  <2>3. QED BY <1>26, <2>1, <2>2 DEF RegisterFails
<1>27. CASE StepIgnored
  <2>1. CASE command' = NoCommand BY <2>1 DEF OwnMove
  <2>2. CASE /\ GoOnWithout(StepAfter) /\ UNCHANGED last /\ ~IsLast
             /\ command.step \in Dropping /\ ~(At("stop") /\ command.name = "restart")
    <3>1. CASE At("reload") BY <1>0, <1>s, <2>2, <3>1 DEF StepAfter
    <3>2. CASE At("enable") BY <1>0, <1>s, <2>2, <3>2 DEF StepAfter
    <3>3. CASE At("stop")
      <4>1. command.name \in {"disable", "uninstall"}
        BY <1>0, <2>2, <3>3 DEF IsLast
      <4>2. QED BY <1>s, <2>2, <3>3, <4>1 DEF StepAfter
    <3>4. CASE At("forget")
      <4>1. command.name = "uninstall"
        BY <1>0, <2>2, <3>4 DEF IsLast
      <4>2. QED BY <1>s, <2>2, <3>4, <4>1 DEF StepAfter
    <3>5. CASE At("remove unit") BY <1>0, <1>s, <2>2, <3>5 DEF StepAfter
    <3>6. CASE At("unload") BY <1>0, <1>s, <2>2, <3>6 DEF StepAfter
    <3>7. CASE At("remove script") BY <1>0, <1>s, <2>2, <3>7 DEF StepAfter
    <3>8. CASE At("remove binary") BY <1>0, <1>s, <2>2, <3>8 DEF StepAfter
    <3>9. QED
      BY <2>2, <3>1, <3>2, <3>3, <3>4, <3>5, <3>6, <3>7, <3>8 DEF Dropping, IsLast
  <2>3. QED BY <1>27, <2>1, <2>2 DEF StepIgnored, End, Fail
<1>28. QED
  BY <1>1, <1>2, <1>3, <1>4, <1>5, <1>6, <1>7, <1>8, <1>9, <1>10, <1>11, <1>12, <1>13, <1>14,
     <1>15, <1>16, <1>17, <1>18, <1>19, <1>20, <1>21, <1>22, <1>23, <1>24, <1>25, <1>26, <1>27
     DEF CommandStep

\* No step takes a command where it does not belong, and none reports too early.
LEMMA CommandInductive == CommandInv /\ [Next]_vars => CommandInv'
<1> SUFFICES ASSUME CommandInv, [Next]_vars PROVE CommandInv'
  OBVIOUS
<1>1. ASSUME NEW name \in Commands, NEW c \in Configurations \union {Absent},
             NEW outside \in BOOLEAN, StartCommand(name, c, outside),
             name = "install" => c \in Configurations
      PROVE  CommandInv'
  BY <1>1 DEF StartCommand, CommandInv, Commands, Steps, Saving, Saved, Removing,
              Uninstalling, NoCommand, CommandRecords
<1>2. CASE CommandStep \/ DeployFails \/ RegisterFails \/ StepIgnored
  <2>1. CASE command' = NoCommand
    BY <2>1, Ends
  <2>2. CASE \E s \in Steps : OwnStep(s)
    <3>1. PICK s \in Steps : OwnStep(s)
      BY <2>2
    <3>2. QED
      BY <1>2, <3>1, StepsOfCommand, GoesOn DEF OwnStep
  <2>3. QED
    BY <1>2, <2>1, <2>2, StepsOfCommand DEF OwnMove
<1>3. CASE StepFails \/ Kill
  BY <1>3, Ends DEF StepFails, Kill, Fail
<1>4. CASE Reboot
  BY <1>4, Ends DEF Reboot, Fail, CommandInv
<1>5. CASE ServiceDies \/ RestartOnFailure \/ Drained \/ UNCHANGED vars
  BY <1>5 DEF ServiceDies, RestartOnFailure, Drained, vars, historyVars, CommandInv
<1>6. QED
  BY <1>1, <1>2, <1>3, <1>4, <1>5 DEF Next, Commands

\* What is stopped, disabled or removed stays so while the command goes on.
LEMMA StopInductive == TypeOK /\ CommandInv /\ StopInv /\ [Next]_vars => StopInv'
<1> SUFFICES ASSUME TypeOK, CommandInv, StopInv, [Next]_vars PROVE StopInv'
  OBVIOUS
<1> USE DEF At, fileVars, managerVars, historyVars, boundVars, Removing, Uninstalling
<1>a. /\ command \in CommandRecords /\ files \in FileRecords
      /\ command' \in CommandRecords /\ NoService.stage = "none"
  BY CommandInductive DEF CommandInv, TypeOK, FileRecords, NoService
<1>0. CASE command'.failed
  BY <1>0 DEF StopInv
<1>1. CASE command' = NoCommand
  BY <1>1 DEF NoCommand, StopInv
\* A step before the service is stopped.
<1>b. ASSUME NEW s, GoesTo(s), s \notin {"stopped", "start"} \union Removing
      PROVE  StopInv'
  BY <1>a, <1>b, Goes DEF StopInv
<1>2. CASE CommandSteps1
  <2>1. \/ command' = NoCommand
        \/ \E s \in {"begin", "deploying", "stop", "write", "writing", "protect", "rename",
                     "protect again", "copy", "prepare", "copying", "registering", "reload",
                     "enable"} : GoesTo(s)
    <3> USE DEF GoesTo
    <3>1. CASE Deploy \/ Deployed \/ Begin \/ StartWriting \/ FinishWriting
      BY <3>1 DEF Deploy, Deployed, Begin, StartWriting, WriteTemporary, FinishWriting, Fail
    <3>2. CASE ProtectTemporary \/ Rename \/ ProtectConfig \/ CopyBinary \/ FinishCopying
      BY <3>2 DEF ProtectTemporary, Rename, ProtectConfig, CopyBinary, FinishCopying, Fail
    <3>3. CASE StartRegistering \/ Register
      BY <3>3 DEF StartRegistering, Register, Succeed, End
    <3>4. QED
      BY <1>2, <3>1, <3>2, <3>3 DEF CommandSteps1
  <2>2. QED
    BY <1>1, <1>b, <2>1
<1>3. CASE CommandSteps2 /\ ~command'.failed /\ command' # NoCommand
  <2>0. ASSUME NEW s, GoesTo(s) PROVE command'.step = s /\ ~command.failed
    BY <1>3, <1>a, <2>0, Goes
  <2>1. CASE DaemonReload
    BY <2>1, <1>b DEF DaemonReload, GoesTo
  <2>2. CASE Enable
    BY <2>2, <1>1, <1>b DEF Enable, Succeed, End, GoesTo
  <2>3. CASE Stop
    <3>1. GoesTo("stopped") /\ service' = NoService
      BY <2>3 DEF Stop, GoesTo
    <3>2. command'.step = "stopped" BY <2>0, <3>1
    <3>3. QED BY <3>1, <3>2 DEF StopInv
  <2>4. CASE NotStopped
    <3>1. Goto("forget") /\ service = NoService /\ UNCHANGED service
      BY <1>3, <1>a, <2>4, Goes DEF NotStopped, Fail
    <3>2. command'.step = "forget" BY <2>0, <3>1 DEF GoesTo
    <3>3. QED BY <3>1, <3>2 DEF StopInv
  <2>5. CASE Stopped
    <3>1. /\ \E s \in {"start", "forget"} : GoesTo(s)
          /\ UNCHANGED service /\ command.step = "stopped"
      BY <2>5 DEF Stopped, GoesTo
    <3>2. command'.step \in {"start", "forget"} /\ ~command.failed BY <2>0, <3>1
    <3>3. QED BY <3>1, <3>2 DEF StopInv
  <2>6. CASE Start
    BY <2>6, <1>3 DEF Start, Succeed, End
  <2>7. CASE Disable
    <3>1. /\ GoesTo("remove unit") /\ UNCHANGED service /\ ~enabled'
          /\ command.step = "forget"
      BY <1>3, <2>7 DEF Disable, Disabled, Succeed, End, GoesTo
    <3>2. command'.step = "remove unit" /\ ~command.failed BY <2>0, <3>1
    <3>3. QED BY <3>1, <3>2 DEF StopInv
  <2>8. CASE RemoveUnit
    <3>1. /\ GoesTo("unload") /\ UNCHANGED <<service, enabled>> /\ files'.unit = Absent
          /\ command.step = "remove unit"
      BY <2>8, <1>a DEF RemoveUnit, GoesTo, FileRecords
    <3>2. command'.step = "unload" /\ ~command.failed BY <2>0, <3>1
    <3>3. QED BY <3>1, <3>2 DEF StopInv
  <2>9. CASE Unload
    <3>1. /\ GoesTo("remove script") /\ UNCHANGED <<service, enabled, files>>
          /\ loaded' = files.unit /\ command.step = "unload"
      BY <2>9 DEF Unload, GoesTo
    <3>2. command'.step = "remove script" /\ ~command.failed BY <2>0, <3>1
    <3>3. QED BY <3>1, <3>2 DEF StopInv
  <2>10. CASE RemoveScript
    <3>1. /\ GoesTo("remove binary") /\ UNCHANGED <<service, enabled, loaded>>
          /\ files'.unit = files.unit /\ files'.script = Absent
          /\ command.step = "remove script"
      BY <2>10, <1>a DEF RemoveScript, GoesTo, FileRecords
    <3>2. command'.step = "remove binary" /\ ~command.failed BY <2>0, <3>1
    <3>3. QED BY <3>1, <3>2 DEF StopInv
  <2>11. CASE RemoveBinary
    <3>1. /\ GoesTo("remove config") /\ UNCHANGED <<enabled, loaded>>
          /\ files'.unit = files.unit /\ files'.script = files.script /\ files'.binary = Absent
          /\ command.step = "remove binary"
      BY <2>11, <1>a DEF RemoveBinary, GoesTo, FileRecords
    <3>2. service = NoService => service' = NoService
      BY <1>a, <2>11 DEF RemoveBinary
    <3>3. command'.step = "remove config" /\ ~command.failed BY <2>0, <3>1
    <3>4. QED BY <3>1, <3>2, <3>3 DEF StopInv
  <2>12. CASE RemoveConfig
    BY <2>12, <1>3 DEF RemoveConfig, Succeed, End
  <2>13. QED
    BY <1>3, <2>1, <2>2, <2>3, <2>4, <2>5, <2>6, <2>7, <2>8, <2>9, <2>10, <2>11, <2>12
       DEF CommandSteps2
<1>4. ASSUME NEW name, NEW c, NEW outside, StartCommand(name, c, outside)
      PROVE  StopInv'
  BY <1>4 DEF StartCommand, StopInv
<1>5. CASE DeployFails \/ RegisterFails \/ StepIgnored
  <2>1. CASE DeployFails
    BY <2>1, <1>b DEF DeployFails, GoesTo
  <2>2. CASE RegisterFails
    BY <2>2, <1>0, <1>1, <1>a, Goes DEF RegisterFails
  <2>3. CASE StepIgnored
    BY <2>3, <1>0, <1>1, <1>a, Goes DEF StepIgnored, End, Fail
  <2>4. QED
    BY <1>5, <2>1, <2>2, <2>3
<1>6. CASE UNCHANGED command
  <2>1. CASE Reboot BY <1>1, <1>6, <2>1 DEF Reboot, Fail
  <2>2. CASE ServiceDies BY <1>a, <1>6, <2>2 DEF ServiceDies, StopInv
  <2>3. CASE RestartOnFailure
    BY <1>a, <1>6, <2>3 DEF RestartOnFailure, RestartsOnFailure, StopInv
  <2>4. CASE Drained \/ UNCHANGED vars BY <1>6, <2>4 DEF Drained, vars, StopInv
  <2>5. CASE StepFails \/ Kill BY <1>1, <2>5 DEF StepFails, Kill, Fail
  <2>6. QED
    BY <1>0, <1>1, <1>2, <1>3, <1>4, <1>5, <2>1, <2>2, <2>3, <2>4, <2>5
       DEF Next, CommandStep, CommandSteps1, CommandSteps2
<1>7. CASE StepFails \/ Kill \/ Reboot \/ ServiceDies \/ RestartOnFailure \/ Drained
           \/ UNCHANGED vars
  <2>1. command' = NoCommand \/ UNCHANGED command
    BY <1>7 DEF StepFails, Kill, Reboot, Fail, ServiceDies, RestartOnFailure, Drained, vars
  <2>2. QED
    BY <1>1, <1>6, <2>1
<1>8. QED
  BY <1>0, <1>1, <1>2, <1>3, <1>4, <1>5, <1>7
     DEF Next, CommandStep, CommandSteps1, CommandSteps2

\* Types, and that a program that runs is whole: it is busy, so nobody writes it.
LEMMA TypeInductive == TypeOK /\ CommandInv /\ [Next]_vars => TypeOK'
<1> SUFFICES ASSUME TypeOK, CommandInv, [Next]_vars PROVE TypeOK'
  OBVIOUS
<1> USE DEF At, fileVars, managerVars, historyVars, boundVars
<1>a. /\ files \in FileRecords /\ service \in ServiceRecords
      /\ loaded \in Configurations \union {Absent, Torn}
      /\ files.unit \in Configurations \union {Absent, Torn}
      /\ files.script \in Configurations \union {Absent, Torn}
      /\ command.config \in Configurations \union {Absent}
      /\ NoService \in ServiceRecords /\ NoService.stage = "none"
      /\ draining \in [installed : Nat, removed : Nat]
  BY DEF TypeOK, CommandInv, CommandRecords, FileRecords, ServiceRecords, NoService
<1>1. files' \in FileRecords
  <2> USE <1>a DEF FileRecords
  <2>1. CASE Deploy BY <2>1 DEF Deploy
  <2>2. CASE Deployed BY <2>2 DEF Deployed
  <2>3. CASE StartWriting BY <2>3 DEF StartWriting, WriteTemporary
  <2>4. CASE FinishWriting BY <2>4 DEF FinishWriting
  <2>5. CASE Rename BY <2>5 DEF Rename
  <2>6. CASE CopyBinary BY <2>6 DEF CopyBinary
  <2>7. CASE FinishCopying BY <2>7 DEF FinishCopying
  <2>8. CASE StartRegistering BY <2>8 DEF StartRegistering, RegisteredAs
  <2>9. CASE Register BY <2>9 DEF Register, ExecArgs, RegisteredAs
  <2>10. CASE RemoveUnit BY <2>10 DEF RemoveUnit
  <2>11. CASE RemoveScript BY <2>11 DEF RemoveScript
  <2>12. CASE RemoveBinary BY <2>12 DEF RemoveBinary
  <2>13. CASE RemoveConfig BY <2>13 DEF RemoveConfig
  <2>14. CASE UNCHANGED files BY <2>14
  <2>15. QED
    BY <2>1, <2>2, <2>3, <2>4, <2>5, <2>6, <2>7, <2>8, <2>9, <2>10, <2>11, <2>12, <2>13,
       <2>14, Frame
<1>2. service' \in ServiceRecords
  <2>1. CASE Enable BY <1>a, <2>1, StartedService DEF Enable
  <2>2. CASE Stop BY <1>a, <2>2 DEF Stop
  <2>3. CASE Start BY <1>a, <2>3, StartedService DEF Start, StartsWith
  <2>4. CASE RemoveBinary BY <1>a, <2>4 DEF RemoveBinary, ServiceRecords
  <2>5. CASE Reboot BY <1>a, <2>5, StartedService DEF Reboot
  <2>6. CASE ServiceDies BY <1>a, <2>6 DEF ServiceDies, ServiceRecords
  <2>7. CASE RestartOnFailure BY <1>a, <2>7, StartedService DEF RestartOnFailure
  <2>8. CASE UNCHANGED service BY <1>a, <2>8
  <2>9. QED
    BY <2>1, <2>2, <2>3, <2>4, <2>5, <2>6, <2>7, <2>8, Frame
<1>3. draining' \in [installed : Nat, removed : Nat]
  <2>1. CASE Stop BY <1>a, <2>1 DEF Stop, ServiceRecords
  <2>2. CASE RemoveBinary
    <3>1. /\ draining.installed \in Nat /\ draining.removed \in Nat
          /\ draining' = [installed |-> 0, removed |-> draining.removed + draining.installed]
      BY <1>a, <2>2 DEF RemoveBinary
    <3>2. QED BY <3>1
  <2>3. CASE Reboot BY <2>3 DEF Reboot
  <2>4. CASE Drained BY <1>a, <2>4 DEF Drained
  <2>5. CASE UNCHANGED draining BY <1>a, <2>5
  <2>6. QED
    BY <2>1, <2>2, <2>3, <2>4, <2>5, Frame
<1>4. loaded' \in Configurations \union {Absent, Torn}
  <2>1. CASE DaemonReload BY <1>a, <2>1 DEF DaemonReload, Reloaded
  <2>2. CASE Unload BY <1>a, <2>2 DEF Unload
  <2>3. CASE Reboot BY <1>a, <2>3 DEF Reboot
  <2>4. CASE UNCHANGED loaded BY <1>a, <2>4
  <2>5. QED
    BY <2>1, <2>2, <2>3, <2>4, Frame
<1>5. service'.stage = "up" /\ service'.program = "installed" => files'.binary = Whole
  <2> DEFINE Runs == service.stage = "up" /\ service.program = "installed"
             KeepsBinary == files'.binary = files.binary
  <2>a. Runs => files.binary = Whole
    BY DEF TypeOK
  <2>b. CASE KeepsBinary /\ UNCHANGED service
    BY <2>a, <2>b
  <2> USE DEF FileRecords
  <2>1. CASE Deploy
    <3>1. UNCHANGED service /\ (UNCHANGED files \/ ~Busy)
      BY <2>1 DEF Deploy
    <3>2. QED BY <2>b, <3>1 DEF Busy
  <2>2. CASE Deployed \/ FinishCopying
    <3>1. files'.binary = Whole
      BY <1>a, <2>2 DEF Deployed, FinishCopying
    <3>2. QED BY <3>1
  <2>3. CASE StartWriting \/ FinishWriting \/ Rename \/ StartRegistering \/ Register
    <3>1. UNCHANGED service
      BY <2>3 DEF StartWriting, FinishWriting, Rename, StartRegistering, Register
    <3>2. KeepsBinary
      BY <1>a, <2>3 DEF StartWriting, WriteTemporary, FinishWriting, Rename, StartRegistering,
                        Register, RegisteredAs
    <3>3. QED BY <2>b, <3>1, <3>2
  <2>4. CASE CopyBinary
    <3>1. UNCHANGED service /\ (UNCHANGED files \/ ~Busy)
      BY <2>4 DEF CopyBinary
    <3>2. QED BY <2>b, <3>1 DEF Busy
  <2>5. CASE RemoveUnit \/ RemoveScript \/ RemoveConfig
    <3>1. KeepsBinary /\ UNCHANGED service
      BY <1>a, <2>5 DEF RemoveUnit, RemoveScript, RemoveConfig
    <3>2. QED BY <2>b, <3>1
  <2>6. CASE RemoveBinary
    <3>1. service'.stage = "up" => service'.program = "removed"
      BY <1>a, <2>6 DEF RemoveBinary, ServiceRecords
    <3>2. QED BY <3>1
  <2>7. CASE UNCHANGED files
    <3>1. CASE Enable BY <1>a, <2>a, <2>7, <3>1, StartedService DEF Enable
    <3>2. CASE Stop BY <1>a, <3>2 DEF Stop
    <3>3. CASE Start BY <1>a, <2>7, <3>3, StartedService DEF Start, StartsWith
    <3>4. CASE Reboot BY <1>a, <2>7, <3>4, StartedService DEF Reboot
    <3>5. CASE ServiceDies BY <1>a, <3>5 DEF ServiceDies, ServiceRecords
    <3>6. CASE RestartOnFailure BY <1>a, <2>7, <3>6, StartedService DEF RestartOnFailure
    <3>7. CASE UNCHANGED service BY <2>b, <2>7, <3>7
    <3>8. QED BY <2>6, <3>1, <3>2, <3>3, <3>4, <3>5, <3>6, <3>7, Frame
  <2>8. QED
    BY <2>1, <2>2, <2>3, <2>4, <2>5, <2>6, <2>7, Frame
<1>6. /\ initSystem' \in InitSystems /\ private' \subseteq {"config", "temporary"}
  <2> initSystem \in InitSystems /\ private \subseteq {"config", "temporary"}
    BY DEF TypeOK
  <2>1. CASE ProtectTemporary BY <2>1 DEF ProtectTemporary, Protected
  <2>2. CASE Rename BY <2>2 DEF Rename
  <2>3. CASE ProtectConfig BY <2>3 DEF ProtectConfig
  <2>4. CASE RemoveConfig BY <2>4 DEF RemoveConfig
  <2>5. CASE UNCHANGED private BY <2>5, Frame
  <2>6. QED
    BY <2>1, <2>2, <2>3, <2>4, <2>5, Frame
<1>7. enabled' \in BOOLEAN
  <2>1. CASE Enable BY <2>1 DEF Enable
  <2>2. CASE Disable BY <2>2 DEF Disable, Disabled
  <2>3. CASE UNCHANGED enabled BY <2>3 DEF TypeOK
  <2>4. QED
    BY <2>1, <2>2, <2>3, Frame
<1>8. command'.name \in Commands \union {"none"}
  BY CommandInductive DEF CommandInv, CommandRecords
<1>9. agreement' \in {"whole", "stale", "broken"}
  <2> agreement \in {"whole", "stale", "broken"}
    BY DEF TypeOK
  <2> DEFINE Moved == \/ agreement' = agreement \/ agreement' = CutOff
                      \/ agreement' \in {"whole", "broken"} \/ \E b \in BOOLEAN : agreement' = Agreed(b)
  <2>1. CommandSteps1 => Moved
    BY DEF CommandSteps1, Deploy, Deployed, Begin, StartWriting,
           WriteTemporary, FinishWriting, ProtectTemporary, Rename, ProtectConfig, CopyBinary,
           FinishCopying, StartRegistering, Register, Succeed, End, Fail
  <2>2. CommandSteps2 => Moved
    BY DEF CommandSteps2, DaemonReload, Enable, Stop, NotStopped, Stopped, Start, Disable,
           RemoveUnit, Unload, RemoveScript, RemoveBinary, RemoveConfig, Succeed, End, Fail
  <2>3. Mishap => Moved
    BY DEF Mishap, DeployFails, RegisterFails, StepFails, StepIgnored, Kill, Reboot,
                ServiceDies, End, Fail
  <2>4. Moved
    BY <2>1, <2>2, <2>3
       DEF Next, CommandStep, CommandSteps1, CommandSteps2, Mishap, vars, StartCommand,
           RestartOnFailure, Drained
  <2>5. QED
    BY <2>4 DEF CutOff, Agreed
<1>10. commands' \in 0 .. MaxCommands /\ mishaps' \in 0 .. MaxMishaps
  <2>1. /\ commands \in 0 .. MaxCommands /\ mishaps \in 0 .. MaxMishaps
        /\ MaxCommands \in Nat /\ MaxMishaps \in Nat
    BY LifecycleAssumption DEF TypeOK
  <2>2. QED
    BY <2>1, Frame
<1>11. QED
  BY <1>1, <1>2, <1>3, <1>4, <1>5, <1>6, <1>7, <1>8, <1>9, <1>10
     DEF TypeOK, FileRecords, ServiceRecords

\* The file that replaces config.json is whole and private.
LEMMA ConfigInductive ==
  ASSUME TypeOK, CommandInv, ConfigIsWhole, ConfigIsPrivate, ConfigInv, [Next]_vars
  PROVE  ConfigIsWhole' /\ ConfigIsPrivate' /\ ConfigInv'
<1> USE DEF At, fileVars, managerVars, historyVars, boundVars
<1>1. /\ files \in FileRecords /\ command \in CommandRecords
      /\ command.step \in Saving => command.config \in Configurations
  BY DEF TypeOK, CommandInv, FileRecords
<1>2. CASE /\ files'.config = files.config
           /\ "config" \in private => "config" \in private'
           /\ command'.step \notin {"protect", "rename"}
  BY <1>2 DEF ConfigIsWhole, ConfigIsPrivate, ConfigInv
<1> DEFINE Keeps == files'.config = files.config /\ private' = private
<1>3. ASSUME Keeps,
             \/ command' = NoCommand
             \/ \E s : GoesTo(s) /\ s \notin {"protect", "rename"}
      PROVE  ConfigIsWhole' /\ ConfigIsPrivate' /\ ConfigInv'
  <2>1. command'.step \notin {"protect", "rename"}
    BY <1>1, <1>3, Ends, Goes
  <2>2. QED
    BY <1>2, <1>3, <2>1
<1>4. CASE CommandSteps1
  <2> USE DEF FileRecords
  <2>1. CASE Deploy \/ Deployed \/ StartWriting
    <3>1. Keeps
      BY <1>1, <2>1 DEF Deploy, Deployed, StartWriting, WriteTemporary
    <3>2. \E s \in {"begin", "deploying", "writing"} : GoesTo(s)
      BY <2>1 DEF Deploy, Deployed, StartWriting, WriteTemporary, GoesTo
    <3>3. QED BY <1>3, <3>1, <3>2
  <2>2. CASE Begin
    <3>1. Keeps /\ (command' = NoCommand \/ \E s \in {"stop", "write"} : GoesTo(s))
      BY <2>2 DEF Begin, GoesTo, Fail
    <3>2. QED BY <1>3, <3>1
  <2>3. CASE FinishWriting
    <3>1. Keeps /\ command'.step = "protect" /\ command'.config = command.config
      BY <1>1, <2>3, Goes DEF FinishWriting, GoesTo
    <3>2. files'.temporary = command.config
      BY <1>1, <2>3 DEF FinishWriting
    <3>3. QED BY <3>1, <3>2 DEF ConfigIsWhole, ConfigIsPrivate, ConfigInv
  <2>4. CASE ProtectTemporary
    <3>1. /\ UNCHANGED files /\ command'.step = "rename" /\ command'.config = command.config
          /\ private' = private \union {"temporary"} /\ files.temporary = command.config
      BY <1>1, <2>4, Goes DEF ProtectTemporary, Protected, GoesTo, ConfigInv
    <3>2. QED BY <3>1 DEF ConfigIsWhole, ConfigIsPrivate, ConfigInv
  <2>5. CASE Rename
    <3>1. /\ files.temporary = command.config /\ "temporary" \in private
          /\ command.config \in Configurations
      BY <1>1, <2>5 DEF Rename, ConfigInv, Saving
    <3>2. files'.config = command.config /\ "config" \in private'
      BY <1>1, <3>1, <2>5 DEF Rename
    <3>3. command'.step = "protect again"
      BY <1>1, <2>5, Goes DEF Rename, GoesTo
    <3>4. QED BY <3>1, <3>2, <3>3, Names DEF ConfigIsWhole, ConfigIsPrivate, ConfigInv
  <2>6. CASE ProtectConfig
    <3>1. UNCHANGED files /\ "config" \in private' /\ command'.step = "copy"
      BY <1>1, <2>6, Goes DEF ProtectConfig, GoesTo
    <3>2. QED BY <1>2, <3>1
  <2>7. CASE CopyBinary \/ FinishCopying
    <3>1. Keeps
      BY <1>1, <2>7 DEF CopyBinary, FinishCopying
    <3>2. command' = NoCommand \/ \E s \in {"copying", "prepare"} : GoesTo(s)
      BY <2>7 DEF CopyBinary, FinishCopying, GoesTo, Fail
    <3>3. QED BY <1>3, <3>1, <3>2
  <2>8. CASE StartRegistering \/ Register
    <3>1. Keeps
      BY <1>1, <2>8 DEF StartRegistering, Register, RegisteredAs
    <3>2. command' = NoCommand \/ \E s \in {"registering", "reload", "enable"} : GoesTo(s)
      BY <2>8 DEF StartRegistering, Register, GoesTo, Succeed, End
    <3>3. QED BY <1>3, <3>1, <3>2
  <2>9. QED
    BY <1>4, <2>1, <2>2, <2>3, <2>4, <2>5, <2>6, <2>7, <2>8 DEF CommandSteps1
<1>5. CASE CommandSteps2
  <2> USE DEF FileRecords
  <2>1. CASE RemoveConfig
    <3>1. files'.config = Absent /\ command' = NoCommand
      BY <1>1, <2>1 DEF RemoveConfig, Succeed, End
    <3>2. QED BY <3>1, Names DEF ConfigIsWhole, ConfigIsPrivate, ConfigInv, NoCommand
  <2>2. CASE DaemonReload \/ Enable \/ Stop \/ NotStopped \/ Stopped \/ Start \/ Disable
    <3>1. Keeps
      BY <2>2 DEF DaemonReload, Enable, Stop, NotStopped, Stopped, Start, Disable
    <3>2. \/ command' = NoCommand
          \/ \E s \in {"enable", "stop", "stopped", "start", "forget", "remove unit"} : GoesTo(s)
      BY <2>2 DEF DaemonReload, Enable, Stop, NotStopped, Stopped, Start, Disable, GoesTo,
                  Succeed, End, Fail
    <3>3. QED BY <1>3, <3>1, <3>2
  <2>3. CASE RemoveUnit \/ Unload \/ RemoveScript \/ RemoveBinary
    <3>1. Keeps
      BY <1>1, <2>3 DEF RemoveUnit, Unload, RemoveScript, RemoveBinary
    <3>2. \E s \in {"unload", "remove script", "remove binary", "remove config"} : GoesTo(s)
      BY <2>3 DEF RemoveUnit, Unload, RemoveScript, RemoveBinary, GoesTo
    <3>3. QED BY <1>3, <3>1, <3>2
  <2>4. QED
    BY <1>5, <2>1, <2>2, <2>3 DEF CommandSteps2
<1>6. CASE Mishap
  <2>1. UNCHANGED <<files, private>>
    BY <1>6 DEF Mishap, DeployFails, RegisterFails, StepFails, StepIgnored, Kill, Reboot,
                ServiceDies
  <2>2. CASE ServiceDies \/ (Reboot /\ command = NoCommand)
    <3>1. UNCHANGED command
      BY <2>2 DEF ServiceDies, Reboot
    <3>2. QED
      BY <2>1, <3>1 DEF ConfigIsWhole, ConfigIsPrivate, ConfigInv
  <2>3. CASE StepFails \/ Kill \/ (Reboot /\ command # NoCommand)
    <3>1. command' = NoCommand
      BY <2>3 DEF StepFails, Kill, Reboot, Fail
    <3>2. QED BY <1>3, <2>1, <3>1
  <2>4. CASE DeployFails
    BY <1>3, <2>1, <2>4 DEF DeployFails, GoesTo
  <2>5. CASE RegisterFails
    BY <1>3, <2>1, <2>5 DEF RegisterFails, GoesTo
  <2>6. CASE StepIgnored
    <3>1. command.step \in Dropping => StepAfter \notin {"protect", "rename"} \/ IsLast
      BY DEF Dropping, StepAfter, IsLast
    <3>2. command' = NoCommand \/ (GoesTo(StepAfter) /\ command.step \in Dropping /\ ~IsLast)
      BY <2>6 DEF StepIgnored, End, Fail, GoesTo
    <3>3. QED BY <1>3, <2>1, <3>1, <3>2
  <2>7. QED
    BY <1>6, <2>2, <2>3, <2>4, <2>5, <2>6 DEF Mishap
<1>7. ASSUME NEW name, NEW c, NEW outside, StartCommand(name, c, outside)
      PROVE  ConfigIsWhole' /\ ConfigIsPrivate' /\ ConfigInv'
  <2>1. UNCHANGED <<files, private>> /\ command'.step \in {"deploy", "begin"}
    BY <1>7 DEF StartCommand
  <2>2. QED BY <1>2, <2>1
<1>8. CASE RestartOnFailure \/ Drained \/ UNCHANGED vars
  <2>1. UNCHANGED <<files, private, command>>
    BY <1>8 DEF RestartOnFailure, Drained, vars
  <2>2. QED
    BY <2>1 DEF ConfigIsWhole, ConfigIsPrivate, ConfigInv
<1>9. QED
  BY <1>4, <1>5, <1>6, <1>7, <1>8 DEF Next, CommandStep, CommandSteps1, CommandSteps2, Mishap

\* What is taken away is not there, as long as nothing else is reported.
LEMMA AwayInductive ==
  ASSUME TypeOK, CommandInv, StopInv, StaysAway, [Next]_vars
  PROVE  StaysAway'
<1> USE DEF At, fileVars, managerVars, historyVars, boundVars
<1>1. CASE last' \notin {"disabled", "uninstalled"}
  BY <1>1 DEF StaysAway
<1>2. CASE UNCHANGED <<last, files, enabled, service, loaded>>
  BY <1>2 DEF StaysAway
<1>3. CASE Reboot
  BY <1>1, <1>3 DEF Reboot, Fail, StaysAway
<1>4. CASE RestartOnFailure
  BY <1>4 DEF RestartOnFailure, RestartsOnFailure, StaysAway, NoService
<1>5. CASE ServiceDies
  BY <1>5 DEF ServiceDies, StaysAway, NoService
\* A command that goes on has not reported yet; what one that failed has done is not said.
<1>a. ASSUME command.step # "none", UNCHANGED last
      PROVE  StaysAway'
  BY <1>1, <1>a DEF CommandInv, NoCommand
<1>6. CASE CommandStep \/ DeployFails \/ RegisterFails \/ StepIgnored
  <2>0. command.step # "none"
    BY <1>6, StepsOfCommand
  <2>a. ASSUME \/ last' = Reports /\ command.name \in {"install", "restart"}
               \/ last' \in {"none", "copied"}
        PROVE  StaysAway'
    BY <1>1, <2>a DEF Reports
  <2>1. CASE Register \/ Enable \/ Start
    <3>1. command.name \in {"install", "restart"}
      BY <2>1 DEF Register, Enable, Start, CommandInv, Saving, Saved
    <3>2. UNCHANGED last \/ last' \in {"none", Reports}
      BY <2>1 DEF Register, Enable, Start, Succeed, End
    <3>3. QED
      BY <1>a, <2>0, <2>a, <3>1, <3>2
  <2>2. CASE Disable
    <3>1. CASE UNCHANGED last BY <1>a, <2>0, <3>1
    <3>2. CASE last' = "none" BY <2>a, <3>2
    <3>3. CASE ~command.failed /\ last' = Reports /\ command.name = "disable"
      BY <2>2, <3>3 DEF Disable, Disabled, Reports, StopInv, Removing, StaysAway
    <3>4. QED
      BY <2>2, <3>1, <3>2, <3>3 DEF Disable, Succeed, End
  <2>3. CASE RemoveConfig
    <3>1. CASE command.failed BY <2>a, <2>3, <3>1 DEF RemoveConfig, Succeed, End
    <3>2. CASE ~command.failed
      <4>1. files \in FileRecords
        BY DEF TypeOK, FileRecords
      <4>2. /\ files'.config = Absent /\ files'.unit = files.unit
            /\ files'.script = files.script /\ files'.binary = files.binary
            /\ UNCHANGED <<loaded, enabled, service>>
        BY <2>3, <4>1 DEF RemoveConfig, FileRecords
      <4>3. /\ service = NoService /\ ~enabled /\ loaded = Absent /\ files.unit = Absent
            /\ files.script = Absent /\ files.binary = Absent
        BY <2>3, <3>2 DEF RemoveConfig, StopInv, Removing, Uninstalling
      <4>4. QED
        BY <4>2, <4>3 DEF StaysAway
    <3>3. QED
      BY <3>1, <3>2
  <2>4. CASE CommandSteps1
    <3>1. CASE Register BY <2>1, <3>1
    <3>2. CASE UNCHANGED last \/ last' = "none"
      BY <1>a, <2>0, <2>a, <3>2
    <3>3. QED
      BY <2>4, <3>1, <3>2
         DEF CommandSteps1, Deploy, Deployed, Begin, StartWriting, FinishWriting,
             ProtectTemporary, Rename, ProtectConfig, CopyBinary, FinishCopying,
             StartRegistering, Fail
  <2>5. CASE CommandSteps2
    <3>1. CASE UNCHANGED last \/ last' = "none"
      BY <1>a, <2>0, <2>a, <3>1
    <3>2. QED
      BY <2>1, <2>2, <2>3, <2>5, <3>1
         DEF CommandSteps2, DaemonReload, Stop, NotStopped, Stopped, RemoveUnit, Unload,
             RemoveScript, RemoveBinary, Fail
  <2>6. CASE DeployFails \/ RegisterFails \/ StepIgnored
    <3>1. UNCHANGED last \/ last' \in {"none", "copied"}
      BY <2>6 DEF DeployFails, RegisterFails, StepIgnored, End, Fail
    <3>2. QED
      BY <1>a, <2>0, <2>a, <3>1
  <2>7. QED
    BY <1>6, <2>4, <2>5, <2>6 DEF CommandStep, CommandSteps1, CommandSteps2
<1>7. QED
  BY <1>1, <1>2, <1>3, <1>4, <1>5, <1>6
     DEF Next, StartCommand, StepFails, Kill, Fail, Drained, vars

\* systemd starts a service when nothing drains, and only a stop makes one drain.
LEMMA DrainInductive ==
  ASSUME TypeOK, CommandInv, DrainInv, [Next]_vars
  PROVE  DrainInv'
<1> USE DEF At, fileVars, managerVars, historyVars, boundVars
<1>1. UNCHANGED initSystem
  BY Frame
<1>2. CASE initSystem = "systemd"
  <2> USE <1>1, <1>2
  <2>a. /\ NoService.stage = "none" /\ NoCommand.step = "none"
        /\ draining \in [installed : Nat, removed : Nat]
        /\ service \in ServiceRecords /\ command \in CommandRecords
    BY DEF NoService, NoCommand, TypeOK, CommandInv, ServiceRecords
  <2>1. command'.step = "start" => UNCHANGED command \/ Stopped
    <3>0. ASSUME NEW s, GoesTo(s), s # "start" PROVE command'.step # "start"
      BY <2>a, <3>0, Goes
    <3> USE DEF GoesTo
    <3>1. CASE CommandSteps1
      <4>1. \/ command' = NoCommand
            \/ \E s \in {"begin", "deploying", "stop", "write", "writing", "protect", "rename",
                         "protect again", "copy", "prepare", "copying", "registering",
                         "reload", "enable"} : GoesTo(s)
        BY <3>1 DEF CommandSteps1, Deploy, Deployed, Begin, StartWriting, WriteTemporary,
             FinishWriting, ProtectTemporary, Rename, ProtectConfig, CopyBinary, FinishCopying,
             StartRegistering, Register, Fail, Succeed, End
      <4>2. QED BY <2>a, <3>0, <4>1
    <3>2. CASE CommandSteps2 /\ ~Stopped
      <4>1. \/ command' = NoCommand
            \/ \E s \in {"enable", "stop", "stopped", "forget", "remove unit", "unload",
                         "remove script", "remove binary", "remove config"} : GoesTo(s)
        BY <3>2 DEF CommandSteps2, DaemonReload, Enable, Stop, NotStopped, Start, Disable,
             RemoveUnit, Unload, RemoveScript, RemoveBinary, RemoveConfig, Fail, Succeed, End
      <4>2. QED BY <2>a, <3>0, <4>1
    <3>3. CASE DeployFails \/ RegisterFails \/ StepIgnored
      <4>1. command.step \in Dropping /\ ~IsLast => StepAfter # "start"
        BY DEF Dropping, StepAfter, IsLast
      <4>2. \/ command' = NoCommand \/ GoesTo("begin") \/ GoesTo("prepare")
            \/ GoesTo(StepAfter) /\ command.step \in Dropping /\ ~IsLast
        BY <3>3 DEF DeployFails, RegisterFails, StepIgnored, Fail, End
      <4>3. QED BY <2>a, <3>0, <4>1, <4>2
    <3>4. ASSUME NEW name, NEW c, NEW outside, StartCommand(name, c, outside)
          PROVE  command'.step # "start"
      BY <3>4 DEF StartCommand
    <3>5. CASE StepFails \/ Kill \/ Reboot \/ ServiceDies \/ RestartOnFailure \/ Drained
               \/ UNCHANGED vars
      BY <2>a, <3>5 DEF StepFails, Kill, Reboot, Fail, ServiceDies, RestartOnFailure, Drained, vars
    <3>6. QED
      BY <3>1, <3>2, <3>3, <3>4, <3>5 DEF Next, CommandStep, CommandSteps1, CommandSteps2
  <2>b. CASE UNCHANGED draining /\ (UNCHANGED service \/ Idle)
    <3>1. CASE Stopped
      <4>1. Idle
        BY <3>1 DEF Stopped, Waited
      <4>2. QED BY <2>b, <4>1 DEF DrainInv, Idle
    <3>2. CASE ~Stopped
      BY <2>1, <2>b, <3>2 DEF DrainInv, Idle
    <3>3. QED BY <3>1, <3>2
  <2>2. CASE Enable
    <3>1. UNCHANGED draining /\ (service.stage = "none" => Idle)
      BY <2>2 DEF Enable, Waited
    <3>2. Idle \/ UNCHANGED service
      BY <2>2, <3>1 DEF Enable
    <3>3. QED BY <2>b, <3>1, <3>2
  <2>3. CASE Stop
    <3>1. service' = NoService /\ GoesTo("stopped")
      BY <2>3 DEF Stop, GoesTo
    <3>2. QED
      BY <3>1, <2>a, Goes DEF DrainInv
  <2>4. CASE Start
    BY <2>4, <2>b DEF Start, DrainInv
  <2>5. CASE RemoveBinary
    <3>1. /\ draining.installed \in Nat /\ draining.removed \in Nat
          /\ draining'.installed = 0
          /\ draining'.removed = draining.removed + draining.installed
      BY <2>5, <2>a DEF RemoveBinary
    <3>2. Idle => Idle'
      BY <3>1 DEF Idle
    <3>3. service'.stage = service.stage
      BY <2>5, <2>a DEF RemoveBinary, ServiceRecords
    <3>4. command'.step = "remove config"
      BY <2>5, <2>a, Goes DEF RemoveBinary, GoesTo
    <3>5. QED
      BY <3>2, <3>3, <3>4 DEF DrainInv
  <2>6. CASE Reboot
    <3>1. draining'.installed = 0 /\ draining'.removed = 0
      BY <2>6 DEF Reboot
    <3>2. QED
      BY <3>1 DEF DrainInv, Idle
  <2>7. CASE ServiceDies
    BY <2>7, <2>b, <2>a DEF ServiceDies, DrainInv
  <2>8. CASE RestartOnFailure
    BY <2>8, <2>b DEF RestartOnFailure, RestartsOnFailure, DrainInv
  <2>9. CASE Drained
    <3>1. ~Idle /\ UNCHANGED <<service, command>>
      BY <2>9, <2>a DEF Drained, Idle
    <3>2. QED
      BY <3>1 DEF DrainInv
  <2>10. CASE UNCHANGED <<service, draining>>
    BY <2>10, <2>b
  <2>11. QED
    BY <2>2, <2>3, <2>4, <2>5, <2>6, <2>7, <2>8, <2>9, <2>10, Frame
<1>3. QED
  BY <1>1, <1>2 DEF DrainInv

\* What the manager starts is what the configuration says, unless a command has
\* begun to change it.
LEMMA AgreementInductive ==
  ASSUME TypeOK, CommandInv, ConfigInv, StopInv, AgreementInv, [Next]_vars
  PROVE  AgreementInv'
<1> USE DEF At, fileVars, managerVars, historyVars, boundVars
<1>a. /\ NoService.stage = "none" /\ NoCommand.step = "none" /\ NoCommand.name = "none"
      /\ service \in ServiceRecords /\ command \in CommandRecords /\ files \in FileRecords
      /\ loaded \in Configurations \union {Absent, Torn}
      /\ files.unit \in Configurations \union {Absent, Torn}
      /\ files.script \in Configurations \union {Absent, Torn}
  BY DEF NoService, NoCommand, TypeOK, CommandInv, ServiceRecords, FileRecords
<1>b. UNCHANGED initSystem
  BY Frame
<1> DEFINE KeepsNames == /\ files'.config = files.config /\ files'.unit = files.unit
                         /\ files'.script = files.script /\ loaded' = loaded
\* A command that stays in its early steps, or none of the two that change files.
<1>c. CASE /\ KeepsNames /\ UNCHANGED <<service, agreement>>
           /\ Undisturbed' => Undisturbed
           /\ command'.step \notin Saved
           /\ command'.name = "install" => command'.step \notin Stopping
  BY <1>a, <1>b, <1>c DEF AgreementInv, Registered, Saved
\* A command that is cut off, or says what it has not done.
<1>d. CASE /\ KeepsNames /\ UNCHANGED service
           /\ command' = NoCommand /\ agreement' = CutOff
  <2>1. /\ CutOff # "broken" => CutOff = agreement /\ Undisturbed
        /\ command'.step = "none" /\ command'.name = "none" /\ agreement' = CutOff
    BY <1>a, <1>d DEF CutOff, Undisturbed
  <2>2. QED
    BY <1>b, <1>d, <2>1 DEF AgreementInv, Registered, Saved, Stopping
\* A step of an installation after the configuration, or of a removal, that is
\* followed by another one.
<1>e. ASSUME NEW s, GoesTo(s), s \notin Early, command.name \in {"install", "uninstall"},
             initSystem # "systemd" => service'.stage # "failed",
             s \in Saved => files'.config = command.config,
             s = "reload" => files'.unit = files'.config /\ initSystem = "systemd",
             s = "enable" =>
               \/ Registered'
               \/ command'.failed /\ initSystem = "systemd",
             command.name = "install" /\ s \in Stopping => Registered' /\ initSystem # "systemd"
      PROVE  AgreementInv'
  <2>1. command'.step = s /\ command'.name = command.name /\ command'.config = command.config
    BY <1>a, <1>e, Goes
  <2>2. ~Undisturbed'
    BY <1>e, <2>1 DEF Undisturbed
  <2>3. QED
    BY <1>b, <1>e, <2>1, <2>2 DEF AgreementInv
<1>f. initSystem # "systemd" => service.stage # "failed"
  BY DEF AgreementInv
<1>1. CASE Deploy \/ Deployed \/ StartWriting \/ FinishWriting \/ ProtectTemporary \/ DeployFails
  <2>1. KeepsNames /\ UNCHANGED <<service, agreement>>
    BY <1>1, <1>a DEF Deploy, Deployed, StartWriting, WriteTemporary, FinishWriting,
                      ProtectTemporary, DeployFails, FileRecords
  <2>2. \E s \in {"deploying", "begin", "writing", "protect", "rename"} : GoesTo(s)
    BY <1>1 DEF Deploy, Deployed, StartWriting, WriteTemporary, FinishWriting, ProtectTemporary,
                DeployFails, GoesTo
  <2>3. command.step \in Early
    BY <1>1 DEF Deploy, Deployed, StartWriting, WriteTemporary, FinishWriting, ProtectTemporary,
                DeployFails, Early
  <2>4. command'.step \notin Saved \union Stopping
    BY <2>2, <1>a, Goes DEF Saved, Stopping
  <2>5. QED
    BY <1>c, <2>1, <2>3, <2>4 DEF Undisturbed
<1>2. CASE Begin
  <2>1. KeepsNames /\ UNCHANGED service /\ command.step \in Early
    BY <1>2 DEF Begin, Early
  <2>2. CASE Goto("write") /\ UNCHANGED historyVars
    <3>1. command'.step = "write"
      BY <2>2, <1>a, Goes DEF GoesTo
    <3>2. QED
      BY <1>c, <2>1, <2>2, <3>1 DEF Undisturbed, Saved, Stopping
  <2>3. CASE command.name # "install" /\ Goto("stop") /\ UNCHANGED historyVars
    <3>1. command'.step = "stop" /\ command'.name # "install"
      BY <2>3, <1>a, Goes DEF GoesTo
    <3>2. QED
      BY <1>c, <2>1, <2>3, <3>1 DEF Undisturbed, Saved
  <2>4. CASE Fail
    BY <1>d, <2>1, <2>4 DEF Fail
  <2>5. QED
    BY <1>2, <2>2, <2>3, <2>4 DEF Begin
<1>3. CASE Rename
  <2>1. /\ files'.config = command.config /\ UNCHANGED service
        /\ GoesTo("protect again") /\ command.name = "install"
    BY <1>3, <1>a DEF Rename, ConfigInv, CommandInv, Saving, FileRecords, GoesTo
  <2>2. QED
    BY <1>e, <1>f, <2>1 DEF Early, Stopping
<1>4. CASE \/ ProtectConfig \/ FinishCopying \/ StartRegistering
           \/ CopyBinary /\ ~(command.outside /\ Busy)
           \/ (RegisterFails /\ command' # NoCommand)
  <2>1. /\ files'.config = files.config /\ UNCHANGED service /\ command.step \in Saved
    BY <1>4, <1>a DEF ProtectConfig, CopyBinary, FinishCopying, StartRegistering, RegisteredAs,
                      RegisterFails, Saved, FileRecords
  <2>2. \E s \in {"copy", "copying", "prepare", "registering"} : GoesTo(s)
    BY <1>4 DEF ProtectConfig, CopyBinary, FinishCopying, StartRegistering, RegisterFails, GoesTo
  <2>3. files'.config = command.config /\ command.name = "install"
    BY <2>1 DEF AgreementInv, CommandInv
  <2>4. QED
    BY <1>e, <1>f, <2>1, <2>2, <2>3 DEF Early, Stopping
<1>5. CASE CopyBinary /\ command.outside /\ Busy
  BY <1>5, <1>d DEF CopyBinary, Fail
<1>6. CASE Register
  <2>1. /\ UNCHANGED <<service, loaded>> /\ files'.config = files.config
        /\ files.config = command.config /\ command.name = "install"
        /\ files'[RegisteredAs] = command.config
    BY <1>6, <1>a DEF Register, RegisteredAs, ExecArgs, AgreementInv, CommandInv, Saved,
                      FileRecords
  <2>2. CASE RegisteredAs = "unit"
    <3>1. GoesTo("reload") /\ initSystem = "systemd" /\ files'.unit = command.config
      BY <1>6, <2>1, <2>2 DEF Register, RegisteredAs, GoesTo
    <3>2. QED
      BY <1>e, <1>f, <2>1, <3>1 DEF Early, Stopping
  <2>3. CASE RegisteredAs # "unit" /\ initSystem = "sysv"
    <3>1. GoesTo("enable") /\ files'.script = command.config
      BY <1>6, <2>1, <2>3 DEF Register, RegisteredAs, GoesTo
    <3>2. Registered'
      BY <1>b, <2>1, <2>3, <3>1 DEF Registered
    <3>3. QED
      BY <1>e, <1>f, <2>1, <3>1, <3>2 DEF Early, Stopping
  <2>4. CASE RegisteredAs # "unit" /\ initSystem # "sysv"
    <3>1. initSystem = "systemd" /\ command.failed
      BY <2>4, LifecycleAssumption DEF RegisteredAs, TypeOK
    <3>2. command' = NoCommand /\ agreement' = CutOff
      BY <1>6, <2>4, <3>1 DEF Register, Succeed, End
    <3>3. agreement' = "broken"
      BY <1>6, <2>1, <3>2 DEF Register, CutOff, Early
    <3>4. QED
      BY <1>a, <1>b, <1>f, <2>1, <3>2, <3>3 DEF AgreementInv, Saved, Stopping
  <2>5. QED
    BY <2>2, <2>3, <2>4
<1>7. CASE DaemonReload
  <2>1. /\ UNCHANGED <<files, service>> /\ loaded' = files.unit
        /\ files.unit = files.config /\ initSystem = "systemd"
        /\ files.config = command.config /\ command.name = "install"
        /\ GoesTo("enable")
    BY <1>7 DEF DaemonReload, Reloaded, AgreementInv, CommandInv, Saved, GoesTo
  <2>2. Registered'
    BY <1>b, <2>1 DEF Registered
  <2>3. QED
    BY <1>e, <1>f, <2>1, <2>2 DEF Early, Stopping
<1>8. CASE Enable
  <2>1. /\ UNCHANGED <<files, loaded>> /\ command.name = "install"
        /\ Registered \/ (command.failed /\ initSystem = "systemd")
    BY <1>8 DEF Enable, AgreementInv, CommandInv, Saved
  <2>2. CASE initSystem = "systemd" /\ ~command.failed
    <3>1. /\ command'.step = "none" /\ command'.name = "none"
          /\ agreement' = IF service.stage = "up" /\ service.args # loaded THEN "stale" ELSE "whole"
          /\ service' = IF service.stage = "none" THEN Started(loaded) ELSE service
      BY <1>8, <1>a, <2>1, <2>2 DEF Enable, Succeed, End, Agreed
    <3>2. agreement' = "whole" /\ service'.stage = "up" => service'.args = loaded
      BY <3>1, <1>a, StartedService
    <3>3. QED
      BY <1>b, <2>1, <2>2, <3>1, <3>2 DEF AgreementInv, Registered, Saved, Stopping
  <2>3. CASE initSystem = "systemd" /\ command.failed
    <3>1. command'.step = "none" /\ command'.name = "none" /\ agreement' = CutOff
      BY <1>8, <1>a, <2>1, <2>3 DEF Enable, Succeed, End
    <3>2. agreement' = "broken"
      BY <1>8, <2>1, <3>1 DEF Enable, CutOff, Early
    <3>3. QED
      BY <1>b, <2>3, <3>1, <3>2 DEF AgreementInv, Saved, Stopping
  <2>4. CASE initSystem # "systemd"
    <3>1. GoesTo("stop") /\ UNCHANGED service /\ Registered'
      BY <1>8, <1>b, <2>1, <2>4 DEF Enable, GoesTo, Registered
    <3>2. QED
      BY <1>e, <1>f, <2>1, <2>4, <3>1 DEF Early, Saved
  <2>5. QED
    BY <2>2, <2>3, <2>4
<1>9. CASE Stop \/ Stopped \/ (NotStopped /\ command' # NoCommand)
  <2>1. /\ UNCHANGED <<files, loaded, agreement>> /\ service' \in {service, NoService}
        /\ command.step \in {"stop", "stopped"}
    BY <1>9 DEF Stop, Stopped, NotStopped, Fail
  <2>2. \E s \in {"stopped", "start", "forget"} :
          GoesTo(s) /\ (s = "forget" => command.name \notin {"install", "restart"})
    BY <1>9 DEF Stop, Stopped, NotStopped, Fail, GoesTo
  <2>3. /\ command'.name = command.name /\ command'.step \notin Early
        /\ command'.step \notin Saved
    BY <2>2, <1>a, Goes DEF Early, Saved
  <2>4. command.step \notin Early
    BY <2>1 DEF Early
  <2>5. QED
    BY <1>a, <1>b, <2>1, <2>3, <2>4
       DEF AgreementInv, Registered, Undisturbed, Saved, Stopping
<1>10. CASE NotStopped /\ command' = NoCommand
  <2>1. Fail
    <3>1. CASE Goto("forget") \/ GoOnWithout("forget")
      BY <1>10, <1>a, <3>1, Goes DEF GoesTo
    <3>2. QED
      BY <1>10, <3>1 DEF NotStopped
  <2>2. QED
    BY <1>10, <1>d, <2>1 DEF NotStopped, Fail
<1>11. CASE Start
  <2>1. /\ UNCHANGED <<files, loaded>> /\ command.name \in {"install", "restart"}
        /\ command'.step = "none" /\ command'.name = "none"
        /\ agreement' \in {Agreed(FALSE), CutOff}
        /\ service' = Started(StartsWith)
    BY <1>11, <1>a DEF Start, Succeed, End, CommandInv
  <2>2. StartsWith \in Configurations \union {Absent, Torn}
    BY <1>a DEF StartsWith
  <2>3. /\ service'.stage = "up" => service'.args = StartsWith
        /\ initSystem # "systemd" => service'.stage # "failed"
    BY <2>1, <2>2, StartedService
  <2>4. agreement' # "broken" => Registered
    <3>1. CASE command.name = "install"
      BY <1>11, <3>1 DEF Start, AgreementInv, Stopping
    <3>2. CASE command.name = "restart"
      BY <2>1, <3>2 DEF Agreed, CutOff, AgreementInv, Undisturbed
    <3>3. QED
      BY <2>1, <3>1, <3>2
  <2>5. Registered => StartsWith = files.config
    BY DEF Registered, StartsWith
  <2>6. QED
    BY <1>b, <2>1, <2>3, <2>4, <2>5 DEF AgreementInv, Registered, Saved, Stopping
<1>12. CASE Disable
  <2>1. KeepsNames /\ UNCHANGED service /\ command.name \in {"disable", "uninstall"}
    BY <1>12 DEF Disable, CommandInv, Removing
  <2>2. CASE command.name = "disable"
    <3>1. command' = NoCommand /\ agreement' \in {agreement, CutOff} /\ CutOff = agreement
      BY <1>12, <2>2 DEF Disable, Succeed, End, Agreed, CutOff
    <3>2. QED
      BY <1>d, <2>1, <3>1
  <2>3. CASE command.name = "uninstall"
    <3>1. GoesTo("remove unit")
      BY <1>12, <2>3 DEF Disable, GoesTo
    <3>2. QED
      BY <1>e, <1>f, <2>1, <2>3, <3>1 DEF Early, Saved
  <2>4. QED
    BY <2>1, <2>2, <2>3
<1>13. CASE RemoveUnit \/ Unload \/ RemoveScript \/ RemoveBinary
  <2>1. command.name = "uninstall" /\ service'.stage = service.stage
    BY <1>13, <1>a DEF RemoveUnit, Unload, RemoveScript, RemoveBinary, CommandInv, Uninstalling,
                       ServiceRecords
  <2>2. \E s \in {"unload", "remove script", "remove binary", "remove config"} : GoesTo(s)
    BY <1>13 DEF RemoveUnit, Unload, RemoveScript, RemoveBinary, GoesTo
  <2>3. QED
    BY <1>e, <1>f, <2>1, <2>2 DEF Early, Saved
<1>14. CASE RemoveConfig
  <2>1. /\ command'.step = "none" /\ command'.name = "none" /\ UNCHANGED service
        /\ command.name = "uninstall"
    BY <1>14, <1>a DEF RemoveConfig, Succeed, End, CommandInv, Uninstalling
  <2>2. CASE command.failed
    <3>1. agreement' = "broken"
      BY <1>14, <2>1, <2>2 DEF RemoveConfig, Succeed, End, CutOff, Early
    <3>2. QED
      BY <1>b, <1>f, <2>1, <3>1 DEF AgreementInv, Saved, Stopping
  <2>3. CASE ~command.failed
    <3>1. /\ files'.config = Absent /\ files'.unit = files.unit /\ files'.script = files.script
          /\ UNCHANGED loaded
      BY <1>14, <1>a DEF RemoveConfig, FileRecords
    <3>2. files.unit = Absent /\ files.script = Absent /\ loaded = Absent /\ service = NoService
      BY <1>14, <2>3 DEF RemoveConfig, StopInv, Removing, Uninstalling
    <3>3. QED
      BY <1>a, <1>b, <2>1, <3>1, <3>2 DEF AgreementInv, Registered, Saved, Stopping
  <2>4. QED
    BY <2>2, <2>3
<1>15. ASSUME NEW name, NEW c, NEW outside, StartCommand(name, c, outside)
       PROVE  AgreementInv'
  <2>1. /\ UNCHANGED <<files, loaded, service, agreement>> /\ command = NoCommand
        /\ command'.step \in {"deploy", "begin"}
    BY <1>15 DEF StartCommand
  <2>2. QED
    BY <1>a, <1>c, <2>1 DEF Undisturbed, Saved, Stopping
<1>16. CASE RegisterFails /\ command' = NoCommand
  <2>1. ~GoOnWithout("prepare")
    BY <1>16, <1>a, Goes DEF GoesTo
  <2>2. /\ agreement' = "broken" /\ command'.step = "none" /\ command'.name = "none"
        /\ UNCHANGED service
    BY <1>16, <1>a, <2>1 DEF RegisterFails
  <2>3. QED
    BY <1>b, <1>f, <2>2 DEF AgreementInv, Saved, Stopping
<1>17. CASE StepFails \/ Kill
  BY <1>17, <1>d DEF StepFails, Kill, Fail
<1>18. CASE StepIgnored
  <2>1. KeepsNames /\ UNCHANGED service /\ command.step \in Dropping
    BY <1>18 DEF StepIgnored
  <2>2. CASE command' = NoCommand /\ agreement' = CutOff
    BY <1>d, <2>1, <2>2
  <2>3. CASE /\ GoOnWithout(StepAfter) /\ UNCHANGED agreement /\ ~IsLast
             /\ ~(At("stop") /\ command.name = "restart")
    <3>1. GoesTo(StepAfter) /\ command'.failed
      BY <1>a, <2>3, Goes DEF GoesTo
    <3>2. CASE At("reload")
      <4>1. /\ StepAfter = "enable" /\ command.name = "install" /\ initSystem = "systemd"
            /\ files.config = command.config
        BY <3>2 DEF StepAfter, CommandInv, AgreementInv, Saved
      <4>2. QED
        BY <1>e, <1>f, <2>1, <3>1, <4>1 DEF Early, Stopping
    <3>3. CASE At("enable")
      <4>1. /\ StepAfter = "stop" /\ command.name = "install" /\ initSystem # "systemd"
            /\ Registered
        BY <2>3, <3>3 DEF StepAfter, CommandInv, AgreementInv, Saved, IsLast
      <4>2. Registered'
        BY <1>b, <2>1, <4>1 DEF Registered
      <4>3. QED
        BY <1>e, <1>f, <2>1, <3>1, <4>1, <4>2 DEF Early, Saved
    <3>4. CASE At("stop")
      <4>1. /\ command'.step = "forget" /\ command'.name = command.name
            /\ command.step \notin Early
        BY <1>a, <3>1, <3>4, Goes DEF StepAfter, Early
      <4>2. QED
        BY <1>c, <2>1, <2>3, <4>1 DEF Undisturbed, Saved, Stopping, Early
    <3>5. CASE command.step \in Removing
      <4>1. command.name = "uninstall"
        BY <2>3, <3>5 DEF CommandInv, IsLast, Removing
      <4>2. StepAfter \in Uninstalling
        BY <2>3, <3>5 DEF StepAfter, IsLast, Removing, Uninstalling
      <4>3. QED
        BY <1>e, <1>f, <2>1, <3>1, <4>1, <4>2 DEF Early, Saved, Uninstalling
    <3>6. QED
      BY <2>1, <3>2, <3>3, <3>4, <3>5 DEF Dropping, Removing, Uninstalling
  <2>4. QED
    BY <1>18, <2>2, <2>3 DEF StepIgnored, End, Fail
<1>19. CASE Reboot
  <2> DEFINE args == IF initSystem = "systemd" THEN files.unit ELSE files.script
  <2>1. /\ UNCHANGED files /\ loaded' = files.unit
        /\ service' = IF enabled /\ args # Absent THEN Started(args) ELSE NoService
    BY <1>19 DEF Reboot
  <2>2. args \in Configurations \union {Absent, Torn}
    BY <1>a
  <2>3. /\ service'.stage = "up" => service'.args = args
        /\ initSystem # "systemd" => service'.stage # "failed"
    BY <1>a, <2>1, <2>2, StartedService
  <2>4. /\ command'.step = "none" /\ command'.name = "none"
        /\ agreement' # "broken" => agreement # "broken" /\ Undisturbed
    <3>1. CASE command = NoCommand
      BY <1>19, <1>a, <3>1 DEF Reboot, Undisturbed
    <3>2. CASE command # NoCommand
      BY <1>19, <1>a, <3>2 DEF Reboot, Fail, CutOff, Undisturbed
    <3>3. QED
      BY <3>1, <3>2
  <2>5. Registered => args = files.config
    BY DEF Registered
  <2>6. QED
    BY <1>b, <2>1, <2>3, <2>4, <2>5 DEF AgreementInv, Registered, Saved, Stopping
<1>20. CASE ServiceDies
  <2>1. /\ UNCHANGED <<files, loaded, command, agreement>> /\ service'.stage # "up"
        /\ initSystem # "systemd" => service'.stage # "failed"
    BY <1>20, <1>a DEF ServiceDies, ServiceRecords
  <2>2. QED
    BY <1>b, <2>1 DEF AgreementInv, Registered, Undisturbed, Saved, Stopping
<1>21. CASE RestartOnFailure
  <2>1. /\ UNCHANGED <<files, loaded, command>> /\ initSystem = "systemd"
        /\ agreement' # "broken" => agreement # "broken"
    BY <1>21 DEF RestartOnFailure, RestartsOnFailure, AgreementInv
  <2>2. service'.stage = "up" => service'.args = loaded
    BY <1>21, <1>a, StartedService DEF RestartOnFailure
  <2>3. QED
    BY <1>b, <2>1, <2>2 DEF AgreementInv, Registered, Undisturbed, Saved, Stopping
<1>22. CASE Drained \/ UNCHANGED vars
  <2>1. UNCHANGED <<files, loaded, command, service, agreement>>
    BY <1>22 DEF Drained, vars
  <2>2. QED
    BY <1>b, <2>1 DEF AgreementInv, Registered, Undisturbed
<1>23. QED
  BY <1>1, <1>2, <1>3, <1>4, <1>5, <1>6, <1>7, <1>8, <1>9, <1>10, <1>11, <1>12, <1>13, <1>14,
     <1>15, <1>16, <1>17, <1>18, <1>19, <1>20, <1>21, <1>22
     DEF Next, CommandStep

\* What the strengthened invariant says of an installation is kept by every step.
LEMMA StartInductive == IInv /\ StartInv /\ [Next]_vars => StartInv'
<1> SUFFICES ASSUME IInv, StartInv, [Next]_vars PROVE StartInv'
  OBVIOUS
<1>a. /\ TypeOK /\ CommandInv /\ AgreementInv
      /\ command \in CommandRecords /\ files \in FileRecords /\ service \in ServiceRecords
      /\ loaded \in Configurations \union {Absent, Torn}
  <2>1. TypeOK /\ CommandInv /\ AgreementInv
    BY DEF IInv
  <2>2. QED
    BY <2>1 DEF TypeOK, CommandInv, FileRecords, ServiceRecords
<1>b. NoCommand.step = "none" /\ NoCommand.name = "none"
  BY DEF NoCommand
<1> USE DEF At, fileVars, managerVars, historyVars, boundVars
\* A command that ends without "installed": nothing is claimed any more.
<1>c. ASSUME command' = NoCommand, last' # "installed"
      PROVE  StartInv'
  BY <1>b, <1>c DEF StartInv, NoCommand
\* Only the four commands report, and only install reports that it has installed.
<1>e. ASSUME command.step # "none"
      PROVE  /\ command # NoCommand /\ last # "installed"
             /\ command.name \in {"install", "restart", "disable", "uninstall"}
             /\ command.name # "install" => Reports # "installed"
  BY <1>a, <1>b, <1>e DEF CommandInv, CommandRecords, Commands, Reports
\* A step to a step that an installation takes from within: what the step before
\* it knew is still so.
<1>d. ASSUME NEW s, GoesTo(s), UNCHANGED <<last, loaded, initSystem>>,
             files'.script = files.script,
             command.step # "none",
             s \in {"deploy", "deploying", "copying"} => command.outside,
             command.name = "install" =>
               /\ command.outside \/ files'.binary = Whole
               /\ s \in Saving \union Saved => command.config \in Configurations
               /\ s \in Registering \union Stopping => files'.binary = Whole
               /\ s \in Stopping => StartsWith \in Configurations /\ (enabled' \/ command'.failed)
      PROVE  StartInv'
  <2>1. /\ command'.step = s /\ command'.name = command.name
        /\ command'.config = command.config /\ command'.outside = command.outside
    BY <1>a, <1>d, Goes
  <2>2. last' # "installed" /\ StartsWith' = StartsWith
    BY <1>d, <1>e DEF StartsWith
  <2>3. QED
    BY <1>d, <2>1, <2>2 DEF StartInv
\* A step before the script is written, that keeps the program or makes it whole.
<1>f. ASSUME NEW s, GoesTo(s), UNCHANGED last, s \notin Stopping, command.step # "none",
             s \in {"deploy", "deploying", "copying"} => command.outside,
             command.name = "install" =>
               /\ command.outside \/ files'.binary = Whole
               /\ s \in Saving \union Saved => command.config \in Configurations
               /\ s \in Registering => files'.binary = Whole
      PROVE  StartInv'
  <2>1. /\ command'.step = s /\ command'.name = command.name
        /\ command'.config = command.config /\ command'.outside = command.outside
    BY <1>a, <1>f, Goes
  <2>2. last' # "installed"
    BY <1>f, <1>e
  <2>3. QED
    BY <1>f, <2>1, <2>2 DEF StartInv
\* What an installation knows while it writes.
<1>g. ASSUME command.step \in Saving \union Saved
      PROVE  /\ command.name = "install" /\ command.config \in Configurations /\ command.step # "none"
             /\ command.outside \/ files.binary = Whole
             /\ command.step \in Registering => files.binary = Whole
  BY <1>a, <1>g DEF CommandInv, StartInv, Saving, Saved
<1> USE DEF Saving, Saved, Stopping, Registering
<1>1. CASE Deploy \/ DeployFails
  <2>1. /\ command.outside /\ command.step # "none" /\ UNCHANGED last
        /\ \E s \in {"begin", "deploying"} : GoesTo(s)
    BY <1>1 DEF Deploy, DeployFails, StartInv, GoesTo
  <2>2. QED
    BY <1>f, <2>1
<1>2. CASE Deployed
  <2>1. /\ files'.binary = Whole /\ command.step # "none" /\ UNCHANGED last
        /\ GoesTo("begin")
    BY <1>2, <1>a DEF Deployed, FileRecords, GoesTo
  <2>2. QED
    BY <1>f, <2>1
<1>3. CASE Begin
  <2>1. UNCHANGED files /\ command.step # "none"
    BY <1>3 DEF Begin
  <2>2. CASE command.name # "install"
    <3>1. GoesTo("stop") /\ UNCHANGED <<last, loaded, initSystem>>
      BY <1>3, <2>2 DEF Begin, GoesTo
    <3>2. QED
      BY <1>d, <2>1, <2>2, <3>1
  <2>3. CASE command.name = "install" /\ Accepted(command.config)
    <3>1. command.config \in Configurations
      BY <1>a, <2>3 DEF CommandInv
    <3>2. GoesTo("write") /\ UNCHANGED last
      BY <1>3, <2>3 DEF Begin, GoesTo
    <3>3. command.outside \/ files'.binary = Whole
      BY <2>1, <2>3 DEF StartInv
    <3>4. QED
      BY <1>f, <2>1, <3>1, <3>2, <3>3
  <2>4. CASE command.name = "install" /\ ~Accepted(command.config)
    BY <1>3, <1>c, <2>4 DEF Begin, Fail
  <2>5. QED
    BY <2>2, <2>3, <2>4
<1>4. CASE StartWriting \/ FinishWriting \/ Rename \/ ProtectTemporary \/ ProtectConfig
  <2>1. /\ files'.binary = files.binary /\ UNCHANGED last
        /\ command.step \in Saving \union Saved
    BY <1>4, <1>a DEF StartWriting, WriteTemporary, FinishWriting, Rename, ProtectTemporary,
                      ProtectConfig, FileRecords
  <2>2. \E s \in {"writing", "protect", "protect again", "rename", "copy"} : GoesTo(s)
    BY <1>4 DEF StartWriting, WriteTemporary, FinishWriting, Rename, ProtectTemporary,
                ProtectConfig, GoesTo
  <2>3. QED
    BY <1>f, <1>g, <2>1, <2>2
<1>5. CASE CopyBinary
  <2>1. command.step = "copy"
    BY <1>5 DEF CopyBinary
  <2>2. CASE ~command.outside
    <3>1. GoesTo("prepare") /\ UNCHANGED <<files, last>>
      BY <1>5, <2>2 DEF CopyBinary, GoesTo
    <3>2. QED
      BY <1>f, <1>g, <2>1, <2>2, <3>1
  <2>3. CASE command.outside /\ Busy
    BY <1>5, <1>c, <2>3 DEF CopyBinary, Fail
  <2>4. CASE command.outside /\ ~Busy
    <3>1. GoesTo("copying") /\ UNCHANGED last
      BY <1>5, <2>4 DEF CopyBinary, GoesTo
    <3>2. QED
      BY <1>f, <1>g, <2>1, <2>4, <3>1
  <2>5. QED
    BY <1>a, <2>2, <2>3, <2>4 DEF CommandRecords
<1>6. CASE FinishCopying
  <2>1. /\ command.step = "copying" /\ files'.binary = Whole /\ UNCHANGED last
        /\ GoesTo("prepare")
    BY <1>6, <1>a DEF FinishCopying, FileRecords, GoesTo
  <2>2. QED
    BY <1>f, <1>g, <2>1
<1>7. CASE \/ StartRegistering \/ (Register /\ command' # NoCommand)
           \/ (RegisterFails /\ command' # NoCommand)
  <2>1. /\ command.step \in {"prepare", "registering"} /\ files'.binary = files.binary
        /\ UNCHANGED last
    BY <1>7, <1>a DEF StartRegistering, Register, RegisterFails, RegisteredAs, FileRecords,
                      Succeed, End
  <2>2. \E s \in {"registering", "reload", "enable", "prepare"} : GoesTo(s)
    BY <1>7 DEF StartRegistering, Register, RegisterFails, Succeed, End, GoesTo
  <2>3. QED
    BY <1>f, <1>g, <2>1, <2>2
<1>8. CASE (Register \/ RegisterFails) /\ command' = NoCommand
  <2>1. command.step # "none" /\ \A s : ~(GoesTo(s) /\ s # "none")
    BY <1>8, <1>a, <1>b, Goes DEF Register, RegisterFails
  <2>2. CASE RegisterFails
    <3>1. last' = "copied"
      BY <2>1, <2>2 DEF RegisterFails, GoesTo
    <3>2. QED
      BY <1>8, <1>c, <3>1
  <2>3. CASE Register
    <3>0. ~Goto("reload") /\ ~Goto("enable")
      BY <2>1 DEF GoesTo
    <3>1. RegisteredAs # "unit" /\ initSystem # "sysv" /\ Succeed(FALSE)
      BY <3>0, <2>3 DEF Register
    <3>2. command.failed
      BY <1>a, <3>1, LifecycleAssumption DEF RegisteredAs, TypeOK
    <3>3. last' # "installed"
      BY <3>1, <3>2 DEF Succeed, End
    <3>4. QED
      BY <1>8, <1>c, <1>e, <2>1, <3>3
  <2>4. QED
    BY <1>8, <2>2, <2>3
<1>9. CASE DaemonReload
  <2>1. command.step = "reload" /\ UNCHANGED <<files, last>> /\ GoesTo("enable")
    BY <1>9 DEF DaemonReload, GoesTo
  <2>2. QED
    BY <1>f, <1>g, <2>1
<1>10. CASE Enable
  <2>1. /\ command.step = "enable" /\ UNCHANGED <<files, loaded, initSystem>> /\ enabled'
    BY <1>10 DEF Enable
  <2>2. CASE initSystem = "systemd" /\ command.failed
    <3>1. command' = NoCommand /\ last' # "installed"
      BY <1>10, <2>2 DEF Enable, Succeed, End
    <3>2. QED
      BY <1>c, <1>e, <2>1, <3>1
  <2>3. CASE initSystem = "systemd" /\ ~command.failed
    <3>0. Registered /\ files.config = command.config
      BY <1>a, <2>1, <2>3 DEF AgreementInv
    <3>1. /\ command' = NoCommand /\ files.unit = loaded /\ loaded = command.config
          /\ service' = IF service.stage = "none" THEN Started(loaded) ELSE service
      BY <1>10, <2>1, <2>3, <3>0 DEF Enable, Succeed, End, Registered
    <3>2. loaded \in Configurations /\ StartsWith = loaded /\ StartsWith' = loaded
      BY <1>g, <2>1, <2>3, <3>1 DEF StartsWith
    <3>3. service'.stage \in {"up", "failed"}
      BY <1>a, <2>3, <3>1, <3>2 DEF Started, ServiceRecords
    <3>4. QED
      BY <1>b, <1>g, <2>1, <2>3, <3>1, <3>2, <3>3 DEF StartInv
  <2>4. CASE initSystem # "systemd"
    <3>1. GoesTo("stop") /\ UNCHANGED last
      BY <1>10, <2>4 DEF Enable, GoesTo
    <3>2. StartsWith \in Configurations
      BY <1>a, <1>g, <2>1, <2>4 DEF AgreementInv, Registered, StartsWith
    <3>3. QED
      BY <1>d, <1>g, <2>1, <3>1, <3>2
  <2>5. QED
    BY <1>a, <2>2, <2>3, <2>4 DEF CommandRecords
\* What an installation that stops the service before knows.
<1>h. ASSUME command.step \in Stopping, UNCHANGED <<files, last, enabled, loaded, initSystem>>,
             NEW s \in Stopping \union {"forget"}, GoesTo(s)
      PROVE  StartInv'
  <2>1. command.name = "install" =>
          /\ files.binary = Whole /\ StartsWith \in Configurations
          /\ enabled' \/ command'.failed
    BY <1>a, <1>h, Goes DEF StartInv
  <2>2. QED
    BY <1>d, <1>h, <2>1
<1>11. CASE Stop \/ Stopped
  <2>1. /\ command.step \in Stopping /\ UNCHANGED <<files, last, enabled, loaded, initSystem>>
        /\ \E s \in {"stopped", "start", "forget"} : GoesTo(s)
    BY <1>11 DEF Stop, Stopped, GoesTo
  <2>2. QED
    BY <1>h, <2>1
<1>12. CASE NotStopped
  <2>1. CASE Fail
    BY <1>c, <2>1 DEF Fail
  <2>2. CASE ~Fail
    <3>1. /\ command.step = "stop" /\ UNCHANGED <<files, last, enabled, loaded, initSystem>>
          /\ GoesTo("forget")
      BY <1>12, <2>2 DEF NotStopped, GoesTo
    <3>2. QED
      BY <1>h, <3>1
  <2>3. QED
    BY <2>1, <2>2
<1>13. CASE Start
  <2>1. /\ command' = NoCommand /\ UNCHANGED <<files, enabled, loaded, initSystem>>
        /\ service' = Started(StartsWith) /\ command.step = "start"
    BY <1>13 DEF Start, Succeed, End
  <2>2. CASE command.name = "install" /\ ~command.failed
    <3>1. /\ files.binary = Whole /\ enabled /\ StartsWith \in Configurations
          /\ initSystem # "systemd"
      BY <1>a, <2>1, <2>2 DEF StartInv, AgreementInv
    <3>2. Stays(StartsWith) \/ NeedsTerminal(StartsWith)
      BY <3>1 DEF Stays
    <3>3. /\ StartsWith' = StartsWith
          /\ service'.stage = "up" \/ NeedsTerminal(StartsWith)
      BY <2>1, <3>2 DEF Started, StartsWith
    <3>4. QED
      BY <1>b, <2>1, <3>1, <3>3 DEF StartInv
  <2>3. CASE command.name # "install" \/ command.failed
    <3>1. last' # "installed"
      BY <1>13, <1>e, <2>1, <2>3 DEF Start, Succeed, End
    <3>2. QED
      BY <1>c, <2>1, <3>1
  <2>4. QED
    BY <2>2, <2>3
<1>14. CASE Disable
  <2>1. command.name # "install" /\ command.step # "none" /\ UNCHANGED <<files, loaded, initSystem>>
    BY <1>14, <1>a DEF Disable, CommandInv, Removing
  <2>2. CASE command.name = "disable"
    <3>1. command' = NoCommand /\ last' # "installed"
      BY <1>14, <1>e, <2>1, <2>2 DEF Disable, Succeed, End
    <3>2. QED
      BY <1>c, <3>1
  <2>3. CASE command.name # "disable"
    <3>1. GoesTo("remove unit") /\ UNCHANGED last
      BY <1>14, <2>3 DEF Disable, GoesTo
    <3>2. QED
      BY <1>f, <2>1, <3>1
  <2>4. QED
    BY <2>2, <2>3
<1>15. CASE RemoveUnit \/ Unload \/ RemoveScript \/ RemoveBinary
  <2>1. /\ command.name = "uninstall" /\ command.step # "none" /\ UNCHANGED last
        /\ \E s \in {"unload", "remove script", "remove binary", "remove config"} : GoesTo(s)
    BY <1>15, <1>a DEF RemoveUnit, Unload, RemoveScript, RemoveBinary, CommandInv, Uninstalling,
                       GoesTo
  <2>2. QED
    BY <1>f, <2>1
<1>16. CASE RemoveConfig
  <2>1. command.name = "uninstall" /\ command.step # "none" /\ command' = NoCommand
    BY <1>16, <1>a DEF RemoveConfig, CommandInv, Uninstalling, Succeed, End
  <2>2. last' # "installed"
    BY <1>16, <1>e, <2>1 DEF RemoveConfig, Succeed, End
  <2>3. QED
    BY <1>c, <2>1, <2>2
<1>17. ASSUME NEW name \in Commands, NEW c, NEW outside \in BOOLEAN,
              StartCommand(name, c, outside)
       PROVE  StartInv'
  <2>1. /\ command' = [name |-> name, config |-> c, outside |-> outside, failed |-> FALSE,
                       step |-> IF outside THEN "deploy" ELSE "begin"]
        /\ last' = "none" /\ UNCHANGED files /\ (outside \/ files.binary = Whole)
    BY <1>17 DEF StartCommand
  <2>2. command'.step = (IF outside THEN "deploy" ELSE "begin") /\ command'.outside = outside
    BY <2>1
  <2>3. QED
    BY <2>1, <2>2 DEF StartInv
<1>18. CASE StepFails \/ Kill
  BY <1>18, <1>c DEF StepFails, Kill, Fail
<1>19. CASE StepIgnored
  <2>1. /\ command.step \in Dropping /\ command.step # "none"
        /\ UNCHANGED <<files, enabled, loaded, initSystem>>
    BY <1>19 DEF StepIgnored, Dropping
  <2>2. CASE command' = NoCommand /\ last' = "none"
    BY <1>c, <1>e, <2>1, <2>2
  <2>3. CASE GoOnWithout(StepAfter) /\ UNCHANGED last /\ ~IsLast
    <3>1. GoesTo(StepAfter) /\ command'.failed
      BY <1>a, <2>3, Goes DEF GoesTo
    <3>2. CASE At("reload")
      BY <1>f, <1>g, <2>1, <2>3, <3>1, <3>2 DEF StepAfter
    <3>3. CASE At("enable")
      <4>1. initSystem # "systemd"
        BY <2>3, <3>3 DEF IsLast
      <4>2. StartsWith \in Configurations
        BY <1>a, <1>g, <3>3, <4>1 DEF AgreementInv, Registered, StartsWith
      <4>3. StepAfter = "stop"
        BY <3>3 DEF StepAfter
      <4>4. QED
        BY <1>d, <1>g, <2>1, <2>3, <3>1, <3>3, <4>2, <4>3
    <3>4. CASE At("stop")
      <4>1. StepAfter = "forget"
        BY <3>4 DEF StepAfter
      <4>2. QED
        BY <1>h, <2>1, <2>3, <3>1, <3>4, <4>1
    <3>5. CASE command.step \in Removing
      <4>1. command.name # "install"
        BY <1>a, <3>5 DEF CommandInv
      <4>2. StepAfter \in Uninstalling
        BY <2>3, <3>5 DEF StepAfter, IsLast, Removing, Uninstalling
      <4>3. QED
        BY <1>f, <2>1, <2>3, <3>1, <4>1, <4>2 DEF Uninstalling
    <3>6. QED
      BY <2>1, <3>2, <3>3, <3>4, <3>5 DEF Dropping, Removing, Uninstalling
  <2>4. QED
    BY <1>19, <2>2, <2>3 DEF StepIgnored, End, Fail
<1>20. CASE Reboot
  <2>1. CASE command # NoCommand
    BY <1>20, <1>c, <2>1 DEF Reboot, Fail
  <2>2. CASE command = NoCommand /\ last # "installed"
    BY <1>20, <1>c, <2>2 DEF Reboot
  <2>3. CASE command = NoCommand /\ last = "installed"
    <3> DEFINE args == IF initSystem = "systemd" THEN files.unit ELSE files.script
    <3>1. /\ command' = NoCommand /\ last' = "installed"
          /\ UNCHANGED <<files, enabled, initSystem>> /\ loaded' = files.unit
          /\ service' = IF enabled /\ args # Absent THEN Started(args) ELSE NoService
      BY <1>20, <2>3 DEF Reboot
    <3>2. /\ enabled /\ files.binary = Whole /\ StartsWith \in Configurations
          /\ initSystem = "systemd" => files.unit = loaded
      BY <2>3 DEF StartInv
    <3>3. args = StartsWith /\ StartsWith' = StartsWith /\ files'.unit = loaded'
      BY <3>1, <3>2 DEF StartsWith
    <3>4. args # Absent /\ (Stays(args) \/ NeedsTerminal(StartsWith))
      BY <3>2, <3>3, Names DEF Stays
    <3>5. service'.stage = "up" \/ NeedsTerminal(StartsWith)
      BY <3>1, <3>2, <3>4 DEF Started
    <3>6. QED
      BY <1>b, <3>1, <3>2, <3>3, <3>5 DEF StartInv
  <2>4. QED
    BY <2>1, <2>2, <2>3
<1>21. CASE ServiceDies
  <2>1. UNCHANGED <<files, loaded, enabled, command, initSystem>>
    BY <1>21 DEF ServiceDies
  <2>2. StartsWith' = StartsWith
    BY <2>1 DEF StartsWith
  <2>3. CASE initSystem = "systemd"
    <3>1. service'.stage = "failed" /\ last' = last
      BY <1>21, <1>a, <2>3 DEF ServiceDies, ServiceRecords
    <3>2. QED
      BY <2>1, <2>2, <2>3, <3>1 DEF StartInv
  <2>4. CASE initSystem # "systemd"
    <3>1. last' = "none"
      BY <1>21, <2>4 DEF ServiceDies
    <3>2. QED
      BY <2>1, <2>2, <3>1 DEF StartInv
  <2>5. QED
    BY <2>3, <2>4
<1>22. CASE RestartOnFailure
  <2>1. /\ UNCHANGED <<files, loaded, enabled, command, last, initSystem>>
        /\ service' = Started(loaded)
    BY <1>22 DEF RestartOnFailure
  <2>2. StartsWith' = StartsWith
    BY <2>1 DEF StartsWith
  <2>3. initSystem = "systemd"
    BY <1>22, <1>a DEF RestartOnFailure, RestartsOnFailure, AgreementInv
  <2>4. last = "installed" => service'.stage = "up" \/ NeedsTerminal(StartsWith)
    BY <2>1, <2>3 DEF StartInv, Started, StartsWith, Stays
  <2>5. QED
    BY <2>1, <2>2, <2>4 DEF StartInv
<1>23. CASE Drained \/ UNCHANGED vars
  <2>1. UNCHANGED <<files, loaded, enabled, command, service, last, initSystem>>
    BY <1>23 DEF Drained, vars
  <2>2. StartsWith' = StartsWith
    BY <2>1 DEF StartsWith
  <2>3. QED
    BY <2>1, <2>2 DEF StartInv
<1>24. QED
  BY <1>1, <1>2, <1>3, <1>4, <1>5, <1>6, <1>7, <1>8, <1>9, <1>10, <1>11, <1>12, <1>13, <1>14,
     <1>15, <1>16, <1>17, <1>18, <1>19, <1>20, <1>21, <1>22, <1>23
     DEF Next, CommandStep, Commands

-----------------------------------------------------------------------------
(* Theorems.                                                               *)

\* Every reachable state satisfies the inductive invariant.
THEOREM Invariant == Spec => []IInv
<1>1. IInv /\ [Next]_vars => IInv'
  BY CommandInductive, StopInductive, TypeInductive, ConfigInductive, AwayInductive,
     DrainInductive, AgreementInductive DEF IInv
<1>2. QED
  BY InvInit, <1>1, PTL DEF Spec

\* Types, and the program of a running service is whole: neither auto_deploy_to_bin
\* nor install_service writes over it.
THEOREM TypeCorrect == Spec => []TypeOK
<1>1. IInv => TypeOK
  BY DEF IInv
<1>2. QED
  BY Invariant, <1>1, PTL

\* config.json is never torn, whatever fails, is killed or loses power during
\* save_installed_config.
THEOREM ConfigWhole == Spec => []ConfigIsWhole
<1>1. IInv => ConfigIsWhole
  BY DEF IInv
<1>2. QED
  BY Invariant, <1>1, PTL

\* config.json is never there without mode 0600: the temporary file has it before
\* the rename.
THEOREM ConfigPrivate == Spec => []ConfigIsPrivate
<1>1. IInv => ConfigIsPrivate
  BY DEF IInv
<1>2. QED
  BY Invariant, <1>1, PTL

\* What disable_service and uninstall_service took away, when no failure was dropped
\* on the way, does not come back until another command.
THEOREM Away == Spec => []StaysAway
<1>1. IInv => StaysAway
  BY DEF IInv
<1>2. QED
  BY Invariant, <1>1, PTL

\* Under systemd a service starts when the process before it has drained: stop,
\* restart, install, the restart on failure and the reboot taken together.
THEOREM SafeRestarts == Spec => []SafeRestart
<1>1. IInv => SafeRestart
  BY DEF IInv, DrainInv, SafeRestart
<1>2. QED
  BY Invariant, <1>1, PTL

\* Between two commands the service runs with the configuration that config.json
\* holds, unless a command was cut off or dropped a failure, or installed a running
\* service again.
THEOREM AsInstalled == Spec => []ServiceIsAsInstalled
<1>1. IInv => ServiceIsAsInstalled
  BY DEF IInv, AgreementInv, Undisturbed, ServiceIsAsInstalled, NoCommand
<1>2. QED
  BY Invariant, <1>1, PTL

\* docs/OPERATIONS.md on install: once install_service has reported, with no failure
\* dropped on the way, the service is enabled and up, or is one systemd starts again
\* and that stays, through deaths of its process and reboots, until the next command;
\* unless its command line opens the dashboard, which needs a terminal.
THEOREM InstallsStart == Spec => []InstallStarts
<1>1. Init => StartInv
  BY DEF Init, StartInv, NoCommand
<1>2. IInv /\ StartInv /\ [Next]_vars => StartInv'
  BY StartInductive
<1>3. StartInv => InstallStarts
  BY DEF StartInv, InstallStarts, StartsWith, Stays
<1>4. QED
  BY Invariant, <1>1, <1>2, <1>3, PTL DEF Spec
=============================================================================
