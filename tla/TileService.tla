----------------------------- MODULE TileService -----------------------------
(***************************************************************************)
(* The tile server as a background service: what the desktop application   *)
(* asks for (src-tauri/src/lib.rs), the privileged command it runs         *)
(* (tile-serviced), what that tells systemd or the Windows service manager *)
(* (service.rs), and the process they run.  The application's own preview  *)
(* server, other programs and the service compete for ports; the machine   *)
(* reboots; the user may decline the elevation.                            *)
(*                                                                         *)
(* systemd and the service manager are external: they start what is        *)
(* enabled at boot, and systemd starts a service that failed again.        *)
(***************************************************************************)
EXTENDS Naturals, FiniteSets

CONSTANTS
  Ports,       \* the first is 7765
  MaxEvents    \* bound: things that happen to the machine

VARIABLES
  platform,    \* "linux" or "windows"
  portFile,    \* what the application shows: the service-port file
  unit,        \* the port of the installed service, or 0
  enabled,     \* is it started at boot
  process,     \* [state: "none", "starting", "serving", "deaf" or "restarting", port]
  preview,     \* the port of the application's own server, 0 while it is closed
  others,      \* ports of other programs
  asking,      \* the privileged command: [do, port], or none
  stale,       \* history: the last install asked for is not what runs
  events

vars == <<platform, portFile, unit, enabled, process, preview, others, asking, stale, events>>

Preferred == CHOOSE p \in Ports : \A q \in Ports : p <= q
NoProcess == [state |-> "none", port |-> 0]
NoCommand == [do |-> "none", port |-> 0]

Init ==
  /\ platform \in {"linux", "windows"}
  /\ portFile = Preferred
  /\ unit = 0 /\ enabled = FALSE
  /\ process = NoProcess
  /\ preview = 0 /\ others = {}
  /\ asking = NoCommand /\ stale = FALSE /\ events = 0

Listening == process.state = "serving"

\* On Linux every address conflicts; on Windows the loopback and all do not.
Holds(port) ==
  \/ port \in others
  \/ Listening /\ process.port = port
  \/ platform = "linux" /\ preview = port

-----------------------------------------------------------------------------
\* The application

\* serve_background: the first port that is free, or any other, 0 here as if closed.
OpenApp ==
  /\ preview = 0
  /\ LET free == {p \in Ports : p \notin others /\ ~(platform = "linux" /\ Listening /\ process.port = p)}
     IN /\ free # {}
        /\ preview' = CHOOSE p \in free : \A q \in free : p <= q
  /\ UNCHANGED <<platform, portFile, unit, enabled, process, others, asking, stale, events>>

CloseApp ==
  /\ preview # 0 /\ asking = NoCommand
  /\ preview' = 0
  /\ UNCHANGED <<platform, portFile, unit, enabled, process, others, asking, stale, events>>

\* service_install writes the port it shows before the user has agreed.
FileAsked(port) == port

AskInstall(port) ==
  /\ preview # 0 /\ asking = NoCommand /\ events < MaxEvents
  /\ events' = events + 1
  /\ portFile' = FileAsked(port)
  /\ asking' = [do |-> "install", port |-> port]
  /\ stale' = TRUE
  /\ UNCHANGED <<platform, unit, enabled, process, preview, others>>

Ask(do) ==
  /\ preview # 0 /\ asking = NoCommand /\ events < MaxEvents
  /\ events' = events + 1
  /\ asking' = [do |-> do, port |-> 0]
  /\ UNCHANGED <<platform, portFile, unit, enabled, process, preview, others, stale>>

\* The user declines, or the command is not found.
Decline ==
  /\ asking # NoCommand
  /\ asking' = NoCommand
  /\ UNCHANGED <<platform, portFile, unit, enabled, process, preview, others, stale, events>>

-----------------------------------------------------------------------------
\* tile-serviced and the service managers

Starting(port) == [state |-> "starting", port |-> port]

\* Linux: the unit is written; enable --now starts what does not run yet.
InstallUnit ==
  /\ platform = "linux" /\ asking.do = "install"
  /\ unit' = asking.port /\ enabled' = TRUE
  /\ process' = IF process = NoProcess THEN Starting(asking.port) ELSE process
  /\ stale' = (process # NoProcess /\ process.port # asking.port)
  /\ asking' = NoCommand
  /\ UNCHANGED <<platform, portFile, preview, others, events>>

\* Windows: a service that exists is not created again.
CreateService ==
  /\ platform = "windows" /\ asking.do = "install"
  /\ IF unit # 0 THEN UNCHANGED <<unit, enabled, process, stale>>
     ELSE /\ unit' = asking.port /\ enabled' = TRUE
          /\ process' = Starting(asking.port)
          /\ stale' = FALSE
  /\ asking' = NoCommand
  /\ UNCHANGED <<platform, portFile, preview, others, events>>

\* uninstall stops it first.
Uninstall ==
  /\ asking.do = "uninstall"
  /\ unit' = 0 /\ enabled' = FALSE /\ process' = NoProcess
  /\ asking' = NoCommand
  /\ UNCHANGED <<platform, portFile, preview, others, stale, events>>

\* A service that runs already is started without effect; a new start takes the unit as it is.
SetRunning ==
  /\ asking.do \in {"start", "stop"}
  /\ process' = IF asking.do = "stop" THEN NoProcess
                ELSE IF process = NoProcess /\ unit # 0 THEN Starting(unit) ELSE process
  /\ stale' = (stale /\ ~(process = NoProcess /\ unit = portFile))
  /\ asking' = NoCommand
  /\ UNCHANGED <<platform, portFile, unit, enabled, preview, others, events>>

\* serve_blocking binds.  A failure ends the process on Linux; on Windows nobody is
\* told of it, and the service stays "running".
Bind ==
  /\ process.state = "starting"
  /\ process' = [process EXCEPT !.state =
       IF ~Holds(process.port) THEN "serving"
       ELSE IF platform = "linux" THEN "restarting" ELSE "deaf"]
  /\ UNCHANGED <<platform, portFile, unit, enabled, preview, others, asking, stale, events>>

\* Mutant: systemd is not told to restart it.
NeverRestarts == FALSE

\* Restart=on-failure
Restarts == process.state = "restarting"

Restart ==
  /\ Restarts
  /\ process' = Starting(unit)
  /\ stale' = (stale /\ unit # portFile)
  /\ UNCHANGED <<platform, portFile, unit, enabled, preview, others, asking, events>>

\* What the manager says of the service: systemctl is-active, or the state it was told.
Status ==
  IF platform = "linux"
  THEN CASE process.state \in {"starting", "serving"} -> "active"
         [] process.state = "restarting" -> "activating"
         [] OTHER -> "inactive"
  ELSE IF unit = 0 THEN "not installed"
       ELSE IF process = NoProcess THEN "stopped" ELSE "running"

-----------------------------------------------------------------------------
\* The machine

Crash ==
  /\ process # NoProcess /\ events < MaxEvents
  /\ events' = events + 1
  /\ process' = IF platform = "linux" THEN [process EXCEPT !.state = "restarting"] ELSE NoProcess
  /\ UNCHANGED <<platform, portFile, unit, enabled, preview, others, asking, stale>>

Reboot ==
  /\ events < MaxEvents
  /\ events' = events + 1
  /\ process' = IF enabled THEN Starting(unit) ELSE NoProcess
  /\ stale' = (stale /\ unit # portFile)
  /\ preview' = 0 /\ others' = {} /\ asking' = NoCommand
  /\ UNCHANGED <<platform, portFile, unit, enabled>>

TakePort(port) ==
  /\ ~Holds(port) /\ preview # port /\ events < MaxEvents
  /\ events' = events + 1
  /\ others' = others \cup {port}
  /\ UNCHANGED <<platform, portFile, unit, enabled, process, preview, asking, stale>>

FreePort(port) ==
  /\ port \in others
  /\ others' = others \ {port}
  /\ UNCHANGED <<platform, portFile, unit, enabled, process, preview, asking, stale, events>>

Next ==
  \/ OpenApp \/ CloseApp \/ Decline
  \/ \E do \in {"uninstall", "start", "stop"} : Ask(do)
  \/ InstallUnit \/ CreateService \/ Uninstall \/ SetRunning
  \/ Bind \/ Restart \/ Crash \/ Reboot
  \/ \E port \in Ports : AskInstall(port) \/ TakePort(port) \/ FreePort(port)

\* systemd and the service manager start what they have to.
Progress == Bind \/ Restart

Spec == Init /\ [][Next]_vars /\ WF_vars(Progress)

-----------------------------------------------------------------------------
\* Properties

\* The port the application shows is the one the service has, unless the last
\* install was declined or failed, or went over a service that still runs; and
\* two servers never have one port on Linux.
ShownPortServes ==
  /\ ~stale /\ process # NoProcess => process.port = portFile
  /\ platform = "linux" /\ Listening => preview # process.port

\* On Linux a service that is to run serves in the end, if its port is free from
\* some time on; on Windows it may have to be started again.
ComesToServe ==
  []<>(platform = "windows" \/ process = NoProcess \/ Listening \/ Holds(process.port))
=============================================================================
