------------------------------ MODULE AppMain ------------------------------
(***************************************************************************)
(* app/AppMain.cpp: WinMain of the desktop application starts a session    *)
(* monitor in the user's own session, makes the window, runs the message   *)
(* loop, whose Lock button calls LockWorkStation on the main thread, and   *)
(* stops the monitor.  When the window cannot be made it returns without   *)
(* that, and the monitor's destructor stops it on the way out.  What the   *)
(* window shows and stores is modelled in Desktop.  The prefix App keeps   *)
(* its names apart from those of Service, which runs a monitor as well.    *)
(***************************************************************************)
EXTENDS SessionMonitor

VARIABLE winMain   \* where WinMain is: the step that comes next

appVars == <<monitorVars, winMain>>

AppInit == MonitorInit /\ winMain = "monitor"

AppStep(here, next) == winMain = here /\ winMain' = next
-----------------------------------------------------------------------------
(* WinMain *)

AppStartMonitor == AppStep("monitor", "window") /\ MonitorStart

\* NativeWin32Window::Initialize, or its failure: WinMain returns, and ~SessionMonitor
\* calls Stop
MakeWindow ==
  /\ AppStep("window", "loop") \/ AppStep("window", "lower")
  /\ UNCHANGED monitorVars

LockButton == AppStep("loop", "loop") /\ LockWorkStation

\* Exit in the tray menu, or the close button
CloseWindow == AppStep("loop", "lower") /\ UNCHANGED monitorVars

\* Mutant: look for the window before the flag is lowered
AppStopMonitorBackwards ==
  \/ monitoring /\ AppStep("lower", "post") /\ MonitorPostClose
  \/ ~monitoring /\ AppStep("lower", "returned") /\ UNCHANGED monitorVars
  \/ AppStep("post", "wait") /\ MonitorLower
  \/ AppStep("wait", "returned") /\ UNCHANGED monitorVars

\* SessionMonitor::Stop: the wait ends with the thread, or after a second; a monitor
\* that could not open its window has lowered the flag itself
AppStopMonitor ==
  \/ monitoring /\ AppStep("lower", "post") /\ MonitorLower
  \/ ~monitoring /\ AppStep("lower", "returned") /\ UNCHANGED monitorVars
  \/ AppStep("post", "wait") /\ MonitorPostClose
  \/ AppStep("wait", "returned") /\ UNCHANGED monitorVars

WinMain == AppStartMonitor \/ MakeWindow \/ LockButton \/ CloseWindow \/ AppStopMonitor
-----------------------------------------------------------------------------
(* The monitor's thread, which ends with the process, and Windows *)

AppPump == winMain # "returned" /\ PumpStep /\ UNCHANGED winMain

PcEvent == SessionEvent /\ UNCHANGED winMain

AppNext == WinMain \/ AppPump \/ PcEvent

AppSpec == AppInit /\ [][AppNext]_appVars
-----------------------------------------------------------------------------
(* Properties *)

AppTypeOK ==
  /\ MonitorTypeOK
  /\ winMain \in {"monitor", "window", "loop", "lower", "post", "wait", "returned"}

\* Stop never waits in vain: while it waits, a thread that is in GetMessage has
\* the WM_CLOSE before it, whichever of the two was first to look at the flag and
\* at the window.
StopReachesTheThread ==
  winMain = "wait" /\ pump = "getting" => \E i \in DOMAIN queue : queue[i] = "CLOSE"
-----------------------------------------------------------------------------
(* The inductive invariant *)

\* A thread in its loop has its window, and from the moment Stop looks for
\* the window the flag stays lowered.
StopInOrder ==
  /\ pump \in {"testing", "getting"} => window # "none"
  /\ winMain \in {"post", "wait"} => ~monitoring

AppInv == AppTypeOK /\ LockUnderWay /\ StopInOrder /\ StopReachesTheThread
=============================================================================
