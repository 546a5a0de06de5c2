--------------------------- MODULE SessionMonitor ---------------------------
(***************************************************************************)
(* session/SessionMonitor.cpp: a thread with a message-only window hears   *)
(* from Windows that the session was locked or unlocked and that the PC    *)
(* suspends or resumes, and keeps its view of the session, which the pipe, *)
(* the beacon and the HTTP server read.  Stop posts WM_CLOSE and waits for *)
(* one second.  LockWorkStation asks Windows for a lock, which happens     *)
(* later, and then marks the session as locked itself.  Windows is         *)
(* modelled by what it posts, and generously: it posts every suspend and   *)
(* resume to the window, and every lock and unlock of the PC's session     *)
(* once the window is registered for them.                                 *)
(***************************************************************************)
EXTENDS Naturals, Sequences

CONSTANTS
  MaxEvents     \* bound on the locks, unlocks, suspends and resumes of the PC

ASSUME MonitorAssumption == MaxEvents \in Nat

VARIABLES
  monitoring,   \* m_isRunning
  pump,         \* where MessageThreadProc is
  window,       \* m_hWnd: none, or what WTSRegisterSessionNotification made of it
  queue,        \* the messages posted to it
  view,         \* m_currentState, m_isLocked, m_isSleeping
  locked,       \* Windows: is the session locked?
  asleep,       \* Windows: is the PC suspended?
  events,       \* what happened to the session so far
  unheard       \* history: no registered window was there at the last lock or unlock

monitor == <<monitoring, pump, window, queue, view>>
session == <<locked, asleep, events, unheard>>
monitorVars == <<monitor, session>>

Views == [state : {"Unlocked", "Locked", "Sleep"},
          isLocked : BOOLEAN, isSleeping : BOOLEAN]

\* WTS_SESSION_LOGOFF and LOGON are handled as LOCK and UNLOCK are
Messages == {"LOCK", "UNLOCK", "SUSPEND", "RESUME", "CLOSE"}

MonitorInit ==
  /\ monitoring = FALSE /\ pump = "none" /\ window = "none" /\ queue = <<>>
  /\ view = [state |-> "Unlocked", isLocked |-> FALSE, isSleeping |-> FALSE]
  /\ locked \in BOOLEAN /\ asleep = FALSE /\ events = 0 /\ unheard = locked
-----------------------------------------------------------------------------
(* HandleMessage *)

\* Neither the service nor the desktop application sets m_onLock and the other
\* callbacks (only SessionMonitorMain sets two, which write to the log): a message
\* changes the view and nothing else.

\* Mutant: a resume brings the session back as it is while the user works
ViewAfterUnlocked(v, m) ==
  CASE m = "LOCK" -> [v EXCEPT !.state = "Locked", !.isLocked = TRUE]
    [] m = "UNLOCK" -> [v EXCEPT !.state = "Unlocked", !.isLocked = FALSE]
    [] m = "SUSPEND" -> [v EXCEPT !.state = "Sleep", !.isSleeping = TRUE]
    [] m = "RESUME" -> [state |-> "Unlocked", isLocked |-> FALSE, isSleeping |-> FALSE]

ViewAfter(v, m) ==
  CASE m = "LOCK" -> [v EXCEPT !.state = "Locked", !.isLocked = TRUE]
    [] m = "UNLOCK" -> [v EXCEPT !.state = "Unlocked", !.isLocked = FALSE]
    [] m = "SUSPEND" -> [v EXCEPT !.state = "Sleep", !.isSleeping = TRUE]
    [] m = "RESUME" -> [state |-> "Locked", isLocked |-> TRUE, isSleeping |-> FALSE]
-----------------------------------------------------------------------------
(* The thread *)

\* CreateWindowEx, or its failure, and WTSRegisterSessionNotification.  Nobody looks
\* whether that failed: the thread then goes on with a window that hears of no session.
OpenWindow ==
  /\ pump = "starting"
  /\ \/ pump' = "testing" /\ window' \in {"registered", "deaf"} /\ UNCHANGED monitoring
     \/ pump' = "ended" /\ monitoring' = FALSE /\ UNCHANGED window
  /\ UNCHANGED <<queue, view, session>>

\* The loop's test of m_isRunning; a stopped loop destroys its window
TestRunning ==
  /\ pump = "testing"
  /\ IF monitoring THEN pump' = "getting" /\ UNCHANGED window
                   ELSE pump' = "ended" /\ window' = "none"
  /\ UNCHANGED <<monitoring, queue, view, session>>

\* GetMessage and DispatchMessage.  WM_CLOSE destroys the window, which ends the loop.
Dispatch ==
  /\ pump = "getting"
  /\ queue # <<>>
  /\ queue' = Tail(queue)
  /\ IF Head(queue) = "CLOSE"
     THEN pump' = "ended" /\ window' = "none" /\ UNCHANGED view
     ELSE /\ pump' = "testing"
          /\ view' = ViewAfter(view, Head(queue))
          /\ UNCHANGED window
  /\ UNCHANGED <<monitoring, session>>
-----------------------------------------------------------------------------
(* The callers' side *)

\* CreateThread may fail; nobody looks
MonitorStart ==
  /\ monitoring' = TRUE
  /\ pump' \in {"starting", "none"}
  /\ UNCHANGED <<window, queue, view, session>>

\* Stop: lower the flag, then look for the window, then wait for the thread
MonitorLower ==
  /\ monitoring' = FALSE
  /\ UNCHANGED <<pump, window, queue, view, session>>

\* A message goes to a window that hears it
Post(m, hears) == queue' = IF hears THEN Append(queue, m) ELSE queue

\* Mutant: the message that ends a thread's loop, posted to the window
MonitorPostQuit ==
  /\ queue' = IF window # "none" THEN Append(queue, "QUIT") ELSE queue
  /\ UNCHANGED <<monitoring, pump, window, view, session>>

MonitorPostClose ==
  /\ Post("CLOSE", window # "none")
  /\ UNCHANGED <<monitoring, pump, window, view, session>>

\* ::LockWorkStation has returned; if TRUE, the view is changed
\* before or after the session really locks
LockWorkStation ==
  \/ UNCHANGED monitorVars
  \/ /\ view' = ViewAfter(view, "LOCK")
     /\ UNCHANGED <<monitoring, pump, window, queue, session>>
-----------------------------------------------------------------------------
(* Windows *)

\* What happens is posted to a window that hears of it
Happens(m, hears) ==
  /\ events < MaxEvents
  /\ events' = events + 1
  /\ Post(m, hears)
  /\ UNCHANGED <<monitoring, pump, window, view>>

PcLocks ==
  /\ ~locked
  /\ locked' = TRUE /\ unheard' = (window # "registered")
  /\ Happens("LOCK", window = "registered")
  /\ UNCHANGED asleep

PcUnlocks ==
  /\ locked /\ ~asleep
  /\ locked' = FALSE /\ unheard' = (window # "registered")
  /\ Happens("UNLOCK", window = "registered")
  /\ UNCHANGED asleep

PcSuspends ==
  /\ ~asleep
  /\ asleep' = TRUE
  /\ Happens("SUSPEND", window # "none")
  /\ UNCHANGED <<locked, unheard>>

PcResumes ==
  /\ asleep
  /\ asleep' = FALSE
  /\ Happens("RESUME", window # "none")
  /\ UNCHANGED <<locked, unheard>>

PumpStep == OpenWindow \/ TestRunning \/ Dispatch
SessionEvent == PcLocks \/ PcUnlocks \/ PcSuspends \/ PcResumes
-----------------------------------------------------------------------------
(* Properties *)

MonitorTypeOK ==
  /\ monitoring \in BOOLEAN
  /\ pump \in {"none", "starting", "testing", "getting", "ended"}
  /\ window \in {"none", "deaf", "registered"}
  /\ queue \in Seq(Messages)
  /\ view \in Views
  /\ locked \in BOOLEAN /\ asleep \in BOOLEAN /\ unheard \in BOOLEAN
  /\ events \in 0..MaxEvents

\* A lock that Windows announced is in the view as soon as the messages are
\* handled, whatever suspends, resumes and remote locks come between: the view
\* may say that an unlocked session is locked (LockWorkStation marks it late, and
\* so does a resume), but not the reverse.  Not announced is what comes while no
\* window is registered, and after a failed registration none ever is.
LockIsNoticed ==
  pump = "getting" /\ queue = <<>> /\ locked /\ ~unheard => view.isLocked
-----------------------------------------------------------------------------
(* The inductive invariant behind LockIsNoticed *)

\* An announced lock is the view's (place 0) or a message's, with no unlock after it.
LockUnderWay ==
  locked /\ ~unheard =>
    \E i \in 0..Len(queue) :
      /\ IF i = 0 THEN view.isLocked ELSE queue[i] = "LOCK"
      /\ \A j \in (i + 1)..Len(queue) : queue[j] # "UNLOCK"
=============================================================================
