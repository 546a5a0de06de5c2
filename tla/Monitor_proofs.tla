--------------------------- MODULE Monitor_proofs ---------------------------
(***************************************************************************)
(* Theorems about the two programs that run a session monitor, for any     *)
(* number of events and clients.  The application: its type invariant,     *)
(* that the view notices every announced lock, and that Stop never waits   *)
(* in vain for a thread that is in GetMessage.  The service: its type      *)
(* invariant, that it is quiet when it says that it has stopped, and that  *)
(* a stopped server serves nobody.                                         *)
(***************************************************************************)
EXTENDS AppMain, Service, TLAPS

\* The initial state satisfies the inductive invariant.
LEMMA AppInitInv == AppInit => AppInv
<1>. SUFFICES ASSUME AppInit PROVE AppInv
  OBVIOUS
<1>. USE MonitorAssumption DEF AppInit, MonitorInit
<1>1. AppTypeOK
  <2>1. view \in Views /\ queue \in Seq(Messages) /\ events \in 0..MaxEvents
    BY DEF Views
  <2>2. locked \in BOOLEAN /\ unheard \in BOOLEAN
    OBVIOUS
  <2>. QED  BY <2>1, <2>2 DEF AppTypeOK, MonitorTypeOK
<1>2. LockUnderWay
  BY DEF LockUnderWay
<1>3. StopInOrder /\ StopReachesTheThread
  BY DEF StopInOrder, StopReachesTheThread
<1>. QED  BY <1>1, <1>2, <1>3 DEF AppInv
-----------------------------------------------------------------------------
(* Messages *)

\* HandleMessage yields a view; a lock is in it, and only an unlock takes it out.
LEMMA Viewed ==
  ASSUME NEW v \in Views, NEW m \in Messages \ {"CLOSE"}
  PROVE  /\ ViewAfter(v, m) \in Views
         /\ m = "LOCK" \/ (m # "UNLOCK" /\ v.isLocked) => ViewAfter(v, m).isLocked
<1>1. CASE m = "LOCK"
  <2>1. ViewAfter(v, m) = [v EXCEPT !.state = "Locked", !.isLocked = TRUE]
    BY <1>1 DEF ViewAfter
  <2>. QED  BY <2>1 DEF Views
<1>2. CASE m = "UNLOCK"
  <2>1. ViewAfter(v, m) = [v EXCEPT !.state = "Unlocked", !.isLocked = FALSE]
    BY <1>2 DEF ViewAfter
  <2>. QED  BY <1>2, <2>1 DEF Views
<1>3. CASE m = "SUSPEND"
  <2>1. ViewAfter(v, m) = [v EXCEPT !.state = "Sleep", !.isSleeping = TRUE]
    BY <1>3 DEF ViewAfter
  <2>. QED  BY <1>3, <2>1 DEF Views
<1>4. CASE m = "RESUME"
  <2>1. ViewAfter(v, m) = [state |-> "Locked", isLocked |-> TRUE, isSleeping |-> FALSE]
    BY <1>4 DEF ViewAfter
  <2>. QED  BY <2>1 DEF Views
<1>. QED  BY <1>1, <1>2, <1>3, <1>4 DEF Messages

\* A message that is posted leaves a queue of messages, and keeps a WM_CLOSE in it.
LEMMA PostKeeps ==
  ASSUME queue \in Seq(Messages), NEW m \in Messages, NEW hears, Post(m, hears)
  PROVE  /\ queue' \in Seq(Messages)
         /\ (\E i \in DOMAIN queue : queue[i] = "CLOSE") =>
              \E i \in DOMAIN queue' : queue'[i] = "CLOSE"
BY DEF Post

\* A message that is no unlock leaves an announced lock under way.
LEMMA PostKeepsLock ==
  ASSUME queue \in Seq(Messages), NEW m \in Messages \ {"UNLOCK"}, LockUnderWay,
         NEW hears, Post(m, hears),
         UNCHANGED <<view, locked, unheard>>
  PROVE  LockUnderWay'
<1>1. CASE ~hears
  BY <1>1 DEF Post, LockUnderWay
<1>2. CASE hears /\ locked /\ ~unheard
  <2>1. PICK i \in 0..Len(queue) :
          /\ IF i = 0 THEN view.isLocked ELSE queue[i] = "LOCK"
          /\ \A j \in (i + 1)..Len(queue) : queue[j] # "UNLOCK"
    BY <1>2 DEF LockUnderWay
  <2>2. Len(queue') = Len(queue) + 1 /\ queue'[Len(queue) + 1] = m
    BY <1>2 DEF Post
  <2>3. \A j \in 1..Len(queue) : queue'[j] = queue[j]
    BY <1>2 DEF Post
  <2>4. i \in 0..Len(queue')
    BY <2>2
  <2>5. IF i = 0 THEN view'.isLocked ELSE queue'[i] = "LOCK"
    BY <2>1, <2>3
  <2>6. \A j \in (i + 1)..Len(queue') : queue'[j] # "UNLOCK"
    BY <2>1, <2>2, <2>3
  <2>. QED  BY <2>4, <2>5, <2>6 DEF LockUnderWay
<1>. QED  BY <1>1, <1>2 DEF LockUnderWay

\* A lock is under way from the moment it is posted.
LEMMA LockPosted ==
  ASSUME queue \in Seq(Messages), PcLocks
  PROVE  LockUnderWay'
<1>1. CASE window = "registered"
  <2>1. queue' = Append(queue, "LOCK")
    BY <1>1 DEF PcLocks, Happens, Post
  <2>2. /\ Len(queue') = Len(queue) + 1 /\ queue'[Len(queue')] = "LOCK"
        /\ Len(queue') \in 0..Len(queue') /\ Len(queue') # 0
    BY <2>1
  <2>3. (Len(queue') + 1)..Len(queue') = {}
    BY <2>2
  <2>. QED  BY <2>2, <2>3 DEF LockUnderWay
<1>2. CASE window # "registered"
  BY <1>2 DEF PcLocks, LockUnderWay
<1>. QED  BY <1>1, <1>2

\* Handling a message keeps an announced lock under way: a lock that is taken from
\* the queue is in the view.
LEMMA DispatchKeepsLock ==
  ASSUME MonitorTypeOK, LockUnderWay, Dispatch
  PROVE  LockUnderWay'
<1>. SUFFICES ASSUME locked, ~unheard
              PROVE  \E i \in 0..Len(queue') :
                       /\ IF i = 0 THEN view'.isLocked ELSE queue'[i] = "LOCK"
                       /\ \A j \in (i + 1)..Len(queue') : queue'[j] # "UNLOCK"
  BY DEF Dispatch, session, LockUnderWay
<1>1. PICK i \in 0..Len(queue) :
        /\ IF i = 0 THEN view.isLocked ELSE queue[i] = "LOCK"
        /\ \A j \in (i + 1)..Len(queue) : queue[j] # "UNLOCK"
  BY DEF LockUnderWay
<1>2. /\ queue \in Seq(Messages) /\ queue # <<>> /\ queue' = Tail(queue)
      /\ Len(queue) \in Nat /\ Len(queue) >= 1
      /\ Head(queue) = queue[1] /\ queue[1] \in Messages
  BY DEF MonitorTypeOK, Dispatch
<1>3. /\ Len(queue') = Len(queue) - 1
      /\ \A j \in 1..Len(queue') : queue'[j] = queue[j + 1]
  BY <1>2
<1>4. CASE i >= 2
  <2>1. i - 1 \in 1..Len(queue') /\ queue'[i - 1] = "LOCK"
    BY <1>1, <1>2, <1>3, <1>4
  <2>2. \A j \in i..Len(queue') : queue'[j] # "UNLOCK"
    BY <1>1, <1>2, <1>3, <1>4
  <2>3. i - 1 \in 0..Len(queue') /\ i - 1 # 0 /\ (i - 1) + 1 = i
    BY <2>1
  <2>. QED  BY <2>1, <2>2, <2>3
<1>5. CASE i \in {0, 1}
  <2>1. view'.isLocked
    <3>1. view \in Views
      BY DEF MonitorTypeOK
    <3>2. view' = view \/ (view' = ViewAfter(view, queue[1]) /\ queue[1] # "CLOSE")
      BY <1>2 DEF Dispatch
    <3>3. CASE i = 0
      <4>1. view.isLocked /\ queue[1] # "UNLOCK"
        BY <1>1, <1>2, <3>3
      <4>. QED  BY <4>1, <1>2, <3>1, <3>2, Viewed
    <3>4. CASE i = 1
      <4>1. queue[1] = "LOCK"
        BY <1>1, <3>4
      <4>2. view' = ViewAfter(view, queue[1]) /\ queue[1] # "CLOSE"
        BY <1>2, <4>1 DEF Dispatch
      <4>. QED  BY <4>1, <4>2, <1>2, <3>1, Viewed
    <3>. QED  BY <1>5, <3>3, <3>4
  <2>2. \A j \in 1..Len(queue') : queue'[j] # "UNLOCK"
    BY <1>1, <1>2, <1>3, <1>5
  <2>3. 0 \in 0..Len(queue')
    BY <1>2, <1>3
  <2>. QED  BY <2>1, <2>2, <2>3
<1>. QED  BY <1>4, <1>5
-----------------------------------------------------------------------------
(* The thread and Windows *)

\* The thread's steps.
LEMMA PumpKeepsInv ==
  ASSUME AppInv, AppPump
  PROVE  AppInv'
<1>. USE DEF AppInv
<1>1. CASE OpenWindow
  <2>1. AppTypeOK' /\ LockUnderWay'
    BY <1>1 DEF AppPump, OpenWindow, session, AppTypeOK, MonitorTypeOK, LockUnderWay
  <2>2. StopInOrder' /\ StopReachesTheThread'
    BY <1>1 DEF AppPump, OpenWindow, StopInOrder, StopReachesTheThread
  <2>. QED  BY <2>1, <2>2
<1>2. CASE TestRunning
  <2>1. AppTypeOK' /\ LockUnderWay'
    BY <1>2 DEF AppPump, TestRunning, session, AppTypeOK, MonitorTypeOK, LockUnderWay
  <2>2. StopInOrder' /\ StopReachesTheThread'
    BY <1>2 DEF AppPump, TestRunning, StopInOrder, StopReachesTheThread
  <2>. QED  BY <2>1, <2>2
<1>3. CASE Dispatch
  <2>1. queue' \in Seq(Messages) /\ Head(queue) \in Messages
    BY <1>3 DEF Dispatch, AppTypeOK, MonitorTypeOK
  <2>2. view' \in Views
    BY <1>3, <2>1, Viewed DEF Dispatch, AppTypeOK, MonitorTypeOK
  <2>3. pump' \in {"ended", "testing"} /\ window' \in {"none", "deaf", "registered"}
    BY <1>3 DEF Dispatch, AppTypeOK, MonitorTypeOK
  <2>4. AppTypeOK'
    BY <1>3, <2>1, <2>2, <2>3 DEF AppPump, Dispatch, session, AppTypeOK, MonitorTypeOK
  <2>5. LockUnderWay'
    BY <1>3, DispatchKeepsLock DEF AppTypeOK
  <2>6. StopInOrder' /\ StopReachesTheThread'
    BY <1>3, <2>3 DEF AppPump, Dispatch, StopInOrder, StopReachesTheThread
  <2>. QED  BY <2>4, <2>5, <2>6
<1>. QED  BY <1>1, <1>2, <1>3 DEF AppPump, PumpStep

\* What Windows posts: nothing else of the monitor changes.
LEMMA HappensKeeps ==
  ASSUME AppInv, NEW m \in Messages, NEW hears, Happens(m, hears), winMain' = winMain,
         locked' \in BOOLEAN, asleep' \in BOOLEAN, unheard' \in BOOLEAN
  PROVE  AppTypeOK' /\ StopInOrder' /\ StopReachesTheThread'
<1>1. /\ queue' \in Seq(Messages)
      /\ (\E i \in DOMAIN queue : queue[i] = "CLOSE") =>
           \E i \in DOMAIN queue' : queue'[i] = "CLOSE"
  BY PostKeeps DEF AppInv, AppTypeOK, MonitorTypeOK, Happens
<1>2. events' \in 0..MaxEvents
  BY MonitorAssumption DEF AppInv, AppTypeOK, MonitorTypeOK, Happens
<1>3. AppTypeOK'
  BY <1>1, <1>2 DEF AppInv, AppTypeOK, MonitorTypeOK, Happens
<1>4. StopInOrder' /\ StopReachesTheThread'
  BY <1>1 DEF AppInv, StopInOrder, StopReachesTheThread, Happens
<1>. QED  BY <1>3, <1>4

\* What happens to the session.
LEMMA SessionKeepsInv ==
  ASSUME AppInv, PcEvent
  PROVE  AppInv'
<1>1. /\ queue \in Seq(Messages) /\ winMain' = winMain
      /\ locked \in BOOLEAN /\ asleep \in BOOLEAN /\ unheard \in BOOLEAN
  BY DEF AppInv, AppTypeOK, MonitorTypeOK, PcEvent
<1>2. {"LOCK", "UNLOCK", "SUSPEND", "RESUME"} \subseteq Messages
  BY DEF Messages
<1>3. CASE PcLocks
  <2>1. LockUnderWay'
    BY <1>1, <1>3, LockPosted
  <2>2. AppTypeOK' /\ StopInOrder' /\ StopReachesTheThread'
    BY <1>1, <1>2, <1>3, HappensKeeps DEF PcLocks
  <2>. QED  BY <2>1, <2>2 DEF AppInv
<1>4. CASE PcUnlocks
  <2>1. LockUnderWay'
    BY <1>4 DEF PcUnlocks, LockUnderWay
  <2>2. AppTypeOK' /\ StopInOrder' /\ StopReachesTheThread'
    BY <1>1, <1>2, <1>4, HappensKeeps DEF PcUnlocks
  <2>. QED  BY <2>1, <2>2 DEF AppInv
<1>5. CASE PcSuspends
  <2>1. LockUnderWay'
    BY <1>1, <1>2, <1>5, PostKeepsLock DEF AppInv, PcSuspends, Happens
  <2>2. AppTypeOK' /\ StopInOrder' /\ StopReachesTheThread'
    BY <1>1, <1>2, <1>5, HappensKeeps DEF PcSuspends
  <2>. QED  BY <2>1, <2>2 DEF AppInv
<1>6. CASE PcResumes
  <2>1. LockUnderWay'
    BY <1>1, <1>2, <1>6, PostKeepsLock DEF AppInv, PcResumes, Happens
  <2>2. AppTypeOK' /\ StopInOrder' /\ StopReachesTheThread'
    BY <1>1, <1>2, <1>6, HappensKeeps DEF PcResumes
  <2>. QED  BY <2>1, <2>2 DEF AppInv
<1>. QED  BY <1>3, <1>4, <1>5, <1>6 DEF PcEvent, SessionEvent
-----------------------------------------------------------------------------
(* WinMain *)

\* A step of WinMain that leaves the monitor alone and does not enter Stop's wait.
LEMMA MonitorUntouched ==
  ASSUME AppInv, UNCHANGED monitorVars,
         winMain' \in {"loop", "lower", "returned"}
  PROVE  AppInv'
<1>. USE DEF AppInv, monitorVars, monitor, session
<1>1. AppTypeOK'
  BY DEF AppTypeOK, MonitorTypeOK
<1>2. LockUnderWay'
  BY DEF LockUnderWay
<1>3. StopInOrder' /\ StopReachesTheThread'
  BY DEF StopInOrder, StopReachesTheThread
<1>. QED  BY <1>1, <1>2, <1>3

\* SessionMonitor::Stop.
LEMMA StopKeepsInv ==
  ASSUME AppInv, AppStopMonitor
  PROVE  AppInv'
<1>1. CASE monitoring /\ AppStep("lower", "post") /\ MonitorLower
  <2>1. AppTypeOK'
    BY <1>1 DEF AppInv, AppTypeOK, MonitorTypeOK, MonitorLower, session, AppStep
  <2>2. LockUnderWay'
    BY <1>1 DEF AppInv, LockUnderWay, MonitorLower, session
  <2>3. StopInOrder' /\ StopReachesTheThread'
    BY <1>1 DEF AppInv, StopInOrder, StopReachesTheThread, MonitorLower, AppStep
  <2>. QED  BY <2>1, <2>2, <2>3 DEF AppInv
<1>2. CASE AppStep("post", "wait") /\ MonitorPostClose
  <2>1. queue' \in Seq(Messages) /\ queue \in Seq(Messages) /\ "CLOSE" \in Messages
    BY <1>2, PostKeeps DEF AppInv, AppTypeOK, MonitorTypeOK, MonitorPostClose, Messages
  <2>2. AppTypeOK'
    BY <1>2, <2>1 DEF AppInv, AppTypeOK, MonitorTypeOK, MonitorPostClose, session, AppStep
  <2>3. LockUnderWay'
    BY <1>2, <2>1, PostKeepsLock DEF AppInv, MonitorPostClose, session
  <2>4. StopInOrder'
    BY <1>2 DEF AppInv, StopInOrder, MonitorPostClose, AppStep
  <2>5. StopReachesTheThread'
    <3>1. window # "none" => Len(queue) + 1 \in DOMAIN queue' /\ queue'[Len(queue) + 1] = "CLOSE"
      BY <1>2, <2>1 DEF MonitorPostClose, Post
    <3>2. pump' = "getting" => window # "none"
      BY <1>2 DEF AppInv, StopInOrder, MonitorPostClose
    <3>. QED  BY <3>1, <3>2 DEF StopReachesTheThread
  <2>. QED  BY <2>2, <2>3, <2>4, <2>5 DEF AppInv
<1>3. CASE winMain' = "returned" /\ UNCHANGED monitorVars
  BY <1>3, MonitorUntouched
<1>. QED  BY <1>1, <1>2, <1>3 DEF AppStopMonitor, AppStep

\* WinMain's steps.
LEMMA WinMainKeepsInv ==
  ASSUME AppInv, WinMain
  PROVE  AppInv'
<1>1. CASE AppStartMonitor
  <2>1. AppTypeOK'
    BY <1>1 DEF AppInv, AppTypeOK, MonitorTypeOK, AppStartMonitor, MonitorStart, session, AppStep
  <2>2. LockUnderWay'
    BY <1>1 DEF AppInv, LockUnderWay, AppStartMonitor, MonitorStart, session
  <2>3. StopInOrder' /\ StopReachesTheThread'
    BY <1>1 DEF AppInv, StopInOrder, StopReachesTheThread, AppStartMonitor, MonitorStart, AppStep
  <2>. QED  BY <2>1, <2>2, <2>3 DEF AppInv
<1>2. CASE MakeWindow \/ CloseWindow
  BY <1>2, MonitorUntouched DEF MakeWindow, CloseWindow, AppStep
<1>3. CASE LockButton
  <2>1. CASE UNCHANGED monitorVars
    BY <1>3, <2>1, MonitorUntouched DEF LockButton, AppStep
  <2>2. CASE /\ view' = ViewAfter(view, "LOCK")
             /\ UNCHANGED <<monitoring, pump, window, queue, session>>
    <3>1. view' \in Views /\ view'.isLocked
      BY <2>2 DEF ViewAfter, Views, AppInv, AppTypeOK, MonitorTypeOK
    <3>2. AppTypeOK'
      BY <1>3, <2>2, <3>1 DEF AppInv, AppTypeOK, MonitorTypeOK, LockButton, AppStep, session
    <3>3. LockUnderWay'
      BY <2>2, <3>1 DEF AppInv, LockUnderWay, session
    <3>4. StopInOrder' /\ StopReachesTheThread'
      BY <1>3, <2>2 DEF AppInv, StopInOrder, StopReachesTheThread, LockButton, AppStep
    <3>. QED  BY <3>2, <3>3, <3>4 DEF AppInv
  <2>. QED  BY <1>3, <2>1, <2>2 DEF LockButton, LockWorkStation
<1>4. CASE AppStopMonitor
  BY <1>4, StopKeepsInv
<1>. QED  BY <1>1, <1>2, <1>3, <1>4 DEF WinMain

\* No step of the application breaks the invariant.
LEMMA AppNextInv == AppInv /\ [AppNext]_appVars => AppInv'
<1>. SUFFICES ASSUME AppInv, [AppNext]_appVars PROVE AppInv'
  OBVIOUS
<1>1. CASE UNCHANGED appVars
  <2>1. AppTypeOK' /\ LockUnderWay'
    BY <1>1 DEF AppInv, appVars, monitorVars, monitor, session, AppTypeOK, MonitorTypeOK,
                LockUnderWay
  <2>2. StopInOrder' /\ StopReachesTheThread'
    BY <1>1 DEF AppInv, appVars, monitorVars, monitor, StopInOrder, StopReachesTheThread
  <2>. QED  BY <2>1, <2>2 DEF AppInv
<1>. QED  BY <1>1, WinMainKeepsInv, PumpKeepsInv, SessionKeepsInv DEF AppNext

LEMMA AppAlwaysInv == AppSpec => []AppInv
BY AppInitInv, AppNextInv, PTL DEF AppSpec
-----------------------------------------------------------------------------
(* Theorems *)

\* Types of the monitor, the session and WinMain.
THEOREM AppMainTypeOK == AppSpec => []AppTypeOK
<1>1. AppInv => AppTypeOK
  BY DEF AppInv
<1>. QED  BY AppAlwaysInv, <1>1, PTL

\* Once the messages are handled, the view knows of every lock that Windows
\* announced to the window (SessionMonitor::HandleMessage).
THEOREM AppLockIsNoticed == AppSpec => []LockIsNoticed
<1>1. AppInv => LockIsNoticed
  <2>. SUFFICES ASSUME AppInv, queue = <<>>, locked, ~unheard PROVE view.isLocked
    BY DEF LockIsNoticed
  <2>1. PICK i \in 0..Len(queue) : IF i = 0 THEN view.isLocked ELSE queue[i] = "LOCK"
    BY DEF AppInv, LockUnderWay
  <2>2. i = 0
    BY <2>1
  <2>. QED  BY <2>1, <2>2
<1>. QED  BY AppAlwaysInv, <1>1, PTL

\* SessionMonitor::Stop lowers the flag before it looks for the window, and so the
\* thread sees either the flag or WM_CLOSE.
THEOREM AppStopReachesTheThread == AppSpec => []StopReachesTheThread
<1>1. AppInv => StopReachesTheThread
  BY DEF AppInv
<1>. QED  BY AppAlwaysInv, <1>1, PTL
-----------------------------------------------------------------------------
(* The service: types *)

\* What the service does with its monitor keeps the monitor's types.
LEMMA MonitorKeepsType ==
  ASSUME MonitorTypeOK,
         \/ PumpStep \/ MonitorStart \/ MonitorLower \/ MonitorPostClose \/ LockWorkStation
         \/ UNCHANGED monitorVars
  PROVE  MonitorTypeOK'
<1>. USE DEF MonitorTypeOK
<1>1. CASE OpenWindow \/ TestRunning
  BY <1>1 DEF OpenWindow, TestRunning, session
<1>2. CASE Dispatch
  <2>1. queue' \in Seq(Messages) /\ Head(queue) \in Messages
    BY <1>2 DEF Dispatch
  <2>2. view' \in Views
    BY <1>2, <2>1, Viewed DEF Dispatch
  <2>. QED  BY <1>2, <2>1, <2>2 DEF Dispatch, session
<1>3. CASE MonitorStart \/ MonitorLower
  BY <1>3 DEF MonitorStart, MonitorLower, session
<1>4. CASE MonitorPostClose
  <2>1. queue' \in Seq(Messages)
    BY <1>4, PostKeeps DEF MonitorPostClose, Messages
  <2>. QED  BY <1>4, <2>1 DEF MonitorPostClose, session
<1>5. CASE LockWorkStation
  <2>1. view' \in Views
    BY <1>5, Viewed DEF LockWorkStation, Messages, monitorVars, monitor
  <2>. QED  BY <1>5, <2>1 DEF LockWorkStation, monitorVars, monitor, session
<1>6. CASE UNCHANGED monitorVars
  BY <1>6 DEF monitorVars, monitor, session
<1>. QED  BY <1>1, <1>2, <1>3, <1>4, <1>5, <1>6 DEF PumpStep

\* The servers' Start and Stop keep their types, ...
LEMMA ServerKeepsType ==
  ASSUME TransportTypeOK,
         \/ WifiStart \/ WifiBind \/ WifiLower \/ WifiClose \/ BtStart \/ BtLower
         \/ BtClose \/ BtJoin \/ UNCHANGED transportVars
  PROVE  TransportTypeOK'
<1>. USE DEF TransportTypeOK, wifiVars, beaconVars, btVars, clientVars
<1>1. CASE WifiStart
  BY <1>1 DEF WifiStart, BeaconStart
<1>2. CASE WifiBind
  <2>1. /\ UNCHANGED <<beaconVars, btVars, clientVars, objects>>
        /\ wifiRunning' \in BOOLEAN /\ port' \in BOOLEAN /\ wifiFailed' \in BOOLEAN
        /\ wifiLoop' \in {wifiLoop, "testing"}
    BY <1>2 DEF WifiBind
  <2>. QED  BY <2>1
<1>3. CASE WifiLower
  BY <1>3 DEF WifiLower
<1>4. CASE WifiClose
  BY <1>4 DEF WifiClose
<1>5. CASE BtStart
  <2>1. /\ UNCHANGED <<wifiVars, beaconVars, btSocket, clientVars, objects>>
        /\ btRunning' \in BOOLEAN /\ btThread' \in BOOLEAN
        /\ btLoop' \in {btLoop, "opening"}
    BY <1>5 DEF BtStart
  <2>. QED  BY <2>1
<1>6. CASE BtLower
  BY <1>6 DEF BtLower
<1>7. CASE BtClose
  <2>1. /\ UNCHANGED <<wifiVars, beaconVars, btRunning, btLoop, btThread, clientVars, objects>>
        /\ btSocket' \in BOOLEAN
    BY <1>7 DEF BtClose
  <2>. QED  BY <2>1
<1>8. CASE BtJoin
  <2>1. /\ UNCHANGED <<wifiVars, beaconVars, btRunning, btLoop, btSocket, clientVars, objects>>
        /\ btThread' \in BOOLEAN
    BY <1>8 DEF BtJoin
  <2>. QED  BY <2>1
<1>9. CASE UNCHANGED transportVars
  BY <1>9 DEF transportVars
<1>. QED  BY <1>1, <1>2, <1>3, <1>4, <1>5, <1>6, <1>7, <1>8, <1>9

\* ... and so do the loops and the clients.
LEMMA LoopKeepsType ==
  ASSUME TransportTypeOK,
         \/ LoopStep
         \/ \E c \in WifiClients : WifiAccepts(c)
         \/ \E c \in BtClients : BtAccepts(c)
         \/ \E c \in Clients : Receives(c) \/ Finishes(c)
  PROVE  TransportTypeOK'
<1>. USE DEF TransportTypeOK, wifiVars, beaconVars, btVars, clientVars
<1>1. CASE WifiTest
  BY <1>1 DEF WifiTest
<1>2. CASE WifiAcceptFails
  BY <1>2 DEF WifiAcceptFails
<1>3. CASE BtOpens
  BY <1>3 DEF BtOpens
<1>4. CASE BtTest
  BY <1>4 DEF BtTest
<1>5. CASE BtAcceptFails
  BY <1>5 DEF BtAcceptFails
<1>6. ASSUME NEW t \in BeaconThreads, BeaconOpens(t)
      PROVE  TransportTypeOK'
  BY <1>6 DEF BeaconOpens
<1>7. ASSUME NEW t \in BeaconThreads, BeaconEnds(t)
      PROVE  TransportTypeOK'
  BY <1>7 DEF BeaconEnds
<1>8. ASSUME NEW c \in Clients, WifiAccepts(c)
      PROVE  TransportTypeOK'
  BY <1>8 DEF WifiAccepts
<1>9. ASSUME NEW c \in Clients, WifiServes(c)
      PROVE  TransportTypeOK'
  BY <1>9 DEF WifiServes
<1>10. ASSUME NEW c \in Clients, BtAccepts(c)
       PROVE  TransportTypeOK'
  BY <1>10 DEF BtAccepts
<1>11. ASSUME NEW c \in Clients, BtServes(c)
       PROVE  TransportTypeOK'
  BY <1>11 DEF BtServes
<1>12. ASSUME NEW c \in Clients, Receives(c)
       PROVE  TransportTypeOK'
  BY <1>12 DEF Receives
<1>13. ASSUME NEW c \in Clients, Finishes(c)
       PROVE  TransportTypeOK'
  BY <1>13 DEF Finishes
<1>. HIDE DEF TransportTypeOK
<1>. QED
  BY <1>1, <1>2, <1>3, <1>4, <1>5, <1>6, <1>7, <1>8, <1>9, <1>10, <1>11, <1>12, <1>13
  DEF LoopStep, Clients

\* The service's steps keep all types.
LEMMA ServiceTypeStep == TypeOK /\ [Next]_vars => TypeOK'
<1>. SUFFICES ASSUME TypeOK, [Next]_vars PROVE TypeOK'
  OBVIOUS
<1>. DEFINE Positions == {"register", "event", "pipe", "monitor", "coordinator", "wifi", "bind", "bt",
               "running", "wait", "stopWifi", "joinBeacon", "joinWifi", "stopBt", "closeBt",
               "joinBt", "stopCoordinator", "stopMonitor", "postClose", "waitMonitor",
               "stopPipe", "hung", "stopped", "destroyBt", "destroyWifi", "joinLast",
               "returned", "terminated", "crashed"}
<1>. DEFINE OwnTypeOK ==
              /\ main \in Positions
              /\ status \in {"START_PENDING", "RUNNING", "STOP_PENDING", "STOPPED"}
              /\ accepts \in BOOLEAN /\ pipe \in BOOLEAN /\ coordinator \in BOOLEAN
              /\ stopEvent \in {"null", "reset", "set"} /\ handler \in {"idle", "stopping"}
<1>0. MonitorTypeOK /\ TransportTypeOK /\ OwnTypeOK
  BY DEF TypeOK
<1>. SUFFICES MonitorTypeOK' /\ TransportTypeOK' /\ OwnTypeOK'
  BY DEF TypeOK
<1>1. CASE Register \/ CreateStopEvent \/ ReportRunning \/ WaitForStop \/ ReportStopped
  <2>1. UNCHANGED <<monitorVars, transportVars>>
    BY <1>1 DEF Register, CreateStopEvent, ReportRunning, WaitForStop, ReportStopped
  <2>2. OwnTypeOK'
    BY <1>0, <1>1 DEF Register, CreateStopEvent, ReportRunning, WaitForStop, ReportStopped,
                      Step, ReportServiceStatus
  <2>. QED  BY <1>0, <2>1, <2>2, MonitorKeepsType, ServerKeepsType
<1>2. CASE StartPipe \/ StopPipe \/ StopCoordinator
  <2>1. UNCHANGED <<monitorVars, transportVars>>
    BY <1>2 DEF StartPipe, StopPipe, StopCoordinator
  <2>2. OwnTypeOK'
    BY <1>0, <1>2 DEF StartPipe, StopPipe, StopCoordinator, Step, reports
  <2>. QED  BY <1>0, <2>1, <2>2, MonitorKeepsType, ServerKeepsType
<1>3. CASE StartMonitor \/ StopMonitor
  <2>1. /\ MonitorStart \/ MonitorLower \/ MonitorPostClose \/ UNCHANGED monitorVars
        /\ UNCHANGED transportVars
    BY <1>3 DEF StartMonitor, StopMonitor
  <2>2. OwnTypeOK'
    BY <1>0, <1>3 DEF StartMonitor, StopMonitor, Step, reports
  <2>. QED  BY <1>0, <2>1, <2>2, MonitorKeepsType, ServerKeepsType
<1>4. CASE StartCoordinator \/ DestroyBluetooth \/ DestroyWifi
  <2>1. UNCHANGED monitorVars
    BY <1>4 DEF StartCoordinator, DestroyBluetooth, DestroyWifi
  <2>2. TransportTypeOK'
    <3>. USE DEF TransportTypeOK, wifiVars, beaconVars, btVars, clientVars
    <3>1. CASE StartCoordinator
      BY <1>0, <3>1 DEF StartCoordinator
    <3>2. CASE DestroyBluetooth
      BY <1>0, <3>2 DEF DestroyBluetooth
    <3>3. CASE DestroyWifi
      <4>1. /\ UNCHANGED <<wifiVars, btVars, clientVars, beacon>>
            /\ beaconOn' \in BOOLEAN /\ objects' \subseteq objects
        BY <1>0, <3>3 DEF DestroyWifi
      <4>. QED  BY <1>0, <4>1
    <3>. QED  BY <1>4, <3>1, <3>2, <3>3
  <2>3. OwnTypeOK'
    BY <1>0, <1>4 DEF StartCoordinator, DestroyBluetooth, DestroyWifi, Step, reports
  <2>. QED  BY <1>0, <2>1, <2>2, <2>3, MonitorKeepsType
<1>5. CASE StartWifi \/ StartBluetooth \/ StopWifi \/ StopBluetooth
  <2>1. /\ UNCHANGED monitorVars
        /\ \/ WifiStart \/ WifiBind \/ WifiLower \/ WifiClose \/ BtStart \/ BtLower
           \/ BtClose \/ BtJoin \/ UNCHANGED transportVars
    BY <1>5 DEF StartWifi, StartBluetooth, StopWifi, StopBluetooth
  <2>2. OwnTypeOK'
    BY <1>0, <1>5 DEF StartWifi, StartBluetooth, StopWifi, StopBluetooth, Step, reports
  <2>. QED  BY <1>0, <2>1, <2>2, MonitorKeepsType, ServerKeepsType
<1>6. CASE Control \/ SetStopEvent
  <2>1. UNCHANGED <<monitorVars, transportVars>>
    BY <1>6 DEF Control, SetStopEvent
  <2>2. OwnTypeOK'
    BY <1>0, <1>6 DEF Control, SetStopEvent, ReportServiceStatus
  <2>. QED  BY <1>0, <2>1, <2>2, MonitorKeepsType, ServerKeepsType
<1>7. CASE Pump \/ Loops \/ Connect \/ TriggerLock
  <2>1. OwnTypeOK'
    BY <1>0, <1>7 DEF Pump, Loops, Connect, TriggerLock, serviceVars
  <2>2. MonitorTypeOK'
    BY <1>0, <1>7, MonitorKeepsType DEF Pump, Loops, Connect, TriggerLock
  <2>3. TransportTypeOK'
    BY <1>0, <1>7, ServerKeepsType, LoopKeepsType DEF Pump, Loops, Connect, TriggerLock
  <2>. QED  BY <2>1, <2>2, <2>3
<1>8. ASSUME NEW c \in Clients,
             ClientReceives(c) \/ ClientFinishes(c) \/ ManualLock(c)
      PROVE  MonitorTypeOK' /\ TransportTypeOK' /\ OwnTypeOK'
  <2>1. OwnTypeOK'
    BY <1>0, <1>8 DEF ClientReceives, ClientFinishes, ManualLock, serviceVars
  <2>2. MonitorTypeOK'
    BY <1>0, <1>8, MonitorKeepsType DEF ClientReceives, ClientFinishes, ManualLock
  <2>3. TransportTypeOK'
    BY <1>0, <1>8, LoopKeepsType DEF ClientReceives, ClientFinishes, ManualLock
  <2>. QED  BY <2>1, <2>2, <2>3
<1>9. ASSUME NEW c \in Clients, ClientCrashes(c)
      PROVE  MonitorTypeOK' /\ TransportTypeOK' /\ OwnTypeOK'
  <2>1. UNCHANGED <<monitorVars, transportVars>> /\ OwnTypeOK'
    BY <1>0, <1>9 DEF ClientCrashes, reports
  <2>. QED  BY <1>0, <2>1, MonitorKeepsType, ServerKeepsType
<1>10. CASE UNCHANGED vars
  <2>1. UNCHANGED <<monitorVars, transportVars>> /\ OwnTypeOK'
    BY <1>0, <1>10 DEF vars, serviceVars
  <2>. QED  BY <1>0, <2>1, MonitorKeepsType, ServerKeepsType
<1>. QED
  BY <1>1, <1>2, <1>3, <1>4, <1>5, <1>6, <1>7, <1>8, <1>9, <1>10 DEF Next, ServiceMain
-----------------------------------------------------------------------------
(* The service: the order of things *)

InOrder ==
  StatusInOrder /\ ServersInOrder /\ WifiInOrder /\ BeaconInOrder /\ BtInOrder

\* What a step leaves alone that does not concern the Wi-Fi server, ...
WifiStill == UNCHANGED <<wifiRunning, wifiLoop, wifiFailed>>

\* ... the beacon's threads, ...
BeaconStill == BeaconEnded' <=> BeaconEnded

\* ... the Bluetooth server, ...
BtStill == UNCHANGED <<btRunning, btLoop, btSocket, btThread>>

\* ... or the existence of servers and clients.
ServersStill == UNCHANGED <<client, objects>>

Still == WifiStill /\ BeaconStill /\ BtStill /\ ServersStill

LEMMA StillFrame ==
  /\ UNCHANGED wifiVars => WifiStill
  /\ UNCHANGED beaconVars \/ UNCHANGED beacon => BeaconStill
  /\ UNCHANGED btVars => BtStill
  /\ UNCHANGED clientVars /\ UNCHANGED objects => ServersStill
  /\ UNCHANGED transportVars => Still
<1>1. UNCHANGED beacon => BeaconStill
  BY DEF BeaconStill, BeaconEnded
<1>. QED
  BY <1>1 DEF Still, WifiStill, BtStill, ServersStill, transportVars, wifiVars,
              beaconVars, btVars, clientVars

\* A step that leaves ServiceMain, the status and the servers where they are.
LEMMA NothingMoves ==
  ASSUME InOrder, Still, main' = main, status' = status \/ status' = "STOP_PENDING",
         status' # status => status # "STOPPED"
  PROVE  InOrder'
<1>. USE DEF InOrder, Still
<1>1. Early' = Early
  BY DEF Early
<1>2. StatusInOrder'
  BY DEF StatusInOrder
<1>3. ServersInOrder'
  BY <1>1 DEF ServersInOrder, ServersStill
<1>4. WifiInOrder' /\ BeaconInOrder'
  BY <1>1 DEF WifiInOrder, BeaconInOrder, WifiStill, BeaconStill
<1>5. BtInOrder'
  BY <1>1 DEF BtInOrder, BtStill, BtGaveUp
<1>. QED  BY <1>2, <1>3, <1>4, <1>5

\* The steps of ServiceMain that touch no transport, from here to there.
Passes(here, there) == main = here /\ main' = there /\ status' = status

Walks ==
  \/ Passes("register", "returned") \/ Passes("event", "pipe") \/ Passes("pipe", "monitor")
  \/ Passes("monitor", "coordinator") \/ Passes("stopCoordinator", "stopMonitor")
  \/ Passes("stopMonitor", "postClose") \/ Passes("stopMonitor", "stopPipe")
  \/ Passes("postClose", "waitMonitor") \/ Passes("waitMonitor", "stopPipe")
  \/ Passes("stopPipe", "stopped") \/ Passes("stopPipe", "hung")
  \/ main = "register" /\ main' = "event" /\ status' = "START_PENDING"
  \/ main = "running" /\ main' = "wait" /\ status' = "RUNNING"
  \/ main = "wait" /\ main' = "stopWifi" /\ status' = "STOP_PENDING"
  \/ main = "stopped" /\ main' = "destroyBt" /\ status' = "STOPPED"
  \/ Passes("stopWifi", "stopBt") /\ ~wifiRunning
  \/ Passes("joinBeacon", "joinWifi") /\ BeaconEnded
  \/ Passes("joinWifi", "stopBt") /\ ~Alive(wifiLoop)
  \/ Passes("stopBt", "stopCoordinator") /\ ~btRunning

LEMMA WalksInOrder ==
  ASSUME InOrder, Still, Walks
  PROVE  InOrder'
<1>. USE DEF InOrder, Still, Walks, Passes
<1>1. Early' = Early
  BY DEF Early, StatusInOrder
<1>2. StatusInOrder'
  BY DEF StatusInOrder
<1>3. ServersInOrder'
  BY <1>1 DEF ServersInOrder, ServersStill
<1>4. WifiInOrder'
  BY <1>1 DEF WifiInOrder, WifiStill
<1>5. BeaconInOrder'
  BY <1>1 DEF Early, BeaconInOrder, WifiStill, BeaconStill, WifiInOrder
<1>6. BtInOrder'
  BY <1>1 DEF Early, BtInOrder, BtStill, BtGaveUp, Alive
<1>. QED  BY <1>2, <1>3, <1>4, <1>5, <1>6

\* The steps of ServiceMain that start the servers.
LEMMA StartsInOrder ==
  ASSUME TypeOK, InOrder, StartCoordinator \/ StartWifi \/ StartBluetooth
  PROVE  InOrder'
<1>. USE DEF InOrder, Step, reports
<1>1. CASE StartCoordinator
  <2>1. /\ main = "coordinator" /\ main' = "wifi" /\ status' = status
        /\ objects' = {"wifi", "bt"} /\ client' = client
        /\ WifiStill /\ BeaconStill /\ BtStill
    BY <1>1, StillFrame DEF StartCoordinator, clientVars
  <2>2. Early /\ ~Early'
    BY <2>1 DEF Early
  <2>3. StatusInOrder' /\ ServersInOrder'
    BY <2>1, <2>2 DEF StatusInOrder, ServersInOrder
  <2>4. WifiInOrder' /\ BeaconInOrder'
    BY <2>1, <2>2 DEF WifiInOrder, BeaconInOrder, WifiStill, BeaconStill
  <2>5. BtInOrder'
    BY <2>1, <2>2 DEF BtInOrder, BtStill, BtGaveUp
  <2>. QED  BY <2>3, <2>4, <2>5
<1>2. CASE Step("wifi", "bind") /\ WifiStart /\ UNCHANGED reports
  <2>1. /\ main = "wifi" /\ main' = "bind" /\ status' = status
        /\ wifiRunning' = TRUE /\ UNCHANGED <<wifiLoop, wifiFailed>>
        /\ BtStill /\ ServersStill
    BY <1>2, StillFrame DEF WifiStart
  <2>2. ~Early /\ ~Early'
    BY <2>1 DEF Early
  <2>3. StatusInOrder' /\ ServersInOrder' /\ BeaconInOrder'
    BY <2>1, <2>2 DEF StatusInOrder, ServersInOrder, BeaconInOrder, ServersStill
  <2>4. WifiInOrder'
    BY <2>1, <2>2 DEF WifiInOrder
  <2>5. BtInOrder'
    BY <2>1, <2>2 DEF BtInOrder, BtStill, BtGaveUp
  <2>. QED  BY <2>3, <2>4, <2>5
<1>3. CASE Step("bind", "bt") /\ WifiBind /\ UNCHANGED reports
  <2>1. /\ main = "bind" /\ main' = "bt" /\ status' = status
        /\ BeaconStill /\ BtStill /\ ServersStill
        /\ \/ wifiLoop' = "testing" /\ UNCHANGED <<wifiRunning, wifiFailed>>
           \/ wifiFailed' = TRUE /\ UNCHANGED wifiLoop
    BY <1>3, StillFrame DEF WifiBind
  <2>2. ~Early /\ ~Early'
    BY <2>1 DEF Early
  <2>3. StatusInOrder' /\ ServersInOrder' /\ BeaconInOrder'
    BY <2>1, <2>2 DEF StatusInOrder, ServersInOrder, BeaconInOrder, ServersStill
  <2>4. WifiInOrder'
    BY <2>1, <2>2 DEF WifiInOrder, Alive
  <2>5. BtInOrder'
    BY <2>1, <2>2 DEF BtInOrder, BtStill, BtGaveUp
  <2>. QED  BY <2>3, <2>4, <2>5
<1>4. CASE StartBluetooth
  <2>1. /\ main = "bt" /\ main' = "running" /\ status' = status
        /\ WifiStill /\ BeaconStill /\ ServersStill /\ btSocket' = btSocket
        /\ \/ btRunning' = TRUE /\ btLoop' = "opening" /\ btThread' = TRUE
           \/ UNCHANGED <<btRunning, btLoop, btThread>>
    BY <1>4, StillFrame DEF StartBluetooth, BtStart
  <2>2. ~Early /\ ~Early'
    BY <2>1 DEF Early
  <2>3. StatusInOrder' /\ ServersInOrder'
    BY <2>1, <2>2 DEF StatusInOrder, ServersInOrder, ServersStill
  <2>4. WifiInOrder' /\ BeaconInOrder'
    BY <2>1, <2>2 DEF WifiInOrder, BeaconInOrder, WifiStill
  <2>5. BtInOrder'
    BY <2>1, <2>2 DEF BtInOrder, BtGaveUp
  <2>. QED  BY <2>3, <2>4, <2>5
<1>. QED  BY <1>1, <1>2, <1>3, <1>4 DEF StartWifi

\* The steps of ServiceMain that stop the servers and destroy them.
LEMMA StopsInOrder ==
  ASSUME TypeOK, InOrder,
         \/ Step("stopWifi", "joinBeacon") /\ WifiLower
         \/ Step("joinBeacon", "joinWifi") /\ BeaconEnded /\ WifiClose
         \/ Step("stopBt", "closeBt") /\ BtLower
         \/ Step("closeBt", "joinBt") /\ BtClose
         \/ Step("joinBt", "stopCoordinator") /\ BtJoin,
         status' = status
  PROVE  InOrder'
<1>. USE DEF InOrder, Step
<1>0. ~Early /\ ~Early'
  BY DEF Early
<1>1. CASE Step("stopWifi", "joinBeacon") /\ WifiLower
  <2>1. /\ wifiRunning' = FALSE /\ UNCHANGED <<wifiLoop, wifiFailed>>
        /\ BeaconStill /\ BtStill /\ ServersStill
    BY <1>1, StillFrame DEF WifiLower
  <2>2. StatusInOrder' /\ ServersInOrder'
    BY <1>0, <1>1, <2>1 DEF StatusInOrder, ServersInOrder, ServersStill
  <2>3. WifiInOrder' /\ BeaconInOrder'
    BY <1>0, <1>1, <2>1 DEF WifiInOrder, BeaconInOrder
  <2>4. BtInOrder'
    BY <1>0, <1>1, <2>1 DEF BtInOrder, BtStill, BtGaveUp
  <2>. QED  BY <2>2, <2>3, <2>4
<1>2. CASE Step("joinBeacon", "joinWifi") /\ BeaconEnded /\ WifiClose
  <2>1. Still
    BY <1>2, StillFrame DEF WifiClose, Still, WifiStill
  <2>. QED  BY <1>2, <2>1, WalksInOrder DEF Walks, Passes
<1>3. CASE Step("stopBt", "closeBt") /\ BtLower
  <2>1. /\ UNCHANGED <<btLoop, btSocket, btThread>>
        /\ WifiStill /\ BeaconStill /\ ServersStill
    BY <1>3, StillFrame DEF BtLower, ServersStill
  <2>2. StatusInOrder' /\ ServersInOrder'
    BY <1>0, <1>3, <2>1 DEF StatusInOrder, ServersInOrder, ServersStill
  <2>3. WifiInOrder' /\ BeaconInOrder'
    BY <1>0, <1>3, <2>1 DEF WifiInOrder, BeaconInOrder, WifiStill, BeaconStill
  <2>4. BtInOrder'
    BY <1>0, <1>3, <2>1 DEF BtInOrder
  <2>. QED  BY <2>2, <2>3, <2>4
<1>4. CASE Step("closeBt", "joinBt") /\ BtClose
  <2>1. /\ btSocket' = FALSE /\ UNCHANGED <<btRunning, btLoop, btThread>>
        /\ WifiStill /\ BeaconStill /\ ServersStill
    BY <1>4, StillFrame DEF BtClose
  <2>2. StatusInOrder' /\ ServersInOrder'
    BY <1>0, <1>4, <2>1 DEF StatusInOrder, ServersInOrder, ServersStill
  <2>3. WifiInOrder' /\ BeaconInOrder'
    BY <1>0, <1>4, <2>1 DEF WifiInOrder, BeaconInOrder, WifiStill, BeaconStill
  <2>4. BtInOrder'
    BY <1>0, <1>4, <2>1 DEF BtInOrder
  <2>. QED  BY <2>2, <2>3, <2>4
<1>5. CASE Step("joinBt", "stopCoordinator") /\ BtJoin
  <2>1. /\ ~Alive(btLoop) /\ btThread' = FALSE /\ UNCHANGED <<btRunning, btLoop, btSocket>>
        /\ WifiStill /\ BeaconStill /\ ServersStill
    BY <1>5, StillFrame DEF BtJoin
  <2>2. StatusInOrder' /\ ServersInOrder'
    BY <1>0, <1>5, <2>1 DEF StatusInOrder, ServersInOrder, ServersStill
  <2>3. WifiInOrder' /\ BeaconInOrder'
    BY <1>0, <1>5, <2>1 DEF WifiInOrder, BeaconInOrder, WifiStill, BeaconStill
  <2>4. BtInOrder'
    BY <1>0, <1>5, <2>1 DEF BtInOrder
  <2>. QED  BY <2>2, <2>3, <2>4
<1>. QED  BY <1>1, <1>2, <1>3, <1>4, <1>5

LEMMA DestructorsInOrder ==
  ASSUME TypeOK, InOrder, DestroyBluetooth \/ DestroyWifi
  PROVE  InOrder'
<1>. USE DEF InOrder, Step, reports
<1>1. CASE DestroyBluetooth
  <2>1. /\ main = "destroyBt" /\ status' = status /\ client' = client
        /\ IF btThread THEN main' = "terminated" ELSE main' = "destroyWifi"
        /\ WifiStill /\ BeaconStill /\ BtStill
    BY <1>1, StillFrame DEF DestroyBluetooth, clientVars
  <2>2. ~Early /\ ~Early'
    BY <2>1 DEF Early
  <2>3. StatusInOrder' /\ ServersInOrder'
    BY <2>1, <2>2 DEF StatusInOrder, ServersInOrder
  <2>4. WifiInOrder' /\ BeaconInOrder'
    BY <2>1, <2>2 DEF WifiInOrder, BeaconInOrder, WifiStill, BeaconStill
  <2>5. BtInOrder'
    BY <2>1, <2>2 DEF BtInOrder, BtStill, BtGaveUp
  <2>. QED  BY <2>3, <2>4, <2>5
<1>2. CASE DestroyWifi
  <2>1. /\ \/ main = "destroyWifi" /\ main' = "joinLast"
           \/ main = "joinLast" /\ main' = "returned" /\ BeaconEnded
        /\ status' = status /\ client' = client
        /\ WifiStill /\ BeaconStill /\ BtStill
    BY <1>2, StillFrame DEF DestroyWifi, clientVars, beaconVars
  <2>2. ~Early /\ ~Early' /\ status = "STOPPED"
    BY <2>1 DEF Early, StatusInOrder
  <2>3. StatusInOrder' /\ ServersInOrder'
    BY <2>1, <2>2 DEF StatusInOrder, ServersInOrder
  <2>4. WifiInOrder' /\ BeaconInOrder'
    BY <2>1, <2>2 DEF WifiInOrder, BeaconInOrder, WifiStill, BeaconStill
  <2>5. BtInOrder'
    BY <2>1, <2>2 DEF BtInOrder, BtStill, BtGaveUp
  <2>. QED  BY <2>3, <2>4, <2>5
<1>. QED  BY <1>1, <1>2

\* ServiceMain as a whole.
LEMMA ServiceMainInOrder ==
  ASSUME TypeOK, InOrder, ServiceMain
  PROVE  InOrder'
<1>1. CASE Register \/ CreateStopEvent \/ StartPipe \/ StartMonitor
  <2>1. Still
    BY <1>1, StillFrame DEF Register, CreateStopEvent, StartPipe, StartMonitor
  <2>2. Walks
    BY <1>1 DEF Register, CreateStopEvent, StartPipe, StartMonitor, Walks, Passes, Step,
                ReportServiceStatus, reports
  <2>. QED  BY <2>1, <2>2, WalksInOrder
<1>2. CASE ReportRunning \/ WaitForStop \/ ReportStopped
  <2>1. Still
    BY <1>2, StillFrame DEF ReportRunning, WaitForStop, ReportStopped
  <2>2. Walks
    BY <1>2 DEF ReportRunning, WaitForStop, ReportStopped, Walks, Step, ReportServiceStatus
  <2>. QED  BY <2>1, <2>2, WalksInOrder
<1>3. CASE StopCoordinator \/ StopMonitor \/ StopPipe
  <2>1. Still
    BY <1>3, StillFrame DEF StopCoordinator, StopMonitor, StopPipe
  <2>2. Walks
    BY <1>3 DEF StopCoordinator, StopMonitor, StopPipe, Walks, Passes, Step, reports
  <2>. QED  BY <2>1, <2>2, WalksInOrder
<1>4. CASE StopWifi
  <2>1. status' = status
    BY <1>4 DEF StopWifi, reports
  <2>2. CASE \/ ~wifiRunning /\ Step("stopWifi", "stopBt") /\ UNCHANGED transportVars
             \/ Step("joinWifi", "stopBt") /\ WifiJoinable /\ UNCHANGED transportVars
    <3>1. Still /\ Walks
      BY <2>1, <2>2, StillFrame DEF Walks, Passes, Step, WifiJoinable
    <3>. QED  BY <3>1, WalksInOrder
  <2>. QED  BY <1>4, <2>1, <2>2, StopsInOrder DEF StopWifi
<1>5. CASE StopBluetooth
  <2>1. status' = status
    BY <1>5 DEF StopBluetooth, reports
  <2>2. CASE ~btRunning /\ Step("stopBt", "stopCoordinator") /\ UNCHANGED transportVars
    <3>1. Still /\ Walks
      BY <2>1, <2>2, StillFrame DEF Walks, Passes, Step
    <3>. QED  BY <3>1, WalksInOrder
  <2>. QED  BY <1>5, <2>1, <2>2, StopsInOrder DEF StopBluetooth
<1>. QED
  BY <1>1, <1>2, <1>3, <1>4, <1>5, StartsInOrder, DestructorsInOrder DEF ServiceMain

\* The loops' steps: a loop that is not alive takes none.
LEMMA LoopsInOrder ==
  ASSUME TypeOK, InOrder, LoopStep, main' = main, status' = status
  PROVE  InOrder'
<1>. USE DEF InOrder
<1>0. Early' = Early /\ StatusInOrder'
  BY DEF Early, StatusInOrder
<1>1. ASSUME UNCHANGED <<wifiRunning, wifiFailed, objects>>, BeaconStill, BtStill,
             Alive(wifiLoop),
             UNCHANGED client \/ (~Early => UNCHANGED objects)
      PROVE  InOrder'
  <2>1. ~Early /\ main \in {"bt", "running", "wait", "stopWifi", "joinBeacon", "joinWifi"}
    BY <1>1 DEF WifiInOrder, Early
  <2>2. ServersInOrder'
    BY <1>0, <1>1, <2>1 DEF ServersInOrder
  <2>3. WifiInOrder' /\ BeaconInOrder'
    BY <1>0, <1>1, <2>1 DEF WifiInOrder, BeaconInOrder, BeaconStill
  <2>4. BtInOrder'
    BY <1>0, <1>1, <2>1 DEF BtInOrder, BtStill, BtGaveUp
  <2>. QED  BY <1>0, <2>2, <2>3, <2>4
<1>2. CASE WifiTest \/ WifiAcceptFails
  BY <1>1, <1>2, StillFrame DEF WifiTest, WifiAcceptFails, Alive, btVars
<1>3. ASSUME NEW c \in WifiClients, WifiServes(c)
      PROVE  InOrder'
  BY <1>1, <1>3, StillFrame DEF WifiServes, Alive
<1>4. ASSUME WifiStill, BeaconStill, UNCHANGED objects, Alive(btLoop), UNCHANGED btThread,
             \/ btLoop = "opening" /\ btLoop' = "testing" /\ UNCHANGED btRunning
             \/ btLoop = "opening" /\ btLoop' = "ended" /\ UNCHANGED btSocket
             \/ /\ btLoop = "testing" /\ btLoop' = "ended" /\ ~btRunning
                /\ UNCHANGED <<btRunning, btSocket>>
             \/ btLoop' \notin {"none", "opening", "ended"} /\ UNCHANGED <<btRunning, btSocket>>
      PROVE  InOrder'
  <2>1. ~Early /\ main \in {"running", "wait", "stopWifi", "joinBeacon", "joinWifi",
                            "stopBt", "closeBt", "joinBt"}
    BY <1>4 DEF BtInOrder, Early
  <2>2. ServersInOrder'
    BY <1>0, <1>4, <2>1 DEF ServersInOrder
  <2>3. WifiInOrder' /\ BeaconInOrder'
    BY <1>0, <1>4, <2>1 DEF WifiInOrder, BeaconInOrder, WifiStill, BeaconStill
  <2>4. BtInOrder'
    BY <1>0, <1>4, <2>1 DEF BtInOrder, BtGaveUp, Alive
  <2>. QED  BY <1>0, <2>2, <2>3, <2>4
<1>5. CASE BtOpens
  BY <1>4, <1>5, StillFrame DEF BtOpens, Alive
<1>6. CASE BtTest \/ BtAcceptFails
  BY <1>4, <1>6, StillFrame DEF BtTest, BtAcceptFails, Alive
<1>7. ASSUME NEW c \in BtClients, BtServes(c)
      PROVE  InOrder'
  BY <1>4, <1>7, StillFrame DEF BtServes, Alive
<1>8. ASSUME NEW t \in BeaconThreads, BeaconOpens(t) \/ BeaconEnds(t)
      PROVE  InOrder'
  <2>1. WifiStill /\ BtStill /\ ServersStill
    BY <1>8, StillFrame DEF BeaconOpens, BeaconEnds
  <2>2. ~BeaconEnded
    BY <1>8 DEF BeaconOpens, BeaconEnds, BeaconEnded, Alive
  <2>3. WifiInOrder' /\ BeaconInOrder'
    BY <1>0, <2>1, <2>2 DEF WifiInOrder, BeaconInOrder, WifiStill
  <2>4. ServersInOrder' /\ BtInOrder'
    BY <1>0, <2>1 DEF ServersInOrder, ServersStill, BtInOrder, BtStill, BtGaveUp
  <2>. QED  BY <1>0, <2>3, <2>4
<1>. QED  BY <1>2, <1>3, <1>5, <1>6, <1>7, <1>8 DEF LoopStep

\* The clients: one is accepted by a loop that is alive, and crashes only when a
\* destructor has run.
LEMMA ClientsInOrder ==
  ASSUME TypeOK, InOrder, NEW c \in Clients,
         \/ WifiAccepts(c) /\ UNCHANGED main
         \/ BtAccepts(c) /\ UNCHANGED main
         \/ (Receives(c) \/ Finishes(c)) /\ UNCHANGED main
         \/ ClientCrashes(c),
         status' = status
  PROVE  InOrder'
<1>. USE DEF InOrder
<1>1. ~Early
  BY DEF WifiAccepts, BtAccepts, Receives, Finishes, ClientCrashes, Orphan, Alive,
         ServersInOrder, WifiInOrder, BtInOrder, Early
<1>2. CASE WifiAccepts(c) /\ UNCHANGED main
  <2>1. /\ UNCHANGED <<wifiRunning, wifiFailed, objects, main>> /\ BeaconStill /\ BtStill
        /\ Alive(wifiLoop)
    BY <1>2, StillFrame DEF WifiAccepts, Alive
  <2>2. ~Early' /\ StatusInOrder' /\ ServersInOrder'
    BY <1>1, <2>1 DEF Early, StatusInOrder, ServersInOrder
  <2>3. WifiInOrder' /\ BeaconInOrder'
    BY <1>1, <2>1, <2>2 DEF WifiInOrder, BeaconInOrder, BeaconStill
  <2>4. BtInOrder'
    BY <1>1, <2>1, <2>2 DEF BtInOrder, BtStill, BtGaveUp
  <2>. QED  BY <2>2, <2>3, <2>4
<1>3. CASE BtAccepts(c) /\ UNCHANGED main
  <2>1. /\ UNCHANGED <<btRunning, btSocket, btThread, objects, main>>
        /\ BeaconStill /\ WifiStill /\ btLoop = "accepting" /\ btLoop' = "accepted"
    BY <1>3, StillFrame DEF BtAccepts
  <2>2. ~Early' /\ StatusInOrder' /\ ServersInOrder'
    BY <1>1, <2>1 DEF Early, StatusInOrder, ServersInOrder
  <2>3. WifiInOrder' /\ BeaconInOrder'
    BY <1>1, <2>1, <2>2 DEF WifiInOrder, BeaconInOrder, BeaconStill, WifiStill
  <2>4. BtInOrder'
    BY <1>1, <2>1, <2>2 DEF BtInOrder, BtGaveUp, Alive
  <2>. QED  BY <2>2, <2>3, <2>4
<1>4. CASE (Receives(c) \/ Finishes(c)) /\ UNCHANGED main
  <2>1. UNCHANGED <<objects, main>> /\ BeaconStill /\ WifiStill /\ BtStill
    BY <1>4, StillFrame DEF Receives, Finishes
  <2>2. ~Early' /\ StatusInOrder' /\ ServersInOrder'
    BY <1>1, <2>1 DEF Early, StatusInOrder, ServersInOrder
  <2>3. WifiInOrder' /\ BeaconInOrder'
    BY <1>1, <2>1, <2>2 DEF WifiInOrder, BeaconInOrder, BeaconStill, WifiStill
  <2>4. BtInOrder'
    BY <1>1, <2>1, <2>2 DEF BtInOrder, BtStill, BtGaveUp
  <2>. QED  BY <2>2, <2>3, <2>4
<1>5. CASE ClientCrashes(c)
  <2>1. Still /\ main' = "crashed"
    BY <1>5, StillFrame DEF ClientCrashes
  <2>2. main \in {"destroyWifi", "joinLast", "returned"} /\ status = "STOPPED"
    BY <1>1, <1>5 DEF ClientCrashes, Up, Orphan, ServersInOrder, StatusInOrder, Early
  <2>3. ~Early' /\ StatusInOrder' /\ ServersInOrder'
    BY <2>1, <2>2 DEF Early, StatusInOrder, ServersInOrder
  <2>4. WifiInOrder' /\ BeaconInOrder'
    BY <2>1, <2>2, <2>3 DEF Still, WifiInOrder, BeaconInOrder, BeaconStill, WifiStill
  <2>5. BtInOrder'
    BY <2>1, <2>2, <2>3 DEF Still, BtInOrder, BtStill, BtGaveUp
  <2>. QED  BY <2>3, <2>4, <2>5
<1>. QED  BY <1>2, <1>3, <1>4, <1>5

\* Only an accept loop that has just seen its server run gives a client a thread.
LEMMA OnlyLoopsServe ==
  ASSUME TransportTypeOK, [Next]_vars,
         NEW c \in Clients, client[c] # "receiving", client'[c] = "receiving"
  PROVE  \/ c \in WifiClients /\ wifiLoop = "serving"
         \/ c \in BtClients /\ btLoop = "serving"
<1>. USE DEF TransportTypeOK
<1>1. client' # client
  OBVIOUS
<1>2. CASE ServiceMain
  <2>1. client' = client
    BY <1>2 DEF ServiceMain, Register, CreateStopEvent, StartPipe, StartMonitor,
       StartCoordinator, StartWifi, WifiStart, WifiBind, StartBluetooth, BtStart,
       ReportRunning, WaitForStop, StopWifi, WifiLower, WifiClose, StopBluetooth, BtLower,
       BtClose, BtJoin, StopCoordinator, StopMonitor, StopPipe, ReportStopped,
       DestroyBluetooth, DestroyWifi, transportVars, clientVars
  <2>. QED  BY <1>1, <2>1
<1>3. CASE Control \/ SetStopEvent \/ Pump \/ TriggerLock \/ UNCHANGED vars
  <2>1. client' = client
    BY <1>3 DEF Control, SetStopEvent, Pump, TriggerLock, vars, transportVars, clientVars
  <2>. QED  BY <1>1, <2>1
<1>4. CASE LoopStep
  <2>1. CASE \/ WifiTest \/ WifiAcceptFails \/ BtOpens \/ BtTest \/ BtAcceptFails
             \/ \E t \in BeaconThreads : BeaconOpens(t) \/ BeaconEnds(t)
    <3>1. client' = client
      BY <2>1 DEF WifiTest, WifiAcceptFails, BtOpens, BtTest, BtAcceptFails, BeaconOpens,
                  BeaconEnds, clientVars
    <3>. QED  BY <1>1, <3>1
  <2>2. ASSUME NEW d \in WifiClients, WifiServes(d)
        PROVE  c \in WifiClients /\ wifiLoop = "serving"
    BY <2>2 DEF WifiServes, Clients
  <2>3. ASSUME NEW d \in BtClients, BtServes(d)
        PROVE  c \in BtClients /\ btLoop = "serving"
    BY <2>3 DEF BtServes, Clients
  <2>. QED  BY <1>4, <2>1, <2>2, <2>3 DEF LoopStep
<1>5. ASSUME NEW d \in Clients,
             WifiAccepts(d) \/ BtAccepts(d) \/ Receives(d) \/ Finishes(d)
      PROVE  FALSE
  BY <1>5 DEF WifiAccepts, BtAccepts, Receives, Finishes
<1>6. ASSUME NEW d \in Clients, ClientCrashes(d)
      PROVE  FALSE
  BY <1>1, <1>6 DEF ClientCrashes, transportVars, clientVars
<1>. QED
  BY <1>2, <1>3, <1>4, <1>5, <1>6
  DEF Next, Loops, Connect, ClientReceives, ClientFinishes, ManualLock, Clients
-----------------------------------------------------------------------------
(* The service's theorems *)

\* The initial state satisfies the invariant.
LEMMA ServiceInitInv == Init => ServiceInv
<1>. SUFFICES ASSUME Init PROVE ServiceInv
  OBVIOUS
<1>. USE DEF Init, MonitorInit, TransportInit
<1>1. MonitorTypeOK
  <2>1. view \in Views /\ queue \in Seq(Messages) /\ events \in 0..MaxEvents
    BY MonitorAssumption DEF Views
  <2>. QED  BY <2>1 DEF MonitorTypeOK
<1>2. TypeOK
  BY <1>1 DEF TypeOK, TransportTypeOK
<1>3. ~Alive(wifiLoop) /\ ~Alive(btLoop) /\ BeaconEnded
  BY DEF Alive, BeaconEnded
<1>4. StatusInOrder /\ ServersInOrder /\ WifiInOrder /\ BeaconInOrder /\ BtInOrder
  BY <1>3 DEF StatusInOrder, ServersInOrder, WifiInOrder, BeaconInOrder, BtInOrder, Early
<1>. QED  BY <1>2, <1>4 DEF ServiceInv

\* Every step of the service keeps it.
LEMMA ServiceNextInv == ServiceInv /\ [Next]_vars => ServiceInv'
<1>. SUFFICES ASSUME TypeOK, InOrder, [Next]_vars PROVE InOrder'
  BY ServiceTypeStep DEF ServiceInv, InOrder
<1>1. CASE Control
  <2>1. Still /\ main' = main /\ status' = "STOP_PENDING" /\ status # "STOPPED"
    BY <1>1, StillFrame DEF Control, ReportServiceStatus
  <2>. QED  BY <2>1, NothingMoves
<1>2. CASE SetStopEvent \/ Pump \/ TriggerLock \/ UNCHANGED vars
  <2>1. Still /\ main' = main /\ status' = status
    BY <1>2, StillFrame DEF SetStopEvent, Pump, TriggerLock, serviceVars, vars
  <2>. QED  BY <2>1, NothingMoves
<1>3. CASE Loops
  BY <1>3, LoopsInOrder DEF Loops, serviceVars
<1>4. CASE Connect
  BY <1>4, ClientsInOrder DEF Connect, serviceVars, Clients
<1>5. ASSUME NEW c \in Clients,
             ClientReceives(c) \/ ClientFinishes(c) \/ ManualLock(c) \/ ClientCrashes(c)
      PROVE  InOrder'
  BY <1>5, ClientsInOrder
  DEF ClientReceives, ClientFinishes, ManualLock, ClientCrashes, serviceVars, reports
<1>. QED
  BY <1>1, <1>2, <1>3, <1>4, <1>5, ServiceMainInOrder DEF Next

LEMMA ServiceAlwaysInv == Spec => []ServiceInv
BY ServiceInitInv, ServiceNextInv, PTL DEF Spec

\* Types of the monitor, the servers, the clients and ServiceMain, for any number of
\* clients.
THEOREM ServiceTypeOK == Spec => []TypeOK
<1>1. ServiceInv => TypeOK
  BY DEF ServiceInv
<1>. QED  BY ServiceAlwaysInv, <1>1, PTL

\* When the service reports that it has stopped its loops have ended, std::terminate
\* strikes only where the Bluetooth loop had given up, and a client that outlives its
\* server crashes the process only then (ServiceMain and the destructors after it).
THEOREM ServiceStoppedIsQuiet == Spec => []StoppedIsQuiet
<1>1. ServiceInv => StoppedIsQuiet
  BY DEF ServiceInv, StoppedIsQuiet, StatusInOrder, WifiInOrder, BeaconInOrder, BtInOrder,
         BtGaveUp
<1>. QED  BY ServiceAlwaysInv, <1>1, PTL

\* No client gets a thread once its server's Stop has returned, whatever the accept
\* loops were doing when the sockets were closed under them.
THEOREM ServiceNobodyServedAfterStop == Spec => NobodyServedAfterStop
<1>1. ASSUME ServiceInv, [Next]_vars, NEW c \in Clients,
             client[c] # "receiving", client'[c] = "receiving"
      PROVE  Serving(c)
  <2>1. \/ c \in WifiClients /\ wifiLoop = "serving"
        \/ c \in BtClients /\ btLoop = "serving"
    BY <1>1, OnlyLoopsServe DEF ServiceInv, TypeOK
  <2>. QED
    BY <1>1, <2>1 DEF ServiceInv, WifiInOrder, BtInOrder, Alive, Serving
<1>2. ServiceInv /\ [Next]_vars =>
        \A c \in Clients : client[c] # "receiving" /\ client'[c] = "receiving" => Serving(c)
  BY <1>1
<1>. QED  BY <1>2, ServiceAlwaysInv, PTL DEF Spec, NobodyServedAfterStop
=============================================================================
