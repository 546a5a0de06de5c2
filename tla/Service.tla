------------------------------ MODULE Service ------------------------------
(***************************************************************************)
(* service/WindowsService.cpp: ServiceMain brings up the pipe server, the  *)
(* session monitor and the transports in order, waits for the stop event,  *)
(* takes everything down and returns, which destroys the two servers while *)
(* detached client threads may still run.  The service control manager     *)
(* calls ServiceCtrlHandler on a thread of its own.  NamedPipeServer is    *)
(* modelled in PipeServer; here its Stop returns or, as shown there, does  *)
(* not.  The monitor asks for the notifications of its own session, and a  *)
(* service's is session 0, where nobody locks or unlocks; so its view      *)
(* changes only when a phone's manual lock or a client of the pipe does    *)
(* it.                                                                     *)
(***************************************************************************)
EXTENDS SessionMonitor, Transports

VARIABLES
  main,        \* where ServiceMain is: the step that comes next
  status,      \* the state last reported to the service control manager
  accepts,     \* does it accept a stop or a shutdown?
  stopEvent,   \* m_stopEvent: "null", "reset" or "set"
  handler,     \* ServiceCtrlHandler, between its report and SetEvent
  pipe,        \* NamedPipeServer::m_isRunning
  coordinator  \* AuthCoordinator::m_isRunning

serviceVars == <<main, status, accepts, stopEvent, handler, pipe, coordinator>>
vars == <<monitorVars, transportVars, serviceVars>>

Init ==
  /\ MonitorInit /\ ~locked /\ TransportInit
  /\ main = "register"
  /\ status = "START_PENDING" /\ accepts = FALSE
  /\ stopEvent = "null" /\ handler = "idle"
  /\ pipe = FALSE /\ coordinator = FALSE

\* Mutant: the controls stay accepted while the service starts
ReportAccepting(state) == status' = state /\ accepts' = TRUE

ReportServiceStatus(state) ==
  /\ status' = state
  /\ accepts' = (state # "START_PENDING")

\* ServiceMain goes from one step to the next
Step(here, next) == main = here /\ main' = next

reports == <<status, accepts, stopEvent, handler>>
-----------------------------------------------------------------------------
(* ServiceMain, the way up *)

\* Without a control handler it returns at once
Register ==
  /\ \/ /\ Step("register", "event")
        /\ ReportServiceStatus("START_PENDING")
     \/ Step("register", "returned") /\ UNCHANGED <<status, accepts>>
  /\ UNCHANGED <<monitorVars, transportVars, stopEvent, handler, pipe, coordinator>>

\* CreateEvent may fail; then Load, which changes nothing modelled here
CreateStopEvent ==
  /\ Step("event", "pipe")
  /\ stopEvent' \in {"reset", "null"}
  /\ UNCHANGED <<monitorVars, transportVars, status, accepts, handler, pipe, coordinator>>

StartPipe ==
  /\ Step("pipe", "monitor")
  /\ pipe' = TRUE
  /\ UNCHANGED <<monitorVars, transportVars, reports, coordinator>>

StartMonitor ==
  /\ Step("monitor", "coordinator")
  /\ MonitorStart
  /\ UNCHANGED <<transportVars, reports, pipe, coordinator>>

\* The two servers are constructed, the coordinator learns of them and starts
StartCoordinator ==
  /\ Step("coordinator", "wifi")
  /\ objects' = {"wifi", "bt"} /\ coordinator' = TRUE
  /\ UNCHANGED <<monitorVars, wifiVars, beaconVars, btVars, clientVars, reports, pipe>>

\* What the servers' Start return is ignored
StartWifi ==
  /\ \/ Step("wifi", "bind") /\ WifiStart
     \/ Step("bind", "bt") /\ WifiBind
  /\ UNCHANGED <<monitorVars, reports, pipe, coordinator>>

StartBluetooth ==
  /\ Step("bt", "running")
  /\ BtStart
  /\ UNCHANGED <<monitorVars, reports, pipe, coordinator>>

ReportRunning ==
  /\ Step("running", "wait")
  /\ ReportServiceStatus("RUNNING")
  /\ UNCHANGED <<monitorVars, transportVars, stopEvent, handler, pipe, coordinator>>

\* The wait ends when the event is set, and at once when there is none
WaitForStop ==
  /\ Step("wait", "stopWifi")
  /\ stopEvent # "reset"
  /\ ReportServiceStatus("STOP_PENDING")
  /\ UNCHANGED <<monitorVars, transportVars, stopEvent, handler, pipe, coordinator>>
-----------------------------------------------------------------------------
(* ServiceMain, the way down *)

\* WiFiServer::Stop does nothing when Start has failed
StopWifi ==
  /\ \/ wifiRunning /\ Step("stopWifi", "joinBeacon") /\ WifiLower
     \/ ~wifiRunning /\ Step("stopWifi", "stopBt") /\ UNCHANGED transportVars
     \/ Step("joinBeacon", "joinWifi") /\ BeaconEnded /\ WifiClose
     \/ Step("joinWifi", "stopBt") /\ WifiJoinable /\ UNCHANGED transportVars
  /\ UNCHANGED <<monitorVars, reports, pipe, coordinator>>

\* BluetoothServer::Stop does nothing when its loop has failed
StopBluetooth ==
  /\ \/ btRunning /\ Step("stopBt", "closeBt") /\ BtLower
     \/ ~btRunning /\ Step("stopBt", "stopCoordinator") /\ UNCHANGED transportVars
     \/ Step("closeBt", "joinBt") /\ BtClose
     \/ Step("joinBt", "stopCoordinator") /\ BtJoin
  /\ UNCHANGED <<monitorVars, reports, pipe, coordinator>>

StopCoordinator ==
  /\ Step("stopCoordinator", "stopMonitor")
  /\ coordinator' = FALSE
  /\ UNCHANGED <<monitorVars, transportVars, reports, pipe>>

\* SessionMonitor::Stop does nothing when its window could not be made; it waits
\* for the thread, but not for ever
StopMonitor ==
  /\ \/ monitoring /\ Step("stopMonitor", "postClose") /\ MonitorLower
     \/ ~monitoring /\ Step("stopMonitor", "stopPipe") /\ UNCHANGED monitorVars
     \/ Step("postClose", "waitMonitor") /\ MonitorPostClose
     \/ Step("waitMonitor", "stopPipe") /\ UNCHANGED monitorVars
  /\ UNCHANGED <<transportVars, reports, pipe, coordinator>>

StopPipe ==
  /\ Step("stopPipe", "stopped") \/ Step("stopPipe", "hung")
  /\ pipe' = FALSE
  /\ UNCHANGED <<monitorVars, transportVars, reports, coordinator>>

ReportStopped ==
  /\ Step("stopped", "destroyBt")
  /\ ReportServiceStatus("STOPPED")
  /\ UNCHANGED <<monitorVars, transportVars, stopEvent, handler, pipe, coordinator>>

\* The destructors, in reverse order.  A thread object that was not joined ends the
\* process (std::terminate).
DestroyBluetooth ==
  /\ IF btThread THEN Step("destroyBt", "terminated") ELSE Step("destroyBt", "destroyWifi")
  /\ objects' = objects \ {"bt"}
  /\ UNCHANGED <<monitorVars, wifiVars, beaconVars, btVars, clientVars, reports,
                 pipe, coordinator>>

\* ~WiFiServer, whose member ~UDPBeacon stops a beacon that is still on
DestroyWifi ==
  /\ \/ Step("destroyWifi", "joinLast") /\ beaconOn' = FALSE
        /\ objects' = objects \ {"wifi"} /\ UNCHANGED beacon
     \/ Step("joinLast", "returned") /\ BeaconEnded /\ UNCHANGED <<beaconVars, objects>>
  /\ UNCHANGED <<monitorVars, wifiVars, btVars, clientVars, reports,
                 pipe, coordinator>>

ServiceMain ==
  \/ Register \/ CreateStopEvent \/ StartPipe \/ StartMonitor \/ StartCoordinator
  \/ StartWifi \/ StartBluetooth \/ ReportRunning \/ WaitForStop
  \/ StopWifi \/ StopBluetooth \/ StopCoordinator \/ StopMonitor \/ StopPipe
  \/ ReportStopped \/ DestroyBluetooth \/ DestroyWifi
-----------------------------------------------------------------------------
(* The other threads *)

\* A stop or shutdown, sent only while the service says that it accepts one
Control ==
  /\ handler = "idle"
  /\ accepts /\ status \in {"START_PENDING", "RUNNING"}
  /\ ReportServiceStatus("STOP_PENDING")
  /\ handler' = "stopping"
  /\ UNCHANGED <<monitorVars, transportVars, main, stopEvent, pipe, coordinator>>

SetStopEvent ==
  /\ handler = "stopping"
  /\ handler' = "idle"
  /\ stopEvent' = IF stopEvent = "null" THEN "null" ELSE "set"
  /\ UNCHANGED <<monitorVars, transportVars, main, status, accepts, pipe, coordinator>>

\* The process lives until ServiceMain has returned and main after it
Up == main \notin {"terminated", "crashed"}

Pump == Up /\ PumpStep /\ UNCHANGED <<transportVars, serviceVars>>

Loops == Up /\ LoopStep /\ UNCHANGED <<monitorVars, serviceVars>>

Connect ==
  /\ Up
  /\ \/ \E c \in WifiClients : WifiAccepts(c)
     \/ \E c \in BtClients : BtAccepts(c)
  /\ UNCHANGED <<monitorVars, serviceVars>>

ClientReceives(c) == Up /\ Receives(c) /\ UNCHANGED <<monitorVars, serviceVars>>

ClientFinishes(c) == Up /\ Finishes(c) /\ UNCHANGED <<monitorVars, serviceVars>>

\* What a client finds in place of its server may be anything
ClientCrashes(c) ==
  /\ Up
  /\ Orphan(c)
  /\ main' = "crashed"
  /\ UNCHANGED <<monitorVars, transportVars, reports, pipe, coordinator>>

\* HandleManualLock of a trusted phone's request answers success whether or not
\* Windows locks
ManualLock(c) ==
  /\ Up
  /\ client[c] = "handling"
  /\ LockWorkStation
  /\ Finishes(c)
  /\ UNCHANGED serviceVars

\* UI_TRIGGER_LOCK, read by a handler of the pipe server, which may outlive its Stop
TriggerLock ==
  /\ Up
  /\ main \notin {"register", "event", "pipe"}
  /\ main = "returned" => status = "STOPPED"
  /\ LockWorkStation
  /\ UNCHANGED <<transportVars, serviceVars>>

Next ==
  \/ ServiceMain
  \/ Control \/ SetStopEvent
  \/ Pump \/ Loops \/ Connect \/ TriggerLock
  \/ \E c \in Clients : ClientReceives(c) \/ ClientFinishes(c) \/ ClientCrashes(c) \/ ManualLock(c)

Spec == Init /\ [][Next]_vars

\* Every thread of the process runs, and a Wi-Fi client's recv times out.  Nobody has
\* to connect or to stop the service, and a Bluetooth client may be
\* silent for ever.
Fairness ==
  /\ WF_vars(ServiceMain) /\ WF_vars(SetStopEvent)
  /\ WF_vars(Pump)
  /\ WF_vars(Up /\ (WifiTest \/ WifiAcceptFails) /\ UNCHANGED <<monitorVars, serviceVars>>)
  /\ WF_vars(Up /\ (BtOpens \/ BtTest \/ BtAcceptFails) /\ UNCHANGED <<monitorVars, serviceVars>>)
  /\ \A t \in BeaconThreads :
       WF_vars(Up /\ (BeaconOpens(t) \/ BeaconEnds(t)) /\ UNCHANGED <<monitorVars, serviceVars>>)
  /\ \A c \in WifiClients :
       /\ WF_vars(Up /\ WifiServes(c) /\ UNCHANGED <<monitorVars, serviceVars>>)
       /\ WF_vars(ClientFinishes(c))
  /\ \A c \in BtClients :
       WF_vars(Up /\ BtServes(c) /\ UNCHANGED <<monitorVars, serviceVars>>)

FairSpec == Spec /\ Fairness
-----------------------------------------------------------------------------
(* Properties *)

TypeOK ==
  /\ MonitorTypeOK /\ TransportTypeOK
  /\ main \in {"register", "event", "pipe", "monitor", "coordinator", "wifi", "bind", "bt",
               "running", "wait", "stopWifi", "joinBeacon", "joinWifi", "stopBt", "closeBt",
               "joinBt", "stopCoordinator", "stopMonitor", "postClose", "waitMonitor",
               "stopPipe", "hung", "stopped", "destroyBt", "destroyWifi", "joinLast",
               "returned", "terminated", "crashed"}
  /\ status \in {"START_PENDING", "RUNNING", "STOP_PENDING", "STOPPED"}
  /\ accepts \in BOOLEAN /\ pipe \in BOOLEAN /\ coordinator \in BOOLEAN
  /\ stopEvent \in {"null", "reset", "set"}
  /\ handler \in {"idle", "stopping"}

\* When the service reports that it has stopped, no accept loop runs and nobody
\* announces it, except a beacon whose server never got its port: that one goes on
\* until the destructor, and no further.  std::terminate strikes only where the
\* Bluetooth loop had given up by itself.
StoppedIsQuiet ==
  /\ status = "STOPPED" =>
       /\ ~Alive(wifiLoop) /\ ~Alive(btLoop)
       /\ BeaconEnded \/ wifiFailed
  /\ main = "returned" => BeaconEnded
  /\ main = "terminated" => btLoop = "ended" /\ ~btSocket
  /\ main = "crashed" => status = "STOPPED"

\* No client gets a thread once its server's Stop has returned: a thread that
\* outlives the server is one that was accepted before.
Serving(c) ==
  main \in {"bind", "bt", "running", "wait", "stopWifi", "joinBeacon", "joinWifi"} \/
  (c \in BtClients /\ main \in {"stopBt", "closeBt", "joinBt"})

NobodyServedAfterStop ==
  [][\A c \in Clients :
       client[c] # "receiving" /\ client'[c] = "receiving" => Serving(c)]_vars

\* A stop request is carried out, whatever the service was doing: it leads to the
\* report that it stopped, unless the pipe server's Stop hangs.
StopCompletes == handler = "stopping" ~> (status = "STOPPED" \/ main = "hung")
-----------------------------------------------------------------------------
(* The inductive invariant behind StoppedIsQuiet and NobodyServedAfterStop *)

\* Before the coordinator starts there are no servers, and ServiceMain that found no
\* control handler is no further.
Early ==
  main \in {"register", "event", "pipe", "monitor", "coordinator"} \/
  (main = "returned" /\ status # "STOPPED")

\* What the service reports follows where ServiceMain is.
StatusInOrder ==
  /\ status = "STOPPED" =>
       main \in {"destroyBt", "destroyWifi", "joinLast", "returned", "terminated", "crashed"}
  /\ main \in {"destroyBt", "destroyWifi", "joinLast", "terminated", "crashed"} =>
       status = "STOPPED"

\* The servers exist until their destructors, and no client came before them.
ServersInOrder ==
  /\ main \notin {"destroyWifi", "joinLast", "returned", "terminated", "crashed"} =>
       Early \/ objects = {"wifi", "bt"}
  /\ Early => \A c \in Clients : client[c] = "away"

\* The Wi-Fi loop begins with WifiBind and has ended when Stop returns; Stop does
\* nothing only where Start failed, which left no loop.
WifiInOrder ==
  /\ Alive(wifiLoop) => main \in {"bt", "running", "wait", "stopWifi", "joinBeacon", "joinWifi"}
  /\ main \in {"bind", "bt", "running", "wait", "stopWifi"} => wifiRunning \/ wifiFailed
  /\ Early \/ main \in {"wifi", "bind"} => ~wifiFailed
  /\ wifiFailed => ~Alive(wifiLoop)

\* The beacon begins with WiFiServer::Start; when Stop returns it has ended, or its
\* server never got its port.
BeaconInOrder ==
  /\ Early \/ main \in {"wifi", "returned"} => BeaconEnded
  /\ main \notin {"bind", "bt", "running", "wait", "stopWifi", "joinBeacon"} =>
       BeaconEnded \/ wifiFailed

\* The Bluetooth loop has no socket that it left open
BtGaveUp == btLoop \in {"none", "ended"} /\ ~btSocket

\* The Bluetooth loop begins with Start and has ended when Stop returns; Stop leaves
\* the thread to be joined only where the loop had given up, and with it the socket.
BtInOrder ==
  /\ Alive(btLoop) => main \in {"running", "wait", "stopWifi", "joinBeacon", "joinWifi",
                                "stopBt", "closeBt", "joinBt"}
  /\ Early \/ main \in {"wifi", "bind", "bt"} => btLoop = "none"
  /\ btLoop = "none" => ~btThread
  /\ btLoop \in {"none", "opening"} => ~btSocket
  /\ main \in {"running", "wait", "stopWifi", "joinBeacon", "joinWifi", "stopBt"} =>
       btRunning \/ BtGaveUp
  /\ btThread /\ main \in {"stopCoordinator", "stopMonitor", "postClose", "waitMonitor",
                           "stopPipe", "stopped", "destroyBt", "terminated"} => BtGaveUp
  /\ main = "terminated" => btThread

ServiceInv ==
  /\ TypeOK /\ StatusInOrder /\ ServersInOrder
  /\ WifiInOrder /\ BeaconInOrder /\ BtInOrder
=============================================================================
