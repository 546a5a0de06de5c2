----------------------------- MODULE Transports -----------------------------
(***************************************************************************)
(* The Wi-Fi server with its UDP beacon, and the Bluetooth server: two     *)
(* locals of ServiceMain.  Each server has an accept loop, which Stop ends *)
(* by closing the socket and joins, and detaches a thread for every        *)
(* client, which nobody joins.  The beacon has two threads.  Start and the *)
(* Bluetooth loop fail when there is no socket, port or radio.             *)
(***************************************************************************)
EXTENDS Naturals

CONSTANTS
  WifiClients, BtClients     \* the connections made, one thread each

Clients == WifiClients \cup BtClients
BeaconThreads == {"broadcast", "listen"}

VARIABLES
  wifiRunning,  \* WiFiServer::m_isRunning
  wifiLoop,     \* its accept loop
  port,         \* is its socket listening?
  beaconOn,     \* UDPBeacon::m_isRunning
  beacon,       \* its two threads
  btRunning,    \* BluetoothServer::m_isRunning
  btLoop,       \* its accept loop
  btSocket,     \* is its socket open?
  btThread,     \* is its thread object joinable?
  btConnected,  \* m_hasActiveConnection
  client,       \* the detached client threads
  objects,      \* which of the two servers exist
  wifiFailed    \* history: WiFiServer::Start failed

wifiVars == <<wifiRunning, wifiLoop, port, wifiFailed>>
beaconVars == <<beaconOn, beacon>>
btVars == <<btRunning, btLoop, btSocket, btThread>>
clientVars == <<btConnected, client>>
transportVars == <<wifiVars, beaconVars, btVars, clientVars, objects>>

Alive(thread) == thread \notin {"none", "ended"}

TransportInit ==
  /\ wifiRunning = FALSE /\ wifiLoop = "none" /\ port = FALSE /\ wifiFailed = FALSE
  /\ beaconOn = FALSE /\ beacon = [t \in BeaconThreads |-> "none"]
  /\ btRunning = FALSE /\ btLoop = "none" /\ btSocket = FALSE /\ btThread = FALSE
  /\ btConnected = FALSE
  /\ client = [c \in Clients |-> "away"]
  /\ objects = {}
-----------------------------------------------------------------------------
(* UDPBeacon *)

BeaconStart ==
  /\ beaconOn' = TRUE
  /\ beacon' = [t \in BeaconThreads |-> "opening"]

\* A thread opens its socket, or gives up
BeaconOpens(t) ==
  /\ beacon[t] = "opening"
  /\ \E next \in {"active", "ended"} : beacon' = [beacon EXCEPT ![t] = next]
  /\ UNCHANGED <<wifiVars, beaconOn, btVars, clientVars, objects>>

\* It announces or answers until it sees that it was stopped (the socket of the
\* listener is closed under it)
BeaconEnds(t) ==
  /\ beacon[t] = "active" /\ ~beaconOn
  /\ beacon' = [beacon EXCEPT ![t] = "ended"]
  /\ UNCHANGED <<wifiVars, beaconOn, btVars, clientVars, objects>>

BeaconEnded == \A t \in BeaconThreads : ~Alive(beacon[t])
-----------------------------------------------------------------------------
(* WiFiServer *)

\* WiFiServer::Start up to the beacon
WifiStart ==
  /\ wifiRunning' = TRUE
  /\ BeaconStart
  /\ UNCHANGED <<wifiLoop, port, wifiFailed, btVars, clientVars, objects>>

\* The rest: socket, bind, listen and the accept thread, or a failure that leaves
\* the beacon on
WifiBind ==
  /\ \/ /\ port' = TRUE /\ wifiLoop' = "testing"
        /\ UNCHANGED <<wifiRunning, wifiFailed>>
     \/ /\ wifiRunning' = FALSE /\ wifiFailed' = TRUE
        /\ UNCHANGED <<port, wifiLoop>>
  /\ UNCHANGED <<beaconVars, btVars, clientVars, objects>>

\* Stop: the flag first, then the beacon
WifiLower ==
  /\ wifiRunning' = FALSE /\ beaconOn' = FALSE
  /\ UNCHANGED <<wifiLoop, port, wifiFailed, beacon, btVars, clientVars, objects>>

\* ... then the socket, and the join of the accept thread
WifiClose ==
  /\ port' = FALSE
  /\ UNCHANGED <<wifiRunning, wifiLoop, wifiFailed, beaconVars, btVars, clientVars, objects>>

\* Mutant: the accept thread is detached
WifiDetached == TRUE

WifiJoinable == ~Alive(wifiLoop)

WifiTest ==
  /\ wifiLoop = "testing"
  /\ wifiLoop' = IF wifiRunning THEN "accepting" ELSE "ended"
  /\ UNCHANGED <<wifiRunning, port, wifiFailed, beaconVars, btVars, clientVars, objects>>

\* accept fails on the closed socket
WifiAcceptFails ==
  /\ wifiLoop = "accepting" /\ ~port
  /\ wifiLoop' = "testing"
  /\ UNCHANGED <<wifiRunning, port, wifiFailed, beaconVars, btVars, clientVars, objects>>

\* accept returns a client ...
WifiAccepts(c) ==
  /\ wifiLoop = "accepting" /\ port
  /\ client[c] = "away"
  /\ client' = [client EXCEPT ![c] = "accepted"]
  /\ wifiLoop' = "accepted"
  /\ UNCHANGED <<wifiRunning, port, wifiFailed, beaconVars, btVars, btConnected, objects>>

\* ... which is forgotten unless the server still runs; if it does, it gets its thread,
\* whatever Stop does in between
WifiServes(c) ==
  /\ \/ /\ wifiLoop = "accepted" /\ client[c] = "accepted"
        /\ IF wifiRunning THEN wifiLoop' = "serving" /\ UNCHANGED client
                          ELSE wifiLoop' = "testing" /\ client' = [client EXCEPT ![c] = "done"]
     \/ /\ wifiLoop = "serving" /\ client[c] = "accepted"
        /\ client' = [client EXCEPT ![c] = "receiving"]
        /\ wifiLoop' = "testing"
  /\ UNCHANGED <<wifiRunning, port, wifiFailed, beaconVars, btVars, btConnected, objects>>
-----------------------------------------------------------------------------
(* BluetoothServer *)

\* Start, with a radio or without
BtStart ==
  /\ \/ btRunning' = TRUE /\ btLoop' = "opening" /\ btThread' = TRUE
     \/ UNCHANGED <<btRunning, btLoop, btThread>>
  /\ UNCHANGED <<wifiVars, beaconVars, btSocket, clientVars, objects>>

\* ServerLoop's socket, bind and listen; a failure lowers the flag
BtOpens ==
  /\ btLoop = "opening"
  /\ \/ btLoop' = "testing" /\ btSocket' = TRUE /\ UNCHANGED btRunning
     \/ btLoop' = "ended" /\ btRunning' = FALSE /\ UNCHANGED btSocket
  /\ UNCHANGED <<wifiVars, beaconVars, btThread, clientVars, objects>>

BtLower ==
  /\ btRunning' = FALSE /\ btConnected' = FALSE
  /\ UNCHANGED <<wifiVars, beaconVars, btLoop, btSocket, btThread, client, objects>>

BtClose ==
  /\ btSocket' = FALSE
  /\ UNCHANGED <<wifiVars, beaconVars, btRunning, btLoop, btThread, clientVars, objects>>

\* The join, once the loop has ended
BtJoin ==
  /\ ~Alive(btLoop)
  /\ btThread' = FALSE
  /\ UNCHANGED <<wifiVars, beaconVars, btRunning, btLoop, btSocket, clientVars, objects>>

BtTest ==
  /\ btLoop = "testing"
  /\ btLoop' = IF btRunning THEN "accepting" ELSE "ended"
  /\ UNCHANGED <<wifiVars, beaconVars, btRunning, btSocket, btThread, clientVars, objects>>

BtAcceptFails ==
  /\ btLoop = "accepting" /\ ~btSocket
  /\ btLoop' = "testing"
  /\ UNCHANGED <<wifiVars, beaconVars, btRunning, btSocket, btThread, clientVars, objects>>

BtAccepts(c) ==
  /\ btLoop = "accepting" /\ btSocket
  /\ client[c] = "away"
  /\ client' = [client EXCEPT ![c] = "accepted"]
  /\ btLoop' = "accepted"
  /\ UNCHANGED <<wifiVars, beaconVars, btRunning, btSocket, btThread, btConnected, objects>>

BtServes(c) ==
  /\ \/ /\ btLoop = "accepted" /\ client[c] = "accepted"
        /\ IF btRunning THEN btLoop' = "serving" /\ UNCHANGED client
                        ELSE btLoop' = "testing" /\ client' = [client EXCEPT ![c] = "done"]
        /\ UNCHANGED btConnected
     \/ /\ btLoop = "serving" /\ client[c] = "accepted"
        /\ client' = [client EXCEPT ![c] = "receiving"]
        /\ btConnected' = TRUE
        /\ btLoop' = "testing"
  /\ UNCHANGED <<wifiVars, beaconVars, btRunning, btSocket, btThread, objects>>
-----------------------------------------------------------------------------
(* HandleClient of either server *)

\* Its server has been destroyed under it: m_coordinator and m_hasActiveConnection are
\* no longer there
Orphan(c) ==
  /\ client[c] \in {"receiving", "handling"}
  /\ (IF c \in WifiClients THEN "wifi" ELSE "bt") \notin objects

\* recv has returned a request, whose handling begins with m_coordinator
Receives(c) ==
  /\ client[c] = "receiving"
  /\ client' = [client EXCEPT ![c] = "handling"]
  /\ UNCHANGED <<wifiVars, beaconVars, btVars, btConnected, objects>>

\* recv has returned nothing (Wi-Fi: after five seconds), or the answer is sent;
\* a Bluetooth thread ends with a write to m_hasActiveConnection
Finishes(c) ==
  /\ client[c] \in {"receiving", "handling"}
  /\ client' = [client EXCEPT ![c] = "done"]
  /\ btConnected' = (c \notin BtClients /\ btConnected)
  /\ UNCHANGED <<wifiVars, beaconVars, btVars, objects>>

LoopStep ==
  \/ WifiTest \/ WifiAcceptFails \/ BtOpens \/ BtTest \/ BtAcceptFails
  \/ \E t \in BeaconThreads : BeaconOpens(t) \/ BeaconEnds(t)
  \/ \E c \in WifiClients : WifiServes(c)
  \/ \E c \in BtClients : BtServes(c)
-----------------------------------------------------------------------------
TransportTypeOK ==
  /\ wifiRunning \in BOOLEAN /\ port \in BOOLEAN /\ wifiFailed \in BOOLEAN
  /\ wifiLoop \in {"none", "testing", "accepting", "accepted", "serving", "ended"}
  /\ beaconOn \in BOOLEAN
  /\ beacon \in [BeaconThreads -> {"none", "opening", "active", "ended"}]
  /\ btRunning \in BOOLEAN /\ btSocket \in BOOLEAN /\ btThread \in BOOLEAN
  /\ btLoop \in {"none", "opening", "testing", "accepting", "accepted", "serving", "ended"}
  /\ btConnected \in BOOLEAN
  /\ client \in [Clients -> {"away", "accepted", "receiving", "handling", "done"}]
  /\ objects \subseteq {"wifi", "bt"}
=============================================================================
