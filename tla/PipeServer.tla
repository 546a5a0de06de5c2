----------------------------- MODULE PipeServer -----------------------------
(***************************************************************************)
(* service/NamedPipeServer.cpp: the accept loop, one detached handler      *)
(* thread per pipe instance, NotifyAuthResolved and Stop.  All of them     *)
(* meet in the fields behind m_authMutex.  A waiter resets the result when *)
(* it begins to wait, takes the password when it wakes, and writes its     *)
(* reply, and waits for the other end to read it, with the mutex held.     *)
(* Of the text commands UI_TRIGGER_LOCK acts on the session, which is      *)
(* TriggerLock in Service; here they only answer, and are left out.        *)
(***************************************************************************)
EXTENDS Naturals, FiniteSets

CONSTANTS
  Instances,          \* pipe instances that exist at once; no limit in the code
  MaxNotifications    \* bound on the calls of NotifyAuthResolved

ASSUME PipeAssumption == MaxNotifications \in Nat

Notifications == 1..MaxNotifications
Empty == 0    \* the empty password

VARIABLES
  running,     \* m_isRunning
  main,        \* where the service's main thread is
  server,      \* where ServerLoop is
  at,          \* each instance: where its handler is, or what it waits for
  peer,        \* the credential provider's end of each instance
  asked,       \* has its one CP_WAIT_FOR_AUTH been read?
  hasResult,   \* m_authHasResult
  success,     \* m_authSuccess
  password,    \* m_authPassword, named after the notification that left it
  notified,    \* notifications made
  packet,      \* the packet each handler is writing
  since,       \* history: notifications made when its wait began
  given        \* history: how many packets carried each notification's password

vars == <<running, main, server, at, peer, asked, hasResult, success,
          password, notified, packet, since, given>>

result == <<hasResult, success, password, notified>>
waits == <<packet, since, given>>

NoPacket == [status |-> 0, password |-> Empty]

Init ==
  /\ running = FALSE /\ main = "off" /\ server = "off"
  /\ at = [i \in Instances |-> "free"]
  /\ peer = [i \in Instances |-> "gone"]
  /\ asked = [i \in Instances |-> FALSE]
  /\ hasResult = FALSE /\ success = FALSE /\ password = Empty /\ notified = 0
  /\ packet = [i \in Instances |-> NoPacket]
  /\ since = [i \in Instances |-> 0]
  /\ given = [n \in Notifications |-> 0]

\* m_authMutex outlives a step only in the handler that writes its reply
MutexFree == \A i \in Instances : at[i] # "writing"

MoveTo(i, label) == at' = [at EXCEPT ![i] = label]

\* CloseHandle of an instance, and the end of its handler
Close(i) ==
  /\ MoveTo(i, "free")
  /\ peer' = [peer EXCEPT ![i] = "gone"]
  /\ asked' = [asked EXCEPT ![i] = FALSE]
-----------------------------------------------------------------------------
(* Start, Stop and NotifyAuthResolved *)

Start ==
  /\ main = "off"
  /\ main' = "serving" /\ running' = TRUE /\ server' = "check"
  /\ UNCHANGED <<at, peer, asked, result, waits>>

Stop ==
  /\ main = "serving"
  /\ main' = "signal" /\ running' = FALSE
  /\ UNCHANGED <<server, at, peer, asked, result, waits>>

\* Stop wakes every waiter; m_authSuccess keeps what the last notification left
SignalWaiters ==
  /\ main = "signal"
  /\ MutexFree
  /\ main' = "dummy" /\ hasResult' = TRUE
  /\ UNCHANGED <<running, server, at, peer, asked, success, password, notified, waits>>

\* Mutant: the connection is tried until it succeeds
ConnectDummyAgain ==
  /\ main = "dummy"
  /\ main' = "join"
  /\ \E i \in Instances :
       /\ at[i] = "listening"
       /\ MoveTo(i, "connected")
  /\ UNCHANGED <<running, server, peer, asked, result, waits>>

\* The dummy client reaches the listening instance, if there is one
ConnectDummy ==
  /\ main = "dummy"
  /\ main' = "join"
  /\ \/ \E i \in Instances :
          /\ at[i] = "listening"
          /\ MoveTo(i, "connected")
     \/ /\ \A i \in Instances : at[i] # "listening"
        /\ UNCHANGED at
  /\ UNCHANGED <<running, server, peer, asked, result, waits>>

Join ==
  /\ main = "join"
  /\ server = "exited"
  /\ main' = "stopped"
  /\ UNCHANGED <<running, server, at, peer, asked, result, waits>>

\* The password is empty when no Windows credential is stored
NotifyAuthResolved ==
  /\ MutexFree
  /\ notified < MaxNotifications
  /\ notified' = notified + 1
  /\ success' = TRUE /\ hasResult' = TRUE
  /\ password' \in {notified + 1, Empty}
  /\ UNCHANGED <<running, main, server, at, peer, asked, waits>>
-----------------------------------------------------------------------------
(* ServerLoop *)

CheckRunning ==
  /\ server = "check"
  /\ server' = IF running THEN "create" ELSE "exited"
  /\ UNCHANGED <<running, main, at, peer, asked, result, waits>>

\* CreateNamedPipe; a failure sleeps and starts over
CreateInstance ==
  /\ server = "create"
  /\ \/ \E i \in Instances :
          /\ at[i] = "free"
          /\ MoveTo(i, "listening")
          /\ server' = "connect"
     \/ server' = "check" /\ UNCHANGED at
  /\ UNCHANGED <<running, main, peer, asked, result, waits>>

\* ConnectNamedPipe returns: a handler for the client, or nothing when the
\* server is stopping or the client has left again
Accept(i) ==
  /\ server = "connect"
  /\ at[i] = "connected"
  /\ server' = "check"
  /\ \/ /\ running
        /\ MoveTo(i, "loop")
        /\ UNCHANGED <<peer, asked>>
     \/ /\ ~running \/ peer[i] = "gone"
        /\ Close(i)
  /\ UNCHANGED <<running, main, result, waits>>
-----------------------------------------------------------------------------
(* HandleClient *)

Loop(i) ==
  /\ at[i] = "loop"
  /\ IF running
     THEN MoveTo(i, "reading") /\ UNCHANGED <<peer, asked>>
     ELSE Close(i)
  /\ UNCHANGED <<running, main, server, result, waits>>

\* Mutant: the result of the last wait is not reset
BeginWaitOnOldResult(i) ==
  /\ at[i] = "reading"
  /\ ~asked[i]
  /\ MutexFree
  /\ asked' = [asked EXCEPT ![i] = TRUE]
  /\ since' = [since EXCEPT ![i] = notified]
  /\ MoveTo(i, "waiting")
  /\ UNCHANGED <<running, main, server, peer, result, packet, given>>

\* ReadFile returned a CP_WAIT_FOR_AUTH, perhaps of a client already gone
BeginWait(i) ==
  /\ at[i] = "reading"
  /\ ~asked[i]
  /\ MutexFree
  /\ asked' = [asked EXCEPT ![i] = TRUE]
  /\ hasResult' = FALSE
  /\ since' = [since EXCEPT ![i] = notified]
  /\ MoveTo(i, "waiting")
  /\ UNCHANGED <<running, main, server, peer, success, password, notified, packet, given>>

\* Mutant: a failed ReadFile does not end the handler
ReadAgain(i) ==
  /\ at[i] = "reading"
  /\ peer[i] = "gone"
  /\ MoveTo(i, "loop")
  /\ UNCHANGED <<running, main, server, peer, asked, result, waits>>

\* ReadFile fails
ReadFails(i) ==
  /\ at[i] = "reading"
  /\ peer[i] = "gone"
  /\ Close(i)
  /\ UNCHANGED <<running, main, server, result, waits>>

\* Mutant: a third status for a wait that Stop ended
ReplyStopped ==
  IF hasResult /\ success THEN [status |-> 1, password |-> password]
  ELSE [status |-> IF hasResult THEN 2 ELSE 0, password |-> Empty]

Reply ==
  IF hasResult /\ success THEN [status |-> 1, password |-> password] ELSE NoPacket

\* The reply is built, the server's copy of the password scrubbed
Take(i) ==
  /\ packet' = [packet EXCEPT ![i] = Reply]
  /\ given' = [n \in Notifications |->
                 given[n] + (IF Reply.password = n THEN 1 ELSE 0)]
  /\ MoveTo(i, "writing")
  /\ UNCHANGED <<running, main, server, peer, asked, hasResult, success, notified, since>>

\* Mutants: no timeout; the password is not scrubbed
WakeOnResult(i) ==
  /\ at[i] = "waiting"
  /\ MutexFree
  /\ hasResult \/ ~running
  /\ password' = Empty
  /\ Take(i)
WakeAndKeep(i) ==
  /\ at[i] = "waiting"
  /\ MutexFree
  /\ password' = password
  /\ Take(i)

\* The wait ends, on the predicate or after 25 seconds
Wake(i) ==
  /\ at[i] = "waiting"
  /\ MutexFree
  /\ password' = Empty
  /\ Take(i)

\* WriteFile and FlushFileBuffers return: the other end has read, or is gone;
\* the packet is scrubbed
Flushed(i) ==
  /\ at[i] = "writing"
  /\ peer[i] # "waiting"
  /\ packet' = [packet EXCEPT ![i] = NoPacket]
  /\ since' = [since EXCEPT ![i] = 0]
  /\ MoveTo(i, "loop")
  /\ UNCHANGED <<running, main, server, peer, asked, result, given>>
-----------------------------------------------------------------------------
(* The other end: RunAuthMonitor asks once, reads one reply and closes *)

SetPeer(i, state) ==
  /\ peer' = [peer EXCEPT ![i] = state]
  /\ UNCHANGED <<running, main, server, asked, result, waits>>

PeerConnects(i) ==
  /\ at[i] = "listening"
  /\ MoveTo(i, "connected")
  /\ SetPeer(i, "waiting")

PeerReads(i) ==
  /\ at[i] = "writing"
  /\ peer[i] = "waiting"
  /\ SetPeer(i, "answered")
  /\ UNCHANGED at

PeerCloses(i) ==
  /\ peer[i] = "answered"
  /\ SetPeer(i, "gone")
  /\ UNCHANGED at

\* Its process ends
PeerDies(i) ==
  /\ peer[i] = "waiting"
  /\ SetPeer(i, "gone")
  /\ UNCHANGED at
-----------------------------------------------------------------------------
Handle(i) ==
  \/ Loop(i) \/ BeginWait(i) \/ ReadFails(i) \/ Wake(i) \/ Flushed(i)

Next ==
  \/ Start \/ Stop \/ SignalWaiters \/ ConnectDummy \/ Join
  \/ NotifyAuthResolved
  \/ CheckRunning \/ CreateInstance
  \/ \E i \in Instances :
       \/ Accept(i) \/ Handle(i)
       \/ PeerConnects(i) \/ PeerReads(i) \/ PeerCloses(i) \/ PeerDies(i)

Spec == Init /\ [][Next]_vars

\* Every thread runs; the mutex is not withheld for ever from a thread that keeps
\* finding it free; a live client reads its reply and closes.  Nobody has to
\* connect, to call Stop or to authenticate.
Fairness ==
  /\ WF_vars(CheckRunning) /\ WF_vars(CreateInstance)
  /\ SF_vars(SignalWaiters) /\ WF_vars(ConnectDummy) /\ WF_vars(Join)
  /\ \A i \in Instances :
       /\ WF_vars(Accept(i)) /\ WF_vars(Loop(i)) /\ WF_vars(Flushed(i))
       /\ WF_vars(ReadFails(i)) /\ SF_vars(BeginWait(i)) /\ SF_vars(Wake(i))
       /\ WF_vars(PeerReads(i)) /\ WF_vars(PeerCloses(i))

FairSpec == Spec /\ Fairness
-----------------------------------------------------------------------------
(* Properties *)

TypeOK ==
  /\ running \in BOOLEAN
  /\ main \in {"off", "serving", "signal", "dummy", "join", "stopped"}
  /\ server \in {"off", "check", "create", "connect", "exited"}
  /\ at \in [Instances -> {"free", "listening", "connected", "loop",
                           "reading", "waiting", "writing"}]
  /\ peer \in [Instances -> {"waiting", "answered", "gone"}]
  /\ asked \in [Instances -> BOOLEAN]
  /\ hasResult \in BOOLEAN /\ success \in BOOLEAN
  /\ notified \in 0..MaxNotifications
  /\ password \in 0..MaxNotifications
  /\ packet \in [Instances -> [status : {0, 1}, password : 0..MaxNotifications]]
  /\ since \in [Instances -> 0..MaxNotifications]
  /\ given \in [Notifications -> Nat]

\* "Immediately scrub in-memory password copy": however many waiters one
\* notification wakes, its password leaves the server in one packet at most,
\* and what the server still holds has not left it.
PasswordGivenOnce ==
  /\ \A n \in Notifications : given[n] <= 1
  /\ password # Empty => given[password] = 0

\* A wait is answered with the password of a notification made while it lasted,
\* although a password nobody waited for stays in the server and other waits
\* begin and reset the result in between.  (Stop raises the result without a
\* notification: a reply built after it is exempt.)
FreshPassword ==
  \A i \in Instances :
    at[i] = "writing" /\ packet[i].password # Empty /\ main \in {"off", "serving", "signal"}
      => packet[i].password > since[i]

\* Every wait ends in a reply, also when nobody authenticates, when other waits
\* reset the result it was woken for, and while other replies hold the mutex.
EveryWaitEnds == \A i \in Instances : at[i] = "waiting" ~> at[i] = "writing"

\* A detached handler does not outlive its client for ever.
HandlersEnd ==
  \A i \in Instances :
    (peer[i] = "gone" /\ at[i] \in {"loop", "reading", "waiting", "writing"})
      ~> at[i] = "free"

\* The dummy client of Stop came while no instance was listening, and the loop has
\* created one since: it waits in ConnectNamedPipe, and Stop for the loop.
DummyMissed ==
  /\ main = "join" /\ server = "connect"
  /\ \E i \in Instances : at[i] = "listening"

\* "Connect dummy client to unblock ConnectNamedPipe": Stop returns, except in
\* that one case, whatever waiters, replies that hold the mutex, clients that do
\* not read and failures of CreateNamedPipe it meets.
StopReturnsUnlessMissed == main = "signal" ~> (main = "stopped" \/ DummyMissed)
-----------------------------------------------------------------------------
(* The inductive invariant behind PasswordGivenOnce and FreshPassword *)

\* A notification that has not been made has left nothing anywhere.
NothingAhead ==
  /\ password <= notified
  /\ \A i \in Instances : since[i] <= notified
  /\ \A n \in Notifications : n > notified => given[n] = 0

\* A result that is ready, and was not raised by Stop, came after every wait in
\* progress began.
ResultIsFresh ==
  hasResult /\ password # Empty /\ main \in {"off", "serving", "signal"}
    => \A i \in Instances : at[i] = "waiting" => password > since[i]

PipeInv ==
  TypeOK /\ NothingAhead /\ ResultIsFresh /\ PasswordGivenOnce /\ FreshPassword
=============================================================================
