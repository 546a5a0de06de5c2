-------------------------- MODULE PipeServer_proofs --------------------------
(***************************************************************************)
(* Theorems about PipeServer, for any number of pipe instances and of      *)
(* notifications: its type invariant, that a password leaves the server at *)
(* most once, and that it only answers waits it was made for.              *)
(***************************************************************************)
EXTENDS PipeServer, TLAPS

\* The initial state satisfies the inductive invariant.
LEMMA PipeInitInv == Init => PipeInv
<1>. SUFFICES ASSUME Init PROVE PipeInv
  OBVIOUS
<1>1. TypeOK
  <2>1. 0 \in 0..MaxNotifications
    BY PipeAssumption
  <2>2. [i \in Instances |-> NoPacket]
          \in [Instances -> [status : {0, 1}, password : 0..MaxNotifications]]
    BY <2>1 DEF NoPacket, Empty
  <2>3. given \in [Notifications -> Nat]
    BY DEF Init
  <2>. QED  BY <2>1, <2>2, <2>3 DEF Init, TypeOK, Empty
<1>2. NothingAhead /\ ResultIsFresh /\ PasswordGivenOnce /\ FreshPassword
  BY DEF Init, NothingAhead, ResultIsFresh, PasswordGivenOnce, FreshPassword, Empty
<1>. QED  BY <1>1, <1>2 DEF PipeInv

\* Steps that touch neither the result nor a wait, and let no handler begin or end
\* one: starting and stopping, the accept loop, and the other ends of the pipes.
Moves ==
  /\ UNCHANGED <<hasResult, success, password, notified, packet, since, given>>
  /\ \A i \in Instances : at'[i] \in {"waiting", "writing"} => at'[i] = at[i]
  /\ main' \in {"off", "serving", "signal"} => main \in {"off", "serving", "signal"}
  /\ TypeOK'

\* Such steps keep the invariant.
LEMMA MovesStep == PipeInv /\ Moves => PipeInv'
BY DEF Moves, PipeInv, NothingAhead, ResultIsFresh, PasswordGivenOnce, FreshPassword

\* Which steps they are.
LEMMA OtherSteps ==
  ASSUME PipeInv,
         \/ Start \/ Stop \/ ConnectDummy \/ Join \/ CheckRunning \/ CreateInstance
         \/ \E i \in Instances :
              \/ Accept(i) \/ Loop(i) \/ ReadFails(i)
              \/ PeerConnects(i) \/ PeerReads(i) \/ PeerCloses(i) \/ PeerDies(i)
         \/ UNCHANGED vars
  PROVE  Moves
<1>. USE DEF PipeInv, TypeOK, Moves, result, waits
<1>1. CASE Start \/ Stop \/ Join \/ CheckRunning
  BY <1>1 DEF Start, Stop, Join, CheckRunning
<1>2. CASE ConnectDummy
  BY <1>2 DEF ConnectDummy, MoveTo
<1>3. CASE CreateInstance
  BY <1>3 DEF CreateInstance, MoveTo
<1>4. ASSUME NEW i \in Instances, Accept(i) \/ Loop(i) \/ ReadFails(i) PROVE Moves
  BY <1>4 DEF Accept, Loop, ReadFails, Close, MoveTo
<1>5. ASSUME NEW i \in Instances,
             PeerConnects(i) \/ PeerReads(i) \/ PeerCloses(i) \/ PeerDies(i)
      PROVE  Moves
  BY <1>5 DEF PeerConnects, PeerReads, PeerCloses, PeerDies, SetPeer, MoveTo
<1>6. CASE UNCHANGED vars
  BY <1>6 DEF vars
<1>. QED  BY <1>1, <1>2, <1>3, <1>4, <1>5, <1>6

\* Stop raises the result; from then on freshness is not claimed.
LEMMA SignalStep == PipeInv /\ SignalWaiters => PipeInv'
BY DEF PipeInv, TypeOK, NothingAhead, ResultIsFresh, PasswordGivenOnce, FreshPassword,
       SignalWaiters, waits

\* A notification is newer than every wait in progress and has been given to none.
LEMMA NotifyStep == PipeInv /\ NotifyAuthResolved => PipeInv'
<1>. SUFFICES ASSUME PipeInv, NotifyAuthResolved PROVE PipeInv'
  OBVIOUS
<1>1. /\ notified \in Nat /\ notified + 1 \in Notifications /\ notified' = notified + 1
      /\ notified' \in 0..MaxNotifications
      /\ password' \in {notified + 1, Empty}
      /\ UNCHANGED <<running, main, server, at, peer, asked, packet, since, given>>
      /\ success' = TRUE /\ hasResult' = TRUE
  BY PipeAssumption DEF PipeInv, TypeOK, NotifyAuthResolved, Notifications, waits
<1>2. TypeOK'
  BY <1>1, PipeAssumption DEF PipeInv, TypeOK, Empty
<1>3. NothingAhead'
  BY <1>1 DEF PipeInv, TypeOK, NothingAhead, Notifications, Empty
<1>4. ResultIsFresh'
  BY <1>1 DEF PipeInv, TypeOK, NothingAhead, ResultIsFresh, Empty
<1>5. PasswordGivenOnce' /\ FreshPassword'
  BY <1>1 DEF PipeInv, NothingAhead, PasswordGivenOnce, FreshPassword, Empty
<1>. QED  BY <1>2, <1>3, <1>4, <1>5 DEF PipeInv

\* A wait that begins resets the result.
LEMMA BeginWaitStep ==
  ASSUME PipeInv, NEW i \in Instances, BeginWait(i)
  PROVE  PipeInv'
<1>1. TypeOK'
  BY DEF PipeInv, TypeOK, BeginWait, MoveTo
<1>2. NothingAhead'
  BY DEF PipeInv, TypeOK, NothingAhead, BeginWait
<1>3. ResultIsFresh' /\ PasswordGivenOnce'
  BY DEF PipeInv, ResultIsFresh, PasswordGivenOnce, BeginWait
<1>4. FreshPassword'
  BY DEF PipeInv, TypeOK, FreshPassword, BeginWait, MoveTo
<1>. QED  BY <1>1, <1>2, <1>3, <1>4 DEF PipeInv

\* A wait that ends takes the password away.
LEMMA WakeStep ==
  ASSUME PipeInv, NEW i \in Instances, Wake(i)
  PROVE  PipeInv'
<1>1. /\ Reply \in [status : {0, 1}, password : 0..MaxNotifications]
      /\ Reply.password # Empty => Reply.password = password /\ hasResult
  BY PipeAssumption DEF Reply, NoPacket, PipeInv, TypeOK, Empty
<1>2. /\ password' = Empty /\ packet' = [packet EXCEPT ![i] = Reply]
      /\ given' = [n \in Notifications |->
                     given[n] + (IF Reply.password = n THEN 1 ELSE 0)]
      /\ at[i] = "waiting" /\ at' = [at EXCEPT ![i] = "writing"]
      /\ UNCHANGED <<running, main, server, peer, asked, hasResult, success,
                     notified, since>>
  BY DEF Wake, Take, MoveTo
<1>3. given' \in [Notifications -> Nat]
  BY <1>2 DEF PipeInv, TypeOK
<1>4. TypeOK'
  BY <1>1, <1>2, <1>3, PipeAssumption DEF PipeInv, TypeOK, Empty
<1>5. \A n \in Notifications :
        given'[n] = IF Reply.password = n THEN given[n] + 1 ELSE given[n]
  BY <1>2 DEF PipeInv, TypeOK
<1>6. \A n \in Notifications : n # Empty
  BY PipeAssumption DEF Notifications, Empty
<1>7. NothingAhead'
  <2>1. ASSUME NEW n \in Notifications, n > notified PROVE given'[n] = 0
    <3>1. password <= notified /\ password \in Nat /\ notified \in Nat /\ n \in Nat
      BY PipeAssumption DEF PipeInv, TypeOK, NothingAhead, Notifications
    <3>2. n # password
      BY <2>1, <3>1
    <3>3. Reply.password # n
      BY <1>1, <1>6, <3>2
    <3>. QED  BY <1>5, <2>1, <3>3 DEF PipeInv, NothingAhead
  <2>2. 0 <= notified
    BY PipeAssumption DEF PipeInv, TypeOK
  <2>. QED  BY <1>2, <2>1, <2>2 DEF PipeInv, NothingAhead, Empty
<1>8. PasswordGivenOnce'
  <2>1. ASSUME NEW n \in Notifications PROVE given'[n] <= 1
    <3>1. CASE Reply.password = n
      <4>1. given[n] = 0
        BY <1>1, <1>6, <3>1 DEF PipeInv, PasswordGivenOnce
      <4>. QED  BY <1>5, <3>1, <4>1
    <3>2. CASE Reply.password # n
      BY <1>5, <3>2 DEF PipeInv, PasswordGivenOnce
    <3>. QED  BY <3>1, <3>2
  <2>. QED  BY <1>2, <2>1 DEF PasswordGivenOnce
<1>9. ResultIsFresh'
  BY <1>2 DEF ResultIsFresh
<1>10. FreshPassword'
  BY <1>1, <1>2 DEF PipeInv, TypeOK, ResultIsFresh, FreshPassword
<1>. QED  BY <1>4, <1>7, <1>8, <1>9, <1>10 DEF PipeInv

\* A handler that has written its reply forgets it.
LEMMA FlushedStep ==
  ASSUME PipeInv, NEW i \in Instances, Flushed(i)
  PROVE  PipeInv'
<1>1. /\ packet' = [packet EXCEPT ![i] = NoPacket] /\ since' = [since EXCEPT ![i] = 0]
      /\ at' = [at EXCEPT ![i] = "loop"]
      /\ UNCHANGED <<running, main, server, peer, asked, hasResult, success,
                     password, notified, given>>
  BY DEF Flushed, MoveTo, result
<1>2. TypeOK'
  BY <1>1, PipeAssumption DEF PipeInv, TypeOK, NoPacket, Empty
<1>3. NothingAhead' /\ PasswordGivenOnce'
  BY <1>1, PipeAssumption DEF PipeInv, TypeOK, NothingAhead, PasswordGivenOnce
<1>4. ResultIsFresh' /\ FreshPassword'
  BY <1>1 DEF PipeInv, TypeOK, ResultIsFresh, FreshPassword
<1>. QED  BY <1>2, <1>3, <1>4 DEF PipeInv

\* Every step keeps the inductive invariant.
LEMMA PipeStep == PipeInv /\ [Next]_vars => PipeInv'
BY OtherSteps, MovesStep, SignalStep, NotifyStep, BeginWaitStep, WakeStep, FlushedStep
   DEF Next, Handle
-----------------------------------------------------------------------------
\* The inductive invariant holds in every reachable state.
THEOREM PipeInvariant == Spec => []PipeInv
BY PipeInitInv, PipeStep, PTL DEF Spec

\* Every value of the server's state is one TypeOK allows.
THEOREM PipeTypeOK == Spec => []TypeOK
<1>1. PipeInv => TypeOK
  BY DEF PipeInv
<1>. QED  BY PipeInvariant, <1>1, PTL

\* However many waiters a notification wakes, its password leaves in one packet.
THEOREM PipePasswordGivenOnce == Spec => []PasswordGivenOnce
<1>1. PipeInv => PasswordGivenOnce
  BY DEF PipeInv
<1>. QED  BY PipeInvariant, <1>1, PTL

\* Until Stop signals, a reply's password is newer than the wait it answers.
THEOREM PipeFreshPassword == Spec => []FreshPassword
<1>1. PipeInv => FreshPassword
  BY DEF PipeInv
<1>. QED  BY PipeInvariant, <1>1, PTL
=============================================================================
