------------------------------ MODULE AuthFlow ------------------------------
(***************************************************************************)
(* The authentication core: AuthCoordinator's challenge, CryptoEngine's    *)
(* table of outstanding challenges and the transport threads that run      *)
(* HandleAuthResponse.  A handler holds no lock across its steps: it copies*)
(* the phone out of the KeyStore, asks the blacklists, verifies and        *)
(* notifies, each under another short critical section, while the user     *)
(* revokes and pairs phones, the session locks and unlocks and the clock   *)
(* moves.                                                                  *)
(***************************************************************************)
EXTENDS PhoneRegistry

CONSTANTS
  Handlers,         \* the transports' client threads
  MaxChallenges,    \* bound on the challenges created
  MaxNonces,        \* the literal 5000: consumed nonces retained
  Window,           \* the literal 30000 ms
  MaxTime           \* bound on the clock

ASSUME AuthFlowAssumption ==
  /\ MaxChallenges \in Nat
  /\ MaxNonces \in Nat
  /\ Window \in Nat
  /\ MaxTime \in Nat

Challenges == 1..MaxChallenges
Times == 0..MaxTime

VARIABLES
  now,
  reg,           \* the KeyStore's registry
  active,        \* AuthCoordinator::m_activeChallenge
  issued,        \* challenges created; the last one's number is its id
  outstanding,   \* keys of CryptoEngine::m_activeChallenges, all "PENDING"
  consumed,      \* CryptoEngine::m_consumedNonces
  pc,            \* where each handler is
  req,           \* the message it handles
  key,           \* the key of the phone it copied from the KeyStore
  offered,       \* history: challenges a phone has been shown
  accepts,       \* history: how often VerifyAuthResponse accepted each
  announces,     \* history: how often NotifyAuthResolved was called for each
  seen           \* history: what the blacklists held when the message arrived

vars == <<now, reg, active, issued, outstanding, consumed, pc, req, key,
          offered, accepts, announces, seen>>

session == <<active, issued, offered>>
engine == <<outstanding, consumed, accepts>>
thread == <<pc, req, key, seen>>

NoChallenge == [id |-> 0, at |-> 0, state |-> "NONE"]

ActiveChallenge ==
  {NoChallenge} \cup
  [id : Challenges, at : Times, state : {"PENDING", "EXPIRED"}]

\* An AUTH_CHALLENGE_RESP names a phone and a challenge (0 when the engine never
\* made it) and carries the phone's timestamp.  Whether its signature is one
\* VerifyAuthResponse takes is left open until it is looked at.
Request == [phone : PhoneIds, challenge : {0} \cup Challenges, ts : Times]

NoRequest == [challenge |-> 0]
NothingSeen == [ids |-> {}, keys |-> {}]

Fresh(t) == now <= t + Window /\ t <= now + Window

Init ==
  /\ now = 0
  /\ reg = EmptyRegistry
  /\ active = NoChallenge /\ issued = 0 /\ offered = {}
  /\ outstanding = {} /\ consumed = {}
  /\ accepts = [c \in Challenges |-> 0]
  /\ announces = [c \in Challenges |-> 0]
  /\ pc = [h \in Handlers |-> "idle"]
  /\ req = [h \in Handlers |-> NoRequest]
  /\ key = [h \in Handlers |-> NoKey]
  /\ seen = [h \in Handlers |-> NothingSeen]
-----------------------------------------------------------------------------
(* The session events, and the phones' poll *)

\* Mutant: a challenge still pending is offered on
LockKeepingOffer ==
  /\ reg.trusted # <<>>
  /\ issued < MaxChallenges
  /\ issued' = issued + 1
  /\ active' = IF active.state = "PENDING" THEN active
               ELSE [id |-> issued + 1, at |-> now, state |-> "PENDING"]
  /\ outstanding' = outstanding \cup {issued + 1}
  /\ UNCHANGED <<now, reg, consumed, accepts, announces, offered, thread>>

\* OnPcLocked: no challenge without a trusted phone; a new challenge replaces
\* the coordinator's copy and joins the engine's table
OnPcLocked ==
  /\ reg.trusted # <<>>
  /\ issued < MaxChallenges
  /\ issued' = issued + 1
  /\ active' = [id |-> issued + 1, at |-> now, state |-> "PENDING"]
  /\ outstanding' = outstanding \cup {issued + 1}
  /\ UNCHANGED <<now, reg, consumed, accepts, announces, offered, thread>>

\* Mutant: only the state of the challenge is reset
ForgetState ==
  /\ active # NoChallenge
  /\ active' = [active EXCEPT !.state = "NONE"]
  /\ UNCHANGED <<now, reg, issued, offered, engine, announces, thread>>

\* OnPcUnlocked, OnPcSleep, Stop: the coordinator forgets its copy
ForgetChallenge ==
  /\ active # NoChallenge
  /\ active' = NoChallenge
  /\ UNCHANGED <<now, reg, issued, offered, engine, announces, thread>>

\* GetPendingChallengeJson: offers the pending challenge, or finds it too old
GetPendingChallenge ==
  /\ active.state = "PENDING"
  /\ \/ /\ now > active.at + Window
        /\ active' = [active EXCEPT !.state = "EXPIRED"]
        /\ UNCHANGED offered
     \/ /\ now <= active.at + Window
        /\ offered' = offered \cup {active.id}
        /\ UNCHANGED active
  /\ UNCHANGED <<now, reg, issued, engine, announces, thread>>
-----------------------------------------------------------------------------
(* A handler *)

\* ProcessIncomingJsonMessage dispatches a message.  A phone can answer a
\* challenge it was offered, or name one that never was.
Arrive(h, r) ==
  /\ pc[h] = "idle"
  /\ r.challenge \in offered \cup {0}
  /\ pc' = [pc EXCEPT ![h] = "lookup"]
  /\ req' = [req EXCEPT ![h] = r]
  /\ seen' = [seen EXCEPT ![h] = [ids |-> reg.revokedIds \cap {r.phone},
                                    keys |-> reg.revokedKeys]]
  /\ UNCHANGED <<now, reg, session, engine, announces, key>>

Goto(h, label) ==
  /\ pc' = [pc EXCEPT ![h] = label]
  /\ UNCHANGED <<req, key, seen>>

\* Any reply ends the handler
Reply(h) ==
  /\ pc' = [pc EXCEPT ![h] = "idle"]
  /\ req' = [req EXCEPT ![h] = NoRequest]
  /\ key' = [key EXCEPT ![h] = NoKey]
  /\ seen' = [seen EXCEPT ![h] = NothingSeen]

\* GetTrustedPhone copies the phone out, or the device is unknown
Lookup(h) ==
  /\ pc[h] = "lookup"
  /\ \/ /\ Knows(reg, req[h].phone)
        /\ pc' = [pc EXCEPT ![h] = "checkPhone"]
        /\ key' = [key EXCEPT ![h] = PhoneWithId(reg, req[h].phone).key]
        /\ UNCHANGED <<req, seen>>
     \/ /\ ~Knows(reg, req[h].phone)
        /\ Reply(h)
  /\ UNCHANGED <<now, reg, session, engine, announces>>

\* IsPhoneRevoked, then (another critical section) IsKeyRevoked of the copy
CheckPhone(h) ==
  /\ pc[h] = "checkPhone"
  /\ IF PhoneRevoked(reg, req[h].phone) THEN Reply(h) ELSE Goto(h, "checkKey")
  /\ UNCHANGED <<now, reg, session, engine, announces>>

\* Mutant: the key of the copied phone is not looked up in the blacklist
CheckNoKey(h) ==
  /\ pc[h] = "checkKey"
  /\ Goto(h, "verify")
  /\ UNCHANGED <<now, reg, session, engine, announces>>

CheckKey(h) ==
  /\ pc[h] = "checkKey"
  /\ IF KeyRevoked(reg, key[h])
     THEN Reply(h)
     ELSE Goto(h, "verify")
  /\ UNCHANGED <<now, reg, session, engine, announces>>

\* The replay set forgets one nonce (begin() of a set ordered by random hex,
\* so any of them) when it has grown past its limit
Retain(nonces) ==
  IF Cardinality(nonces) > MaxNonces
  THEN {nonces \ {n} : n \in nonces}
  ELSE {nonces}

\* The tests of VerifyAuthResponse before the one of the signature
Verifiable(h) ==
  /\ req[h].challenge \in outstanding \ consumed
  /\ Fresh(req[h].ts)

\* Mutant: acceptance leaves the challenge in the table
AcceptAndKeep(h) ==
  /\ pc[h] = "verify"
  /\ Verifiable(h)
  /\ consumed' \in Retain(consumed \cup {req[h].challenge})
  /\ accepts' = [accepts EXCEPT ![req[h].challenge] = @ + 1]
  /\ Goto(h, "notify")
  /\ UNCHANGED <<now, reg, session, outstanding, announces>>

\* VerifyAuthResponse, under the engine's own mutex: accepted
Accept(h) ==
  /\ pc[h] = "verify"
  /\ Verifiable(h)
  /\ consumed' \in Retain(consumed \cup {req[h].challenge})
  /\ outstanding' = outstanding \ {req[h].challenge}
  /\ accepts' = [accepts EXCEPT ![req[h].challenge] = @ + 1]
  /\ Goto(h, "notify")
  /\ UNCHANGED <<now, reg, session, announces>>

\* ... and refused: a test failed, or the signature is none
Refuse(h) ==
  /\ pc[h] = "verify"
  /\ Reply(h)
  /\ UNCHANGED <<now, reg, session, engine, announces>>

\* Mutant: a phone removed in the meantime is dropped without a notification
NotifyIfStillTrusted(h) ==
  /\ pc[h] = "notify"
  /\ announces' = IF Knows(reg, req[h].phone)
                  THEN [announces EXCEPT ![req[h].challenge] = @ + 1]
                  ELSE announces
  /\ Reply(h)
  /\ UNCHANGED <<now, reg, session, engine>>

\* GetWindowsCredential and NotifyAuthResolved(true, ...); what follows
\* (UpdatePhoneLastSeen and the reply) changes nothing modelled here
Notify(h) ==
  /\ pc[h] = "notify"
  /\ announces' = [announces EXCEPT ![req[h].challenge] = @ + 1]
  /\ Reply(h)
  /\ UNCHANGED <<now, reg, session, engine>>
-----------------------------------------------------------------------------
(* The KeyStore's other callers, and time *)

RegistryChanges ==
  /\ \/ \E p \in Phones : Accepts(reg, p) /\ reg' = WithPhone(reg, p)
     \/ \E id \in PhoneIds : Knows(reg, id) /\ reg' = WithoutPhone(reg, id)
     \/ \E id \in PhoneIds : reg' = WithRevoked(reg, id)
  /\ UNCHANGED <<now, session, engine, announces, thread>>

Tick ==
  /\ now < MaxTime
  /\ now' = now + 1
  /\ UNCHANGED <<reg, session, engine, announces, thread>>

Handle(h) ==
  \/ Lookup(h) \/ CheckPhone(h) \/ CheckKey(h)
  \/ Accept(h) \/ Refuse(h) \/ Notify(h)

Next ==
  \/ OnPcLocked \/ ForgetChallenge \/ GetPendingChallenge
  \/ RegistryChanges \/ Tick
  \/ \E h \in Handlers : Handle(h) \/ \E r \in Request : Arrive(h, r)

Spec == Init /\ [][Next]_vars
-----------------------------------------------------------------------------
(* Properties *)

Labels == {"idle", "lookup", "checkPhone", "checkKey", "verify", "notify"}

TypeOK ==
  /\ now \in Times
  /\ reg \in Registry
  /\ active \in ActiveChallenge
  /\ issued \in 0..MaxChallenges
  /\ outstanding \subseteq Challenges
  /\ consumed \subseteq Challenges
  /\ pc \in [Handlers -> Labels]
  /\ req \in [Handlers -> Request \cup {NoRequest}]
  /\ key \in [Handlers -> Keys \cup {NoKey}]
  /\ offered \subseteq Challenges
  /\ accepts \in [Challenges -> Nat]
  /\ announces \in [Challenges -> Nat]
  /\ seen \in [Handlers -> [ids : SUBSET PhoneIds, keys : SUBSET Keys]]

\* A blacklist entry made before a message arrived stops the message, whether
\* it names the phone or only shares a key with one that was revoked: no
\* handler gets past the checks on a copy of the phone that it should refuse.
BlacklistHonoured ==
  \A h \in Handlers : pc[h] \in {"verify", "notify"} =>
    /\ req[h].phone \notin seen[h].ids
    /\ key[h] \notin seen[h].keys

\* The handlers on their way to announce an acceptance of c
InFlight(c) == {h \in Handlers : pc[h] = "notify" /\ req[h].challenge = c}

\* An acceptance is never lost: every accepted challenge has been announced to
\* the named pipe, or exactly one handler is on its way to announce it.
NoLostAcceptance ==
  \A c \in Challenges : accepts[c] = announces[c] + Cardinality(InFlight(c))

\* The coordinator and the engine keep separate copies of a challenge.  What is
\* offered is the newest challenge, and one the engine either still takes or
\* has accepted from another phone.
OfferedIsNewest ==
  active # NoChallenge =>
    /\ active.id = issued
    /\ active.id \in outstanding \/ accepts[active.id] = 1

\* The flow implements the ledger: whatever the interleaving of two answers to
\* one challenge, it is accepted once; forgetting old nonces does not matter.
Ledger == INSTANCE ChallengeLedger WITH open <- outstanding

ImplementsLedger == Ledger!Spec
-----------------------------------------------------------------------------
(* The inductive invariant behind BlacklistHonoured, NoLostAcceptance and the
   refinement *)

\* What a handler saw in the blacklists is still there, and what it has checked
\* was not in what it saw.
Checked ==
  \A h \in Handlers : pc[h] # "idle" =>
    /\ req[h] \in Request
    /\ seen[h].ids \subseteq reg.revokedIds
    /\ seen[h].keys \subseteq reg.revokedKeys
    /\ pc[h] \in {"checkKey", "verify", "notify"} => req[h].phone \notin seen[h].ids
    /\ pc[h] \in {"verify", "notify"} => key[h] \notin seen[h].keys

\* What the table holds was issued; what it holds, or was not issued, was never
\* accepted.
Table ==
  /\ outstanding \subseteq 1..issued
  /\ \A c \in Challenges :
       /\ accepts[c] <= 1
       /\ announces[c] <= accepts[c]
       /\ (c \in outstanding \/ c > issued) => accepts[c] = 0

\* Acceptances on their way to the pipe: each has one handler, and each handler
\* there has one.
Notifiers ==
  /\ \A h \in Handlers : pc[h] = "notify" =>
       /\ req[h].challenge \in Challenges
       /\ accepts[req[h].challenge] = 1
       /\ announces[req[h].challenge] = 0
  /\ \A g, h \in Handlers :
       (pc[g] = "notify" /\ pc[h] = "notify" /\ req[g].challenge = req[h].challenge)
         => g = h
  /\ \A c \in Challenges : accepts[c] = 1 /\ announces[c] = 0 => InFlight(c) # {}

FlowInv == TypeOK /\ Checked /\ Table /\ Notifiers
============================================================================
