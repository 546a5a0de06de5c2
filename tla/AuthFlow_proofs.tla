--------------------------- MODULE AuthFlow_proofs ---------------------------
(***************************************************************************)
(* Theorems about AuthFlow, for any number of handlers, challenges, phones *)
(* and keys and any bounds: its type invariant, that a blacklist entry     *)
(* stops every later message, that no acceptance is lost, and that the     *)
(* flow implements ChallengeLedger.                                        *)
(***************************************************************************)
EXTENDS AuthFlow, PhoneRegistry_proofs

\* RegistryChanges makes registries and only adds to the blacklists.
LEMMA RegistryStep ==
  ASSUME reg \in Registry, RegistryChanges
  PROVE  /\ reg' \in Registry
         /\ reg.revokedIds \subseteq reg'.revokedIds
         /\ reg.revokedKeys \subseteq reg'.revokedKeys
<1>0. reg = [trusted |-> reg.trusted, revokedIds |-> reg.revokedIds,
             revokedKeys |-> reg.revokedKeys]
      /\ reg.trusted \in Seq(Phones)
      /\ reg.revokedIds \subseteq PhoneIds /\ reg.revokedKeys \subseteq Keys
  BY DEF Registry
<1>1. ASSUME NEW p \in Phones, reg' = WithPhone(reg, p)
      PROVE  /\ reg' \in Registry
             /\ reg.revokedIds \subseteq reg'.revokedIds
             /\ reg.revokedKeys \subseteq reg'.revokedKeys
  <2>. DEFINE t == IF Knows(reg, p.id) THEN ReplaceAt(reg.trusted, RowOf(reg, p.id), p)
                                       ELSE Append(reg.trusted, p)
  <2>1. t \in Seq(Phones)
    <3>1. CASE Knows(reg, p.id)
      <4>1. RowOf(reg, p.id) \in 1..Len(reg.trusted)
        BY <3>1, RowOfKnown
      <4>. QED  BY <1>0, <3>1, <4>1 DEF ReplaceAt
    <3>. QED  BY <1>0, <3>1
  <2>2. reg' = [reg EXCEPT !.trusted = t]
    BY <1>1 DEF WithPhone
  <2>. HIDE DEF t
  <2>3. reg' = [trusted |-> t, revokedIds |-> reg.revokedIds, revokedKeys |-> reg.revokedKeys]
    BY <1>0, <2>2
  <2>. QED  BY <1>0, <2>1, <2>3 DEF Registry
<1>2. ASSUME NEW id \in PhoneIds, reg' = WithoutPhone(reg, id)
      PROVE  /\ reg' \in Registry
             /\ reg.revokedIds \subseteq reg'.revokedIds
             /\ reg.revokedKeys \subseteq reg'.revokedKeys
  <2>1. Erased(reg, id) \in Seq(Phones)
    BY ErasedRows
  <2>2. reg' = [trusted |-> Erased(reg, id), revokedIds |-> reg.revokedIds,
                revokedKeys |-> reg.revokedKeys]
    BY <1>0, <1>2 DEF WithoutPhone
  <2>. QED  BY <1>0, <2>1, <2>2 DEF Registry
<1>3. ASSUME NEW id \in PhoneIds, reg' = WithRevoked(reg, id)
      PROVE  /\ reg' \in Registry
             /\ reg.revokedIds \subseteq reg'.revokedIds
             /\ reg.revokedKeys \subseteq reg'.revokedKeys
  <2>. DEFINE dead == IF Knows(reg, id) THEN {PhoneWithId(reg, id).key} \ {NoKey} ELSE {}
  <2>1. Erased(reg, id) \in Seq(Phones)
    BY ErasedRows
  <2>2. dead \subseteq Keys
    <3>1. CASE Knows(reg, id)
      <4>1. RowOf(reg, id) \in 1..Len(reg.trusted)
        BY <3>1, RowOfKnown
      <4>2. PhoneWithId(reg, id) \in Phones
        BY <1>0, <4>1 DEF PhoneWithId
      <4>. QED  BY <4>2, RegistryAssumption
    <3>. QED  BY <3>1
  <2>3. reg' = [trusted |-> Erased(reg, id), revokedIds |-> reg.revokedIds \cup {id},
                revokedKeys |-> reg.revokedKeys \cup dead]
    BY <1>3 DEF WithRevoked
  <2>. HIDE DEF dead
  <2>. QED  BY <1>0, <2>1, <2>2, <2>3 DEF Registry
<1>. QED  BY <1>1, <1>2, <1>3 DEF RegistryChanges
-----------------------------------------------------------------------------
(* The type invariant *)

\* The initial values have their types.
LEMMA FlowInitType == Init => TypeOK
BY EmptyRegistryGood, AuthFlowAssumption
   DEF GoodRegistry, Init, TypeOK, Times, Challenges, ActiveChallenge, NoChallenge, Request,
       NoRequest, NothingSeen, Labels

\* A handler's reply leaves it idle and well-typed.
LEMMA ReplyType ==
  ASSUME TypeOK, NEW h \in Handlers, Reply(h)
  PROVE  /\ pc' \in [Handlers -> Labels]
         /\ req' \in [Handlers -> Request \cup {NoRequest}]
         /\ key' \in [Handlers -> Keys \cup {NoKey}]
         /\ seen' \in [Handlers -> [ids : SUBSET PhoneIds, keys : SUBSET Keys]]
BY DEF TypeOK, Reply, Labels, NothingSeen

\* Every step of a handler, the session, the registry and the clock keeps the types.
LEMMA FlowStepType == TypeOK /\ [Next]_vars => TypeOK'
<1>. SUFFICES ASSUME TypeOK, [Next]_vars
              PROVE  TypeOK'
  OBVIOUS
<1>. USE AuthFlowAssumption DEF TypeOK
<1>1. CASE OnPcLocked
  <2>1. issued + 1 \in Challenges /\ issued' \in 0..MaxChallenges
    BY <1>1 DEF OnPcLocked, Challenges
  <2>2. active' \in ActiveChallenge /\ outstanding' \subseteq Challenges
    BY <1>1, <2>1 DEF OnPcLocked, ActiveChallenge
  <2>. QED  BY <1>1, <2>1, <2>2 DEF OnPcLocked, thread
<1>2. CASE ForgetChallenge
  BY <1>2 DEF ForgetChallenge, thread, engine, ActiveChallenge
<1>3. CASE GetPendingChallenge
  <2>1. active \in [id : Challenges, at : Times, state : {"PENDING", "EXPIRED"}]
    BY <1>3 DEF GetPendingChallenge, ActiveChallenge, NoChallenge
  <2>2. active' \in ActiveChallenge /\ offered' \subseteq Challenges
    BY <1>3, <2>1 DEF GetPendingChallenge, ActiveChallenge
  <2>. QED  BY <1>3, <2>2 DEF GetPendingChallenge, thread, engine
<1>4. CASE RegistryChanges
  <2>1. reg' \in Registry
    BY <1>4, RegistryStep
  <2>. QED  BY <1>4, <2>1 DEF RegistryChanges, thread, engine, session
<1>5. CASE Tick
  BY <1>5 DEF Tick, thread, engine, session, Times
<1>6. ASSUME NEW h \in Handlers, NEW r \in Request, Arrive(h, r)
      PROVE  TypeOK'
  <2>1. [ids |-> reg.revokedIds \cap {r.phone}, keys |-> reg.revokedKeys]
          \in [ids : SUBSET PhoneIds, keys : SUBSET Keys]
    BY DEF Registry
  <2>. QED  BY <1>6, <2>1 DEF Arrive, engine, session, Labels
<1>7. ASSUME NEW h \in Handlers, Lookup(h)
      PROVE  TypeOK'
  <2>1. CASE Reply(h)
    BY <1>7, <2>1, ReplyType DEF Lookup, engine, session
  <2>2. CASE ~Reply(h)
    <3>1. RowOf(reg, req[h].phone) \in 1..Len(reg.trusted)
      BY <1>7, <2>2, RowOfKnown DEF Lookup
    <3>2. PhoneWithId(reg, req[h].phone).key \in Keys \cup {NoKey}
      BY <3>1, RegistryAssumption DEF Registry, PhoneWithId
    <3>. QED  BY <1>7, <2>2, <3>2 DEF Lookup, engine, session, Labels
  <2>. QED  BY <2>1, <2>2
<1>8. ASSUME NEW h \in Handlers, CheckPhone(h) \/ CheckKey(h)
      PROVE  TypeOK'
  <2>1. CASE Reply(h)
    BY <1>8, <2>1, ReplyType DEF CheckPhone, CheckKey, engine, session
  <2>2. CASE ~Reply(h)
    BY <1>8, <2>2 DEF CheckPhone, CheckKey, Goto, engine, session, Labels
  <2>. QED  BY <2>1, <2>2
<1>9. ASSUME NEW h \in Handlers, Accept(h)
      PROVE  TypeOK'
  <2>1. req[h].challenge \in Challenges
    BY <1>9 DEF Accept, Verifiable
  <2>2. consumed' \subseteq Challenges
    BY <1>9, <2>1 DEF Accept, Retain
  <2>3. accepts' \in [Challenges -> Nat] /\ outstanding' \subseteq Challenges
    BY <1>9, <2>1 DEF Accept
  <2>. QED  BY <1>9, <2>2, <2>3 DEF Accept, Goto, session, Labels
<1>10. ASSUME NEW h \in Handlers, Refuse(h)
       PROVE  TypeOK'
  BY <1>10, ReplyType DEF Refuse, engine, session
<1>11. ASSUME NEW h \in Handlers, Notify(h)
       PROVE  TypeOK'
  <2>1. announces' \in [Challenges -> Nat]
    <3>1. CASE req[h].challenge \in Challenges
      BY <1>11, <3>1 DEF Notify
    <3>2. CASE req[h].challenge \notin Challenges
      BY <1>11, <3>2 DEF Notify
    <3>. QED  BY <3>1, <3>2
  <2>. QED  BY <1>11, <2>1, ReplyType DEF Notify, engine, session
<1>12. CASE UNCHANGED vars
  BY <1>12 DEF vars
<1>. QED
  BY <1>1, <1>2, <1>3, <1>4, <1>5, <1>6, <1>7, <1>8, <1>9, <1>10, <1>11, <1>12
  DEF Next, Handle
-----------------------------------------------------------------------------
(* The blacklists *)

\* Every step keeps what the handlers have checked: the blacklists only grow.
LEMMA FlowStepChecked == TypeOK /\ Checked /\ [Next]_vars => Checked'
<1>. SUFFICES ASSUME TypeOK, Checked, [Next]_vars
              PROVE  Checked'
  OBVIOUS
<1>. USE DEF TypeOK, Checked
<1>1. CASE UNCHANGED <<reg, thread>>
  BY <1>1 DEF thread
<1>2. CASE RegistryChanges
  <2>1. reg.revokedIds \subseteq reg'.revokedIds /\ reg.revokedKeys \subseteq reg'.revokedKeys
    BY <1>2, RegistryStep
  <2>. QED  BY <1>2, <2>1 DEF RegistryChanges, thread
<1>3. ASSUME NEW h \in Handlers, NEW r \in Request, Arrive(h, r)
      PROVE  Checked'
  <2>1. ASSUME NEW g \in Handlers, g # h
        PROVE  pc'[g] = pc[g] /\ req'[g] = req[g] /\ key'[g] = key[g] /\ seen'[g] = seen[g]
    BY <1>3, <2>1 DEF Arrive
  <2>2. /\ pc'[h] = "lookup" /\ req'[h] = r
        /\ seen'[h].ids = reg.revokedIds \cap {r.phone}
        /\ seen'[h].keys = reg.revokedKeys
    BY <1>3 DEF Arrive
  <2>3. reg' = reg
    BY <1>3 DEF Arrive
  <2>. QED  BY <2>1, <2>2, <2>3
<1>4. ASSUME NEW h \in Handlers, Reply(h), UNCHANGED reg
      PROVE  Checked'
  BY <1>4 DEF Reply
<1>5. ASSUME NEW h \in Handlers, Lookup(h)
      PROVE  Checked'
  <2>1. CASE Reply(h)
    BY <1>4, <1>5, <2>1 DEF Lookup
  <2>2. CASE ~Reply(h)
    BY <1>5, <2>2 DEF Lookup
  <2>. QED  BY <2>1, <2>2
<1>6. ASSUME NEW h \in Handlers, CheckPhone(h)
      PROVE  Checked'
  <2>1. CASE Reply(h)
    BY <1>4, <1>6, <2>1 DEF CheckPhone
  <2>2. CASE ~Reply(h)
    BY <1>6, <2>2 DEF CheckPhone, PhoneRevoked, Goto
  <2>. QED  BY <2>1, <2>2
<1>7. ASSUME NEW h \in Handlers, CheckKey(h)
      PROVE  Checked'
  <2>1. CASE Reply(h)
    BY <1>4, <1>7, <2>1 DEF CheckKey
  <2>2. CASE ~Reply(h)
    BY <1>7, <2>2 DEF CheckKey, KeyRevoked, Goto
  <2>. QED  BY <2>1, <2>2
<1>8. ASSUME NEW h \in Handlers, Accept(h)
      PROVE  Checked'
  BY <1>8 DEF Accept, Goto
<1>9. ASSUME NEW h \in Handlers, Refuse(h) \/ Notify(h)
      PROVE  Checked'
  BY <1>4, <1>9 DEF Refuse, Notify
<1>10. CASE OnPcLocked \/ ForgetChallenge \/ GetPendingChallenge \/ Tick
  BY <1>1, <1>10 DEF OnPcLocked, ForgetChallenge, GetPendingChallenge, Tick, thread
<1>11. CASE UNCHANGED vars
  BY <1>1, <1>11 DEF vars, thread
<1>. QED
  BY <1>2, <1>3, <1>5, <1>6, <1>7, <1>8, <1>9, <1>10, <1>11 DEF Next, Handle
-----------------------------------------------------------------------------
(* The table of challenges *)

\* Every step keeps the table: VerifyAuthResponse erases what it accepts.
LEMMA FlowStepTable == TypeOK /\ Table /\ Notifiers /\ [Next]_vars => Table'
<1>. SUFFICES ASSUME TypeOK, Table, Notifiers, [Next]_vars
              PROVE  Table'
  OBVIOUS
<1>. USE AuthFlowAssumption DEF TypeOK, Table, Challenges
<1>1. CASE UNCHANGED <<issued, outstanding, accepts, announces>>
  BY <1>1
<1>2. CASE OnPcLocked
  <2>1. issued \in Nat /\ issued' = issued + 1 /\ UNCHANGED <<accepts, announces>>
    BY <1>2 DEF OnPcLocked
  <2>2. outstanding' = outstanding \cup {issued + 1} /\ outstanding \subseteq 1..issued
    BY <1>2 DEF OnPcLocked
  <2>3. outstanding' \subseteq 1..issued'
    BY <2>1, <2>2
  <2>4. \A d \in Challenges : (d \in outstanding' \/ d > issued') => (d \in outstanding \/ d > issued)
    BY <2>1, <2>2
  <2>. QED  BY <2>1, <2>3, <2>4
<1>3. ASSUME NEW h \in Handlers, Accept(h)
      PROVE  Table'
  <2>. DEFINE c == req[h].challenge
  <2>1. c \in outstanding /\ c \in Challenges /\ accepts[c] = 0
    BY <1>3 DEF Accept, Verifiable
  <2>2. /\ outstanding' = outstanding \ {c}
        /\ accepts' = [accepts EXCEPT ![c] = @ + 1]
        /\ announces' = announces /\ issued' = issued
    BY <1>3 DEF Accept, session
  <2>. HIDE DEF c
  <2>. QED  BY <2>1, <2>2
<1>4. ASSUME NEW h \in Handlers, Notify(h)
      PROVE  Table'
  <2>. DEFINE c == req[h].challenge
  <2>1. c \in Challenges /\ accepts[c] = 1 /\ announces[c] = 0
    BY <1>4 DEF Notify, Notifiers
  <2>2. /\ announces' = [announces EXCEPT ![c] = @ + 1]
        /\ outstanding' = outstanding /\ accepts' = accepts /\ issued' = issued
    BY <1>4 DEF Notify, engine, session
  <2>. HIDE DEF c
  <2>. QED  BY <2>1, <2>2
<1>5. CASE ForgetChallenge \/ GetPendingChallenge \/ RegistryChanges \/ Tick
  BY <1>1, <1>5
  DEF ForgetChallenge, GetPendingChallenge, RegistryChanges, Tick, engine, session
<1>6. ASSUME NEW h \in Handlers, NEW r \in Request, Arrive(h, r)
      PROVE  Table'
  BY <1>1, <1>6 DEF Arrive, engine, session
<1>7. ASSUME NEW h \in Handlers, Lookup(h) \/ CheckPhone(h) \/ CheckKey(h) \/ Refuse(h)
      PROVE  Table'
  BY <1>1, <1>7 DEF Lookup, CheckPhone, CheckKey, Refuse, engine, session
<1>8. CASE UNCHANGED vars
  BY <1>1, <1>8 DEF vars
<1>. QED
  BY <1>2, <1>3, <1>4, <1>5, <1>6, <1>7, <1>8 DEF Next, Handle
-----------------------------------------------------------------------------
(* Acceptances on their way to the pipe *)

\* A step that starts and ends no notification and counts none.
LEMMA NotifiersUnchanged ==
  ASSUME Notifiers,
         UNCHANGED <<accepts, announces>>,
         \A h \in Handlers : (pc'[h] = "notify") <=> (pc[h] = "notify"),
         \A h \in Handlers : pc[h] = "notify" => req'[h] = req[h]
  PROVE  Notifiers'
BY DEF Notifiers, InFlight

\* Every step keeps the notifiers: acceptance makes one, notification ends it.
LEMMA FlowStepNotifiers == TypeOK /\ Table /\ Notifiers /\ [Next]_vars => Notifiers'
<1>. SUFFICES ASSUME TypeOK, Table, Notifiers, [Next]_vars
              PROVE  Notifiers'
  OBVIOUS
<1>. USE DEF TypeOK
<1>1. CASE UNCHANGED <<pc, req, accepts, announces>>
  BY <1>1, NotifiersUnchanged
<1>2. ASSUME NEW h \in Handlers, Accept(h)
      PROVE  Notifiers'
  <2>. DEFINE c == req[h].challenge
  <2>1. c \in Challenges /\ accepts[c] = 0 /\ announces[c] = 0 /\ pc[h] = "verify"
    <3>1. c \in outstanding /\ c \in Challenges /\ pc[h] = "verify"
      BY <1>2 DEF Accept, Verifiable
    <3>2. accepts[c] = 0 /\ announces[c] <= accepts[c] /\ announces[c] \in Nat
      BY <3>1 DEF Table
    <3>. QED  BY <3>1, <3>2
  <2>2. /\ accepts' = [accepts EXCEPT ![c] = @ + 1] /\ announces' = announces
        /\ req' = req /\ pc' = [pc EXCEPT ![h] = "notify"]
    BY <1>2 DEF Accept, Goto
  <2>3. accepts'[c] = 1 /\ announces'[c] = 0 /\ pc'[h] = "notify" /\ req'[h].challenge = c
    BY <2>1, <2>2
  <2>4. \A g \in Handlers : g # h /\ pc'[g] = "notify" =>
          /\ pc[g] = "notify" /\ req'[g] = req[g]
          /\ req[g].challenge \in Challenges /\ req[g].challenge # c
          /\ accepts'[req[g].challenge] = 1 /\ announces'[req[g].challenge] = 0
    BY <2>1, <2>2 DEF Notifiers
  <2>5. \A d \in Challenges : d # c => accepts'[d] = accepts[d] /\ announces'[d] = announces[d]
    BY <2>2
  <2>6. \A d \in Challenges : accepts'[d] = 1 /\ announces'[d] = 0 => InFlight(d)' # {}
    <3>. SUFFICES ASSUME NEW d \in Challenges, accepts'[d] = 1, announces'[d] = 0
                  PROVE  \E g \in Handlers : pc'[g] = "notify" /\ req'[g].challenge = d
      BY DEF InFlight
    <3>1. CASE d = c
      BY <2>3, <3>1
    <3>2. CASE d # c
      <4>1. PICK g \in Handlers : pc[g] = "notify" /\ req[g].challenge = d
        BY <2>5, <3>2 DEF Notifiers, InFlight
      <4>. QED  BY <2>2, <4>1
    <3>. QED  BY <3>1, <3>2
  <2>. HIDE DEF c
  <2>7. \A g \in Handlers : pc'[g] = "notify" =>
          /\ req'[g].challenge \in Challenges
          /\ accepts'[req'[g].challenge] = 1
          /\ announces'[req'[g].challenge] = 0
    BY <2>1, <2>3, <2>4
  <2>8. \A f, g \in Handlers :
          (pc'[f] = "notify" /\ pc'[g] = "notify" /\ req'[f].challenge = req'[g].challenge)
            => f = g
    BY <2>3, <2>4 DEF Notifiers
  <2>. QED  BY <2>6, <2>7, <2>8 DEF Notifiers
<1>3. ASSUME NEW h \in Handlers, Notify(h)
      PROVE  Notifiers'
  <2>. DEFINE c == req[h].challenge
  <2>1. /\ c \in Challenges /\ pc[h] = "notify"
        /\ announces' = [announces EXCEPT ![c] = @ + 1] /\ accepts' = accepts
        /\ pc' = [pc EXCEPT ![h] = "idle"] /\ req' = [req EXCEPT ![h] = NoRequest]
    BY <1>3 DEF Notify, Notifiers, Reply, engine
  <2>2. announces[c] = 0 /\ announces'[c] = 1
    BY <1>3, <2>1 DEF Notifiers
  <2>3. \A g \in Handlers : pc'[g] = "notify" =>
          /\ g # h /\ pc[g] = "notify" /\ req'[g] = req[g]
          /\ req[g].challenge \in Challenges /\ req[g].challenge # c
    BY <2>1 DEF Notifiers
  <2>4. \A d \in Challenges : d # c => announces'[d] = announces[d]
    BY <2>1
  <2>5. \A d \in Challenges : accepts'[d] = 1 /\ announces'[d] = 0 => InFlight(d)' # {}
    <3>. SUFFICES ASSUME NEW d \in Challenges, accepts'[d] = 1, announces'[d] = 0
                  PROVE  \E g \in Handlers : pc'[g] = "notify" /\ req'[g].challenge = d
      BY DEF InFlight
    <3>1. d # c
      BY <2>2
    <3>2. PICK g \in Handlers : pc[g] = "notify" /\ req[g].challenge = d
      BY <2>1, <2>4, <3>1 DEF Notifiers, InFlight
    <3>. QED  BY <2>1, <3>1, <3>2
  <2>. HIDE DEF c
  <2>. QED  BY <2>1, <2>3, <2>4, <2>5 DEF Notifiers
<1>4. ASSUME NEW h \in Handlers, pc[h] # "notify", Reply(h), UNCHANGED <<accepts, announces>>
      PROVE  Notifiers'
  BY <1>4, NotifiersUnchanged DEF Reply
<1>5. ASSUME NEW h \in Handlers, Lookup(h) \/ CheckPhone(h) \/ CheckKey(h) \/ Refuse(h)
      PROVE  Notifiers'
  <2>1. pc[h] # "notify" /\ UNCHANGED <<accepts, announces>>
    BY <1>5 DEF Lookup, CheckPhone, CheckKey, Refuse, engine
  <2>2. CASE Reply(h)
    BY <1>4, <2>1, <2>2
  <2>3. CASE ~Reply(h)
    <3>1. req' = req /\ \E l \in {"checkPhone", "checkKey", "verify"} : pc' = [pc EXCEPT ![h] = l]
      BY <1>5, <2>3 DEF Lookup, CheckPhone, CheckKey, Refuse, Goto
    <3>. QED  BY <2>1, <3>1, NotifiersUnchanged
  <2>. QED  BY <2>2, <2>3
<1>6. ASSUME NEW h \in Handlers, NEW r \in Request, Arrive(h, r)
      PROVE  Notifiers'
  BY <1>6, NotifiersUnchanged DEF Arrive, engine
<1>7. CASE OnPcLocked \/ ForgetChallenge \/ GetPendingChallenge \/ RegistryChanges \/ Tick
  BY <1>1, <1>7
  DEF OnPcLocked, ForgetChallenge, GetPendingChallenge, RegistryChanges, Tick, engine, thread
<1>8. CASE UNCHANGED vars
  BY <1>1, <1>8 DEF vars
<1>. QED
  BY <1>2, <1>3, <1>5, <1>6, <1>7, <1>8 DEF Next, Handle
-----------------------------------------------------------------------------
(* The theorems *)

\* The inductive invariant holds initially.
LEMMA FlowInitInv == Init => FlowInv
<1>. SUFFICES ASSUME Init
              PROVE  FlowInv
  OBVIOUS
<1>1. TypeOK
  BY FlowInitType
<1>2. Checked
  BY DEF Init, Checked
<1>3. Table
  BY AuthFlowAssumption DEF Init, Table, Challenges
<1>4. Notifiers
  BY DEF Init, Notifiers
<1>. QED  BY <1>1, <1>2, <1>3, <1>4 DEF FlowInv

\* The inductive invariant holds in every reachable state.
THEOREM FlowInvariant == Spec => []FlowInv
<1>1. FlowInv /\ [Next]_vars => FlowInv'
  BY FlowStepType, FlowStepChecked, FlowStepTable, FlowStepNotifiers DEF FlowInv
<1>. QED  BY <1>1, FlowInitInv, PTL DEF Spec

\* Every value the flow computes is one TypeOK allows.
THEOREM FlowTypeOK == Spec => []TypeOK
<1>1. FlowInv => TypeOK
  BY DEF FlowInv
<1>. QED  BY <1>1, FlowInvariant, PTL

\* Whoever was blacklisted when a message arrived does not get past the checks,
\* by its id or by a key it shares.
THEOREM FlowBlacklistHonoured == Spec => []BlacklistHonoured
<1>1. FlowInv => BlacklistHonoured
  BY DEF FlowInv, Checked, BlacklistHonoured, TypeOK
<1>. QED  BY <1>1, FlowInvariant, PTL

\* Every acceptance has been announced or has one handler about to announce it.
THEOREM FlowNoLostAcceptance == Spec => []NoLostAcceptance
<1>1. ASSUME FlowInv, NEW c \in Challenges
      PROVE  accepts[c] = announces[c] + Cardinality(InFlight(c))
  <2>1. accepts[c] \in {0, 1} /\ announces[c] \in {0, 1} /\ announces[c] <= accepts[c]
    <3>1. accepts[c] \in Nat /\ announces[c] \in Nat
      BY <1>1 DEF FlowInv, TypeOK
    <3>2. accepts[c] <= 1 /\ announces[c] <= accepts[c]
      BY <1>1 DEF FlowInv, Table
    <3>. QED  BY <3>1, <3>2
  <2>2. \A h \in InFlight(c) : accepts[c] = 1 /\ announces[c] = 0
    BY <1>1 DEF FlowInv, Notifiers, InFlight
  <2>3. CASE InFlight(c) = {}
    <3>1. accepts[c] = announces[c]
      BY <1>1, <2>1, <2>3 DEF FlowInv, Notifiers
    <3>. QED  BY <2>1, <2>3, <3>1, FS_EmptySet
  <2>4. CASE InFlight(c) # {}
    <3>1. PICK h : h \in InFlight(c)
      BY <2>4
    <3>2. InFlight(c) = {h}
      BY <1>1, <3>1 DEF FlowInv, Notifiers, InFlight
    <3>3. Cardinality(InFlight(c)) = 1
      BY <3>2, FS_Singleton
    <3>. QED  BY <2>2, <3>1, <3>3
  <2>. QED  BY <2>3, <2>4
<1>2. FlowInv => NoLostAcceptance
  BY <1>1 DEF NoLostAcceptance
<1>. QED  BY <1>2, FlowInvariant, PTL

\* What is offered is the newest challenge, and one the engine still takes or has
\* accepted already, although the coordinator and the engine keep separate copies.
LEMMA OfferedStep ==
  ASSUME FlowInv, OfferedIsNewest, [Next]_vars
  PROVE  OfferedIsNewest'
<1>. USE DEF OfferedIsNewest
<1>1. CASE UNCHANGED <<active, issued, outstanding, accepts>>
  BY <1>1
<1>2. CASE OnPcLocked
  BY <1>2, AuthFlowAssumption DEF OnPcLocked, NoChallenge
<1>3. CASE ForgetChallenge
  BY <1>3 DEF ForgetChallenge
<1>4. CASE GetPendingChallenge
  <2>1. active # NoChallenge /\ active'.id = active.id
    BY <1>4 DEF GetPendingChallenge, NoChallenge, FlowInv, TypeOK, ActiveChallenge
  <2>. QED  BY <1>4, <2>1 DEF GetPendingChallenge, engine
<1>5. ASSUME NEW h \in Handlers, Accept(h)
      PROVE  OfferedIsNewest'
  <2>. DEFINE c == req[h].challenge
  <2>1. /\ c \in outstanding /\ c \in Challenges /\ accepts[c] = 0
        /\ accepts \in [Challenges -> Nat]
    BY <1>5 DEF Accept, Verifiable, FlowInv, TypeOK, Table
  <2>2. /\ outstanding' = outstanding \ {c}
        /\ accepts' = [accepts EXCEPT ![c] = @ + 1]
        /\ active' = active /\ issued' = issued
    BY <1>5 DEF Accept, session
  <2>. HIDE DEF c
  <2>. QED  BY <2>1, <2>2
<1>6. CASE RegistryChanges \/ Tick
  BY <1>1, <1>6 DEF RegistryChanges, Tick, engine, session
<1>7. ASSUME NEW h \in Handlers, NEW r \in Request, Arrive(h, r)
      PROVE  OfferedIsNewest'
  BY <1>1, <1>7 DEF Arrive, engine, session
<1>8. ASSUME NEW h \in Handlers,
             Lookup(h) \/ CheckPhone(h) \/ CheckKey(h) \/ Refuse(h) \/ Notify(h)
      PROVE  OfferedIsNewest'
  BY <1>1, <1>8 DEF Lookup, CheckPhone, CheckKey, Refuse, Notify, engine, session
<1>9. CASE UNCHANGED vars
  BY <1>1, <1>9 DEF vars
<1>. QED
  BY <1>2, <1>3, <1>4, <1>5, <1>6, <1>7, <1>8, <1>9 DEF Next, Handle

\* What GetPendingChallengeJson offers is the newest challenge, and one the engine
\* would still take or has accepted already.
THEOREM FlowOfferedIsNewest == Spec => []OfferedIsNewest
<1>1. Init => OfferedIsNewest
  BY DEF Init, OfferedIsNewest
<1>. QED  BY <1>1, OfferedStep, FlowInvariant, PTL DEF Spec

\* The flow implements the ledger: each step is one of the ledger's, or changes
\* none of its variables.  So each challenge is accepted once and announced once.
THEOREM FlowImplementsLedger == Spec => ImplementsLedger
<1>1. Init => Ledger!Init
  BY DEF Init, Ledger!Init, Challenges, Ledger!Challenges
<1>2. FlowInv /\ [Next]_vars => [Ledger!Next]_(Ledger!ledgerVars)
  <2>. SUFFICES ASSUME FlowInv, [Next]_vars
                PROVE  [Ledger!Next]_(Ledger!ledgerVars)
    OBVIOUS
  <2>1. CASE UNCHANGED <<issued, outstanding, accepts, announces>>
    BY <2>1 DEF Ledger!ledgerVars
  <2>2. CASE OnPcLocked
    BY <2>2 DEF OnPcLocked, Ledger!Next, Ledger!Issue
  <2>3. ASSUME NEW h \in Handlers, Accept(h)
        PROVE  Ledger!Next
    <3>1. req[h].challenge \in Ledger!Challenges
      BY <2>3 DEF Accept, Verifiable, FlowInv, TypeOK, Challenges, Ledger!Challenges
    <3>2. Ledger!Accept(req[h].challenge)
      BY <2>3 DEF Accept, Verifiable, session, Ledger!Accept
    <3>. QED  BY <3>1, <3>2 DEF Ledger!Next
  <2>4. ASSUME NEW h \in Handlers, Notify(h)
        PROVE  Ledger!Next
    <3>1. req[h].challenge \in Ledger!Challenges
      BY <2>4 DEF Notify, FlowInv, Notifiers, Challenges, Ledger!Challenges
    <3>2. announces[req[h].challenge] < accepts[req[h].challenge]
      BY <2>4 DEF Notify, FlowInv, Notifiers
    <3>3. Ledger!Announce(req[h].challenge)
      BY <2>4, <3>2 DEF Notify, session, engine, Ledger!Announce
    <3>. QED  BY <3>1, <3>3 DEF Ledger!Next
  <2>5. CASE ForgetChallenge \/ GetPendingChallenge \/ RegistryChanges \/ Tick
    BY <2>1, <2>5
    DEF ForgetChallenge, GetPendingChallenge, RegistryChanges, Tick, engine, session
  <2>6. ASSUME NEW h \in Handlers, NEW r \in Request, Arrive(h, r)
        PROVE  [Ledger!Next]_(Ledger!ledgerVars)
    BY <2>1, <2>6 DEF Arrive, engine, session
  <2>7. ASSUME NEW h \in Handlers, Lookup(h) \/ CheckPhone(h) \/ CheckKey(h) \/ Refuse(h)
        PROVE  [Ledger!Next]_(Ledger!ledgerVars)
    BY <2>1, <2>7 DEF Lookup, CheckPhone, CheckKey, Refuse, engine, session
  <2>8. CASE UNCHANGED vars
    BY <2>1, <2>8 DEF vars
  <2>. QED
    BY <2>2, <2>3, <2>4, <2>5, <2>6, <2>7, <2>8 DEF Next, Handle
<1>. QED  BY <1>1, <1>2, FlowInvariant, PTL DEF Spec, ImplementsLedger, Ledger!Spec
-----------------------------------------------------------------------------
(* The ledger's promise, with no word of the flow *)

\* LedgerInv holds initially, ...
LEMMA LedgerInit == Ledger!Init => Ledger!LedgerInv
BY AuthFlowAssumption DEF Ledger!Init, Ledger!LedgerInv, Ledger!TypeOK, Ledger!Challenges

\* ... and every step of the ledger keeps it.
LEMMA LedgerStep ==
  Ledger!LedgerInv /\ [Ledger!Next]_(Ledger!ledgerVars) => Ledger!LedgerInv'
<1>. SUFFICES ASSUME Ledger!LedgerInv, [Ledger!Next]_(Ledger!ledgerVars)
              PROVE  Ledger!LedgerInv'
  OBVIOUS
<1>. USE AuthFlowAssumption DEF Ledger!LedgerInv, Ledger!TypeOK, Ledger!Challenges
<1>1. CASE Ledger!Issue
  BY <1>1 DEF Ledger!Issue
<1>2. ASSUME NEW c \in Ledger!Challenges, Ledger!Accept(c)
      PROVE  Ledger!LedgerInv'
  BY <1>2 DEF Ledger!Accept
<1>3. ASSUME NEW c \in Ledger!Challenges, Ledger!Announce(c)
      PROVE  Ledger!LedgerInv'
  BY <1>3 DEF Ledger!Announce
<1>4. CASE UNCHANGED Ledger!ledgerVars
  BY <1>4 DEF Ledger!ledgerVars
<1>. QED  BY <1>1, <1>2, <1>3, <1>4 DEF Ledger!Next

\* Whatever implements the ledger accepts a challenge once and announces it once.
THEOREM LedgerSingleUse == Ledger!Spec => []Ledger!SingleUse
<1>1. Ledger!LedgerInv => Ledger!SingleUse
  BY DEF Ledger!LedgerInv, Ledger!SingleUse
<1>. QED  BY <1>1, LedgerInit, LedgerStep, PTL DEF Ledger!Spec

\* ... and so does the flow of HandleAuthResponse, on whatever threads the answers
\* arrive and however often a nonce is forgotten.
THEOREM FlowSingleUse == Spec => []Ledger!SingleUse
BY FlowImplementsLedger, LedgerSingleUse, PTL DEF ImplementsLedger
=============================================================================
