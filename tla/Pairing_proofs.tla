--------------------------- MODULE Pairing_proofs ---------------------------
(***************************************************************************)
(* Theorems about Pairing, for any number of transport threads, sessions,  *)
(* phones and places: its type invariant, that every commit has both       *)
(* confirmations, that limit and blacklist hold, and that a session that   *)
(* is over never commits.                                                  *)
(***************************************************************************)
EXTENDS Pairing, PhoneRegistry_proofs

\* The initial state satisfies the inductive invariant.
LEMMA PairInitInv == Init => PairInv
<1>. SUFFICES ASSUME Init PROVE PairInv
  OBVIOUS
<1>1. TypeOK
  BY PairingAssumption, EmptyRegistryGood
     DEF Init, TypeOK, Times, Session, NoSession, Codes, Statuses, NoRequest, Closed,
         GoodRegistry
<1>2. GoodRegistry(reg, {}) /\ Requests
  BY EmptyRegistryGood DEF Init, Requests
<1>3. PendingIsAlive /\ PendingConsent /\ PendingAsked /\ CommitsAreConfirmed
  BY DEF Init, PendingIsAlive, PendingConsent, PendingAsked, CommitsAreConfirmed, NoSession
<1>. QED  BY <1>1, <1>2, <1>3 DEF PairInv

\* The parts of the invariant that a step leaves alone when it leaves the session,
\* its history and the registry alone.
LEMMA SessionUntouched ==
  ASSUME PairInv, UNCHANGED <<reg, pending, sessions, consent, commits, dead>>
  PROVE  /\ GoodRegistry(reg, {})' /\ PendingIsAlive' /\ PendingConsent'
         /\ CommitsAreConfirmed'
         /\ UNCHANGED window => PendingAsked'
BY DEF PairInv, PendingIsAlive, PendingConsent, PendingAsked, PhoneAsked,
       CommitsAreConfirmed, consent

\* A reply ends a thread's request.
LEMMA ReplyEnds ==
  ASSUME PairInv, NEW t \in Threads, ReplyTo(t)
  PROVE  /\ Requests'
         /\ pc' \in [Threads -> {"idle", "checkPhone", "checkKey", "enter"}]
         /\ req' \in [Threads -> [phone : Phones \cup {NoPhone}, code : Codes]]
BY DEF PairInv, TypeOK, ReplyTo, Requests, NoRequest, Codes

\* The steps of a request before it reaches the session.
LEMMA RequestStep ==
  ASSUME PairInv, NEW t \in Threads,
         \/ \E p \in Phones, code \in Codes : RequestArrives(t, p, code)
         \/ CheckPhone(t) \/ CheckKey(t) \/ RequestRejected(t)
  PROVE  PairInv'
<1>1. UNCHANGED <<now, reg, pending, sessions, window, consent, commits, dead>>
  BY DEF RequestArrives, CheckPhone, CheckKey, RequestRejected
<1>2. /\ Requests'
      /\ pc' \in [Threads -> {"idle", "checkPhone", "checkKey", "enter"}]
      /\ req' \in [Threads -> [phone : Phones \cup {NoPhone}, code : Codes]]
  <2>1. CASE \E p \in Phones, code \in Codes : RequestArrives(t, p, code)
    BY <2>1 DEF PairInv, TypeOK, Requests, RequestArrives
  <2>2. CASE ReplyTo(t)
    BY <2>2, ReplyEnds
  <2>3. ASSUME NEW label \in {"checkKey", "enter"}, Goto(t, label), pc[t] # "idle"
        PROVE  /\ Requests'
               /\ pc' \in [Threads -> {"idle", "checkPhone", "checkKey", "enter"}]
               /\ req' \in [Threads -> [phone : Phones \cup {NoPhone}, code : Codes]]
    BY <2>3 DEF PairInv, TypeOK, Requests, Goto
  <2>. QED  BY <2>1, <2>2, <2>3 DEF CheckPhone, CheckKey, RequestRejected
<1>3. TypeOK'
  BY <1>1, <1>2 DEF PairInv, TypeOK, consent
<1>. QED  BY <1>1, <1>2, <1>3, SessionUntouched DEF PairInv
-----------------------------------------------------------------------------
(* A session takes a phone *)

\* A thread that has passed its checks puts its phone in the pending session or in
\* a new one.
LEMMA TakePhoneStep ==
  ASSUME PairInv, NEW t \in Threads, JoinSession(t) \/ OpenSession(t)
  PROVE  PairInv'
<1>. DEFINE phone == req[t].phone
<1>1. /\ phone \in Phones /\ req[t].code \in Codes
      /\ UNCHANGED <<now, reg, window, phoneOk, pcOk, commits, dead>>
      /\ ReplyTo(t)
  BY DEF JoinSession, OpenSession, PairInv, Requests, TypeOK
<1>2. PICK s \in Session :
        /\ s.sid \in Sids /\ s.sid <= sessions' /\ s.sid \notin dead
        /\ sessions \in Nat /\ sessions' \in {0} \cup Sids /\ sessions <= sessions'
        /\ pending' = [s EXCEPT !.phone = phone, !.status = "CONFIRMATION_REQUIRED"]
        /\ asked' = asked \cup {<<s.sid, phone>>}
        /\ s.pcConfirmed => s.sid \in pcOk
        /\ s.phoneConfirmed => \E p \in Phones : <<s.sid, p>> \in phoneOk
  <2>1. CASE JoinSession(t)
    <3>1. /\ pending \in Session /\ pending.sid \in Sids /\ sessions' = sessions
          /\ sessions \in {0} \cup Sids
      BY <2>1 DEF JoinSession, PairInv, TypeOK, Session
    <3>2. /\ pending' = [pending EXCEPT !.phone = phone, !.status = "CONFIRMATION_REQUIRED"]
          /\ asked' = asked \cup {<<pending.sid, phone>>}
      BY <2>1 DEF JoinSession, TakePhone
    <3>3. /\ pending.sid <= sessions' /\ pending.sid \notin dead
          /\ pending.pcConfirmed => pending.sid \in pcOk
          /\ pending.phoneConfirmed => \E p \in Phones : <<pending.sid, p>> \in phoneOk
      BY <3>1 DEF PairInv, PendingIsAlive, PendingConsent
    <3>4. sessions \in Nat /\ sessions' \in {0} \cup Sids /\ sessions <= sessions'
      BY <3>1, PairingAssumption DEF Sids
    <3>. QED  BY <3>1, <3>2, <3>3, <3>4
  <2>2. CASE OpenSession(t)
    <3>. DEFINE code == IF req[t].code = 0 THEN sessions + 1 ELSE req[t].code
                s == NewSession(sessions + 1, code, "NONE")
    <3>1. /\ sessions \in Nat /\ sessions + 1 \in Sids /\ sessions' = sessions + 1
      BY <2>2, PairingAssumption DEF OpenSession, PairInv, TypeOK, Sids
    <3>2. code \in Codes /\ now + TTL \in 0..(MaxTime + TTL)
      BY <1>1, <3>1, PairingAssumption DEF Codes, PairInv, TypeOK, Times
    <3>3. /\ s \in Session /\ s.sid = sessions + 1
          /\ s.pcConfirmed = FALSE /\ s.phoneConfirmed = FALSE
      BY <3>1, <3>2, PairingAssumption
         DEF NewSession, NoSession, Session, Codes, Statuses
    <3>4. /\ pending' = [s EXCEPT !.phone = phone, !.status = "CONFIRMATION_REQUIRED"]
          /\ asked' = asked \cup {<<s.sid, phone>>}
      BY <2>2 DEF OpenSession, TakePhone
    <3>5. s.sid \notin dead
      BY <3>1, <3>3 DEF PairInv, PendingIsAlive
    <3>6. /\ s.sid \in Sids /\ s.sid <= sessions'
          /\ sessions' \in {0} \cup Sids /\ sessions <= sessions'
      BY <3>1, <3>3
    <3>. HIDE DEF s
    <3>. QED  BY <3>1, <3>3, <3>4, <3>5, <3>6
  <2>. QED  BY <2>1, <2>2
<1>3. /\ pending' \in Session /\ pending'.sid = s.sid /\ pending'.phone = phone
      /\ pending'.pcConfirmed = s.pcConfirmed
      /\ pending'.phoneConfirmed = s.phoneConfirmed
  BY <1>1, <1>2 DEF Session, Statuses
<1>4. TypeOK'
  BY <1>1, <1>2, <1>3, ReplyEnds DEF PairInv, TypeOK
<1>5. PendingIsAlive'
  BY <1>1, <1>2, <1>3, PairingAssumption DEF PairInv, TypeOK, PendingIsAlive, Sids
<1>6. PendingConsent'
  BY <1>1, <1>2, <1>3 DEF PairInv, PendingConsent
<1>7. CommitsAreConfirmed'
  BY <1>1, <1>2 DEF PairInv, CommitsAreConfirmed
<1>8. PendingAsked'
  BY <1>2, <1>3 DEF PendingAsked, PhoneAsked
<1>. QED  BY <1>1, <1>4, <1>5, <1>6, <1>7, <1>8, ReplyEnds DEF PairInv
-----------------------------------------------------------------------------
(* Confirmations *)

\* A confirmation that has been noted in the history is noted in the session, which
\* commits if it was the second.
LEMMA ConfirmedStep ==
  ASSUME PairInv, NEW s \in Session, s.sid = pending.sid, s.phone = pending.phone,
         s.sid \in Sids,
         phoneOk \subseteq phoneOk', phoneOk' \subseteq Sids \X Phones,
         PhoneAsked(s, window),
         pcOk \subseteq pcOk', pcOk' \subseteq Sids,
         s.pcConfirmed => s.sid \in pcOk',
         s.phoneConfirmed => \E p \in Phones : <<s.sid, p>> \in phoneOk',
         Confirmed(s),
         UNCHANGED <<now, sessions, window, thread, asked>>
  PROVE  PairInv'
<1>1. Requests'
  BY DEF PairInv, Requests, thread
<1>2. CASE s.pcConfirmed /\ s.phoneConfirmed
  <2>2. <<s.sid, s.phone>> \in asked /\ s.phone \in Phones
    BY <1>2 DEF PairInv, PhoneAsked, TypeOK
  <2>3. Commit(s)
    BY <1>2 DEF Confirmed
  <2>4. /\ pending' = NoSession /\ dead' = dead \cup {s.sid}
        /\ reg' = IF Accepts(reg, s.phone) THEN WithPhone(reg, s.phone) ELSE reg
    BY <2>3 DEF Commit
  <2>5. commits' = commits \cup {[sid |-> s.sid, phone |-> s.phone]}
    BY <2>3 DEF Commit
  <2>6. GoodRegistry(reg, {})'
    BY <2>2, <2>4, WithPhoneGood DEF PairInv
  <2>7. NoSession \in Session
    BY PairingAssumption DEF NoSession, Session, Codes, Statuses
  <2>8. TypeOK'
    <3>1. commits' \subseteq [sid : Sids, phone : Phones]
      BY <2>2, <2>5 DEF PairInv, TypeOK
    <3>. QED  BY <2>4, <2>6, <2>7, <3>1 DEF PairInv, TypeOK, thread, GoodRegistry
  <2>9. PendingIsAlive'
    <3>1. \A c \in commits' : c.sid \in dead'
      BY <2>4, <2>5 DEF PairInv, PendingIsAlive
    <3>2. /\ pending'.sid = 0 /\ 0 \notin dead' /\ 0 <= sessions
          /\ \A sid \in dead' : sid <= sessions
      BY <2>4, PairingAssumption
         DEF NoSession, PairInv, TypeOK, PendingIsAlive, Sids
    <3>. QED  BY <3>1, <3>2 DEF PairInv, PendingIsAlive
  <2>10. PendingConsent'
    <3>1. \A q \in Phones : <<0, q>> \notin asked
      BY PairingAssumption DEF PairInv, TypeOK, Sids
    <3>. QED  BY <2>4, <3>1 DEF PendingConsent, NoSession
  <2>11. CommitsAreConfirmed'
    <3>1. /\ s.sid \in pcOk' /\ \E q \in Phones : <<s.sid, q>> \in phoneOk'
          /\ <<s.sid, s.phone>> \in asked'
      BY <1>2, <2>2
    <3>2. \A c \in commits : /\ c.sid \in pcOk' /\ <<c.sid, c.phone>> \in asked'
                            /\ \E q \in Phones : <<c.sid, q>> \in phoneOk'
      BY DEF PairInv, CommitsAreConfirmed
    <3>3. \A c \in commits' : c \in commits \/ (c.sid = s.sid /\ c.phone = s.phone)
      BY <2>5
    <3>4. ASSUME NEW c \in commits'
          PROVE  /\ c.sid \in pcOk' /\ <<c.sid, c.phone>> \in asked'
                 /\ \E q \in Phones : <<c.sid, q>> \in phoneOk'
      <4>1. CASE c \in commits
        BY <3>2, <4>1
      <4>2. CASE c.sid = s.sid /\ c.phone = s.phone
        BY <3>1, <4>2
      <4>. QED  BY <3>3, <3>4, <4>1, <4>2
    <3>. QED  BY <3>4 DEF CommitsAreConfirmed
  <2>12. PendingAsked'
    BY <2>4 DEF PendingAsked, NoSession
  <2>. QED  BY <1>1, <2>6, <2>8, <2>9, <2>10, <2>11, <2>12 DEF PairInv
<1>3. CASE ~(s.pcConfirmed /\ s.phoneConfirmed)
  <2>1. pending' = s /\ UNCHANGED <<reg, commits, dead>>
    BY <1>3 DEF Confirmed
  <2>2. TypeOK'
    BY <2>1 DEF PairInv, TypeOK, thread
  <2>3. GoodRegistry(reg, {})' /\ PendingIsAlive' /\ CommitsAreConfirmed'
    BY <2>1 DEF PairInv, PendingIsAlive, CommitsAreConfirmed
  <2>4. PendingConsent'
    BY <2>1 DEF PairInv, PendingConsent
  <2>5. PendingAsked'
    BY <2>1 DEF PendingAsked, PhoneAsked
  <2>. QED  BY <1>1, <2>2, <2>3, <2>4, <2>5 DEF PairInv
<1>. QED  BY <1>2, <1>3

\* The phone's confirmation.
LEMMA ConfirmFromPhoneStep ==
  ASSUME PairInv, NEW sid \in Sids, NEW p \in Phones, ConfirmFromPhone(sid, p)
  PROVE  PairInv'
<1>. DEFINE s == [pending EXCEPT !.phoneConfirmed = TRUE, !.status = "PHONE_CONFIRMED"]
<1>1. /\ s \in Session /\ s.sid = sid /\ pending.sid = sid /\ s.phone = pending.phone
      /\ s.pcConfirmed = pending.pcConfirmed /\ s.status = "PHONE_CONFIRMED"
  BY DEF ConfirmFromPhone, PairInv, TypeOK, Session, Statuses
<1>2. /\ Confirmed(s) /\ UNCHANGED <<now, sessions, window, thread, asked, pcOk>>
      /\ KnowsSession(p, sid) /\ phoneOk' = phoneOk \cup {<<sid, p>>}
  BY DEF ConfirmFromPhone
<1>3. /\ phoneOk \subseteq phoneOk' /\ phoneOk' \subseteq Sids \X Phones
      /\ \E q \in Phones : <<s.sid, q>> \in phoneOk'
  BY <1>1, <1>2 DEF PairInv, TypeOK
<1>5. PhoneAsked(s, window)
  <2>1. PhoneAsked(pending, window)
    BY <1>1, PairingAssumption DEF PairInv, PendingAsked, Sids
  <2>2. <<sid, p>> \in asked => <<s.sid, s.phone>> \in asked
    BY <1>1 DEF PairInv, PendingConsent
  <2>. HIDE DEF s
  <2>. QED  BY <1>1, <1>2, <2>1, <2>2 DEF PhoneAsked, KnowsSession
<1>4. /\ s.pcConfirmed => s.sid \in pcOk'
      /\ pcOk \subseteq pcOk' /\ pcOk' \subseteq Sids
  BY <1>1, <1>2 DEF PairInv, PendingConsent, TypeOK
<1>. HIDE DEF s
<1>. QED  BY <1>1, <1>2, <1>3, <1>4, <1>5, ConfirmedStep

\* The PC user's confirmation, of the pending session or of one that is gone.
LEMMA ConfirmFromPcStep ==
  ASSUME PairInv, ConfirmFromPc
  PROVE  PairInv'
<1>1. /\ window.sid \in Sids /\ pcOk' = pcOk \cup {window.sid} /\ pcOk' \subseteq Sids
      /\ UNCHANGED <<now, sessions, window, thread, asked, phoneOk>>
  BY DEF ConfirmFromPc, PairInv, TypeOK
<1>2. CASE pending.sid = window.sid
  <2>. DEFINE s == [pending EXCEPT !.pcConfirmed = TRUE]
  <2>1. /\ s \in Session /\ s.sid = window.sid /\ s.phone = pending.phone
        /\ s.phoneConfirmed = pending.phoneConfirmed /\ s.status = pending.status
    BY <1>2 DEF PairInv, TypeOK, Session
  <2>2. Confirmed(s)
    BY <1>2 DEF ConfirmFromPc
  <2>3. s.sid \in pcOk' /\ phoneOk' \subseteq Sids \X Phones
    BY <1>1, <2>1 DEF PairInv, TypeOK
  <2>5. s.phoneConfirmed => \E p \in Phones : <<s.sid, p>> \in phoneOk'
    <3>1. pending.phoneConfirmed => \E p \in Phones : <<pending.sid, p>> \in phoneOk
      BY DEF PairInv, PendingConsent
    <3>. HIDE DEF s
    <3>. QED  BY <1>1, <1>2, <2>1, <3>1
  <2>4. PhoneAsked(s, window)
    <3>1. PhoneAsked(pending, window) /\ window.prompt
      BY <1>1, <1>2, PairingAssumption DEF PairInv, PendingAsked, ConfirmFromPc, Sids
    <3>. HIDE DEF s
    <3>. QED  BY <1>2, <2>1, <3>1 DEF PhoneAsked
  <2>. HIDE DEF s
  <2>. QED  BY <1>1, <1>2, <2>1, <2>2, <2>3, <2>4, <2>5, ConfirmedStep
<1>3. CASE pending.sid # window.sid
  <2>1. UNCHANGED <<reg, pending, commits, dead>>
    BY <1>3 DEF ConfirmFromPc
  <2>2. TypeOK' /\ Requests'
    BY <1>1, <2>1 DEF PairInv, TypeOK, Requests, thread
  <2>3. PendingIsAlive' /\ PendingConsent' /\ CommitsAreConfirmed' /\ GoodRegistry(reg, {})'
    BY <1>1, <2>1 DEF PairInv, PendingIsAlive, PendingConsent, CommitsAreConfirmed
  <2>4. PendingAsked'
    BY <1>1, <2>1 DEF PairInv, PendingAsked, PhoneAsked
  <2>. QED  BY <2>2, <2>3, <2>4 DEF PairInv
<1>. QED  BY <1>2, <1>3
-----------------------------------------------------------------------------
(* The window, the registry and time *)

\* A session that is dropped leaves none.
LEMMA DropStep ==
  ASSUME PairInv, DropSession,
         window' \in [kind : {"closed", "dialog", "wizard"}, sid : {0} \cup Sids,
                      prompt : BOOLEAN],
         UNCHANGED <<now, reg, sessions, thread, consent, commits>>
  PROVE  PairInv'
<1>1. NoSession \in Session /\ NoSession.sid = 0
      /\ NoSession.pcConfirmed = FALSE /\ NoSession.phoneConfirmed = FALSE
  BY PairingAssumption DEF NoSession, Session, Codes, Statuses
<1>2. pending' = NoSession /\ dead' = dead \cup ({pending.sid} \ {0})
  BY DEF DropSession
<1>3. /\ dead' \subseteq Sids /\ 0 \notin dead' /\ 0 <= sessions
      /\ \A sid \in dead' : sid <= sessions
  <2>1. dead \subseteq Sids /\ pending.sid \in {0} \cup Sids
    BY DEF PairInv, TypeOK, Session
  <2>2. pending.sid <= sessions /\ \A sid \in dead : sid <= sessions
    BY DEF PairInv, PendingIsAlive
  <2>3. 0 \notin Sids /\ 0 <= sessions
    BY PairingAssumption DEF PairInv, TypeOK, Sids
  <2>. QED  BY <1>2, <2>1, <2>2, <2>3
<1>4. TypeOK' /\ Requests'
  BY <1>1, <1>2, <1>3 DEF PairInv, TypeOK, Requests, thread, consent
<1>5. PendingIsAlive'
  BY <1>1, <1>2, <1>3 DEF PairInv, PendingIsAlive, consent
<1>6. PendingConsent'
  <2>1. \A p \in Phones : <<0, p>> \notin asked
    BY PairingAssumption DEF PairInv, TypeOK, Sids
  <2>. QED  BY <1>1, <1>2, <2>1 DEF PairInv, PendingConsent, consent
<1>7. GoodRegistry(reg, {})' /\ PendingAsked' /\ CommitsAreConfirmed'
  BY <1>1, <1>2 DEF PairInv, PendingAsked, CommitsAreConfirmed, consent
<1>. QED  BY <1>4, <1>5, <1>6, <1>7 DEF PairInv

\* Opening a window replaces the session by one nobody has confirmed.
LEMMA OpenWindowStep ==
  ASSUME PairInv, NEW kind \in {"dialog", "wizard"}, OpenWindow(kind)
  PROVE  PairInv'
<1>. DEFINE s == NewSession(sessions + 1, sessions + 1, "WAITING_FOR_PHONE")
<1>1. /\ sessions \in Nat /\ sessions + 1 \in Sids /\ sessions' = sessions + 1
  BY PairingAssumption DEF OpenWindow, PairInv, TypeOK, Sids
<1>2. /\ s \in Session /\ s.sid = sessions + 1
      /\ s.pcConfirmed = FALSE /\ s.phoneConfirmed = FALSE
      /\ s.status = "WAITING_FOR_PHONE"
  <2>1. now + TTL \in 0..(MaxTime + TTL)
    BY PairingAssumption DEF PairInv, TypeOK, Times
  <2>. QED  BY <1>1, <2>1, PairingAssumption
            DEF NewSession, NoSession, Session, Codes, Statuses
<1>3. /\ pending' = s /\ dead' = dead \cup ({pending.sid} \ {0})
      /\ window' = [kind |-> kind, sid |-> sessions + 1, prompt |-> kind = "wizard"]
      /\ UNCHANGED <<now, reg, thread, consent, commits>>
  BY DEF OpenWindow
<1>. HIDE DEF s
<1>4. /\ dead' \subseteq Sids /\ s.sid \notin dead'
      /\ \A sid \in dead' : sid <= sessions + 1
  <2>1. dead \subseteq Sids /\ pending.sid \in {0} \cup Sids
    BY DEF PairInv, TypeOK, Session
  <2>2. pending.sid <= sessions /\ \A sid \in dead : sid <= sessions
    BY DEF PairInv, PendingIsAlive
  <2>3. dead' \subseteq Sids /\ \A sid \in dead' : sid <= sessions
    BY <1>3, <2>1, <2>2
  <2>4. \A sid \in Sids : sid <= sessions => sid <= sessions + 1 /\ sid # sessions + 1
    BY <1>1, PairingAssumption DEF Sids
  <2>. QED  BY <1>2, <2>3, <2>4
<1>5. TypeOK' /\ Requests'
  BY <1>1, <1>2, <1>3, <1>4 DEF PairInv, TypeOK, Requests, thread, consent
<1>6. PendingIsAlive'
  <2>1. \A sid \in Sids, p \in Phones : <<sid, p>> \in asked => sid <= sessions + 1
    BY <1>1, PairingAssumption DEF PairInv, PendingIsAlive, Sids
  <2>2. \A c \in commits : c.sid \in dead'
    BY <1>3 DEF PairInv, PendingIsAlive
  <2>. QED  BY <1>1, <1>2, <1>3, <1>4, <2>1, <2>2 DEF PendingIsAlive, consent
<1>7. PendingConsent'
  <2>1. \A p \in Phones : <<s.sid, p>> \notin asked
    BY <1>1, <1>2 DEF PairInv, PendingIsAlive
  <2>. QED  BY <1>2, <1>3, <2>1 DEF PairInv, PendingConsent, consent
<1>8. GoodRegistry(reg, {})' /\ CommitsAreConfirmed'
  BY <1>3 DEF PairInv, CommitsAreConfirmed, consent
<1>9. PendingAsked'
  BY <1>2, <1>3 DEF PendingAsked, PhoneAsked
<1>. QED  BY <1>5, <1>6, <1>7, <1>8, <1>9 DEF PairInv

\* The window's other steps, the clock, and a stuttering step.
LEMMA QuietStep ==
  ASSUME PairInv, Poll \/ CloseWizard \/ Tick \/ UNCHANGED vars
  PROVE  PairInv'
<1>1. /\ UNCHANGED <<reg, pending, sessions, thread, consent, commits, dead>>
      /\ now' \in Times
      /\ window' \in [kind : {"closed", "dialog", "wizard"}, sid : {0} \cup Sids,
                      prompt : BOOLEAN]
  <2>. USE DEF thread, consent, PairInv, TypeOK
  <2>1. CASE Poll
    BY <2>1 DEF Poll
  <2>2. CASE CloseWizard
    BY <2>2 DEF CloseWizard, Closed
  <2>3. CASE Tick
    BY <2>3, PairingAssumption DEF Tick, Times
  <2>4. CASE UNCHANGED vars
    BY <2>4 DEF vars
  <2>. QED  BY <2>1, <2>2, <2>3, <2>4
<1>2. TypeOK' /\ Requests'
  BY <1>1 DEF PairInv, TypeOK, Requests, thread, consent
<1>3. PendingAsked'
  <2>. USE DEF PairInv, PendingAsked, PhoneAsked, consent
  <2>1. CASE Poll
    BY <2>1 DEF Poll, TypeOK
  <2>2. CASE CloseWizard
    BY <2>2 DEF CloseWizard, Closed
  <2>3. CASE UNCHANGED window
    BY <1>1, <2>3
  <2>. QED  BY <2>1, <2>2, <2>3 DEF Tick, vars
<1>. QED  BY <1>1, <1>2, <1>3, SessionUntouched DEF PairInv

\* Removing or revoking a phone.
LEMMA RegistryChangeStep ==
  ASSUME PairInv, RegistryChanges
  PROVE  PairInv'
<1>1. PICK id \in TrustedIds(reg) : reg' = WithoutPhone(reg, id) \/ reg' = WithRevoked(reg, id)
  BY DEF RegistryChanges
<1>2. id \in PhoneIds
  BY <1>1, RegistryAssumption DEF TrustedIds, PairInv, GoodRegistry, Registry
<1>3. GoodRegistry(reg, {})'
  BY <1>1, <1>2, WithoutPhoneGood, WithRevokedGood DEF PairInv
<1>4. UNCHANGED <<now, pending, sessions, window, thread, consent, commits, dead>>
  BY DEF RegistryChanges
<1>5. TypeOK' /\ Requests'
  BY <1>3, <1>4 DEF PairInv, TypeOK, Requests, GoodRegistry, thread, consent
<1>6. PendingIsAlive' /\ PendingConsent' /\ PendingAsked' /\ CommitsAreConfirmed'
  BY <1>4 DEF PairInv, PendingIsAlive, PendingConsent, PendingAsked, PhoneAsked,
              CommitsAreConfirmed, consent
<1>. QED  BY <1>3, <1>5, <1>6 DEF PairInv

\* Every step keeps the inductive invariant.
LEMMA PairStep == PairInv /\ [Next]_vars => PairInv'
<1>. SUFFICES ASSUME PairInv, [Next]_vars PROVE PairInv'
  OBVIOUS
<1>1. ASSUME NEW t \in Threads, HandleRequest(t) PROVE PairInv'
  BY <1>1, RequestStep, TakePhoneStep DEF HandleRequest
<1>2. CASE \E sid \in Sids, p \in Phones : ConfirmFromPhone(sid, p)
  BY <1>2, ConfirmFromPhoneStep
<1>3. CASE ConfirmFromPc
  BY <1>3, ConfirmFromPcStep
<1>4. CASE \E kind \in {"dialog", "wizard"} : OpenWindow(kind)
  BY <1>4, OpenWindowStep
<1>5. CASE CancelPairing
  BY <1>5, DropStep DEF CancelPairing, Closed
<1>6. CASE Stop
  BY <1>6, DropStep DEF Stop, PairInv, TypeOK
<1>7. CASE RegistryChanges
  BY <1>7, RegistryChangeStep
<1>8. CASE Poll \/ CloseWizard \/ Tick \/ UNCHANGED vars
  BY <1>8, QuietStep
<1>. QED  BY <1>1, <1>2, <1>3, <1>4, <1>5, <1>6, <1>7, <1>8 DEF Next
-----------------------------------------------------------------------------
\* The inductive invariant holds in every reachable state.
THEOREM PairingInvariant == Spec => []PairInv
BY PairInitInv, PairStep, PTL DEF Spec

\* Every value of the pairing state is one TypeOK allows.
THEOREM PairingTypeOK == Spec => []TypeOK
<1>1. PairInv => TypeOK
  BY DEF PairInv
<1>. QED  BY PairingInvariant, <1>1, PTL

\* Every commit has, within its own session, the PC user's confirmation, a phone's
\* confirmation and the committed phone's request.
THEOREM PairingCommitsAreConfirmed == Spec => []CommitsAreConfirmed
<1>1. PairInv => CommitsAreConfirmed
  BY DEF PairInv
<1>. QED  BY PairingInvariant, <1>1, PTL

\* The limit and the blacklist hold although they are consulted before the mutex.
THEOREM PairingRegistryRespected == Spec => []RegistryRespected
<1>1. PairInv => RegistryRespected
  BY DEF PairInv, GoodRegistry, RegistryRespected
<1>. QED  BY PairingInvariant, <1>1, PTL

\* A session that was committed, cancelled or replaced never commits (again).
THEOREM PairingDeadSessionsStayDead == Spec => DeadSessionsStayDead
<1>. DEFINE Stays == \A c \in commits' : c.sid \in dead => c \in commits
<1>1. ASSUME NEW s, s.sid = pending.sid, Confirmed(s), PairInv PROVE Stays
  BY <1>1 DEF Confirmed, Commit, PairInv, PendingIsAlive
<1>2. ASSUME PairInv, [Next]_vars PROVE Stays
  <2>1. CASE \E sid \in Sids, p \in Phones : ConfirmFromPhone(sid, p)
    <3>1. [pending EXCEPT !.phoneConfirmed = TRUE, !.status = "PHONE_CONFIRMED"].sid
            = pending.sid
      BY <1>2 DEF PairInv, TypeOK, Session
    <3>. QED  BY <1>1, <1>2, <2>1, <3>1 DEF ConfirmFromPhone
  <2>2. CASE ConfirmFromPc
    <3>1. [pending EXCEPT !.pcConfirmed = TRUE].sid = pending.sid
      BY <1>2 DEF PairInv, TypeOK, Session
    <3>. QED  BY <1>1, <1>2, <2>2, <3>1 DEF ConfirmFromPc
  <2>3. CASE UNCHANGED commits
    BY <2>3
  <2>. QED
    BY <1>2, <2>1, <2>2, <2>3
       DEF Next, HandleRequest, RequestArrives, CheckPhone, CheckKey, JoinSession,
           RequestRejected, OpenSession, OpenWindow, Poll, CancelPairing, Stop,
           CloseWizard, RegistryChanges, Tick, vars
<1>3. PairInv /\ [Next]_vars => [Stays]_vars
  BY <1>2
<1>. QED  BY PairingInvariant, <1>3, PTL DEF Spec, DeadSessionsStayDead
=============================================================================
