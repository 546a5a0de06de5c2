------------------------------ MODULE Pairing ------------------------------
(***************************************************************************)
(* AuthCoordinator's pairing session, the transport threads that carry the *)
(* phones' messages to it and the window (PairingDialog or SetupWizard)    *)
(* through which the PC user takes part.  A session is opened by the window*)
(* or, when there is none, by the first PAIRING_REQUEST; the phone of the  *)
(* latest request is the one it would trust; it ends when both sides have  *)
(* confirmed, when it is cancelled, or when a new one replaces it.         *)
(* HandlePairingRequest consults the KeyStore before it takes the          *)
(* coordinator's mutex; everything else happens under that mutex.          *)
(***************************************************************************)
EXTENDS PhoneRegistry

CONSTANTS
  Threads,       \* the transports' client threads
  MaxSessions,   \* bound on the sessions created
  TTL,           \* the literal 60000 ms
  MaxTime        \* bound on the clock

ASSUME PairingAssumption ==
  /\ MaxSessions \in Nat
  /\ TTL \in Nat
  /\ MaxTime \in Nat

Sids == 1..MaxSessions
Times == 0..MaxTime

VARIABLES
  now,
  reg,         \* the KeyStore's registry
  pending,     \* m_pendingPairing; sid 0 is std::nullopt
  sessions,    \* sessions created; the last one's number is its sid
  window,      \* the pairing window
  pc,          \* where each thread's HandlePairingRequest is
  req,         \* the PAIRING_REQUEST it handles
  asked,       \* history: the phones a session took as its pendingPhone
  phoneOk,     \* history: the phones that sent PAIRING_CONFIRM_PHONE for a session
  pcOk,        \* history: the sessions ConfirmPairingFromPc was called for
  commits,     \* history: the commits, whether or not AddTrustedPhone took the phone
  dead         \* history: sessions committed, cancelled or replaced

vars == <<now, reg, pending, sessions, window, pc, req,
          asked, phoneOk, pcOk, commits, dead>>

thread == <<pc, req>>
consent == <<asked, phoneOk, pcOk>>

\* Confirm codes are named after the session they were generated for; 0 is the
\* empty code of a request that carries none.
Codes == {0} \cup Sids
NoPhone == [id |-> "", key |-> NoKey]

Statuses == {"NONE", "WAITING_FOR_PHONE", "CONFIRMATION_REQUIRED", "PHONE_CONFIRMED"}

Session ==
  [sid : {0} \cup Sids, code : Codes, phone : Phones \cup {NoPhone},
   expires : 0..(MaxTime + TTL), pcConfirmed : BOOLEAN,
   phoneConfirmed : BOOLEAN, status : Statuses]

NoSession ==
  [sid |-> 0, code |-> 0, phone |-> NoPhone, expires |-> 0,
   pcConfirmed |-> FALSE, phoneConfirmed |-> FALSE, status |-> "NONE"]

NewSession(sid, code, status) ==
  [NoSession EXCEPT !.sid = sid, !.code = code,
                    !.expires = now + TTL, !.status = status]

\* The window shows the prompt, and with it the Confirm button, once it has seen
\* a phone; the wizard always has its button.
Closed == [kind |-> "closed", sid |-> 0, prompt |-> FALSE]

NoRequest == [phone |-> NoPhone, code |-> 0]

Init ==
  /\ now = 0
  /\ reg = EmptyRegistry
  /\ pending = NoSession /\ sessions = 0 /\ window = Closed
  /\ pc = [t \in Threads |-> "idle"]
  /\ req = [t \in Threads |-> NoRequest]
  /\ asked = {} /\ phoneOk = {} /\ pcOk = {} /\ commits = {} /\ dead = {}

Expired == now > pending.expires
-----------------------------------------------------------------------------
(* PAIRING_REQUEST *)

Goto(t, label) == pc' = [pc EXCEPT ![t] = label] /\ UNCHANGED req

ReplyTo(t) ==
  /\ pc' = [pc EXCEPT ![t] = "idle"]
  /\ req' = [req EXCEPT ![t] = NoRequest]

\* A request arrives; MAX_DEVICES_REACHED is a reply with no effect
RequestArrives(t, p, code) ==
  /\ pc[t] = "idle"
  /\ code <= sessions
  /\ ~Full(reg)
  /\ pc' = [pc EXCEPT ![t] = "checkPhone"]
  /\ req' = [req EXCEPT ![t] = [phone |-> p, code |-> code]]
  /\ UNCHANGED <<now, reg, pending, sessions, window, consent, commits, dead>>

CheckPhone(t) ==
  /\ pc[t] = "checkPhone"
  /\ IF PhoneRevoked(reg, req[t].phone.id) THEN ReplyTo(t) ELSE Goto(t, "checkKey")
  /\ UNCHANGED <<now, reg, pending, sessions, window, consent, commits, dead>>

CheckKey(t) ==
  /\ pc[t] = "checkKey"
  /\ IF KeyRevoked(reg, req[t].phone.key) THEN ReplyTo(t) ELSE Goto(t, "enter")
  /\ UNCHANGED <<now, reg, pending, sessions, window, consent, commits, dead>>

\* The phone becomes the session's pendingPhone.  The confirmations the session
\* already has are left as they are.
TakePhone(session, p) ==
  /\ pending' = [session EXCEPT !.phone = p, !.status = "CONFIRMATION_REQUIRED"]
  /\ asked' = asked \cup {<<session.sid, p>>}

\* ... joins the session there is
JoinSession(t) ==
  /\ pc[t] = "enter"
  /\ pending.sid # 0
  /\ ~Expired
  /\ req[t].code \in {0, pending.code}
  /\ TakePhone(pending, req[t].phone)
  /\ ReplyTo(t)
  /\ UNCHANGED <<now, reg, sessions, window, phoneOk, pcOk, commits, dead>>

\* ... finds it expired (the session stays) or names the wrong code
RequestRejected(t) ==
  /\ pc[t] = "enter"
  /\ pending.sid # 0
  /\ Expired \/ req[t].code \notin {0, pending.code}
  /\ ReplyTo(t)
  /\ UNCHANGED <<now, reg, pending, sessions, window, consent, commits, dead>>

\* ... or opens one, under the phone's code or a generated one
OpenSession(t) ==
  /\ pc[t] = "enter"
  /\ pending.sid = 0
  /\ sessions < MaxSessions
  /\ sessions' = sessions + 1
  /\ LET code == IF req[t].code = 0 THEN sessions + 1 ELSE req[t].code
     IN  TakePhone(NewSession(sessions + 1, code, "NONE"), req[t].phone)
  /\ ReplyTo(t)
  /\ UNCHANGED <<now, reg, window, phoneOk, pcOk, commits, dead>>
-----------------------------------------------------------------------------
(* The two confirmations *)

\* Mutant: the commit keeps the session
CommitAndKeep(session) ==
  /\ reg' = IF Accepts(reg, session.phone) THEN WithPhone(reg, session.phone) ELSE reg
  /\ commits' = commits \cup {[sid |-> session.sid, phone |-> session.phone]}
  /\ dead' = dead \cup {session.sid}
  /\ pending' = session

\* Mutant: the commit does not ask AddTrustedPhone
CommitUnchecked(session) ==
  /\ reg' = WithPhone(reg, session.phone)
  /\ commits' = commits \cup {[sid |-> session.sid, phone |-> session.phone]}
  /\ dead' = dead \cup {session.sid}
  /\ pending' = NoSession

\* AddTrustedPhone, whose verdict is ignored; the session is over either way
Commit(session) ==
  /\ reg' = IF Accepts(reg, session.phone) THEN WithPhone(reg, session.phone) ELSE reg
  /\ commits' = commits \cup {[sid |-> session.sid, phone |-> session.phone]}
  /\ dead' = dead \cup {session.sid}
  /\ pending' = NoSession

Confirmed(session) ==
  IF session.pcConfirmed /\ session.phoneConfirmed
  THEN Commit(session)
  ELSE pending' = session /\ UNCHANGED <<reg, commits, dead>>

\* Session ids are random UUIDs: a phone knows one from a PAIRING_RESPONSE, or from
\* the QR code of the dialog it was made for (the wizard shows its code only)
KnowsSession(p, sid) ==
  <<sid, p>> \in asked \/ (window.kind = "dialog" /\ window.sid = sid)

\* HandlePairingConfirmFromPhone from any phone that knows the pending session, even
\* one that never asked; its id in the message is ignored, and so is expiry
ConfirmFromPhone(sid, p) ==
  /\ pending.sid = sid
  /\ KnowsSession(p, sid)
  /\ phoneOk' = phoneOk \cup {<<sid, p>>}
  /\ Confirmed([pending EXCEPT !.phoneConfirmed = TRUE, !.status = "PHONE_CONFIRMED"])
  /\ UNCHANGED <<now, sessions, window, thread, asked, pcOk>>

\* Mutant: the session id is not compared
ConfirmWhateverIsPending ==
  /\ window.sid # 0
  /\ window.prompt
  /\ pcOk' = pcOk \cup {window.sid}
  /\ IF pending.sid # 0
     THEN Confirmed([pending EXCEPT !.pcConfirmed = TRUE])
     ELSE UNCHANGED <<reg, pending, commits, dead>>
  /\ UNCHANGED <<now, sessions, window, thread, asked, phoneOk>>

\* The user clicks Confirm: ConfirmPairingFromPc(the window's session)
ConfirmFromPc ==
  /\ window.sid # 0
  /\ window.prompt
  /\ pcOk' = pcOk \cup {window.sid}
  /\ IF pending.sid = window.sid
     THEN Confirmed([pending EXCEPT !.pcConfirmed = TRUE])
     ELSE UNCHANGED <<reg, pending, commits, dead>>
  /\ UNCHANGED <<now, sessions, window, thread, asked, phoneOk>>
-----------------------------------------------------------------------------
(* The window *)

\* InitiatePairingSession: refused when full; replaces whatever is pending
OpenWindow(kind) ==
  /\ window = Closed
  /\ ~Full(reg)
  /\ sessions < MaxSessions
  /\ sessions' = sessions + 1
  /\ pending' = NewSession(sessions + 1, sessions + 1, "WAITING_FOR_PHONE")
  /\ dead' = dead \cup ({pending.sid} \ {0})
  /\ window' = [kind |-> kind, sid |-> sessions + 1, prompt |-> kind = "wizard"]
  /\ UNCHANGED <<now, reg, thread, consent, commits>>

\* The dialog's timer: CheckPairingStatus shows the prompt for whatever session
\* is active, and never hides it.  A late WM_TIMER stretches its 60 polls.
Poll ==
  /\ window.kind = "dialog"
  /\ pending.sid # 0 /\ ~Expired
  /\ pending.status = "CONFIRMATION_REQUIRED"
  /\ window' = [window EXCEPT !.prompt = TRUE]
  /\ UNCHANGED <<now, reg, pending, sessions, thread, consent, commits, dead>>

\* Mutant: cancelling marks the session instead of dropping it
MarkCancelled ==
  /\ pending' = [pending EXCEPT !.status = "CANCELLED"]
  /\ dead' = dead \cup ({pending.sid} \ {0})

\* AuthCoordinator::CancelPairing drops whatever session is pending
DropSession ==
  /\ pending' = NoSession
  /\ dead' = dead \cup ({pending.sid} \ {0})

\* Closing or cancelling the dialog cancels the pairing
CancelPairing ==
  /\ window.kind = "dialog"
  /\ window' = Closed
  /\ DropSession
  /\ UNCHANGED <<now, reg, sessions, thread, consent, commits>>

\* AuthCoordinator::Stop, which only the service calls, and it has no window; no
\* handler asks afterwards whether the coordinator is running
Stop ==
  /\ window = Closed
  /\ pending.sid # 0
  /\ DropSession
  /\ UNCHANGED <<now, reg, sessions, window, thread, consent, commits>>

\* The wizard closes and leaves the session alone
CloseWizard ==
  /\ window.kind = "wizard"
  /\ window' = Closed
  /\ UNCHANGED <<now, reg, pending, sessions, thread, consent, commits, dead>>
-----------------------------------------------------------------------------
(* The user's other choices, and time *)

RegistryChanges ==
  /\ \E id \in TrustedIds(reg) :
       reg' = WithoutPhone(reg, id) \/ reg' = WithRevoked(reg, id)
  /\ UNCHANGED <<now, pending, sessions, window, thread, consent, commits, dead>>

Tick ==
  /\ now < MaxTime
  /\ now' = now + 1
  /\ UNCHANGED <<reg, pending, sessions, window, thread, consent, commits, dead>>

HandleRequest(t) ==
  \/ \E p \in Phones, code \in Codes : RequestArrives(t, p, code)
  \/ CheckPhone(t) \/ CheckKey(t)
  \/ JoinSession(t) \/ RequestRejected(t) \/ OpenSession(t)

Next ==
  \/ \E t \in Threads : HandleRequest(t)
  \/ \E sid \in Sids, p \in Phones : ConfirmFromPhone(sid, p)
  \/ ConfirmFromPc
  \/ \E kind \in {"dialog", "wizard"} : OpenWindow(kind)
  \/ Poll \/ CancelPairing \/ CloseWizard \/ Stop
  \/ RegistryChanges \/ Tick

Spec == Init /\ [][Next]_vars
-----------------------------------------------------------------------------
(* Properties *)

TypeOK ==
  /\ now \in Times
  /\ reg \in Registry
  /\ pending \in Session
  /\ sessions \in {0} \cup Sids
  /\ window \in [kind : {"closed", "dialog", "wizard"}, sid : {0} \cup Sids,
                 prompt : BOOLEAN]
  /\ pc \in [Threads -> {"idle", "checkPhone", "checkKey", "enter"}]
  /\ req \in [Threads -> [phone : Phones \cup {NoPhone}, code : Codes]]
  /\ asked \subseteq Sids \X Phones
  /\ phoneOk \subseteq Sids \X Phones
  /\ pcOk \subseteq Sids
  /\ commits \subseteq [sid : Sids, phone : Phones]
  /\ dead \subseteq Sids

\* "Atomically commit ONLY when BOTH PC and Phone have confirmed", as far as the
\* code keeps it: within one and the same session the PC user confirmed, some
\* phone confirmed, and the phone that is committed asked - although a phone that
\* has the QR code may confirm before any phone has asked.
CommitsAreConfirmed ==
  \A c \in commits :
    /\ c.sid \in pcOk
    /\ \E p \in Phones : <<c.sid, p>> \in phoneOk
    /\ <<c.sid, c.phone>> \in asked

\* A session commits at most once, and never after it was cancelled or replaced:
\* no late confirmation revives it.
DeadSessionsStayDead ==
  [][\A c \in commits' : c.sid \in dead => c \in commits]_vars

\* The limit and the blacklist hold although HandlePairingRequest consults them
\* long before the commit: the phone may have been revoked, or the places taken,
\* while the two users made up their minds.
RegistryRespected ==
  /\ RevokedIdsUntrusted(reg, {})
  /\ WithinLimit(reg)

\* "A device is saved ... ONLY after mutual confirmation": the phone that is
\* committed is one that sent its confirmation.
MutualConsent ==
  \A c \in commits : <<c.sid, c.phone>> \in phoneOk
-----------------------------------------------------------------------------
(* The inductive invariant behind the first three *)

\* A request under way names a phone.
Requests == \A t \in Threads : pc[t] # "idle" => req[t].phone \in Phones

\* The pending session is none of the past, and the past is below the counter.
PendingIsAlive ==
  /\ pending.sid <= sessions
  /\ pending.sid \notin dead
  /\ \A sid \in dead : sid <= sessions
  /\ \A sid \in Sids, p \in Phones : <<sid, p>> \in asked => sid <= sessions
  /\ \A c \in commits : c.sid \in dead

\* The flags of the pending session stand for confirmations of that session, and
\* once a phone has asked, its pendingPhone is one that asked.
PendingConsent ==
  /\ pending.pcConfirmed => pending.sid \in pcOk
  /\ pending.phoneConfirmed => \E p \in Phones : <<pending.sid, p>> \in phoneOk
  /\ \A p \in Phones :
       <<pending.sid, p>> \in asked => <<pending.sid, pending.phone>> \in asked

\* A session that only needs one more confirmation has a phone that asked: its dialog
\* shows no Confirm button before, and only the dialog shows the id to other phones.
PhoneAsked(session, w) ==
  LET asks == <<session.sid, session.phone>> \in asked
      dialog == w.kind = "dialog" /\ w.sid = session.sid
  IN  /\ session.status = "CONFIRMATION_REQUIRED" => asks
      /\ session.phoneConfirmed => asks \/ dialog
      /\ dialog /\ (w.prompt \/ session.pcConfirmed) => asks

PendingAsked == pending.sid # 0 => PhoneAsked(pending, window)

PairInv ==
  /\ TypeOK /\ GoodRegistry(reg, {}) /\ Requests
  /\ PendingIsAlive /\ PendingConsent /\ PendingAsked /\ CommitsAreConfirmed
============================================================================
