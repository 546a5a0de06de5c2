------------------------------ MODULE Desktop ------------------------------
(***************************************************************************)
(* The processes of one PC: instances of the desktop application, each     *)
(* with a KeyStore over the user's vault, and the service, whose KeyStore  *)
(* has the system account's vault (%LOCALAPPDATA% of LocalSystem).  The    *)
(* build decides the application's window: ui/NativeWin32Window with       *)
(* PairingDialog (app/AppMain.cpp), or the Qt widgets with SetupWizard     *)
(* (app/main.cpp).  Only the service runs transports, so phones reach its  *)
(* AuthCoordinator, and users reach the one of an application.  One        *)
(* process's KeyStore and coordinator are modelled in detail in KeyStore   *)
(* and Pairing; here a phone is its id.                                    *)
(***************************************************************************)
EXTENDS Naturals, FiniteSets, SequencesExt

CONSTANTS
  Apps,     \* the instances that users start, in any order
  Phones,   \* the phones that a vault may know
  Asking    \* the phones that ask the service to pair

VARIABLES
  build,      \* "native" or "qt"
  vault,      \* the user's keys.vault: NoFile, or what Load reads from it
  app,        \* how far each instance has come
  mem,        \* its KeyStore
  shown,      \* the rows of its list of phones
  session,    \* m_pendingPairing of its coordinator: which dialog began it
  page,       \* the page of the wizard of the first launch, and that of the modal
              \* dialog before it: the pairing dialog or a later wizard
  service,    \* the service's KeyStore
  pending,    \* m_pendingPairing of the service's coordinator
  committed,  \* history: revocations that reached the user's vault
  overlapped, \* history: an instance was started beside another
  torn        \* history: a Save was cut short after it truncated the vault

appVars == <<app, mem, shown, session, page>>
serviceVars == <<service, pending>>
history == <<committed, overlapped, torn>>
vars == <<build, vault, appVars, serviceVars, history>>

\* A vault names the PC's identity, which the instance that found no vault made
Identities == Apps \cup {"first", "service", "none", "empty"}
Images == [identity : Identities, phones : Seq(Phones \cup Asking), revoked : SUBSET Phones]

\* A KeyStore that has not been constructed; also what a vault is without its file
Unloaded == [identity |-> "none", phones |-> <<>>, revoked |-> {}]
NoFile == Unloaded

\* What Load makes of an empty file: no line, so not even an identity
EmptyFile == [Unloaded EXCEPT !.identity = "empty"]

NoSession == [phone |-> "none", phoneConfirmed |-> FALSE, pcConfirmed |-> FALSE,
              expired |-> FALSE]

NotPairing == [by |-> "none", confirmed |-> FALSE]

Wizards == {"first", "modal"}

NoPage == [first |-> "none", modal |-> "none"]

Limit == 2
-----------------------------------------------------------------------------
(* KeyStore *)

\* Mutant: the blacklist is not read back
LoadedPhones(a) ==
  IF vault = NoFile THEN [Unloaded EXCEPT !.identity = a] ELSE [vault EXCEPT !.revoked = {}]

\* The constructor's Load makes an identity where it finds no vault
Loaded(a) == IF vault = NoFile THEN [Unloaded EXCEPT !.identity = a] ELSE vault

\* RemoveTrustedPhone and RevokeTrustedPhone erase the first entry with the id
Without(image, p) == [image EXCEPT !.phones = RemoveFirst(@, p)]

Revoked(image, p) == [Without(image, p) EXCEPT !.revoked = @ \cup {p}]

\* AddTrustedPhone
With(image, p) ==
  IF Len(image.phones) >= Limit \/ p \in image.revoked \/ p \in ToSet(image.phones)
  THEN image
  ELSE [image EXCEPT !.phones = Append(@, p)]

\* Save truncates the file and writes it; or it fails before and leaves it, or in
\* between, on a full disk or with a kill to follow, and leaves a file that is empty
\* or not to be decrypted.  Nobody looks.
Saves(image) ==
  \/ vault' = image /\ committed' = committed \cup image.revoked /\ UNCHANGED torn
  \/ UNCHANGED <<vault, committed, torn>>
  \/ vault' \in {NoFile, EmptyFile} /\ torn' = TRUE /\ UNCHANGED committed
-----------------------------------------------------------------------------
(* WinMain, or main and MainWindow *)

Live(a) == app[a] \in {"starting", "loaded", "window", "leaving"}

\* The mutex is there as soon as an instance lives, but only a window of the native
\* class makes a second instance give way
Start(a) ==
  /\ app[a] = "off"
  /\ IF build = "native" /\ \E b \in Apps : app[b] = "window"
     THEN /\ app' = [app EXCEPT ![a] = "ended"]
          /\ UNCHANGED overlapped
     ELSE /\ app' = [app EXCEPT ![a] = "starting"]
          /\ overlapped' = (overlapped \/ \E b \in Apps : Live(b))
  /\ UNCHANGED <<build, vault, mem, shown, session, page, serviceVars, committed, torn>>

Load(a) ==
  /\ app[a] = "starting"
  /\ app' = [app EXCEPT ![a] = "loaded"]
  /\ mem' = [mem EXCEPT ![a] = Loaded(a)]
  /\ UNCHANGED <<build, vault, shown, session, page, serviceVars, history>>

\* Initialize shows the dashboard, or fails; MainWindow fills its list, and begins with
\* the wizard when no phone is trusted (that it was finished is not in the vault)
MakeWindow(a) ==
  /\ app[a] = "loaded"
  /\ \/ /\ app' = [app EXCEPT ![a] = "window"]
        /\ shown' = [shown EXCEPT ![a] = IF build = "qt" THEN mem[a].phones ELSE <<>>]
        /\ page' = [page EXCEPT ![a].first =
                      IF build = "qt" /\ mem[a].phones = <<>> THEN "welcome" ELSE "none"]
     \/ /\ build = "native"
        /\ app' = [app EXCEPT ![a] = "leaving"]
        /\ UNCHANGED <<shown, page>>
  /\ UNCHANGED <<build, vault, mem, session, serviceVars, history>>

\* Exit in the tray menu, which a modal dialog does not disable
Quit(a) ==
  /\ app[a] = "window"
  /\ app' = [app EXCEPT ![a] = "leaving"]
  /\ shown' = [shown EXCEPT ![a] = <<>>]
  /\ page' = [page EXCEPT ![a] = NoPage]
  /\ UNCHANGED <<build, vault, mem, session, serviceVars, history>>

\* The end of the process takes its memory along
Ends(a) ==
  /\ app' = [app EXCEPT ![a] = "ended"]
  /\ mem' = [mem EXCEPT ![a] = Unloaded]
  /\ shown' = [shown EXCEPT ![a] = <<>>]
  /\ session' = [session EXCEPT ![a] = NotPairing]
  /\ page' = [page EXCEPT ![a] = NoPage]

\* ~KeyStore saves when the process exits
Exit(a) ==
  /\ app[a] = "leaving"
  /\ Saves(mem[a])
  /\ Ends(a)
  /\ UNCHANGED <<build, serviceVars, overlapped>>

Kill(a) ==
  /\ Live(a)
  /\ Ends(a)
  /\ UNCHANGED <<build, vault, serviceVars, history>>
-----------------------------------------------------------------------------
(* The window *)

\* The user can use the window: no modal dialog is before it.  The wizard of the
\* first launch is shown beside it.
Free(a) == app[a] = "window" /\ page[a].modal = "none"

\* Mutant: the rows stay as they were
RowsAsBefore(a, phones) == UNCHANGED shown

\* UpdateTrustedPhones, or TrustedPhonesWidget::RefreshData
Refresh(a, phones) == shown' = [shown EXCEPT ![a] = phones]

OpenPhonesPage(a) ==
  /\ Free(a)
  /\ Refresh(a, mem[a].phones)
  /\ UNCHANGED <<build, vault, app, mem, session, page, serviceVars, history>>

\* A button of a row: the handler reads the phones again and takes the one with the
\* row's index
ClickRow(a, i, image) ==
  /\ Free(a)
  /\ i \in DOMAIN shown[a]
  /\ i <= Len(mem[a].phones)
  /\ mem' = [mem EXCEPT ![a] = image]
  /\ Saves(image)
  /\ Refresh(a, image.phones)
  /\ UNCHANGED <<build, app, session, page, serviceVars, overlapped>>

RemoveRow(a, i) == ClickRow(a, i, Without(mem[a], mem[a].phones[i]))

RevokeRow(a, i) == ClickRow(a, i, Revoked(mem[a], mem[a].phones[i]))

\* Save Preferences, Save Settings, Pause Protection, or a Windows credential
SaveSettings(a) ==
  /\ Free(a)
  /\ Saves(mem[a])
  /\ UNCHANGED <<build, appVars, serviceVars, overlapped>>

\* PairingDialog: InitiatePairingSession.  Its Confirm button comes with a phone's
\* request, which no transport brings to this process.
OpenDialog(a) ==
  /\ build = "native" /\ Free(a)
  /\ Len(mem[a].phones) < Limit
  /\ page' = [page EXCEPT ![a].modal = "dialog"]
  /\ session' = [session EXCEPT ![a] = [by |-> "modal", confirmed |-> FALSE]]
  /\ UNCHANGED <<build, vault, app, mem, shown, serviceVars, history>>

\* CancelPairing, and RefreshAll behind it
CloseDialog(a) ==
  /\ app[a] = "window" /\ page[a].modal = "dialog"
  /\ page' = [page EXCEPT ![a].modal = "none"]
  /\ session' = [session EXCEPT ![a] = NotPairing]
  /\ Refresh(a, mem[a].phones)
  /\ UNCHANGED <<build, vault, app, mem, serviceVars, history>>
-----------------------------------------------------------------------------
(* SetupWizard: the first launch shows one beside the window, Add Phone runs a
   modal one before both *)

Turn(a, w, here, next) ==
  /\ app[a] = "window" /\ page[a][w] = here
  /\ w = "first" => page[a].modal = "none"
  /\ page' = [page EXCEPT ![a][w] = next]

OpenWizard(a) ==
  /\ build = "qt"
  /\ Len(mem[a].phones) < Limit
  /\ Turn(a, "modal", "none", "welcome")
  /\ UNCHANGED <<build, vault, app, mem, shown, session, serviceVars, history>>

\* SetPcDisplayName and InitiatePairingSession, which drops the other wizard's session
NamePc(a, w) ==
  /\ Turn(a, w, "welcome", "code")
  /\ session' = [session EXCEPT ![a] = IF Len(mem[a].phones) < Limit
                                         THEN [by |-> w, confirmed |-> FALSE]
                                         ELSE @]
  /\ Saves(mem[a])
  /\ UNCHANGED <<build, app, mem, shown, serviceVars, overlapped>>

\* ConfirmPairingFromPc, which finds no phone that has confirmed, or not even this
\* wizard's session; its answer is not looked at
ConfirmCode(a, w) ==
  /\ Turn(a, w, "code", "complete")
  /\ session' = [session EXCEPT ![a].confirmed = @ \/ session[a].by = w]
  /\ UNCHANGED <<build, vault, app, mem, shown, serviceVars, history>>

\* UpdateSettings and RefreshData
FinishWizard(a, w) ==
  /\ Turn(a, w, "complete", "none")
  /\ Saves(mem[a])
  /\ Refresh(a, mem[a].phones)
  /\ UNCHANGED <<build, app, mem, session, serviceVars, overlapped>>

\* Closed with its title bar: the session stays
CloseWizard(a, w) ==
  /\ \E here \in {"welcome", "code", "complete"} : Turn(a, w, here, "none")
  /\ UNCHANGED <<build, vault, app, mem, shown, session, serviceVars, history>>
-----------------------------------------------------------------------------
(* The service's coordinator, reached by phones only *)

\* HandlePairingRequest: takes the place of an earlier phone, but never that of an
\* expired session, which nobody cancels here
PairingRequest(p) ==
  /\ Len(service.phones) < Limit /\ p \notin service.revoked
  /\ ~pending.expired
  /\ pending' = [pending EXCEPT !.phone = p]
  /\ UNCHANGED <<build, vault, appVars, service, history>>

Expires ==
  /\ pending.phone # "none" /\ ~pending.expired
  /\ pending' = [pending EXCEPT !.expired = TRUE]
  /\ UNCHANGED <<build, vault, appVars, service, history>>

\* Mutant: the phone's confirmation is enough
PhoneConfirmed(s) == s.phoneConfirmed

BothConfirmed(s) == s.pcConfirmed /\ s.phoneConfirmed

\* HandlePairingConfirmFromPhone
PhoneConfirms ==
  /\ pending.phone # "none"
  /\ LET s == [pending EXCEPT !.phoneConfirmed = TRUE]
     IN  IF BothConfirmed(s)
         THEN service' = With(service, s.phone) /\ pending' = NoSession
         ELSE pending' = s /\ UNCHANGED service
  /\ UNCHANGED <<build, vault, appVars, history>>
-----------------------------------------------------------------------------
\* A vault that a run of the tests or an earlier release left: no, one or two phones,
\* which Load may have read as one id, or as one on the blacklist (KeyStore's misread)
LeftBehind ==
  {[identity |-> "first", phones |-> s, revoked |-> r] :
     s \in SeqOf(Phones, Limit), r \in SUBSET Phones}

Init ==
  /\ build \in {"native", "qt"}
  /\ vault \in {NoFile} \cup LeftBehind
  /\ app = [a \in Apps |-> "off"]
  /\ mem = [a \in Apps |-> Unloaded]
  /\ shown = [a \in Apps |-> <<>>]
  /\ session = [a \in Apps |-> NotPairing]
  /\ page = [a \in Apps |-> NoPage]
  /\ service = [Unloaded EXCEPT !.identity = "service"] /\ pending = NoSession
  /\ committed = vault.revoked
  /\ overlapped = FALSE /\ torn = FALSE

Process(a) == Start(a) \/ Load(a) \/ MakeWindow(a) \/ Quit(a) \/ Exit(a) \/ Kill(a)

Window(a) ==
  \/ OpenPhonesPage(a) \/ SaveSettings(a) \/ OpenDialog(a) \/ CloseDialog(a)
  \/ \E i \in 1..Limit : RemoveRow(a, i) \/ RevokeRow(a, i)

Wizard(a) ==
  \/ OpenWizard(a)
  \/ \E w \in Wizards :
       NamePc(a, w) \/ ConfirmCode(a, w) \/ FinishWizard(a, w) \/ CloseWizard(a, w)

Next ==
  \/ \E a \in Apps : Process(a) \/ Window(a) \/ Wizard(a)
  \/ \E p \in Asking : PairingRequest(p)
  \/ Expires \/ PhoneConfirms

Spec == Init /\ [][Next]_vars
-----------------------------------------------------------------------------
(* Properties *)

TypeOK ==
  /\ build \in {"native", "qt"}
  /\ vault \in Images
  /\ app \in [Apps -> {"off", "starting", "loaded", "window", "leaving", "ended"}]
  /\ mem \in [Apps -> Images]
  /\ shown \in [Apps -> Seq(Phones \cup Asking)]
  /\ session \in [Apps -> [by : Wizards \cup {"none"}, confirmed : BOOLEAN]]
  /\ page \in [Apps -> [Wizards -> {"none", "dialog", "welcome", "code", "complete"}]]
  /\ service \in Images
  /\ pending \in [phone : Asking \cup {"none"}, phoneConfirmed : BOOLEAN,
                  pcConfirmed : BOOLEAN, expired : BOOLEAN]
  /\ committed \subseteq Phones /\ overlapped \in BOOLEAN /\ torn \in BOOLEAN

\* Whatever fails to be saved or is killed, a revocation that reached the vault and
\* the identity in it stay there, as long as no instance was started beside another
\* and no Save was cut short between truncating the file and writing it: two
\* instances that overlap overwrite each other's vault, and from a torn one the next
\* Load makes a new identity with an empty blacklist.
VaultKeepsWhatItKnows ==
  [][~overlapped' /\ ~torn' /\ vault # NoFile =>
       /\ vault'.identity = vault.identity
       /\ committed \subseteq vault'.revoked]_vars

\* A click on a row's button takes effect on the phone that this row shows, although
\* the handler reads the list again: that row goes, and the id in it is the one that
\* Revoke blacklists.  Excepted are rows of one id, of which the first goes.
ClickTakesTheShownPhone ==
  [][\A a \in Apps, i \in 1..Limit :
       /\ RemoveRow(a, i) /\ IsInjective(shown[a]) =>
            mem'[a] = [mem[a] EXCEPT !.phones = RemoveAt(shown[a], i)]
       /\ RevokeRow(a, i) /\ IsInjective(shown[a]) =>
            mem'[a] = [mem[a] EXCEPT !.phones = RemoveAt(shown[a], i),
                                     !.revoked = @ \cup {shown[a][i]}]]_vars

\* A phone and the user always meet different coordinators, so no phone is ever added:
\* not by its own confirmation, and not by the user's.
NobodyPairsAlone ==
  /\ service.phones = <<>>
  /\ \A a \in Apps : ToSet(mem[a].phones) \subseteq Phones

\* The wizard's last page says "Your Android phone is now securely paired with
\* AnshuBio Unlock."; with the confirmation of the user, and the phone's as well, that
\* is so.
PairedAsTold ==
  \A a \in Apps, w \in Wizards :
    /\ page[a][w] = "complete" /\ session[a] = [by |-> w, confirmed |-> TRUE]
    /\ pending.phoneConfirmed
    => pending.phone \in ToSet(mem[a].phones) \cup ToSet(service.phones)
-----------------------------------------------------------------------------
(* The inductive invariant behind the three properties that hold *)

\* A list of phones is what the vault once held, some of them gone; the service's
\* stays empty, since nobody confirms there as the user.
NobodyAdded ==
  /\ vault.phones \in Seq(Phones)
  /\ \A a \in Apps : mem[a].phones \in Seq(Phones)
  /\ service.phones = <<>> /\ ~pending.pcConfirmed

\* The rows are those of the list, or not filled yet.
RowsCurrent == \A a \in Apps : app[a] = "window" => shown[a] \in {<<>>, mem[a].phones}

\* Without an overlap only one instance lives, and it knows what the vault knows, as
\* long as no Save was torn.
Alone ==
  ~overlapped =>
    /\ \A a, b \in Apps : Live(a) /\ Live(b) => a = b
    /\ ~torn =>
         /\ committed \subseteq vault.revoked
         /\ \A a \in Apps : app[a] \in {"loaded", "window", "leaving"} =>
              /\ committed \subseteq mem[a].revoked
              /\ vault # NoFile => mem[a].identity = vault.identity

DesktopInv == TypeOK /\ NobodyAdded /\ RowsCurrent /\ Alone
=============================================================================
