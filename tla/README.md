# AnshuBio Unlock: TLA+ models, checks and proofs

AnshuBio Unlock unlocks a Windows PC with a confirmation on a paired phone. This
directory models its processes, threads and protocols in TLA+, checks it with TLC on small
instances, and proves the most important safety properties with TLAPS for every
instance. Paths below are relative to the repository.

## 1. Inventory

| Component | Source | State it keeps | Operations |
|---|---|---|---|
| KeyStore | `src/storage/KeyStore.cpp`, `src/crypto/DPAPIVault.cpp` | trusted phones (at most two), revoked ids and keys, Windows credential, PC identity; the file `keys.vault` | Load (constructor), Save, Add/Remove/RevokeTrustedPhone, credential and settings setters, destructor |
| CryptoEngine | `src/crypto/CryptoEngine.cpp` | table of outstanding challenges, set of consumed nonces | CreateChallenge, VerifyAuthResponse, key operations |
| AuthCoordinator, authentication | `src/core/AuthCoordinator.cpp` | the active challenge | OnPcLocked/Unlocked/Sleep, GetPendingChallengeJson, HandleAuthResponse, HandleManualLock |
| AuthCoordinator, pairing | same file | the pending pairing session | InitiatePairingSession, HandlePairingRequest, two confirmations, CancelPairing, CheckPairingStatus |
| PairingDialog, SetupWizard | `src/ui/` | session id shown, prompt | timer poll, Confirm, Cancel |
| NamedPipeServer | `src/service/NamedPipeServer.cpp` | running flag; shared result, password, condition variable | Start, Stop, accept loop, HandleClient per client, NotifyAuthResolved |
| Credential tile | `credential_provider/AnshuBioCredential.cpp` | monitor handle, stop flag, authenticated flag, token, status text | SetSelected, SetDeselected, GetSerialization, ReportResult, Release; monitor thread |
| Credential provider, COM server | `credential_provider/AnshuBioCredentialProvider.cpp`, `Dll.cpp` | reference counts, the tile, events | Advise, UnAdvise, SetUsageScenario, registration |
| Session monitor | `src/session/` | running flag, view of the session (state, locked, sleeping), message window | Start, Stop, WTS and power messages, LockWorkStation |
| Windows service | `src/service/WindowsService.cpp` | status, stop event, servers as locals | ServiceMain, control handler, install |
| Transports | `src/networking/` | running flags, sockets, server threads, detached client threads | Start, Stop, accept loops, HandleClient |
| Desktop application | `src/app/`, `src/ui/NativeWin32Window.cpp`, `src/ui/MainWindow.cpp` and the widgets | single-instance mutex, windows, rows of the phone list | start, load, exit; Revoke, Remove, Save settings, Lock, Pair |
| QR code generator | `src/crypto/QrCode.cpp` | a symbol under construction | encodeText: version and level, patterns, error correction, scan, mask |
| Security log | `src/storage/SecurityLogger.cpp` | ring of 1000 entries, file, listeners | Log |

How they interact: the transports' client threads call
`AuthCoordinator::ProcessIncomingJsonMessage`, which reads and changes the
KeyStore and the CryptoEngine, each behind its own mutex, and finally calls
`NamedPipeServer::NotifyAuthResolved`. A handler thread of the pipe hands the
password to the credential tile's monitor thread, which stores it in the tile;
LogonUI's thread picks it up. The user changes the KeyStore from the windows.

Three kinds of processes run on one PC. The service (session 0, LocalSystem) has
the transports, the pipe, a coordinator, a KeyStore and a session monitor. Each
instance of the application (the user's session) has a coordinator, a KeyStore over
the user's vault and a session monitor, but no transport and no pipe client. LogonUI
hosts the credential provider. What these processes share is a vault file (the
instances of the application) and the pipe (the service and LogonUI).

What is hard in it:

- the steps of a handler are separate critical sections, with other handlers, the
  user and the session in between;
- the coordinator and the engine keep separate copies of a challenge;
- a pairing is a conversation of three parties over one mutable session;
- the pipe's result is one shared slot for all waiters, and replies are written
  with the mutex held;
- the tile's fields are shared by threads without any lock, and threads are
  forgotten after a timeout;
- the vault is truncated and rewritten in place, and instances of the application
  overwrite each other's;
- user and phone confirm a pairing, possibly to coordinators of different processes;
- Stop of the monitor and of the servers races with threads that have just begun, with
  starts that failed, and with detached threads that outlive the servers;
- the QR code is arithmetic with many boundaries, of which the unit tests look at the
  size and two modules (`tests/TestRunner.cpp:172`).

`PROJECT.json` lists these as hazards, each at its line, with the properties that
would notice it going wrong.

## 2. Modules

| Module | Models | Uses |
|---|---|---|
| `PhoneRegistry` | the registry's data and pure operations: `Accepts`, `WithPhone`, `WithoutPhone`, `WithRevoked` | |
| `KeyStore` | threads, mutations, Save in two steps, the vault file, restarts | `PhoneRegistry` |
| `ChallengeLedger` | abstract: a challenge is issued, accepted at most once, announced at most once | |
| `AuthFlow` | challenges and HandleAuthResponse, step by step | `PhoneRegistry`, implements `ChallengeLedger` |
| `Pairing` | the pairing session, the windows, HandlePairingRequest step by step | `PhoneRegistry` |
| `PipeServer` | the named-pipe server and its clients' ends | |
| `Credential` | one credential tile and its monitor threads | |
| `SessionMonitor` | the monitor's thread, window, messages and view; Windows' side of them | |
| `Transports` | Wi-Fi server, UDP beacon, Bluetooth server, their detached clients | |
| `Service` | ServiceMain and the control handler over monitor and transports | `SessionMonitor`, `Transports` |
| `AppMain` | WinMain of the application over the monitor | `SessionMonitor` |
| `Desktop` | instances of the application over one vault, their windows, the service's coordinator | |
| `ReedSolomon` | the arithmetic of the error correction, and a reader's | |
| `QrCode` | encodeText from payload length to symbol, step by step | `ReedSolomon` |
| `PhoneRegistry_proofs`, `KeyStore_proofs`, `AuthFlow_proofs` (with `ChallengeLedger`), `Pairing_proofs`, `PipeServer_proofs`, `Credential_proofs` | theorems about the module they are named after | TLAPS |
| `Monitor_proofs` | theorems about `AppMain` and `Service`, the two hosts of `SessionMonitor` | TLAPS |
| `Desktop_proofs` | theorems about `Desktop` and `QrCode` | TLAPS |
| `KeyStoreMC`, `AuthFlowMC`, `PairingMC`, `DesktopMC`, `QrCodeMC` | constants with structure and symmetry, for TLC | |

### KeyStore

`reg`, `cred` and `identity` are the members; `file` and `image` are the vault. Every
mutating operation is one action under `m_mutex`, after which its thread `owes` a Save
(`Mutated`). A Save is `SaveOpens` (the file is truncated, the mutex is held by `writer`)
and `SaveWrites`; `SaveFails` is the failed open or `CryptProtectData`. `RepairTrustedPhone`
is the path of AddTrustedPhone that overwrites a known id and returns without saving.
`Start` is Load in its cases: absent or undecryptable (new identity), empty (no identity),
sealed. The vault's line format is modelled by what it gives back: `ReadBack` maps a phone
to the phone its line parses to, any phone at all, and a phone with an empty id is dropped.
So a `|` in a name that changes the key is in the model, and so is one in an id, which Load
cuts there. `misread` keeps the ids that phones got in this way; RevokedNotTrusted and the
one entry per id of RegistryBounded except them, because the code breaks both for them (see
"Observed"). The registry's list keeps its order and may hold an id twice, and every
operation takes the first entry with an id (`RowOf`), as the loops do. A raw line break in a
field, which JSON allows in no string and the extraction of
`src/core/AuthCoordinator.cpp:123` would let pass, is left out. A vault that is not valid
base64 gives no line at all, one that is and does not decrypt gives a new identity;
"garbled" stands for both. `Quit` is the destructor of the singleton, `Crash` the death of
the process. Display names, settings and last-seen times are dropped; `UpdateSettings` is
the mutation and the Save without its data.

### AuthFlow

A handler is a program counter: `Lookup` (GetTrustedPhone's copy), `CheckPhone`,
`CheckKey`, `Accept` or `Refuse` (VerifyAuthResponse under the engine's mutex),
`Notify`. Whether a signature is valid is an open choice at `Refuse`, so
the model covers every content of the message. `OnPcLocked` merges the
read of the phone list with CreateChallenge; nothing between them depends on the
phones. `ForgetChallenge` is OnPcUnlocked and OnPcSleep. Consumed nonces are named
by their challenge; `Retain` drops an arbitrary one when there are more than
`MaxNonces`, as `erase(begin())` of a set ordered by random hex does.

The module models the classes with all callers in one process, the design the
documents describe. In the present build the desktop application and the service
each hold a coordinator and a KeyStore (`Desktop`), and the session callbacks are
connected only in `SessionMonitorMain.cpp`, which logs; so `OnPcLocked` and its kin
are modelled as they would be called.

### Pairing

`pending` is `m_pendingPairing`. A request reads the registry in two unlocked steps and then
enters the mutex: `JoinSession`, `RequestRejected` or `OpenSession`. `DropSession` is
CancelPairing, also done by the coordinator's `Stop` (in the service, which has no window),
after which handlers go on as before. `Confirmed` is the shared end of both confirmations;
`Commit` asks AddTrustedPhone and ignores its verdict, as the code does. The window is the
dialog (prompt after a poll, cancels on close) or the wizard (button always there, leaves
the session alone). Confirm codes are named by the session they were generated for.
`ConfirmFromPhone` is open to any phone that knows the pending session's id
(`KnowsSession`), from a response to its own request or from the dialog's QR code, because
the handler ignores the phone's id. `Pairing` and `AuthFlow` begin with registries that were
read back as they were written; what a misread one does to the registry is KeyStore's
subject.

### PipeServer

`at[i]` is where the handler of instance `i` is; `server` is ServerLoop, `main` the thread
that calls Start and Stop. `at[i] = "writing"` is WriteFile and FlushFileBuffers with
`m_authMutex` held, hence `MutexFree` in every other step that needs it. `Wake` may happen
at any time: the 25-second timeout, a notification or a spurious wake-up followed by the
timeout are the same step, and the reply is read from the shared fields. Passwords are named
by the notification that brought them. The text commands of ProcessCommand answer without
touching the server's state; `UI_TRIGGER_LOCK`, which locks the session, is an action of
`Service`. A peer is a credential provider's monitor: it connects, asks once, reads one
reply, closes, or dies at any time.

### Credential

`ui` is the call LogonUI's thread is in; its calls are serialised, as LogonUI
does. It is assumed to report a submission's result, or to release the tile,
before any other call. A monitor is a program counter through RunAuthMonitor and
NotifyAuthenticationSuccess. The fields have no lock: `CopyToken` and
`TokenCopied` bracket the copy during which the token is `Torn`, two overlapping
copies leave anything, and a monitor of a freed tile (`ui = "gone"`) reads
anything and its writes are lost. `Forget` is the end of the 500 ms or 1000 ms
wait, whether or not the monitor has ended. User name, domain, the field getters
and the packing of the logon buffer are left out.

### SessionMonitor and AppMain

`pump` is where MessageThreadProc is, `queue` the messages posted to its window, `view` the
three fields that other components read. `Happens` is Windows: a lock, unlock, suspend or
resume is posted to a window that hears of it at that moment (`unheard` remembers that the
last lock or unlock met no registered window). `MonitorStart` and `OpenWindow` may fail, and
so may the registration alone, which leaves a window that is `"deaf"`: the thread goes on,
is reached by Stop, and hears of no lock or unlock. `MonitorLower` and `MonitorPostClose`
are the two steps of Stop between which the thread moves. `LockWorkStation` marks the view
on the caller's thread, before or after the session really locks. `AppMain` runs the monitor
in the user's session: WinMain starts it, the Lock button calls LockWorkStation, and both
ways out stop it. The model of Windows is generous: the monitor's window is message-only,
and such a window gets no broadcast of power events, so `PcSuspends` and `PcResumes` may
never be heard in reality; LockIsNoticed holds either way. The parts of `AppMain`'s
specification have the prefix `App` (`AppInit`, `AppPump`, `AppSpec`), because
`Monitor_proofs` extends `AppMain` beside `Service`; those of `QrCode` have the prefix `Qr`,
because `Desktop_proofs` extends it beside `Desktop`.

### Transports and Service

`main` is the step of ServiceMain that comes next, from the registration of the
control handler to the destructors of the two servers. Each start may fail and its
result is ignored. A server's Stop is as many steps as it has waits: lower the flag,
close the socket, join. `client[c]` is a detached thread; `accepted` to `serving`
brackets the test of the flag and the creation of the thread, during which Stop may
run. `objects` are the servers that exist, and `ClientCrashes` is a client that uses
one that does not: anything may follow, so the process may die. `Control` is enabled
while the last report accepts controls. `StopPipe` returns or hangs; which of the two is
PipeServer's subject. A service's monitor registers in session 0, where nobody locks
or unlocks: `MaxEvents = 0` is the fact and no bound, and only `ManualLock` and
`TriggerLock` change its view. `TriggerLock` is the pipe's UI_TRIGGER_LOCK, on a handler thread
that may outlive the pipe's Stop. `ManualLock` is HandleManualLock after its checks, which
the client's request has passed or which make it an ordinary request.

### Desktop

One record per KeyStore (`identity`, `phones`, `revoked`); `vault` is the user's file.
`Start` is the single-instance check with its orphaned mutex, `Load` the constructor, `Exit`
the destructor that saves, `Kill` the death of an instance. `build` chooses the native
windows or the Qt widgets, of which one is linked. A command is an action: `RemoveRow` and
`RevokeRow` read the phone list again and take the row's index, as both builds do; `Without`
erases the first entry with that phone's id, as RemoveTrustedPhone and RevokeTrustedPhone
do. The wizard is a page; `ConfirmCode` ignores the coordinator's answer. The service is
reduced to the pairing session that phones can reach. A Save (`Saves`) writes the whole
image, fails before it truncates the file, or is torn and leaves a vault that is empty or
does not decrypt (`torn` remembers it); its two steps are one here, since `KeyStore` has
them apart. The wizard of the first launch is shown beside the window, which stays usable; a
later wizard and the pairing dialog are modal (`page` keeps both, `Free` asks for the modal
one only), and the two wizards share the coordinator's one session (`session.by`).

### ReedSolomon and QrCode

One action per stage of encodeText and of the constructor: `NextVersion`, `TakeVersion`,
`BoostLevel`, `AppendSegments`, `DrawPattern` one pattern at a time, `DivideByRoot` and
`FeedByte` for the error correction of one sample block, `InterleaveRow` one index of all
blocks at a time, `AddEccAndInterleave` when the rows are drawn, `ScanColumns` one pair of
columns at a time, `TryMask`, `UndoMask`, `FinishSymbol`. Positions and colours of function
patterns are the code's, and `Patterns` has an entry per turn of drawFunctionPatterns'
loops, the three that fall on a finder included, which draw nothing; a codeword is the pair
of its block and its index, so that order and loss are visible; of the payload's bits the
four of the mode are kept (`ModeBits`); penalties are one of four vectors. `FieldProduct`,
`ValueAt`, `FieldPowers` and `StandardLevel` are the reader's side, taken from the standard
and used only by SymbolReadable. `^^` is defined in `ReedSolomon` by a recursive function,
because the community module's is a recursive operator and would keep the prover out of
`QrCode`.

## 3. What the runs check

Every property of a passing run has a mutant in `PROJECT.json`: a plausible bug in one
mapped definition under which the property fails.

| Run | Instance | Shows |
|---|---|---|
| `KeyStore` | 2 threads, 3 ids (an ordinary one, one that is cut to it at its `|`, the empty one), one key that no reload keeps, limit 2, 2 identities, torn and failed saves, kills anywhere | RevokedNotTrusted, RegistryBounded, RevocationsSurvive, QuiescentVaultIsCurrent, PairedWithThisIdentity |
| `AuthFlow` | 2 handlers, 2 phones that share a key, 2 challenges, 1 retained nonce, time 0..1 with window 0 | BlacklistHonoured, NoLostAcceptance, OfferedIsNewest, ImplementsLedger |
| `Pairing` | 2 threads, 2 phones that share a key, 1 place, 2 sessions, time 0..1 with life time 0 | CommitsAreConfirmed, RegistryRespected, DeadSessionsStayDead |
| `PipeServer` | 2 instances, 2 notifications, fair | PasswordGivenOnce, FreshPassword, EveryWaitEnds, HandlersEnd, StopReturnsUnlessMissed |
| `Credential` | 3 monitors, 2 packets, fair | SubmittedOnce, OneLogonPerConfirmation, SelectedTileListens, StopEndsMonitors |
| `QrCode` | 13 lengths around the boundaries, 4 levels, 4 penalty vectors | SmallestStrongestSymbol, ScanMeetsEveryDataModule, DataDrawnInOrder, InformationReadable, PatternsKeepTheirColour |
| `Service` | 1 Wi-Fi client, 1 Bluetooth client, fair | StoppedIsQuiet, NobodyServedAfterStop, StopCompletes |
| `AppMain` | 4 session events | LockIsNoticed, StopReachesTheThread |
| `Desktop` | 2 instances, 2 known phones, 1 asking phone, failed and torn saves | NobodyPairsAlone, VaultKeepsWhatItKnows, ClickTakesTheShownPhone |

Type invariants are checked where a mutant of the code can break one (`TypeOK` of
KeyStore, AuthFlow, Pairing, PipeServer and Credential, `AppTypeOK` of AppMain); those of
`Service` and `Desktop` are proved, and that of `QrCode` documents the variables.

Why the bounds are enough for the questions asked: two handlers, threads or waiters are what
an interleaving between readers and writers of one slot needs; a limit of one (Pairing) or
two phones with one id more than fits (KeyStore) reaches the boundary; a window of 0 on a
clock of 0..1 has both the fresh and the stale case; a replay set of one nonce forgets one
when the second challenge is consumed; three monitors allow two forgotten ones beside the
current one. `Phones` is restricted to phones that share a key, the case in which id and key
blacklists differ. Four session events allow a lock, a suspend, a resume and an unlock in
any order around the registration, and AppMain's proofs cover any number. One client per
transport is enough for a thread that outlives its server, because clients share no state
but the connection flag, which no property reads. Two instances of the application are the
smallest number that overlap, and three starts in a row only repeat them; what follows on an
overlap and a torn Save in one behaviour is cut off (`OneTrouble`) and left to the proofs,
which have no such bound; VaultKeepsWhatItKnows says nothing of such a state anyway. The
lengths of QrCode sit on both sides of each place where a formula or a table changes: 17 and
18, 106, 154, 230 and 231 (from version 9 to 10), 271, 470 (the pairing payload), and 2953
and 2954 (the largest symbol and the exception).

Symmetry is used in the safety runs whose constants are interchangeable,
and in no run with liveness. The `KeyStore` run takes two states for one (`Seen`) when
they differ only in the identity that a phone trusted nowhere any more was once paired with,
which history keeps and nothing reads. Deadlock checking is off because the systems may stop:
counters reach their bounds, a service is stopped, a process exits, a symbol is done.

Three of the passing runs state liveness:

- `PipeServer` assumes weak fairness of every thread's steps, and strong fairness
  of the steps that need the mutex (`SignalWaiters`, `BeginWait`, `Wake`): a mutex
  that is free again and again is eventually granted. `PeerReads` and `PeerCloses`
  are fair because a live monitor thread reads one reply and closes; it may die
  instead. Nothing makes a client connect, a phone confirm or Stop be called.
- `Credential` assumes weak fairness of the monitors and of the bounded wait in
  `Forget`. Every wait on the pipe ends because of what `PipeServer` shows
  (EveryWaitEnds).
- `Service` assumes weak fairness of ServiceMain, of the control handler's second
  step, of the monitor's thread, the accept loops and the beacon's threads, and of Wi-Fi
  clients, whose recv times out after five seconds. A Bluetooth client may be silent
  for ever, and nobody has to connect or to stop the service.

### Where the code does something else than it says

Three runs end in a counterexample. Each checks one statement of a comment, a
text or a document against the model of the code.

| Run | Statement | What happens |
|---|---|---|
| `PairingConsent` | "Atomically commit ONLY when BOTH PC and Phone have confirmed" | another phone takes over a session that a first phone confirmed |
| `QrUnreadable` | "Scan this QR code with AnshuBio Unlock on Android" | the error correction uses a wrong product, codewords of short blocks are misplaced, the format word names another level, the mode is not that of bytes |
| `PairedAsTold` | "Your Android phone is now securely paired with AnshuBio Unlock." | user and phone confirmed to two coordinators; neither registry has the phone |

The four faults behind `QrUnreadable` are separate conjuncts of SymbolReadable
(`BlockIsCodeword`, `EveryCodewordDrawn`, `LevelAnnounced`, `ModeAnnounced`); each fails by itself.

### Observed, without a run

These were met while reading and modelling. The models have the behaviour where
their component is modelled; no run is spent on them.

- A torn Save loses the blacklist, although the list of phones says that a revoked phone
  will never re-pair (`src/ui/TrustedPhonesWidget.cpp:71`): the exception in
  RevocationsSurvive and the assumption of StoreRevocationPermanent.
- An id with a `|` comes back from the vault as the part before it
  (`src/storage/KeyStore.cpp:85` and 145): with "a" revoked, "a|x" is accepted and reloads as
  a trusted "a", and "a|b" and "a|c" reload as two entries "a". These are the `misread` ids that
  RevokedNotTrusted and RegistryBounded except; without the exception the run finds both.
- A failed registration of the session monitor's window goes unnoticed
  (`src/session/SessionMonitor.cpp:81`), and the monitor then hears of no lock: the `unheard` in
  LockIsNoticed.
- On unlock the log says that active challenges are consumed
  (`src/core/AuthCoordinator.cpp:84`); the engine's table keeps them.
- A pairing is reported complete although AddTrustedPhone may have refused the phone
  (`src/core/AuthCoordinator.cpp:287`-290).
- After a failed logon the tile says "Try again", and nothing listens
  (`credential_provider/AnshuBioCredential.cpp:381`-385): the `reported` in
  SelectedTileListens.
- Stop of the pipe hangs when its dummy client meets no listening instance
  (`src/service/NamedPipeServer.cpp:42`-43): the exception in StopReturnsUnlessMissed,
  and `hung` in `Service`.
- The session callbacks are never connected to the coordinator
  (`src/session/SessionMonitor.cpp:206`), so no lock prepares a challenge as
  `src/core/AuthCoordinator.cpp:64` logs; the service hears of no lock in session 0.
- HandleManualLock answers success whatever LockWorkStation returned.
- A challenge that expires while the session stays locked is not replaced, and a pairing
  session that expired in a process without windows refuses every later request
  (`src/core/AuthCoordinator.cpp:234`).
- `firstLaunchComplete` is set by the wizard and never stored in the vault, so the Qt
  build opens the wizard at each start without phones.
- The vault of the service is that of LocalSystem's profile
  (`src/storage/KeyStore.cpp:26`-31), another file than the user's.
- A second instance proceeds when the mutex exists and no window of the native class
  does (`src/app/AppMain.cpp:104`), always so in the Qt build: the `overlapped` in
  VaultKeepsWhatItKnows, beside its `torn`.
- A double click on Remove in row 1 acts on the second phone once the first is gone; each
  click takes the phone its row shows at that moment.
- The table of blocks has 72, 74, 77 for HIGH in versions 38 to 40, where the standard has
  74, 77, 81; a pairing payload never needs these versions.

## 4. What is proved

The proofs hold for every value of the constants that satisfies the modules'
`ASSUME`s.

**KeyStore** (`KeyStore_proofs`, with the lemmas of `PhoneRegistry_proofs`). The
inductive invariant is `StoreInv`. RevokedNotTrusted is not inductive alone: a
restart loads the vault, so the same must be known of `image`; hence `GoodRegistries` on
both, of all ids but those in `misread`. That Load keeps it is where the exception is
needed: two kept lines with one id that is not misread were saved under that id, so they are
one line of a registry that was good. PairedWithThisIdentity
needs that the vault and memory have one identity while the file is sealed
(`OneIdentity`). RevocationsSurvive needs to say where a committed revocation is
at each moment while no Save was torn: in memory while the process runs, and in the
file except between truncation and write (`Committed`). StoreRevocationPermanent
drops the exception under the assumption `~FaultySaves`. `PhoneRegistry_proofs` shows once that
each pure operation keeps `GoodRegistry`.

**AuthFlow** (`AuthFlow_proofs`). `FlowInv` has three parts beside the types.
`Checked` keeps what a handler saw in the blacklists when its message arrived:
blacklists only grow, so what it saw is still in them when it checks. `Table` says
that what is outstanding was issued and never accepted. `Notifiers` pairs each
acceptance that has not been announced with exactly one handler. From them follow
BlacklistHonoured, NoLostAcceptance (with a cardinality argument), OfferedIsNewest
and that each step of the flow is a step of `ChallengeLedger` or a stutter.
LedgerSingleUse proves the single use of a challenge on the ledger, without any
reference to the replay set: forgetting nonces does not matter, because an accepted
challenge leaves the table. FlowSingleUse is what the refinement is for: the flow itself
accepts no challenge twice and none that was not issued.

**Credential** (`Credential_proofs`). `CredInv`: each password belongs to one
packet of one monitor (`OwnPackets`); once it is in the token or submitted, its
monitor has nothing left to copy (`CopiedOnce`); a submitted password stays in the
token only until its result is reported (`TokenUsedOnce`); and the flag, a submission
and the monitors about to set the flag never add up to more than the packets
received (`FlagCounts`, by cardinality). It gives SubmittedOnce and
OneLogonPerConfirmation for any number of forgotten monitors. SelectedTileListens has an
invariant of its own, `ListenInv`, which follows the current monitor through its life.

**Pairing** (`Pairing_proofs`). `PairInv` ties the session's two flags to the
confirmations of that very session (`PendingConsent`), and keeps the pending session
apart from all dead ones (`PendingIsAlive`). CommitsAreConfirmed needs one fact the code
never states: once a phone has asked, the session's pendingPhone is always one that
asked, although a later request may replace it. RegistryRespected rests on
AddTrustedPhone alone; the early checks of the request play no part in it.
DeadSessionsStayDead is an action property: a step that commits commits the pending
session, which is not dead.

**PipeServer** (`PipeServer_proofs`). `PipeInv`: nothing anywhere carries a notification
not yet made (`NothingAhead`), and a ready result that Stop did not raise is newer than
every wait in progress (`ResultIsFresh`). It gives PasswordGivenOnce and FreshPassword.

**AppMain** (`Monitor_proofs`). `AppInv`: LockIsNoticed speaks of an empty queue and is not
inductive; `LockUnderWay` says of every state that an announced lock is the view's or
a queued message's with no unlock after it. StopReachesTheThread needs that a
thread in its loop has its window, and that the flag stays lowered once Stop looks
for the window (`StopInOrder`): then whichever of the two is second sees the other's
write. The lemmas `Viewed`, `PostKeeps`, `PostKeepsLock`, `LockPosted` and
`DispatchKeepsLock` say what one message does to the view and the queue.

**Service** (`Monitor_proofs`). `ServiceInv`: StoppedIsQuiet speaks of the end, and what it
says there was decided many steps before. So for each of the status, the server objects,
the Wi-Fi loop, the beacon and the Bluetooth loop one conjunct ties it to the step that
ServiceMain is at: in which steps a loop may be alive, what a Stop that found the flag
already lowered has left behind, and that a Bluetooth thread nobody joined is one that had
given up and closed its socket (`BtGaveUp`), the case that ends in std::terminate.
NobodyServedAfterStop is an action property: only a loop that is alive starts a client's
thread (`OnlyLoopsServe`), and no loop is alive once its Stop has returned. Both hold for
any number of controls and of clients.

**Desktop** (`Desktop_proofs`). `DesktopInv`: VaultKeepsWhatItKnows is about one step, and
holds because of what an instance read when it was loaded. `Alone` says that without an
overlap at most one instance lives, and that as long as no Save was torn it knows every
revocation that reached the vault and the vault's identity; whatever it saves later then
loses neither. Torn Saves and overlaps are excepted because the code loses both in them.
ClickTakesTheShownPhone needs that rows are filled again whenever the list changes
(`RowsCurrent`): then row i is the list's row i, and if no two rows have one id, the first
entry with its id is row i itself (`FirstRow`), so that exactly this row goes and exactly
its id is blacklisted. NobodyPairsAlone needs that the service's session never has the
user's confirmation, and that every list of an application is what the vault once held, with
entries erased (`NobodyAdded`). The proofs cover any number of instances, which TLC's two do
not.

**QrCode** (`Desktop_proofs`). `QrInv` has an invariant per loop; they are defined in the
module of their proofs, and TLC found them true on the constants of the `QrCode` run before
they were proved. (The proof still showed one to be true and too weak: the modules met cannot
be counted in the trials without knowing their number between a mask and its removal.)

- `ChoiceInv` carries along that no smaller version fits; at the end the terminator and the
  padding fill the capacity because every message is four bits more than whole bytes.
- `RowsInv` sees the codewords as the places of a table with a column per block and a row
  per index: the k-th codeword drawn has the k-th place, and after the row in which short
  blocks are stepped over the one as many places further on. From this arithmetic
  QrDataDrawnInOrder follows, since a later place is in a later row or further right. It says that
  no codeword is drawn twice and that all data is, in order; not that all check codewords are
  drawn, which the code does not do in symbols with short blocks. That
  there is room for data at all (`RoomForData`) is what `ChoiceInv` says of the level.
- `DrawInv` says that the first patterns of the list are drawn and have their colours. A
  step keeps it because of how patterns overlap (`Overlap`): not at all, or a finder over a
  timing line, or an alignment pattern on a timing line, where both agree
  (`TimingAlignment`) since its centre is even. That nothing else meets is geometry for all
  forty versions at once: `Spacing` bounds the step of getAlignmentPatternPositions by the
  six values of v div 7, version 32 apart, and everything after it is linear in the version.
  QrPatternsKeepTheirColour is the action property; QrWordsDrawn reads the words off the
  finished symbol.
- `ScanInv` gives the right column of each pair in closed form, and `CountInv` says that the
  modules met so far are the data modules of the columns behind the scan.
- QrScanMeetsEveryDataModule needs the number of function modules in every version.
  `PatternsCover` says by coordinates which modules they are, `PatternBoxes` cuts them into
  boxes that do not overlap (corners with finder and format word; timing line, version word
  and alignment patterns of the left and of the upper edge; the inner alignment patterns),
  and `FunctionModulesCount` adds the boxes up: 225 + 8v + 36 [v >= 7] + 25 (n - 1)^2 + 40
  (n - 2) for n > 1 alignment positions, which is what getNumRawDataModules takes off the
  square. That all codewords are written follows from their number, which `RowsInv` bounds
  by the capacity.
- `MaskInv` is the best mask among those tried.

QrSmallestStrongestSymbol, QrDataDrawnInOrder, QrPatternsKeepTheirColour and
QrScanMeetsEveryDataModule are properties of the run, now for payloads of any length and so
for all versions and levels, of which the run's 13 lengths reach some; QrEveryColumnOnce is
a conjunct of the last one, and QrFirstSmallestMask and QrWordsDrawn are conjuncts of
InformationReadable.

Only model-checked, and why:

- liveness (EveryWaitEnds, HandlersEnd, StopReturnsUnlessMissed, StopEndsMonitors,
  StopCompletes), which with ENABLED is out of the prover's reach;
- what InformationReadable says beyond those two conjuncts: that the words which are drawn
  name the mask and differ from each other in seven and eight bits. Format and version words
  are folds over lists and sums over sets, which the provers cannot compute; they depend on
  level, mask and version only, and TLC evaluates them in every symbol of the run.

Fairness, the bounds on counters and, for StoreRevocationPermanent, `~FaultySaves` are the
assumptions to keep in mind. The bounds of the models (`Limit` of Desktop, the numbers of
instances, handlers, packets, events) appear in the proofs as parameters or as the
code's own limits; no proof uses that one is small.

## 5. What is not modelled

- Cryptography: hashes, signatures, random numbers and DPAPI. A signature is taken or
  not, a challenge id is fresh, DPAPI may fail.
- Parsing of JSON and HTTP, texts of beacons and answers, radio enumeration and the SDP
  record; text, painting and layout. These change no state modelled here. The penalty
  rules of the QR code's masks only rank symbols, so any ranking is taken.
- The credential provider's COM class and DLL entry points: reference counts and
  registry values; its one tile is modelled. `AnshuBioSessionMonitor.exe` of the same
  directory prints events and keeps no state.
- Installing, removing, starting and querying the service: calls of the service
  control manager that keep no state in the process.
- The security log: nothing reads it back, and no listener of the repository logs.
- Installer, build scripts and tests.

## 6. Plan

Done: the registry and vault, the authentication flow and its ledger, pairing, the
pipe server, the credential tile, the session monitor, the transports, the
service, the desktop application, the QR code, and proofs about all of them. Every
safety property that a run checks is proved, except InformationReadable of the QR code,
of which two conjuncts are.

Next, in this order:

1. `UnlockPath`: AuthFlow's notification, PipeServer and Credential composed, with an
   abstract specification (one confirmation, at most one unlock) that the composition
   implements; its theorem would rest on FlowSingleUse, PipePasswordGivenOnce and
   CredentialOneLogonPerConfirmation.
2. `ProviderLifecycle`: Advise, UnAdvise and reference counts.
