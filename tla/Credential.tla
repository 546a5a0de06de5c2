----------------------------- MODULE Credential -----------------------------
(***************************************************************************)
(* credential_provider/AnshuBioCredential.cpp: one credential tile.        *)
(* LogonUI's thread calls SetSelected, SetDeselected, GetSerialization,    *)
(* ReportResult and the last Release; the monitor threads SetSelected      *)
(* starts wait on the named pipe and store what they receive in the same   *)
(* fields, under no lock.  SetDeselected and the destructor wait a while   *)
(* for a monitor to end and then forget it: a forgotten monitor goes on,   *)
(* and a new selection clears the flag that was to stop it.                *)
(***************************************************************************)
EXTENDS Naturals, FiniteSets

CONSTANTS
  MaxMonitors,   \* bound on the monitor threads created
  MaxPackets     \* bound on the packets of status 1 received

ASSUME CredentialAssumption == MaxMonitors \in Nat /\ MaxPackets \in Nat

Monitors == 1..MaxMonitors
NoMonitor == 0

\* A password is named after the packet that brought it.  A field is torn while
\* it is copied, or when two threads wrote it at once.
Passwords == 1..MaxPackets
Empty == 0
Torn == MaxPackets + 1

VARIABLES
  ui,            \* the call LogonUI's thread is in; "gone" when the tile is freed
  handle,        \* m_hAuthThread
  stop,          \* m_bStopAuthThread
  auth,          \* m_bIsAuthenticated
  token,         \* m_szAuthToken
  status,        \* m_szStatusText
  pc,            \* where each monitor is
  packet,        \* the password each monitor has received
  received,      \* history: packets of status 1 received
  submitted,     \* history: how often each password was handed to LogonUI
  submissions,   \* history: logons handed to LogonUI
  reported       \* history: has ReportResult been called?

vars == <<ui, handle, stop, auth, token, status, pc, packet,
          received, submitted, submissions, reported>>

tile == <<handle, stop, auth, token, status>>
monitor == <<pc, packet, received>>
logons == <<submitted, submissions, reported>>

Ended == {"unborn", "exited"}

Init ==
  /\ ui = "idle" /\ handle = NoMonitor /\ stop = FALSE
  /\ auth = FALSE /\ token = Empty /\ status = "waiting"
  /\ pc = [m \in Monitors |-> "unborn"]
  /\ packet = [m \in Monitors |-> Empty]
  /\ received = 0
  /\ submitted = [n \in Passwords |-> 0] /\ submissions = 0 /\ reported = FALSE
-----------------------------------------------------------------------------
(* LogonUI's calls, one after the other *)

\* Mutant: a thread that could not be created leaves an invalid handle
KeepInvalidHandle ==
  /\ ui = "idle"
  /\ handle = NoMonitor
  /\ stop' = FALSE
  /\ handle' = MaxMonitors + 1
  /\ UNCHANGED <<ui, auth, token, status, monitor, logons>>

\* A second selection does nothing.  CreateThread may fail, the flag is cleared
\* all the same.
SetSelected ==
  /\ ui = "idle"
  /\ handle = NoMonitor
  /\ stop' = FALSE
  /\ \/ \E m \in Monitors :
          /\ pc[m] = "unborn"
          /\ \A k \in 1..(m - 1) : pc[k] # "unborn"
          /\ handle' = m
          /\ pc' = [pc EXCEPT ![m] = "loop"]
     \/ UNCHANGED <<handle, pc>>
  /\ UNCHANGED <<ui, auth, token, status, packet, received, logons>>

\* SetDeselected and the destructor begin alike ...
AskToStop(call) ==
  /\ ui' = call
  /\ stop' = (stop \/ handle # NoMonitor)
  /\ UNCHANGED <<handle, auth, token, status, monitor, logons>>

SetDeselected ==
  /\ ui = "idle" /\ handle # NoMonitor
  /\ AskToStop("deselecting")

Release ==
  /\ ui \in {"idle", "submitted"}
  /\ AskToStop("releasing")

\* ... and end alike: the wait for the monitor is over, because it has ended or
\* because the time (500 and 1000 ms) is up
Forget ==
  /\ ui \in {"deselecting", "releasing"}
  /\ ui' = IF ui = "deselecting" THEN "idle" ELSE "gone"
  /\ handle' = NoMonitor
  /\ UNCHANGED <<stop, auth, token, status, monitor, logons>>

\* GetSerialization finds the flag set ...
GetSerialization ==
  /\ ui = "idle"
  /\ auth
  /\ ui' = "serializing"
  /\ UNCHANGED <<tile, monitor, logons>>

\* ... and CreateSerializedLogon asks LSA for a package, then copies the token;
\* when LSA refuses there is no logon
CreateSerializedLogon ==
  /\ ui = "serializing"
  /\ \/ /\ ui' = "submitted"
        /\ submissions' = submissions + 1
        /\ submitted' = [n \in Passwords |->
                           submitted[n] + (IF token = n THEN 1 ELSE 0)]
     \/ ui' = "idle" /\ UNCHANGED <<submissions, submitted>>
  /\ UNCHANGED <<tile, monitor, reported>>

\* Mutant: the flag stays set when the logon failed
KeepFlag(text) ==
  /\ ui = "submitted"
  /\ ui' = "reporting"
  /\ status' = text
  /\ auth' = (text = "failed")
  /\ reported' = TRUE
  /\ UNCHANGED <<handle, stop, token, monitor, submitted, submissions>>

\* ReportResult updates the text and clears the flag ...
ReportResult(text) ==
  /\ ui = "submitted"
  /\ ui' = "reporting"
  /\ status' = text
  /\ auth' = FALSE
  /\ reported' = TRUE
  /\ UNCHANGED <<handle, stop, token, monitor, submitted, submissions>>

\* Mutant: ... and leaves the token
KeepToken ==
  /\ ui = "reporting"
  /\ ui' = "idle"
  /\ UNCHANGED <<tile, monitor, logons>>

\* ... and scrubs the token
ScrubToken ==
  /\ ui = "reporting"
  /\ ui' = "idle"
  /\ token' = Empty
  /\ UNCHANGED <<handle, stop, auth, status, monitor, logons>>
-----------------------------------------------------------------------------
(* A monitor: RunAuthMonitor and NotifyAuthenticationSuccess.  Once the tile is
   freed its fields hold anything, and what is written to them is lost. *)

MoveTo(m, label) == pc' = [pc EXCEPT ![m] = label]

TestStop(m) ==
  /\ pc[m] = "loop"
  /\ \/ (ui = "gone" \/ ~stop) /\ MoveTo(m, "open")
     \/ (ui = "gone" \/ stop) /\ MoveTo(m, "exited")
  /\ UNCHANGED <<ui, tile, packet, received, logons>>

\* CreateFile and WriteFile, or one of them fails
OpenPipe(m) ==
  /\ pc[m] = "open"
  /\ MoveTo(m, "loop") \/ MoveTo(m, "waiting")
  /\ UNCHANGED <<ui, tile, packet, received, logons>>

\* Mutants: a reply that brings nothing ends the monitor; or has it ask again
\* without looking at the flag
GiveUp(m) ==
  /\ pc[m] = "waiting"
  /\ MoveTo(m, "exited")
  /\ UNCHANGED <<ui, tile, packet, received, logons>>
AskAgain(m) ==
  /\ pc[m] = "waiting"
  /\ MoveTo(m, "open")
  /\ UNCHANGED <<ui, tile, packet, received, logons>>

\* ReadFile fails, or the 25 seconds passed without an authentication
NoAuthentication(m) ==
  /\ pc[m] = "waiting"
  /\ MoveTo(m, "loop")
  /\ UNCHANGED <<ui, tile, packet, received, logons>>

\* A packet of status 1, whose password may be empty
Authentication(m) ==
  /\ pc[m] = "waiting"
  /\ received < MaxPackets
  /\ received' = received + 1
  /\ \E password \in {received + 1, Empty} : packet' = [packet EXCEPT ![m] = password]
  /\ MoveTo(m, "notify")
  /\ UNCHANGED <<ui, tile, logons>>

\* Writes to the tile, which are lost when it is freed
Written(field, value) == IF ui = "gone" THEN field ELSE value

\* NotifyAuthenticationSuccess sets the flag before the fields are there; an
\* empty password leaves the token as it is
SetAuthenticated(m) ==
  /\ pc[m] = "notify"
  /\ auth' = Written(auth, TRUE)
  /\ MoveTo(m, IF packet[m] = Empty THEN "tell" ELSE "copy")
  /\ UNCHANGED <<ui, handle, stop, token, status, packet, received, logons>>

CopyToken(m) ==
  /\ pc[m] = "copy"
  /\ token' = Written(token, Torn)
  /\ MoveTo(m, "copying")
  /\ UNCHANGED <<ui, handle, stop, auth, status, packet, received, logons>>

TokenCopied(m) ==
  /\ pc[m] = "copying"
  /\ LET alone == token = Torn /\ \A k \in Monitors \ {m} : pc[k] # "copying"
     IN  \E value \in IF alone THEN {packet[m]} ELSE {packet[m], Empty, Torn} :
           token' = Written(token, value)
  /\ MoveTo(m, "tell")
  /\ UNCHANGED <<ui, handle, stop, auth, status, packet, received, logons>>

\* UpdateStatusText; then the packet is scrubbed and the monitor ends.  Nothing
\* tells LogonUI to ask for the serialization.
TellStatus(m) ==
  /\ pc[m] = "tell"
  /\ status' = Written(status, "verified")
  /\ packet' = [packet EXCEPT ![m] = Empty]
  /\ MoveTo(m, "exited")
  /\ UNCHANGED <<ui, handle, stop, auth, token, received, logons>>

RunAuthMonitor(m) ==
  \/ TestStop(m) \/ OpenPipe(m) \/ NoAuthentication(m) \/ Authentication(m)
  \/ SetAuthenticated(m) \/ CopyToken(m) \/ TokenCopied(m) \/ TellStatus(m)
-----------------------------------------------------------------------------
Next ==
  \/ SetSelected \/ SetDeselected \/ Release \/ Forget
  \/ GetSerialization \/ CreateSerializedLogon
  \/ \E text \in {"unlocked", "failed"} : ReportResult(text)
  \/ ScrubToken
  \/ \E m \in Monitors : RunAuthMonitor(m)

Spec == Init /\ [][Next]_vars

\* Threads run, waits with a timeout end, and every wait on the pipe ends.  The
\* user has to do nothing, and no phone has to authenticate.
FairSpec ==
  /\ Spec
  /\ WF_vars(Forget)
  /\ \A m \in Monitors : WF_vars(RunAuthMonitor(m))
-----------------------------------------------------------------------------
(* Properties *)

TypeOK ==
  /\ ui \in {"idle", "deselecting", "releasing", "gone", "serializing",
             "submitted", "reporting"}
  /\ handle \in Monitors \cup {NoMonitor}
  /\ stop \in BOOLEAN /\ auth \in BOOLEAN
  /\ token \in 0..(MaxPackets + 1)
  /\ status \in {"waiting", "verified", "unlocked", "failed"}
  /\ pc \in [Monitors -> Ended \cup {"loop", "open", "waiting", "notify", "copy",
                                     "copying", "tell"}]
  /\ packet \in [Monitors -> 0..MaxPackets]
  /\ received \in 0..MaxPackets
  /\ submitted \in [Passwords -> Nat]
  /\ submissions \in Nat
  /\ reported \in BOOLEAN

\* A password is submitted to Windows at most once: when its logon has been
\* reported it is not in the tile any more, although another monitor may set the
\* flag again with a packet that has no password.
SubmittedOnce == \A n \in Passwords : submitted[n] <= 1

\* One confirmation on the phone makes one logon at most, however the monitors of
\* several selections and ReportResult interleave on the flag.
OneLogonPerConfirmation == submissions <= received

\* Until the first result is reported a selected tile listens: its monitor asks
\* again after every wait that brought nothing, and ends only when it (or one
\* forgotten earlier) has authenticated.
SelectedTileListens ==
  (ui = "idle" /\ handle # NoMonitor /\ ~reported)
    => auth \/ pc[handle] \notin Ended

\* Forgotten monitors do not live for ever: unless the tile is selected again, or
\* freed, all monitors end.
StopEndsMonitors ==
  stop ~> (\A m \in Monitors : pc[m] \in Ended) \/ ~stop \/ ui = "gone"
-----------------------------------------------------------------------------
(* The inductive invariant behind SubmittedOnce and OneLogonPerConfirmation *)

\* Each password comes with one packet, to one monitor.
OwnPackets ==
  /\ \A m \in Monitors : packet[m] <= received
  /\ \A k, m \in Monitors : packet[k] = packet[m] /\ packet[m] # Empty => k = m
  /\ \A n \in Passwords : n > received => submitted[n] = 0 /\ token # n

\* A password that reached the token, or Windows, is not written again ...
CopiedOnce ==
  \A n \in Passwords, m \in Monitors :
    packet[m] = n /\ (token = n \/ submitted[n] # 0) => pc[m] = "tell"

\* ... and what was submitted leaves the token before the next submission.
TokenUsedOnce ==
  \A n \in Passwords :
    /\ submitted[n] <= 1
    /\ token = n /\ submitted[n] # 0
         => ui \in {"submitted", "reporting", "releasing", "gone"}

\* The flag is worth one more logon, except while one is with LogonUI; a packet
\* not yet turned into the flag is worth one as well.
Notifying == {m \in Monitors : pc[m] = "notify"}

Credit == IF auth /\ ui \in {"idle", "deselecting", "serializing", "reporting"}
          THEN 1 ELSE 0

FlagCounts ==
  /\ submissions + Credit + Cardinality(Notifying) <= received
  /\ ui \in {"serializing", "submitted"} => auth

CredInv == TypeOK /\ OwnPackets /\ CopiedOnce /\ TokenUsedOnce /\ FlagCounts
-----------------------------------------------------------------------------
(* The inductive invariant behind SelectedTileListens *)

\* The flag is set before anything else is done with a packet, and stays set until a
\* result is reported; while LogonUI has the tile selected, nobody has asked its
\* monitor to stop, and that monitor has authenticated when it has ended.
ListenInv ==
  ~reported /\ ui # "gone" =>
    /\ ui # "reporting"
    /\ \A m \in Monitors : pc[m] \in {"copy", "copying", "tell"} => auth
    /\ ui \in {"idle", "serializing", "submitted"} /\ handle # NoMonitor =>
         ~stop /\ pc[handle] # "unborn" /\ (pc[handle] = "exited" => auth)
=============================================================================
