-------------------------- MODULE Credential_proofs --------------------------
(***************************************************************************)
(* Theorems about Credential, for any number of monitors and packets: its  *)
(* type invariant, that a password is submitted once, that a logon needs a *)
(* confirmation of its own, and that a selected tile listens.              *)
(***************************************************************************)
EXTENDS Credential, FiniteSetTheorems, TLAPS

\* LogonUI's calls that touch nothing but ui, the handle and the two flags.
Call ==
  \/ SetSelected \/ SetDeselected \/ Release \/ Forget \/ GetSerialization
  \/ \E text \in {"unlocked", "failed"} : ReportResult(text)

\* The steps of a monitor that touch nothing but its pc.
Listen(m) == TestStop(m) \/ OpenPipe(m) \/ NoAuthentication(m)

\* Next, by what the steps touch.
LEMMA CredNext ==
  ASSUME Next
  PROVE  \/ Call \/ CreateSerializedLogon \/ ScrubToken
         \/ \E m \in Monitors : \/ Listen(m) \/ Authentication(m)
                                \/ SetAuthenticated(m) \/ CopyToken(m)
                                \/ TokenCopied(m) \/ TellStatus(m)
BY Zenon DEF Next, RunAuthMonitor, Call, Listen

\* What a step leaves alone.
LEMMA CredFrame ==
  /\ Call => UNCHANGED <<token, packet, received, submitted, submissions>>
  /\ CreateSerializedLogon => UNCHANGED <<handle, stop, auth, token, status, pc,
                                          packet, received, reported>>
  /\ ScrubToken => UNCHANGED <<handle, stop, auth, status, pc, packet, received,
                               submitted, submissions, reported>>
  /\ \A m \in Monitors :
       /\ Listen(m) => UNCHANGED <<ui, handle, stop, auth, token, status, packet,
                                   received, submitted, submissions, reported>>
       /\ SetAuthenticated(m) \/ CopyToken(m) \/ TokenCopied(m) \/ TellStatus(m)
            => UNCHANGED <<ui, handle, stop, received, submitted, submissions, reported>>
BY DEF Call, Listen, SetSelected, SetDeselected, Release, AskToStop, Forget,
       GetSerialization, ReportResult, CreateSerializedLogon, ScrubToken, TestStop,
       OpenPipe, NoAuthentication, SetAuthenticated, CopyToken, TokenCopied,
       TellStatus, tile, monitor, logons
-----------------------------------------------------------------------------
(* The type invariant *)

\* The initial values have their types.
LEMMA CredInitType == Init => TypeOK
<1>. SUFFICES ASSUME Init
              PROVE  TypeOK
  OBVIOUS
<1>1. 0 \in 0..MaxPackets /\ 0 \in 0..(MaxPackets + 1)
  BY CredentialAssumption
<1>. QED  BY <1>1 DEF Init, TypeOK, Empty, NoMonitor, Ended

\* Every call and every step of a monitor keeps the types.
LEMMA CredStepType == TypeOK /\ [Next]_vars => TypeOK'
<1>. SUFFICES ASSUME TypeOK, [Next]_vars
              PROVE  TypeOK'
  OBVIOUS
<1>. USE CredentialAssumption DEF TypeOK
<1>1. CASE Call
  BY <1>1 DEF Call, SetSelected, SetDeselected, Release, AskToStop, Forget,
              GetSerialization, ReportResult, tile, monitor, logons, NoMonitor
<1>2. CASE CreateSerializedLogon
  BY <1>2 DEF CreateSerializedLogon, tile, monitor
<1>3. CASE ScrubToken
  BY <1>3 DEF ScrubToken, monitor, logons, Empty
<1>4. ASSUME NEW m \in Monitors, Listen(m)
      PROVE  TypeOK'
  BY <1>4 DEF Listen, TestStop, OpenPipe, NoAuthentication, MoveTo, tile, logons, Ended
<1>5. ASSUME NEW m \in Monitors, Authentication(m)
      PROVE  TypeOK'
  BY <1>5 DEF Authentication, MoveTo, tile, logons, Empty
<1>6. ASSUME NEW m \in Monitors, SetAuthenticated(m)
      PROVE  TypeOK'
  BY <1>6 DEF SetAuthenticated, MoveTo, Written, logons
<1>7. ASSUME NEW m \in Monitors, CopyToken(m)
      PROVE  TypeOK'
  BY <1>7 DEF CopyToken, MoveTo, Written, logons, Torn
<1>8. ASSUME NEW m \in Monitors, TokenCopied(m)
      PROVE  TypeOK'
  <2>1. token' \in {token, packet[m], Empty, Torn}
    BY <1>8 DEF TokenCopied, Written
  <2>2. token' \in 0..(MaxPackets + 1)
    BY <2>1 DEF Empty, Torn
  <2>. QED  BY <1>8, <2>2 DEF TokenCopied, MoveTo, logons
<1>9. ASSUME NEW m \in Monitors, TellStatus(m)
      PROVE  TypeOK'
  BY <1>9 DEF TellStatus, MoveTo, Written, logons, Ended, Empty
<1>10. CASE UNCHANGED vars
  BY <1>10 DEF vars
<1>. QED
  BY CredNext, <1>1, <1>2, <1>3, <1>4, <1>5, <1>6, <1>7, <1>8, <1>9, <1>10
-----------------------------------------------------------------------------
(* Each password is copied once and used once *)

\* A packet gets a number of its own, and passwords are what packets brought.
LEMMA OwnPacketsStep == CredInv /\ [Next]_vars => OwnPackets'
<1>. SUFFICES ASSUME CredInv, [Next]_vars
              PROVE  OwnPackets'
  OBVIOUS
<1>. USE CredentialAssumption DEF CredInv, TypeOK, OwnPackets
<1>1. CASE Call
  BY <1>1, CredFrame
<1>2. CASE CreateSerializedLogon
  <2>1. \A n \in Passwords : n > received => submitted'[n] = 0
    BY <1>2 DEF CreateSerializedLogon
  <2>. QED  BY <1>2, <2>1, CredFrame
<1>3. CASE ScrubToken
  BY <1>3, CredFrame DEF ScrubToken, Empty, Passwords
<1>4. ASSUME NEW m \in Monitors, Listen(m)
      PROVE  OwnPackets'
  BY <1>4, CredFrame
<1>5. ASSUME NEW m \in Monitors, Authentication(m)
      PROVE  OwnPackets'
  <2>1. /\ received' = received + 1
        /\ packet' = [packet EXCEPT ![m] = received + 1]
             \/ packet' = [packet EXCEPT ![m] = Empty]
        /\ UNCHANGED <<token, submitted>>
    BY <1>5 DEF Authentication, tile, logons
  <2>2. \A k \in Monitors : packet'[k] <= received'
    BY <2>1 DEF Empty
  <2>3. \A k, l \in Monitors :
          packet'[k] = packet'[l] /\ packet'[k] # Empty => k = l
    BY <2>1 DEF Empty
  <2>4. \A n \in Passwords : n > received' => submitted'[n] = 0 /\ token' # n
    BY <2>1 DEF Passwords
  <2>. QED  BY <2>2, <2>3, <2>4
<1>6. ASSUME NEW m \in Monitors, SetAuthenticated(m)
      PROVE  OwnPackets'
  BY <1>6, CredFrame DEF SetAuthenticated
<1>7. ASSUME NEW m \in Monitors, CopyToken(m)
      PROVE  OwnPackets'
  <2>1. token' \in {token, Torn} /\ packet' = packet
    BY <1>7 DEF CopyToken, Written
  <2>. QED  BY <1>7, <2>1, CredFrame DEF Torn, Passwords
<1>8. ASSUME NEW m \in Monitors, TokenCopied(m)
      PROVE  OwnPackets'
  <2>1. token' \in {token, packet[m], Empty, Torn} /\ packet' = packet
    BY <1>8 DEF TokenCopied, Written
  <2>. QED  BY <1>8, <2>1, CredFrame DEF Empty, Torn, Passwords
<1>9. ASSUME NEW m \in Monitors, TellStatus(m)
      PROVE  OwnPackets'
  <2>1. /\ UNCHANGED <<token, submitted, received>>
        /\ packet' = [packet EXCEPT ![m] = 0]
    BY <1>9, CredFrame DEF TellStatus, Empty
  <2>2. \A k \in Monitors : packet'[k] <= received'
    BY <2>1
  <2>3. \A k, l \in Monitors :
          packet'[k] = packet'[l] /\ packet'[k] # Empty => k = l
    BY <2>1 DEF Empty
  <2>. QED  BY <2>1, <2>2, <2>3
<1>10. CASE UNCHANGED vars
  BY <1>10 DEF vars
<1>. QED
  BY CredNext, <1>1, <1>2, <1>3, <1>4, <1>5, <1>6, <1>7, <1>8, <1>9, <1>10

\* Only the monitor that received a password copies it, and then moves on.
LEMMA CopiedOnceStep == CredInv /\ [Next]_vars => CopiedOnce'
<1>. SUFFICES ASSUME CredInv, [Next]_vars,
                     NEW n \in Passwords, NEW k \in Monitors,
                     packet'[k] = n, token' = n \/ submitted'[n] # 0
              PROVE  pc'[k] = "tell"
  BY DEF CopiedOnce
<1>. USE CredentialAssumption DEF CredInv, TypeOK, CopiedOnce
<1>0. n # Empty /\ n # Torn /\ n \in Nat
  BY DEF Passwords, Empty, Torn
<1>1. CASE Call
  <2>1. pc[k] = "tell"
    BY <1>1, CredFrame
  <2>2. pc'[k] = pc[k]
    BY <1>1, <2>1 DEF Call, SetSelected, SetDeselected, Release, AskToStop, Forget,
                      GetSerialization, ReportResult, monitor
  <2>. QED  BY <2>1, <2>2
<1>2. CASE CreateSerializedLogon
  <2>1. token = n \/ submitted[n] # 0
    BY <1>2 DEF CreateSerializedLogon, tile
  <2>. QED  BY <1>2, <2>1, CredFrame
<1>3. CASE ScrubToken
  BY <1>0, <1>3, CredFrame DEF ScrubToken
<1>4. ASSUME NEW m \in Monitors, Listen(m)
      PROVE  pc'[k] = "tell"
  <2>1. pc[k] = "tell"
    BY <1>4, CredFrame
  <2>2. k # m
    BY <1>4, <2>1 DEF Listen, TestStop, OpenPipe, NoAuthentication
  <2>. QED
    BY <1>4, <2>1, <2>2 DEF Listen, TestStop, OpenPipe, NoAuthentication, MoveTo
<1>5. ASSUME NEW m \in Monitors, Authentication(m)
      PROVE  pc'[k] = "tell"
  <2>1. UNCHANGED <<token, submitted>> /\ pc' = [pc EXCEPT ![m] = "notify"]
    BY <1>5 DEF Authentication, tile, logons, MoveTo
  <2>2. n <= received
    BY <1>0, <2>1 DEF OwnPackets
  <2>3. k # m
    BY <1>0, <1>5, <2>2 DEF Authentication
  <2>4. packet'[k] = packet[k]
    BY <1>5, <2>3 DEF Authentication
  <2>. QED  BY <2>1, <2>3, <2>4
<1>6. ASSUME NEW m \in Monitors, SetAuthenticated(m)
      PROVE  pc'[k] = "tell"
  <2>1. UNCHANGED <<token, submitted, packet>>
    BY <1>6 DEF SetAuthenticated, logons
  <2>2. pc[k] = "tell"
    BY <2>1
  <2>. QED  BY <1>6, <2>2 DEF SetAuthenticated, MoveTo
<1>7. ASSUME NEW m \in Monitors, CopyToken(m)
      PROVE  pc'[k] = "tell"
  <2>1. packet' = packet /\ submitted' = submitted /\ (token' = token \/ token' = Torn)
    BY <1>7 DEF CopyToken, Written, logons
  <2>2. pc[k] = "tell"
    BY <1>0, <2>1
  <2>. QED  BY <1>7, <2>2 DEF CopyToken, MoveTo
<1>8. ASSUME NEW m \in Monitors, TokenCopied(m)
      PROVE  pc'[k] = "tell"
  <2>1. /\ packet' = packet /\ submitted' = submitted
        /\ token' \in {token, packet[m], Empty, Torn}
        /\ pc' = [pc EXCEPT ![m] = "tell"]
    BY <1>8 DEF TokenCopied, Written, logons, MoveTo
  <2>2. CASE token' = packet[m]
    <3>1. CASE submitted[n] # 0
      BY <2>1, <3>1
    <3>2. CASE packet[m] = n
      BY <1>0, <2>1, <3>2 DEF OwnPackets
    <3>. QED  BY <2>1, <2>2, <3>1, <3>2
  <2>3. CASE token' # packet[m]
    BY <1>0, <2>1, <2>3
  <2>. QED  BY <2>2, <2>3
<1>9. ASSUME NEW m \in Monitors, TellStatus(m)
      PROVE  pc'[k] = "tell"
  <2>1. /\ UNCHANGED <<token, submitted>>
        /\ packet' = [packet EXCEPT ![m] = Empty]
        /\ pc' = [pc EXCEPT ![m] = "exited"]
    BY <1>9 DEF TellStatus, logons, MoveTo
  <2>2. k # m
    BY <1>0, <2>1
  <2>. QED  BY <2>1, <2>2
<1>10. CASE UNCHANGED vars
  BY <1>10 DEF vars
<1>. QED
  BY CredNext, <1>1, <1>2, <1>3, <1>4, <1>5, <1>6, <1>7, <1>8, <1>9, <1>10

\* GetSerialization is not entered again before ReportResult has scrubbed the
\* token or the tile is released.
LEMMA TokenUsedOnceStep == CredInv /\ [Next]_vars => TokenUsedOnce'
<1>. SUFFICES ASSUME CredInv, [Next]_vars, NEW n \in Passwords
              PROVE  /\ submitted'[n] <= 1
                     /\ token' = n /\ submitted'[n] # 0
                          => ui' \in {"submitted", "reporting", "releasing", "gone"}
  BY DEF TokenUsedOnce
<1>. USE CredentialAssumption DEF CredInv, TypeOK, TokenUsedOnce
<1>0. n # Empty /\ n # Torn /\ n \in Nat
  BY DEF Passwords, Empty, Torn
<1>1. CASE Call
  <2>1. token' = token /\ submitted' = submitted
    BY <1>1, CredFrame
  <2>2. ui \in {"submitted", "reporting", "releasing", "gone"}
          => ui' \in {"submitted", "reporting", "releasing", "gone"}
    BY <1>1 DEF Call, SetSelected, SetDeselected, Release, AskToStop, Forget,
                GetSerialization, ReportResult
  <2>. QED  BY <2>1, <2>2
<1>2. CASE CreateSerializedLogon
  BY <1>2 DEF CreateSerializedLogon, tile
<1>3. CASE ScrubToken
  BY <1>0, <1>3, CredFrame DEF ScrubToken
<1>4. ASSUME NEW m \in Monitors, Listen(m) \/ Authentication(m)
      PROVE  UNCHANGED <<ui, token, submitted>>
  BY <1>4, CredFrame DEF Authentication, tile, logons
<1>5. ASSUME NEW m \in Monitors, SetAuthenticated(m) \/ TellStatus(m)
      PROVE  UNCHANGED <<ui, token, submitted>>
  BY <1>5, CredFrame DEF SetAuthenticated, TellStatus
<1>6. ASSUME NEW m \in Monitors, CopyToken(m)
      PROVE  UNCHANGED <<ui, submitted>> /\ token' \in {token, Torn}
  BY <1>6, CredFrame DEF CopyToken, Written
<1>7. ASSUME NEW m \in Monitors, TokenCopied(m), packet[m] = n
      PROVE  submitted[n] = 0
  BY <1>7 DEF TokenCopied, CopiedOnce
<1>8. ASSUME NEW m \in Monitors, TokenCopied(m)
      PROVE  UNCHANGED <<ui, submitted>> /\ token' \in {token, packet[m], Empty, Torn}
  BY <1>8, CredFrame DEF TokenCopied, Written
<1>9. CASE UNCHANGED vars
  BY <1>9 DEF vars
<1>. QED
  BY CredNext, <1>0, <1>1, <1>2, <1>3, <1>4, <1>5, <1>6, <1>7, <1>8, <1>9
-----------------------------------------------------------------------------
(* One logon per confirmation *)

\* Sets of monitors can be counted.
LEMMA MonitorsFinite ==
  ASSUME NEW S \in SUBSET Monitors
  PROVE  IsFiniteSet(S) /\ Cardinality(S) \in Nat
<1>1. IsFiniteSet(Monitors)
  BY CredentialAssumption, FS_Interval DEF Monitors
<1>2. IsFiniteSet(S)
  BY <1>1, FS_Subset
<1>. QED  BY <1>2, FS_CardinalityType

\* How many monitors are about to set the flag, when one arrives there or leaves.
LEMMA NotifyingStep ==
  ASSUME TypeOK, NEW m \in Monitors, NEW label, pc' = [pc EXCEPT ![m] = label]
  PROVE  /\ pc[m] # "notify" /\ label # "notify" => Notifying' = Notifying
         /\ label = "notify" => Cardinality(Notifying') <= Cardinality(Notifying) + 1
         /\ pc[m] = "notify" /\ label # "notify"
              => Cardinality(Notifying') = Cardinality(Notifying) - 1
<1>1. /\ label # "notify" => Notifying' = Notifying \ {m}
      /\ label = "notify" => Notifying' = Notifying \cup {m}
      /\ m \in Notifying <=> pc[m] = "notify"
  BY DEF Notifying, TypeOK
<1>2. IsFiniteSet(Notifying) /\ Cardinality(Notifying) \in Nat
  BY MonitorsFinite DEF Notifying
<1>. HIDE DEF Notifying
<1>3. \/ Cardinality(Notifying \cup {m}) = Cardinality(Notifying)
      \/ Cardinality(Notifying \cup {m}) = Cardinality(Notifying) + 1
  BY <1>2, FS_AddElement
<1>4. m \in Notifying => Cardinality(Notifying \ {m}) = Cardinality(Notifying) - 1
  BY <1>2, FS_RemoveElement
<1>5. CASE label = "notify"
  <2>1. Notifying' = Notifying \cup {m}
    BY <1>1, <1>5
  <2>. QED  BY <1>2, <1>3, <1>5, <2>1
<1>6. CASE label # "notify"
  <2>1. Notifying' = Notifying \ {m}
    BY <1>1, <1>6
  <2>2. pc[m] # "notify" => Notifying \ {m} = Notifying
    BY <1>1
  <2>. QED  BY <1>1, <1>4, <1>6, <2>1, <2>2
<1>. QED  BY <1>5, <1>6

\* The flag is set from a packet of status 1, spent by a logon and cleared by its
\* report.
LEMMA FlagCountsStep == CredInv /\ [Next]_vars => FlagCounts'
<1>. SUFFICES ASSUME CredInv, [Next]_vars
              PROVE  FlagCounts'
  OBVIOUS
<1>. DEFINE C == Cardinality(Notifying)
<1>1. /\ submissions \in Nat /\ received \in Nat /\ C \in Nat /\ auth \in BOOLEAN
      /\ submissions + Credit + C <= received
      /\ Credit \in {0, 1}
      /\ ui \in {"serializing", "submitted"} => auth
      /\ TypeOK
  <2>1. C \in Nat
    BY MonitorsFinite DEF Notifying
  <2>. QED
    BY <2>1, CredentialAssumption DEF CredInv, TypeOK, FlagCounts, Credit
<1>. SUFFICES /\ submissions' + Credit' + C' <= received'
              /\ ui' \in {"serializing", "submitted"} => auth'
  BY DEF FlagCounts
<1>. HIDE DEF C
<1>2. CASE Call
  <2>1. UNCHANGED <<submissions, received>>
    BY <1>2, CredFrame
  <2>2. Notifying' = Notifying
    BY <1>1, <1>2 DEF Notifying, Call, SetSelected, SetDeselected, Release, AskToStop,
                      Forget, GetSerialization, ReportResult, monitor, TypeOK
  <2>3. Credit' \in {0, Credit} /\ (ui' \in {"serializing", "submitted"} => auth')
    BY <1>1, <1>2 DEF Credit, Call, SetSelected, SetDeselected, Release, AskToStop,
                      Forget, GetSerialization, ReportResult, tile
  <2>. QED  BY <1>1, <2>1, <2>2, <2>3 DEF C
<1>3. CASE CreateSerializedLogon
  <2>1. UNCHANGED <<auth, pc, received>> /\ ui = "serializing" /\ auth
    BY <1>1, <1>3, CredFrame DEF CreateSerializedLogon
  <2>2. \/ ui' = "submitted" /\ submissions' = submissions + 1
        \/ ui' = "idle" /\ submissions' = submissions
    BY <1>3 DEF CreateSerializedLogon
  <2>3. submissions' + Credit' = submissions + Credit
    BY <1>1, <2>1, <2>2 DEF Credit
  <2>4. C' = C
    BY <2>1 DEF C, Notifying
  <2>. QED  BY <1>1, <2>1, <2>2, <2>3, <2>4
<1>4. CASE ScrubToken
  <2>1. UNCHANGED <<auth, pc, received, submissions>> /\ ui = "reporting" /\ ui' = "idle"
    BY <1>4, CredFrame DEF ScrubToken
  <2>. QED  BY <1>1, <2>1 DEF C, Notifying, Credit
<1>5. ASSUME NEW m \in Monitors, NEW label, pc' = [pc EXCEPT ![m] = label],
             pc[m] # "notify", label # "notify",
             UNCHANGED <<ui, auth, received, submissions>>
      PROVE  FlagCounts'
  <2>1. Notifying' = Notifying
    BY <1>1, <1>5, NotifyingStep
  <2>. QED  BY <1>1, <1>5, <2>1 DEF C, Credit, FlagCounts
<1>6. ASSUME NEW m \in Monitors, Listen(m)
      PROVE  FlagCounts'
  <2>1. UNCHANGED <<ui, auth, received, submissions>>
    BY <1>6, CredFrame
  <2>2. /\ pc[m] # "notify"
        /\ \E label \in {"loop", "open", "waiting", "exited"} :
             pc' = [pc EXCEPT ![m] = label]
    BY <1>6 DEF Listen, TestStop, OpenPipe, NoAuthentication, MoveTo
  <2>. QED  BY <1>5, <2>1, <2>2
<1>7. ASSUME NEW m \in Monitors, Authentication(m)
      PROVE  FlagCounts'
  <2>1. /\ received' = received + 1 /\ pc' = [pc EXCEPT ![m] = "notify"]
        /\ UNCHANGED <<ui, auth, submissions>>
    BY <1>7 DEF Authentication, MoveTo, tile, logons
  <2>2. C' <= C + 1 /\ C' \in Nat
    <3>1. Notifying' \in SUBSET Monitors
      BY DEF Notifying
    <3>2. Cardinality(Notifying') \in Nat
      BY <3>1, MonitorsFinite
    <3>. QED  BY <1>1, <2>1, <3>2, NotifyingStep DEF C
  <2>3. Credit' = Credit
    BY <2>1 DEF Credit
  <2>. QED  BY <1>1, <2>1, <2>2, <2>3 DEF C, FlagCounts
<1>8. ASSUME NEW m \in Monitors, SetAuthenticated(m)
      PROVE  FlagCounts'
  <2>1. /\ pc[m] = "notify"
        /\ \E label \in {"tell", "copy"} : pc' = [pc EXCEPT ![m] = label]
        /\ UNCHANGED <<ui, received, submissions>>
    BY <1>8, CredFrame DEF SetAuthenticated, MoveTo
  <2>2. C' = C - 1
    BY <1>1, <2>1, NotifyingStep DEF C
  <2>3. Credit' \in {0, 1}
    BY DEF Credit
  <2>4. ui' \in {"serializing", "submitted"} => auth'
    BY <1>1, <1>8, <2>1 DEF SetAuthenticated, Written
  <2>5. submissions' = submissions /\ received' = received
    BY <2>1
  <2>6. submissions' + Credit' + C' <= received'
    <3>1. submissions \in Nat /\ received \in Nat /\ C \in Nat /\ Credit \in Nat
      BY <1>1
    <3>2. submissions + C <= received
      BY <1>1, <3>1
    <3>3. Credit' = 0 \/ Credit' = 1
      BY <2>3
    <3>. QED  BY <2>2, <2>5, <3>1, <3>2, <3>3
  <2>. QED  BY <2>4, <2>6 DEF C, FlagCounts
<1>9. ASSUME NEW m \in Monitors, CopyToken(m) \/ TokenCopied(m) \/ TellStatus(m)
      PROVE  FlagCounts'
  <2>1. UNCHANGED <<ui, auth, received, submissions>>
    BY <1>9, CredFrame DEF CopyToken, TokenCopied, TellStatus
  <2>2. /\ pc[m] # "notify"
        /\ \E label \in {"copying", "tell", "exited"} : pc' = [pc EXCEPT ![m] = label]
    BY <1>9 DEF CopyToken, TokenCopied, TellStatus, MoveTo
  <2>. QED  BY <1>5, <2>1, <2>2
<1>10. CASE UNCHANGED vars
  BY <1>1, <1>10 DEF vars, C, Notifying, Credit
<1>. QED
  BY CredNext, <1>2, <1>3, <1>4, <1>6, <1>7, <1>8, <1>9, <1>10 DEF FlagCounts, C
-----------------------------------------------------------------------------
(* The theorems *)

\* The invariant holds initially: nothing was received, copied or submitted.
LEMMA CredInitInv == Init => CredInv
<1>. SUFFICES ASSUME Init
              PROVE  CredInv
  OBVIOUS
<1>1. TypeOK
  BY CredInitType
<1>2. OwnPackets /\ CopiedOnce /\ TokenUsedOnce
  BY DEF Init, OwnPackets, CopiedOnce, TokenUsedOnce, Passwords, Empty
<1>3. Notifying = {}
  BY DEF Init, Notifying
<1>4. Cardinality(Notifying) = 0
  BY <1>3, FS_EmptySet
<1>5. FlagCounts
  BY <1>4 DEF Init, FlagCounts, Credit
<1>. QED  BY <1>1, <1>2, <1>5 DEF CredInv

\* The types, the uniqueness of passwords and the account of the flag hold in every
\* reachable state.
THEOREM CredentialInvariant == Spec => []CredInv
<1>1. CredInv /\ [Next]_vars => CredInv'
  <2>1. CredInv /\ [Next]_vars => TypeOK'
    BY CredStepType DEF CredInv
  <2>. QED
    BY <2>1, OwnPacketsStep, CopiedOnceStep, TokenUsedOnceStep, FlagCountsStep DEF CredInv
<1>. QED  BY <1>1, CredInitInv, PTL DEF Spec

\* Every field of the tile and of its monitors keeps its type.
THEOREM CredentialTypeOK == Spec => []TypeOK
<1>1. CredInv => TypeOK
  BY DEF CredInv
<1>. QED  BY <1>1, CredentialInvariant, PTL

\* A password received over the pipe is submitted to Windows at most once, for any
\* number of monitors left over from earlier selections.
THEOREM CredentialSubmittedOnce == Spec => []SubmittedOnce
<1>1. CredInv => SubmittedOnce
  BY DEF CredInv, TokenUsedOnce, SubmittedOnce
<1>. QED  BY <1>1, CredentialInvariant, PTL

\* Never more logons than confirmations, for any number of monitors and packets.
THEOREM CredentialOneLogonPerConfirmation == Spec => []OneLogonPerConfirmation
<1>1. CredInv => OneLogonPerConfirmation
  <2>. SUFFICES ASSUME CredInv
                PROVE  submissions <= received
    BY DEF OneLogonPerConfirmation
  <2>1. Cardinality(Notifying) \in Nat
    BY MonitorsFinite DEF Notifying
  <2>. QED
    BY <2>1, CredentialAssumption DEF CredInv, TypeOK, FlagCounts, Credit
<1>. QED  BY <1>1, CredentialInvariant, PTL
-----------------------------------------------------------------------------
(* A selected tile listens *)

\* A monitor that has left the loop with a packet has set the flag before; only the
\* report of a result takes it back.  Only a call that deselects or releases the tile
\* asks its monitor to stop.
LEMMA ListenStep == TypeOK /\ ListenInv /\ [Next]_vars => ListenInv'
<1>. SUFFICES ASSUME TypeOK, ListenInv, [Next]_vars, ~reported', ui' # "gone"
              PROVE  /\ ui' # "reporting"
                     /\ \A k \in Monitors : pc'[k] \in {"copy", "copying", "tell"} => auth'
                     /\ ui' \in {"idle", "serializing", "submitted"} /\ handle' # NoMonitor =>
                          ~stop' /\ pc'[handle'] # "unborn" /\ (pc'[handle'] = "exited" => auth')
  BY DEF ListenInv
<1>. USE DEF TypeOK
<1>1. CASE SetSelected
  <2>1. /\ ~reported /\ ui # "gone" /\ stop' = FALSE /\ auth' = auth /\ handle = NoMonitor
        /\ \A k \in Monitors : pc'[k] \in {pc[k], "loop"}
    BY <1>1 DEF SetSelected, logons
  <2>2. handle' = NoMonitor \/ (handle' \in Monitors /\ pc'[handle'] = "loop")
    BY <1>1 DEF SetSelected
  <2>3. \A k \in Monitors : pc'[k] \in {"copy", "copying", "tell"} => auth'
    <3>. SUFFICES ASSUME NEW k \in Monitors, pc'[k] \in {"copy", "copying", "tell"}
                  PROVE  auth'
      OBVIOUS
    <3>1. pc'[k] = pc[k]
      BY <2>1
    <3>. QED  BY <2>1, <3>1 DEF ListenInv
  <2>4. ui' # "reporting"
    BY <1>1 DEF SetSelected
  <2>. QED  BY <2>1, <2>2, <2>3, <2>4
<1>2. CASE SetDeselected \/ Release
  BY <1>2 DEF SetDeselected, Release, AskToStop, ListenInv, monitor, logons
<1>3. CASE Forget
  BY <1>3 DEF Forget, ListenInv, monitor, logons
<1>4. CASE GetSerialization \/ CreateSerializedLogon
  BY <1>4 DEF GetSerialization, CreateSerializedLogon, ListenInv, tile, monitor, logons
<1>5. ASSUME NEW text \in {"unlocked", "failed"}, ReportResult(text)
      PROVE  FALSE
  BY <1>5 DEF ReportResult
<1>6. CASE ScrubToken
  BY <1>6 DEF ScrubToken, ListenInv, monitor, logons
<1>7. ASSUME NEW m \in Monitors, RunAuthMonitor(m)
      PROVE  /\ ui' # "reporting"
             /\ \A k \in Monitors : pc'[k] \in {"copy", "copying", "tell"} => auth'
             /\ ui' \in {"idle", "serializing", "submitted"} /\ handle' # NoMonitor =>
                  ~stop' /\ pc'[handle'] # "unborn" /\ (pc'[handle'] = "exited" => auth')
  <2>1. /\ UNCHANGED <<ui, handle, stop, reported>>
        /\ ~reported /\ ui # "gone"
    BY <1>7 DEF RunAuthMonitor, TestStop, OpenPipe, NoAuthentication, Authentication,
                SetAuthenticated, CopyToken, TokenCopied, TellStatus, tile, logons
  <2>2. CASE TestStop(m)
    <3>1. /\ auth' = auth /\ pc[m] = "loop"
          /\ \E label \in {"open", "exited"} :
               pc' = [pc EXCEPT ![m] = label] /\ (label = "exited" => stop)
      BY <2>1, <2>2 DEF TestStop, MoveTo, tile
    <3>. QED  BY <2>1, <3>1 DEF ListenInv
  <2>3. CASE OpenPipe(m) \/ NoAuthentication(m) \/ Authentication(m)
    <3>1. /\ auth' = auth /\ pc[m] \in {"open", "waiting"}
          /\ \E label \in {"loop", "waiting", "notify"} : pc' = [pc EXCEPT ![m] = label]
      BY <2>3 DEF OpenPipe, NoAuthentication, Authentication, MoveTo, tile
    <3>. QED  BY <2>1, <3>1 DEF ListenInv
  <2>4. CASE SetAuthenticated(m)
    <3>1. /\ auth' = TRUE /\ pc[m] = "notify"
          /\ \E label \in {"tell", "copy"} : pc' = [pc EXCEPT ![m] = label]
      BY <2>1, <2>4 DEF SetAuthenticated, Written, MoveTo
    <3>. QED  BY <2>1, <3>1 DEF ListenInv
  <2>5. CASE CopyToken(m) \/ TokenCopied(m) \/ TellStatus(m)
    <3>1. /\ auth' = auth /\ pc[m] \in {"copy", "copying", "tell"}
          /\ \E label \in {"copying", "tell", "exited"} : pc' = [pc EXCEPT ![m] = label]
      BY <2>5 DEF CopyToken, TokenCopied, TellStatus, MoveTo
    <3>. QED  BY <2>1, <3>1 DEF ListenInv
  <2>. QED  BY <1>7, <2>2, <2>3, <2>4, <2>5 DEF RunAuthMonitor
<1>8. CASE UNCHANGED vars
  BY <1>8 DEF vars, ListenInv
<1>. QED
  BY <1>1, <1>2, <1>3, <1>4, <1>5, <1>6, <1>7, <1>8 DEF Next

\* Until the first result is reported, a selected tile has a monitor that asks again
\* after every wait, or has authenticated, for any number of monitors forgotten by
\* earlier deselections (RunAuthMonitor, SetSelected, SetDeselected).
THEOREM CredentialSelectedTileListens == Spec => []SelectedTileListens
<1>1. Init => ListenInv
  BY DEF Init, ListenInv
<1>2. TypeOK /\ ListenInv => SelectedTileListens
  BY DEF TypeOK, ListenInv, SelectedTileListens, Ended
<1>. QED  BY <1>1, <1>2, ListenStep, CredentialTypeOK, PTL DEF Spec
=============================================================================
