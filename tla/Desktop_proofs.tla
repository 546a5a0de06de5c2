--------------------------- MODULE Desktop_proofs ---------------------------
(***************************************************************************)
(* Theorems about the desktop application.  Of the processes of one PC,    *)
(* for any number of instances, of known phones and of phones that ask:    *)
(* that nobody pairs alone, that the vault keeps what it knows unless      *)
(* instances overlap or a Save is torn, and that a click takes effect on   *)
(* the phone its row shows.  Of the symbol in its pairing dialog, for      *)
(* payloads of any length and any ranking of the masks: that version and   *)
(* level are the best ones, that the data codewords are drawn exactly and  *)
(* in the standard's order, that no pattern spoils another one, that the   *)
(* scan meets exactly the modules they leave, and that one mask stays and  *)
(* is named in the symbol.                                                 *)
(***************************************************************************)
EXTENDS Desktop, QrCode, FiniteSetTheorems, SequenceTheorems, WellFoundedInduction, TLAPS

(* Lists of phones *)

\* What erasing one entry leaves.
LEMMA ErasedAt ==
  ASSUME NEW S, NEW s \in Seq(S), NEW i \in 1..Len(s)
  PROVE  /\ RemoveAt(s, i) \in Seq(S)
         /\ Len(RemoveAt(s, i)) = Len(s) - 1
         /\ \A j \in 1..(Len(s) - 1) :
              RemoveAt(s, i)[j] = IF j < i THEN s[j] ELSE s[j + 1]
<1>. DEFINE before == SubSeq(s, 1, i - 1)
            after == SubSeq(s, i + 1, Len(s))
<1>1. /\ before \in Seq(S) /\ Len(before) = i - 1
      /\ \A j \in 1..(i - 1) : before[j] = s[j]
  OBVIOUS
<1>2. /\ after \in Seq(S) /\ Len(after) = Len(s) - i
      /\ \A j \in 1..(Len(s) - i) : after[j] = s[i + j]
  OBVIOUS
<1>3. RemoveAt(s, i) = before \o after
  BY DEF RemoveAt
<1>. HIDE DEF before, after
<1>4. /\ before \o after \in Seq(S)
      /\ Len(before \o after) = Len(s) - 1
  BY <1>1, <1>2
<1>5. ASSUME NEW j \in 1..(Len(s) - 1)
      PROVE  (before \o after)[j] = IF j < i THEN s[j] ELSE s[j + 1]
  <2>1. CASE j < i
    BY <1>1, <1>2, <2>1
  <2>2. CASE j >= i
    <3>1. j - (i - 1) \in 1..(Len(s) - i) /\ i + (j - (i - 1)) = j + 1
      BY <2>2
    <3>2. (before \o after)[j] = after[j - (i - 1)]
      BY <1>1, <1>2, <2>2
    <3>. QED  BY <1>2, <2>2, <3>1, <3>2
  <2>3. j < i \/ j >= i
    OBVIOUS
  <2>. QED  BY <2>1, <2>2, <2>3
<1>. QED  BY <1>3, <1>4, <1>5

\* Every entry is found at some row, the first with its id.
LEMMA FirstRow ==
  ASSUME NEW S, NEW s \in Seq(S), NEW i \in 1..Len(s)
  PROVE  /\ RemoveFirst(s, s[i]) \in Seq(S)
         /\ IsInjective(s) => RemoveFirst(s, s[i]) = RemoveAt(s, i)
<1>. DEFINE I == {j \in 1..Len(s) : s[j] = s[i]}
            first == SelectInSeq(s, LAMBDA v : v = s[i])
<1>1. I \subseteq Nat /\ i \in I
  OBVIOUS
<1>2. first = Min(I)
  BY <1>1 DEF SelectInSeq
<1>3. RemoveFirst(s, s[i]) = RemoveAt(s, first)
  BY DEF RemoveFirst
<1>. HIDE DEF first, I
<1>4. PICK m \in I : \A n \in I : ~(<<n, m>> \in OpToRel(<, Nat))
  BY <1>1, NatLessThanWellFounded, WFMin, Zenon
<1>5. \A n \in I : m <= n
  <2>1. OpToRel(<, Nat) = {ss \in Nat \X Nat : ss[1] < ss[2]}
    BY DEF OpToRel
  <2>2. ASSUME NEW n \in I, n < m
        PROVE  FALSE
    <3>1. n \in Nat /\ m \in Nat
      BY <1>1
    <3>2. <<n, m>> \in Nat \X Nat /\ <<n, m>>[1] = n /\ <<n, m>>[2] = m
      BY <3>1
    <3>3. <<n, m>> \in OpToRel(<, Nat)
      BY <2>1, <2>2, <3>2
    <3>. QED  BY <1>4, <2>2, <3>3
  <2>. QED  BY <1>1, <2>2
<1>6. Min(I) \in I
  BY <1>4, <1>5 DEF Min
<1>7. RemoveAt(s, first) \in Seq(S)
  BY <1>2, <1>6, ErasedAt DEF I
<1>8. IsInjective(s) => I = {i}
  BY DEF I, IsInjective
<1>. QED  BY <1>2, <1>3, <1>6, <1>7, <1>8
-----------------------------------------------------------------------------
(* What a step does to the vault and to the KeyStores *)

NoStorage == UNCHANGED <<vault, mem, committed, torn>>

\* The process is gone, and its KeyStore with it.
Forgets(a) ==
  mem' = [mem EXCEPT ![a] = Unloaded] /\ app' = [app EXCEPT ![a] = "ended"]

SavesMemory(a) ==
  /\ app[a] \in {"window", "leaving"}
  /\ Saves(mem[a])
  /\ UNCHANGED mem \/ Forgets(a)

IsKilled(a) == Live(a) /\ Forgets(a) /\ UNCHANGED <<vault, committed, torn>>

ReadsVault(a) ==
  /\ app[a] = "starting"
  /\ mem' = [mem EXCEPT ![a] = Loaded(a)]
  /\ UNCHANGED <<vault, committed, torn>>

Erases(a, i) ==
  /\ app[a] = "window"
  /\ i \in DOMAIN shown[a] /\ i <= Len(mem[a].phones)
  /\ \E image \in {Revoked(mem[a], mem[a].phones[i]), Without(mem[a], mem[a].phones[i])} :
       /\ mem' = [mem EXCEPT ![a] = image]
       /\ Saves(image)
       /\ shown' = [shown EXCEPT ![a] = image.phones]

\* Every step stores nothing, saves a KeyStore as it is, reads the vault, erases a row
\* or is the end of a process.
LEMMA StorageNext ==
  ASSUME [Next]_vars
  PROVE  \/ NoStorage
         \/ \E a \in Apps : \/ SavesMemory(a) \/ ReadsVault(a) \/ IsKilled(a)
                            \/ \E i \in 1..Limit : Erases(a, i)
<1>1. ASSUME NEW a \in Apps, Start(a) \/ MakeWindow(a) \/ Quit(a)
      PROVE  NoStorage
  BY <1>1 DEF Start, MakeWindow, Quit, NoStorage, history
<1>2. ASSUME NEW a \in Apps, Load(a)
      PROVE  ReadsVault(a)
  BY <1>2 DEF Load, ReadsVault, history
<1>3. ASSUME NEW a \in Apps, NEW w \in Wizards,
             OpenPhonesPage(a) \/ OpenDialog(a) \/ CloseDialog(a)
               \/ OpenWizard(a) \/ ConfirmCode(a, w) \/ CloseWizard(a, w)
      PROVE  NoStorage
  BY <1>3 DEF OpenPhonesPage, OpenDialog, CloseDialog, OpenWizard, ConfirmCode,
              CloseWizard, NoStorage, history
<1>4. ASSUME NEW a \in Apps, NEW w \in Wizards,
             Exit(a) \/ SaveSettings(a) \/ NamePc(a, w) \/ FinishWizard(a, w)
      PROVE  SavesMemory(a)
  BY <1>4 DEF Exit, Ends, Forgets, SaveSettings, NamePc, FinishWizard, Free, Turn,
              SavesMemory, appVars
<1>5. ASSUME NEW a \in Apps, NEW i \in 1..Limit, RemoveRow(a, i) \/ RevokeRow(a, i)
      PROVE  Erases(a, i)
  BY <1>5 DEF RemoveRow, RevokeRow, ClickRow, Erases, Free, Refresh
<1>6. ASSUME \/ \E p \in Asking : PairingRequest(p)
             \/ Expires \/ PhoneConfirms \/ UNCHANGED vars
      PROVE  NoStorage
  BY <1>6 DEF PairingRequest, Expires, PhoneConfirms, vars, appVars, history, NoStorage
<1>7. ASSUME NEW a \in Apps, Kill(a)
      PROVE  IsKilled(a)
  BY <1>7 DEF Kill, Ends, Forgets, IsKilled, history
<1>8. "first" \in Wizards
  BY DEF Wizards
<1>. QED
  BY <1>1, <1>2, <1>3, <1>4, <1>5, <1>6, <1>7, <1>8 DEF Next, Process, Window, Wizard

\* What Revoke and Remove in a row make of a KeyStore.
LEMMA ErasedImage ==
  ASSUME NEW image \in Images, image.phones \in Seq(Phones),
         NEW i \in 1..Len(image.phones),
         NEW result \in {Revoked(image, image.phones[i]), Without(image, image.phones[i])}
  PROVE  /\ result \in Images
         /\ result.phones = RemoveFirst(image.phones, image.phones[i])
         /\ result.phones \in Seq(Phones)
         /\ result.identity = image.identity /\ image.revoked \subseteq result.revoked
<1>. DEFINE p == image.phones[i]
            kept == RemoveFirst(image.phones, p)
<1>1. kept \in Seq(Phones) /\ kept \in Seq(Phones \cup Asking)
  <2>1. kept \in Seq(Phones)
    BY FirstRow
  <2>. HIDE DEF kept
  <2>. QED  BY <2>1
<1>2. p \in Phones
  OBVIOUS
<1>. HIDE DEF p, kept
<1>4. Without(image, p) = [image EXCEPT !.phones = kept]
  BY DEF Without, kept
<1>5. /\ Without(image, p) \in Images
      /\ Without(image, p).phones = kept
      /\ Without(image, p).identity = image.identity
      /\ Without(image, p).revoked = image.revoked
  BY <1>1, <1>4 DEF Images
<1>6. Revoked(image, p) = [Without(image, p) EXCEPT !.revoked = @ \cup {p}]
  BY DEF Revoked
<1>7. /\ Revoked(image, p) \in Images
      /\ Revoked(image, p).phones = kept
      /\ Revoked(image, p).identity = image.identity
      /\ image.revoked \subseteq Revoked(image, p).revoked
  BY <1>2, <1>5, <1>6 DEF Images
<1>8. result = Revoked(image, p) \/ result = Without(image, p)
  BY DEF p
<1>. QED  BY <1>1, <1>5, <1>7, <1>8 DEF kept, p

\* What Load reads.
LEMMA LoadedImage ==
  ASSUME vault \in Images, vault.phones \in Seq(Phones), NEW a \in Apps
  PROVE  /\ Loaded(a) \in Images /\ Loaded(a).phones \in Seq(Phones)
         /\ vault.revoked \subseteq Loaded(a).revoked
         /\ vault # NoFile => Loaded(a) = vault
<1>1. CASE vault = NoFile
  <2>1. /\ Loaded(a) = [identity |-> a, phones |-> <<>>, revoked |-> {}]
        /\ vault.revoked = {} /\ vault.phones = <<>>
    BY <1>1 DEF Loaded, Unloaded, NoFile
  <2>. QED  BY <1>1, <2>1 DEF Images, Identities
<1>2. CASE vault # NoFile
  BY <1>2 DEF Loaded
<1>. QED  BY <1>1, <1>2

\* The vault holds images, and so do the KeyStores.
Stored ==
  /\ vault \in Images /\ vault.phones \in Seq(Phones)
  /\ mem \in [Apps -> Images] /\ \A a \in Apps : mem[a].phones \in Seq(Phones)
  /\ committed \subseteq Phones /\ torn \in BOOLEAN

\* What there is before anything was loaded or saved, or after the file was cut short.
LEMMA EmptyImages ==
  /\ Unloaded \in Images /\ Unloaded.phones = <<>> /\ Unloaded.revoked = {}
  /\ EmptyFile \in Images /\ EmptyFile.phones = <<>>
<1>1. Unloaded = [identity |-> "none", phones |-> <<>>, revoked |-> {}]
  BY DEF Unloaded
<1>2. Unloaded \in Images
  BY <1>1 DEF Images, Identities
<1>3. EmptyFile \in Images /\ EmptyFile.phones = Unloaded.phones
  BY <1>2 DEF EmptyFile, Images, Identities
<1>. QED  BY <1>1, <1>2, <1>3

\* Nothing that is saved, read, erased or forgotten makes a list that was not known.
LEMMA StoredStep ==
  ASSUME Stored, [Next]_vars
  PROVE  Stored'
<1>. USE DEF Stored
<1>1. CASE NoStorage
  BY <1>1 DEF NoStorage
<1>2. ASSUME NEW image \in Images, image.phones \in Seq(Phones), Saves(image)
      PROVE  /\ vault' \in Images /\ vault'.phones \in Seq(Phones)
             /\ committed' \subseteq Phones /\ torn' \in BOOLEAN
  <2>1. <<>> \in Seq(Phones)
    OBVIOUS
  <2>2. CASE vault' \in {NoFile, EmptyFile} /\ torn' = TRUE /\ UNCHANGED committed
    BY <2>1, <2>2, EmptyImages DEF NoFile
  <2>3. CASE /\ UNCHANGED torn
             /\ \/ vault' = image /\ committed' = committed \cup image.revoked
                \/ UNCHANGED <<vault, committed>>
    BY <1>2, <2>3 DEF Images
  <2>. QED  BY <1>2, <2>2, <2>3 DEF Saves
<1>6. ASSUME NEW a \in Apps, UNCHANGED mem \/ Forgets(a)
      PROVE  mem' \in [Apps -> Images] /\ \A b \in Apps : mem'[b].phones \in Seq(Phones)
  <2>1. <<>> \in Seq(Phones)
    OBVIOUS
  <2>. QED  BY <1>6, <2>1, EmptyImages DEF Forgets
<1>3. ASSUME NEW a \in Apps, SavesMemory(a)
      PROVE  Stored'
  BY <1>2, <1>3, <1>6 DEF SavesMemory
<1>4. ASSUME NEW a \in Apps, ReadsVault(a)
      PROVE  Stored'
  BY <1>4, LoadedImage DEF ReadsVault
<1>7. ASSUME NEW a \in Apps, IsKilled(a)
      PROVE  Stored'
  BY <1>6, <1>7 DEF IsKilled
<1>5. ASSUME NEW a \in Apps, NEW i \in 1..Limit, Erases(a, i)
      PROVE  Stored'
  <2>1. i \in 1..Len(mem[a].phones)
    BY <1>5 DEF Erases
  <2>2. PICK image \in {Revoked(mem[a], mem[a].phones[i]), Without(mem[a], mem[a].phones[i])} :
          mem' = [mem EXCEPT ![a] = image] /\ Saves(image)
    BY <1>5 DEF Erases
  <2>3. image \in Images /\ image.phones \in Seq(Phones)
    BY <2>1, <2>2, ErasedImage
  <2>. QED  BY <1>2, <2>2, <2>3
<1>. QED  BY <1>1, <1>3, <1>4, <1>5, <1>7, StorageNext
-----------------------------------------------------------------------------
(* The processes, their windows and the service *)

AppStates == {"off", "starting", "loaded", "window", "leaving", "ended"}
Pages == {"none", "dialog", "welcome", "code", "complete"}

\* The types of what is not stored.
Running ==
  /\ build \in {"native", "qt"} /\ overlapped \in BOOLEAN
  /\ app \in [Apps -> AppStates]
  /\ shown \in [Apps -> Seq(Phones \cup Asking)]
  /\ session \in [Apps -> [by : Wizards \cup {"none"}, confirmed : BOOLEAN]]
  /\ page \in [Apps -> [Wizards -> Pages]]

\* The rows come from a KeyStore, before or after the step.
LEMMA RunningStep ==
  ASSUME Stored, Running, [Next]_vars
  PROVE  Running'
<1>. DEFINE OwnSessions == [by : Wizards \cup {"none"}, confirmed : BOOLEAN]
<1>1. \A a \in Apps : mem[a].phones \in Seq(Phones \cup Asking)
  BY DEF Stored, Images
<1>20. /\ NotPairing \in OwnSessions /\ NoPage \in [Wizards -> Pages]
       /\ \A w \in Wizards : [by |-> w, confirmed |-> FALSE] \in OwnSessions
       /\ "first" \in Wizards /\ "modal" \in Wizards
  BY DEF NotPairing, NoPage, Wizards, Pages
<1>. HIDE DEF OwnSessions
<1>21. ASSUME UNCHANGED <<build, overlapped>>, app' \in [Apps -> AppStates],
              shown' \in [Apps -> Seq(Phones \cup Asking)],
              session' \in [Apps -> OwnSessions], page' \in [Apps -> [Wizards -> Pages]]
       PROVE  Running'
  BY <1>21 DEF Running, OwnSessions
<1>22. /\ app \in [Apps -> AppStates] /\ shown \in [Apps -> Seq(Phones \cup Asking)]
       /\ session \in [Apps -> OwnSessions] /\ page \in [Apps -> [Wizards -> Pages]]
  BY DEF Running, OwnSessions
<1>23. ASSUME NEW a \in Apps, NEW w \in Wizards, NEW here \in Pages
       PROVE  [page EXCEPT ![a][w] = here] \in [Apps -> [Wizards -> Pages]]
  <2>1. [page[a] EXCEPT ![w] = here] \in [Wizards -> Pages]
    BY <1>22, <1>23
  <2>. QED  BY <1>22, <2>1
<1>2. ASSUME NEW a \in Apps, Start(a)
      PROVE  Running'
  BY <1>2 DEF Start, Running, AppStates
<1>3. ASSUME NEW a \in Apps, Load(a)
      PROVE  Running'
  BY <1>3, <1>21, <1>22 DEF Load, history, AppStates
<1>4. ASSUME NEW a \in Apps, MakeWindow(a)
      PROVE  Running'
  <2>1. mem[a].phones \in Seq(Phones \cup Asking) /\ <<>> \in Seq(Phones \cup Asking)
    BY <1>1
  <2>2. CASE app' = [app EXCEPT ![a] = "window"]
    <3>1. /\ UNCHANGED <<build, session, overlapped>>
          /\ shown' = [shown EXCEPT ![a] = IF build = "qt" THEN mem[a].phones ELSE <<>>]
             \/ UNCHANGED shown
          /\ (\E here \in Pages : page' = [page EXCEPT ![a]["first"] = here])
             \/ UNCHANGED page
      BY <1>4 DEF MakeWindow, history, Pages
    <3>2. page' \in [Apps -> [Wizards -> Pages]]
      <4>1. CASE UNCHANGED page
        BY <1>22, <4>1
      <4>2. ASSUME NEW here \in Pages, page' = [page EXCEPT ![a]["first"] = here]
            PROVE  page' \in [Apps -> [Wizards -> Pages]]
        <5>1. [page EXCEPT ![a]["first"] = here] \in [Apps -> [Wizards -> Pages]]
          BY <1>20, <1>23
        <5>. QED  BY <4>2, <5>1
      <4>. QED  BY <3>1, <4>1, <4>2
    <3>3. shown' \in [Apps -> Seq(Phones \cup Asking)]
      BY <1>22, <2>1, <3>1
    <3>. QED  BY <1>21, <1>22, <2>2, <3>1, <3>2, <3>3 DEF AppStates
  <2>3. CASE UNCHANGED <<shown, page>>
    BY <1>4, <1>21, <1>22, <2>3 DEF MakeWindow, history, AppStates
  <2>. QED  BY <1>4, <2>2, <2>3 DEF MakeWindow
<1>5. ASSUME NEW a \in Apps, Quit(a)
      PROVE  Running'
  <2>1. <<>> \in Seq(Phones \cup Asking)
    OBVIOUS
  <2>. QED  BY <1>5, <1>20, <1>21, <1>22, <2>1 DEF Quit, history, AppStates
<1>11. ASSUME NEW a \in Apps, Exit(a) \/ Kill(a)
      PROVE  Running'
  <2>1. <<>> \in Seq(Phones \cup Asking)
    OBVIOUS
  <2>2. Ends(a) /\ UNCHANGED <<build, overlapped>>
    BY <1>11 DEF Exit, Kill, history
  <2>. QED  BY <1>20, <1>21, <1>22, <2>1, <2>2 DEF Ends, AppStates
<1>6. ASSUME NEW a \in Apps, OpenPhonesPage(a) \/ CloseDialog(a)
      PROVE  Running'
  <2>1. /\ UNCHANGED <<build, app, overlapped>>
        /\ shown' = [shown EXCEPT ![a] = mem[a].phones]
        /\ UNCHANGED session \/ session' = [session EXCEPT ![a] = NotPairing]
        /\ UNCHANGED page \/ page' = [page EXCEPT ![a]["modal"] = "none"]
    BY <1>6 DEF OpenPhonesPage, CloseDialog, Refresh, history
  <2>2. page' \in [Apps -> [Wizards -> Pages]]
    <3>1. [page EXCEPT ![a]["modal"] = "none"] \in [Apps -> [Wizards -> Pages]]
      BY <1>20, <1>23 DEF Pages
    <3>. QED  BY <1>22, <2>1, <3>1
  <2>3. shown' \in [Apps -> Seq(Phones \cup Asking)] /\ session' \in [Apps -> OwnSessions]
    BY <1>1, <1>20, <1>22, <2>1
  <2>. QED  BY <1>21, <1>22, <2>1, <2>2, <2>3
<1>7. ASSUME NEW a \in Apps, SaveSettings(a)
      PROVE  Running'
  BY <1>7, <1>21, <1>22 DEF SaveSettings, appVars
<1>12. ASSUME NEW a \in Apps, OpenDialog(a)
      PROVE  Running'
  <2>1. /\ UNCHANGED <<build, app, overlapped, shown>>
        /\ session' = [session EXCEPT ![a] = [by |-> "modal", confirmed |-> FALSE]]
        /\ page' = [page EXCEPT ![a]["modal"] = "dialog"]
    BY <1>12 DEF OpenDialog, history
  <2>2. page' \in [Apps -> [Wizards -> Pages]]
    <3>1. [page EXCEPT ![a]["modal"] = "dialog"] \in [Apps -> [Wizards -> Pages]]
      BY <1>20, <1>23 DEF Pages
    <3>. QED  BY <1>22, <2>1, <3>1
  <2>. QED  BY <1>20, <1>21, <1>22, <2>1, <2>2
<1>8. ASSUME NEW a \in Apps, NEW i \in 1..Limit, RemoveRow(a, i) \/ RevokeRow(a, i)
      PROVE  Running'
  <2>1. PICK image \in {Revoked(mem[a], mem[a].phones[i]), Without(mem[a], mem[a].phones[i])} :
          ClickRow(a, i, image)
    BY <1>8 DEF RemoveRow, RevokeRow
  <2>2. i \in 1..Len(mem[a].phones) /\ mem[a] \in Images /\ mem[a].phones \in Seq(Phones)
    BY <2>1 DEF ClickRow, Stored
  <2>3. image \in Images
    BY <2>1, <2>2, ErasedImage
  <2>4. image.phones \in Seq(Phones \cup Asking)
    BY <2>3 DEF Images
  <2>5. /\ shown' = [shown EXCEPT ![a] = image.phones]
        /\ UNCHANGED <<build, app, session, page, overlapped>>
    BY <2>1 DEF ClickRow, Refresh
  <2>. QED  BY <1>21, <1>22, <2>4, <2>5
<1>9. ASSUME NEW a \in Apps, OpenWizard(a)
      PROVE  Running'
  <2>1. /\ UNCHANGED <<build, app, overlapped, shown, session>>
        /\ page' = [page EXCEPT ![a]["modal"] = "welcome"]
    BY <1>9 DEF OpenWizard, Turn, history
  <2>2. page' \in [Apps -> [Wizards -> Pages]]
    <3>1. [page EXCEPT ![a]["modal"] = "welcome"] \in [Apps -> [Wizards -> Pages]]
      BY <1>20, <1>23 DEF Pages
    <3>. QED  BY <1>22, <2>1, <3>1
  <2>. QED  BY <1>21, <1>22, <2>1, <2>2
<1>13. ASSUME NEW a \in Apps, NEW w \in Wizards,
              NamePc(a, w) \/ ConfirmCode(a, w) \/ FinishWizard(a, w) \/ CloseWizard(a, w)
      PROVE  Running'
  <2>1. \E next \in Pages : page' = [page EXCEPT ![a][w] = next]
    BY <1>13 DEF NamePc, ConfirmCode, FinishWizard, CloseWizard, Turn, Pages
  <2>2. page' \in [Apps -> [Wizards -> Pages]]
    BY <1>22, <2>1
  <2>3. /\ UNCHANGED <<build, app, overlapped>>
        /\ UNCHANGED shown \/ shown' = [shown EXCEPT ![a] = mem[a].phones]
        /\ \/ UNCHANGED session
           \/ session' = [session EXCEPT ![a] = [by |-> w, confirmed |-> FALSE]]
           \/ session' = [session EXCEPT ![a].confirmed = @ \/ session[a].by = w]
           \/ session' = [session EXCEPT ![a] = session[a]]
    BY <1>13 DEF NamePc, ConfirmCode, FinishWizard, CloseWizard, Refresh, history
  <2>4. session' \in [Apps -> OwnSessions]
    <3>1. CASE session' = [session EXCEPT ![a].confirmed = @ \/ session[a].by = w]
      BY <1>22, <3>1 DEF OwnSessions
    <3>. QED  BY <1>20, <1>22, <2>3, <3>1
  <2>5. shown' \in [Apps -> Seq(Phones \cup Asking)]
    BY <1>1, <1>22, <2>3
  <2>. QED  BY <1>21, <1>22, <2>2, <2>3, <2>4, <2>5
<1>10. ASSUME \/ \E p \in Asking : PairingRequest(p)
              \/ Expires \/ PhoneConfirms \/ UNCHANGED vars
       PROVE  Running'
  BY <1>10, <1>21, <1>22
     DEF PairingRequest, Expires, PhoneConfirms, vars, appVars, history
<1>. QED
  BY <1>2, <1>3, <1>4, <1>5, <1>6, <1>7, <1>8, <1>9, <1>10, <1>11, <1>12, <1>13
     DEF Next, Process, Window, Wizard

Sessions ==
  [phone : Asking \cup {"none"}, phoneConfirmed : BOOLEAN,
   pcConfirmed : BOOLEAN, expired : BOOLEAN]

\* The service trusts nobody, since its user never confirms.
Unconfirmed ==
  /\ service \in Images /\ service.phones = <<>>
  /\ pending \in Sessions /\ ~pending.pcConfirmed

\* No step of a phone is the confirmation of the user.
LEMMA UnconfirmedStep ==
  ASSUME Unconfirmed, [Next]_vars
  PROVE  Unconfirmed'
<1>. USE DEF Unconfirmed
<1>1. ASSUME NEW a \in Apps, Process(a) \/ Window(a) \/ Wizard(a)
      PROVE  UNCHANGED serviceVars
  <2>1. ASSUME Process(a)
        PROVE  UNCHANGED serviceVars
    BY <2>1 DEF Process, Start, Load, MakeWindow, Quit, Exit, Kill
  <2>2. ASSUME Window(a)
        PROVE  UNCHANGED serviceVars
    BY <2>2 DEF Window, OpenPhonesPage, SaveSettings, OpenDialog, CloseDialog,
                RemoveRow, RevokeRow, ClickRow
  <2>3. ASSUME Wizard(a)
        PROVE  UNCHANGED serviceVars
    BY <2>3 DEF Wizard, OpenWizard, NamePc, ConfirmCode, FinishWizard, CloseWizard
  <2>. QED  BY <1>1, <2>1, <2>2, <2>3
<1>2. ASSUME UNCHANGED serviceVars
      PROVE  Unconfirmed'
  BY <1>2 DEF serviceVars
<1>3. ASSUME NEW p \in Asking, PairingRequest(p)
      PROVE  Unconfirmed'
  BY <1>3 DEF PairingRequest, Sessions
<1>4. ASSUME Expires
      PROVE  Unconfirmed'
  BY <1>4 DEF Expires, Sessions
<1>5. ASSUME PhoneConfirms
      PROVE  Unconfirmed'
  <2>. DEFINE s == [pending EXCEPT !.phoneConfirmed = TRUE]
  <2>1. s \in Sessions /\ ~s.pcConfirmed
    BY DEF Sessions
  <2>2. ~BothConfirmed(s)
    BY <2>1 DEF BothConfirmed
  <2>3. pending' = s /\ UNCHANGED service
    BY <1>5, <2>2 DEF PhoneConfirms
  <2>. QED  BY <2>1, <2>3
<1>6. UNCHANGED vars => UNCHANGED serviceVars
  BY DEF vars
<1>. QED  BY <1>1, <1>2, <1>3, <1>4, <1>5, <1>6 DEF Next
-----------------------------------------------------------------------------
(* The rows *)

\* Whoever changes the phones of a window's KeyStore fills the rows again.
LEMMA RowsStep ==
  ASSUME Stored, Running, RowsCurrent, [Next]_vars
  PROVE  RowsCurrent'
<1>. DEFINE RowIs(b) == shown[b] \in {<<>>, mem[b].phones}
            Kept(b) == app[b] = "window" /\ shown'[b] = shown[b] /\ mem'[b] = mem[b]
<1>. SUFFICES ASSUME NEW b \in Apps, app'[b] = "window"
              PROVE  RowIs(b)'
  BY DEF RowsCurrent
<1>1. Kept(b) => RowIs(b)'
  BY DEF RowsCurrent
<1>2. /\ app \in [Apps -> AppStates] /\ mem \in [Apps -> Images]
      /\ shown \in [Apps -> Seq(Phones \cup Asking)]
  BY DEF Running, Stored
<1>3. ASSUME NEW a \in Apps, Start(a) \/ Load(a) \/ Quit(a) \/ Exit(a) \/ Kill(a)
      PROVE  Kept(b)
  BY <1>2, <1>3 DEF Start, Load, Quit, Exit, Kill, Ends, Live
<1>4. ASSUME NEW a \in Apps, MakeWindow(a)
      PROVE  RowIs(b)'
  <2>1. CASE a = b
    BY <1>2, <1>4, <2>1 DEF MakeWindow
  <2>2. CASE a # b
    BY <1>1, <1>2, <1>4, <2>2 DEF MakeWindow
  <2>. QED  BY <2>1, <2>2
<1>5. ASSUME NEW a \in Apps, NEW w \in Wizards,
             OpenPhonesPage(a) \/ CloseDialog(a) \/ FinishWizard(a, w)
      PROVE  RowIs(b)'
  <2>1. /\ shown' = [shown EXCEPT ![a] = mem[a].phones] /\ UNCHANGED <<app, mem>>
    BY <1>5 DEF OpenPhonesPage, CloseDialog, FinishWizard, Refresh
  <2>. QED  BY <1>1, <1>2, <2>1
<1>6. ASSUME NEW a \in Apps, NEW w \in Wizards,
             \/ SaveSettings(a) \/ OpenDialog(a)
             \/ OpenWizard(a) \/ NamePc(a, w) \/ ConfirmCode(a, w) \/ CloseWizard(a, w)
      PROVE  Kept(b)
  BY <1>6 DEF SaveSettings, OpenDialog, OpenWizard, NamePc, ConfirmCode, CloseWizard,
              appVars, Turn
<1>7. ASSUME NEW a \in Apps, NEW i \in 1..Limit, RemoveRow(a, i) \/ RevokeRow(a, i)
      PROVE  RowIs(b)'
  <2>1. PICK image : ClickRow(a, i, image)
    BY <1>7 DEF RemoveRow, RevokeRow
  <2>2. /\ mem' = [mem EXCEPT ![a] = image] /\ shown' = [shown EXCEPT ![a] = image.phones]
        /\ UNCHANGED app
    BY <2>1 DEF ClickRow, Refresh
  <2>. QED  BY <1>1, <1>2, <2>2
<1>9. "first" \in Wizards
  BY DEF Wizards
<1>8. ASSUME \/ \E p \in Asking : PairingRequest(p)
             \/ Expires \/ PhoneConfirms \/ UNCHANGED vars
      PROVE  Kept(b)
  BY <1>8 DEF PairingRequest, Expires, PhoneConfirms, vars, appVars
<1>. HIDE DEF RowIs, Kept
<1>. QED
  BY <1>1, <1>3, <1>4, <1>5, <1>6, <1>7, <1>8, <1>9 DEF Next, Process, Window, Wizard
-----------------------------------------------------------------------------
(* Instances that are alone *)

\* The instance has read the vault and may save over it.
Knows(a) == app[a] \in {"loaded", "window", "leaving"}

\* Nobody comes to life, and only Load makes an instance know the vault.
NoneAdded ==
  /\ overlapped' = overlapped
  /\ \A b \in Apps : /\ Live(b)' => Live(b)
                     /\ Knows(b)' => Knows(b) \/ ReadsVault(b)

\* Only Start brings an instance to life.
LEMMA LivesNext ==
  ASSUME Running, [Next]_vars
  PROVE  NoneAdded \/ \E a \in Apps : Start(a)
<1>. USE DEF Running, AppStates, Live, Knows, NoneAdded
<1>1. ASSUME NEW a \in Apps, Load(a)
      PROVE  NoneAdded
  BY <1>1 DEF Load, ReadsVault, history
<1>2. ASSUME NEW a \in Apps, MakeWindow(a)
      PROVE  NoneAdded
  BY <1>2 DEF MakeWindow, history
<1>3. ASSUME NEW a \in Apps, Quit(a) \/ Exit(a) \/ Kill(a)
      PROVE  NoneAdded
  BY <1>3 DEF Quit, Exit, Kill, Ends, history
<1>4. ASSUME UNCHANGED <<app, overlapped>>
      PROVE  NoneAdded
  BY <1>4
<1>5. ASSUME NEW a \in Apps, Window(a)
      PROVE  NoneAdded
  BY <1>4, <1>5 DEF Window, OpenPhonesPage, SaveSettings, OpenDialog, CloseDialog,
                    RemoveRow, RevokeRow, ClickRow, appVars, history
<1>6. ASSUME NEW a \in Apps, Wizard(a)
      PROVE  NoneAdded
  BY <1>4, <1>6 DEF Wizard, OpenWizard, NamePc, ConfirmCode, FinishWizard, CloseWizard,
                    Turn, history
<1>7. ASSUME \/ \E p \in Asking : PairingRequest(p)
             \/ Expires \/ PhoneConfirms \/ UNCHANGED vars
      PROVE  NoneAdded
  BY <1>4, <1>7 DEF PairingRequest, Expires, PhoneConfirms, vars, appVars, history
<1>. QED
  BY <1>1, <1>2, <1>3, <1>5, <1>6, <1>7 DEF Next, Process

\* What one instance that is alone knows, as long as no Save was torn.
KnowsTheVault ==
  /\ committed \subseteq vault.revoked
  /\ \A b \in Apps : Knows(b) =>
       /\ committed \subseteq mem[b].revoked
       /\ vault # NoFile => mem[b].identity = vault.identity

OneLives == \A a, b \in Apps : Live(a) /\ Live(b) => a = b

LEMMA AloneParts == Alone <=> (~overlapped => OneLives /\ (~torn => KnowsTheVault))
BY DEF Alone, OneLives, KnowsTheVault, Knows

\* A torn Save is never forgotten.
LEMMA TornStays ==
  ASSUME Stored, [Next]_vars, torn
  PROVE  torn'
<1>1. \A image : Saves(image) => torn'
  BY DEF Saves
<1>2. CASE NoStorage
  BY <1>2 DEF NoStorage
<1>3. ASSUME NEW a \in Apps, SavesMemory(a) \/ ReadsVault(a) \/ IsKilled(a)
      PROVE  torn'
  BY <1>1, <1>3 DEF SavesMemory, ReadsVault, IsKilled
<1>4. ASSUME NEW a \in Apps, NEW i \in 1..Limit, Erases(a, i)
      PROVE  torn'
  BY <1>1, <1>4 DEF Erases
<1>. QED  BY <1>2, <1>3, <1>4, StorageNext

\* The first instance to live is the only one.
LEMMA StartAlone ==
  ASSUME Running, Alone, NEW a \in Apps, Start(a), ~overlapped'
  PROVE  Alone'
<1>1. app \in [Apps -> AppStates] /\ overlapped \in BOOLEAN
  BY DEF Running
<1>2. UNCHANGED <<vault, mem, committed, torn>>
  BY DEF Start
<1>3. ~overlapped /\ OneLives' /\ \A b \in Apps : Knows(b)' => Knows(b)
  <2>1. CASE app' = [app EXCEPT ![a] = "ended"] /\ UNCHANGED overlapped
    <3>1. \A b \in Apps : (Live(b)' => Live(b)) /\ (Knows(b)' => Knows(b))
      BY <1>1, <2>1 DEF Live, Knows
    <3>. QED  BY <2>1, <3>1, AloneParts DEF OneLives
  <2>2. CASE /\ app' = [app EXCEPT ![a] = "starting"]
             /\ overlapped' = (overlapped \/ \E b \in Apps : Live(b))
    <3>1. ~overlapped /\ \A b \in Apps : ~Live(b)
      BY <2>2
    <3>2. \A b \in Apps : (Live(b)' => b = a) /\ ~Knows(b)'
      BY <1>1, <2>2, <3>1 DEF Live, Knows
    <3>. QED  BY <3>1, <3>2 DEF OneLives
  <2>. QED  BY <2>1, <2>2 DEF Start
<1>4. ~torn' => KnowsTheVault'
  BY <1>2, <1>3, AloneParts DEF KnowsTheVault
<1>5. Alone' <=> (~overlapped' => OneLives' /\ (~torn' => KnowsTheVault'))
  BY DEF Alone, OneLives, KnowsTheVault, Knows
<1>. QED  BY <1>3, <1>4, <1>5

\* A whole Save of the one instance keeps what it knows and the vault the same.
LEMMA SaveAlone ==
  ASSUME KnowsTheVault, ~torn', NEW a \in Apps, Knows(a), NEW image, Saves(image),
         image.identity = mem[a].identity, mem[a].revoked \subseteq image.revoked,
         \A b \in Apps : Knows(b)' => a = b /\ mem'[b] = image
  PROVE  KnowsTheVault'
<1>1. \/ vault' = image /\ committed' = committed \cup image.revoked
      \/ vault' = vault /\ committed' = committed
  BY DEF Saves
<1>2. /\ committed \subseteq vault.revoked /\ committed \subseteq mem[a].revoked
      /\ vault # NoFile => mem[a].identity = vault.identity
  BY DEF KnowsTheVault
<1>. QED  BY <1>1, <1>2 DEF KnowsTheVault

\* A process that lives by itself saves nothing less than what the vault has.
LEMMA AloneStep ==
  ASSUME Stored, Running, Alone, [Next]_vars
  PROVE  Alone'
<1>. SUFFICES ASSUME ~overlapped'
              PROVE  Alone'
  BY DEF Alone
<1>1. CASE \E a \in Apps : Start(a)
  BY <1>1, StartAlone
<1>2. CASE NoneAdded
  <2>1. ~overlapped /\ OneLives
    BY <1>2, AloneParts DEF NoneAdded
  <2>2. OneLives'
    BY <1>2, <2>1 DEF NoneAdded, OneLives
  <2>3. mem \in [Apps -> Images]
    BY DEF Stored
  <2>4. \A b \in Apps : Knows(b)' => Live(b) /\ (Knows(b) \/ ReadsVault(b))
    BY <1>2 DEF NoneAdded, Knows, Live, ReadsVault
  <2>5. ASSUME ~torn'
        PROVE  KnowsTheVault'
    <3>1. KnowsTheVault
      BY <2>1, <2>5, AloneParts, TornStays
    <3>3. ASSUME NEW a \in Apps, ReadsVault(a)
          PROVE  KnowsTheVault'
      <4>1. \A b \in Apps : Knows(b)' => a = b
        BY <2>1, <2>4, <3>3 DEF ReadsVault, Live, OneLives
      <4>2. /\ UNCHANGED <<vault, committed>>
            /\ vault.revoked \subseteq mem'[a].revoked
            /\ vault # NoFile => mem'[a].identity = vault.identity
        BY <2>3, <3>3, LoadedImage DEF ReadsVault, Stored
      <4>. QED  BY <3>1, <4>1, <4>2 DEF KnowsTheVault
    <3>2. CASE NoStorage
      <4>1. CASE \E a \in Apps : ReadsVault(a)
        BY <3>3, <4>1
      <4>2. CASE ~\E a \in Apps : ReadsVault(a)
        BY <2>4, <3>1, <3>2, <4>2 DEF NoStorage, KnowsTheVault
      <4>. QED  BY <4>1, <4>2
    <3>4. ASSUME NEW a \in Apps, Forgets(a), Live(a)
          PROVE  \A b \in Apps : ~Knows(b)'
      <4>1. app \in [Apps -> AppStates]
        BY DEF Running
      <4>2. \A b \in Apps : Knows(b)' => b # a
        BY <3>4, <4>1 DEF Forgets, Knows
      <4>. QED  BY <2>1, <2>4, <3>4, <4>2 DEF OneLives
    <3>5. ASSUME NEW a \in Apps, IsKilled(a)
          PROVE  KnowsTheVault'
      BY <3>1, <3>4, <3>5 DEF IsKilled, KnowsTheVault
    <3>6. ASSUME NEW a \in Apps, SavesMemory(a)
          PROVE  KnowsTheVault'
      <4>1. Knows(a) /\ Live(a)
        BY <3>6 DEF SavesMemory, Knows, Live
      <4>2. \A b \in Apps : Knows(b)' => a = b
        BY <2>1, <2>4, <4>1 DEF OneLives
      <4>3. \A b \in Apps : Knows(b)' => a = b /\ mem'[b] = mem[a]
        BY <3>4, <3>6, <4>1, <4>2 DEF SavesMemory
      <4>. QED  BY <2>5, <3>1, <3>6, <4>1, <4>3, SaveAlone DEF SavesMemory
    <3>7. ASSUME NEW a \in Apps, NEW i \in 1..Limit, Erases(a, i)
          PROVE  KnowsTheVault'
      <4>1. Knows(a) /\ Live(a) /\ i \in 1..Len(mem[a].phones)
        BY <3>7 DEF Erases, Knows, Live, Stored
      <4>2. PICK image \in {Revoked(mem[a], mem[a].phones[i]),
                            Without(mem[a], mem[a].phones[i])} :
              mem' = [mem EXCEPT ![a] = image] /\ Saves(image)
        BY <3>7 DEF Erases
      <4>3. image.identity = mem[a].identity /\ mem[a].revoked \subseteq image.revoked
        BY <4>1, <4>2, ErasedImage DEF Stored
      <4>4. \A b \in Apps : Knows(b)' => a = b /\ mem'[b] = image
        BY <2>1, <2>3, <2>4, <4>1, <4>2 DEF OneLives
      <4>. QED  BY <2>5, <3>1, <4>1, <4>2, <4>3, <4>4, SaveAlone
    <3>. QED  BY <3>2, <3>3, <3>5, <3>6, <3>7, StorageNext
  <2>6. Alone' <=> (~overlapped' => OneLives' /\ (~torn' => KnowsTheVault'))
    BY DEF Alone, OneLives, KnowsTheVault, Knows
  <2>. QED  BY <2>2, <2>5, <2>6
<1>. QED  BY <1>1, <1>2, LivesNext
-----------------------------------------------------------------------------
(* The inductive invariant and what follows from it *)

\* The invariant by its parts, each of which a lemma above preserves.
LEMMA InvParts ==
  DesktopInv <=> Stored /\ Running /\ Unconfirmed /\ RowsCurrent /\ Alone
BY DEF DesktopInv, TypeOK, NobodyAdded, Stored, Running, Unconfirmed,
       AppStates, Pages, Sessions

\* Nothing runs at first, and the vault is one that an earlier run left.
LEMMA InvInit == Init => DesktopInv
<1>. SUFFICES ASSUME Init
              PROVE  DesktopInv
  OBVIOUS
<1>1. ASSUME NEW s \in SeqOf(Phones, Limit)
      PROVE  s \in Seq(Phones)
  <2>1. PICK m \in 0..Limit : s \in [1..m -> Phones]
    BY DEF SeqOf
  <2>. QED  BY <2>1 DEF Limit
<1>2. Unloaded \in Images /\ Unloaded.phones \in Seq(Phones) /\ Unloaded.phones = <<>>
  <2>1. <<>> \in Seq(Phones)
    OBVIOUS
  <2>. QED  BY <2>1, EmptyImages
<1>3. vault \in Images /\ vault.phones \in Seq(Phones) /\ vault.revoked \subseteq Phones
  <2>1. CASE vault = NoFile
    BY <1>2, <2>1 DEF NoFile, Images
  <2>2. CASE vault \in LeftBehind
    <3>1. PICK s \in SeqOf(Phones, Limit), r \in SUBSET Phones :
            vault = [identity |-> "first", phones |-> s, revoked |-> r]
      BY <2>2 DEF LeftBehind
    <3>2. s \in Seq(Phones) /\ s \in Seq(Phones \cup Asking)
      <4>1. s \in Seq(Phones)
        BY <1>1
      <4>. QED  BY <4>1
    <3>. QED  BY <3>1, <3>2 DEF Images, Identities
  <2>. QED  BY <2>1, <2>2 DEF Init
<1>4. Stored
  BY <1>2, <1>3 DEF Init, Stored
<1>5. Running
  <2>1. <<>> \in Seq(Phones \cup Asking)
    OBVIOUS
  <2>2. NotPairing \in [by : Wizards \cup {"none"}, confirmed : BOOLEAN]
        /\ NoPage \in [Wizards -> Pages]
    BY DEF NotPairing, NoPage, Wizards, Pages
  <2>. QED  BY <2>1, <2>2 DEF Init, Running, AppStates
<1>6. Unconfirmed
  <2>1. service = [identity |-> "service", phones |-> <<>>, revoked |-> {}]
    BY DEF Init, Unloaded
  <2>2. service \in Images /\ service.phones = <<>>
    BY <2>1 DEF Images, Identities
  <2>. QED  BY <2>2 DEF Init, Unconfirmed, Sessions, NoSession
<1>7. RowsCurrent
  BY DEF Init, RowsCurrent
<1>8. Alone
  BY DEF Init, Alone, Live
<1>. QED  BY <1>4, <1>5, <1>6, <1>7, <1>8, InvParts

\* The invariant holds of every behaviour: an instance's list is one the vault once held,
\* its rows are those of its list, and alone, as long as no Save was torn, it knows what
\* the vault knows.
THEOREM DesktopInvariant == Spec => []DesktopInv
<1>1. ASSUME DesktopInv, [Next]_vars
      PROVE  DesktopInv'
  <2>1. Stored /\ Running /\ Unconfirmed /\ RowsCurrent /\ Alone
    BY <1>1, InvParts
  <2>2. Stored' /\ Running' /\ Unconfirmed' /\ RowsCurrent' /\ Alone'
    BY <1>1, <2>1, StoredStep, RunningStep, UnconfirmedStep, RowsStep, AloneStep
  <2>. QED  BY <2>2 DEF DesktopInv, TypeOK, NobodyAdded, Stored, Running, Unconfirmed,
                        AppStates, Pages, Sessions
<1>. QED  BY <1>1, InvInit, PTL DEF Spec

\* Types, of every process and of the vault.
THEOREM DesktopTypeOK == Spec => []TypeOK
<1>1. DesktopInv => TypeOK
  BY DEF DesktopInv
<1>. QED  BY <1>1, DesktopInvariant, PTL

\* No phone is ever added, by its own confirmation or by the user's: the phones that ask
\* meet the service, and the user an application.
THEOREM DesktopNobodyPairsAlone == Spec => []NobodyPairsAlone
<1>1. DesktopInv => NobodyPairsAlone
  <2>1. \A s \in Seq(Phones) : ToSet(s) \subseteq Phones
    BY DEF ToSet
  <2>. QED  BY <2>1 DEF DesktopInv, NobodyAdded, NobodyPairsAlone
<1>. QED  BY <1>1, DesktopInvariant, PTL

\* The vault keeps its identity and its revocations while no instance was started beside
\* another and no Save was cut short after it truncated the file, through saves that
\* fail before that, kills and exits that save once more.
THEOREM DesktopVaultKeepsWhatItKnows == Spec => VaultKeepsWhatItKnows
<1>1. ASSUME DesktopInv, [Next]_vars, ~overlapped', ~torn', vault # NoFile
      PROVE  vault'.identity = vault.identity /\ committed \subseteq vault'.revoked
  <2>. USE InvParts
  <2>1. Stored /\ Running /\ Alone
    BY <1>1
  <2>2. ~overlapped
    BY <1>1, <2>1, LivesNext DEF NoneAdded, Start, Running
  <2>3. KnowsTheVault
    BY <1>1, <2>1, <2>2, AloneParts, TornStays
  <2>4. CASE UNCHANGED vault
    BY <2>3, <2>4 DEF KnowsTheVault
  <2>7. ASSUME NEW a \in Apps, Knows(a), NEW image, Saves(image),
               image.identity = mem[a].identity, mem[a].revoked \subseteq image.revoked
        PROVE  vault'.identity = vault.identity /\ committed \subseteq vault'.revoked
    <3>1. vault' = image \/ vault' = vault
      BY <1>1, <2>7 DEF Saves
    <3>. QED  BY <1>1, <2>3, <2>7, <3>1 DEF KnowsTheVault
  <2>5. ASSUME NEW a \in Apps, SavesMemory(a)
        PROVE  vault'.identity = vault.identity /\ committed \subseteq vault'.revoked
    BY <2>5, <2>7 DEF SavesMemory, Knows
  <2>6. ASSUME NEW a \in Apps, NEW i \in 1..Limit, Erases(a, i)
        PROVE  vault'.identity = vault.identity /\ committed \subseteq vault'.revoked
    <3>1. i \in 1..Len(mem[a].phones) /\ Knows(a)
      BY <2>1, <2>6 DEF Erases, Stored, Knows
    <3>2. PICK image \in {Revoked(mem[a], mem[a].phones[i]),
                          Without(mem[a], mem[a].phones[i])} : Saves(image)
      BY <2>6 DEF Erases
    <3>3. image.identity = mem[a].identity /\ mem[a].revoked \subseteq image.revoked
      BY <2>1, <3>1, <3>2, ErasedImage DEF Stored
    <3>. QED  BY <2>7, <3>1, <3>2, <3>3
  <2>. QED
    BY <1>1, <2>4, <2>5, <2>6, StorageNext DEF NoStorage, ReadsVault, IsKilled
<1>. QED  BY <1>1, DesktopInvariant, PTL DEF Spec, VaultKeepsWhatItKnows

\* A row's button removes the phone that this row shows and no other, and Revoke
\* blacklists the id that the row shows, if no two rows show one id.
THEOREM DesktopClickTakesTheShownPhone == Spec => ClickTakesTheShownPhone
<1>1. ASSUME DesktopInv, NEW a \in Apps, NEW i \in 1..Limit, NEW image,
             ClickRow(a, i, image), IsInjective(shown[a])
      PROVE  /\ i \in 1..Len(mem[a].phones) /\ shown[a] = mem[a].phones
             /\ mem[a] \in Images /\ mem'[a] = image
             /\ RemoveFirst(mem[a].phones, mem[a].phones[i]) = RemoveAt(shown[a], i)
  <2>1. Stored /\ Running /\ RowsCurrent
    BY <1>1, InvParts
  <2>2. mem \in [Apps -> Images] /\ mem[a].phones \in Seq(Phones)
    BY <2>1 DEF Stored
  <2>3. /\ app[a] = "window" /\ i \in DOMAIN shown[a] /\ i <= Len(mem[a].phones)
        /\ mem' = [mem EXCEPT ![a] = image]
    BY <1>1 DEF ClickRow, Free
  <2>4. shown[a] = mem[a].phones
    BY <2>1, <2>3 DEF RowsCurrent
  <2>5. i \in 1..Len(mem[a].phones)
    BY <2>2, <2>3, <2>4
  <2>. QED  BY <1>1, <2>2, <2>3, <2>4, <2>5, FirstRow
<1>2. ASSUME DesktopInv, NEW a \in Apps, NEW i \in 1..Limit,
             RemoveRow(a, i), IsInjective(shown[a])
      PROVE  mem'[a] = [mem[a] EXCEPT !.phones = RemoveAt(shown[a], i)]
  BY <1>1, <1>2 DEF RemoveRow, Without
<1>3. ASSUME DesktopInv, NEW a \in Apps, NEW i \in 1..Limit,
             RevokeRow(a, i), IsInjective(shown[a])
      PROVE  mem'[a] = [mem[a] EXCEPT !.phones = RemoveAt(shown[a], i),
                                      !.revoked = @ \cup {shown[a][i]}]
  <2>. DEFINE p == mem[a].phones[i]
              kept == RemoveAt(shown[a], i)
  <2>1. /\ mem[a] \in Images /\ mem'[a] = Revoked(mem[a], p)
        /\ p = shown[a][i] /\ RemoveFirst(mem[a].phones, p) = kept
    BY <1>1, <1>3 DEF RevokeRow
  <2>. HIDE DEF p, kept
  <2>2. Without(mem[a], p) = [mem[a] EXCEPT !.phones = kept]
    BY <2>1 DEF Without
  <2>3. Revoked(mem[a], p) = [[mem[a] EXCEPT !.phones = kept] EXCEPT !.revoked = @ \cup {p}]
    BY <2>2 DEF Revoked
  <2>4. Revoked(mem[a], p) = [mem[a] EXCEPT !.phones = kept, !.revoked = @ \cup {p}]
    BY <2>1, <2>3 DEF Images
  <2>. QED  BY <2>1, <2>4 DEF kept
<1>4. DesktopInv => ClickTakesTheShownPhone!1
  BY <1>2, <1>3
<1>. QED  BY <1>4, DesktopInvariant, PTL DEF Spec, ClickTakesTheShownPhone
-----------------------------------------------------------------------------
(* The symbol of the pairing dialog: an inductive invariant for each of its loops, and
   the one they make together *)

(* Until the version is found the smaller ones are known not to fit; then version,
   level and bits belong together. *)
NoSmallerFits == \A v \in 1..(version - 1) : ~Fits(numChars, v, requested)

ChoiceInv ==
  /\ numChars \in Lengths /\ requested \in Levels
  /\ level \in 0..3 /\ version \in 1..MaxVersion
  /\ stage \in {"fit", "boost"} => NoSmallerFits /\ level = requested
  /\ stage \in {"boost", "segments"} =>
       Fits(numChars, version, level) /\ usedBits = TotalBits(numChars, version)
  /\ stage = "segments" =>
       /\ NoSmallerFits /\ level >= requested
       /\ \A l \in (level + 1)..3 : ~Fits(numChars, version, l)
  /\ SmallestStrongestSymbol

(* The right column of the k-th pair; the pairs scanned so far are the first ones. *)
RightColumn(v, k) == IF k <= 2 * v + 5 THEN 4 * v + 18 - 2 * k ELSE 4 * v + 17 - 2 * k

ScanInv ==
  /\ scanned \in Seq([x : Int, upwards : BOOLEAN])
  /\ \A k \in DOMAIN scanned :
       scanned[k].x = RightColumn(version, k) /\ scanned[k].upwards = (k % 2 = 1)
  /\ stage \notin {"scan", "trial", "undo", "done"} => scanned = <<>>
  /\ stage = "scan" =>
       /\ Len(scanned) <= 2 * version + 8
       /\ right = IF Len(scanned) = 2 * version + 5 THEN 6
                  ELSE RightColumn(version, Len(scanned) + 1)
  /\ stage \in {"trial", "undo", "done"} => Len(scanned) = 2 * version + 8

(* The data codewords of a short block. *)
ShortData(v, l) == ShortBlockLen(v, l) - EccLen(v, l)

(* The k-th codeword drawn would be the k-th of the table with NumBlocks columns
   and an index in each row, were the short blocks not stepped over in row
   ShortData; after that row it is the ShortBlocks-th one further on. *)
SlotOf(v, l, k) ==
  k - 1 + (IF k <= ShortData(v, l) * NumBlocks(v, l) THEN 0 ELSE ShortBlocks(v, l))

RowsInv ==
  /\ stage \in {"fit", "boost", "segments", "patterns", "divisor", "failed"} =>
       row = 0 /\ codewords = <<>>
  /\ stage \in {"blocks", "scan"} =>
       /\ row \in 0..Rows(version, level)
       /\ codewords \in Seq(Nat \X Nat)
       /\ Len(codewords) = row * NumBlocks(version, level)
            - (IF row <= ShortData(version, level) THEN 0 ELSE ShortBlocks(version, level))
       /\ \A k \in DOMAIN codewords :
            /\ codewords[k][1] < NumBlocks(version, level)
            /\ codewords[k][2] * NumBlocks(version, level) + codewords[k][1]
                 = SlotOf(version, level, k)
  /\ stage = "scan" => row = Rows(version, level)

(* The best of the masks tried so far, none at first. *)
BestOf(n) ==
  IF n = 0 THEN minPenalty = NoPenalty
  ELSE /\ mask \in 0..(n - 1) /\ minPenalty = score[mask]
       /\ \A m \in 0..(n - 1) :
            score[mask] < score[m] \/ (score[mask] = score[m] /\ mask <= m)

MaskInv ==
  /\ trial \in 0..8 /\ score \in [0..7 -> Nat]
  /\ stage \notin {"trial", "undo", "done"} => trial = 0
  /\ stage \notin {"undo", "done"} => masked = {} /\ BestOf(trial)
  /\ stage = "undo" => trial <= 7 /\ masked = {trial} /\ BestOf(trial + 1)
  /\ stage = "done" => mask \in 0..7 /\ FirstSmallestMask

(* p has its colours in the symbol, apart from the timing modules under a finder. *)
UnderFinder(m, v) ==
  \/ m[1] <= 7 /\ m[2] <= 7
  \/ m[1] >= Size(v) - 8 /\ m[2] <= 7
  \/ m[1] <= 7 /\ m[2] >= Size(v) - 8

HasColours(p) ==
  \A m \in Cells(p, version) :
    \/ m \in black <=> m \in Black(p, version, level)
    \/ p.kind = "timing" /\ UnderFinder(m, version)

(* The first d patterns are drawn, and nothing else. *)
FirstDrawn(d) ==
  /\ isFunction = UNION {Cells(Patterns(version)[i], version) : i \in 1..d}
  /\ \A i \in 1..d : HasColours(Patterns(version)[i])

(* The format word of mask m, in both places. *)
FormatDrawn(m) ==
  \A c \in FormatCells(version) : c \in black <=> c \in FormatBlack(version, level, m)

DrawnTurns == Len(Patterns(version)) - Len(todo)

DrawInv ==
  /\ stage \in {"fit", "boost", "segments", "failed"} => isFunction = {}
  /\ stage = "patterns" =>
       /\ Len(todo) \in 1..Len(Patterns(version))
       /\ todo = SubSeq(Patterns(version), DrawnTurns + 1, Len(Patterns(version)))
       /\ FirstDrawn(DrawnTurns)
  /\ stage \in {"divisor", "blocks", "scan", "trial", "undo"} =>
       isFunction = UNION {Cells(Patterns(version)[i], version) :
                             i \in DOMAIN Patterns(version)}
  /\ stage \in {"divisor", "blocks", "scan", "trial", "undo", "done"} =>
       \A i \in DOMAIN Patterns(version) :
         HasColours(Patterns(version)[i]) \/ Patterns(version)[i].kind = "format"
  /\ stage = "done" => FormatDrawn(mask)

(* The data modules of the columns behind the scan are met, each once; Met is how many
   data modules some columns have. *)
Lines == 0..(Size(version) - 1)
Behind == {c \in Lines : c > right /\ c # 6}
Met(columns) == Cardinality((columns \X Lines) \ isFunction)

CountInv ==
  /\ stage \notin {"scan", "trial", "undo", "done"} => visited = 0 /\ placed = 0
  /\ stage = "scan" => visited = Met(Behind)
  /\ stage \in {"trial", "undo"} =>
       visited = Met(Lines \ {6}) /\ Len(codewords) <= RawCodewords(version)
  /\ stage \in {"scan", "trial", "undo"} => placed = Min({visited, 8 * Len(codewords)})

QrInv == ChoiceInv /\ RowsInv /\ ScanInv /\ MaskInv /\ DrawInv /\ CountInv
-----------------------------------------------------------------------------

\* The entries of the two tables are positive.
LEMMA TableEntries ==
  ASSUME NEW l \in 0..3, NEW v \in 1..MaxVersion
  PROVE  EccLen(v, l) \in Nat \ {0} /\ NumBlocks(v, l) \in Nat \ {0}
<1>1. l + 1 \in {1, 2, 3, 4} /\ v \in 1..40
  BY DEF MaxVersion
<1>2. EccCodewordsPerBlock[l + 1][v] \in Nat \ {0}
  <2>1. CASE l + 1 = 1
    BY <1>1, <2>1 DEF EccCodewordsPerBlock
  <2>2. CASE l + 1 = 2
    BY <1>1, <2>2 DEF EccCodewordsPerBlock
  <2>3. CASE l + 1 = 3
    BY <1>1, <2>3 DEF EccCodewordsPerBlock
  <2>4. CASE l + 1 = 4
    BY <1>1, <2>4 DEF EccCodewordsPerBlock
  <2>. QED  BY <1>1, <2>1, <2>2, <2>3, <2>4
<1>3. NumErrorCorrectionBlocks[l + 1][v] \in Nat \ {0}
  <2>1. CASE l + 1 = 1
    BY <1>1, <2>1 DEF NumErrorCorrectionBlocks
  <2>2. CASE l + 1 = 2
    BY <1>1, <2>2 DEF NumErrorCorrectionBlocks
  <2>3. CASE l + 1 = 3
    BY <1>1, <2>3 DEF NumErrorCorrectionBlocks
  <2>4. CASE l + 1 = 4
    BY <1>1, <2>4 DEF NumErrorCorrectionBlocks
  <2>. QED  BY <1>1, <2>1, <2>2, <2>3, <2>4
<1>. QED  BY <1>2, <1>3 DEF EccLen, NumBlocks

\* A symbol holds a whole number of codewords.
LEMMA WholeCodewords ==
  ASSUME NEW v \in 1..MaxVersion
  PROVE  RawCodewords(v) \in Int
<1>1. v \in Nat /\ v \div 7 \in Int
  BY DEF MaxVersion
<1>2. NumRawDataModules(v) \in Int
  <2>. DEFINE n == v \div 7 + 2
  <2>1. n \in Int
    BY <1>1
  <2>. HIDE DEF n
  <2>2. /\ (16 * v + 128) * v + 64 \in Int
        /\ (25 * n - 10) * n - 55 \in Int
    BY <1>1, <2>1
  <2>3. NumRawDataModules(v) = (16 * v + 128) * v + 64
           - (IF v >= 2 THEN (25 * n - 10) * n - 55 ELSE 0)
           - (IF v >= 7 THEN 36 ELSE 0)
    BY DEF NumRawDataModules, n
  <2>. QED  BY <2>2, <2>3
<1>. QED  BY <1>2 DEF RawCodewords

\* A capacity is a number of whole bytes.
LEMMA WholeBytes ==
  ASSUME NEW l \in 0..3, NEW v \in 1..MaxVersion
  PROVE  NumDataCodewords(v, l) \in Int /\ CapacityBits(v, l) = 8 * NumDataCodewords(v, l)
<1>1. EccLen(v, l) \in Nat /\ NumBlocks(v, l) \in Nat
  BY TableEntries
<1>. QED  BY <1>1, WholeCodewords DEF NumDataCodewords, CapacityBits

\* What fits has been counted: a mode, a count and the bytes.
LEMMA BitsThatFit ==
  ASSUME NEW n \in Nat, NEW v \in 1..MaxVersion, NEW l \in 0..3, Fits(n, v, l)
  PROVE  /\ TotalBits(n, v) = 4 + CountBits(v) + 8 * n
         /\ CountBits(v) = (IF v < 10 THEN 8 ELSE 16)
         /\ TotalBits(n, v) <= CapacityBits(v, l)
BY DEF Fits, TotalBits, CountBits

\* The greatest and the smallest of two.
LEMMA OfTwo ==
  ASSUME NEW a \in Int, NEW b \in Int
  PROVE  a <= b => Max({a, b}) = b /\ Min({a, b}) = a
BY DEF Max, Min

-----------------------------------------------------------------------------
\* The strongest level that holds the bits is no weaker than the requested one.
LEMMA Boosted ==
  ASSUME NEW S \in SUBSET (1..3), NEW l \in 0..3, l >= 1 => l \in S,
         NEW best, best = (IF S = {} THEN l ELSE Max(S))
  PROVE  best \in S \cup {l} /\ best >= l /\ \A k \in S : best >= k
<1>1. CASE S = {}
  BY <1>1
<1>2. CASE S # {}
  <2>1. PICK m \in S : \A k \in S : m >= k
    <3>1. CASE 3 \in S
      BY <3>1
    <3>2. CASE 3 \notin S /\ 2 \in S
      BY <3>2
    <3>3. CASE 3 \notin S /\ 2 \notin S
      <4>1. PICK one \in S : TRUE
        BY <1>2
      <4>2. \A k \in S : k = 1
        BY <3>3
      <4>. QED  BY <4>1, <4>2
    <3>. QED  BY <3>1, <3>2, <3>3
  <2>2. Max(S) \in S /\ \A k \in S : Max(S) >= k
    BY <2>1 DEF Max
  <2>. QED  BY <1>2, <2>2
<1>. QED  BY <1>1, <1>2

\* The levels above a level.
LEMMA Stronger ==
  ASSUME NEW l \in 0..3
  PROVE  \A k \in (l + 1)..3 : k \in 0..3 /\ k \in 1..3 /\ k > l
OBVIOUS

\* Once the segments are there nobody changes what was chosen.
LEMMA ChoiceKept ==
  ASSUME ChoiceInv, UNCHANGED <<numChars, requested, fitVars>>,
         stage \notin {"fit", "boost", "segments", "failed"},
         stage' \notin {"fit", "boost", "segments", "failed"}
  PROVE  ChoiceInv'
BY DEF ChoiceInv, NoSmallerFits, SmallestStrongestSymbol, fitVars, Fits, TotalBits,
       CapacityBits, NumDataCodewords

\* Each version is tried in turn, and each stronger level.
LEMMA ChoiceStep ==
  ASSUME ChoiceInv, [QrNext]_qrVars
  PROVE  ChoiceInv'
<1>1. /\ numChars \in Nat /\ requested \in 0..3
      /\ level \in 0..3 /\ version \in 1..MaxVersion
  BY QrAssumption DEF ChoiceInv
<1>2. CASE TakeVersion
  <2>1. /\ stage = "fit" /\ Fits(numChars, version, level)
        /\ UNCHANGED <<numChars, requested, level, version>>
        /\ usedBits' = TotalBits(numChars, version) /\ stage' = "boost"
    BY <1>2 DEF TakeVersion
  <2>. QED  BY <2>1 DEF ChoiceInv, NoSmallerFits, SmallestStrongestSymbol
<1>3. CASE NextVersion
  <2>1. /\ stage = "fit" /\ stage' = "fit" /\ ~Fits(numChars, version, level)
        /\ UNCHANGED <<numChars, requested, level>>
        /\ version < MaxVersion /\ version' = version + 1
    BY <1>3 DEF NextVersion
  <2>2. \A v \in 1..version : ~Fits(numChars, v, requested)
    BY <1>1, <2>1 DEF ChoiceInv, NoSmallerFits, MaxVersion
  <2>3. version' \in 1..MaxVersion /\ (version + 1) - 1 = version
    BY <1>1, <2>1 DEF MaxVersion
  <2>4. NoSmallerFits'
    BY <2>1, <2>2, <2>3 DEF NoSmallerFits
  <2>. QED  BY <2>1, <2>3, <2>4 DEF ChoiceInv, SmallestStrongestSymbol
<1>4. CASE TooLong
  <2>1. /\ stage = "fit" /\ stage' = "failed" /\ ~Fits(numChars, version, level)
        /\ UNCHANGED <<numChars, requested, level, version>>
        /\ version >= MaxVersion
    BY <1>4 DEF TooLong, fitVars
  <2>2. version = MaxVersion
    BY <1>1, <2>1 DEF MaxVersion
  <2>3. \A v \in 1..MaxVersion : ~Fits(numChars, v, requested)
    <3>1. /\ \A v \in 1..(version - 1) : ~Fits(numChars, v, requested)
          /\ ~Fits(numChars, version, requested)
      BY <2>1 DEF ChoiceInv, NoSmallerFits
    <3>2. \A v \in 1..MaxVersion : v = version \/ v \in 1..(version - 1)
      BY <1>1, <2>2 DEF MaxVersion
    <3>. QED  BY <3>1, <3>2
  <2>. QED  BY <2>1, <2>3 DEF ChoiceInv, SmallestStrongestSymbol
<1>5. CASE BoostLevel
  <2>. DEFINE Holds(l) == usedBits <= CapacityBits(version, l)
              holding == {l \in 1..3 : Holds(l)}
  <2>1. /\ stage = "boost" /\ stage' = "segments"
        /\ UNCHANGED <<numChars, requested, version, usedBits>>
        /\ level' = IF holding = {} THEN level ELSE Max(holding)
    BY <1>5 DEF BoostLevel
  <2>2. /\ NoSmallerFits /\ level = requested
        /\ Fits(numChars, version, level) /\ usedBits = TotalBits(numChars, version)
    BY <2>1 DEF ChoiceInv
  <2>3. Holds(level) /\ usedBits # -1
    BY <2>2 DEF Fits
  <2>4. /\ level' \in 0..3 /\ level' >= level /\ Holds(level')
        /\ \A k \in (level' + 1)..3 : ~Holds(k)
    <3>. HIDE DEF Holds
    <3>1. level >= 1 => level \in holding
      BY <1>1, <2>3
    <3>2. holding \in SUBSET (1..3) /\ level \in 0..3
      BY <1>1
    <3>3. /\ level' \in holding \cup {level} /\ level' >= level
          /\ \A k \in holding : level' >= k
      <4>. HIDE DEF holding
      <4>. QED  BY <2>1, <3>1, <3>2, Boosted
    <3>4. level' \in 0..3 /\ Holds(level')
      BY <1>1, <2>3, <3>3
    <3>5. \A k \in (level' + 1)..3 : k \in 1..3 /\ k > level'
      <4>1. level' \in 0..3
        BY <3>4
      <4>. QED  BY <4>1, Stronger
    <3>6. \A k \in (level' + 1)..3 : ~Holds(k)
      <4>1. \A k \in 1..3 : k > level' => ~(level' >= k)
        <5>1. level' \in 0..3
          BY <3>4
        <5>. QED  BY <5>1
      <4>. QED  BY <3>3, <3>5, <4>1
    <3>. QED  BY <3>3, <3>4, <3>6
  <2>5. \A l \in 0..3 : Fits(numChars, version, l) <=> Holds(l)
    BY <2>2, <2>3 DEF Fits
  <2>6. \A l \in (level' + 1)..3 : l \in 0..3
    <3>1. level' \in 0..3
      BY <2>4
    <3>. QED  BY <3>1, Stronger
  <2>7. /\ Fits(numChars, version, level')
        /\ \A l \in (level' + 1)..3 : ~Fits(numChars, version, l)
    BY <2>4, <2>5, <2>6
  <2>. QED
    BY <2>1, <2>2, <2>4, <2>7 DEF ChoiceInv, NoSmallerFits, SmallestStrongestSymbol
<1>6. CASE AppendSegments
  <2>1. /\ stage = "segments" /\ stage' = "patterns"
        /\ UNCHANGED <<numChars, requested, level, version, usedBits>>
    BY <1>6 DEF AppendSegments
  <2>2. /\ NoSmallerFits /\ level >= requested /\ Fits(numChars, version, level)
        /\ usedBits = TotalBits(numChars, version)
        /\ \A l \in (level + 1)..3 : ~Fits(numChars, version, l)
    BY <2>1 DEF ChoiceInv
  <2>. DEFINE count == IF version < 10 THEN 8 ELSE 16
              message == 4 + count + 8 * numChars
  <2>3. usedBits = message /\ message <= CapacityBits(version, level)
    BY <1>1, <2>2, BitsThatFit
  <2>4. PICK whole \in Int : CapacityBits(version, level) = 8 * whole
    BY <1>1, WholeBytes
  <2>5. bits'.message = message
    BY <1>6 DEF AppendSegments
  <2>6. bits'.total = CapacityBits(version, level)
    <3>. DEFINE left == 8 * whole - message
                ended == message + Max({0, Min({4, left})})
                aligned == ended + ((8 - (ended % 8)) % 8)
    <3>1. PICK q \in Int : message = 8 * q + 4
      <4>1. CASE version < 10
        <5>1. numChars + 1 \in Int /\ message = 8 * (numChars + 1) + 4
          BY <1>1, <4>1
        <5>. QED  BY <5>1
      <4>2. CASE ~(version < 10)
        <5>1. numChars + 2 \in Int /\ message = 8 * (numChars + 2) + 4
          BY <1>1, <4>2
        <5>. QED  BY <5>1
      <4>. QED  BY <4>1, <4>2
    <3>2. bits'.total = aligned + 8 * Max({0, (8 * whole - aligned + 7) \div 8})
      BY <1>6, <2>4 DEF AppendSegments
    <3>3. left \in Int /\ left >= 4
      <4>. HIDE DEF message
      <4>. QED  BY <2>3, <2>4, <3>1
    <3>4. Max({0, Min({4, left})}) = 4
      <4>. HIDE DEF left
      <4>1. Min({4, left}) = 4
        BY <3>3, OfTwo
      <4>2. Max({0, 4}) = 4
        BY OfTwo
      <4>. QED  BY <4>1, <4>2
    <3>5. aligned = 8 * (q + 1)
      <4>. HIDE DEF message, left
      <4>1. ended = 8 * (q + 1)
        BY <3>1, <3>4
      <4>. HIDE DEF ended
      <4>. QED  BY <4>1
    <3>6. (8 * whole - aligned + 7) \div 8 = whole - q - 1 /\ whole - q - 1 >= 0
      <4>. HIDE DEF message, aligned
      <4>. QED  BY <2>3, <2>4, <3>1, <3>5
    <3>7. Max({0, (8 * whole - aligned + 7) \div 8}) = whole - q - 1
      <4>1. Max({0, whole - q - 1}) = whole - q - 1
        BY <3>6, OfTwo
      <4>. HIDE DEF aligned
      <4>. QED  BY <3>6, <4>1
    <3>8. bits'.total = 8 * whole
      <4>. HIDE DEF aligned
      <4>. QED  BY <3>2, <3>5, <3>7
    <3>. QED  BY <2>4, <3>8
  <2>. QED
    BY <2>1, <2>2, <2>3, <2>5, <2>6
       DEF ChoiceInv, NoSmallerFits, SmallestStrongestSymbol, CapacityBits, Fits, TotalBits
<1>7. CASE DrawPattern
  BY <1>7, ChoiceKept DEF DrawPattern
<1>8. CASE DivideByRoot
  BY <1>8, ChoiceKept DEF DivideByRoot
<1>9. CASE FeedByte \/ InterleaveRow \/ AddEccAndInterleave
  BY <1>9, ChoiceKept DEF FeedByte, InterleaveRow, AddEccAndInterleave
<1>10. CASE ScanColumns \/ StartTrials
  BY <1>10, ChoiceKept DEF ScanColumns, StartTrials
<1>11. CASE TryMask \/ UndoMask \/ FinishSymbol
  BY <1>11, ChoiceKept DEF TryMask, UndoMask, FinishSymbol
<1>12. CASE UNCHANGED qrVars
  BY <1>12 DEF qrVars, fitVars, ChoiceInv, NoSmallerFits, SmallestStrongestSymbol
<1>. QED
  BY <1>2, <1>3, <1>4, <1>5, <1>6, <1>7, <1>8, <1>9, <1>10, <1>11, <1>12 DEF QrNext
-----------------------------------------------------------------------------
\* Division by a positive number.
LEMMA Division ==
  ASSUME NEW a \in Int, NEW b \in Nat \ {0}
  PROVE  /\ a \div b \in Int /\ a % b \in 0..(b - 1)
         /\ a = b * (a \div b) + (a % b)
OBVIOUS

\* The places of a table with b columns, counted along its rows, and the place of the k-th
\* codeword when s places are stepped over at the start of row d.
Place(b, i, j) == i * b + j
Slot(b, s, d, k) == k - 1 + (IF k <= d * b THEN 0 ELSE s)

\* A later place is in a later row, or in the same row and a later column.
LEMMA LaterPlace ==
  ASSUME NEW b \in Nat, NEW i \in Nat, NEW j \in 0..(b - 1),
         NEW p \in Nat, NEW q \in 0..(b - 1), Place(b, i, j) < Place(b, p, q)
  PROVE  i < p \/ (i = p /\ j < q)
<1>1. i * b + j < p * b + q
  BY DEF Place
<1>2. CASE i > p
  <2>1. i - p - 1 \in Nat /\ (i - p - 1) * b \in Nat
    BY <1>2
  <2>2. (i - p - 1) * b = i * b - p * b - b
    OBVIOUS
  <2>. QED  BY <1>1, <2>1, <2>2
<1>3. CASE i = p
  BY <1>1, <1>3
<1>. QED  BY <1>2, <1>3

\* A place has one row and one column.
LEMMA SamePlace ==
  ASSUME NEW b \in Nat, NEW i \in Nat, NEW j \in 0..(b - 1),
         NEW p \in Nat, NEW q \in 0..(b - 1), Place(b, i, j) = Place(b, p, q)
  PROVE  i = p /\ j = q
<1>1. i * b + j = p * b + q
  BY DEF Place
<1>2. CASE i < p
  <2>1. (p - i - 1) * b \in Nat
    BY <1>2
  <2>2. (p - i - 1) * b = p * b - i * b - b
    OBVIOUS
  <2>. QED  BY <1>1, <2>1, <2>2
<1>3. CASE p < i
  <2>1. (i - p - 1) * b \in Nat
    BY <1>3
  <2>2. (i - p - 1) * b = i * b - p * b - b
    OBVIOUS
  <2>. QED  BY <1>1, <2>1, <2>2
<1>4. CASE i = p
  BY <1>1, <1>4
<1>. QED  BY <1>2, <1>3, <1>4

\* The blocks of a symbol that has room for data: some block is short, a short block has
\* ShortData codewords of data, and the short and the long ones hold all the data.
LEMMA BlockSizes ==
  ASSUME NEW l \in 0..3, NEW v \in 1..MaxVersion, NumDataCodewords(v, l) >= 1
  PROVE  /\ NumBlocks(v, l) \in Nat \ {0} /\ EccLen(v, l) \in Nat \ {0}
         /\ ShortBlocks(v, l) \in 1..NumBlocks(v, l)
         /\ ShortData(v, l) \in Nat
         /\ Rows(v, l) = ShortData(v, l) + EccLen(v, l)
         /\ NumDataCodewords(v, l)
              = ShortData(v, l) * NumBlocks(v, l) + NumBlocks(v, l) - ShortBlocks(v, l)
         /\ \A j \in Int : BlockDataLen(v, l, j)
              = ShortData(v, l) + (IF j >= ShortBlocks(v, l) THEN 1 ELSE 0)
<1>. DEFINE b == NumBlocks(v, l)
            e == EccLen(v, l)
            raw == RawCodewords(v)
            d == ShortData(v, l)
            s == ShortBlocks(v, l)
<1>1. b \in Nat \ {0} /\ e \in Nat \ {0} /\ raw \in Int
  BY TableEntries, WholeCodewords
<1>2. /\ raw \div b \in Int /\ raw % b \in 0..(b - 1)
      /\ raw = b * (raw \div b) + (raw % b)
  <2>. HIDE DEF b, raw
  <2>. QED  BY <1>1, Division
<1>3. s = b - (raw % b) /\ d = raw \div b - e
  BY DEF ShortBlocks, ShortData, ShortBlockLen
<1>4. NumDataCodewords(v, l) = raw - e * b
  BY DEF NumDataCodewords
<1>. HIDE DEF b, e, raw, d, s
<1>5. s \in 1..b /\ d \in Int
  BY <1>1, <1>2, <1>3
<1>6. NumDataCodewords(v, l) = d * b + b - s
  <2>1. d * b = b * (raw \div b) - e * b
    BY <1>1, <1>2, <1>3
  <2>2. b * (raw \div b) \in Int /\ e * b \in Int
    BY <1>1, <1>2
  <2>. QED  BY <1>1, <1>2, <1>3, <1>4, <2>1, <2>2
<1>7. d \in Nat
  <2>1. CASE d < 0
    <3>1. (0 - d - 1) * b \in Nat
      BY <1>1, <1>5, <2>1
    <3>2. (0 - d - 1) * b = 0 - d * b - b
      BY <1>1, <1>5
    <3>3. d * b + b <= 0
      BY <1>1, <1>5, <3>1, <3>2
    <3>. QED  BY <1>1, <1>5, <1>6, <3>3
  <2>. QED  BY <1>5, <2>1
<1>8. \A j \in Int : BlockDataLen(v, l, j) = d + (IF j >= s THEN 1 ELSE 0)
  BY DEF BlockDataLen, ShortData, d, s
<1>9. Rows(v, l) = d + e
  <2>1. BlockDataLen(v, l, 0) = d
    BY <1>1, <1>5, <1>8
  <2>. QED  BY <2>1 DEF Rows, e
<1>. QED  BY <1>1, <1>5, <1>6, <1>7, <1>8, <1>9 DEF b, e, d, s

\* The chosen symbol has room for data, and its data codewords fill it.
LEMMA RoomForData ==
  ASSUME ChoiceInv, stage \notin {"fit", "boost", "segments", "failed"}
  PROVE  /\ level \in 0..3 /\ version \in 1..MaxVersion
         /\ NumDataCodewords(version, level) >= 1
         /\ bits.total \div 8 = NumDataCodewords(version, level)
<1>1. /\ numChars \in Nat /\ level \in 0..3 /\ version \in 1..MaxVersion
      /\ Fits(numChars, version, level) /\ bits.total = CapacityBits(version, level)
  BY QrAssumption DEF ChoiceInv, SmallestStrongestSymbol
<1>2. /\ NumDataCodewords(version, level) \in Int
      /\ CapacityBits(version, level) = 8 * NumDataCodewords(version, level)
  BY <1>1, WholeBytes
<1>3. 4 <= CapacityBits(version, level)
  <2>1. /\ TotalBits(numChars, version) = 4 + CountBits(version) + 8 * numChars
        /\ CountBits(version) \in Nat
        /\ TotalBits(numChars, version) <= CapacityBits(version, level)
    BY <1>1, BitsThatFit
  <2>. QED  BY <1>1, <1>2, <2>1
<1>. QED  BY <1>1, <1>2, <1>3

\* A row of the table is drawn, or as much of it as the long blocks have.
LEMMA RowDrawn ==
  ASSUME ChoiceInv, RowsInv, InterleaveRow
  PROVE  RowsInv'
<1>. DEFINE b == NumBlocks(version, level)
            d == ShortData(version, level)
            s == ShortBlocks(version, level)
            n == Len(codewords)
            first == IF row # d THEN 0 ELSE s
            drawn == [k \in 1..(b - first) |-> <<first + k - 1, row>>]
            SkippedBefore(i) == IF i <= d THEN 0 ELSE s
            SlotNow(k) == k - 1 + (IF k <= d * b THEN 0 ELSE s)
<1>1. /\ stage = "blocks" /\ stage' = "blocks"
      /\ row < Rows(version, level) /\ row' = row + 1
      /\ UNCHANGED <<version, level>>
      /\ codewords' = codewords \o drawn
  BY DEF InterleaveRow, fitVars, Row, ShortData
<1>2. /\ b \in Nat \ {0} /\ s \in 1..b /\ d \in Nat /\ Rows(version, level) \in Nat
  <2>1. /\ level \in 0..3 /\ version \in 1..MaxVersion
        /\ NumDataCodewords(version, level) >= 1
    BY <1>1, RoomForData
  <2>. QED  BY <2>1, BlockSizes
<1>3. /\ row \in Nat /\ codewords \in Seq(Nat \X Nat) /\ n = row * b - SkippedBefore(row)
      /\ \A k \in 1..n :
           codewords[k][1] < b /\ codewords[k][2] * b + codewords[k][1] = SlotNow(k)
  <2>1. /\ row \in 0..Rows(version, level) /\ codewords \in Seq(Nat \X Nat)
        /\ Len(codewords)
             = row * NumBlocks(version, level)
                 - (IF row <= ShortData(version, level) THEN 0
                    ELSE ShortBlocks(version, level))
        /\ \A k \in DOMAIN codewords :
             /\ codewords[k][1] < NumBlocks(version, level)
             /\ codewords[k][2] * NumBlocks(version, level) + codewords[k][1]
                  = SlotOf(version, level, k)
    BY <1>1 DEF RowsInv
  <2>2. DOMAIN codewords = 1..n
    BY <2>1
  <2>3. \A k : SlotOf(version, level, k) = SlotNow(k)
    BY DEF SlotOf
  <2>4. row \in Nat
    BY <1>2, <2>1
  <2>. HIDE DEF b, d, s, n, SlotNow
  <2>. QED  BY <2>1, <2>2, <2>3, <2>4 DEF b, d, s, n
<1>. HIDE DEF b, d, s
<1>4. (row + 1) * b = row * b + b /\ row * b \in Nat
  BY <1>2, <1>3
<1>5. n + (b - first) = (row + 1) * b - SkippedBefore(row + 1)
  BY <1>2, <1>3, <1>4
<1>6. ASSUME NEW m \in 1..(b - first)
      PROVE  /\ drawn[m] \in Nat \X Nat /\ drawn[m][1] < b
             /\ drawn[m][2] * b + drawn[m][1] = SlotNow(n + m)
  <2>1. drawn[m] = <<first + m - 1, row>> /\ first + m - 1 \in 0..(b - 1)
    BY <1>2, <1>3
  <2>2. row * b + (first + m - 1) = SlotNow(n + m)
    <3>1. CASE row < d
      <4>1. (d - row - 1) * b \in Nat /\ (d - row - 1) * b = d * b - row * b - b
        BY <1>2, <1>3, <3>1
      <4>2. d * b \in Nat /\ first = 0 /\ n = row * b /\ m \in 1..b
        BY <1>2, <1>3, <3>1
      <4>3. n + m <= d * b
        BY <1>2, <1>4, <4>1, <4>2
      <4>4. SlotNow(n + m) = n + m - 1
        BY <1>4, <4>2, <4>3
      <4>. HIDE DEF SlotNow, first, n
      <4>. QED  BY <1>4, <4>2, <4>4
    <3>2. CASE row = d
      BY <1>2, <1>3, <1>4, <3>2
    <3>3. CASE row > d
      <4>1. (row - d - 1) * b \in Nat /\ (row - d - 1) * b = row * b - d * b - b
        BY <1>2, <1>3, <3>3
      <4>2. d * b \in Nat /\ first = 0 /\ n = row * b - s /\ m \in 1..b
        BY <1>2, <1>3, <3>3
      <4>3. ~(n + m <= d * b)
        BY <1>2, <1>4, <4>1, <4>2
      <4>4. SlotNow(n + m) = n + m - 1 + s
        BY <1>4, <4>2, <4>3
      <4>. HIDE DEF SlotNow, first, n
      <4>. QED  BY <1>2, <1>4, <4>2, <4>4
    <3>. QED  BY <1>2, <1>3, <3>1, <3>2, <3>3
  <2>3. drawn[m][1] = first + m - 1 /\ drawn[m][2] = row
    BY <2>1
  <2>. HIDE DEF SlotNow, first, n, drawn
  <2>. QED  BY <1>2, <1>3, <2>1, <2>2, <2>3
<1>7. drawn \in Seq(Nat \X Nat) /\ Len(drawn) = b - first
  <2>1. b - first \in Nat
    BY <1>2
  <2>. HIDE DEF first
  <2>2. \A m \in 1..(b - first) : <<first + m - 1, row>> \in Nat \X Nat
    <3>. HIDE DEF drawn
    <3>1. \A m \in 1..(b - first) : drawn[m] \in Nat \X Nat
      BY <1>6
    <3>. QED  BY <3>1 DEF drawn
  <2>. QED  BY <2>1, <2>2
<1>. HIDE DEF first, drawn, SlotNow, SkippedBefore
<1>8. codewords' \in Seq(Nat \X Nat) /\ Len(codewords') = n + (b - first)
  <2>. DEFINE Codewords == Nat \X Nat
  <2>. HIDE DEF Codewords
  <2>1. codewords \in Seq(Codewords) /\ drawn \in Seq(Codewords)
    BY <1>3, <1>7 DEF Codewords
  <2>2. codewords' = codewords \o drawn
    BY <1>1
  <2>3. codewords' \in Seq(Codewords) /\ Len(codewords') = n + Len(drawn)
    BY <2>1, <2>2
  <2>. QED  BY <1>7, <2>3 DEF Codewords
<1>9. ASSUME NEW k \in 1..(n + (b - first))
      PROVE  codewords'[k][1] < b /\ codewords'[k][2] * b + codewords'[k][1] = SlotNow(k)
  <2>. DEFINE Codewords == Nat \X Nat
  <2>. HIDE DEF Codewords
  <2>0. /\ codewords \in Seq(Codewords) /\ drawn \in Seq(Codewords)
        /\ codewords' = codewords \o drawn /\ k \in 1..(n + Len(drawn))
    BY <1>1, <1>3, <1>7 DEF Codewords
  <2>1. CASE k <= n
    <3>1. codewords'[k] = codewords[k] /\ k \in 1..n
      BY <2>0, <2>1
    <3>. QED  BY <1>3, <3>1
  <2>2. CASE k > n
    <3>1. codewords'[k] = drawn[k - n] /\ k - n \in 1..Len(drawn) /\ n + (k - n) = k
      BY <2>0, <2>2
    <3>. QED  BY <1>6, <1>7, <3>1
  <2>. QED  BY <1>3, <2>1, <2>2
<1>10. row + 1 \in 0..Rows(version, level)
  BY <1>1, <1>2, <1>3
<1>11. DOMAIN codewords' = 1..(n + (b - first))
  BY <1>8
<1>. QED
  BY <1>1, <1>5, <1>8, <1>9, <1>10, <1>11
     DEF RowsInv, SlotOf, b, d, s, SlotNow, SkippedBefore

\* The blocks are drawn row by row, all rows before the scan.
LEMMA InterleaveStep ==
  ASSUME ChoiceInv, RowsInv, [QrNext]_qrVars
  PROVE  RowsInv'
<1>. DEFINE Early == {"fit", "boost", "segments", "patterns", "divisor", "failed"}
<1>1. ASSUME UNCHANGED <<row, codewords>>, stage \in Early, stage' \in Early
      PROVE  RowsInv'
  BY <1>1 DEF RowsInv
<1>2. CASE TakeVersion \/ NextVersion \/ TooLong \/ BoostLevel \/ AppendSegments
  BY <1>1, <1>2
     DEF TakeVersion, NextVersion, TooLong, BoostLevel, AppendSegments, eccVars
<1>3. CASE DrawPattern
  BY <1>1, <1>3 DEF DrawPattern, eccVars
<1>4. CASE DivideByRoot
  <2>1. stage = "divisor" /\ UNCHANGED <<row, codewords, version, level>>
        /\ stage' \in {"divisor", "blocks"}
    BY <1>4 DEF DivideByRoot, fitVars
  <2>2. row = 0 /\ codewords = <<>>
    BY <2>1 DEF RowsInv
  <2>3. /\ NumBlocks(version, level) \in Nat /\ ShortData(version, level) \in Nat
        /\ Rows(version, level) \in Nat
    <3>1. /\ level \in 0..3 /\ version \in 1..MaxVersion
          /\ NumDataCodewords(version, level) >= 1
      BY <2>1, RoomForData
    <3>. QED  BY <3>1, BlockSizes
  <2>. QED  BY <2>1, <2>2, <2>3 DEF RowsInv
<1>5. CASE FeedByte
  <2>1. /\ stage = "blocks" /\ stage' = "blocks"
        /\ UNCHANGED <<row, codewords, version, level>>
    BY <1>5 DEF FeedByte, fitVars
  <2>. QED  BY <2>1 DEF RowsInv
<1>6. CASE InterleaveRow
  BY <1>6, RowDrawn
<1>7. CASE AddEccAndInterleave
  <2>1. /\ stage = "blocks" /\ stage' = "scan"
        /\ UNCHANGED <<row, codewords, version, level>>
        /\ row >= Rows(version, level)
    BY <1>7 DEF AddEccAndInterleave, fitVars, eccVars
  <2>2. Rows(version, level) \in Nat
    <3>1. /\ level \in 0..3 /\ version \in 1..MaxVersion
          /\ NumDataCodewords(version, level) >= 1
      BY <2>1, RoomForData
    <3>. QED  BY <3>1, BlockSizes
  <2>3. row \in 0..Rows(version, level)
    BY <2>1 DEF RowsInv
  <2>4. row = Rows(version, level)
    BY <2>1, <2>2, <2>3
  <2>. QED  BY <2>1, <2>4 DEF RowsInv
<1>8. CASE ScanColumns \/ StartTrials
  <2>1. /\ stage = "scan" /\ stage' \in {"scan", "trial"}
        /\ UNCHANGED <<row, codewords, version, level>>
    BY <1>8 DEF ScanColumns, StartTrials, fitVars, eccVars
  <2>. QED  BY <2>1 DEF RowsInv
<1>9. CASE TryMask \/ UndoMask \/ FinishSymbol
  <2>1. stage' \in {"trial", "undo", "done"}
    BY <1>9 DEF TryMask, UndoMask, FinishSymbol
  <2>. QED  BY <2>1 DEF RowsInv
<1>10. CASE UNCHANGED qrVars
  BY <1>10 DEF qrVars, fitVars, eccVars, RowsInv
<1>. QED
  BY <1>2, <1>3, <1>4, <1>5, <1>6, <1>7, <1>8, <1>9, <1>10 DEF QrNext
-----------------------------------------------------------------------------
\* A pair of columns is scanned upwards when its right column says so.
LEMMA Columns ==
  ASSUME NEW v \in 1..MaxVersion, NEW k \in 1..(2 * v + 8)
  PROVE  /\ RightColumn(v, k) \in 1..(4 * v + 16)
         /\ ((RightColumn(v, k) + 1) \div 2) % 2 = 0 <=> k % 2 = 1
         /\ RightColumn(v, k) # 6
<1>1. v \in Nat /\ k \in Nat /\ 1 <= v /\ 1 <= k /\ k <= 2 * v + 8
  BY DEF MaxVersion
<1>2. CASE k <= 2 * v + 5
  <2>1. RightColumn(v, k) = 4 * v + 18 - 2 * k
    BY <1>2 DEF RightColumn
  <2>2. (4 * v + 18 - 2 * k + 1) \div 2 = 2 * v + 9 - k
    BY <1>1
  <2>3. (2 * v + 9 - k) % 2 = 0 <=> k % 2 = 1
    BY <1>1
  <2>. QED  BY <1>1, <1>2, <2>1, <2>2, <2>3
<1>3. CASE k > 2 * v + 5
  <2>1. RightColumn(v, k) = 4 * v + 17 - 2 * k
    BY <1>1, <1>3 DEF RightColumn
  <2>2. (4 * v + 17 - 2 * k + 1) \div 2 = 2 * v + 9 - k
    BY <1>1
  <2>3. (2 * v + 9 - k) % 2 = 0 <=> k % 2 = 1
    BY <1>1
  <2>. QED  BY <1>1, <1>3, <2>1, <2>2, <2>3
<1>. QED  BY <1>1, <1>2, <1>3

\* The scan is where the pairs it has behind it say.
LEMMA ScanStep ==
  ASSUME ChoiceInv, ScanInv, [QrNext]_qrVars
  PROVE  ScanInv'
<1>. DEFINE Pairs == [x : Int, upwards : BOOLEAN]
<1>1. version \in 1..MaxVersion /\ scanned \in Seq(Pairs)
  BY DEF ChoiceInv, ScanInv
<1>2. ASSUME UNCHANGED scanned, stage \notin {"scan", "trial", "undo", "done"},
             stage' \notin {"scan", "trial", "undo", "done"}
      PROVE  ScanInv'
  BY <1>2 DEF ScanInv
<1>3. CASE TakeVersion \/ NextVersion \/ TooLong \/ BoostLevel \/ AppendSegments
  <2>1. UNCHANGED scanned
    BY <1>3 DEF TakeVersion, NextVersion, TooLong, BoostLevel, AppendSegments, scanVars
  <2>2. /\ stage \notin {"scan", "trial", "undo", "done"}
        /\ stage' \notin {"scan", "trial", "undo", "done"}
    BY <1>3 DEF TakeVersion, NextVersion, TooLong, BoostLevel, AppendSegments
  <2>. QED  BY <1>2, <2>1, <2>2
<1>4. CASE DrawPattern \/ DivideByRoot \/ FeedByte \/ InterleaveRow
  <2>1. UNCHANGED scanned
    BY <1>4 DEF DrawPattern, DivideByRoot, FeedByte, InterleaveRow, scanVars
  <2>2. /\ stage \notin {"scan", "trial", "undo", "done"}
        /\ stage' \notin {"scan", "trial", "undo", "done"}
    BY <1>4 DEF DrawPattern, DivideByRoot, FeedByte, InterleaveRow
  <2>. QED  BY <1>2, <2>1, <2>2
<1>5. CASE AddEccAndInterleave
  <2>1. /\ scanned = <<>> /\ scanned' = <<>> /\ stage' = "scan"
        /\ right' = Size(version) - 1 /\ version' = version
    BY <1>5 DEF AddEccAndInterleave, ScanInv, fitVars
  <2>2. right' = RightColumn(version, 1) /\ 0 # 2 * version + 5 /\ 0 <= 2 * version + 8
    BY <1>1, <2>1 DEF Size, RightColumn, MaxVersion
  <2>. QED  BY <2>1, <2>2 DEF ScanInv
<1>6. CASE ScanColumns
  <2>. DEFINE n == Len(scanned)
              r == PairFrom(right)
              pair == [x |-> r, upwards |-> ((r + 1) \div 2) % 2 = 0]
  <2>1. /\ stage = "scan" /\ stage' = "scan" /\ version' = version
        /\ right >= 1 /\ right' = r - 2 /\ scanned' = Append(scanned, pair)
    BY <1>6 DEF ScanColumns, fitVars
  <2>2. /\ n \in Nat /\ n <= 2 * version + 8 /\ version \in Nat /\ version >= 1
        /\ right = IF n = 2 * version + 5 THEN 6 ELSE RightColumn(version, n + 1)
    BY <1>1, <2>1 DEF ScanInv, MaxVersion
  <2>3. n < 2 * version + 8
    BY <2>1, <2>2 DEF RightColumn
  <2>4. r = RightColumn(version, n + 1)
    <3>1. CASE n = 2 * version + 5
      BY <2>2, <3>1 DEF PairFrom, RightColumn
    <3>2. CASE n # 2 * version + 5
      <4>1. right # 6
        BY <1>1, <2>2, <2>3, <3>2, Columns
      <4>. QED  BY <2>2, <3>2, <4>1 DEF PairFrom
    <3>. QED  BY <3>1, <3>2
  <2>5. r \in Int /\ (((r + 1) \div 2) % 2 = 0 <=> (n + 1) % 2 = 1)
    <3>1. n + 1 \in 1..(2 * version + 8)
      BY <2>2, <2>3
    <3>2. /\ RightColumn(version, n + 1) \in 1..(4 * version + 16)
          /\ ((RightColumn(version, n + 1) + 1) \div 2) % 2 = 0 <=> (n + 1) % 2 = 1
      BY <1>1, <3>1, Columns
    <3>. HIDE DEF r, n
    <3>. QED  BY <2>2, <2>4, <3>2
  <2>6. r - 2 = IF n + 1 = 2 * version + 5 THEN 6 ELSE RightColumn(version, n + 2)
    BY <2>2, <2>3, <2>4 DEF RightColumn
  <2>7. pair \in Pairs /\ pair.x = RightColumn(version, n + 1)
        /\ pair.upwards = ((n + 1) % 2 = 1)
    BY <2>4, <2>5
  <2>. HIDE DEF r, pair
  <2>8. /\ scanned' \in Seq(Pairs) /\ Len(scanned') = n + 1
        /\ DOMAIN scanned' = 1..(n + 1) /\ scanned'[n + 1] = pair
        /\ \A k \in 1..n : scanned'[k] = scanned[k]
    BY <1>1, <2>1, <2>7
  <2>9. \A k \in 1..(n + 1) : scanned'[k].x = RightColumn(version, k)
                              /\ scanned'[k].upwards = (k % 2 = 1)
    <3>1. \A k \in 1..n : scanned[k].x = RightColumn(version, k)
                          /\ scanned[k].upwards = (k % 2 = 1)
      <4>1. DOMAIN scanned = 1..n
        BY <1>1
      <4>. QED  BY <4>1 DEF ScanInv
    <3>2. \A k \in 1..(n + 1) : k \in 1..n \/ k = n + 1
      BY <2>2
    <3>. QED  BY <2>7, <2>8, <3>1, <3>2
  <2>10. (n + 1) + 1 = n + 2 /\ n + 1 <= 2 * version + 8
    BY <2>2, <2>3
  <2>. HIDE DEF n
  <2>. QED  BY <2>1, <2>6, <2>8, <2>9, <2>10 DEF ScanInv
<1>7. CASE StartTrials
  <2>1. /\ stage = "scan" /\ stage' = "trial" /\ UNCHANGED <<scanned, version>> /\ right < 1
    BY <1>7 DEF StartTrials, fitVars, scanVars
  <2>2. Len(scanned) = 2 * version + 8
    <3>1. /\ Len(scanned) \in Nat /\ version \in Nat /\ Len(scanned) <= 2 * version + 8
          /\ right = IF Len(scanned) = 2 * version + 5 THEN 6
                     ELSE RightColumn(version, Len(scanned) + 1)
      BY <1>1, <2>1 DEF ScanInv, MaxVersion
    <3>. QED  BY <2>1, <3>1 DEF RightColumn
  <2>. QED  BY <2>1, <2>2 DEF ScanInv
<1>8. CASE TryMask \/ UndoMask \/ FinishSymbol
  <2>1. UNCHANGED <<scanned, version>>
    BY <1>8 DEF TryMask, UndoMask, FinishSymbol, fitVars, scanVars
  <2>2. stage \in {"trial", "undo"} /\ stage' \in {"trial", "undo", "done"}
    BY <1>8 DEF TryMask, UndoMask, FinishSymbol
  <2>. QED  BY <2>1, <2>2 DEF ScanInv
<1>9. CASE UNCHANGED qrVars
  BY <1>9 DEF qrVars, fitVars, scanVars, ScanInv
<1>. QED  BY <1>3, <1>4, <1>5, <1>6, <1>7, <1>8, <1>9 DEF QrNext

\* The pairs leave out the timing column and nothing else.
LEMMA AllColumns ==
  ASSUME NEW v \in 1..MaxVersion, NEW s \in Seq([x : Int, upwards : BOOLEAN]),
         Len(s) = 2 * v + 8, \A k \in DOMAIN s : s[k].x = RightColumn(v, k)
  PROVE  UNION {{s[k].x - 1, s[k].x} : k \in DOMAIN s} = (0..(4 * v + 16)) \ {6}
<1>1. v \in Nat /\ 1 <= v /\ DOMAIN s = 1..(2 * v + 8)
  BY DEF MaxVersion
<1>2. ASSUME NEW k \in 1..(2 * v + 8)
      PROVE  /\ RightColumn(v, k) \in (0..(4 * v + 16)) \ {6}
             /\ RightColumn(v, k) - 1 \in (0..(4 * v + 16)) \ {6}
  <2>1. RightColumn(v, k) \in 1..(4 * v + 16) /\ RightColumn(v, k) # 6
    BY Columns
  <2>2. RightColumn(v, k) # 7
    BY <1>1 DEF RightColumn
  <2>. QED  BY <1>1, <2>1, <2>2
<1>3. ASSUME NEW c \in (0..(4 * v + 16)) \ {6}
      PROVE  \E k \in 1..(2 * v + 8) : c \in {s[k].x - 1, s[k].x}
  <2>. DEFINE k == IF c > 6 THEN (4 * v + 18 - c) \div 2 ELSE (4 * v + 17 - c) \div 2
  <2>1. k \in 1..(2 * v + 8)
    BY <1>1
  <2>2. RightColumn(v, k) \in {c, c + 1}
    <3>1. CASE c > 6
      BY <1>1, <3>1 DEF RightColumn
    <3>2. CASE c <= 6
      BY <1>1, <3>2 DEF RightColumn
    <3>. QED  BY <3>1, <3>2
  <2>. HIDE DEF k
  <2>3. s[k].x = RightColumn(v, k)
    BY <1>1, <2>1
  <2>4. c = s[k].x \/ c = s[k].x - 1
    BY <2>2, <2>3
  <2>. QED  BY <2>1, <2>4
<1>. DEFINE All == UNION {{s[k].x - 1, s[k].x} : k \in DOMAIN s}
<1>4. ASSUME NEW c \in All
      PROVE  c \in (0..(4 * v + 16)) \ {6}
  <2>1. PICK k \in 1..(2 * v + 8) : c \in {s[k].x - 1, s[k].x}
    BY <1>1, <1>4
  <2>2. s[k].x = RightColumn(v, k)
    BY <1>1
  <2>3. c = RightColumn(v, k) - 1 \/ c = RightColumn(v, k)
    BY <2>1, <2>2
  <2>. QED  BY <1>2, <2>3
<1>5. ASSUME NEW c \in (0..(4 * v + 16)) \ {6}
      PROVE  c \in All
  BY <1>1, <1>3, <1>5
<1>. HIDE DEF All
<1>6. All = (0..(4 * v + 16)) \ {6}
  BY <1>4, <1>5
<1>. QED  BY <1>6 DEF All
-----------------------------------------------------------------------------
\* Each mask is applied, weighed against the best one and taken away.
LEMMA MaskStep ==
  ASSUME MaskInv, [QrNext]_qrVars
  PROVE  MaskInv'
<1>1. trial \in 0..8 /\ score \in [0..7 -> Nat]
  BY DEF MaskInv
<1>2. ASSUME UNCHANGED maskVars, stage \notin {"trial", "undo", "done"},
             stage' \notin {"trial", "undo", "done"}
      PROVE  MaskInv'
  BY <1>2 DEF MaskInv, maskVars, BestOf
<1>3. CASE TakeVersion \/ NextVersion \/ TooLong \/ BoostLevel \/ AppendSegments
  <2>1. UNCHANGED maskVars
    BY <1>3 DEF TakeVersion, NextVersion, TooLong, BoostLevel, AppendSegments
  <2>2. /\ stage \notin {"trial", "undo", "done"}
        /\ stage' \notin {"trial", "undo", "done"}
    BY <1>3 DEF TakeVersion, NextVersion, TooLong, BoostLevel, AppendSegments
  <2>. QED  BY <1>2, <2>1, <2>2
<1>4. CASE \/ DrawPattern \/ DivideByRoot \/ FeedByte \/ InterleaveRow
           \/ AddEccAndInterleave \/ ScanColumns
  <2>1. UNCHANGED maskVars
    BY <1>4 DEF DrawPattern, DivideByRoot, FeedByte, InterleaveRow, AddEccAndInterleave,
                ScanColumns
  <2>2. /\ stage \notin {"trial", "undo", "done"}
        /\ stage' \notin {"trial", "undo", "done"}
    BY <1>4 DEF DrawPattern, DivideByRoot, FeedByte, InterleaveRow, AddEccAndInterleave,
                ScanColumns
  <2>. QED  BY <1>2, <2>1, <2>2
<1>5. CASE StartTrials
  <2>1. /\ stage = "scan" /\ stage' = "trial" /\ score' \in [0..7 -> Nat]
        /\ UNCHANGED <<trial, minPenalty, mask, masked>>
    BY <1>5, QrAssumption DEF StartTrials
  <2>2. trial = 0 /\ masked = {} /\ minPenalty = NoPenalty
    BY <2>1 DEF MaskInv, BestOf
  <2>. QED  BY <2>1, <2>2 DEF MaskInv, BestOf
<1>6. CASE TryMask
  <2>1. /\ stage = "trial" /\ stage' = "undo" /\ trial <= 7 /\ UNCHANGED <<score, trial>>
        /\ masked' = Toggle(masked, trial)
    BY <1>6 DEF TryMask
  <2>2. masked = {} /\ BestOf(trial)
    BY <2>1 DEF MaskInv
  <2>3. masked' = {trial}
    BY <2>1, <2>2 DEF Toggle
  <2>4. trial \in 0..7 /\ score[trial] \in Nat /\ (trial + 1) - 1 = trial /\ trial + 1 # 0
    BY <1>1, <2>1
  <2>5. ASSUME NEW m \in 0..trial, m # trial
        PROVE  trial # 0 /\ m \in 0..(trial - 1)
    BY <2>4, <2>5
  <2>6. CASE Better(score[trial])
    <3>1. mask' = trial /\ minPenalty' = score[trial]
      BY <1>6, <2>6 DEF TryMask
    <3>2. ASSUME NEW m \in 0..trial
          PROVE  score[trial] < score[m] \/ (score[trial] = score[m] /\ trial <= m)
      <4>1. CASE m = trial
        BY <2>4, <4>1
      <4>2. CASE m # trial
        <5>1. /\ mask \in 0..(trial - 1) /\ minPenalty = score[mask]
              /\ score[mask] < score[m] \/ (score[mask] = score[m] /\ mask <= m)
          BY <2>2, <2>5, <4>2 DEF BestOf
        <5>2. score[mask] \in Nat /\ score[m] \in Nat
          BY <1>1, <2>4, <5>1
        <5>3. score[trial] < score[mask]
          BY <2>6, <5>1, <5>2 DEF Better, NoPenalty
        <5>. QED  BY <2>4, <5>1, <5>2, <5>3
      <4>. QED  BY <4>1, <4>2
    <3>3. BestOf(trial + 1)'
      <4>1. (trial + 1)' = trial + 1 /\ score' = score
        BY <2>1
      <4>. QED  BY <2>4, <3>1, <3>2, <4>1 DEF BestOf
    <3>. QED  BY <1>1, <2>1, <2>3, <3>3 DEF MaskInv
  <2>7. CASE ~Better(score[trial])
    <3>1. UNCHANGED <<mask, minPenalty>>
      BY <1>6, <2>7 DEF TryMask
    <3>2. trial # 0
      BY <2>2, <2>7 DEF Better, BestOf
    <3>3. /\ mask \in 0..(trial - 1) /\ minPenalty = score[mask]
          /\ \A m \in 0..(trial - 1) :
               score[mask] < score[m] \/ (score[mask] = score[m] /\ mask <= m)
      BY <2>2, <3>2 DEF BestOf
    <3>4. score[mask] < score[trial] \/ (score[mask] = score[trial] /\ mask <= trial)
      <4>1. score[mask] \in Nat
        BY <1>1, <2>4, <3>3
      <4>. QED  BY <2>4, <2>7, <3>3, <4>1 DEF Better
    <3>5. mask \in 0..trial /\
          \A m \in 0..trial :
            score[mask] < score[m] \/ (score[mask] = score[m] /\ mask <= m)
      <4>1. mask \in 0..trial
        BY <2>4, <3>3
      <4>. QED  BY <2>5, <3>3, <3>4, <4>1
    <3>6. BestOf(trial + 1)'
      <4>1. (trial + 1)' = trial + 1 /\ score' = score
        BY <2>1
      <4>. QED  BY <2>4, <3>1, <3>3, <3>5, <4>1 DEF BestOf
    <3>. QED  BY <1>1, <2>1, <2>3, <3>6 DEF MaskInv
  <2>. QED  BY <2>6, <2>7
<1>7. CASE UndoMask
  <2>1. /\ stage = "undo" /\ stage' = "trial" /\ trial' = trial + 1
        /\ masked' = Toggle(masked, trial) /\ UNCHANGED <<score, mask, minPenalty>>
    BY <1>7 DEF UndoMask
  <2>2. trial <= 7 /\ masked = {trial} /\ BestOf(trial + 1)
    BY <2>1 DEF MaskInv
  <2>3. masked' = {} /\ trial' \in 0..8
    BY <1>1, <2>1, <2>2 DEF Toggle
  <2>4. BestOf(trial)'
    BY <2>1, <2>2 DEF BestOf
  <2>. QED  BY <1>1, <2>1, <2>3, <2>4 DEF MaskInv
<1>8. CASE FinishSymbol
  <2>1. /\ stage = "trial" /\ stage' = "done" /\ trial > 7
        /\ masked' = Toggle(masked, mask) /\ UNCHANGED <<score, trial, mask>>
    BY <1>8 DEF FinishSymbol
  <2>2. masked = {} /\ BestOf(8)
    BY <1>1, <2>1 DEF MaskInv
  <2>3. masked' = {mask}
    BY <2>1, <2>2 DEF Toggle
  <2>4. /\ mask \in 0..7
        /\ \A m \in 0..7 : score[mask] < score[m] \/ (score[mask] = score[m] /\ mask <= m)
    BY <2>2 DEF BestOf
  <2>. QED  BY <1>1, <2>1, <2>3, <2>4 DEF MaskInv, FirstSmallestMask
<1>9. CASE UNCHANGED qrVars
  BY <1>9 DEF qrVars, maskVars, MaskInv, BestOf, FirstSmallestMask
<1>. QED  BY <1>3, <1>4, <1>5, <1>6, <1>7, <1>8, <1>9 DEF QrNext
-----------------------------------------------------------------------------
(* Where the patterns lie: on the pairs of positions on a line *)

\* The number of alignment positions and half the step between them.
Number(v) == v \div 7 + 2
Half(v) == IF v = 32 THEN 13 ELSE (4 * v + 2 * Number(v) + 1) \div (2 * Number(v) - 2)

\* At least eight modules lie between neighbouring alignment patterns, and the first of
\* them after the timing line lies clear of it, in each of the 39 versions that have them.
LEMMA Spacing ==
  ASSUME NEW v \in 2..MaxVersion
  PROVE  /\ Number(v) \in 2..7 /\ Half(v) \in Nat
         /\ Number(v) >= 3 => Half(v) >= 8
         /\ (Number(v) - 2) * Half(v) <= 2 * v - 1
<1>1. v \in Nat /\ 2 <= v /\ v <= 40
  BY DEF MaxVersion
<1>2. v \div 7 \in 0..5 /\ Number(v) \in 2..7
  BY <1>1 DEF Number
<1>3. CASE v = 32
  BY <1>3 DEF Number, Half
<1>4. CASE v # 32 /\ v \div 7 = 0
  <2>1. Number(v) = 2 /\ Half(v) = (4 * v + 5) \div 2
    BY <1>4 DEF Number, Half
  <2>. QED  BY <1>1, <2>1
<1>5. CASE v # 32 /\ v \div 7 = 1
  <2>1. Number(v) = 3 /\ Half(v) = (4 * v + 7) \div 4
    BY <1>5 DEF Number, Half
  <2>. QED  BY <1>1, <1>5, <2>1
<1>6. CASE v # 32 /\ v \div 7 = 2
  <2>1. Number(v) = 4 /\ Half(v) = (4 * v + 9) \div 6
    BY <1>6 DEF Number, Half
  <2>. QED  BY <1>1, <1>6, <2>1
<1>7. CASE v # 32 /\ v \div 7 = 3
  <2>1. Number(v) = 5 /\ Half(v) = (4 * v + 11) \div 8
    BY <1>7 DEF Number, Half
  <2>. QED  BY <1>1, <1>7, <2>1
<1>8. CASE v # 32 /\ v \div 7 = 4
  <2>1. Number(v) = 6 /\ Half(v) = (4 * v + 13) \div 10
    BY <1>8 DEF Number, Half
  <2>. QED  BY <1>1, <1>8, <2>1
<1>9. CASE v # 32 /\ v \div 7 = 5
  <2>1. Number(v) = 7 /\ Half(v) = (4 * v + 15) \div 12
    BY <1>9 DEF Number, Half
  <2>. QED  BY <1>1, <1>9, <2>1
<1>. QED  BY <1>2, <1>3, <1>4, <1>5, <1>6, <1>7, <1>8, <1>9

\* The i-th of them, of one as of many.
Position(v, i) == IF i = 1 THEN 6 ELSE 4 * v + 10 - 2 * ((Number(v) - i) * Half(v))

\* getAlignmentPatternPositions lists them, from the first to the last.
LEMMA PositionList ==
  ASSUME NEW v \in 2..MaxVersion
  PROVE  /\ Len(AlignmentPositions(v)) = Number(v)
         /\ \A i \in 1..Number(v) : AlignmentPositions(v)[i] = Position(v, i)
<1>. DEFINE num  == v \div 7 + 2
            step == IF v = 32 THEN 26
                    ELSE ((4 * v + 2 * num + 1) \div (2 * num - 2)) * 2
<1>1. v # 1 /\ num = Number(v)
  BY DEF Number
<1>2. /\ AlignmentPositions(v)
           = [i \in 1..num |-> IF i = 1 THEN 6 ELSE 4 * v + 10 - (num - i) * step]
  BY <1>1 DEF AlignmentPositions
<1>3. step = Half(v) * 2
  BY <1>1 DEF Half
<1>4. num \in Nat /\ Half(v) \in Nat
  BY <1>1, Spacing
<1>. HIDE DEF num, step
<1>5. \A i \in 1..num : (num - i) * step = 2 * ((num - i) * Half(v))
  BY <1>3, <1>4
<1>6. Len(AlignmentPositions(v)) = num
  BY <1>2, <1>4
<1>. QED  BY <1>1, <1>2, <1>5, <1>6 DEF Position

\* Behind the first they are even, clear of the timing line, and only the last of them is
\* close to the edge.
LEMMA Positions ==
  ASSUME NEW v \in 2..MaxVersion, NEW i \in 2..Number(v)
  PROVE  /\ Position(v, i) \in 11..(4 * v + 10)
         /\ Position(v, i) % 2 = 0
         /\ i < Number(v) => Position(v, i) <= 4 * v - 6
         /\ i = Number(v) => Position(v, i) = 4 * v + 10
<1>. DEFINE n == Number(v)
            h == Half(v)
<1>1. /\ v \in Nat /\ n \in Nat /\ h \in Nat /\ i \in Nat /\ 2 <= i /\ i <= n
      /\ n >= 3 => h >= 8
      /\ (n - 2) * h <= 2 * v - 1
  <2>1. /\ v \in Nat /\ n \in 2..7 /\ h \in Nat /\ (n >= 3 => h >= 8)
        /\ (n - 2) * h <= 2 * v - 1
    BY Spacing DEF MaxVersion
  <2>2. i \in 2..n
    OBVIOUS
  <2>. HIDE DEF n, h
  <2>. QED  BY <2>1, <2>2
<1>2. Position(v, i) = 4 * v + 10 - 2 * ((n - i) * h)
  BY <1>1 DEF Position
<1>. HIDE DEF n, h
<1>3. (n - i) * h \in Nat
  BY <1>1
<1>4. (i - 2) * h \in Nat /\ (n - 2) * h = (n - i) * h + (i - 2) * h
  BY <1>1
<1>5. i < n => (n - i) * h >= 8
  <2>. SUFFICES ASSUME i < n
                PROVE  (n - i) * h >= 8
    OBVIOUS
  <2>1. (n - i - 1) * h \in Nat /\ (n - i) * h = (n - i - 1) * h + h /\ h >= 8
    BY <1>1
  <2>. QED  BY <1>1, <1>3, <2>1
<1>6. i = n => (n - i) * h = 0
  BY <1>1
<1>. DEFINE d == (n - i) * h
<1>. HIDE DEF d
<1>7. d \in Nat /\ d <= 2 * v - 1 /\ (i < n => d >= 8) /\ (i = n => d = 0)
  BY <1>1, <1>3, <1>4, <1>5, <1>6 DEF d
<1>8. Position(v, i) = 4 * v + 10 - 2 * d
  BY <1>2 DEF d
<1>. QED  BY <1>1, <1>7, <1>8 DEF n

\* Two of them are the same or at least sixteen modules apart.
LEMMA PositionsApart ==
  ASSUME NEW v \in 2..MaxVersion, NEW i \in 2..Number(v), NEW j \in 2..Number(v), i < j
  PROVE  Position(v, i) + 16 <= Position(v, j)
<1>. DEFINE n == Number(v)
            h == Half(v)
<1>1. /\ v \in Nat /\ n \in Nat /\ h \in Nat /\ i \in Nat /\ j \in Nat
      /\ 2 <= i /\ j <= n /\ h >= 8
  <2>1. v \in Nat /\ n \in 2..7 /\ h \in Nat /\ (n >= 3 => h >= 8)
    BY Spacing DEF MaxVersion
  <2>. HIDE DEF n, h
  <2>2. i \in 2..n /\ j \in 2..n
    BY DEF n
  <2>. QED  BY <2>1, <2>2
<1>2. /\ Position(v, i) = 4 * v + 10 - 2 * ((n - i) * h)
      /\ Position(v, j) = 4 * v + 10 - 2 * ((n - j) * h)
  BY <1>1 DEF Position
<1>. HIDE DEF n, h
<1>3. (j - i - 1) * h \in Nat /\ (n - i) * h = (n - j) * h + (j - i - 1) * h + h
  BY <1>1
<1>4. (n - j) * h \in Nat /\ (n - i) * h \in Nat
  BY <1>1
<1>5. (n - i) * h >= (n - j) * h + 8
  BY <1>1, <1>3, <1>4
<1>. QED  BY <1>1, <1>2, <1>4, <1>5

\* The centres of the alignment patterns: a pair of positions whose square reaches no
\* finder and, on a timing line, has it in its middle.
Centre(v, x, y) ==
  /\ x \in 6..(4 * v + 10) /\ y \in 6..(4 * v + 10) /\ x % 2 = 0 /\ y % 2 = 0
  /\ x = 6 => y \in 11..(4 * v - 6)
  /\ y = 6 => x \in 11..(4 * v - 6)
  /\ x # 6 => x >= 11
  /\ y # 6 => y >= 11

\* The pairs of positions are such centres, but for the three that fall on a finder.
LEMMA Centres ==
  ASSUME NEW v \in 2..MaxVersion, NEW i \in 1..Number(v), NEW j \in 1..Number(v),
         <<i, j>> \notin {<<1, 1>>, <<1, Number(v)>>, <<Number(v), 1>>}
  PROVE  Centre(v, Position(v, i), Position(v, j))
<1>1. v \in Nat /\ Number(v) \in 2..7
  BY Spacing DEF MaxVersion
<1>2. /\ i = 1 \/ i \in 2..Number(v)
      /\ j = 1 \/ j \in 2..Number(v)
  BY <1>1
<1>3. Position(v, 1) = 6
  BY DEF Position
<1>4. CASE i = 1
  <2>1. j \in 2..Number(v) /\ j < Number(v)
    BY <1>1, <1>2, <1>4
  <2>2. Position(v, j) \in 11..(4 * v - 6) /\ Position(v, j) % 2 = 0
    BY <1>1, <2>1, Positions
  <2>. HIDE DEF Position
  <2>. QED  BY <1>1, <1>3, <1>4, <2>2 DEF Centre
<1>5. CASE j = 1
  <2>1. i \in 2..Number(v) /\ i < Number(v)
    BY <1>1, <1>2, <1>5
  <2>2. Position(v, i) \in 11..(4 * v - 6) /\ Position(v, i) % 2 = 0
    BY <1>1, <2>1, Positions
  <2>. QED  BY <1>1, <1>3, <1>5, <2>2 DEF Centre
<1>6. CASE i # 1 /\ j # 1
  <2>1. /\ Position(v, i) \in 11..(4 * v + 10) /\ Position(v, i) % 2 = 0
        /\ Position(v, j) \in 11..(4 * v + 10) /\ Position(v, j) % 2 = 0
    BY <1>2, <1>6, Positions
  <2>. QED  BY <1>1, <2>1 DEF Centre
<1>. QED  BY <1>4, <1>5, <1>6

\* Two positions that are not the same lie five modules apart or more.
Clear(a, b) == a = b \/ a + 5 <= b \/ b + 5 <= a

\* Two positions of a list are clear of each other.
LEMMA PositionsClear ==
  ASSUME NEW v \in 2..MaxVersion, NEW i \in 1..Number(v), NEW j \in 1..Number(v)
  PROVE  Clear(Position(v, i), Position(v, j))
<1>1. v \in Nat /\ Number(v) \in 2..7
  BY Spacing DEF MaxVersion
<1>2. i = j \/ (i = 1 /\ j \in 2..Number(v)) \/ (j = 1 /\ i \in 2..Number(v))
      \/ (i \in 2..Number(v) /\ j \in 2..Number(v) /\ i < j)
      \/ (i \in 2..Number(v) /\ j \in 2..Number(v) /\ j < i)
  BY <1>1
<1>3. Position(v, 1) = 6
  BY DEF Position
<1>4. CASE i = j
  BY <1>4 DEF Clear
<1>5. CASE i = 1 /\ j \in 2..Number(v)
  <2>1. Position(v, j) \in 11..(4 * v + 10)
    BY <1>5, Positions
  <2>. QED  BY <1>1, <1>3, <1>5, <2>1 DEF Clear
<1>6. CASE j = 1 /\ i \in 2..Number(v)
  <2>1. Position(v, i) \in 11..(4 * v + 10)
    BY <1>6, Positions
  <2>. QED  BY <1>1, <1>3, <1>6, <2>1 DEF Clear
<1>7. CASE i \in 2..Number(v) /\ j \in 2..Number(v) /\ i < j
  <2>1. Position(v, i) + 16 <= Position(v, j)
    BY <1>7, PositionsApart
  <2>2. Position(v, i) \in 11..(4 * v + 10) /\ Position(v, j) \in 11..(4 * v + 10)
    BY <1>7, Positions
  <2>. QED  BY <1>1, <2>1, <2>2 DEF Clear
<1>8. CASE i \in 2..Number(v) /\ j \in 2..Number(v) /\ j < i
  <2>1. Position(v, j) + 16 <= Position(v, i)
    BY <1>8, PositionsApart
  <2>2. Position(v, i) \in 11..(4 * v + 10) /\ Position(v, j) \in 11..(4 * v + 10)
    BY <1>8, Positions
  <2>. QED  BY <1>1, <2>1, <2>2 DEF Clear
<1>. QED  BY <1>2, <1>4, <1>5, <1>6, <1>7, <1>8

(* The turns of drawFunctionPatterns *)

Finders(v) == {Pattern("finder", 3, 3), Pattern("finder", Size(v) - 4, 3),
               Pattern("finder", 3, Size(v) - 4)}

Corners(v) == {<<1, 1>>, <<1, Number(v)>>, <<Number(v), 1>>}

AlignmentTurn(v, i, j) ==
  Pattern(IF <<i, j>> \in Corners(v) THEN "corner" ELSE "alignment",
          Position(v, i), Position(v, j))

\* The number of turns of the two loops over the alignment positions.
Turns(v) == IF v = 1 THEN 0 ELSE Number(v) * Number(v)

\* The two loops take the positions that the list has.
LEMMA TurnsInRange ==
  ASSUME NEW n \in 2..7, NEW k \in 1..(n * n)
  PROVE  ((k - 1) \div n) + 1 \in 1..n /\ ((k - 1) % n) + 1 \in 1..n
<1>1. n = 2 \/ n = 3 \/ n = 4 \/ n = 5 \/ n = 6 \/ n = 7
  OBVIOUS
<1>2. k \in Nat /\ 1 <= k /\ k <= n * n
  OBVIOUS
<1>3. CASE n = 2
  BY <1>2, <1>3
<1>4. CASE n = 3
  BY <1>2, <1>4
<1>5. CASE n = 4
  BY <1>2, <1>5
<1>6. CASE n = 5
  BY <1>2, <1>6
<1>7. CASE n = 6
  BY <1>2, <1>7
<1>8. CASE n = 7
  BY <1>2, <1>8
<1>. QED  BY <1>1, <1>3, <1>4, <1>5, <1>6, <1>7, <1>8

Drawings(v) ==
  Finders(v) \cup {Pattern("timing", 0, 0), Pattern("format", 0, 0), Pattern("version", 0, 0)}
    \cup {AlignmentTurn(v, i, j) : i \in 1..Number(v), j \in 1..Number(v)}

IsJoin(S, u, s, r) ==
  /\ u \in Seq(S) /\ Len(u) = Len(s) + Len(r)
  /\ \A k \in 1..Len(s) : u[k] = s[k]
  /\ \A k \in 1..Len(r) : u[k + Len(s)] = r[k]

\* What two lists make when they are joined.
LEMMA Joined ==
  ASSUME NEW S, NEW s \in Seq(S), NEW r \in Seq(S)
  PROVE  IsJoin(S, s \o r, s, r)
<1>1. Len(s) \in Nat /\ Len(r) \in Nat
  OBVIOUS
<1>2. /\ s \o r \in Seq(S) /\ Len(s \o r) = Len(s) + Len(r)
      /\ \A k \in 1..(Len(s) + Len(r)) :
           (s \o r)[k] = IF k <= Len(s) THEN s[k] ELSE r[k - Len(s)]
  BY ConcatProperties
<1>3. ASSUME NEW k \in 1..Len(r)
      PROVE  (s \o r)[k + Len(s)] = r[k]
  <2>1. /\ k + Len(s) \in 1..(Len(s) + Len(r)) /\ ~(k + Len(s) <= Len(s))
        /\ k + Len(s) - Len(s) = k
    BY <1>1
  <2>. QED  BY <1>2, <2>1
<1>. QED  BY <1>1, <1>2, <1>3 DEF IsJoin

\* The list of patterns, turn by turn.
LEMMA PatternList ==
  ASSUME NEW v \in 1..MaxVersion
  PROVE  /\ Turns(v) \in Nat /\ Patterns(v) \in Seq(Drawings(v))
         /\ Len(Patterns(v)) = Turns(v) + 6
         /\ Patterns(v)[1] = Pattern("timing", 0, 0)
         /\ \A i \in 2..4 : Patterns(v)[i] \in Finders(v)
         /\ \A k \in 1..Turns(v) :
              Patterns(v)[k + 4] = AlignmentTurn(v, ((k - 1) \div Number(v)) + 1,
                                                    ((k - 1) % Number(v)) + 1)
         /\ Patterns(v)[Turns(v) + 5] = Pattern("format", 0, 0)
         /\ Patterns(v)[Turns(v) + 6] = Pattern("version", 0, 0)
         /\ Patterns(v)[2] = Pattern("finder", 3, 3)
         /\ Patterns(v)[3] = Pattern("finder", Size(v) - 4, 3)
         /\ Patterns(v)[4] = Pattern("finder", 3, Size(v) - 4)
<1>. DEFINE pos == AlignmentPositions(v)
            n   == Len(pos)
            Kind(i, j) == IF <<i, j>> \in {<<1, 1>>, <<1, n>>, <<n, 1>>} THEN "corner"
                                                                         ELSE "alignment"
            At(i, j) == Pattern(Kind(i, j), pos[i], pos[j])
            AtTurn(k) == At(((k - 1) \div n) + 1, ((k - 1) % n) + 1)
            fixed == <<Pattern("timing", 0, 0), Pattern("finder", 3, 3),
                       Pattern("finder", Size(v) - 4, 3), Pattern("finder", 3, Size(v) - 4)>>
            middle == [k \in 1..(n * n) |-> AtTurn(k)]
            words == <<Pattern("format", 0, 0), Pattern("version", 0, 0)>>
            Kinds == Drawings(v)
<1>1. Patterns(v) = fixed \o middle \o words
  BY DEF Patterns
<1>2. v \in Nat /\ v >= 1 /\ Size(v) \in Int
  BY DEF MaxVersion, Size
<1>3. fixed \in Seq(Kinds) /\ words \in Seq(Kinds) /\ Len(fixed) = 4 /\ Len(words) = 2
  BY DEF Drawings, Finders
<1>4. n \in Nat /\ n * n = Turns(v) /\ Turns(v) \in Nat
  <2>1. CASE v = 1
    BY <2>1 DEF AlignmentPositions, Turns
  <2>2. CASE v # 1
    <3>1. v \in 2..MaxVersion
      BY <2>2
    <3>2. n = Number(v) /\ Number(v) \in 2..7
      BY <3>1, PositionList, Spacing
    <3>. HIDE DEF n
    <3>. QED  BY <2>2, <3>2 DEF Turns
  <2>. QED  BY <2>1, <2>2
<1>5. ASSUME NEW k \in 1..(n * n)
      PROVE  /\ AtTurn(k) \in Kinds
             /\ AtTurn(k) = AlignmentTurn(v, ((k - 1) \div Number(v)) + 1,
                                             ((k - 1) % Number(v)) + 1)
  <2>1. v \in 2..MaxVersion
    <3>1. CASE v = 1
      <4>1. n * n = 0
        BY <3>1 DEF AlignmentPositions
      <4>. QED  BY <4>1, <1>5
    <3>. QED  BY <3>1
  <2>2. n = Number(v) /\ n \in 2..7 /\ \A i \in 1..n : pos[i] = Position(v, i)
    BY <2>1, PositionList, Spacing
  <2>. DEFINE i == ((k - 1) \div n) + 1
              j == ((k - 1) % n) + 1
  <2>. HIDE DEF n, pos
  <2>3. i \in 1..n /\ j \in 1..n
    BY <2>2, TurnsInRange
  <2>. HIDE DEF i, j
  <2>4. pos[i] = Position(v, i) /\ pos[j] = Position(v, j)
    BY <2>2, <2>3
  <2>6. At(i, j) = AlignmentTurn(v, i, j)
    BY <2>2, <2>4 DEF AlignmentTurn, Corners
  <2>7. AlignmentTurn(v, i, j) \in Kinds
    BY <2>2, <2>3 DEF Drawings
  <2>. HIDE DEF At
  <2>8. AtTurn(k) = At(i, j)
    BY DEF i, j
  <2>9. i = ((k - 1) \div Number(v)) + 1 /\ j = ((k - 1) % Number(v)) + 1
    BY <2>2 DEF i, j
  <2>. QED  BY <2>6, <2>7, <2>8, <2>9
<1>. HIDE DEF AtTurn, n
<1>6. /\ middle \in Seq(Kinds) /\ Len(middle) = Turns(v)
      /\ \A k \in 1..Turns(v) : middle[k] = AtTurn(k)
  BY <1>4, <1>5
<1>. DEFINE t == Turns(v)
<1>. HIDE DEF fixed, middle, words, Kinds, t
<1>7. /\ fixed \o middle \in Seq(Kinds) /\ Len(fixed \o middle) = t + 4
      /\ \A k \in 1..4 : (fixed \o middle)[k] = fixed[k]
      /\ \A k \in 1..t : (fixed \o middle)[k + 4] = middle[k]
  <2>1. Len(fixed) + Len(middle) = t + 4 /\ Len(fixed) = 4 /\ Len(middle) = t
    BY <1>3, <1>4, <1>6 DEF t
  <2>2. fixed \in Seq(Kinds) /\ middle \in Seq(Kinds)
    BY <1>3, <1>6
  <2>3. /\ fixed \o middle \in Seq(Kinds) /\ Len(fixed \o middle) = Len(fixed) + Len(middle)
        /\ \A k \in 1..Len(fixed) : (fixed \o middle)[k] = fixed[k]
        /\ \A k \in 1..Len(middle) : (fixed \o middle)[k + Len(fixed)] = middle[k]
    <3>1. IsJoin(Kinds, fixed \o middle, fixed, middle)
      BY <2>2, Joined
    <3>. QED  BY <3>1 DEF IsJoin
  <2>. QED  BY <2>1, <2>3
<1>8. /\ Patterns(v) \in Seq(Kinds) /\ Len(Patterns(v)) = t + 6
      /\ \A k \in 1..(t + 4) : Patterns(v)[k] = (fixed \o middle)[k]
      /\ Patterns(v)[t + 5] = words[1] /\ Patterns(v)[t + 6] = words[2]
  <2>. DEFINE before == fixed \o middle
  <2>1. /\ before \in Seq(Kinds) /\ Len(before) = t + 4 /\ t \in Nat
        /\ Patterns(v) = before \o words
    BY <1>1, <1>4, <1>7 DEF t
  <2>. HIDE DEF before
  <2>2. /\ before \o words \in Seq(Kinds) /\ Len(before \o words) = Len(before) + Len(words)
        /\ \A k \in 1..Len(before) : (before \o words)[k] = before[k]
        /\ \A k \in 1..Len(words) : (before \o words)[k + Len(before)] = words[k]
    <3>1. before \in Seq(Kinds) /\ words \in Seq(Kinds)
      BY <1>3, <2>1
    <3>2. IsJoin(Kinds, before \o words, before, words)
      BY <3>1, Joined
    <3>. QED  BY <3>2 DEF IsJoin
  <2>3. 1 + Len(before) = t + 5 /\ 2 + Len(before) = t + 6 /\ Len(before) + Len(words) = t + 6
        /\ 1 \in 1..Len(words) /\ 2 \in 1..Len(words)
    BY <1>3, <2>1
  <2>. QED  BY <2>1, <2>2, <2>3 DEF before
<1>9. /\ \A k \in 1..4 : Patterns(v)[k] = fixed[k]
      /\ \A k \in 1..t : Patterns(v)[k + 4] = middle[k]
  <2>1. t \in Nat
    BY <1>4 DEF t
  <2>2. \A k \in 1..4 : k \in 1..(t + 4)
    BY <2>1
  <2>3. \A k \in 1..t : k + 4 \in 1..(t + 4)
    BY <2>1
  <2>. QED  BY <1>7, <1>8, <2>2, <2>3
<1>10. /\ fixed[1] = Pattern("timing", 0, 0)
       /\ fixed[2] = Pattern("finder", 3, 3)
       /\ fixed[3] = Pattern("finder", Size(v) - 4, 3)
       /\ fixed[4] = Pattern("finder", 3, Size(v) - 4)
       /\ words[1] = Pattern("format", 0, 0) /\ words[2] = Pattern("version", 0, 0)
  BY DEF fixed, words
<1>11. \A i \in 2..4 : Patterns(v)[i] \in Finders(v)
  BY <1>9, <1>10 DEF Finders
<1>12. \A k \in 1..t : Patterns(v)[k + 4] = AlignmentTurn(v, ((k - 1) \div Number(v)) + 1,
                                                              ((k - 1) % Number(v)) + 1)
  BY <1>4, <1>5, <1>6, <1>9 DEF t
<1>. QED  BY <1>4, <1>8, <1>9, <1>10, <1>11, <1>12 DEF t, Kinds

(* The modules of each pattern *)

Board(v) == (0..(Size(v) - 1)) \X (0..(Size(v) - 1))

OnTiming(m) == m[1] = 6 \/ m[2] = 6

OnFormat(m, v) ==
  \/ m[1] = 8 /\ (m[2] \in (0..8) \ {6} \/ m[2] >= Size(v) - 8)
  \/ m[2] = 8 /\ (m[1] \in (0..8) \ {6} \/ m[1] >= Size(v) - 8)

OnVersion(m, v) ==
  /\ v >= 7
  /\ \/ m[1] \in (Size(v) - 11)..(Size(v) - 9) /\ m[2] <= 5
     \/ m[2] \in (Size(v) - 11)..(Size(v) - 9) /\ m[1] <= 5

InSquare(m, x, y) == m[1] \in (x - 2)..(x + 2) /\ m[2] \in (y - 2)..(y + 2)

\* The timing lines lie in the symbol, and are black on every second module.
LEMMA TimingCells ==
  ASSUME NEW v \in 1..MaxVersion, NEW l
  PROVE  /\ Cells(Pattern("timing", 0, 0), v) = {m \in Board(v) : OnTiming(m)}
         /\ \A m \in Cells(Pattern("timing", 0, 0), v) :
              m \in Black(Pattern("timing", 0, 0), v, l) <=> (m[1] + m[2]) % 2 = 0
         /\ Black(Pattern("timing", 0, 0), v, l) \subseteq Cells(Pattern("timing", 0, 0), v)
<1>. DEFINE p == Pattern("timing", 0, 0)
            line == 0..(Size(v) - 1)
<1>1. p.kind = "timing"
  BY DEF Pattern
<1>. HIDE DEF p
<1>2. Cells(p, v) = ({6} \X line) \cup (line \X {6})
  BY <1>1 DEF Cells
<1>3. Black(p, v, l) = {m \in Cells(p, v) : (m[1] + m[2]) % 2 = 0}
  BY <1>1 DEF Black
<1>4. 6 \in line
  BY DEF Size, MaxVersion
<1>5. ({6} \X line) \cup (line \X {6}) = {m \in line \X line : OnTiming(m)}
  <2>. HIDE DEF line
  <2>. QED  BY <1>4 DEF OnTiming
<1>. QED  BY <1>2, <1>3, <1>5 DEF p, Board

\* A finder, with its separator, lies in its corner.
LEMMA FinderCells ==
  ASSUME NEW v \in 1..MaxVersion, NEW l, NEW p \in Finders(v)
  PROVE  /\ p.kind = "finder"
         /\ \A m \in Cells(p, v) : m \in Board(v) /\ UnderFinder(m, v)
         /\ Black(p, v, l) \subseteq Cells(p, v)
<1>1. p.kind = "finder"
  BY DEF Finders, Pattern
<1>2. /\ Cells(p, v) = Square(p.x, p.y, 4) \cap Board(v)
      /\ Black(p, v, l) = {m \in Cells(p, v) : Ring(m, p.x, p.y) \notin {2, 4}}
  BY <1>1 DEF Cells, Black, Board
<1>3. /\ p.x = 3 \/ p.x = Size(v) - 4
      /\ p.y = 3 \/ p.y = Size(v) - 4
      /\ p.x = 3 \/ p.y = 3
  BY DEF Finders, Pattern
<1>4. ASSUME NEW m \in Cells(p, v)
      PROVE  UnderFinder(m, v)
  <2>1. /\ m \in Board(v)
        /\ m[1] \in (p.x - 4)..(p.x + 4) /\ m[2] \in (p.y - 4)..(p.y + 4)
    BY <1>2, <1>4 DEF Square
  <2>2. v \in Nat /\ v >= 1 /\ Size(v) = 4 * v + 17
    BY DEF Size, MaxVersion
  <2>3. m[1] \in Int /\ m[2] \in Int
    BY <2>1, <2>2 DEF Board
  <2>. QED  BY <1>3, <2>1, <2>2, <2>3 DEF UnderFinder
<1>. QED  BY <1>1, <1>2, <1>4

\* Under a finder are the modules of one of the three, and no two share a module.
LEMMA FinderCover ==
  ASSUME NEW v \in 1..MaxVersion, NEW m \in Board(v), UnderFinder(m, v)
  PROVE  \E p \in Finders(v) : m \in Cells(p, v)
<1>1. v \in Nat /\ v >= 1 /\ Size(v) = 4 * v + 17
  BY DEF Size, MaxVersion
<1>2. m = <<m[1], m[2]>> /\ m[1] \in 0..(Size(v) - 1) /\ m[2] \in 0..(Size(v) - 1)
  BY DEF Board
<1>3. ASSUME NEW x, NEW y
      PROVE  Cells(Pattern("finder", x, y), v) = Square(x, y, 4) \cap Board(v)
  BY DEF Cells, Pattern, Board
<1>4. CASE m[1] <= 7 /\ m[2] <= 7
  <2>1. m \in Square(3, 3, 4)
    BY <1>1, <1>2, <1>4 DEF Square
  <2>. QED  BY <1>3, <2>1 DEF Finders
<1>5. CASE m[1] >= Size(v) - 8 /\ m[2] <= 7
  <2>1. m \in Square(Size(v) - 4, 3, 4)
    BY <1>1, <1>2, <1>5 DEF Square
  <2>. QED  BY <1>3, <2>1 DEF Finders
<1>6. CASE m[1] <= 7 /\ m[2] >= Size(v) - 8
  <2>1. m \in Square(3, Size(v) - 4, 4)
    BY <1>1, <1>2, <1>6 DEF Square
  <2>. QED  BY <1>3, <2>1 DEF Finders
<1>. QED  BY <1>4, <1>5, <1>6 DEF UnderFinder

\* No two finders share a module.
LEMMA FindersApart ==
  ASSUME NEW v \in 1..MaxVersion, NEW p \in Finders(v), NEW q \in Finders(v),
         NEW m \in Cells(p, v), m \in Cells(q, v)
  PROVE  p = q
<1>1. v \in Nat /\ v >= 1 /\ Size(v) = 4 * v + 17
  BY DEF Size, MaxVersion
<1>2. /\ m \in Board(v)
      /\ m[1] \in (p.x - 4)..(p.x + 4) /\ m[2] \in (p.y - 4)..(p.y + 4)
      /\ m[1] \in (q.x - 4)..(q.x + 4) /\ m[2] \in (q.y - 4)..(q.y + 4)
  <2>1. p.kind = "finder" /\ q.kind = "finder"
    BY FinderCells
  <2>. QED  BY <2>1 DEF Cells, Square, Board
<1>3. m[1] \in Int /\ m[2] \in Int
  BY <1>1, <1>2 DEF Board
<1>4. ASSUME NEW r \in Finders(v)
      PROVE  /\ r.x = 3 /\ r.y = 3 => r = Pattern("finder", 3, 3)
             /\ r.x = Size(v) - 4 => r = Pattern("finder", Size(v) - 4, 3) /\ r.y = 3
             /\ r.y = Size(v) - 4 => r = Pattern("finder", 3, Size(v) - 4) /\ r.x = 3
             /\ r.x \in {3, Size(v) - 4} /\ r.y \in {3, Size(v) - 4}
  BY <1>1, <1>4 DEF Finders, Pattern
<1>5. p.x \in {3, Size(v) - 4} /\ p.y \in {3, Size(v) - 4}
      /\ q.x \in {3, Size(v) - 4} /\ q.y \in {3, Size(v) - 4}
  BY <1>4
<1>6. p.x = q.x /\ p.y = q.y
  BY <1>1, <1>2, <1>3, <1>5
<1>. QED  BY <1>4, <1>5, <1>6

\* An alignment pattern is a square of five modules and lies in the symbol.
LEMMA AlignmentCells ==
  ASSUME NEW v \in 2..MaxVersion, NEW l, NEW i \in 1..Number(v), NEW j \in 1..Number(v),
         <<i, j>> \notin Corners(v)
  PROVE  /\ AlignmentTurn(v, i, j).kind = "alignment"
         /\ \A m \in Cells(AlignmentTurn(v, i, j), v) :
              m \in Board(v) /\ InSquare(m, Position(v, i), Position(v, j))
         /\ \A m \in Board(v) :
              InSquare(m, Position(v, i), Position(v, j)) =>
                m \in Cells(AlignmentTurn(v, i, j), v)
         /\ \A m \in Cells(AlignmentTurn(v, i, j), v) :
              m \in Black(AlignmentTurn(v, i, j), v, l)
                <=> Ring(m, Position(v, i), Position(v, j)) # 1
         /\ Black(AlignmentTurn(v, i, j), v, l) \subseteq Cells(AlignmentTurn(v, i, j), v)
<1>. DEFINE p == AlignmentTurn(v, i, j)
            x == Position(v, i)
            y == Position(v, j)
<1>1. p.kind = "alignment" /\ p.x = x /\ p.y = y
  BY DEF AlignmentTurn, Pattern
<1>2. Centre(v, x, y)
  BY Centres DEF Corners
<1>. HIDE DEF p, x, y
<1>3. /\ Cells(p, v) = Square(x, y, 2)
      /\ Black(p, v, l) = {m \in Cells(p, v) : Ring(m, x, y) # 1}
  BY <1>1 DEF Cells, Black
<1>4. /\ v \in Nat /\ v >= 1 /\ Size(v) = 4 * v + 17
      /\ x \in 6..(4 * v + 10) /\ y \in 6..(4 * v + 10)
  BY <1>2 DEF Centre, Size, MaxVersion
<1>5. ASSUME NEW m \in Square(x, y, 2)
      PROVE  m \in Board(v) /\ InSquare(m, x, y)
  <2>1. m = <<m[1], m[2]>> /\ m[1] \in (x - 2)..(x + 2) /\ m[2] \in (y - 2)..(y + 2)
    BY <1>5 DEF Square
  <2>2. m[1] \in 0..(Size(v) - 1) /\ m[2] \in 0..(Size(v) - 1)
    BY <1>4, <2>1
  <2>. QED  BY <2>1, <2>2 DEF Board, InSquare
<1>6. ASSUME NEW m \in Board(v), InSquare(m, x, y)
      PROVE  m \in Square(x, y, 2)
  <2>1. m = <<m[1], m[2]>>
    BY DEF Board
  <2>. QED  BY <1>6, <2>1 DEF Square, InSquare
<1>. QED  BY <1>1, <1>3, <1>5, <1>6 DEF p, x, y

\* A turn that falls on a finder draws nothing.
LEMMA CornerCells ==
  ASSUME NEW v \in 2..MaxVersion, NEW l, NEW i \in 1..Number(v), NEW j \in 1..Number(v),
         <<i, j>> \in Corners(v)
  PROVE  Cells(AlignmentTurn(v, i, j), v) = {} /\ Black(AlignmentTurn(v, i, j), v, l) = {}
<1>1. AlignmentTurn(v, i, j).kind = "corner"
  BY DEF AlignmentTurn, Pattern
<1>. QED  BY <1>1 DEF Cells, Black

\* Each module of the format words has one place in one copy, and the dark module its own.
LEMMA FormatPlaces ==
  ASSUME NEW v \in 1..MaxVersion, NEW copy \in 1..2, NEW i \in 0..14
  PROVE  /\ FormatModule(v, copy, i) \in Board(v)
         /\ OnFormat(FormatModule(v, copy, i), v)
         /\ FormatModule(v, copy, i) # DarkModule(v)
<1>1. v \in Nat /\ v >= 1 /\ Size(v) = 4 * v + 17
  BY DEF Size, MaxVersion
<1>2. CASE copy = 1 /\ i <= 5
  <2>1. FormatModule(v, copy, i) = <<8, i>>
    BY <1>2 DEF FormatModule
  <2>. QED  BY <1>1, <1>2, <2>1 DEF Board, OnFormat, DarkModule
<1>3. CASE copy = 1 /\ i \in {6, 7}
  <2>1. FormatModule(v, copy, i) = <<8, i + 1>>
    BY <1>3 DEF FormatModule
  <2>. QED  BY <1>1, <1>3, <2>1 DEF Board, OnFormat, DarkModule
<1>4. CASE copy = 1 /\ i = 8
  <2>1. FormatModule(v, copy, i) = <<7, 8>>
    BY <1>4 DEF FormatModule
  <2>. QED  BY <1>1, <1>4, <2>1 DEF Board, OnFormat, DarkModule
<1>5. CASE copy = 1 /\ i > 8
  <2>1. FormatModule(v, copy, i) = <<14 - i, 8>>
    BY <1>5 DEF FormatModule
  <2>. QED  BY <1>1, <1>5, <2>1 DEF Board, OnFormat, DarkModule
<1>6. CASE copy = 2 /\ i < 8
  <2>1. FormatModule(v, copy, i) = <<Size(v) - 1 - i, 8>>
    BY <1>6 DEF FormatModule
  <2>. QED  BY <1>1, <1>6, <2>1 DEF Board, OnFormat, DarkModule
<1>7. CASE copy = 2 /\ i >= 8
  <2>1. FormatModule(v, copy, i) = <<8, Size(v) - 15 + i>>
    BY <1>7 DEF FormatModule
  <2>. QED  BY <1>1, <1>7, <2>1 DEF Board, OnFormat, DarkModule
<1>. QED  BY <1>2, <1>3, <1>4, <1>5, <1>6, <1>7

\* The module of bit i in a copy of the format word tells i.
LEMMA FormatBitOf ==
  ASSUME NEW v \in 1..MaxVersion, NEW c \in 1..2, NEW d \in 1..2,
         NEW i \in 0..14, NEW j \in 0..14, FormatModule(v, c, i) = FormatModule(v, d, j)
  PROVE  i = j
<1>. DEFINE bit(m) == IF m[1] = 8 THEN IF m[2] > 8 THEN m[2] + 15 - Size(v)
                                       ELSE IF m[2] <= 5 THEN m[2] ELSE m[2] - 1
                      ELSE IF m[1] > 8 THEN Size(v) - 1 - m[1]
                      ELSE IF m[1] = 7 THEN 8 ELSE 14 - m[1]
<1>1. v \in Nat /\ v >= 1 /\ Size(v) = 4 * v + 17
  BY DEF Size, MaxVersion
<1>2. ASSUME NEW copy \in 1..2, NEW k \in 0..14
      PROVE  bit(FormatModule(v, copy, k)) = k
  <2>2. CASE copy = 1 /\ k <= 5
    <3>1. FormatModule(v, copy, k) = <<8, k>>
      BY <2>2 DEF FormatModule
    <3>. QED  BY <1>1, <2>2, <3>1
  <2>3. CASE copy = 1 /\ k \in {6, 7}
    <3>1. FormatModule(v, copy, k) = <<8, k + 1>>
      BY <2>3 DEF FormatModule
    <3>. QED  BY <1>1, <2>3, <3>1
  <2>4. CASE copy = 1 /\ k = 8
    <3>1. FormatModule(v, copy, k) = <<7, 8>>
      BY <2>4 DEF FormatModule
    <3>. QED  BY <1>1, <2>4, <3>1
  <2>5. CASE copy = 1 /\ k > 8
    <3>1. FormatModule(v, copy, k) = <<14 - k, 8>>
      BY <2>5 DEF FormatModule
    <3>. QED  BY <1>1, <2>5, <3>1
  <2>6. CASE copy = 2 /\ k < 8
    <3>1. FormatModule(v, copy, k) = <<Size(v) - 1 - k, 8>>
      BY <2>6 DEF FormatModule
    <3>. QED  BY <1>1, <2>6, <3>1
  <2>7. CASE copy = 2 /\ k >= 8
    <3>1. FormatModule(v, copy, k) = <<8, Size(v) - 15 + k>>
      BY <2>7 DEF FormatModule
    <3>. QED  BY <1>1, <2>7, <3>1
  <2>. QED  BY <2>2, <2>3, <2>4, <2>5, <2>6, <2>7
<1>. HIDE DEF bit
<1>3. bit(FormatModule(v, c, i)) = i /\ bit(FormatModule(v, d, j)) = j
  BY <1>2
<1>. QED  BY <1>3

\* The format words lie where they are said to, and each module shows its bit.
LEMMA FormatWords ==
  ASSUME NEW v \in 1..MaxVersion, NEW l, NEW m
  PROVE  /\ \A c \in FormatCells(v) : c \in Board(v) /\ OnFormat(c, v)
         /\ FormatBlack(v, l, m) \subseteq FormatCells(v)
         /\ \A copy \in 1..2, i \in 0..14 :
              FormatModule(v, copy, i) \in FormatBlack(v, l, m)
                <=> Bit(FormatBits(l, m), i) = 1
<1>1. DarkModule(v) \in Board(v) /\ OnFormat(DarkModule(v), v)
  BY DEF DarkModule, Board, OnFormat, Size, MaxVersion
<1>2. \A c \in FormatCells(v) : c \in Board(v) /\ OnFormat(c, v)
  BY <1>1, FormatPlaces DEF FormatCells
<1>. DEFINE Set(i) == Bit(FormatBits(l, m), i) = 1
<1>. HIDE DEF Set
<1>3. FormatBlack(v, l, m)
        = {FormatModule(v, copy, i) : copy \in 1..2, i \in {k \in 0..14 : Set(k)}}
            \cup {DarkModule(v)}
  BY DEF FormatBlack, Set
<1>4. FormatBlack(v, l, m) \subseteq FormatCells(v)
  BY <1>3 DEF FormatCells
<1>5. ASSUME NEW copy \in 1..2, NEW i \in 0..14
      PROVE  FormatModule(v, copy, i) \in FormatBlack(v, l, m) <=> Set(i)
  <2>1. ASSUME FormatModule(v, copy, i) \in FormatBlack(v, l, m)
        PROVE  Set(i)
    <3>1. PICK d \in 1..2, j \in {k \in 0..14 : Set(k)} :
            FormatModule(v, copy, i) = FormatModule(v, d, j)
      BY <1>3, <2>1, FormatPlaces
    <3>2. i = j
      BY <3>1, FormatBitOf
    <3>. QED  BY <3>1, <3>2
  <2>. QED  BY <1>3, <2>1
<1>. QED  BY <1>2, <1>4, <1>5 DEF Set

\* They are the pattern that is drawn before the version words.
LEMMA FormatPattern ==
  ASSUME NEW v \in 1..MaxVersion, NEW l
  PROVE  /\ Pattern("format", 0, 0).kind = "format"
         /\ Cells(Pattern("format", 0, 0), v) = FormatCells(v)
         /\ Black(Pattern("format", 0, 0), v, l) = FormatBlack(v, l, 0)
<1>1. Pattern("format", 0, 0).kind = "format"
  BY DEF Pattern
<1>. QED  BY <1>1 DEF Cells, Black

\* The same of the version words.
LEMMA VersionPlaces ==
  ASSUME NEW v \in 7..MaxVersion, NEW copy \in 1..2, NEW i \in 0..17
  PROVE  /\ VersionModule(v, copy, i) \in Board(v)
         /\ OnVersion(VersionModule(v, copy, i), v)
<1>1. v \in Nat /\ v >= 7 /\ Size(v) = 4 * v + 17
  BY DEF Size, MaxVersion
<1>. DEFINE a == Size(v) - 11 + (i % 3)
            b == i \div 3
<1>2. a \in (Size(v) - 11)..(Size(v) - 9) /\ b \in 0..5
  BY <1>1
<1>3. VersionModule(v, copy, i) = IF copy = 1 THEN <<a, b>> ELSE <<b, a>>
  BY DEF VersionModule
<1>. HIDE DEF a, b
<1>. QED  BY <1>1, <1>2, <1>3 DEF Board, OnVersion

\* The module of bit i in a copy of the version word tells i.
LEMMA VersionBitOf ==
  ASSUME NEW v \in 7..MaxVersion, NEW c \in 1..2, NEW d \in 1..2,
         NEW i \in 0..17, NEW j \in 0..17, VersionModule(v, c, i) = VersionModule(v, d, j)
  PROVE  i = j
<1>. DEFINE base == Size(v) - 11
            long(k) == base + (k % 3)
            short(k) == k \div 3
<1>1. v \in Nat /\ v >= 7 /\ base = 4 * v + 6
  BY DEF Size, MaxVersion
<1>2. \A k \in 0..17 : /\ short(k) \in 0..5 /\ long(k) \in base..(base + 2)
                       /\ k = 3 * short(k) + (long(k) - base)
  <2>1. base \in Int
    BY <1>1
  <2>. HIDE DEF base
  <2>2. \A k \in 0..17 : k \div 3 \in 0..5 /\ k % 3 \in 0..2 /\ k = 3 * (k \div 3) + (k % 3)
    OBVIOUS
  <2>. QED  BY <2>1, <2>2
<1>3. \A k \in 0..17, copy \in 1..2 :
        VersionModule(v, copy, k) = IF copy = 1 THEN <<long(k), short(k)>>
                                                ELSE <<short(k), long(k)>>
  BY DEF VersionModule
<1>. HIDE DEF base, long, short
<1>4. /\ short(i) \in 0..5 /\ long(i) \in base..(base + 2)
      /\ short(j) \in 0..5 /\ long(j) \in base..(base + 2)
  BY <1>2
<1>5. long(i) = long(j) /\ short(i) = short(j)
  <2>1. CASE c = d
    BY <1>3, <2>1
  <2>2. CASE c # d
    <3>1. long(i) = short(j)
      BY <1>3, <2>2
    <3>. QED  BY <1>1, <1>4, <3>1
  <2>. QED  BY <2>1, <2>2
<1>6. i = 3 * short(i) + (long(i) - base) /\ j = 3 * short(j) + (long(j) - base)
  BY <1>2
<1>. QED  BY <1>5, <1>6

\* The version words lie where they are said to, and each module shows its bit.
LEMMA VersionWords ==
  ASSUME NEW v \in 1..MaxVersion, NEW l
  PROVE  LET p == Pattern("version", 0, 0)
         IN /\ p.kind = "version"
            /\ \A c \in Cells(p, v) : c \in Board(v) /\ OnVersion(c, v)
            /\ Black(p, v, l) \subseteq Cells(p, v)
            /\ v < 7 => Cells(p, v) = {}
            /\ v >= 7 => Cells(p, v) = {VersionModule(v, copy, i) : copy \in 1..2, i \in 0..17}
            /\ v >= 7 => \A copy \in 1..2, i \in 0..17 :
                 VersionModule(v, copy, i) \in Black(p, v, l) <=> Bit(VersionBits(v), i) = 1
<1>. DEFINE p == Pattern("version", 0, 0)
            Set(i) == Bit(VersionBits(v), i) = 1
<1>1. p.kind = "version"
  BY DEF Pattern
<1>. HIDE DEF p, Set
<1>2. v < 7 => Cells(p, v) = {} /\ Black(p, v, l) = {}
  BY <1>1 DEF Cells, Black
<1>3. v >= 7 =>
        /\ Cells(p, v) = {VersionModule(v, copy, i) : copy \in 1..2, i \in 0..17}
        /\ Black(p, v, l)
             = {VersionModule(v, copy, i) : copy \in 1..2, i \in {k \in 0..17 : Set(k)}}
  <2>1. v >= 7 => ~(v < 7)
    OBVIOUS
  <2>. QED  BY <1>1, <2>1 DEF Cells, Black, Set
<1>4. v < 7 \/ v \in 7..MaxVersion
  OBVIOUS
<1>5. \A c \in Cells(p, v) : c \in Board(v) /\ OnVersion(c, v)
  BY <1>2, <1>3, <1>4, VersionPlaces
<1>6. Black(p, v, l) \subseteq Cells(p, v)
  BY <1>2, <1>3, <1>4
<1>7. ASSUME v >= 7, NEW copy \in 1..2, NEW i \in 0..17
      PROVE  VersionModule(v, copy, i) \in Black(p, v, l) <=> Set(i)
  <2>1. ASSUME VersionModule(v, copy, i) \in Black(p, v, l)
        PROVE  Set(i)
    <3>1. PICK d \in 1..2, j \in {k \in 0..17 : Set(k)} :
            VersionModule(v, copy, i) = VersionModule(v, d, j)
      BY <1>3, <1>7, <2>1
    <3>2. i = j
      BY <1>4, <1>7, <3>1, VersionBitOf
    <3>. QED  BY <3>1, <3>2
  <2>. QED  BY <1>3, <1>7, <2>1
<1>. QED  BY <1>1, <1>2, <1>3, <1>5, <1>6, <1>7 DEF p, Set

\* No module has two patterns over it, but for a timing line: the finders take their share
\* of it, and an alignment pattern in its way has the colours of the line.
Agree(p, q, v, l, m) ==
  IF p.kind = "timing" /\ q.kind = "finder"
  THEN m[1] = 6 \/ m[2] = 6
  ELSE /\ m \in Black(p, v, l) <=> m \in Black(q, v, l)
       /\ ~(p.kind = "timing" /\ UnderFinder(m, v))

\* An alignment pattern on a timing line agrees with it: its middle line alternates, and
\* its centre is even.
LEMMA TimingAlignment ==
  ASSUME NEW v \in 2..MaxVersion, NEW x, NEW y, Centre(v, x, y),
         NEW m \in Board(v), InSquare(m, x, y), OnTiming(m)
  PROVE  (m[1] + m[2]) % 2 = 0 <=> Ring(m, x, y) # 1
<1>. DEFINE a == m[1]
            b == m[2]
<1>1. v \in Nat /\ a \in Nat /\ b \in Nat /\ (a = 6 \/ b = 6)
      /\ a \in (x - 2)..(x + 2) /\ b \in (y - 2)..(y + 2)
  BY DEF Board, Size, InSquare, OnTiming, MaxVersion
<1>2. /\ x \in Nat /\ y \in Nat /\ x % 2 = 0 /\ y % 2 = 0
      /\ (x # 6 => x >= 11) /\ (y # 6 => y >= 11)
      /\ (x = 6 => y # 6)
  BY <1>1 DEF Centre
<1>. HIDE DEF a, b
<1>3. ASSUME NEW d \in Nat, NEW e \in Nat
      PROVE  Max({d, e}) = IF d >= e THEN d ELSE e
  BY DEF Max
<1>4. Abs(a - x) \in 0..2 /\ Abs(b - y) \in 0..2
  BY <1>1, <1>2 DEF Abs
<1>5. Ring(m, x, y) = IF Abs(a - x) >= Abs(b - y) THEN Abs(a - x) ELSE Abs(b - y)
  BY <1>3, <1>4 DEF Ring, a, b
<1>6. CASE a = 6
  <2>1. x = 6
    BY <1>1, <1>2, <1>6
  <2>2. y # 6 /\ y >= 11
    BY <1>2, <2>1
  <2>3. Abs(a - x) = 0
    BY <1>6, <2>1 DEF Abs
  <2>4. Ring(m, x, y) = Abs(b - y)
    BY <1>4, <1>5, <2>3
  <2>5. b = y \/ b = y + 1 \/ b = y - 1 \/ b = y + 2 \/ b = y - 2
    BY <1>1, <1>2
  <2>6. Abs(b - y) # 1 <=> b % 2 = 0
    BY <1>1, <1>2, <2>5 DEF Abs
  <2>7. (a + b) % 2 = 0 <=> b % 2 = 0
    BY <1>1, <1>6
  <2>. QED  BY <2>4, <2>6, <2>7 DEF a, b
<1>7. CASE b = 6
  <2>1. y = 6
    BY <1>1, <1>2, <1>7
  <2>2. x # 6 /\ x >= 11
    BY <1>2, <2>1
  <2>3. Abs(b - y) = 0
    BY <1>7, <2>1 DEF Abs
  <2>4. Ring(m, x, y) = Abs(a - x)
    BY <1>4, <1>5, <2>3
  <2>5. a = x \/ a = x + 1 \/ a = x - 1 \/ a = x + 2 \/ a = x - 2
    BY <1>1, <1>2
  <2>6. Abs(a - x) # 1 <=> a % 2 = 0
    BY <1>1, <1>2, <2>5 DEF Abs
  <2>7. (a + b) % 2 = 0 <=> a % 2 = 0
    BY <1>1, <1>7
  <2>. QED  BY <2>4, <2>6, <2>7 DEF a, b
<1>. QED  BY <1>1, <1>6, <1>7

\* The kinds of drawings, one of them at a time.
LEMMA Drawing ==
  ASSUME NEW v \in 1..MaxVersion, NEW p \in Drawings(v),
         v = 1 => p.kind \notin {"corner", "alignment"}
  PROVE  \/ p = Pattern("timing", 0, 0) \/ p \in Finders(v)
         \/ p = Pattern("format", 0, 0) \/ p = Pattern("version", 0, 0)
         \/ v \in 2..MaxVersion /\ \E i, j \in 1..Number(v) : p = AlignmentTurn(v, i, j)
<1>1. CASE v = 1
  <2>1. p \notin {AlignmentTurn(v, i, j) : i \in 1..Number(v), j \in 1..Number(v)}
    <3>1. \A i, j : AlignmentTurn(v, i, j).kind \in {"corner", "alignment"}
      BY DEF AlignmentTurn, Pattern
    <3>. QED  BY <1>1, <3>1
  <2>. QED  BY <2>1 DEF Drawings
<1>2. CASE v # 1
  <2>1. v \in 2..MaxVersion
    BY <1>2
  <2>. QED  BY <2>1 DEF Drawings
<1>. QED  BY <1>1, <1>2

\* What the five kinds say of a module's place, and that no two of them can be said of the
\* same module.
Covered(p, v, m) ==
  \/ p.kind = "timing" /\ p = Pattern("timing", 0, 0) /\ OnTiming(m)
  \/ p.kind = "finder" /\ p \in Finders(v) /\ UnderFinder(m, v)
  \/ p.kind = "format" /\ p = Pattern("format", 0, 0) /\ OnFormat(m, v)
  \/ p.kind = "version" /\ p = Pattern("version", 0, 0) /\ OnVersion(m, v)
  \/ /\ p.kind = "alignment" /\ v \in 2..MaxVersion
     /\ \E i, j \in 1..Number(v) :
          /\ <<i, j>> \notin Corners(v) /\ p = AlignmentTurn(v, i, j)
          /\ InSquare(m, Position(v, i), Position(v, j))

\* The modules of a drawing satisfy the condition on their place.
LEMMA Covers ==
  ASSUME NEW v \in 1..MaxVersion, NEW p \in Drawings(v),
         v = 1 => p.kind \notin {"corner", "alignment"},
         NEW m \in Cells(p, v)
  PROVE  m \in Board(v) /\ Covered(p, v, m)
<1>1. CASE p = Pattern("timing", 0, 0)
  <2>1. p.kind = "timing" /\ m \in Board(v) /\ OnTiming(m)
    BY <1>1, TimingCells DEF Pattern
  <2>. QED  BY <1>1, <2>1 DEF Covered
<1>2. CASE p \in Finders(v)
  <2>1. p.kind = "finder" /\ m \in Board(v) /\ UnderFinder(m, v)
    BY <1>2, FinderCells
  <2>. QED  BY <1>2, <2>1 DEF Covered
<1>3. CASE p = Pattern("format", 0, 0)
  <2>1. p.kind = "format" /\ m \in Board(v) /\ OnFormat(m, v)
    BY <1>3, FormatPattern, FormatWords
  <2>. QED  BY <1>3, <2>1 DEF Covered
<1>4. CASE p = Pattern("version", 0, 0)
  <2>1. p.kind = "version" /\ m \in Board(v) /\ OnVersion(m, v)
    BY <1>4, VersionWords
  <2>. QED  BY <1>4, <2>1 DEF Covered
<1>5. ASSUME v \in 2..MaxVersion, NEW i \in 1..Number(v), NEW j \in 1..Number(v),
             p = AlignmentTurn(v, i, j)
      PROVE  m \in Board(v) /\ Covered(p, v, m)
  <2>1. <<i, j>> \notin Corners(v)
    BY <1>5, CornerCells
  <2>2. /\ p.kind = "alignment" /\ m \in Board(v)
        /\ InSquare(m, Position(v, i), Position(v, j))
    BY <1>5, <2>1, AlignmentCells
  <2>. QED  BY <1>5, <2>1, <2>2 DEF Covered
<1>. QED  BY <1>1, <1>2, <1>3, <1>4, <1>5, Drawing

\* The places of the kinds are disjoint, apart from the timing line.
LEMMA PlacesApart ==
  ASSUME NEW v \in 1..MaxVersion, NEW m \in Board(v)
  PROVE  /\ OnFormat(m, v) => ~OnTiming(m) /\ ~UnderFinder(m, v) /\ ~OnVersion(m, v)
         /\ OnVersion(m, v) => ~OnTiming(m) /\ ~UnderFinder(m, v)
         /\ \A x, y : Centre(v, x, y) /\ InSquare(m, x, y) =>
              ~OnFormat(m, v) /\ ~UnderFinder(m, v) /\ ~OnVersion(m, v)
<1>. DEFINE a == m[1]
            b == m[2]
<1>1. /\ v \in Nat /\ v >= 1 /\ Size(v) = 4 * v + 17
      /\ a \in 0..(4 * v + 16) /\ b \in 0..(4 * v + 16)
  BY DEF Board, Size, MaxVersion
<1>. HIDE DEF a, b
<1>2. /\ OnTiming(m) <=> a = 6 \/ b = 6
      /\ UnderFinder(m, v) <=> \/ a <= 7 /\ b <= 7
                               \/ a >= 4 * v + 9 /\ b <= 7
                               \/ a <= 7 /\ b >= 4 * v + 9
      /\ OnFormat(m, v) <=> \/ a = 8 /\ (b \in (0..8) \ {6} \/ b >= 4 * v + 9)
                            \/ b = 8 /\ (a \in (0..8) \ {6} \/ a >= 4 * v + 9)
      /\ OnVersion(m, v) <=>
           /\ v >= 7
           /\ \/ a \in (4 * v + 6)..(4 * v + 8) /\ b <= 5
              \/ b \in (4 * v + 6)..(4 * v + 8) /\ a <= 5
  BY <1>1 DEF OnTiming, UnderFinder, OnFormat, OnVersion, a, b
<1>3. OnFormat(m, v) => ~OnTiming(m) /\ ~UnderFinder(m, v) /\ ~OnVersion(m, v)
  BY <1>1, <1>2
<1>4. OnVersion(m, v) => ~OnTiming(m) /\ ~UnderFinder(m, v)
  BY <1>1, <1>2
<1>5. ASSUME NEW x, NEW y, Centre(v, x, y), InSquare(m, x, y)
      PROVE  ~OnFormat(m, v) /\ ~UnderFinder(m, v) /\ ~OnVersion(m, v)
  <2>1. a \in (x - 2)..(x + 2) /\ b \in (y - 2)..(y + 2)
    BY <1>5 DEF InSquare, a, b
  <2>2. /\ x \in 6..(4 * v + 10) /\ y \in 6..(4 * v + 10)
        /\ x = 6 => y \in 11..(4 * v - 6)
        /\ y = 6 => x \in 11..(4 * v - 6)
        /\ x # 6 => x >= 11
        /\ y # 6 => y >= 11
    BY <1>5 DEF Centre
  <2>3. ~UnderFinder(m, v)
    BY <1>1, <1>2, <2>1, <2>2
  <2>4. ~OnFormat(m, v)
    BY <1>1, <1>2, <2>1, <2>2
  <2>5. ~OnVersion(m, v)
    BY <1>1, <1>2, <2>1, <2>2
  <2>. QED  BY <2>3, <2>4, <2>5
<1>. QED  BY <1>3, <1>4, <1>5

\* The patterns p and q meet in m, and p is drawn before q.
LEMMA Overlap ==
  ASSUME NEW v \in 1..MaxVersion, NEW l, NEW p \in Drawings(v), NEW q \in Drawings(v),
         v = 1 => p.kind \notin {"corner", "alignment"},
         v = 1 => q.kind \notin {"corner", "alignment"},
         NEW m \in Cells(p, v), m \in Cells(q, v), q.kind # "timing"
  PROVE  Agree(p, q, v, l, m)
<1>1. m \in Board(v) /\ Covered(p, v, m) /\ Covered(q, v, m)
  BY Covers
<1>2. ASSUME v \in 2..MaxVersion, NEW i \in 1..Number(v), NEW j \in 1..Number(v),
             <<i, j>> \notin Corners(v)
      PROVE  Centre(v, Position(v, i), Position(v, j))
  BY <1>2, Centres DEF Corners
<1>3. CASE p.kind = "timing"
  <2>1. p = Pattern("timing", 0, 0) /\ OnTiming(m)
    BY <1>1, <1>3 DEF Covered
  <2>2. CASE q.kind = "finder"
    BY <1>3, <2>1, <2>2 DEF Agree, OnTiming
  <2>3. CASE q.kind # "finder"
    <3>1. /\ q.kind = "alignment" /\ v \in 2..MaxVersion
          /\ \E i, j \in 1..Number(v) :
               /\ <<i, j>> \notin Corners(v) /\ q = AlignmentTurn(v, i, j)
               /\ InSquare(m, Position(v, i), Position(v, j))
      BY <1>1, <2>1, <2>3, PlacesApart DEF Covered
    <3>2. PICK i, j \in 1..Number(v) :
               /\ <<i, j>> \notin Corners(v) /\ q = AlignmentTurn(v, i, j)
               /\ InSquare(m, Position(v, i), Position(v, j))
      BY <3>1
    <3>3. Centre(v, Position(v, i), Position(v, j))
      BY <1>2, <3>1, <3>2
    <3>4. m \in Black(q, v, l) <=> Ring(m, Position(v, i), Position(v, j)) # 1
      BY <3>1, <3>2, AlignmentCells
    <3>5. m \in Black(p, v, l) <=> (m[1] + m[2]) % 2 = 0
      BY <2>1, TimingCells
    <3>6. (m[1] + m[2]) % 2 = 0 <=> Ring(m, Position(v, i), Position(v, j)) # 1
      BY <1>1, <2>1, <3>1, <3>2, <3>3, TimingAlignment
    <3>7. ~UnderFinder(m, v)
      BY <1>1, <3>2, <3>3, PlacesApart
    <3>. QED  BY <1>3, <2>3, <3>4, <3>5, <3>6, <3>7 DEF Agree
  <2>. QED  BY <2>2, <2>3
<1>4. CASE p.kind # "timing" /\ p = q
  BY <1>4 DEF Agree
<1>5. CASE p.kind # "timing" /\ p.kind # "alignment" /\ q.kind # "alignment"
  <2>1. p.kind = q.kind
    BY <1>1, <1>5, PlacesApart DEF Covered
  <2>2. CASE p.kind = "finder"
    <3>1. p \in Finders(v) /\ q \in Finders(v)
      BY <1>1, <2>1, <2>2 DEF Covered
    <3>. QED  BY <1>4, <1>5, <3>1, FindersApart
  <2>3. CASE p.kind # "finder"
    <3>1. p = q
      BY <1>1, <1>5, <2>1, <2>3 DEF Covered
    <3>. QED  BY <1>4, <1>5, <3>1
  <2>. QED  BY <2>2, <2>3
<1>6. CASE p.kind = "alignment" /\ q.kind = "alignment"
  <2>1. v \in 2..MaxVersion
    BY <1>1, <1>6 DEF Covered
  <2>2. PICK i, j \in 1..Number(v) :
               /\ <<i, j>> \notin Corners(v) /\ p = AlignmentTurn(v, i, j)
               /\ InSquare(m, Position(v, i), Position(v, j))
    BY <1>1, <1>6 DEF Covered
  <2>3. PICK g, h \in 1..Number(v) :
               /\ <<g, h>> \notin Corners(v) /\ q = AlignmentTurn(v, g, h)
               /\ InSquare(m, Position(v, g), Position(v, h))
    BY <1>1, <1>6 DEF Covered
  <2>4. Clear(Position(v, i), Position(v, g)) /\ Clear(Position(v, j), Position(v, h))
    BY <2>1, PositionsClear
  <2>5. /\ Centre(v, Position(v, i), Position(v, j))
        /\ Centre(v, Position(v, g), Position(v, h))
    BY <1>2, <2>1, <2>2, <2>3
  <2>6. Position(v, i) = Position(v, g) /\ Position(v, j) = Position(v, h)
    <3>1. /\ Position(v, i) \in Int /\ Position(v, j) \in Int
          /\ Position(v, g) \in Int /\ Position(v, h) \in Int
      BY <2>5 DEF Centre
    <3>2. m[1] \in Int /\ m[2] \in Int
      BY <1>1 DEF Board
    <3>. QED  BY <2>2, <2>3, <2>4, <3>1, <3>2 DEF Clear, InSquare
  <2>7. p = q
    BY <2>2, <2>3, <2>6 DEF AlignmentTurn
  <2>. QED  BY <1>4, <1>6, <2>7
<1>7. CASE p.kind = "alignment" /\ q.kind # "alignment"
  <2>1. PICK i, j \in 1..Number(v) :
               /\ v \in 2..MaxVersion /\ <<i, j>> \notin Corners(v)
               /\ InSquare(m, Position(v, i), Position(v, j))
    BY <1>1, <1>7 DEF Covered
  <2>2. ~OnFormat(m, v) /\ ~UnderFinder(m, v) /\ ~OnVersion(m, v)
    BY <1>1, <1>2, <2>1, PlacesApart
  <2>. QED  BY <1>1, <1>7, <2>2 DEF Covered
<1>8. CASE p.kind # "timing" /\ p.kind # "alignment" /\ q.kind = "alignment"
  <2>1. PICK i, j \in 1..Number(v) :
               /\ v \in 2..MaxVersion /\ <<i, j>> \notin Corners(v)
               /\ InSquare(m, Position(v, i), Position(v, j))
    BY <1>1, <1>8 DEF Covered
  <2>2. ~OnFormat(m, v) /\ ~UnderFinder(m, v) /\ ~OnVersion(m, v)
    BY <1>1, <1>2, <2>1, PlacesApart
  <2>. QED  BY <1>1, <1>8, <2>2 DEF Covered
<1>. QED  BY <1>3, <1>5, <1>6, <1>7, <1>8

\* What is drawn at turn i, and that only the first one is the timing line.
LEMMA TurnOfPatterns ==
  ASSUME NEW v \in 1..MaxVersion, NEW l, NEW i \in 1..Len(Patterns(v))
  PROVE  /\ Len(Patterns(v)) \in Nat /\ Len(Patterns(v)) >= 6
         /\ Patterns(v) \in Seq(Drawings(v))
         /\ Patterns(v)[i] \in Drawings(v)
         /\ v = 1 => Patterns(v)[i].kind \notin {"corner", "alignment"}
         /\ i # 1 => Patterns(v)[i].kind # "timing"
         /\ Black(Patterns(v)[i], v, l) \subseteq Cells(Patterns(v)[i], v)
<1>. DEFINE t == Turns(v)
            At(k) == AlignmentTurn(v, ((k - 1) \div Number(v)) + 1, ((k - 1) % Number(v)) + 1)
<1>1. /\ t \in Nat /\ Len(Patterns(v)) = t + 6 /\ Patterns(v) \in Seq(Drawings(v))
      /\ Patterns(v)[1] = Pattern("timing", 0, 0)
      /\ \A k \in 2..4 : Patterns(v)[k] \in Finders(v)
      /\ \A k \in 1..t : Patterns(v)[k + 4] = At(k)
      /\ Patterns(v)[t + 5] = Pattern("format", 0, 0)
      /\ Patterns(v)[t + 6] = Pattern("version", 0, 0)
  BY PatternList
<1>2. ASSUME NEW k \in 1..t
      PROVE  /\ v # 1 /\ At(k).kind \in {"corner", "alignment"}
             /\ Black(At(k), v, l) \subseteq Cells(At(k), v)
  <2>1. v # 1
    BY <1>2 DEF Turns
  <2>2. v \in 2..MaxVersion /\ t = Number(v) * Number(v) /\ Number(v) \in 2..7
    BY <2>1, Spacing DEF Turns
  <2>3. PICK g, h \in 1..Number(v) : At(k) = AlignmentTurn(v, g, h)
    BY <2>2, TurnsInRange
  <2>4. At(k).kind \in {"corner", "alignment"}
    BY <2>3 DEF AlignmentTurn, Pattern
  <2>5. Black(At(k), v, l) \subseteq Cells(At(k), v)
    BY <2>2, <2>3, AlignmentCells, CornerCells
  <2>. QED  BY <2>1, <2>4, <2>5
<1>. HIDE DEF t, At
<1>3. i = 1 \/ i \in 2..4 \/ (i - 4 \in 1..t /\ i = (i - 4) + 4) \/ i = t + 5 \/ i = t + 6
  BY <1>1
<1>4. Len(Patterns(v)) \in Nat /\ Len(Patterns(v)) >= 6 /\ Patterns(v)[i] \in Drawings(v)
  BY <1>1
<1>. DEFINE p == Patterns(v)[i]
            Good == /\ v = 1 => p.kind \notin {"corner", "alignment"}
                    /\ i # 1 => p.kind # "timing"
                    /\ Black(p, v, l) \subseteq Cells(p, v)
<1>5. CASE i = 1
  <2>1. p = Pattern("timing", 0, 0)
    BY <1>1, <1>5
  <2>2. p.kind = "timing"
    BY <2>1 DEF Pattern
  <2>3. Black(p, v, l) \subseteq Cells(p, v)
    BY <2>1, TimingCells
  <2>. QED  BY <1>1, <1>4, <1>5, <2>2, <2>3
<1>6. CASE i \in 2..4
  <2>1. p \in Finders(v)
    BY <1>1, <1>6
  <2>2. p.kind = "finder" /\ Black(p, v, l) \subseteq Cells(p, v)
    BY <2>1, FinderCells
  <2>. QED  BY <1>1, <1>4, <2>2
<1>7. CASE i - 4 \in 1..t /\ i = (i - 4) + 4
  <2>1. p = At(i - 4)
    BY <1>1, <1>7
  <2>. QED  BY <1>1, <1>2, <1>4, <1>7, <2>1
<1>8. CASE i = t + 5
  <2>1. p = Pattern("format", 0, 0)
    BY <1>1, <1>8
  <2>2. p.kind = "format" /\ Black(p, v, l) \subseteq Cells(p, v)
    BY <2>1, FormatPattern, FormatWords
  <2>. QED  BY <1>1, <1>4, <2>2
<1>9. CASE i = t + 6
  <2>1. p = Pattern("version", 0, 0)
    BY <1>1, <1>9
  <2>2. p.kind = "version" /\ Black(p, v, l) \subseteq Cells(p, v)
    BY <2>1, VersionWords
  <2>. QED  BY <1>1, <1>4, <2>2
<1>. QED  BY <1>3, <1>5, <1>6, <1>7, <1>8, <1>9

(* Drawing the patterns *)

\* The d-th turn covers what it draws and leaves every other pattern its colours.
LEMMA NextDrawn ==
  ASSUME NEW v \in 1..MaxVersion, version = v, version' = v, UNCHANGED level,
         NEW d \in 1..Len(Patterns(v)),
         FirstDrawn(d - 1),
         isFunction' = isFunction \cup Cells(Patterns(v)[d], v),
         black' = (black \ Cells(Patterns(v)[d], v)) \cup Black(Patterns(v)[d], v, level)
  PROVE  /\ FirstDrawn(d)'
         /\ \A m \in isFunction : (m \in black) # (m \in black') =>
              Patterns(v)[d].kind = "finder" /\ 6 \in {m[1], m[2]}
<1>. DEFINE P(i) == Patterns(v)[i]
            q == P(d)
<1>1. /\ isFunction = UNION {Cells(P(i), v) : i \in 1..(d - 1)}
      /\ \A i \in 1..(d - 1) : HasColours(P(i))
  BY DEF FirstDrawn
<1>2. \A i \in 1..Len(Patterns(v)) :
        /\ P(i) \in Drawings(v)
        /\ v = 1 => P(i).kind \notin {"corner", "alignment"}
        /\ i # 1 => P(i).kind # "timing"
        /\ Black(P(i), v, level) \subseteq Cells(P(i), v)
  BY TurnOfPatterns
<1>3. Len(Patterns(v)) \in Nat /\ d \in Nat /\ d >= 1
  BY TurnOfPatterns
<1>4. ASSUME NEW i \in 1..(d - 1), NEW m \in Cells(P(i), v), m \in Cells(q, v)
      PROVE  Agree(P(i), q, v, level, m)
  <2>1. i \in 1..Len(Patterns(v)) /\ d # 1
    BY <1>3
  <2>. HIDE DEF P
  <2>2. q.kind # "timing"
    BY <1>2, <2>1
  <2>. QED  BY <1>2, <1>4, <2>1, <2>2, Overlap
<1>. HIDE DEF P, q
<1>5. /\ isFunction' = isFunction \cup Cells(q, v)
      /\ black' = (black \ Cells(q, v)) \cup Black(q, v, level)
      /\ Black(q, v, level) \subseteq Cells(q, v)
  BY <1>2 DEF q, P
<1>6. HasColours(q)'
  BY <1>5 DEF HasColours
<1>7. ASSUME NEW i \in 1..(d - 1)
      PROVE  HasColours(P(i))'
  <2>1. ASSUME NEW m \in Cells(P(i), v)
        PROVE  \/ m \in black' <=> m \in Black(P(i), v, level)
               \/ P(i).kind = "timing" /\ UnderFinder(m, v)
    <3>1. \/ m \in black <=> m \in Black(P(i), v, level)
          \/ P(i).kind = "timing" /\ UnderFinder(m, v)
      BY <1>1, <1>7, <2>1 DEF HasColours
    <3>2. CASE m \notin Cells(q, v)
      BY <1>5, <3>1, <3>2
    <3>3. CASE m \in Cells(q, v)
      <4>1. Agree(P(i), q, v, level, m)
        BY <1>4, <3>3
      <4>2. m \in black' <=> m \in Black(q, v, level)
        BY <1>5, <3>3
      <4>3. CASE P(i).kind = "timing" /\ q.kind = "finder"
        <5>1. Covered(q, v, m)
          BY <1>2, <3>3, Covers DEF q
        <5>2. UnderFinder(m, v)
          BY <4>3, <5>1 DEF Covered
        <5>. QED  BY <4>3, <5>2
      <4>4. CASE ~(P(i).kind = "timing" /\ q.kind = "finder")
        BY <4>1, <4>2, <4>4 DEF Agree
      <4>. QED  BY <4>3, <4>4
    <3>. QED  BY <3>2, <3>3
  <2>. QED  BY <2>1 DEF HasColours
<1>8. \A i \in 1..d : i = d \/ i \in 1..(d - 1)
  BY <1>3
<1>9. \A i \in 1..d : HasColours(P(i))'
  BY <1>6, <1>7, <1>8 DEF q
<1>10. isFunction' = UNION {Cells(P(i), v) : i \in 1..d}
  <2>1. \A m : m \in isFunction' <=> \E i \in 1..d : m \in Cells(P(i), v)
    <3>1. \A i \in 1..(d - 1) : i \in 1..d
      BY <1>3
    <3>2. d \in 1..d
      BY <1>3
    <3>. QED  BY <1>1, <1>5, <1>8, <3>1, <3>2 DEF q
  <2>. QED  BY <2>1
<1>11. FirstDrawn(d)'
  BY <1>9, <1>10 DEF FirstDrawn, P
<1>12. ASSUME NEW m \in isFunction, (m \in black) # (m \in black')
       PROVE  q.kind = "finder" /\ 6 \in {m[1], m[2]}
  <2>1. m \in Cells(q, v)
    BY <1>5, <1>12
  <2>2. PICK i \in 1..(d - 1) : m \in Cells(P(i), v)
    BY <1>1
  <2>3. Agree(P(i), q, v, level, m)
    BY <1>4, <2>1, <2>2
  <2>4. \/ m \in black <=> m \in Black(P(i), v, level)
        \/ P(i).kind = "timing" /\ UnderFinder(m, v)
    BY <1>1, <2>2 DEF HasColours
  <2>5. m \in black' <=> m \in Black(q, v, level)
    BY <1>5, <2>1
  <2>. QED  BY <1>12, <2>3, <2>4, <2>5 DEF Agree
<1>. QED  BY <1>11, <1>12 DEF q, P

\* No other pattern has a module of the format words.
LEMMA FormatApart ==
  ASSUME NEW v \in 1..MaxVersion, NEW i \in 1..Len(Patterns(v)),
         Patterns(v)[i].kind # "format", NEW m \in Cells(Patterns(v)[i], v)
  PROVE  m \notin FormatCells(v)
<1>. DEFINE p == Patterns(v)[i]
<1>1. /\ p \in Drawings(v) /\ (v = 1 => p.kind \notin {"corner", "alignment"})
  BY TurnOfPatterns
<1>. HIDE DEF p
<1>2. m \in Cells(p, v) /\ p.kind # "format"
  BY DEF p
<1>3. m \in Board(v) /\ Covered(p, v, m)
  BY <1>1, <1>2, Covers
<1>4. \A g, h \in 1..Number(v) : v \in 2..MaxVersion /\ <<g, h>> \notin Corners(v) =>
        Centre(v, Position(v, g), Position(v, h))
  BY Centres DEF Corners
<1>5. ~OnFormat(m, v)
  BY <1>2, <1>3, <1>4, PlacesApart DEF Covered
<1>. QED  BY <1>5, FormatWords

\* A new format word leaves everything else as it is.
LEMMA FormatRedrawn ==
  ASSUME NEW v \in 1..MaxVersion, version = v, version' = v, UNCHANGED level, NEW m,
         DrawFormatBits(m),
         \A i \in DOMAIN Patterns(v) :
           HasColours(Patterns(v)[i]) \/ Patterns(v)[i].kind = "format"
  PROVE  /\ \A i \in DOMAIN Patterns(v) :
              HasColours(Patterns(v)[i])' \/ Patterns(v)[i].kind = "format"
         /\ \A c : (c \in black) # (c \in black') => c \in FormatCells(v)
         /\ \A c \in FormatCells(v) : c \in black' <=> c \in FormatBlack(v, level, m)
<1>1. /\ black' = (black \ FormatCells(v)) \cup FormatBlack(v, level, m)
      /\ FormatBlack(v, level, m) \subseteq FormatCells(v)
  BY FormatWords DEF DrawFormatBits
<1>2. DOMAIN Patterns(v) = 1..Len(Patterns(v))
  BY PatternList
<1>3. ASSUME NEW i \in DOMAIN Patterns(v), Patterns(v)[i].kind # "format"
      PROVE  HasColours(Patterns(v)[i])'
  <2>. DEFINE p == Patterns(v)[i]
  <2>1. \A c \in Cells(p, v) : c \notin FormatCells(v)
    BY <1>2, <1>3, FormatApart
  <2>2. HasColours(p)
    BY <1>3
  <2>. HIDE DEF p
  <2>3. HasColours(p)'
    BY <1>1, <2>1, <2>2 DEF HasColours
  <2>. QED  BY <2>3 DEF p
<1>. QED  BY <1>1, <1>3

\* The patterns are drawn in their turn, and each step keeps their colours.
KeepsColours ==
  \A m \in isFunction \cap ((black \ black') \cup (black' \ black)) :
    IF stage = "patterns" THEN Head(todo).kind = "finder" /\ 6 \in {m[1], m[2]}
                          ELSE m \in FormatCells(version)

\* A step draws one more pattern, or redraws the format words, and recolours nothing else.
LEMMA DrawStep ==
  ASSUME ChoiceInv, DrawInv, [QrNext]_qrVars
  PROVE  DrawInv' /\ KeepsColours
<1>. DEFINE v == version
            P(i) == Patterns(v)[i]
            N == Len(Patterns(v))
            Late == {"divisor", "blocks", "scan", "trial", "undo"}
            AllDrawn == isFunction = UNION {Cells(Patterns(version)[i], version) :
                                              i \in DOMAIN Patterns(version)}
            AllColoured == \A i \in DOMAIN Patterns(version) :
                             HasColours(Patterns(version)[i])
                               \/ Patterns(version)[i].kind = "format"
<1>1. /\ v \in 1..MaxVersion /\ N \in Nat /\ N >= 6 /\ Patterns(v) \in Seq(Drawings(v))
      /\ DOMAIN Patterns(v) = 1..N
  <2>1. v \in 1..MaxVersion
    BY DEF ChoiceInv
  <2>2. Turns(v) \in Nat /\ Patterns(v) \in Seq(Drawings(v)) /\ N = Turns(v) + 6
    BY <2>1, PatternList
  <2>. QED  BY <2>1, <2>2
<1>2. CASE TakeVersion \/ NextVersion \/ TooLong \/ BoostLevel
  <2>1. /\ stage \in {"fit", "boost", "segments", "failed"}
        /\ stage' \in {"fit", "boost", "segments", "failed"}
        /\ UNCHANGED drawVars
    BY <1>2 DEF TakeVersion, NextVersion, TooLong, BoostLevel
  <2>. QED  BY <2>1 DEF drawVars, DrawInv, KeepsColours
<1>3. CASE AppendSegments
  <2>1. /\ stage = "segments" /\ stage' = "patterns" /\ version' = version
        /\ todo' = Patterns(v) /\ UNCHANGED <<black, isFunction>>
    BY <1>3 DEF AppendSegments
  <2>2. isFunction = {}
    BY <2>1 DEF DrawInv
  <2>3. Len(todo') = N /\ DrawnTurns' = 0
    BY <1>1, <2>1 DEF DrawnTurns
  <2>4. Len(todo)' \in 1..Len(Patterns(version))'
    BY <1>1, <2>1, <2>3
  <2>5. SubSeq(Patterns(v), 1, N) = Patterns(v)
    BY <1>1, SubSeqFull
  <2>6. todo' = SubSeq(Patterns(version'), DrawnTurns' + 1, Len(Patterns(version')))
    <3>1. DrawnTurns' + 1 = 1 /\ Len(Patterns(version')) = N
      BY <2>1, <2>3
    <3>. QED  BY <2>1, <2>5, <3>1
  <2>7. FirstDrawn(0)'
    BY <2>1, <2>2 DEF FirstDrawn
  <2>8. FirstDrawn(DrawnTurns)'
    BY <2>3, <2>7
  <2>9. KeepsColours
    BY <2>1 DEF KeepsColours
  <2>. QED  BY <2>1, <2>4, <2>6, <2>8, <2>9 DEF DrawInv
<1>4. CASE DrawPattern
  <2>1. /\ stage = "patterns" /\ UNCHANGED <<version, level>>
        /\ isFunction' = isFunction \cup Cells(Head(todo), v)
        /\ black' = (black \ Cells(Head(todo), v)) \cup Black(Head(todo), v, level)
        /\ todo' = Tail(todo)
        /\ IF Tail(todo) # <<>> THEN stage' = stage ELSE stage' = "divisor"
    BY <1>4 DEF DrawPattern, fitVars
  <2>2. /\ Len(todo) \in 1..N
        /\ todo = SubSeq(Patterns(v), DrawnTurns + 1, N)
        /\ FirstDrawn(DrawnTurns)
    BY <2>1 DEF DrawInv
  <2>3. PICK d \in 1..N : DrawnTurns = d - 1 /\ Len(todo) = N + 1 - d /\ d = DrawnTurns + 1
    <3>1. N + 1 - Len(todo) \in 1..N /\ DrawnTurns = (N + 1 - Len(todo)) - 1
          /\ Len(todo) = N + 1 - (N + 1 - Len(todo)) /\ N + 1 - Len(todo) = DrawnTurns + 1
      BY <1>1, <2>2 DEF DrawnTurns
    <3>. HIDE DEF N
    <3>. QED  BY <3>1
  <2>4. todo = SubSeq(Patterns(v), d, N)
    BY <2>2, <2>3
  <2>5. Head(todo) = Patterns(v)[d] /\ Tail(todo) = SubSeq(Patterns(v), d + 1, N)
    <3>1. d \in 1..Len(Patterns(v)) /\ N \in d..Len(Patterns(v))
      BY <1>1, <2>3
    <3>. QED  BY <1>1, <2>4, <3>1, HeadTailOfSubSeq
  <2>6. Len(Tail(todo)) = N - d
    <3>1. \A i \in (d + 1)..N : Patterns(v)[i] \in Drawings(v)
      BY <1>1, <2>3
    <3>2. d + 1 \in Int /\ N \in Int
      BY <1>1, <2>3
    <3>3. Len(SubSeq(Patterns(v), d + 1, N)) = IF d + 1 <= N THEN N - (d + 1) + 1 ELSE 0
      BY <3>1, <3>2, SubSeqProperties
    <3>. HIDE DEF N
    <3>. QED  BY <1>1, <2>3, <2>5, <3>3
  <2>8. /\ FirstDrawn(d)'
        /\ \A m \in isFunction : (m \in black) # (m \in black') =>
             Patterns(v)[d].kind = "finder" /\ 6 \in {m[1], m[2]}
    <3>1. /\ isFunction' = isFunction \cup Cells(Patterns(v)[d], v)
          /\ black' = (black \ Cells(Patterns(v)[d], v)) \cup Black(Patterns(v)[d], v, level)
      BY <2>1, <2>5
    <3>2. FirstDrawn(d - 1) /\ d \in 1..Len(Patterns(v))
      BY <2>2, <2>3
    <3>. QED  BY <1>1, <2>1, <3>1, <3>2, NextDrawn
  <2>9. KeepsColours
    BY <2>1, <2>5, <2>8 DEF KeepsColours
  <2>10. CASE Tail(todo) # <<>>
    <3>1. stage' = "patterns" /\ todo' = Tail(todo) /\ Len(Patterns(version')) = N
      BY <2>1, <2>10
    <3>2. Len(todo') # 0
      <4>1. Tail(todo) \in Seq(Drawings(v))
        <5>1. \A i \in (d + 1)..N : Patterns(v)[i] \in Drawings(v)
          BY <1>1, <2>3
        <5>2. d + 1 \in Int /\ N \in Int
          BY <1>1, <2>3
        <5>. QED  BY <2>5, <5>1, <5>2, SubSeqProperties
      <4>. QED  BY <2>10, <3>1, <4>1, EmptySeq
    <3>3. Len(todo') \in 1..N /\ DrawnTurns' = d
      <4>1. N \in Nat /\ d \in 1..N /\ Len(todo') = N - d /\ Len(todo') # 0
        BY <1>1, <2>6, <3>1, <3>2
      <4>2. DrawnTurns' = N - Len(todo')
        BY <3>1 DEF DrawnTurns
      <4>. HIDE DEF N
      <4>. QED  BY <4>1, <4>2
    <3>4. todo' = SubSeq(Patterns(version'), DrawnTurns' + 1, Len(Patterns(version')))
      BY <2>1, <2>5, <3>1, <3>3
    <3>5. FirstDrawn(DrawnTurns)'
      BY <2>8, <3>3
    <3>. QED  BY <2>9, <3>1, <3>3, <3>4, <3>5 DEF DrawInv
  <2>11. CASE Tail(todo) = <<>>
    <3>1. d = N /\ stage' = "divisor"
      <4>1. Len(Tail(todo)) = 0
        BY <2>11, EmptySeq
      <4>2. d = N
        <5>1. N \in Nat /\ d \in 1..N /\ N - d = 0
          BY <1>1, <2>6, <4>1
        <5>. HIDE DEF N
        <5>. QED  BY <5>1
      <4>. QED  BY <2>1, <2>11, <4>2
    <3>2. DOMAIN Patterns(version)' = 1..d
      BY <1>1, <2>1, <3>1
    <3>3. /\ isFunction' = UNION {Cells(Patterns(version)'[i], version') : i \in 1..d}
          /\ \A i \in 1..d : HasColours(Patterns(version)[i])'
      BY <2>8 DEF FirstDrawn
    <3>4. AllDrawn' /\ AllColoured'
      BY <3>2, <3>3
    <3>. QED  BY <2>9, <3>1, <3>4 DEF DrawInv
  <2>. QED  BY <2>10, <2>11
<1>5. CASE \/ DivideByRoot \/ FeedByte \/ InterleaveRow \/ AddEccAndInterleave
           \/ ScanColumns \/ StartTrials \/ UndoMask
  <2>1. /\ stage \in Late /\ stage' \in Late /\ UNCHANGED <<drawVars, version, level>>
    <3>1. CASE DivideByRoot \/ FeedByte \/ InterleaveRow
      BY <3>1 DEF DivideByRoot, FeedByte, InterleaveRow, fitVars
    <3>2. CASE AddEccAndInterleave \/ ScanColumns
      BY <3>2 DEF AddEccAndInterleave, ScanColumns, fitVars
    <3>3. CASE StartTrials \/ UndoMask
      BY <3>3 DEF StartTrials, UndoMask, fitVars
    <3>. QED  BY <1>5, <3>1, <3>2, <3>3
  <2>2. AllDrawn /\ AllColoured
    BY <2>1 DEF DrawInv
  <2>3. AllDrawn' /\ AllColoured'
    BY <2>1, <2>2 DEF drawVars, HasColours
  <2>4. stage' \notin {"fit", "boost", "segments", "failed", "patterns", "done"}
    BY <2>1
  <2>5. KeepsColours
    BY <2>1 DEF drawVars, KeepsColours
  <2>. HIDE DEF Late
  <2>. QED  BY <2>3, <2>4, <2>5 DEF DrawInv
<1>6. CASE TryMask
  <2>1. /\ stage = "trial" /\ stage' = "undo" /\ UNCHANGED <<version, level, isFunction>>
        /\ DrawFormatBits(trial)
    BY <1>6 DEF TryMask, fitVars
  <2>2. AllDrawn /\ AllColoured
    BY <2>1 DEF DrawInv
  <2>3. /\ \A i \in DOMAIN Patterns(v) :
             HasColours(Patterns(v)[i])' \/ Patterns(v)[i].kind = "format"
        /\ \A c : (c \in black) # (c \in black') => c \in FormatCells(v)
    BY <1>1, <2>1, <2>2, FormatRedrawn
  <2>4. AllDrawn' /\ AllColoured'
    BY <2>1, <2>2, <2>3
  <2>5. KeepsColours
    BY <2>1, <2>3 DEF KeepsColours
  <2>. QED  BY <2>1, <2>4, <2>5 DEF DrawInv
<1>7. CASE FinishSymbol
  <2>1. /\ stage = "trial" /\ stage' = "done" /\ UNCHANGED <<version, level, mask>>
        /\ DrawFormatBits(mask)
    BY <1>7 DEF FinishSymbol, fitVars
  <2>2. AllColoured
    BY <2>1 DEF DrawInv
  <2>3. /\ \A i \in DOMAIN Patterns(v) :
             HasColours(Patterns(v)[i])' \/ Patterns(v)[i].kind = "format"
        /\ \A c : (c \in black) # (c \in black') => c \in FormatCells(v)
        /\ \A c \in FormatCells(v) : c \in black' <=> c \in FormatBlack(v, level, mask)
    BY <1>1, <2>1, <2>2, FormatRedrawn
  <2>4. AllColoured'
    BY <2>1, <2>3
  <2>5. FormatDrawn(mask)'
    BY <2>1, <2>3 DEF FormatDrawn
  <2>6. KeepsColours
    BY <2>1, <2>3 DEF KeepsColours
  <2>. QED  BY <2>1, <2>4, <2>5, <2>6 DEF DrawInv
<1>8. CASE UNCHANGED qrVars
  <2>1. UNCHANGED <<stage, todo, black, isFunction, version, level, mask>>
    BY <1>8 DEF qrVars, drawVars, fitVars, maskVars
  <2>2. DrawInv'
    BY <2>1 DEF DrawInv, FirstDrawn, HasColours, FormatDrawn, DrawnTurns
  <2>. QED  BY <2>1, <2>2 DEF KeepsColours
<1>. QED  BY <1>2, <1>3, <1>4, <1>5, <1>6, <1>7, <1>8 DEF QrNext

(* Counting the modules of the patterns *)

Apart(S, T) == \A m \in S : m \notin T

\* Two sets that share nothing have as many elements as both together.
LEMMA DisjointCount ==
  ASSUME NEW S, IsFiniteSet(S), NEW T, IsFiniteSet(T), Apart(S, T)
  PROVE  /\ IsFiniteSet(S \cup T)
         /\ Cardinality(S \cup T) = Cardinality(S) + Cardinality(T)
<1>1. S \cap T = {}
  BY DEF Apart
<1>2. Cardinality(S \cap T) = 0
  BY <1>1, FS_EmptySet
<1>3. /\ IsFiniteSet(S \cup T)
      /\ Cardinality(S \cup T) = Cardinality(S) + Cardinality(T) - Cardinality(S \cap T)
  BY FS_Union
<1>4. Cardinality(S) \in Nat /\ Cardinality(T) \in Nat
  BY FS_CardinalityType
<1>. QED  BY <1>2, <1>3, <1>4

\* The length of an interval.
LEMMA IntervalCount ==
  ASSUME NEW a \in Int, NEW b \in Int, NEW n \in Nat, n = b - a + 1
  PROVE  IsFiniteSet(a..b) /\ Cardinality(a..b) = n
<1>1. IsFiniteSet(a..b) /\ Cardinality(a..b) = IF a > b THEN 0 ELSE b - a + 1
  BY FS_Interval
<1>. QED  BY <1>1

Box(A, B) == A \X B

\* The number of modules in a box, and in its mirror image.
LEMMA BoxCount ==
  ASSUME NEW A, IsFiniteSet(A), NEW B, IsFiniteSet(B),
         NEW a \in Nat, NEW b \in Nat, Cardinality(A) = a, Cardinality(B) = b
  PROVE  /\ IsFiniteSet(Box(A, B)) /\ Cardinality(Box(A, B)) = a * b
         /\ IsFiniteSet(Box(B, A)) /\ Cardinality(Box(B, A)) = a * b
<1>1. IsFiniteSet(A \X B) /\ Cardinality(A \X B) = Cardinality(A) * Cardinality(B)
  BY FS_Product
<1>2. IsFiniteSet(B \X A) /\ Cardinality(B \X A) = Cardinality(B) * Cardinality(A)
  BY FS_Product
<1>3. b * a = a * b
  OBVIOUS
<1>. QED  BY <1>1, <1>2, <1>3 DEF Box

\* The lines that the alignment patterns at the positions from the second to the k-th cover.
Stripes(v, k) == {c \in Int : \E i \in 2..k : c \in (Position(v, i) - 2)..(Position(v, i) + 2)}

\* Positions are so far apart that no line is counted twice: five for each of them.
LEMMA StripeCount ==
  ASSUME NEW v \in 2..MaxVersion, NEW k \in 1..Number(v)
  PROVE  IsFiniteSet(Stripes(v, k)) /\ Cardinality(Stripes(v, k)) = 5 * (k - 1)
<1>. DEFINE D == Box(2..k, 0..4)
            f == [p \in D |-> Position(v, p[1]) - 2 + p[2]]
            T == Stripes(v, k)
<1>1. k \in Nat /\ k >= 1 /\ k <= Number(v) /\ Number(v) \in 2..7
  BY Spacing
<1>2. /\ IsFiniteSet(2..k) /\ Cardinality(2..k) = k - 1
      /\ IsFiniteSet(0..4) /\ Cardinality(0..4) = 5
  <2>1. IsFiniteSet(2..k) /\ Cardinality(2..k) = k - 1
    <3>1. k - 1 \in Nat /\ k - 1 = k - 2 + 1 /\ 2 \in Int /\ k \in Int
      BY <1>1
    <3>. QED  BY <3>1, IntervalCount, Zenon
  <2>2. IsFiniteSet(0..4) /\ Cardinality(0..4) = 5
    <3>1. 0 \in Int /\ 4 \in Int /\ 5 \in Nat /\ 5 = 4 - 0 + 1
      OBVIOUS
    <3>. QED  BY <3>1, IntervalCount, Zenon
  <2>. QED  BY <2>1, <2>2
<1>3. IsFiniteSet(D) /\ Cardinality(D) = (k - 1) * 5
  <2>1. k - 1 \in Nat /\ 5 \in Nat
    BY <1>1
  <2>. QED  BY <1>2, <2>1, BoxCount
<1>4. \A i \in 2..k : i \in 2..Number(v) /\ Position(v, i) \in Int
  <2>1. \A i \in 2..k : i \in 2..Number(v)
    BY <1>1
  <2>. QED  BY <2>1, Positions
<1>5. \A i \in 2..k, j \in 2..k : i < j => Position(v, i) + 16 <= Position(v, j)
  BY <1>4, PositionsApart
<1>6. ASSUME NEW p \in D
      PROVE  /\ p[1] \in 2..k /\ p[2] \in 0..4 /\ p = <<p[1], p[2]>>
             /\ f[p] = Position(v, p[1]) - 2 + p[2] /\ f[p] \in T
  <2>1. p[1] \in 2..k /\ p[2] \in 0..4 /\ p = <<p[1], p[2]>>
    BY DEF Box
  <2>2. Position(v, p[1]) \in Int
    BY <1>4, <2>1
  <2>3. f[p] = Position(v, p[1]) - 2 + p[2]
    BY <1>6
  <2>. HIDE DEF f
  <2>4. f[p] \in Int /\ f[p] \in (Position(v, p[1]) - 2)..(Position(v, p[1]) + 2)
    BY <2>1, <2>2, <2>3
  <2>. QED  BY <2>1, <2>3, <2>4 DEF Stripes
<1>7. f \in [D -> T]
  BY <1>6
<1>8. ASSUME NEW p \in D, NEW q \in D, f[p] = f[q]
      PROVE  p = q
  <2>1. /\ p[1] \in 2..k /\ p[2] \in 0..4 /\ p = <<p[1], p[2]>>
        /\ q[1] \in 2..k /\ q[2] \in 0..4 /\ q = <<q[1], q[2]>>
        /\ Position(v, p[1]) - 2 + p[2] = Position(v, q[1]) - 2 + q[2]
    BY <1>6, <1>8
  <2>2. Position(v, p[1]) \in Int /\ Position(v, q[1]) \in Int
    BY <1>4, <2>1
  <2>3. p[1] = q[1]
    <3>1. /\ Position(v, p[1]) < Position(v, q[1]) + 5
          /\ Position(v, q[1]) < Position(v, p[1]) + 5
      <4>1. /\ p[2] \in 0..4 /\ q[2] \in 0..4
            /\ Position(v, p[1]) - 2 + p[2] = Position(v, q[1]) - 2 + q[2]
        BY <2>1
      <4>. HIDE DEF D, f
      <4>. QED  BY <2>2, <4>1
    <3>2. ~(p[1] < q[1])
      <4>1. p[1] < q[1] => Position(v, p[1]) + 16 <= Position(v, q[1])
        BY <1>5, <2>1
      <4>. QED  BY <2>2, <3>1, <4>1
    <3>3. ~(q[1] < p[1])
      <4>1. q[1] < p[1] => Position(v, q[1]) + 16 <= Position(v, p[1])
        BY <1>5, <2>1
      <4>. QED  BY <2>2, <3>1, <4>1
    <3>. QED  BY <1>1, <2>1, <3>2, <3>3
  <2>4. p[2] = q[2]
    BY <2>1, <2>2, <2>3
  <2>. QED  BY <2>1, <2>3, <2>4
<1>9. ASSUME NEW c \in T
      PROVE  \E p \in D : f[p] = c
  <2>1. PICK i \in 2..k : c \in (Position(v, i) - 2)..(Position(v, i) + 2)
    BY <1>9 DEF Stripes
  <2>. DEFINE p == <<i, c - Position(v, i) + 2>>
  <2>2. c - Position(v, i) + 2 \in 0..4 /\ c \in Int /\ Position(v, i) \in Int
    BY <1>4, <1>9, <2>1 DEF Stripes
  <2>3. p \in D
    BY <2>2 DEF Box
  <2>4. f[p] = Position(v, i) - 2 + (c - Position(v, i) + 2)
    BY <2>3
  <2>5. f[p] = c
    <3>. HIDE DEF f
    <3>. QED  BY <2>2, <2>4
  <2>. QED  BY <2>3, <2>5
<1>. HIDE DEF f, T
<1>10. f \in Bijection(D, T)
  BY <1>7, <1>8, <1>9 DEF Bijection, Injection, IsInjective, Surjection
<1>11. ExistsBijection(D, T)
  BY <1>10 DEF ExistsBijection
<1>12. IsFiniteSet(T) /\ Cardinality(T) = (k - 1) * 5
  BY <1>3, <1>11, FS_Bijection
<1>. QED  BY <1>1, <1>12 DEF T

\* All stripes lie right of the upper finders, and all but the last one left of the
\* version word.
LEMMA StripePlaces ==
  ASSUME NEW v \in 2..MaxVersion
  PROVE  /\ \A c \in Stripes(v, Number(v)) : c \in 9..(4 * v + 12)
         /\ \A c \in Stripes(v, Number(v) - 1) : c \in 9..(4 * v - 4)
<1>1. v \in Nat /\ Number(v) \in 2..7
  BY Spacing DEF MaxVersion
<1>2. ASSUME NEW c \in Stripes(v, Number(v))
      PROVE  c \in 9..(4 * v + 12)
  <2>1. PICK i \in 2..Number(v) : c \in (Position(v, i) - 2)..(Position(v, i) + 2)
    BY <1>2 DEF Stripes
  <2>2. Position(v, i) \in 11..(4 * v + 10)
    BY Positions
  <2>. QED  BY <1>1, <2>1, <2>2
<1>3. ASSUME NEW c \in Stripes(v, Number(v) - 1)
      PROVE  c \in 9..(4 * v - 4)
  <2>1. PICK i \in 2..(Number(v) - 1) : c \in (Position(v, i) - 2)..(Position(v, i) + 2)
    BY <1>3 DEF Stripes
  <2>2. i \in 2..Number(v) /\ i < Number(v)
    BY <1>1
  <2>3. Position(v, i) \in 11..(4 * v + 10) /\ Position(v, i) <= 4 * v - 6
    BY <2>2, Positions
  <2>. QED  BY <1>1, <2>1, <2>3
<1>. QED  BY <1>2, <1>3

\* The modules of three boxes, and of their mirror images, are those of each together.
CountOfThree(A, B, C, D, E, F) ==
  /\ IsFiniteSet((Box(A, B) \cup Box(C, D)) \cup Box(E, F))
  /\ Cardinality((Box(A, B) \cup Box(C, D)) \cup Box(E, F))
       = Cardinality(A) * Cardinality(B) + Cardinality(C) * Cardinality(D)
           + Cardinality(E) * Cardinality(F)
  /\ IsFiniteSet((Box(B, A) \cup Box(D, C)) \cup Box(F, E))
  /\ Cardinality((Box(B, A) \cup Box(D, C)) \cup Box(F, E))
       = Cardinality(A) * Cardinality(B) + Cardinality(C) * Cardinality(D)
           + Cardinality(E) * Cardinality(F)

\* They are if one box is on other columns than two that are on other rows than each other.
LEMMA ThreeBoxes ==
  ASSUME NEW A, NEW B, NEW C, NEW D, NEW E, NEW F,
         IsFiniteSet(A), IsFiniteSet(B), IsFiniteSet(C), IsFiniteSet(D),
         IsFiniteSet(E), IsFiniteSet(F),
         Apart(A, C), Apart(A, E), Apart(D, F)
  PROVE  CountOfThree(A, B, C, D, E, F)
<1>. DEFINE n == Cardinality(A) * Cardinality(B) + Cardinality(C) * Cardinality(D)
                   + Cardinality(E) * Cardinality(F)
<1>1. /\ Cardinality(A) \in Nat /\ Cardinality(B) \in Nat /\ Cardinality(C) \in Nat
      /\ Cardinality(D) \in Nat /\ Cardinality(E) \in Nat /\ Cardinality(F) \in Nat
  BY FS_CardinalityType
<1>2. /\ IsFiniteSet(Box(A, B)) /\ Cardinality(Box(A, B)) = Cardinality(A) * Cardinality(B)
      /\ IsFiniteSet(Box(B, A)) /\ Cardinality(Box(B, A)) = Cardinality(A) * Cardinality(B)
  BY <1>1, BoxCount
<1>3. /\ IsFiniteSet(Box(C, D)) /\ Cardinality(Box(C, D)) = Cardinality(C) * Cardinality(D)
      /\ IsFiniteSet(Box(D, C)) /\ Cardinality(Box(D, C)) = Cardinality(C) * Cardinality(D)
  BY <1>1, BoxCount
<1>4. /\ IsFiniteSet(Box(E, F)) /\ Cardinality(Box(E, F)) = Cardinality(E) * Cardinality(F)
      /\ IsFiniteSet(Box(F, E)) /\ Cardinality(Box(F, E)) = Cardinality(E) * Cardinality(F)
  BY <1>1, BoxCount
<1>5. /\ Apart(Box(A, B), Box(C, D)) /\ Apart(Box(A, B), Box(E, F))
      /\ Apart(Box(C, D), Box(E, F))
      /\ Apart(Box(B, A), Box(D, C)) /\ Apart(Box(B, A), Box(F, E))
      /\ Apart(Box(D, C), Box(F, E))
  BY DEF Box, Apart
<1>6. /\ IsFiniteSet(Box(A, B) \cup Box(C, D))
      /\ Cardinality(Box(A, B) \cup Box(C, D))
           = Cardinality(A) * Cardinality(B) + Cardinality(C) * Cardinality(D)
  BY <1>2, <1>3, <1>5, DisjointCount
<1>7. /\ IsFiniteSet(Box(B, A) \cup Box(D, C))
      /\ Cardinality(Box(B, A) \cup Box(D, C))
           = Cardinality(A) * Cardinality(B) + Cardinality(C) * Cardinality(D)
  BY <1>2, <1>3, <1>5, DisjointCount
<1>8. Apart(Box(A, B) \cup Box(C, D), Box(E, F))
  BY <1>5 DEF Apart
<1>9. Apart(Box(B, A) \cup Box(D, C), Box(F, E))
  BY <1>5 DEF Apart
<1>10. /\ Cardinality(A) * Cardinality(B) + Cardinality(C) * Cardinality(D)
            + Cardinality(E) * Cardinality(F) = n
       /\ Cardinality(E) * Cardinality(F) \in Nat
       /\ Cardinality(A) * Cardinality(B) + Cardinality(C) * Cardinality(D) \in Nat
  BY <1>1
<1>11. /\ IsFiniteSet((Box(A, B) \cup Box(C, D)) \cup Box(E, F))
       /\ Cardinality((Box(A, B) \cup Box(C, D)) \cup Box(E, F)) = n
  <2>. DEFINE S == Box(A, B) \cup Box(C, D)
              T == Box(E, F)
  <2>1. IsFiniteSet(S) /\ IsFiniteSet(T) /\ Apart(S, T)
    BY <1>4, <1>6, <1>7, <1>8, <1>9
  <2>2. Cardinality(S) + Cardinality(T) = n
    BY <1>4, <1>6, <1>7, <1>10
  <2>. HIDE DEF S, T
  <2>3. IsFiniteSet(S \cup T) /\ Cardinality(S \cup T) = n
    BY <2>1, <2>2, DisjointCount
  <2>. QED  BY <2>3 DEF S, T
<1>12. /\ IsFiniteSet((Box(B, A) \cup Box(D, C)) \cup Box(F, E))
       /\ Cardinality((Box(B, A) \cup Box(D, C)) \cup Box(F, E)) = n
  <2>. DEFINE S == Box(B, A) \cup Box(D, C)
              T == Box(F, E)
  <2>1. IsFiniteSet(S) /\ IsFiniteSet(T) /\ Apart(S, T)
    BY <1>4, <1>6, <1>7, <1>8, <1>9
  <2>2. Cardinality(S) + Cardinality(T) = n
    BY <1>4, <1>6, <1>7, <1>10
  <2>. HIDE DEF S, T
  <2>3. IsFiniteSet(S \cup T) /\ Cardinality(S \cup T) = n
    BY <2>1, <2>2, DisjointCount
  <2>. QED  BY <2>3 DEF S, T
<1>. QED  BY <1>11, <1>12 DEF CountOfThree

\* Every module the four format words and the version words are said to lie on is theirs.
LEMMA FormatCover ==
  ASSUME NEW v \in 1..MaxVersion, NEW m \in Board(v), OnFormat(m, v)
  PROVE  m \in FormatCells(v)
<1>. DEFINE S == Size(v)
            a == m[1]
            b == m[2]
<1>1. v \in Nat /\ v >= 1 /\ S = 4 * v + 17 /\ m = <<a, b>>
      /\ a \in 0..(4 * v + 16) /\ b \in 0..(4 * v + 16)
  BY DEF Size, MaxVersion, Board
<1>2. \A copy \in 1..2, i \in 0..14 : FormatModule(v, copy, i) \in FormatCells(v)
  BY DEF FormatCells
<1>3. DarkModule(v) = <<8, S - 8>> /\ DarkModule(v) \in FormatCells(v)
  BY DEF DarkModule, FormatCells
<1>4. /\ \A i \in 0..5 : FormatModule(v, 1, i) = <<8, i>>
      /\ \A i \in 6..7 : FormatModule(v, 1, i) = <<8, i + 1>>
      /\ FormatModule(v, 1, 8) = <<7, 8>>
      /\ \A i \in 9..14 : FormatModule(v, 1, i) = <<14 - i, 8>>
      /\ \A i \in 0..7 : FormatModule(v, 2, i) = <<S - 1 - i, 8>>
      /\ \A i \in 8..14 : FormatModule(v, 2, i) = <<8, S - 15 + i>>
  BY DEF FormatModule
<1>5. \/ a = 8 /\ (b \in (0..8) \ {6} \/ b >= S - 8)
      \/ b = 8 /\ (a \in (0..8) \ {6} \/ a >= S - 8)
  BY DEF OnFormat
<1>. HIDE DEF S, a, b
<1>6. CASE a = 8 /\ b \in 0..5
  <2>1. FormatModule(v, 1, b) = m
    BY <1>1, <1>4, <1>6
  <2>. QED  BY <1>2, <1>6, <2>1
<1>7. CASE a = 8 /\ b \in 7..8
  <2>1. b - 1 \in 6..7 /\ (b - 1) + 1 = b
    BY <1>7
  <2>2. FormatModule(v, 1, b - 1) = m
    BY <1>1, <1>4, <1>7, <2>1
  <2>. QED  BY <1>2, <2>1, <2>2
<1>8. CASE a = 8 /\ b = S - 8
  BY <1>1, <1>3, <1>8
<1>9. CASE a = 8 /\ b > S - 8
  <2>1. b + 15 - S \in 8..14 /\ S - 15 + (b + 15 - S) = b
    BY <1>1, <1>9
  <2>2. FormatModule(v, 2, b + 15 - S) = m
    BY <1>1, <1>4, <1>9, <2>1
  <2>. QED  BY <1>2, <2>1, <2>2
<1>10. CASE b = 8 /\ a \in 0..5
  <2>1. 14 - a \in 9..14 /\ 14 - (14 - a) = a
    BY <1>10
  <2>2. FormatModule(v, 1, 14 - a) = m
    BY <1>1, <1>4, <1>10, <2>1
  <2>. QED  BY <1>2, <2>1, <2>2
<1>11. CASE b = 8 /\ a = 7
  BY <1>1, <1>2, <1>4, <1>11
<1>12. CASE b = 8 /\ a >= S - 8
  <2>1. S - 1 - a \in 0..7 /\ S - 1 - (S - 1 - a) = a
    BY <1>1, <1>12
  <2>2. FormatModule(v, 2, S - 1 - a) = m
    BY <1>1, <1>4, <1>12, <2>1
  <2>. QED  BY <1>2, <2>1, <2>2
<1>. QED  BY <1>1, <1>5, <1>6, <1>7, <1>8, <1>9, <1>10, <1>11, <1>12

\* The same of the version words.
LEMMA VersionCover ==
  ASSUME NEW v \in 1..MaxVersion, NEW m \in Board(v), OnVersion(m, v)
  PROVE  m \in Cells(Pattern("version", 0, 0), v)
<1>. DEFINE base == Size(v) - 11
            a == m[1]
            b == m[2]
            place(copy, x, y) == VersionModule(v, copy, 3 * y + (x - base))
<1>1. v \in Nat /\ v >= 7 /\ base = 4 * v + 6 /\ m = <<a, b>>
      /\ a \in 0..(4 * v + 16) /\ b \in 0..(4 * v + 16)
  BY DEF Size, MaxVersion, Board, OnVersion
<1>2. /\ base + 2 = Size(v) - 9
      /\ \/ a \in base..(base + 2) /\ b \in 0..5
         \/ b \in base..(base + 2) /\ a \in 0..5
  BY <1>1 DEF OnVersion, Size
<1>3. Cells(Pattern("version", 0, 0), v)
        = {VersionModule(v, copy, i) : copy \in 1..2, i \in 0..17}
  BY <1>1, VersionWords
<1>4. base \in Int
  BY <1>1
<1>. HIDE DEF a, b
<1>5. ASSUME NEW x \in base..(base + 2), NEW y \in 0..5
      PROVE  /\ 3 * y + (x - base) \in 0..17
             /\ place(1, x, y) = <<x, y>> /\ place(2, x, y) = <<y, x>>
  <2>. DEFINE i == 3 * y + (x - base)
  <2>1. i \in 0..17 /\ i % 3 = x - base /\ i \div 3 = y
    <3>. HIDE DEF base
    <3>1. x - base \in 0..2
      BY <1>4
    <3>. DEFINE r == x - base
    <3>. HIDE DEF r
    <3>2. r \in 0..2
      BY <3>1 DEF r
    <3>3. 3 * y + r \in 0..17 /\ (3 * y + r) % 3 = r /\ (3 * y + r) \div 3 = y
      BY <3>2
    <3>. QED  BY <3>3 DEF r
  <2>2. base + (i % 3) = x
    <3>. HIDE DEF base, i
    <3>. QED  BY <1>4, <2>1
  <2>. HIDE DEF i
  <2>3. /\ VersionModule(v, 1, i) = <<base + (i % 3), i \div 3>>
        /\ VersionModule(v, 2, i) = <<i \div 3, base + (i % 3)>>
    BY DEF VersionModule
  <2>. QED  BY <2>1, <2>2, <2>3 DEF i
<1>. HIDE DEF base
<1>6. CASE a \in base..(base + 2) /\ b \in 0..5
  BY <1>1, <1>3, <1>5, <1>6
<1>7. CASE b \in base..(base + 2) /\ a \in 0..5
  BY <1>1, <1>3, <1>5, <1>7
<1>. QED  BY <1>2, <1>6, <1>7

\* The modules of all the patterns, as a condition on the place.
InAlignment(m, v) ==
  v # 1 /\ LET all == Stripes(v, Number(v))
               inner == Stripes(v, Number(v) - 1)
           IN \/ m[1] \in all /\ m[2] \in all
              \/ m[1] \in inner /\ m[2] \in 4..8
              \/ m[1] \in 4..8 /\ m[2] \in inner

\* A module is so placed exactly if some alignment pattern has it.
LEMMA AlignmentCover ==
  ASSUME NEW v \in 2..MaxVersion, NEW m \in Board(v)
  PROVE  InAlignment(m, v) <=>
           \E i, j \in 1..Number(v) :
             <<i, j>> \notin Corners(v) /\ InSquare(m, Position(v, i), Position(v, j))
<1>. DEFINE n == Number(v)
            a == m[1]
            b == m[2]
            near(c, i) == c \in (Position(v, i) - 2)..(Position(v, i) + 2)
<1>1. v \in Nat /\ n \in 2..7 /\ v # 1 /\ a \in Int /\ b \in Int
  BY Spacing DEF Board, Size, MaxVersion
<1>2. \A c \in Int : near(c, 1) <=> c \in 4..8
  BY DEF Position
<1>. HIDE DEF n
<1>3. \A c \in Int : c \in Stripes(v, n) <=> \E i \in 2..n : near(c, i)
  BY DEF Stripes
<1>4. \A c \in Int : c \in Stripes(v, n - 1) <=> \E i \in 2..(n - 1) : near(c, i)
  BY DEF Stripes
<1>5. \A i, j \in 1..n : InSquare(m, Position(v, i), Position(v, j)) <=> near(a, i) /\ near(b, j)
  BY DEF InSquare
<1>6. InAlignment(m, v) <=>
        \/ a \in Stripes(v, n) /\ b \in Stripes(v, n)
        \/ a \in Stripes(v, n - 1) /\ b \in 4..8
        \/ a \in 4..8 /\ b \in Stripes(v, n - 1)
  BY <1>1 DEF InAlignment, n
<1>7. \A i, j \in 1..n : <<i, j>> \notin Corners(v) <=>
        ~(i = 1 /\ j = 1) /\ ~(i = 1 /\ j = n) /\ ~(i = n /\ j = 1)
  BY DEF Corners, n
<1>8. /\ \A i \in 2..n : i \in 1..n /\ i # 1
      /\ \A i \in 2..(n - 1) : i \in 1..n /\ i # 1 /\ i # n
      /\ \A i \in 1..n : i = 1 \/ i \in 2..n
      /\ \A i \in 1..n : i = 1 \/ i = n \/ i \in 2..(n - 1)
      /\ 1 \in 1..n
  BY <1>1
<1>. HIDE DEF near, a, b
<1>9. ASSUME InAlignment(m, v)
      PROVE  \E i, j \in 1..n : <<i, j>> \notin Corners(v) /\ near(a, i) /\ near(b, j)
  <2>1. CASE a \in Stripes(v, n) /\ b \in Stripes(v, n)
    BY <1>1, <1>3, <1>7, <1>8, <2>1
  <2>2. CASE a \in Stripes(v, n - 1) /\ b \in 4..8
    BY <1>1, <1>2, <1>4, <1>7, <1>8, <2>2
  <2>3. CASE a \in 4..8 /\ b \in Stripes(v, n - 1)
    BY <1>1, <1>2, <1>4, <1>7, <1>8, <2>3
  <2>. QED  BY <1>6, <1>9, <2>1, <2>2, <2>3
<1>10. ASSUME NEW i \in 1..n, NEW j \in 1..n, <<i, j>> \notin Corners(v), near(a, i), near(b, j)
       PROVE  InAlignment(m, v)
  <2>1. CASE i = 1
    <3>1. a \in 4..8 /\ j \in 2..(n - 1)
      BY <1>1, <1>2, <1>7, <1>8, <1>10, <2>1
    <3>. QED  BY <1>1, <1>4, <1>6, <1>10, <3>1
  <2>2. CASE j = 1
    <3>1. b \in 4..8 /\ i \in 2..(n - 1)
      BY <1>1, <1>2, <1>7, <1>8, <1>10, <2>2
    <3>. QED  BY <1>1, <1>4, <1>6, <1>10, <3>1
  <2>3. CASE i # 1 /\ j # 1
    <3>1. i \in 2..n /\ j \in 2..n
      BY <1>8, <2>3
    <3>. QED  BY <1>1, <1>3, <1>6, <1>10, <3>1
  <2>. QED  BY <2>1, <2>2, <2>3
<1>. QED  BY <1>5, <1>9, <1>10 DEF n

FunctionModules(v) == UNION {Cells(Patterns(v)[i], v) : i \in DOMAIN Patterns(v)}

\* Every pair of positions has its turn.
HasTurn(n, i, j) ==
  LET k == (i - 1) * n + j
  IN k \in 1..(n * n) /\ ((k - 1) \div n) + 1 = i /\ ((k - 1) % n) + 1 = j

\* The two loops over the positions come to every pair.
LEMMA TurnIndex ==
  ASSUME NEW n \in 2..7, NEW i \in 1..n, NEW j \in 1..n
  PROVE  HasTurn(n, i, j)
<1>. DEFINE k == (i - 1) * n + j
<1>. SUFFICES k \in 1..(n * n) /\ ((k - 1) \div n) + 1 = i /\ ((k - 1) % n) + 1 = j
  BY DEF HasTurn
<1>1. n = 2 \/ n = 3 \/ n = 4 \/ n = 5 \/ n = 6 \/ n = 7
  OBVIOUS
<1>2. i \in Nat /\ j \in Nat /\ 1 <= i /\ i <= n /\ 1 <= j /\ j <= n
  OBVIOUS
<1>3. CASE n = 2
  <2>1. k = (i - 1) * 2 + j
    BY <1>3
  <2>. HIDE DEF k
  <2>2. k \in 1..4 /\ ((k - 1) \div 2) + 1 = i /\ ((k - 1) % 2) + 1 = j
    BY <1>2, <1>3, <2>1
  <2>. QED  BY <1>3, <2>2
<1>4. CASE n = 3
  <2>1. k = (i - 1) * 3 + j
    BY <1>4
  <2>. HIDE DEF k
  <2>2. k \in 1..9 /\ ((k - 1) \div 3) + 1 = i /\ ((k - 1) % 3) + 1 = j
    BY <1>2, <1>4, <2>1
  <2>. QED  BY <1>4, <2>2
<1>5. CASE n = 4
  <2>1. k = (i - 1) * 4 + j
    BY <1>5
  <2>. HIDE DEF k
  <2>2. k \in 1..16 /\ ((k - 1) \div 4) + 1 = i /\ ((k - 1) % 4) + 1 = j
    BY <1>2, <1>5, <2>1
  <2>. QED  BY <1>5, <2>2
<1>6. CASE n = 5
  <2>1. k = (i - 1) * 5 + j
    BY <1>6
  <2>. HIDE DEF k
  <2>2. k \in 1..25 /\ ((k - 1) \div 5) + 1 = i /\ ((k - 1) % 5) + 1 = j
    BY <1>2, <1>6, <2>1
  <2>. QED  BY <1>6, <2>2
<1>7. CASE n = 6
  <2>1. k = (i - 1) * 6 + j
    BY <1>7
  <2>. HIDE DEF k
  <2>2. k \in 1..36 /\ ((k - 1) \div 6) + 1 = i /\ ((k - 1) % 6) + 1 = j
    BY <1>2, <1>7, <2>1
  <2>. QED  BY <1>7, <2>2
<1>8. CASE n = 7
  <2>1. k = (i - 1) * 7 + j
    BY <1>8
  <2>. HIDE DEF k
  <2>2. k \in 1..49 /\ ((k - 1) \div 7) + 1 = i /\ ((k - 1) % 7) + 1 = j
    BY <1>2, <1>8, <2>1
  <2>. QED  BY <1>8, <2>2
<1>. QED  BY <1>1, <1>3, <1>4, <1>5, <1>6, <1>7, <1>8

\* A pattern has a module exactly if the module satisfies one of the conditions.
LEMMA PatternsCover ==
  ASSUME NEW v \in 1..MaxVersion, NEW m
  PROVE  m \in FunctionModules(v) <=>
           /\ m \in Board(v)
           /\ \/ OnTiming(m) \/ UnderFinder(m, v) \/ OnFormat(m, v) \/ OnVersion(m, v)
              \/ InAlignment(m, v)
<1>. DEFINE t == Turns(v)
            P(i) == Patterns(v)[i]
<1>1. /\ t \in Nat /\ DOMAIN Patterns(v) = 1..(t + 6)
      /\ P(1) = Pattern("timing", 0, 0)
      /\ P(2) = Pattern("finder", 3, 3)
      /\ P(3) = Pattern("finder", Size(v) - 4, 3)
      /\ P(4) = Pattern("finder", 3, Size(v) - 4)
      /\ P(t + 5) = Pattern("format", 0, 0) /\ P(t + 6) = Pattern("version", 0, 0)
  BY PatternList
<1>2. 1 \in 1..(t + 6) /\ 2 \in 1..(t + 6) /\ 3 \in 1..(t + 6) /\ 4 \in 1..(t + 6)
      /\ t + 5 \in 1..(t + 6) /\ t + 6 \in 1..(t + 6)
      /\ \A k \in 1..t : k + 4 \in 1..(t + 6)
  <2>1. t \in Nat
    BY <1>1
  <2>. HIDE DEF t
  <2>. QED  BY <2>1
<1>3. m \in FunctionModules(v) <=> \E i \in 1..(t + 6) : m \in Cells(P(i), v)
  BY <1>1 DEF FunctionModules
<1>4. ASSUME NEW i \in 1..(t + 6), m \in Cells(P(i), v)
      PROVE  /\ m \in Board(v)
             /\ \/ OnTiming(m) \/ UnderFinder(m, v) \/ OnFormat(m, v) \/ OnVersion(m, v)
                \/ InAlignment(m, v)
  <2>1. i \in 1..Len(Patterns(v))
    BY PatternList
  <2>2. m \in Board(v) /\ Covered(P(i), v, m)
    BY <1>4, <2>1, TurnOfPatterns, Covers
  <2>3. ASSUME v \in 2..MaxVersion, NEW g \in 1..Number(v), NEW h \in 1..Number(v),
               <<g, h>> \notin Corners(v), InSquare(m, Position(v, g), Position(v, h))
        PROVE  InAlignment(m, v)
    BY <2>2, <2>3, AlignmentCover
  <2>. HIDE DEF P, t
  <2>. QED  BY <2>2, <2>3 DEF Covered
<1>. HIDE DEF t, P
<1>5. ASSUME m \in Board(v), OnTiming(m)
      PROVE  m \in FunctionModules(v)
  BY <1>1, <1>2, <1>3, <1>5, TimingCells
<1>6. ASSUME m \in Board(v), UnderFinder(m, v)
      PROVE  m \in FunctionModules(v)
  <2>1. PICK p \in Finders(v) : m \in Cells(p, v)
    BY <1>6, FinderCover
  <2>2. p = P(2) \/ p = P(3) \/ p = P(4)
    BY <1>1 DEF Finders
  <2>. QED  BY <1>2, <1>3, <2>1, <2>2
<1>7. ASSUME m \in Board(v), OnFormat(m, v)
      PROVE  m \in FunctionModules(v)
  <2>1. m \in Cells(P(t + 5), v)
    BY <1>1, <1>7, FormatCover, FormatPattern
  <2>. QED  BY <1>2, <1>3, <2>1
<1>8. ASSUME m \in Board(v), OnVersion(m, v)
      PROVE  m \in FunctionModules(v)
  <2>1. m \in Cells(P(t + 6), v)
    BY <1>1, <1>8, VersionCover
  <2>. QED  BY <1>2, <1>3, <2>1
<1>9. ASSUME m \in Board(v), InAlignment(m, v)
      PROVE  m \in FunctionModules(v)
  <2>1. v \in 2..MaxVersion
    BY <1>9 DEF InAlignment
  <2>2. PICK i, j \in 1..Number(v) :
          <<i, j>> \notin Corners(v) /\ InSquare(m, Position(v, i), Position(v, j))
    BY <1>9, <2>1, AlignmentCover
  <2>3. t = Number(v) * Number(v) /\ Number(v) \in 2..7
    BY <2>1, Spacing DEF Turns, t
  <2>. DEFINE k == (i - 1) * Number(v) + j
  <2>4. k \in 1..t /\ ((k - 1) \div Number(v)) + 1 = i /\ ((k - 1) % Number(v)) + 1 = j
    <3>. DEFINE n == Number(v)
    <3>1. n \in 2..7 /\ i \in 1..n /\ j \in 1..n /\ t = n * n /\ k = (i - 1) * n + j
      BY <2>2, <2>3
    <3>. HIDE DEF n, k
    <3>2. HasTurn(n, i, j)
      BY <3>1, TurnIndex
    <3>3. k \in 1..t /\ ((k - 1) \div n) + 1 = i /\ ((k - 1) % n) + 1 = j
      BY <3>1, <3>2, Zenon DEF HasTurn
    <3>. QED  BY <3>3 DEF n
  <2>. HIDE DEF k
  <2>5. P(k + 4) = AlignmentTurn(v, i, j)
    BY <2>4, PatternList DEF P, t
  <2>6. m \in Cells(P(k + 4), v)
    BY <1>9, <2>1, <2>2, <2>5, AlignmentCells
  <2>. QED  BY <1>2, <1>3, <2>4, <2>6
<1>. QED  BY <1>3, <1>4, <1>5, <1>6, <1>7, <1>8, <1>9

\* The same modules as boxes that do not overlap: the three corners with a finder; left of
\* and above the rest, the timing lines, the version words and the alignment patterns on the
\* line; and the alignment patterns of the rest.
Low == 0..8
Middle(v) == 9..(Size(v) - 9)
High(v) == (Size(v) - 8)..(Size(v) - 1)
WordLines(v) == IF v >= 7 THEN (Size(v) - 11)..(Size(v) - 9) ELSE {}
AllStripes(v) == IF v = 1 THEN {} ELSE Stripes(v, Number(v))
InnerStripes(v) == IF v = 1 THEN {} ELSE Stripes(v, Number(v) - 1)

LeftPart(v) == (Box({6}, Middle(v)) \cup Box(0..5, WordLines(v)))
                 \cup Box({4, 5, 7, 8}, InnerStripes(v))
UpperPart(v) == (Box(Middle(v), {6}) \cup Box(WordLines(v), 0..5))
                  \cup Box(InnerStripes(v), {4, 5, 7, 8})
CornerPart(v) == (Box(Low, Low) \cup Box(Low, High(v))) \cup Box(High(v), Low)

\* The stripes in all forty versions, of which the first has none.
LEMMA StripeRange ==
  ASSUME NEW v \in 1..MaxVersion
  PROVE  /\ \A c \in AllStripes(v) : c \in 9..(4 * v + 12)
         /\ \A c \in InnerStripes(v) : c \in 9..(4 * v - 4)
<1>1. CASE v = 1
  BY <1>1 DEF AllStripes, InnerStripes
<1>2. CASE v # 1
  BY <1>2, StripePlaces DEF AllStripes, InnerStripes
<1>. QED  BY <1>1, <1>2

\* The modules of the patterns are those of the boxes.
LEMMA PatternBoxes ==
  ASSUME NEW v \in 1..MaxVersion
  PROVE  FunctionModules(v)
           = ((CornerPart(v) \cup LeftPart(v)) \cup UpperPart(v))
               \cup Box(AllStripes(v), AllStripes(v))
<1>. DEFINE S == Size(v)
            W == WordLines(v)
            all == AllStripes(v)
            inner == InnerStripes(v)
<1>1. v \in Nat /\ v >= 1 /\ S = 4 * v + 17
  BY DEF Size, MaxVersion
<1>2. /\ \A c \in all : c \in 9..(4 * v + 12)
      /\ \A c \in inner : c \in 9..(4 * v - 4)
  BY StripeRange
<1>3. \A c : c \in W <=> v >= 7 /\ c \in (4 * v + 6)..(4 * v + 8)
  <2>1. S - 11 = 4 * v + 6 /\ S - 9 = 4 * v + 8
    BY <1>1
  <2>. QED  BY <2>1 DEF WordLines
<1>4. ASSUME NEW a \in Int, NEW b \in Int
      PROVE  <<a, b>> \in FunctionModules(v) <=>
               /\ a \in 0..(4 * v + 16) /\ b \in 0..(4 * v + 16)
               /\ \/ a = 6 \/ b = 6
                  \/ a <= 7 /\ b <= 7
                  \/ a >= 4 * v + 9 /\ b <= 7
                  \/ a <= 7 /\ b >= 4 * v + 9
                  \/ a = 8 /\ (b \in (0..8) \ {6} \/ b >= 4 * v + 9)
                  \/ b = 8 /\ (a \in (0..8) \ {6} \/ a >= 4 * v + 9)
                  \/ a \in W /\ b <= 5
                  \/ b \in W /\ a <= 5
                  \/ a \in all /\ b \in all
                  \/ a \in inner /\ b \in 4..8
                  \/ a \in 4..8 /\ b \in inner
  <2>. DEFINE m == <<a, b>>
  <2>1. m \in Board(v) <=> a \in 0..(4 * v + 16) /\ b \in 0..(4 * v + 16)
    <3>1. 0..(S - 1) = 0..(4 * v + 16)
      BY <1>1
    <3>. QED  BY <3>1 DEF Board
  <2>2. OnTiming(m) <=> a = 6 \/ b = 6
    BY DEF OnTiming
  <2>3. UnderFinder(m, v) <=> \/ a <= 7 /\ b <= 7
                              \/ a >= 4 * v + 9 /\ b <= 7
                              \/ a <= 7 /\ b >= 4 * v + 9
    BY <1>1 DEF UnderFinder
  <2>4. OnFormat(m, v) <=> \/ a = 8 /\ (b \in (0..8) \ {6} \/ b >= 4 * v + 9)
                           \/ b = 8 /\ (a \in (0..8) \ {6} \/ a >= 4 * v + 9)
    BY <1>1 DEF OnFormat
  <2>5. OnVersion(m, v) <=> \/ a \in W /\ b <= 5
                            \/ b \in W /\ a <= 5
    <3>. HIDE DEF W
    <3>1. OnVersion(m, v) <=> /\ v >= 7
                              /\ \/ a \in (S - 11)..(S - 9) /\ b <= 5
                                 \/ b \in (S - 11)..(S - 9) /\ a <= 5
      BY DEF OnVersion
    <3>2. S - 11 = 4 * v + 6 /\ S - 9 = 4 * v + 8
      BY <1>1
    <3>. HIDE DEF S, m
    <3>. QED  BY <1>3, <3>1, <3>2
  <2>6. InAlignment(m, v) <=> \/ a \in all /\ b \in all
                              \/ a \in inner /\ b \in 4..8
                              \/ a \in 4..8 /\ b \in inner
    BY DEF InAlignment, AllStripes, InnerStripes
  <2>. HIDE DEF m, W, all, inner, S
  <2>7. m \in FunctionModules(v) <=>
           /\ m \in Board(v)
           /\ \/ OnTiming(m) \/ UnderFinder(m, v) \/ OnFormat(m, v) \/ OnVersion(m, v)
              \/ InAlignment(m, v)
    BY PatternsCover
  <2>. QED  BY <2>1, <2>2, <2>3, <2>4, <2>5, <2>6, <2>7 DEF m
<1>5. /\ Low = 0..8 /\ Middle(v) = 9..(4 * v + 8) /\ High(v) = (4 * v + 9)..(4 * v + 16)
  BY <1>1 DEF Low, Middle, High
<1>. DEFINE Boxes == ((CornerPart(v) \cup LeftPart(v)) \cup UpperPart(v)) \cup Box(all, all)
<1>6. ASSUME NEW a, NEW b
      PROVE  <<a, b>> \in Boxes <=>
               \/ a \in Low /\ b \in Low
               \/ a \in Low /\ b \in High(v)
               \/ a \in High(v) /\ b \in Low
               \/ a = 6 /\ b \in Middle(v)
               \/ a \in 0..5 /\ b \in W
               \/ a \in {4, 5, 7, 8} /\ b \in inner
               \/ a \in Middle(v) /\ b = 6
               \/ a \in W /\ b \in 0..5
               \/ a \in inner /\ b \in {4, 5, 7, 8}
               \/ a \in all /\ b \in all
  <2>. HIDE DEF W, all, inner
  <2>1. \A A, B : <<a, b>> \in Box(A, B) <=> a \in A /\ b \in B
    BY DEF Box
  <2>2. <<a, b>> \in CornerPart(v) <=> \/ a \in Low /\ b \in Low
                                       \/ a \in Low /\ b \in High(v)
                                       \/ a \in High(v) /\ b \in Low
    BY <2>1 DEF CornerPart
  <2>3. <<a, b>> \in LeftPart(v) <=> \/ a = 6 /\ b \in Middle(v)
                                     \/ a \in 0..5 /\ b \in W
                                     \/ a \in {4, 5, 7, 8} /\ b \in inner
    BY <2>1 DEF LeftPart, W, inner
  <2>4. <<a, b>> \in UpperPart(v) <=> \/ a \in Middle(v) /\ b = 6
                                      \/ a \in W /\ b \in 0..5
                                      \/ a \in inner /\ b \in {4, 5, 7, 8}
    BY <2>1 DEF UpperPart, W, inner
  <2>. QED  BY <2>1, <2>2, <2>3, <2>4
<1>. HIDE DEF S, W, all, inner, Boxes
<1>7. ASSUME NEW a \in Int, NEW b \in Int
      PROVE  <<a, b>> \in FunctionModules(v) <=> <<a, b>> \in Boxes
  <2>1. ASSUME <<a, b>> \in FunctionModules(v)
        PROVE  <<a, b>> \in Boxes
    <3>1. a \in 0..(4 * v + 16) /\ b \in 0..(4 * v + 16)
      BY <1>4, <2>1
    <3>2. \/ a \in 0..8 \/ a \in 9..(4 * v + 8) \/ a \in (4 * v + 9)..(4 * v + 16)
      BY <1>1, <3>1
    <3>3. \/ b \in 0..8 \/ b \in 9..(4 * v + 8) \/ b \in (4 * v + 9)..(4 * v + 16)
      BY <1>1, <3>1
    <3>4. CASE a \in 0..8
      <4>1. CASE b \in 0..8
        BY <1>5, <1>6, <3>4, <4>1
      <4>2. CASE b \in 9..(4 * v + 8)
        BY <1>1, <1>2, <1>3, <1>4, <1>5, <1>6, <2>1, <3>4, <4>2
      <4>3. CASE b \in (4 * v + 9)..(4 * v + 16)
        BY <1>5, <1>6, <3>4, <4>3
      <4>. QED  BY <3>3, <4>1, <4>2, <4>3
    <3>5. CASE a \in 9..(4 * v + 8)
      BY <1>1, <1>2, <1>3, <1>4, <1>5, <1>6, <2>1, <3>3, <3>5
    <3>6. CASE a \in (4 * v + 9)..(4 * v + 16)
      BY <1>1, <1>2, <1>3, <1>4, <1>5, <1>6, <2>1, <3>3, <3>6
    <3>. QED  BY <3>2, <3>4, <3>5, <3>6
  <2>2. ASSUME <<a, b>> \in Boxes
        PROVE  <<a, b>> \in FunctionModules(v)
    <3>1. CASE a \in all /\ b \in all
      BY <1>1, <1>2, <1>4, <3>1
    <3>2. CASE a \in Low /\ b \in Low
      BY <1>1, <1>4, <1>5, <3>2
    <3>3. CASE \/ a \in Low /\ b \in High(v)
               \/ a \in High(v) /\ b \in Low
      BY <1>1, <1>4, <1>5, <3>3
    <3>4. CASE \/ a = 6 /\ b \in Middle(v)
               \/ a \in Middle(v) /\ b = 6
      BY <1>1, <1>4, <1>5, <3>4
    <3>5. CASE \/ a \in 0..5 /\ b \in W
               \/ a \in W /\ b \in 0..5
      BY <1>1, <1>3, <1>4, <3>5
    <3>6. CASE a \in {4, 5, 7, 8} /\ b \in inner
      BY <1>1, <1>2, <1>4, <3>6
    <3>7. CASE a \in inner /\ b \in {4, 5, 7, 8}
      BY <1>1, <1>2, <1>4, <3>7
    <3>. QED  BY <1>6, <2>2, <3>1, <3>2, <3>3, <3>4, <3>5, <3>6, <3>7
  <2>. QED  BY <2>1, <2>2
<1>8. \A m \in FunctionModules(v) : m = <<m[1], m[2]>> /\ m[1] \in Int /\ m[2] \in Int
  <2>1. \A m \in FunctionModules(v) : m \in Board(v)
    BY PatternsCover
  <2>2. \A m \in Board(v) : m = <<m[1], m[2]>> /\ m[1] \in Int /\ m[2] \in Int
    BY <1>1 DEF Board, S
  <2>. QED  BY <2>1, <2>2
<1>9. \A m \in Boxes : m = <<m[1], m[2]>> /\ m[1] \in Int /\ m[2] \in Int
  <2>1. \A m \in Boxes : m = <<m[1], m[2]>>
    BY DEF Boxes, CornerPart, LeftPart, UpperPart, Box
  <2>2. ASSUME NEW m \in Boxes
        PROVE  m[1] \in Int /\ m[2] \in Int
    <3>1. <<m[1], m[2]>> \in Boxes
      BY <2>1, <2>2
    <3>2. /\ \A c \in all : c \in Int
          /\ \A c \in inner : c \in Int
          /\ \A c \in W : c \in Int
      BY <1>1, <1>2, <1>3
    <3>3. \A c \in Low \cup Middle(v) \cup High(v) \cup (0..5) \cup {4, 5, 7, 8} \cup {6} :
            c \in Int
      BY <1>1, <1>5
    <3>. QED  BY <1>6, <3>1, <3>2, <3>3
  <2>. QED  BY <2>1, <2>2
<1>10. FunctionModules(v) = Boxes
  <2>1. \A m \in FunctionModules(v) : m \in Boxes
    BY <1>7, <1>8
  <2>2. \A m \in Boxes : m \in FunctionModules(v)
    BY <1>7, <1>9
  <2>. QED  BY <2>1, <2>2
<1>. QED  BY <1>10 DEF Boxes, all

\* How many modules each of the parts has.
LEMMA LinesCount ==
  ASSUME NEW v \in 1..MaxVersion
  PROVE  /\ IsFiniteSet(Low) /\ Cardinality(Low) = 9
         /\ IsFiniteSet(High(v)) /\ Cardinality(High(v)) = 8
         /\ IsFiniteSet(Middle(v)) /\ Cardinality(Middle(v)) = 4 * v
         /\ IsFiniteSet(WordLines(v))
         /\ Cardinality(WordLines(v)) = IF v >= 7 THEN 3 ELSE 0
         /\ IsFiniteSet({6}) /\ Cardinality({6}) = 1
         /\ IsFiniteSet(0..5) /\ Cardinality(0..5) = 6
         /\ IsFiniteSet({4, 5, 7, 8}) /\ Cardinality({4, 5, 7, 8}) = 4
<1>. DEFINE S == Size(v)
<1>1. v \in Nat /\ v >= 1 /\ S = 4 * v + 17 /\ S \in Int
  BY DEF Size, MaxVersion
<1>2. IsFiniteSet(Low) /\ Cardinality(Low) = 9
  <2>1. 0 \in Int /\ 8 \in Int /\ 9 \in Nat /\ 9 = 8 - 0 + 1
    OBVIOUS
  <2>. QED  BY <2>1, IntervalCount, Zenon DEF Low
<1>3. IsFiniteSet(High(v)) /\ Cardinality(High(v)) = 8
  <2>1. S - 8 \in Int /\ S - 1 \in Int /\ 8 \in Nat /\ 8 = (S - 1) - (S - 8) + 1
    BY <1>1
  <2>2. High(v) = (S - 8)..(S - 1)
    BY DEF High
  <2>. HIDE DEF S
  <2>. QED  BY <2>1, <2>2, IntervalCount, Zenon
<1>4. IsFiniteSet(Middle(v)) /\ Cardinality(Middle(v)) = 4 * v
  <2>1. 9 \in Int /\ S - 9 \in Int /\ 4 * v \in Nat /\ 4 * v = (S - 9) - 9 + 1
    BY <1>1
  <2>2. Middle(v) = 9..(S - 9)
    BY DEF Middle
  <2>. HIDE DEF S
  <2>. QED  BY <2>1, <2>2, IntervalCount, Zenon
<1>5. IsFiniteSet(WordLines(v)) /\ Cardinality(WordLines(v)) = IF v >= 7 THEN 3 ELSE 0
  <2>1. CASE v >= 7
    <3>1. S - 11 \in Int /\ S - 9 \in Int /\ 3 \in Nat /\ 3 = (S - 9) - (S - 11) + 1
      BY <1>1
    <3>2. WordLines(v) = (S - 11)..(S - 9)
      BY <2>1 DEF WordLines
    <3>. HIDE DEF S
    <3>3. IsFiniteSet(WordLines(v)) /\ Cardinality(WordLines(v)) = 3
      BY <3>1, <3>2, IntervalCount, Zenon
    <3>. QED  BY <2>1, <3>3
  <2>2. CASE ~(v >= 7)
    BY <2>2, FS_EmptySet DEF WordLines
  <2>. QED  BY <2>1, <2>2
<1>6. IsFiniteSet({6}) /\ Cardinality({6}) = 1
  BY FS_Singleton
<1>7. IsFiniteSet(0..5) /\ Cardinality(0..5) = 6
  <2>1. 0 \in Int /\ 5 \in Int /\ 6 \in Nat /\ 6 = 5 - 0 + 1
    OBVIOUS
  <2>. QED  BY <2>1, IntervalCount, Zenon
<1>8. IsFiniteSet({4, 5, 7, 8}) /\ Cardinality({4, 5, 7, 8}) = 4
  <2>1. IsFiniteSet(4..5) /\ Cardinality(4..5) = 2
    <3>1. 4 \in Int /\ 5 \in Int /\ 2 \in Nat /\ 2 = 5 - 4 + 1
      OBVIOUS
    <3>. QED  BY <3>1, IntervalCount, Zenon
  <2>2. IsFiniteSet(7..8) /\ Cardinality(7..8) = 2
    <3>1. 7 \in Int /\ 8 \in Int /\ 2 \in Nat /\ 2 = 8 - 7 + 1
      OBVIOUS
    <3>. QED  BY <3>1, IntervalCount, Zenon
  <2>3. Apart(4..5, 7..8)
    BY DEF Apart
  <2>4. {4, 5, 7, 8} = (4..5) \cup (7..8)
    OBVIOUS
  <2>5. /\ IsFiniteSet((4..5) \cup (7..8))
        /\ Cardinality((4..5) \cup (7..8)) = Cardinality(4..5) + Cardinality(7..8)
    BY <2>1, <2>2, <2>3, DisjointCount
  <2>. QED  BY <2>1, <2>2, <2>4, <2>5
<1>. QED  BY <1>2, <1>3, <1>4, <1>5, <1>6, <1>7, <1>8

\* How many stripes there are.
LEMMA StripesCount ==
  ASSUME NEW v \in 1..MaxVersion
  PROVE  /\ IsFiniteSet(AllStripes(v)) /\ IsFiniteSet(InnerStripes(v))
         /\ v = 1 => Cardinality(AllStripes(v)) = 0 /\ Cardinality(InnerStripes(v)) = 0
         /\ v # 1 => /\ Cardinality(AllStripes(v)) = 5 * (Number(v) - 1)
                     /\ Cardinality(InnerStripes(v)) = 5 * (Number(v) - 2)
<1>1. CASE v = 1
  BY <1>1, FS_EmptySet DEF AllStripes, InnerStripes
<1>2. CASE v # 1
  <2>1. v \in 2..MaxVersion
    BY <1>2
  <2>2. Number(v) \in 2..7 /\ Number(v) \in 1..Number(v) /\ Number(v) - 1 \in 1..Number(v)
    <3>1. Number(v) \in 2..7
      BY <2>1, Spacing
    <3>. QED  BY <3>1
  <2>3. /\ IsFiniteSet(Stripes(v, Number(v)))
        /\ Cardinality(Stripes(v, Number(v))) = 5 * (Number(v) - 1)
    BY <2>1, <2>2, StripeCount
  <2>4. /\ IsFiniteSet(Stripes(v, Number(v) - 1))
        /\ Cardinality(Stripes(v, Number(v) - 1)) = 5 * ((Number(v) - 1) - 1)
    BY <2>1, <2>2, StripeCount
  <2>5. (Number(v) - 1) - 1 = Number(v) - 2
    BY <2>2
  <2>. QED  BY <1>2, <2>3, <2>4, <2>5 DEF AllStripes, InnerStripes
<1>. QED  BY <1>1, <1>2

\* The parts share no module.
LEMMA PartsApart ==
  ASSUME NEW v \in 1..MaxVersion
  PROVE  /\ Apart({6}, 0..5) /\ Apart({6}, {4, 5, 7, 8})
         /\ Apart(WordLines(v), InnerStripes(v)) /\ Apart(Low, High(v))
         /\ Apart(CornerPart(v), LeftPart(v))
         /\ Apart(CornerPart(v) \cup LeftPart(v), UpperPart(v))
         /\ Apart((CornerPart(v) \cup LeftPart(v)) \cup UpperPart(v),
                  Box(AllStripes(v), AllStripes(v)))
<1>. DEFINE S == Size(v)
            W == WordLines(v)
            all == AllStripes(v)
            inner == InnerStripes(v)
<1>1. v \in Nat /\ v >= 1 /\ S = 4 * v + 17
  BY DEF Size, MaxVersion
<1>2. /\ \A c \in all : c \in 9..(4 * v + 12)
      /\ \A c \in inner : c \in 9..(4 * v - 4)
  BY StripeRange
<1>3. \A c \in W : c \in (4 * v + 6)..(4 * v + 8) /\ v >= 7
  <2>1. S - 11 = 4 * v + 6 /\ S - 9 = 4 * v + 8
    BY <1>1
  <2>. QED  BY <2>1 DEF WordLines
<1>4. /\ Low = 0..8 /\ Middle(v) = 9..(4 * v + 8) /\ High(v) = (4 * v + 9)..(4 * v + 16)
  BY <1>1 DEF Low, Middle, High
<1>5. /\ Apart({6}, 0..5) /\ Apart({6}, {4, 5, 7, 8})
      /\ Apart(W, inner) /\ Apart(Low, High(v))
  <2>. HIDE DEF W, inner
  <2>1. Apart({6}, 0..5) /\ Apart({6}, {4, 5, 7, 8})
    BY DEF Apart
  <2>2. Apart(W, inner)
    BY <1>1, <1>2, <1>3 DEF Apart
  <2>3. Apart(Low, High(v))
    BY <1>1, <1>4 DEF Apart
  <2>. QED  BY <2>1, <2>2, <2>3
<1>. HIDE DEF S, W, all, inner
<1>6. \A A, B, m : m \in Box(A, B) => m[1] \in A /\ m[2] \in B
  BY DEF Box
<1>7. ASSUME NEW m \in CornerPart(v)
      PROVE  \/ m[1] \in Low /\ m[2] \in Low
             \/ m[1] \in Low /\ m[2] \in High(v)
             \/ m[1] \in High(v) /\ m[2] \in Low
  BY <1>6 DEF CornerPart
<1>8. ASSUME NEW m \in LeftPart(v)
      PROVE  m[1] \in Low /\ m[2] \in Middle(v)
  <2>1. \/ m[1] \in {6} /\ m[2] \in Middle(v)
        \/ m[1] \in 0..5 /\ m[2] \in W
        \/ m[1] \in {4, 5, 7, 8} /\ m[2] \in inner
    BY <1>6 DEF LeftPart, W, inner
  <2>. QED  BY <1>1, <1>2, <1>3, <1>4, <2>1
<1>9. ASSUME NEW m \in UpperPart(v)
      PROVE  m[1] \in Middle(v) /\ m[2] \in Low
  <2>1. \/ m[1] \in Middle(v) /\ m[2] \in {6}
        \/ m[1] \in W /\ m[2] \in 0..5
        \/ m[1] \in inner /\ m[2] \in {4, 5, 7, 8}
    BY <1>6 DEF UpperPart, W, inner
  <2>. QED  BY <1>1, <1>2, <1>3, <1>4, <2>1
<1>10. ASSUME NEW m \in Box(all, all)
       PROVE  m[1] \notin Low /\ m[2] \notin Low
  <2>1. m[1] \in all /\ m[2] \in all
    BY <1>6
  <2>2. \A c \in 9..(4 * v + 12) : c \notin 0..8
    BY <1>1
  <2>. QED  BY <1>2, <1>4, <2>1, <2>2
<1>11. /\ Apart(Low, Middle(v)) /\ Apart(Middle(v), High(v)) /\ Apart(Low, High(v))
  BY <1>1, <1>4 DEF Apart
<1>12. Apart(CornerPart(v), LeftPart(v))
  BY <1>7, <1>8, <1>11 DEF Apart
<1>13. Apart(CornerPart(v) \cup LeftPart(v), UpperPart(v))
  BY <1>7, <1>8, <1>9, <1>11 DEF Apart
<1>14. Apart((CornerPart(v) \cup LeftPart(v)) \cup UpperPart(v), Box(all, all))
  BY <1>7, <1>8, <1>9, <1>10 DEF Apart
<1>. QED  BY <1>5, <1>12, <1>13, <1>14 DEF W, all, inner

\* The patterns cover as many modules as getNumRawDataModules takes off the symbol.
LEMMA FunctionModulesCount ==
  ASSUME NEW v \in 1..MaxVersion
  PROVE  /\ IsFiniteSet(FunctionModules(v))
         /\ Size(v) * Size(v) - Cardinality(FunctionModules(v)) = NumRawDataModules(v)
<1>. DEFINE w == Cardinality(WordLines(v))
            a == Cardinality(AllStripes(v))
            e == Cardinality(InnerStripes(v))
            side == 4 * v + 6 * w + 4 * e
<1>1. v \in Nat /\ v >= 1
  BY DEF MaxVersion
<1>2. w \in Nat /\ a \in Nat /\ e \in Nat /\ 4 * v \in Nat
  BY <1>1, LinesCount, StripesCount, FS_CardinalityType
<1>3. /\ IsFiniteSet(LeftPart(v)) /\ Cardinality(LeftPart(v)) = side
      /\ IsFiniteSet(UpperPart(v)) /\ Cardinality(UpperPart(v)) = side
  <2>1. side = Cardinality({6}) * Cardinality(Middle(v)) + Cardinality(0..5) * w
                 + Cardinality({4, 5, 7, 8}) * e
    <3>1. /\ Cardinality({6}) = 1 /\ Cardinality(Middle(v)) = 4 * v
          /\ Cardinality(0..5) = 6 /\ Cardinality({4, 5, 7, 8}) = 4
      BY LinesCount
    <3>. HIDE DEF w, e
    <3>. QED  BY <1>1, <1>2, <3>1
  <2>2. side \in Nat
    <3>. HIDE DEF w, e
    <3>. QED  BY <1>1, <1>2
  <2>3. /\ IsFiniteSet({6}) /\ IsFiniteSet(Middle(v)) /\ IsFiniteSet(0..5)
        /\ IsFiniteSet(WordLines(v)) /\ IsFiniteSet({4, 5, 7, 8})
        /\ IsFiniteSet(InnerStripes(v))
    BY LinesCount, StripesCount
  <2>4. Apart({6}, 0..5) /\ Apart({6}, {4, 5, 7, 8}) /\ Apart(WordLines(v), InnerStripes(v))
    BY PartsApart
  <2>. DEFINE A == {6}
              M == Middle(v)
              D == 0..5
              E == {4, 5, 7, 8}
              F == InnerStripes(v)
              W == WordLines(v)
              left == (Box(A, M) \cup Box(D, W)) \cup Box(E, F)
              upper == (Box(M, A) \cup Box(W, D)) \cup Box(F, E)
  <2>5. LeftPart(v) = left /\ UpperPart(v) = upper
    BY DEF LeftPart, UpperPart
  <2>6. /\ IsFiniteSet(left) /\ Cardinality(left) = side
        /\ IsFiniteSet(upper) /\ Cardinality(upper) = side
    <3>1. /\ IsFiniteSet(A) /\ IsFiniteSet(M) /\ IsFiniteSet(D) /\ IsFiniteSet(W)
          /\ IsFiniteSet(E) /\ IsFiniteSet(F)
          /\ Apart(A, D) /\ Apart(A, E) /\ Apart(W, F) /\ side \in Nat
          /\ side = Cardinality(A) * Cardinality(M) + Cardinality(D) * Cardinality(W)
                      + Cardinality(E) * Cardinality(F)
      BY <2>1, <2>2, <2>3, <2>4
    <3>. HIDE DEF A, M, D, E, F, W, side
    <3>2. /\ IsFiniteSet((Box(A, M) \cup Box(D, W)) \cup Box(E, F))
          /\ Cardinality((Box(A, M) \cup Box(D, W)) \cup Box(E, F))
               = Cardinality(A) * Cardinality(M) + Cardinality(D) * Cardinality(W)
                   + Cardinality(E) * Cardinality(F)
          /\ IsFiniteSet((Box(M, A) \cup Box(W, D)) \cup Box(F, E))
          /\ Cardinality((Box(M, A) \cup Box(W, D)) \cup Box(F, E))
               = Cardinality(A) * Cardinality(M) + Cardinality(D) * Cardinality(W)
                   + Cardinality(E) * Cardinality(F)
      <4>1. CountOfThree(A, M, D, W, E, F)
        BY <3>1, ThreeBoxes
      <4>. QED  BY <4>1 DEF CountOfThree
    <3>. QED  BY <3>1, <3>2, Zenon
  <2>. QED  BY <2>5, <2>6
<1>4. IsFiniteSet(CornerPart(v)) /\ Cardinality(CornerPart(v)) = 225
  <2>1. /\ IsFiniteSet(Low) /\ Cardinality(Low) = 9
        /\ IsFiniteSet(High(v)) /\ Cardinality(High(v)) = 8
    BY LinesCount
  <2>2. IsFiniteSet(Box(Low, Low)) /\ Cardinality(Box(Low, Low)) = 9 * 9
    BY <2>1, BoxCount
  <2>3. /\ IsFiniteSet(Box(Low, High(v))) /\ Cardinality(Box(Low, High(v))) = 9 * 8
        /\ IsFiniteSet(Box(High(v), Low)) /\ Cardinality(Box(High(v), Low)) = 9 * 8
    BY <2>1, BoxCount
  <2>4. Apart(Low, High(v))
    BY PartsApart
  <2>5. /\ Apart(Box(Low, Low), Box(Low, High(v)))
        /\ Apart(Box(Low, Low) \cup Box(Low, High(v)), Box(High(v), Low))
    BY <2>4 DEF Apart, Box
  <2>6. /\ IsFiniteSet(Box(Low, Low) \cup Box(Low, High(v)))
        /\ Cardinality(Box(Low, Low) \cup Box(Low, High(v))) = 9 * 9 + 9 * 8
    BY <2>2, <2>3, <2>5, DisjointCount
  <2>7. /\ IsFiniteSet(CornerPart(v)) /\ Cardinality(CornerPart(v)) = 9 * 9 + 9 * 8 + 9 * 8
    BY <2>3, <2>5, <2>6, DisjointCount DEF CornerPart
  <2>. QED  BY <2>7
<1>5. /\ IsFiniteSet(Box(AllStripes(v), AllStripes(v)))
      /\ Cardinality(Box(AllStripes(v), AllStripes(v))) = a * a
  BY <1>2, StripesCount, BoxCount
<1>. DEFINE C == CornerPart(v)
            L == LeftPart(v)
            U == UpperPart(v)
            B == Box(AllStripes(v), AllStripes(v))
<1>6. Apart(C, L) /\ Apart(C \cup L, U) /\ Apart((C \cup L) \cup U, B)
  BY PartsApart
<1>7. /\ IsFiniteSet(C) /\ IsFiniteSet(L) /\ IsFiniteSet(U) /\ IsFiniteSet(B)
      /\ Cardinality(C) = 225 /\ Cardinality(L) = side /\ Cardinality(U) = side
      /\ Cardinality(B) = a * a
  BY <1>3, <1>4, <1>5
<1>8. FunctionModules(v) = ((C \cup L) \cup U) \cup B
  BY PatternBoxes
<1>. HIDE DEF C, L, U, B, side, w, a, e
<1>9. IsFiniteSet(C \cup L) /\ Cardinality(C \cup L) = 225 + side
  BY <1>6, <1>7, DisjointCount
<1>10. IsFiniteSet((C \cup L) \cup U) /\ Cardinality((C \cup L) \cup U) = 225 + side + side
  BY <1>6, <1>7, <1>9, DisjointCount
<1>11. /\ IsFiniteSet(((C \cup L) \cup U) \cup B)
       /\ Cardinality(((C \cup L) \cup U) \cup B) = 225 + side + side + a * a
  BY <1>6, <1>7, <1>10, DisjointCount
<1>12. Cardinality(FunctionModules(v)) = 225 + 8 * v + 12 * w + 8 * e + a * a
  <2>1. 225 + side + side = 225 + 8 * v + 12 * w + 8 * e
    BY <1>1, <1>2 DEF side
  <2>. QED  BY <1>8, <1>11, <2>1
<1>13. Size(v) * Size(v) = 16 * (v * v) + 136 * v + 289
  BY <1>1 DEF Size
<1>14. NumRawDataModules(v)
         = 16 * (v * v) + 128 * v + 64
             - (IF v >= 2 THEN 25 * (Number(v) * Number(v)) - 10 * Number(v) - 55 ELSE 0)
             - (IF v >= 7 THEN 36 ELSE 0)
  <2>. DEFINE n == v \div 7 + 2
  <2>1. n \in Nat
    BY <1>1
  <2>2. NumRawDataModules(v)
          = (16 * v + 128) * v + 64 - (IF v >= 2 THEN (25 * n - 10) * n - 55 ELSE 0)
              - (IF v >= 7 THEN 36 ELSE 0)
    BY DEF NumRawDataModules
  <2>3. n = Number(v)
    BY DEF Number
  <2>. HIDE DEF n
  <2>4. /\ (16 * v + 128) * v = 16 * (v * v) + 128 * v
        /\ (25 * n - 10) * n = 25 * (n * n) - 10 * n
    BY <1>1, <2>1
  <2>. QED  BY <1>1, <2>1, <2>2, <2>3, <2>4
<1>15. w = (IF v >= 7 THEN 3 ELSE 0)
  BY LinesCount DEF w
<1>16. v * v \in Nat
  BY <1>1
<1>17. CASE v = 1
  <2>1. a = 0 /\ e = 0
    BY <1>17, StripesCount DEF a, e
  <2>. QED  BY <1>8, <1>11, <1>12, <1>13, <1>14, <1>15, <1>17, <2>1
<1>18. CASE v # 1
  <2>. DEFINE n == Number(v)
  <2>1. a = 5 * (n - 1) /\ e = 5 * (n - 2)
    BY <1>18, StripesCount DEF a, e
  <2>2. n \in 2..7
    BY <1>1, <1>18, Spacing
  <2>. HIDE DEF n
  <2>3. a * a = 25 * (n * n) - 50 * n + 25 /\ n * n \in Nat
    BY <2>1, <2>2
  <2>4. Cardinality(FunctionModules(v))
          = 225 + 8 * v + 12 * w + 40 * n - 80 + 25 * (n * n) - 50 * n + 25
    BY <1>1, <1>2, <1>12, <2>1, <2>2, <2>3
  <2>5. NumRawDataModules(v)
          = 16 * (v * v) + 128 * v + 64 - (25 * (n * n) - 10 * n - 55)
              - (IF v >= 7 THEN 36 ELSE 0)
    BY <1>1, <1>14, <1>18 DEF n
  <2>6. Size(v) * Size(v) - Cardinality(FunctionModules(v)) = NumRawDataModules(v)
    <3>. DEFINE vv == v * v
                nn == n * n
    <3>1. /\ Size(v) * Size(v) = 16 * vv + 136 * v + 289
          /\ Cardinality(FunctionModules(v))
               = 225 + 8 * v + 12 * w + 40 * n - 80 + 25 * nn - 50 * n + 25
          /\ NumRawDataModules(v)
               = 16 * vv + 128 * v + 64 - (25 * nn - 10 * n - 55)
                   - (IF v >= 7 THEN 36 ELSE 0)
          /\ vv \in Nat /\ nn \in Nat
      BY <1>13, <1>16, <2>3, <2>4, <2>5
    <3>. HIDE DEF vv, nn
    <3>. QED  BY <1>1, <1>15, <2>2, <3>1
  <2>. QED  BY <1>8, <1>11, <2>6
<1>. QED  BY <1>17, <1>18
-----------------------------------------------------------------------------
(* Counting the modules the scan meets *)

\* The pair of columns the scan comes to lies beside the timing column.
LEMMA NextPair ==
  ASSUME ChoiceInv, ScanInv, stage = "scan"
  PROVE  /\ version \in Nat /\ version >= 1 /\ right \in Int
         /\ right >= 1 =>
              /\ PairFrom(right) \in (1..(4 * version + 16)) \ {6, 7}
              /\ right = PairFrom(right) \/ (right = 6 /\ PairFrom(right) = 5)
         /\ right < 1 => right = -1
<1>. DEFINE n == Len(scanned)
            v == version
<1>1. /\ v \in Nat /\ v >= 1 /\ n \in Nat /\ n <= 2 * v + 8
      /\ right = IF n = 2 * v + 5 THEN 6 ELSE RightColumn(v, n + 1)
  BY DEF ChoiceInv, ScanInv, MaxVersion
<1>. HIDE DEF n, v
<1>2. CASE n < 2 * v + 5
  <2>1. right = 4 * v + 16 - 2 * n
    BY <1>1, <1>2 DEF RightColumn
  <2>2. right \in 8..(4 * v + 16)
    BY <1>1, <1>2, <2>1
  <2>. QED  BY <1>1, <2>2 DEF PairFrom, v
<1>3. CASE n = 2 * v + 5
  BY <1>1, <1>3 DEF PairFrom, v
<1>4. CASE n > 2 * v + 5
  <2>1. right = 4 * v + 15 - 2 * n
    BY <1>1, <1>4 DEF RightColumn
  <2>2. right \in {3, 1, -1}
    BY <1>1, <1>4, <2>1
  <2>. QED  BY <1>1, <2>2 DEF PairFrom, v
<1>. QED  BY <1>1, <1>2, <1>3, <1>4

\* Other columns add their modules to those met.
AddUp(X, Y, L, F) ==
  /\ Cardinality((X \X L) \ F) \in Nat /\ Cardinality((Y \X L) \ F) \in Nat
  /\ Cardinality(((X \cup Y) \X L) \ F)
       = Cardinality((X \X L) \ F) + Cardinality((Y \X L) \ F)

\* Columns that are apart have no module in common.
LEMMA MetMore ==
  ASSUME NEW L, IsFiniteSet(L), NEW X \in SUBSET L, NEW Y \in SUBSET L, Apart(X, Y), NEW F
  PROVE  AddUp(X, Y, L, F)
<1>1. IsFiniteSet(X) /\ IsFiniteSet(Y)
  BY FS_Subset
<1>2. IsFiniteSet(X \X L) /\ IsFiniteSet(Y \X L)
  BY <1>1, FS_Product
<1>3. IsFiniteSet((X \X L) \ F) /\ IsFiniteSet((Y \X L) \ F)
  BY <1>2, FS_Difference
<1>4. Apart((X \X L) \ F, (Y \X L) \ F)
  BY DEF Apart
<1>5. ((X \cup Y) \X L) \ F = ((X \X L) \ F) \cup ((Y \X L) \ F)
  OBVIOUS
<1>6. Cardinality((X \X L) \ F) \in Nat /\ Cardinality((Y \X L) \ F) \in Nat
  BY <1>3, FS_CardinalityType
<1>. QED  BY <1>3, <1>4, <1>5, <1>6, DisjointCount DEF AddUp

\* The smaller of two, whichever it is.
LEMMA Smaller ==
  ASSUME NEW a \in Int, NEW b \in Int
  PROVE  Min({a, b}) = IF a <= b THEN a ELSE b
<1>1. CASE a <= b
  BY <1>1, OfTwo
<1>2. CASE ~(a <= b)
  <2>1. Min({b, a}) = b
    BY <1>2, OfTwo
  <2>2. {b, a} = {a, b}
    OBVIOUS
  <2>. QED  BY <1>2, <2>1, <2>2
<1>. QED  BY <1>1, <1>2

\* Bits are written into modules until one or the other runs out, whatever the portions.
LEMMA PlacedMore ==
  ASSUME NEW a \in Nat, NEW b \in Nat, NEW c \in Nat
  PROVE  Min({Min({a, c}) + b, c}) = Min({a + b, c})
<1>. DEFINE m == Min({a, c})
<1>1. m = IF a <= c THEN a ELSE c
  BY Smaller
<1>2. Min({a + b, c}) = IF a + b <= c THEN a + b ELSE c
  <2>1. a + b \in Int /\ c \in Int
    OBVIOUS
  <2>. QED  BY <2>1, Smaller
<1>. HIDE DEF m
<1>3. m \in Int /\ m + b \in Int /\ c \in Int
  BY <1>1
<1>4. Min({m + b, c}) = IF m + b <= c THEN m + b ELSE c
  BY <1>3, Smaller
<1>5. Min({m + b, c}) = Min({a + b, c})
  BY <1>1, <1>2, <1>4
<1>. QED  BY <1>5 DEF m

\* What has been met and written stays in step with the columns behind the scan.
LEMMA CountStep ==
  ASSUME ChoiceInv, RowsInv, ScanInv, CountInv, [QrNext]_qrVars
  PROVE  CountInv'
<1>. DEFINE Before == {"fit", "boost", "segments", "patterns", "divisor", "blocks", "failed"}
<1>1. version \in 1..MaxVersion /\ level \in 0..3
  BY DEF ChoiceInv
<1>2. IsFiniteSet(Lines) /\ \A c \in Lines : c \in Nat
  <2>1. Size(version) - 1 \in Int
    BY <1>1 DEF Size, MaxVersion
  <2>. QED  BY <2>1, FS_Interval DEF Lines
<1>3. ASSUME stage \in Before, stage' \in Before, UNCHANGED <<visited, placed>>
      PROVE  CountInv'
  BY <1>3 DEF CountInv
<1>4. CASE TakeVersion \/ NextVersion \/ TooLong \/ BoostLevel \/ AppendSegments
  <2>1. UNCHANGED <<visited, placed>> /\ stage \in Before /\ stage' \in Before
    BY <1>4 DEF TakeVersion, NextVersion, TooLong, BoostLevel, AppendSegments, scanVars
  <2>. QED  BY <1>3, <2>1
<1>5. CASE DrawPattern \/ DivideByRoot \/ FeedByte \/ InterleaveRow
  <2>1. UNCHANGED <<visited, placed>> /\ stage \in Before /\ stage' \in Before
    BY <1>5 DEF DrawPattern, DivideByRoot, FeedByte, InterleaveRow, scanVars
  <2>. QED  BY <1>3, <2>1
<1>6. CASE AddEccAndInterleave
  <2>1. /\ stage = "blocks" /\ stage' = "scan" /\ right' = Size(version) - 1
        /\ UNCHANGED <<version, isFunction, codewords, visited, placed>>
    BY <1>6 DEF AddEccAndInterleave, fitVars, drawVars, eccVars
  <2>2. visited = 0 /\ placed = 0 /\ Len(codewords) \in Nat
    BY <2>1 DEF CountInv, RowsInv
  <2>3. Behind' = {}
    BY <1>1, <2>1 DEF Behind, Lines, Size, MaxVersion
  <2>4. Met(Behind)' = 0
    <3>1. Met(Behind)' = Cardinality((Behind' \X Lines') \ isFunction')
      BY DEF Met
    <3>2. (Behind' \X Lines') \ isFunction' = {}
      BY <2>3
    <3>. QED  BY <3>1, <3>2, FS_EmptySet
  <2>5. Min({0, 8 * Len(codewords)}) = 0
    <3>1. 0 \in Int /\ 8 * Len(codewords) \in Int /\ 0 <= 8 * Len(codewords)
      BY <2>2
    <3>. QED  BY <3>1, Smaller
  <2>. QED  BY <2>1, <2>2, <2>4, <2>5 DEF CountInv
<1>7. CASE ScanColumns
  <2>. DEFINE r == PairFrom(right)
              pair == {r - 1, r}
              n == Cardinality((pair \X Lines) \ isFunction)
  <2>1. /\ stage = "scan" /\ stage' = "scan" /\ right >= 1 /\ right' = r - 2
        /\ visited' = visited + n /\ placed' = Min({placed + n, 8 * Len(codewords)})
        /\ UNCHANGED <<version, isFunction, codewords>>
    BY <1>7 DEF ScanColumns, fitVars, drawVars, eccVars, Lines
  <2>2. /\ version \in Nat /\ right \in Int
        /\ r \in (1..(4 * version + 16)) \ {6, 7}
        /\ right = r \/ (right = 6 /\ r = 5)
    BY <2>1, NextPair
  <2>. HIDE DEF r
  <2>3. Lines' = Lines /\ Lines = 0..(4 * version + 16)
    BY <2>1, <2>2 DEF Lines, Size
  <2>4. /\ Behind \in SUBSET Lines /\ pair \in SUBSET Lines /\ Apart(Behind, pair)
        /\ Behind' = Behind \cup pair
    <3>1. pair \in SUBSET Lines
      BY <2>2, <2>3
    <3>2. Apart(Behind, pair)
      BY <2>2 DEF Apart, Behind
    <3>3. ASSUME NEW c \in Lines
          PROVE  c > r - 2 /\ c # 6 <=> (c > right /\ c # 6) \/ c \in pair
      BY <1>2, <2>2
    <3>4. Behind' = {c \in Lines : c > r - 2 /\ c # 6}
      BY <2>1, <2>3 DEF Behind
    <3>5. Behind = {c \in Lines : c > right /\ c # 6}
      BY DEF Behind
    <3>. HIDE DEF pair
    <3>. QED  BY <3>1, <3>2, <3>3, <3>4, <3>5
  <2>. HIDE DEF pair
  <2>5. /\ Met(Behind) \in Nat /\ n \in Nat
        /\ Cardinality(((Behind \cup pair) \X Lines) \ isFunction) = Met(Behind) + n
    <3>1. n = Cardinality((pair \X Lines) \ isFunction)
      BY DEF n
    <3>. HIDE DEF n
    <3>2. AddUp(Behind, pair, Lines, isFunction)
      BY <1>2, <2>4, MetMore
    <3>. QED  BY <3>1, <3>2 DEF Met, AddUp
  <2>6. Met(Behind)' = Met(Behind) + n
    <3>1. Met(Behind)' = Cardinality((Behind' \X Lines') \ isFunction')
      BY DEF Met
    <3>. QED  BY <2>1, <2>3, <2>4, <2>5, <3>1
  <2>7. /\ visited = Met(Behind) /\ placed = Min({visited, 8 * Len(codewords)})
        /\ Len(codewords) \in Nat
    BY <2>1 DEF CountInv, RowsInv
  <2>. HIDE DEF n
  <2>8. placed' = Min({visited', 8 * Len(codewords)})
    <3>1. visited \in Nat /\ 8 * Len(codewords) \in Nat
      BY <2>5, <2>7
    <3>. QED  BY <2>1, <2>5, <2>7, <3>1, PlacedMore
  <2>. QED  BY <2>1, <2>6, <2>7, <2>8 DEF CountInv
<1>8. CASE StartTrials
  <2>1. /\ stage = "scan" /\ stage' = "trial" /\ right < 1
        /\ UNCHANGED <<version, isFunction, codewords, visited, placed>>
    BY <1>8 DEF StartTrials, fitVars, drawVars, eccVars, scanVars
  <2>2. Behind = Lines \ {6}
    <3>1. right = -1
      BY <2>1, NextPair
    <3>. QED  BY <1>2, <3>1 DEF Behind
  <2>3. (Met(Lines \ {6}))' = Met(Behind)
    <3>1. (Met(Lines \ {6}))' = Cardinality(((Lines' \ {6}) \X Lines') \ isFunction')
      BY DEF Met
    <3>2. Lines' = Lines
      BY <2>1 DEF Lines
    <3>. QED  BY <2>1, <2>2, <3>1, <3>2 DEF Met
  <2>4. Len(codewords) <= RawCodewords(version)
    <3>. DEFINE b == NumBlocks(version, level)
                e == EccLen(version, level)
                d == ShortData(version, level)
                s == ShortBlocks(version, level)
                raw == RawCodewords(version)
    <3>1. NumDataCodewords(version, level) >= 1
      BY <2>1, RoomForData
    <3>2. /\ b \in Nat \ {0} /\ e \in Nat \ {0} /\ s \in 1..b /\ d \in Nat
          /\ Rows(version, level) = d + e
          /\ NumDataCodewords(version, level) = d * b + b - s
      BY <1>1, <3>1, BlockSizes
    <3>3. raw \in Int /\ NumDataCodewords(version, level) = raw - e * b
      BY <1>1, WholeCodewords DEF NumDataCodewords
    <3>4. /\ row = Rows(version, level)
          /\ Len(codewords) = row * b - (IF row <= d THEN 0 ELSE s)
      BY <2>1 DEF RowsInv
    <3>. HIDE DEF b, e, d, s, raw
    <3>5. Len(codewords) = (d + e) * b - s
      BY <3>2, <3>4
    <3>6. (d + e) * b = d * b + e * b /\ d * b \in Nat /\ e * b \in Nat
      BY <3>2
    <3>7. Len(codewords) <= raw
      BY <3>2, <3>3, <3>5, <3>6
    <3>. QED  BY <3>7 DEF raw
  <2>5. visited = Met(Behind) /\ placed = Min({visited, 8 * Len(codewords)})
    BY <2>1 DEF CountInv
  <2>. QED  BY <2>1, <2>3, <2>4, <2>5 DEF CountInv
<1>9. CASE TryMask \/ UndoMask
  <2>1. /\ stage \in {"trial", "undo"} /\ stage' \in {"trial", "undo"}
        /\ UNCHANGED <<version, isFunction, codewords, visited, placed>>
    BY <1>9 DEF TryMask, UndoMask, fitVars, drawVars, eccVars, scanVars
  <2>2. (Met(Lines \ {6}))' = Met(Lines \ {6})
    BY <2>1 DEF Met, Lines
  <2>. QED  BY <2>1, <2>2 DEF CountInv
<1>10. CASE FinishSymbol
  <2>1. stage' = "done"
    BY <1>10 DEF FinishSymbol
  <2>. QED  BY <2>1 DEF CountInv
<1>11. CASE UNCHANGED qrVars
  <2>1. UNCHANGED <<stage, version, isFunction, codewords, visited, placed, right>>
    BY <1>11 DEF qrVars, fitVars, drawVars, eccVars, scanVars
  <2>2. (Met(Lines \ {6}))' = Met(Lines \ {6}) /\ Met(Behind)' = Met(Behind)
    BY <2>1 DEF Met, Lines, Behind
  <2>. QED  BY <2>1, <2>2 DEF CountInv
<1>. QED  BY <1>4, <1>5, <1>6, <1>7, <1>8, <1>9, <1>10, <1>11 DEF QrNext

-----------------------------------------------------------------------------
\* The six invariants hold together, for every payload, level and ranking of the masks.
THEOREM QrInvariant == QrSpec => []QrInv
<1>1. QrInit => QrInv
  <2>. SUFFICES ASSUME QrInit
                PROVE  QrInv
    OBVIOUS
  <2>1. level \in 0..3 /\ 1 \in 1..MaxVersion
    BY QrAssumption DEF QrInit, MaxVersion
  <2>2. ChoiceInv
    BY <2>1 DEF QrInit, ChoiceInv, NoSmallerFits, SmallestStrongestSymbol
  <2>3. ScanInv
    BY DEF QrInit, ScanInv
  <2>4. MaskInv
    BY DEF QrInit, MaskInv, BestOf
  <2>5. RowsInv
    BY DEF QrInit, RowsInv
  <2>6. DrawInv
    BY DEF QrInit, DrawInv
  <2>7. CountInv
    BY DEF QrInit, CountInv
  <2>. QED  BY <2>2, <2>3, <2>4, <2>5, <2>6, <2>7 DEF QrInv
<1>2. QrInv /\ [QrNext]_qrVars => QrInv'
  BY ChoiceStep, InterleaveStep, ScanStep, MaskStep, DrawStep, CountStep DEF QrInv
<1>. QED  BY <1>1, <1>2, PTL DEF QrSpec

\* Every payload gets the smallest version that holds it, the strongest level that this
\* version still has room for, and codewords that fill the capacity exactly.
THEOREM QrSmallestStrongestSymbol == QrSpec => []SmallestStrongestSymbol
<1>1. QrInv => SmallestStrongestSymbol
  BY DEF QrInv, ChoiceInv
<1>. QED  BY <1>1, QrInvariant, PTL

\* A sequence of different elements has as many as it is long.
LEMMA DrawnOnce ==
  ASSUME NEW S, NEW s \in Seq(S),
         \A j \in 1..Len(s) : \A k \in 1..Len(s) : s[j] = s[k] => j = k
  PROVE  Cardinality(ToSet(s)) = Len(s)
<1>1. Len(s) \in Nat /\ DOMAIN s = 1..Len(s)
  OBVIOUS
<1>2. s \in [1..Len(s) -> ToSet(s)]
  BY <1>1 DEF ToSet
<1>3. s \in Injection(1..Len(s), ToSet(s))
  BY <1>1, <1>2 DEF Injection, IsInjective
<1>4. s \in Surjection(1..Len(s), ToSet(s))
  <2>1. \A t \in ToSet(s) : \E k \in 1..Len(s) : s[k] = t
    BY <1>1 DEF ToSet
  <2>. QED  BY <1>2, <2>1 DEF Surjection
<1>5. ExistsBijection(1..Len(s), ToSet(s))
  BY <1>3, <1>4 DEF ExistsBijection, Bijection
<1>. QED  BY <1>1, <1>5, FS_CountingElements

\* The codewords drawn before the first one behind the data are those of data: all rows of
\* the short blocks' data, and what the long ones have of the row after them.
LEMMA DataPlaces ==
  ASSUME NEW b \in Nat \ {0}, NEW s \in 1..b, NEW d \in Nat,
         NEW j \in 0..(b - 1), NEW i \in Nat, NEW k \in Nat \ {0},
         Place(b, i, j) = Slot(b, s, d, k)
  PROVE  k <= d * b + b - s <=> i < d + (IF j >= s THEN 1 ELSE 0)
<1>1. d * b \in Nat /\ i * b \in Nat /\ i * b + j = k - 1 + (IF k <= d * b THEN 0 ELSE s)
  BY DEF Place, Slot
<1>2. CASE i < d
  <2>1. (d - i - 1) * b \in Nat /\ (d - i - 1) * b = d * b - i * b - b
    BY <1>2
  <2>. QED  BY <1>1, <1>2, <2>1
<1>3. CASE i = d
  BY <1>1, <1>3
<1>4. CASE i > d
  <2>1. (i - d - 1) * b \in Nat /\ (i - d - 1) * b = i * b - d * b - b
    BY <1>4
  <2>. QED  BY <1>1, <1>4, <2>1
<1>. QED  BY <1>2, <1>3, <1>4

\* A data codeword, its turn, and that this is before the first one behind the data.
IsData(s, d, i, j) == i < d + (IF j >= s THEN 1 ELSE 0)
TurnOf(b, s, d, i, j) == Place(b, i, j) + 1 - (IF i < d THEN 0 ELSE s)

\* A place is that of a data codeword exactly if its turn is one of the first.
LEMMA DataTurn ==
  ASSUME NEW b \in Nat \ {0}, NEW s \in 1..b, NEW d \in Nat,
         NEW j \in 0..(b - 1), NEW i \in Nat, IsData(s, d, i, j)
  PROVE  /\ TurnOf(b, s, d, i, j) \in 1..(d * b + b - s)
         /\ Place(b, i, j) = Slot(b, s, d, TurnOf(b, s, d, i, j))
<1>. DEFINE p == i * b + j
            k == TurnOf(b, s, d, i, j)
<1>1. d * b \in Nat /\ i * b \in Nat /\ p \in Nat
  <2>1. i * b \in Nat /\ j \in Nat
    OBVIOUS
  <2>. QED  BY <2>1
<1>2. CASE i < d
  <2>1. (d - i - 1) * b \in Nat /\ (d - i - 1) * b = d * b - i * b - b
    BY <1>2
  <2>2. p + 1 <= d * b /\ k = p + 1
    BY <1>1, <1>2, <2>1 DEF Place, TurnOf
  <2>. HIDE DEF p
  <2>3. p + 1 \in 1..(d * b + b - s) /\ p = (p + 1) - 1 + 0
    BY <1>1, <2>2
  <2>. QED  BY <2>2, <2>3 DEF p, Place, Slot
<1>3. CASE ~(i < d)
  <2>1. i = d /\ j >= s
    BY <1>3 DEF IsData
  <2>2. p = d * b + j /\ k = p + 1 - s
    BY <1>1, <2>1 DEF Place, TurnOf
  <2>. HIDE DEF p
  <2>3. /\ p + 1 - s \in 1..(d * b + b - s) /\ ~(p + 1 - s <= d * b)
        /\ p = (p + 1 - s) - 1 + s
    BY <1>1, <2>1, <2>2
  <2>. QED  BY <2>2, <2>3 DEF p, Place, Slot
<1>. QED  BY <1>2, <1>3

\* Blocks f and indices g of codewords that take these places in turn.
InTurn(f, g, len, b, s, d, n) ==
  /\ n \in 0..len /\ n = d * b + b - s
  /\ \A k \in 1..len : Place(b, g[k], f[k]) = Slot(b, s, d, k)

\* They are in order, and the first n are those of data.
InOrder(f, g, len, b, s, d, n) ==
  /\ \A k \in 1..len : \A m \in 1..len : k < m =>
       g[k] < g[m] \/ (g[k] = g[m] /\ f[k] < f[m])
  /\ \A k \in 1..n : g[k] < d + (IF f[k] >= s THEN 1 ELSE 0)
  /\ \A j \in 0..(b - 1) : \A i \in Nat : i < d + (IF j >= s THEN 1 ELSE 0) =>
       \E k \in 1..n : f[k] = j /\ g[k] = i

\* Codewords drawn in turn are in the standard's order.
LEMMA PlacesInOrder ==
  ASSUME NEW b \in Nat \ {0}, NEW s \in 1..b, NEW d \in Nat, NEW n, NEW len \in Nat,
         NEW f \in [1..len -> 0..(b - 1)], NEW g \in [1..len -> Nat],
         InTurn(f, g, len, b, s, d, n)
  PROVE  InOrder(f, g, len, b, s, d, n)
<1>1. b \in Nat /\ d * b \in Nat
  OBVIOUS
<1>. /\ n \in Nat /\ n = d * b + b - s /\ n <= len
     /\ \A k \in 1..len : Place(b, g[k], f[k]) = Slot(b, s, d, k)
  BY DEF InTurn
<1>2. ASSUME NEW k \in 1..len, NEW m \in 1..len, k < m
      PROVE  g[k] < g[m] \/ (g[k] = g[m] /\ f[k] < f[m])
  <2>1. Slot(b, s, d, k) < Slot(b, s, d, m)
    BY <1>1, <1>2 DEF Slot
  <2>2. Place(b, g[k], f[k]) < Place(b, g[m], f[m])
    BY <2>1
  <2>3. f[k] \in 0..(b - 1) /\ g[k] \in Nat /\ f[m] \in 0..(b - 1) /\ g[m] \in Nat
    OBVIOUS
  <2>. QED  BY <1>1, <2>2, <2>3, LaterPlace
<1>3. ASSUME NEW k \in 1..n
      PROVE  g[k] < d + (IF f[k] >= s THEN 1 ELSE 0)
  <2>1. k \in 1..len /\ k \in Nat \ {0} /\ k <= n
    OBVIOUS
  <2>2. f[k] \in 0..(b - 1) /\ g[k] \in Nat /\ Place(b, g[k], f[k]) = Slot(b, s, d, k)
    BY <2>1
  <2>. QED  BY <2>1, <2>2, DataPlaces
<1>4. ASSUME NEW j \in 0..(b - 1), NEW i \in Nat, i < d + (IF j >= s THEN 1 ELSE 0)
      PROVE  \E k \in 1..n : f[k] = j /\ g[k] = i
  <2>. DEFINE k == TurnOf(b, s, d, i, j)
  <2>1. k \in 1..n /\ Place(b, i, j) = Slot(b, s, d, k)
    <3>1. IsData(s, d, i, j)
      BY <1>4 DEF IsData
    <3>2. k \in 1..(d * b + b - s) /\ Place(b, i, j) = Slot(b, s, d, k)
      BY <3>1, DataTurn
    <3>. QED  BY <3>2
  <2>. HIDE DEF k
  <2>2. k \in 1..len
    BY <2>1
  <2>3. /\ f[k] \in 0..(b - 1) /\ g[k] \in Nat
        /\ Place(b, g[k], f[k]) = Place(b, i, j)
    BY <2>1, <2>2
  <2>4. g[k] = i /\ f[k] = j
    BY <1>1, <2>3, SamePlace
  <2>. QED  BY <2>1, <2>4
<1>. QED  BY <1>2, <1>3, <1>4 DEF InOrder

\* The elements of a prefix.
LEMMA FirstOnes ==
  ASSUME NEW S, NEW c \in Seq(S), NEW n \in Nat, n <= Len(c)
  PROVE  ToSet(SubSeq(c, 1, n)) = {c[k] : k \in 1..n}
<1>1. \A k \in 1..n : c[k] \in S
  OBVIOUS
<1>2. /\ SubSeq(c, 1, n) \in Seq(S) /\ Len(SubSeq(c, 1, n)) = n
      /\ \A k \in 1..n : SubSeq(c, 1, n)[k] = c[k]
  OBVIOUS
<1>3. DOMAIN SubSeq(c, 1, n) = 1..n
  BY <1>2
<1>. QED  BY <1>2, <1>3 DEF ToSet

\* A codeword has a block and an index.
LEMMA CodewordParts ==
  ASSUME NEW c \in Seq(Nat \X Nat), NEW k \in 1..Len(c)
  PROVE  c[k][1] \in Nat /\ c[k][2] \in Nat /\ c[k] = <<c[k][1], c[k][2]>>
<1>1. c[k] \in Nat \X Nat
  OBVIOUS
<1>. QED  BY <1>1

\* Codewords in order are different.
LEMMA OrderedOnce ==
  ASSUME NEW c \in Seq(Nat \X Nat),
         \A k \in 1..Len(c) : \A m \in 1..Len(c) : k < m =>
           c[k][2] < c[m][2] \/ (c[k][2] = c[m][2] /\ c[k][1] < c[m][1])
  PROVE  Cardinality(ToSet(c)) = Len(c)
<1>1. ASSUME NEW k \in 1..Len(c), NEW m \in 1..Len(c), c[k] = c[m]
      PROVE  k = m
  <2>1. c[k][1] \in Int /\ c[k][2] \in Int
    BY CodewordParts
  <2>2. ~(c[k][1] < c[k][1]) /\ ~(c[k][2] < c[k][2])
    BY <2>1
  <2>3. c[m][1] = c[k][1] /\ c[m][2] = c[k][2]
    BY <1>1
  <2>4. ~(k < m)
    BY <2>2, <2>3
  <2>5. ~(m < k)
    BY <2>2, <2>3
  <2>. QED  BY <2>4, <2>5
<1>. QED  BY <1>1, DrawnOnce

\* Whatever the payload, the interleaving draws no codeword twice, and the data codewords
\* exactly and first, in the order of the standard: index by index, block by block.  That
\* all check codewords follow is not said, and where there are short blocks not so.
THEOREM QrDataDrawnInOrder == QrSpec => []DataDrawnInOrder
<1>1. ASSUME QrInv, stage = "scan"
      PROVE  DataDrawnInOrder
  <2>. DEFINE b == NumBlocks(version, level)
              d == ShortData(version, level)
              s == ShortBlocks(version, level)
              e == EccLen(version, level)
              n == bits.total \div 8
              len == Len(codewords)
              f == [k \in 1..len |-> codewords[k][1]]
              g == [k \in 1..len |-> codewords[k][2]]
              data == {<<j, i>> : j \in 0..(b - 1), i \in 0..d}
              first == {codewords[k] : k \in 1..n}
              inBlocks == {c \in data : c[2] < d + (IF c[1] >= s THEN 1 ELSE 0)}
  <2>1. /\ level \in 0..3 /\ version \in 1..MaxVersion
        /\ NumDataCodewords(version, level) >= 1
        /\ n = NumDataCodewords(version, level)
    BY <1>1, RoomForData DEF QrInv
  <2>2. /\ b \in Nat \ {0} /\ e \in Nat \ {0} /\ s \in 1..b /\ d \in Nat
        /\ Rows(version, level) = d + e
        /\ n = d * b + b - s
        /\ \A j \in Int : BlockDataLen(version, level, j)
                            = d + (IF j >= s THEN 1 ELSE 0)
    BY <2>1, BlockSizes
  <2>3. /\ row = Rows(version, level) /\ codewords \in Seq(Nat \X Nat)
        /\ len = row * b - (IF row <= d THEN 0 ELSE s)
        /\ \A k \in DOMAIN codewords :
             /\ codewords[k][1] < b
             /\ Place(b, codewords[k][2], codewords[k][1]) = Slot(b, s, d, k)
    BY <1>1 DEF QrInv, RowsInv, SlotOf, Place, Slot
  <2>4. len \in Nat /\ DOMAIN codewords = 1..len
    BY <2>3
  <2>. HIDE DEF b, d, s, e, n
  <2>5. n \in Nat \ {0} /\ n <= len
    <3>1. n \in Int /\ n >= 1
      BY <2>1, <2>2
    <3>2. /\ d * b \in Nat /\ (e - 1) * b \in Nat
          /\ (d + e) * b = d * b + (e - 1) * b + b
      BY <2>2
    <3>3. len = (d + e) * b - s
      BY <2>2, <2>3
    <3>. QED  BY <2>2, <3>1, <3>2, <3>3
  <2>6. \A k \in 1..len :
          /\ codewords[k][1] \in 0..(b - 1) /\ codewords[k][2] \in Nat
          /\ codewords[k] = <<codewords[k][1], codewords[k][2]>>
    <3>1. ASSUME NEW k \in 1..len
          PROVE  /\ codewords[k][1] \in Nat /\ codewords[k][2] \in Nat
                 /\ codewords[k] = <<codewords[k][1], codewords[k][2]>>
                 /\ codewords[k][1] < b
      BY <2>3, <2>4, CodewordParts
    <3>. QED  BY <2>2, <3>1
  <2>7. /\ f \in [1..len -> 0..(b - 1)] /\ g \in [1..len -> Nat]
        /\ \A k \in 1..len : f[k] = codewords[k][1] /\ g[k] = codewords[k][2]
    BY <2>6
  <2>8. \A k \in 1..len : Place(b, g[k], f[k]) = Slot(b, s, d, k)
    BY <2>3, <2>4, <2>7
  <2>. HIDE DEF f, g, len
  <2>9. /\ \A k \in 1..len : \A m \in 1..len : k < m =>
             g[k] < g[m] \/ (g[k] = g[m] /\ f[k] < f[m])
        /\ \A k \in 1..n : g[k] < d + (IF f[k] >= s THEN 1 ELSE 0)
        /\ \A j \in 0..(b - 1) : \A i \in Nat : i < d + (IF j >= s THEN 1 ELSE 0) =>
             \E k \in 1..n : f[k] = j /\ g[k] = i
    <3>1. InTurn(f, g, len, b, s, d, n)
      BY <2>2, <2>4, <2>5, <2>8 DEF InTurn
    <3>2. /\ b \in Nat \ {0} /\ s \in 1..b /\ d \in Nat /\ len \in Nat
          /\ f \in [1..len -> 0..(b - 1)] /\ g \in [1..len -> Nat]
      BY <2>2, <2>4, <2>7
    <3>3. InOrder(f, g, len, b, s, d, n)
      BY <3>1, <3>2, PlacesInOrder
    <3>. QED  BY <3>3 DEF InOrder
  <2>10. \A k \in 1..len : \A m \in 1..len : k < m =>
           \/ codewords[k][2] < codewords[m][2]
           \/ codewords[k][2] = codewords[m][2] /\ codewords[k][1] < codewords[m][1]
    BY <2>7, <2>9
  <2>11. Cardinality(ToSet(codewords)) = Len(codewords)
    BY <2>3, <2>10, OrderedOnce DEF len
  <2>12. \A k \in 1..(n - 1) :
           \/ codewords[k][2] < codewords[k + 1][2]
           \/ codewords[k][2] = codewords[k + 1][2] /\ codewords[k][1] < codewords[k + 1][1]
    <3>1. \A k \in 1..(n - 1) : k \in 1..len /\ k + 1 \in 1..len /\ k < k + 1
      BY <2>4, <2>5
    <3>. QED  BY <2>10, <3>1
  <2>13. ToSet(SubSeq(codewords, 1, n)) = first
    BY <2>3, <2>5, FirstOnes DEF len
  <2>14. first = inBlocks
    <3>1. 1..n \subseteq 1..len
      BY <2>4, <2>5
    <3>2. ASSUME NEW x \in first
          PROVE  x \in inBlocks
      <4>1. PICK k \in 1..n : x = codewords[k]
        OBVIOUS
      <4>2. /\ f[k] \in 0..(b - 1) /\ g[k] \in Nat /\ x = <<f[k], g[k]>>
            /\ g[k] < d + (IF f[k] >= s THEN 1 ELSE 0)
        BY <2>6, <2>7, <2>9, <3>1, <4>1
      <4>3. g[k] \in 0..d
        BY <2>2, <4>2
      <4>. QED  BY <4>2, <4>3
    <3>3. ASSUME NEW x \in inBlocks
          PROVE  x \in first
      <4>1. PICK j \in 0..(b - 1), i \in 0..d : x = <<j, i>>
        OBVIOUS
      <4>2. i \in Nat /\ i < d + (IF j >= s THEN 1 ELSE 0)
        BY <4>1
      <4>3. PICK k \in 1..n : f[k] = j /\ g[k] = i
        BY <2>9, <4>2
      <4>4. codewords[k] = x
        BY <2>6, <2>7, <3>1, <4>1, <4>3
      <4>. QED  BY <4>4
    <3>. HIDE DEF first, inBlocks
    <3>. QED  BY <3>2, <3>3
  <2>15. BlockDataLen(version, level, 0) = d
    BY <2>2
  <2>16. inBlocks = {c \in data : c[2] < BlockDataLen(version, level, c[1])}
    <3>1. \A c \in data : c[1] \in Int
      OBVIOUS
    <3>2. \A c \in data : BlockDataLen(version, level, c[1])
                            = d + (IF c[1] >= s THEN 1 ELSE 0)
      BY <2>2, <3>1
    <3>. HIDE DEF data
    <3>. QED  BY <3>2
  <2>17. ToSet(SubSeq(codewords, 1, n))
           = {c \in data : c[2] < BlockDataLen(version, level, c[1])}
    BY <2>13, <2>14, <2>16
  <2>. QED  BY <2>11, <2>12, <2>15, <2>17 DEF DataDrawnInOrder, b, n
<1>2. QrInv => DataDrawnInOrder
  BY <1>1 DEF DataDrawnInOrder
<1>. QED  BY <1>2, QrInvariant, PTL

\* In every version the scan pairs all columns but the timing column, each in one pair,
\* and turns at each pair: the third conjunct of ScanMeetsEveryDataModule.
LEMMA ColumnsPaired ==
  ASSUME QrInv, stage \in {"trial", "undo", "done"}
  PROVE  EveryColumnOnce
<1>1. /\ version \in 1..MaxVersion /\ Len(scanned) = 2 * version + 8
      /\ scanned \in Seq([x : Int, upwards : BOOLEAN])
      /\ \A k \in DOMAIN scanned :
           scanned[k].x = RightColumn(version, k) /\ scanned[k].upwards = (k % 2 = 1)
  BY DEF QrInv, ChoiceInv, ScanInv
<1>2. Size(version) - 1 = 4 * version + 16 /\ (4 * version + 16) \div 2 = 2 * version + 8
  BY <1>1 DEF Size, MaxVersion
<1>3. UNION {{scanned[k].x - 1, scanned[k].x} : k \in DOMAIN scanned}
        = (0..(4 * version + 16)) \ {6}
  BY <1>1, AllColumns
<1>. QED  BY <1>1, <1>2, <1>3 DEF EveryColumnOnce

\* Together: the scan takes every column but the timing column once, for every version.
THEOREM QrEveryColumnOnce ==
  QrSpec => [](stage \in {"trial", "undo", "done"} => EveryColumnOnce)
<1>1. QrInv => (stage \in {"trial", "undo", "done"} => EveryColumnOnce)
  BY ColumnsPaired
<1>. QED  BY <1>1, QrInvariant, PTL

\* The finished symbol has one mask, the first with the smallest penalty, whatever the
\* penalties are: the first conjunct of InformationReadable.
THEOREM QrFirstSmallestMask == QrSpec => [](stage = "done" => FirstSmallestMask)
<1>1. QrInv => (stage = "done" => FirstSmallestMask)
  BY DEF QrInv, MaskInv
<1>. QED  BY <1>1, QrInvariant, PTL

\* In every version a pattern leaves the modules of the earlier ones as they are, but for
\* a finder that cuts a timing line off; the trials change format modules only.
THEOREM QrPatternsKeepTheirColour == QrSpec => PatternsKeepTheirColour
<1>1. QrInv /\ [QrNext]_qrVars => KeepsColours
  BY DrawStep DEF QrInv
<1>2. QrInv /\ [QrNext]_qrVars =>
        [\A m \in isFunction \cap ((black \ black') \cup (black' \ black)) :
           IF stage = "patterns" THEN Head(todo).kind = "finder" /\ 6 \in {m[1], m[2]}
                                 ELSE m \in FormatCells(version)]_qrVars
  BY <1>1 DEF KeepsColours
<1>. QED  BY <1>2, QrInvariant, PTL DEF QrSpec, PatternsKeepTheirColour

\* In every version the patterns leave as many modules as getNumRawDataModules counts,
\* the scan meets each of them once, and writes all the codewords.
THEOREM QrScanMeetsEveryDataModule == QrSpec => []ScanMeetsEveryDataModule
<1>1. ASSUME QrInv, stage = "trial"
      PROVE  /\ Size(version) * Size(version) - Cardinality(isFunction)
                  = NumRawDataModules(version)
             /\ visited = NumRawDataModules(version)
             /\ EveryColumnOnce
             /\ placed = 8 * Len(codewords)
  <2>. DEFINE v == version
              F == FunctionModules(v)
              raw == NumRawDataModules(v)
  <2>1. v \in 1..MaxVersion
    BY <1>1 DEF QrInv, ChoiceInv
  <2>2. isFunction = F
    BY <1>1 DEF QrInv, DrawInv, FunctionModules
  <2>3. IsFiniteSet(F) /\ Size(v) * Size(v) - Cardinality(F) = raw
    BY <2>1, FunctionModulesCount
  <2>4. EveryColumnOnce
    BY <1>1, ColumnsPaired
  <2>5. Lines = 0..(Size(v) - 1) /\ Board(v) = Lines \X Lines
    BY DEF Lines, Board
  <2>6. ((Lines \ {6}) \X Lines) \ F = Board(v) \ F
    <3>1. \A m \in Board(v) : m[1] = 6 => m \in F
      BY <2>1, PatternsCover DEF OnTiming
    <3>. QED  BY <2>5, <3>1
  <2>7. IsFiniteSet(Board(v)) /\ Cardinality(Board(v)) = Size(v) * Size(v)
    <3>1. 0 \in Int /\ Size(v) - 1 \in Int /\ Size(v) \in Nat
          /\ Size(v) = (Size(v) - 1) - 0 + 1
      BY <2>1 DEF Size, MaxVersion
    <3>2. IsFiniteSet(Lines) /\ Cardinality(Lines) = Size(v)
      BY <2>5, <3>1, IntervalCount, Zenon
    <3>3. /\ IsFiniteSet(Lines \X Lines)
          /\ Cardinality(Lines \X Lines) = Cardinality(Lines) * Cardinality(Lines)
      BY <3>2, FS_Product
    <3>. QED  BY <2>5, <3>2, <3>3
  <2>8. Cardinality(Board(v) \ F) = raw
    <3>1. F \subseteq Board(v)
      BY <2>1, PatternsCover
    <3>2. F \cap Board(v) = F /\ Board(v) \cap F = F
      BY <3>1
    <3>3. Cardinality(Board(v) \ F) = Cardinality(Board(v)) - Cardinality(Board(v) \cap F)
      BY <2>7, FS_Difference
    <3>. QED  BY <2>3, <2>7, <3>2, <3>3
  <2>9. visited = raw
    BY <1>1, <2>2, <2>6, <2>8 DEF QrInv, CountInv, Met
  <2>10. placed = 8 * Len(codewords)
    <3>1. /\ placed = Min({visited, 8 * Len(codewords)})
          /\ Len(codewords) <= RawCodewords(v)
      BY <1>1 DEF QrInv, CountInv
    <3>2. raw \in Nat
      <4>1. IsFiniteSet(Board(v) \ F)
        BY <2>7, FS_Difference
      <4>. QED  BY <2>8, <4>1, FS_CardinalityType
    <3>3. RawCodewords(v) = raw \div 8
      BY DEF RawCodewords
    <3>4. Len(codewords) \in Nat
      BY <1>1 DEF QrInv, RowsInv
    <3>. HIDE DEF raw, v
    <3>5. 8 * Len(codewords) <= raw /\ 8 * Len(codewords) \in Int
      BY <3>1, <3>2, <3>3, <3>4
    <3>. QED  BY <2>9, <3>1, <3>2, <3>5, Smaller
  <2>. QED  BY <2>2, <2>3, <2>4, <2>9, <2>10
<1>2. QrInv => ScanMeetsEveryDataModule
  BY <1>1 DEF ScanMeetsEveryDataModule
<1>. QED  BY <1>2, QrInvariant, PTL

\* In every version, level and mask the finished symbol shows the format word in both places
\* and, from version 7, the version word, whatever has been drawn around them: the second
\* conjunct of InformationReadable.
THEOREM QrWordsDrawn == QrSpec => [](stage = "done" => WordsDrawn)
<1>1. ASSUME QrInv, stage = "done"
      PROVE  WordsDrawn
  <2>. DEFINE v == version
              p == Pattern("version", 0, 0)
  <2>1. v \in 1..MaxVersion
    BY <1>1 DEF QrInv, ChoiceInv
  <2>2. FormatDrawn(mask)
    BY <1>1 DEF QrInv, DrawInv
  <2>3. \A copy \in 1..2, i \in 0..14 :
          FormatModule(v, copy, i) \in black <=> Bit(FormatBits(level, mask), i) = 1
    <3>1. \A copy \in 1..2, i \in 0..14 : FormatModule(v, copy, i) \in FormatCells(v)
      BY DEF FormatCells
    <3>2. \A copy \in 1..2, i \in 0..14 :
            FormatModule(v, copy, i) \in FormatBlack(v, level, mask)
              <=> Bit(FormatBits(level, mask), i) = 1
      BY <2>1, FormatWords
    <3>. QED  BY <2>2, <3>1, <3>2 DEF FormatDrawn
  <2>4. HasColours(p) /\ p.kind = "version"
    <3>1. /\ Turns(v) \in Nat /\ DOMAIN Patterns(v) = 1..(Turns(v) + 6)
          /\ Patterns(v)[Turns(v) + 6] = p
      BY <2>1, PatternList
    <3>2. p.kind = "version"
      BY DEF Pattern
    <3>3. Turns(v) + 6 \in DOMAIN Patterns(v)
      BY <3>1
    <3>4. HasColours(Patterns(v)[Turns(v) + 6])
            \/ Patterns(v)[Turns(v) + 6].kind = "format"
      BY <1>1, <3>3 DEF QrInv, DrawInv
    <3>. HIDE DEF p
    <3>. QED  BY <3>1, <3>2, <3>4
  <2>5. ASSUME v >= 7, NEW copy \in 1..2, NEW i \in 0..17
        PROVE  VersionModule(v, copy, i) \in black <=> Bit(VersionBits(v), i) = 1
    <3>1. Cells(p, v) = {VersionModule(v, c, k) : c \in 1..2, k \in 0..17}
      BY <2>1, <2>5, VersionWords
    <3>2. VersionModule(v, copy, i) \in Cells(p, v)
      BY <3>1
    <3>3. VersionModule(v, copy, i) \in Black(p, v, level) <=> Bit(VersionBits(v), i) = 1
      BY <2>1, <2>5, VersionWords
    <3>. HIDE DEF p
    <3>. QED  BY <2>4, <3>2, <3>3 DEF HasColours
  <2>. QED  BY <2>3, <2>5 DEF WordsDrawn
<1>2. QrInv => (stage = "done" => WordsDrawn)
  BY <1>1
<1>. QED  BY <1>2, QrInvariant, PTL
=============================================================================
