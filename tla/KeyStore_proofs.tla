--------------------------- MODULE KeyStore_proofs ---------------------------
(***************************************************************************)
(* Theorems about KeyStore, for any threads, phones, keys, credentials and *)
(* limit.  Everything but RevocationPermanent also holds when a Save may   *)
(* be interrupted.                                                         *)
(***************************************************************************)
EXTENDS KeyStore, PhoneRegistry_proofs

\* The invariant holds before the first start.
LEMMA StoreInit == Init => StoreInv
<1>. SUFFICES ASSUME Init PROVE StoreInv
  OBVIOUS
<1>. USE DEF Init
<1>1. GoodRegistry(EmptyRegistry, {})
  BY EmptyRegistryGood
<1>2. EmptyImage \in Image
  BY <1>1, KeyStoreAssumption DEF EmptyImage, Image, GoodRegistry
<1>3. TypeOK
  <2>1. pairedWith \in [PhoneIds -> 0..MaxIdentities]
    BY KeyStoreAssumption
  <2>2. 0 \in 0..MaxIdentities
    BY KeyStoreAssumption
  <2>. QED  BY <1>1, <1>2, <2>1, <2>2 DEF TypeOK, GoodRegistry
<1>4. GoodRegistries
  BY <1>1 DEF GoodRegistries, EmptyImage
<1>5. OneIdentity /\ Stopped /\ Committed
  BY DEF OneIdentity, Stopped, Committed, EmptyImage, EmptyRegistry, TrustedIds
<1>6. QuiescentVaultIsCurrent
  BY DEF QuiescentVaultIsCurrent
<1>. QED  BY <1>3, <1>4, <1>5, <1>6 DEF StoreInv

\* Excepting more ids keeps a registry good.
LEMMA MoreMisread ==
  ASSUME NEW r, NEW old, NEW new, GoodRegistry(r, old), old \subseteq new
  PROVE  GoodRegistry(r, new)
BY DEF GoodRegistry, RevokedIdsUntrusted, IdsUnique
-----------------------------------------------------------------------------
(* What Save writes and what Load reads *)

\* Save writes an image whose registry is the one in memory.
LEMMA SnapshotIsImage ==
  ASSUME TypeOK
  PROVE  /\ Snapshot \in Image
         /\ Snapshot.reg = reg /\ Snapshot.identity = identity
BY KeyStoreAssumption DEF Snapshot, Image, TypeOK

\* What Load keeps of the lines: no more rows than there are lines, each of
\* another line.
LEMMA KeptLinesAreRows ==
  ASSUME NEW f \in KeptLines, Len(image.reg.trusted) \in Nat
  PROVE  /\ DOMAIN f = 1..Len(f) /\ Len(f) \in Nat
         /\ Len(f) <= Len(image.reg.trusted)
         /\ \A i \in DOMAIN f : f[i] \in DOMAIN image.reg.trusted
         /\ \A i, j \in DOMAIN f : i < j => f[i] < f[j]
<1>. DEFINE kept == {j \in DOMAIN image.reg.trusted :
                       ReadBack[image.reg.trusted[j]].id # NoId}
<1>1. PICK n \in 0..Len(image.reg.trusted) : f \in [1..n -> kept]
  BY DEF KeptLines
<1>2. \A i, j \in DOMAIN f : i < j => f[i] < f[j]
  BY DEF KeptLines
<1>3. Len(f) = n
  BY <1>1
<1>. QED  BY <1>1, <1>2, <1>3

\* Load of a good image gives a good registry with the same blacklist, if the ids
\* it read off lines written for others are excepted with those of before; and
\* every phone it trusts was paired, under its id or under the one its line was
\* written for, with the image's identity.
LoadIsGood(f) ==
  /\ GoodRegistry(Loaded(f).reg, misread \cup {Read(f, i).id : i \in Misread(f)})
  /\ Loaded(f).cred \in Credentials \cup {Blank, NoCredential}
  /\ Loaded(f).identity = image.identity
  /\ Loaded(f).reg.revokedIds = image.reg.revokedIds
  /\ {Read(f, i).id : i \in Misread(f)} \subseteq PhoneIds
  /\ PairedAsRead(f) \in [PhoneIds -> 0..MaxIdentities]
  /\ \A id \in TrustedIds(Loaded(f).reg) : PairedAsRead(f)[id] = image.identity
  /\ \A id \in TrustedIds(image.reg) : PairedAsRead(f)[id] = image.identity

LEMMA LoadedGood ==
  ASSUME TypeOK, GoodRegistry(image.reg, misread), NEW f \in KeptLines,
         \A id \in TrustedIds(image.reg) : pairedWith[id] = image.identity
  PROVE  LoadIsGood(f)
<1>. DEFINE lines == image.reg.trusted
            read == [i \in DOMAIN f |-> Read(f, i)]
            ids == {Read(f, i).id : i \in Misread(f)}
<1>1. image \in Image /\ image.reg \in Registry
  BY DEF TypeOK, Image
<1>2. /\ lines \in Seq(Phones) /\ Len(lines) \in Nat /\ DOMAIN lines = 1..Len(lines)
      /\ Len(lines) <= MaxPhones
      /\ RevokedIdsUntrusted(image.reg, misread) /\ IdsUnique(image.reg, misread)
  BY <1>1 DEF Registry, GoodRegistry, WithinLimit
<1>3. /\ DOMAIN f = 1..Len(f) /\ Len(f) \in Nat
      /\ Len(f) <= Len(lines)
      /\ \A i \in DOMAIN f : f[i] \in DOMAIN lines
      /\ \A i, j \in DOMAIN f : i < j => f[i] < f[j]
  BY <1>2, KeptLinesAreRows
<1>4. \A i \in DOMAIN f :
        /\ Saved(f, i) = lines[f[i]] /\ Saved(f, i) \in Phones
        /\ Saved(f, i).id \in TrustedIds(image.reg)
        /\ Saved(f, i).id \in PhoneIds
        /\ Read(f, i) \in Phones /\ Read(f, i).id \in PhoneIds
  <2>. TAKE i \in DOMAIN f
  <2>1. Saved(f, i) = lines[f[i]] /\ f[i] \in DOMAIN lines
    BY <1>3 DEF Saved
  <2>2. lines[f[i]] \in Phones
    BY <1>2, <2>1
  <2>3. Read(f, i) \in Phones
    BY <2>1, <2>2, KeyStoreAssumption DEF Read
  <2>4. Saved(f, i).id \in TrustedIds(image.reg)
    BY <2>1 DEF TrustedIds
  <2>. QED  BY <2>1, <2>2, <2>3, <2>4, RegistryAssumption
<1>5. Loaded(f).reg = [trusted |-> read, revokedIds |-> image.reg.revokedIds,
                       revokedKeys |-> image.reg.revokedKeys]
  <2>1. image.reg = [trusted |-> image.reg.trusted, revokedIds |-> image.reg.revokedIds,
                     revokedKeys |-> image.reg.revokedKeys]
    BY <1>1 DEF Registry
  <2>2. Loaded(f).reg = [image.reg EXCEPT !.trusted = read]
    BY DEF Loaded
  <2>. HIDE DEF read
  <2>. QED  BY <2>1, <2>2
<1>6. /\ Loaded(f).cred \in Credentials \cup {Blank, NoCredential}
      /\ Loaded(f).identity = image.identity
  BY <1>1, KeyStoreAssumption DEF Loaded, Image
<1>7. read \in Seq(Phones) /\ Len(read) = Len(f) /\ DOMAIN read = DOMAIN f
  BY <1>3, <1>4
<1>8. /\ Misread(f) \subseteq DOMAIN f /\ ids \subseteq PhoneIds
      /\ \A i \in DOMAIN f : Read(f, i).id \in ids \/ Read(f, i).id = Saved(f, i).id
  BY <1>4 DEF Misread
<1>9. \A i \in DOMAIN f : read[i].id = Read(f, i).id
  OBVIOUS
<1>10. Loaded(f).reg \in Registry
  <2>. HIDE DEF read
  <2>. QED  BY <1>1, <1>5, <1>7 DEF Registry
<1>11. RevokedIdsUntrusted(Loaded(f).reg, misread \cup ids)
  <2>. SUFFICES ASSUME NEW i \in DOMAIN f, Read(f, i).id \in image.reg.revokedIds
                PROVE  Read(f, i).id \in misread \cup ids
    <3>. HIDE DEF read
    <3>. QED  BY <1>5, <1>7, <1>9 DEF RevokedIdsUntrusted, TrustedIds
  <2>. HIDE DEF ids, read
  <2>. QED  BY <1>2, <1>4, <1>8 DEF RevokedIdsUntrusted
<1>12. IdsUnique(Loaded(f).reg, misread \cup ids)
  <2>. SUFFICES ASSUME NEW i \in DOMAIN f, NEW j \in DOMAIN f,
                       Read(f, i).id = Read(f, j).id, i # j,
                       Read(f, i).id \notin ids
                PROVE  Read(f, i).id \in misread
    <3>. HIDE DEF read, ids
    <3>. QED  BY <1>5, <1>7, <1>9 DEF IdsUnique
  <2>1. Saved(f, i).id = Saved(f, j).id /\ Saved(f, i).id = Read(f, i).id
    BY <1>8
  <2>2. f[i] # f[j] /\ f[i] \in DOMAIN lines /\ f[j] \in DOMAIN lines
    <3>1. i < j \/ j < i
      BY <1>3
    <3>2. f[i] < f[j] \/ f[j] < f[i]
      BY <1>3, <3>1
    <3>. QED  BY <1>2, <1>3, <3>2
  <2>. QED  BY <1>2, <1>4, <2>1, <2>2 DEF IdsUnique
<1>13. WithinLimit(Loaded(f).reg)
  <2>. HIDE DEF read
  <2>. QED  BY <1>2, <1>3, <1>5, <1>7, RegistryAssumption DEF WithinLimit
<1>14. \A id \in PhoneIds : PairedAsRead(f)[id] \in {pairedWith[id], image.identity}
  <2>. TAKE id \in PhoneIds
  <2>1. MisreadFor(f, id) \subseteq TrustedIds(image.reg)
    BY <1>4, <1>8 DEF MisreadFor
  <2>2. CASE MisreadFor(f, id) = {}
    BY <2>2 DEF PairedAsRead
  <2>3. CASE MisreadFor(f, id) # {}
    <3>1. (CHOOSE old \in MisreadFor(f, id) : TRUE) \in MisreadFor(f, id)
      BY <2>3
    <3>. QED  BY <2>1, <2>3, <3>1 DEF PairedAsRead
  <2>. QED  BY <2>2, <2>3
<1>15. \A id \in ids : PairedAsRead(f)[id] = image.identity
  <2>. SUFFICES ASSUME NEW i \in Misread(f)
                PROVE  PairedAsRead(f)[Read(f, i).id] = image.identity
    OBVIOUS
  <2>. DEFINE id == Read(f, i).id
  <2>1. MisreadFor(f, id) \subseteq TrustedIds(image.reg) /\ id \in PhoneIds
    BY <1>4, <1>8 DEF MisreadFor
  <2>2. Saved(f, i).id \in MisreadFor(f, id)
    BY DEF MisreadFor
  <2>3. (CHOOSE old \in MisreadFor(f, id) : TRUE) \in MisreadFor(f, id)
    BY <2>2
  <2>. HIDE DEF id
  <2>4. PairedAsRead(f)[id] = pairedWith[CHOOSE old \in MisreadFor(f, id) : TRUE]
    BY <2>1, <2>2 DEF PairedAsRead
  <2>5. PairedAsRead(f)[id] = image.identity
    BY <2>1, <2>3, <2>4
  <2>. QED  BY <2>5 DEF id
<1>16. PairedAsRead(f) \in [PhoneIds -> 0..MaxIdentities]
  <2>1. image.identity \in 0..MaxIdentities /\ pairedWith \in [PhoneIds -> 0..MaxIdentities]
    BY <1>1 DEF Image, TypeOK
  <2>2. \A id \in PhoneIds : PairedAsRead(f)[id] \in 0..MaxIdentities
    BY <1>14, <2>1
  <2>3. PairedAsRead(f) = [id \in PhoneIds |-> PairedAsRead(f)[id]]
    BY DEF PairedAsRead
  <2>. QED  BY <2>2, <2>3
<1>17. \A id \in TrustedIds(image.reg) : id \in PhoneIds /\ PairedAsRead(f)[id] = image.identity
  <2>1. \A id \in TrustedIds(image.reg) : id \in PhoneIds
    BY <1>2, RegistryAssumption DEF TrustedIds
  <2>. QED  BY <1>14, <2>1
<1>18. \A id \in TrustedIds(Loaded(f).reg) : PairedAsRead(f)[id] = image.identity
  <2>1. \A i \in DOMAIN f : PairedAsRead(f)[Read(f, i).id] = image.identity
    <3>. HIDE DEF ids
    <3>. QED  BY <1>4, <1>8, <1>15, <1>17
  <2>2. \A id \in TrustedIds(Loaded(f).reg) : \E i \in DOMAIN f : id = Read(f, i).id
    <3>. HIDE DEF read
    <3>. QED  BY <1>5, <1>7, <1>9 DEF TrustedIds
  <2>. QED  BY <2>1, <2>2
<1>19. Loaded(f).reg.revokedIds = image.reg.revokedIds
  BY <1>5
<1>. HIDE DEF read
<1>. QED  BY <1>6, <1>8, <1>10, <1>11, <1>12, <1>13, <1>16, <1>17, <1>18, <1>19
          DEF LoadIsGood, GoodRegistry
-----------------------------------------------------------------------------
(* The mutating operations *)

\* What an operation of a thread does to the rest of the invariant: it runs with
\* the mutex free, leaves the file and the identity alone, keeps the registry
\* good and its blacklist whole, binds what it adds to this PC's identity, and
\* leaves either its thread owing a Save or a change nobody will save.
OperationEffect(t) ==
  /\ running /\ writer = NoThread
  /\ UNCHANGED <<running, identity, writer, file, image, committed, torn, identities, misread>>
  /\ GoodRegistry(reg', misread)
  /\ reg.revokedIds \subseteq reg'.revokedIds
  /\ cred' \in Credentials \cup {Blank, NoCredential}
  /\ pairedWith' \in [PhoneIds -> 0..MaxIdentities]
  /\ \A id \in PhoneIds : pairedWith'[id] \in {pairedWith[id], identity}
  /\ \A id \in TrustedIds(reg') : pairedWith'[id] = identity
  /\ \/ owes' = owes \cup {t} /\ stale' = stale
     \/ owes' = owes /\ stale' = TRUE

\* Adding a phone, new or known.
LEMMA AddEffect ==
  ASSUME StoreInv, NEW t \in Threads, NEW p \in Phones,
         Accepts(reg, p), reg' = WithPhone(reg, p),
         pairedWith' = [pairedWith EXCEPT ![p.id] = identity]
  PROVE  /\ GoodRegistry(reg', misread)
         /\ reg.revokedIds \subseteq reg'.revokedIds
         /\ pairedWith' \in [PhoneIds -> 0..MaxIdentities]
         /\ \A id \in PhoneIds : pairedWith'[id] \in {pairedWith[id], identity}
         /\ \A id \in TrustedIds(reg') : pairedWith'[id] = identity
<1>1. /\ GoodRegistry(reg, misread) /\ identity \in 0..MaxIdentities
      /\ pairedWith \in [PhoneIds -> 0..MaxIdentities]
      /\ \A id \in TrustedIds(reg) : pairedWith[id] = identity
  BY DEF StoreInv, GoodRegistries, TypeOK, OneIdentity
<1>2. /\ GoodRegistry(reg', misread) /\ reg'.revokedIds = reg.revokedIds
      /\ TrustedIds(reg') \subseteq TrustedIds(reg) \cup {p.id}
  BY <1>1, WithPhoneGood
<1>3. p.id \in PhoneIds
  BY RegistryAssumption
<1>4. \A id \in TrustedIds(reg) : id \in PhoneIds
  BY <1>1, RegistryAssumption DEF GoodRegistry, Registry, TrustedIds
<1>5. /\ pairedWith' \in [PhoneIds -> 0..MaxIdentities]
      /\ \A id \in PhoneIds : pairedWith'[id] \in {pairedWith[id], identity}
      /\ \A id \in TrustedIds(reg') : pairedWith'[id] = identity
  BY <1>1, <1>2, <1>3, <1>4
<1>. QED  BY <1>2, <1>5

\* Every operation has the effect.
LEMMA EveryOperationEffect ==
  ASSUME StoreInv, NEW t \in Threads, Operation(t)
  PROVE  OperationEffect(t)
<1>. USE DEF disk, Mutated, CanCall
<1>1. /\ GoodRegistry(reg, misread) /\ cred \in Credentials \cup {Blank, NoCredential}
      /\ pairedWith \in [PhoneIds -> 0..MaxIdentities]
      /\ \A id \in TrustedIds(reg) : pairedWith[id] = identity
  BY DEF StoreInv, GoodRegistries, TypeOK, OneIdentity
<1>2. ASSUME NEW p \in Phones, AddTrustedPhone(t, p)
      PROVE  OperationEffect(t)
  BY <1>1, <1>2, AddEffect DEF AddTrustedPhone, OperationEffect
<1>3. ASSUME NEW p \in Phones, RepairTrustedPhone(t, p)
      PROVE  OperationEffect(t)
  BY <1>1, <1>3, AddEffect DEF RepairTrustedPhone, OperationEffect
<1>4. ASSUME NEW id \in PhoneIds, RemoveTrustedPhone(t, id)
      PROVE  OperationEffect(t)
  BY <1>1, <1>4, WithoutPhoneGood DEF RemoveTrustedPhone, OperationEffect
<1>5. ASSUME NEW id \in PhoneIds, RevokeTrustedPhone(t, id)
      PROVE  OperationEffect(t)
  BY <1>1, <1>5, WithRevokedGood DEF RevokeTrustedPhone, OperationEffect
<1>6. ASSUME NEW c \in Credentials \cup {Blank}, SetWindowsCredential(t, c)
      PROVE  OperationEffect(t)
  BY <1>1, <1>6 DEF SetWindowsCredential, OperationEffect
<1>7. ASSUME ClearWindowsCredential(t)
      PROVE  OperationEffect(t)
  BY <1>1, <1>7 DEF ClearWindowsCredential, OperationEffect
<1>8. ASSUME UpdateSettings(t)
      PROVE  OperationEffect(t)
  BY <1>1, <1>8 DEF UpdateSettings, OperationEffect
<1>. HIDE DEF OperationEffect
<1>. QED  BY <1>2, <1>3, <1>4, <1>5, <1>6, <1>7, <1>8 DEF Operation
-----------------------------------------------------------------------------
(* Every step keeps the invariant *)

\* An operation keeps it: what it adds to the blacklist is in memory, and the
\* vault it leaves behind is known to be out of date.
LEMMA OperationStep ==
  ASSUME StoreInv, NEW t \in Threads, OperationEffect(t)
  PROVE  StoreInv'
<1>. USE DEF StoreInv, OperationEffect
<1>1. TypeOK'
  BY DEF TypeOK, GoodRegistry
<1>2. GoodRegistries'
  BY DEF GoodRegistries
<1>3. OneIdentity'
  <2>1. \A id \in TrustedIds(image.reg) : id \in PhoneIds
    BY RegistryAssumption DEF TypeOK, Image, Registry, TrustedIds
  <2>2. \A id \in TrustedIds(image.reg) : pairedWith'[id] = image.identity
    <3>1. CASE file = "sealed"
      BY <3>1, <2>1 DEF OneIdentity
    <3>2. CASE file # "sealed"
      BY <3>2 DEF OneIdentity, EmptyImage, EmptyRegistry, TrustedIds
    <3>. QED  BY <3>1, <3>2
  <2>. QED  BY <2>2 DEF OneIdentity
<1>4. Stopped'
  BY DEF Stopped
<1>5. Committed'
  BY DEF Committed
<1>6. QuiescentVaultIsCurrent'
  BY DEF QuiescentVaultIsCurrent
<1>. QED  BY <1>1, <1>2, <1>3, <1>4, <1>5, <1>6

\* Load brings up what the vault holds, or a new identity with no phones.
LEMMA StartStep == StoreInv /\ Start => StoreInv'
<1>. SUFFICES ASSUME StoreInv, Start PROVE StoreInv'
  OBVIOUS
<1>. USE DEF StoreInv
<1>1. /\ ~running /\ running' = TRUE
      /\ writer = NoThread /\ owes = {}
      /\ UNCHANGED <<owes, writer, file, image, committed, torn>>
  BY DEF Start, disk, Stopped
<1>2. /\ GoodRegistry(EmptyRegistry, misread) /\ TrustedIds(EmptyRegistry) = {}
      /\ EmptyRegistry.revokedIds = {}
  BY EmptyRegistryGood DEF EmptyRegistry, TrustedIds
<1>3. GoodRegistry(image.reg, misread)
  BY DEF GoodRegistries
<1>4. CASE file # "sealed"
  <2>1. /\ reg' = EmptyRegistry /\ cred' = NoCredential
        /\ identity' \in 0..MaxIdentities /\ identities' \in 0..MaxIdentities
        /\ stale' = TRUE /\ UNCHANGED <<pairedWith, misread>>
    BY <1>4, KeyStoreAssumption DEF Start, TypeOK
  <2>2. TypeOK'
    BY <1>1, <1>2, <2>1 DEF TypeOK, GoodRegistry
  <2>3. GoodRegistries'
    BY <1>1, <1>2, <1>3, <2>1 DEF GoodRegistries
  <2>4. OneIdentity' /\ Stopped' /\ QuiescentVaultIsCurrent'
    BY <1>1, <1>2, <1>4, <2>1 DEF OneIdentity, Stopped, QuiescentVaultIsCurrent
  <2>5. Committed'
    BY <1>1, <1>4 DEF Committed
  <2>. QED  BY <2>2, <2>3, <2>4, <2>5
<1>5. CASE file = "sealed"
  <2>1. PICK f \in KeptLines :
          /\ reg' = Loaded(f).reg /\ cred' = Loaded(f).cred
          /\ identity' = Loaded(f).identity
          /\ stale' = (Loaded(f) # image) /\ identities' = identities
          /\ misread' = misread \cup {Read(f, i).id : i \in Misread(f)}
          /\ pairedWith' = PairedAsRead(f)
    BY <1>5 DEF Start
  <2>2. LoadIsGood(f)
    BY <1>3, LoadedGood DEF OneIdentity
  <2>8. /\ GoodRegistry(reg', misread')
        /\ cred' \in Credentials \cup {Blank, NoCredential}
        /\ identity' = image.identity
        /\ reg'.revokedIds = image.reg.revokedIds
        /\ misread \subseteq misread' /\ misread' \subseteq PhoneIds
        /\ pairedWith' \in [PhoneIds -> 0..MaxIdentities]
        /\ \A id \in TrustedIds(reg') : pairedWith'[id] = image.identity
        /\ \A id \in TrustedIds(image.reg) : pairedWith'[id] = image.identity
    BY <2>1, <2>2 DEF LoadIsGood, TypeOK
  <2>3. TypeOK'
    BY <1>1, <2>1, <2>8 DEF TypeOK, GoodRegistry, Image
  <2>4. GoodRegistries'
    <3>1. GoodRegistry(image.reg, misread')
      BY <1>3, <2>8, MoreMisread
    <3>. QED  BY <1>1, <2>8, <3>1 DEF GoodRegistries
  <2>5. OneIdentity'
    BY <1>1, <1>5, <2>8 DEF OneIdentity
  <2>6. Stopped' /\ Committed'
    BY <1>1, <1>5, <2>8 DEF Stopped, Committed
  <2>7. QuiescentVaultIsCurrent'
    <3>. SUFFICES ASSUME Loaded(f) = image PROVE image' = Snapshot'
      BY <1>1, <1>5, <2>1 DEF QuiescentVaultIsCurrent
    <3>1. image \in Image
      BY DEF TypeOK
    <3>2. image.cred # Blank
      BY <3>1, KeyStoreAssumption DEF Image
    <3>3. image = [reg |-> image.reg, cred |-> image.cred, identity |-> image.identity]
      BY <3>1 DEF Image
    <3>4. Snapshot' = [reg |-> reg', cred |-> IF cred' = Blank THEN NoCredential ELSE cred',
                       identity |-> identity']
      BY DEF Snapshot
    <3>5. reg' = image.reg /\ cred' = image.cred /\ identity' = image.identity
      BY <2>1
    <3>. QED  BY <1>1, <3>2, <3>3, <3>4, <3>5
  <2>. QED  BY <2>3, <2>4, <2>5, <2>6, <2>7
<1>. QED  BY <1>4, <1>5

\* A Save that fails to open the file, and one that truncates it.
LEMMA SaveBeginsStep ==
  ASSUME StoreInv, NEW t \in Threads, SaveFails(t) \/ SaveOpens(t)
  PROVE  StoreInv'
<1>. USE DEF StoreInv, memory, disk, history
<1>1. CASE SaveFails(t)
  <2>1. TypeOK'
    BY <1>1 DEF SaveFails, TypeOK
  <2>2. GoodRegistries' /\ OneIdentity' /\ Stopped' /\ Committed'
    BY <1>1 DEF SaveFails, GoodRegistries, OneIdentity, Stopped, Committed
  <2>3. QuiescentVaultIsCurrent'
    BY <1>1 DEF SaveFails, QuiescentVaultIsCurrent
  <2>. QED  BY <2>1, <2>2, <2>3
<1>2. CASE SaveOpens(t)
  <2>1. /\ running /\ writer' = t /\ t # NoThread /\ file' = "empty" /\ image' = EmptyImage
        /\ UNCHANGED <<running, reg, cred, identity, owes, committed, torn, identities, stale, pairedWith, misread>>
    BY <1>2, KeyStoreAssumption DEF SaveOpens
  <2>2. EmptyImage \in Image /\ GoodRegistry(EmptyImage.reg, misread)
        /\ TrustedIds(EmptyImage.reg) = {}
    BY EmptyRegistryGood, KeyStoreAssumption
    DEF EmptyImage, Image, GoodRegistry, EmptyRegistry, TrustedIds
  <2>3. TypeOK'
    BY <2>1, <2>2 DEF TypeOK
  <2>4. GoodRegistries'
    BY <2>1, <2>2 DEF GoodRegistries
  <2>5. OneIdentity' /\ Stopped' /\ Committed' /\ QuiescentVaultIsCurrent'
    BY <2>1, <2>2 DEF OneIdentity, Stopped, Committed, QuiescentVaultIsCurrent
  <2>. QED  BY <2>3, <2>4, <2>5
<1>. QED  BY <1>1, <1>2

\* A whole image of a good memory is a good image, and holds every revocation
\* the vault ever held.
LEMMA SealEffect ==
  ASSUME StoreInv, running, Seal
  PROVE  /\ file' = "sealed" /\ image' \in Image /\ stale' = FALSE
         /\ image'.reg = reg /\ image'.identity = identity
         /\ image' = Snapshot
         /\ committed' = committed \cup reg.revokedIds
         /\ committed' \subseteq PhoneIds
         /\ torn' \in BOOLEAN
BY SnapshotIsImage DEF Seal, StoreInv, TypeOK, Registry

\* So the revocations are where Committed says, whether the process goes on with
\* its registry or ends.
LEMMA SealCommits ==
  ASSUME StoreInv, running, Seal, (running' /\ reg' = reg) \/ ~running'
  PROVE  Committed'
<1>1. /\ file' = "sealed" /\ image'.reg = reg
      /\ committed' = committed \cup reg.revokedIds
  BY SealEffect
<1>2. (torn' => torn) /\ (torn => torn')
  BY DEF Seal
<1>3. /\ torn => FaultySaves
      /\ ~torn => committed \subseteq reg.revokedIds
  BY DEF StoreInv, Committed
<1>4. torn' => FaultySaves
  BY <1>2, <1>3
<1>5. ~torn' => committed' \subseteq reg.revokedIds
  BY <1>1, <1>2, <1>3
<1>. QED  BY <1>1, <1>4, <1>5 DEF Committed

\* The write of a Save, whole or cut short.
LEMMA SaveWritesStep ==
  ASSUME StoreInv, NEW t \in Threads, SaveWrites(t)
  PROVE  StoreInv'
<1>. USE DEF StoreInv
<1>1. /\ writer = t /\ writer' = NoThread /\ owes' = owes \ {t} /\ running
      /\ UNCHANGED <<running, reg, cred, identity, identities, pairedWith, misread>>
  BY KeyStoreAssumption DEF SaveWrites, memory, Stopped
<1>2. Snapshot' = Snapshot
  BY <1>1 DEF Snapshot
<1>3. CASE Seal
  <2>1. TypeOK'
    BY <1>1, <1>3, SealEffect DEF TypeOK
  <2>2. GoodRegistries'
    BY <1>1, <1>3, SealEffect DEF GoodRegistries
  <2>3. OneIdentity'
    BY <1>1, <1>3, SealEffect DEF OneIdentity
  <2>4. Stopped'
    BY <1>1, <1>3, SealEffect DEF Stopped
  <2>6. Committed'
    BY <1>1, <1>3, SealEffect, SealCommits
  <2>5. QuiescentVaultIsCurrent'
    BY <1>1, <1>2, <1>3, SealEffect DEF QuiescentVaultIsCurrent
  <2>. QED  BY <2>1, <2>2, <2>3, <2>4, <2>5, <2>6
<1>4. CASE ~Seal
  <2>1. /\ FaultySaves /\ file' = "garbled" /\ stale' = TRUE /\ torn' = TRUE
        /\ UNCHANGED <<image, committed>>
    BY <1>4 DEF SaveWrites
  <2>2. image = EmptyImage /\ reg = reg' /\ t # NoThread
    BY <1>1, KeyStoreAssumption DEF OneIdentity, Stopped
  <2>3. TypeOK'
    BY <1>1, <2>1 DEF TypeOK
  <2>4. GoodRegistries' /\ OneIdentity' /\ Stopped' /\ QuiescentVaultIsCurrent'
    BY <1>1, <2>1, <2>2
    DEF GoodRegistries, OneIdentity, Stopped, QuiescentVaultIsCurrent
  <2>5. Committed'
    BY <2>1 DEF Committed
  <2>. QED  BY <2>3, <2>4, <2>5
<1>. QED  BY <1>3, <1>4

\* The process ends, with the destructor's Save or without.
LEMMA EndStep ==
  ASSUME StoreInv, Quit \/ Crash
  PROVE  StoreInv'
<1>. USE DEF StoreInv
<1>1. /\ running /\ running' = FALSE /\ reg' = EmptyRegistry /\ cred' = NoCredential
      /\ identity' = 0 /\ owes' = {} /\ writer' = NoThread
      /\ UNCHANGED <<identities, pairedWith, misread>>
  BY DEF Quit, Crash, Down, history
<1>2. /\ GoodRegistry(EmptyRegistry, misread) /\ TrustedIds(EmptyRegistry) = {}
      /\ 0 \in 0..MaxIdentities
  BY EmptyRegistryGood, KeyStoreAssumption DEF EmptyRegistry, TrustedIds
<1>3. CASE Seal /\ ~UNCHANGED <<file, image, committed, stale>>
  <2>1. TypeOK'
    BY <1>1, <1>2, <1>3, SealEffect DEF TypeOK, GoodRegistry
  <2>2. GoodRegistries'
    BY <1>1, <1>2, <1>3, SealEffect DEF GoodRegistries
  <2>3. OneIdentity' /\ Stopped' /\ QuiescentVaultIsCurrent'
    BY <1>1, <1>2, <1>3, SealEffect
    DEF OneIdentity, Stopped, QuiescentVaultIsCurrent
  <2>4. Committed'
    BY <1>1, <1>3, SealCommits
  <2>. QED  BY <2>1, <2>2, <2>3, <2>4
<1>4. CASE UNCHANGED <<file, image, committed, stale>>
  <2>5. torn' \in BOOLEAN
    BY DEF Quit, Crash, Seal, disk, TypeOK
  <2>1. TypeOK'
    BY <1>1, <1>2, <1>4, <2>5 DEF TypeOK, GoodRegistry
  <2>2. GoodRegistries' /\ OneIdentity' /\ Stopped' /\ QuiescentVaultIsCurrent'
    BY <1>1, <1>2, <1>4
    DEF GoodRegistries, OneIdentity, Stopped, QuiescentVaultIsCurrent
  <2>3. (~torn' => ~torn /\ writer = NoThread) /\ (torn' => FaultySaves)
    <3>1. CASE Quit
      <4>1. writer = NoThread
        BY <3>1 DEF Quit
      <4>2. torn' = torn
        BY <3>1 DEF Quit, Seal, disk
      <4>. QED  BY <4>1, <4>2 DEF Committed
    <3>2. CASE Crash
      <4>1. torn' = (torn \/ writer # NoThread)
        BY <3>2 DEF Crash
      <4>2. writer # NoThread => FaultySaves
        BY <3>2 DEF Crash
      <4>. QED  BY <4>1, <4>2 DEF Committed
    <3>. QED  BY <3>1, <3>2
  <2>4. Committed'
    BY <1>1, <1>4, <2>3 DEF Committed
  <2>. QED  BY <2>1, <2>2, <2>4
<1>5. Seal \/ UNCHANGED <<file, image, committed, stale>>
  BY DEF Quit, Crash, disk, history
<1>. QED  BY <1>3, <1>4, <1>5

\* Every step keeps the invariant.
LEMMA StoreStep == StoreInv /\ [Next]_vars => StoreInv'
<1>. SUFFICES ASSUME StoreInv, [Next]_vars PROVE StoreInv'
  OBVIOUS
<1>1. CASE Start
  BY <1>1, StartStep
<1>2. CASE Quit \/ Crash
  BY <1>2, EndStep
<1>3. ASSUME NEW t \in Threads, Operation(t)
      PROVE  StoreInv'
  BY <1>3, EveryOperationEffect, OperationStep
<1>4. ASSUME NEW t \in Threads, SaveFails(t) \/ SaveOpens(t)
      PROVE  StoreInv'
  BY <1>4, SaveBeginsStep
<1>5. ASSUME NEW t \in Threads, SaveWrites(t)
      PROVE  StoreInv'
  BY <1>5, SaveWritesStep
<1>6. CASE UNCHANGED vars
  <2>1. Snapshot' = Snapshot
    BY <1>6 DEF vars, Snapshot
  <2>. QED
    BY <1>6, <2>1 DEF vars, StoreInv, TypeOK, GoodRegistries, OneIdentity, Stopped, Committed,
                      QuiescentVaultIsCurrent
<1>. QED  BY <1>1, <1>2, <1>3, <1>4, <1>5, <1>6 DEF Next
-----------------------------------------------------------------------------
\* The vault and its memory keep the inductive invariant.
THEOREM StoreInvariant == Spec => []StoreInv
BY StoreInit, StoreStep, PTL DEF Spec

\* Every variable of the store keeps its type.
THEOREM StoreTypeOK == Spec => []TypeOK
<1>1. StoreInv => TypeOK
  BY DEF StoreInv
<1>. QED  BY StoreInvariant, <1>1, PTL

\* A phone is never both trusted and blacklisted, in memory or in the vault,
\* however operations, failing saves, crashes and restarts interleave; excepted are
\* the ids that some Load read off a line saved for another id.
THEOREM StoreRevokedNotTrusted == Spec => []RevokedNotTrusted
<1>1. StoreInv => RevokedNotTrusted
  BY DEF StoreInv, GoodRegistries, GoodRegistry, RevokedNotTrusted
<1>. QED  BY StoreInvariant, <1>1, PTL

\* Never more than MaxPhones phones, in memory or in the vault, and never two with
\* one id, but for the ids some Load read off a line saved for another.
THEOREM StoreRegistryBounded == Spec => []RegistryBounded
<1>1. StoreInv => RegistryBounded
  BY DEF StoreInv, GoodRegistries, GoodRegistry, RegistryBounded
<1>. QED  BY StoreInvariant, <1>1, PTL

\* A revocation that reached the vault is in force whenever a KeyStore is up, until
\* some Save is cut short between truncating the file and writing it.
THEOREM StoreRevocationsSurvive == Spec => []RevocationsSurvive
<1>1. StoreInv => RevocationsSurvive
  BY DEF StoreInv, Committed, RevocationsSurvive
<1>. QED  BY StoreInvariant, <1>1, PTL

\* If a Save is never interrupted between truncating the file and writing it, a
\* revocation that reached the vault is in force whenever a KeyStore is up.
THEOREM StoreRevocationPermanent ==
  ASSUME ~FaultySaves PROVE Spec => []RevocationPermanent
<1>1. StoreInv => RevocationPermanent
  BY DEF StoreInv, Committed, RevocationPermanent
<1>. QED  BY StoreInvariant, <1>1, PTL

\* No update is lost: a store at rest with nothing known unsaved equals its vault.
THEOREM StoreQuiescentVault == Spec => []QuiescentVaultIsCurrent
<1>1. StoreInv => QuiescentVaultIsCurrent
  BY DEF StoreInv
<1>. QED  BY StoreInvariant, <1>1, PTL

\* A trusted phone is always one that was paired with the present PC identity.
THEOREM StorePairedIdentity == Spec => []PairedWithThisIdentity
<1>1. StoreInv => PairedWithThisIdentity
  BY DEF StoreInv, OneIdentity, PairedWithThisIdentity
<1>. QED  BY StoreInvariant, <1>1, PTL
=============================================================================
