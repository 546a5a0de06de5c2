------------------------------ MODULE KeyStore ------------------------------
(***************************************************************************)
(* storage/KeyStore.cpp and the file behind it.  Every mutation takes the  *)
(* mutex, changes the registry and releases it; Save takes the mutex again,*)
(* truncates the vault file (std::ofstream) and writes the sealed image.   *)
(* So between a mutation and its Save other threads mutate and save, and   *)
(* the process may die; between truncation and write the mutex is held.    *)
(* The vault is text, a line for each phone with '|' between its fields,   *)
(* and nothing keeps a '|' out of a field.  A raw line break, which no     *)
(* JSON string holds, is left out.                                         *)
(***************************************************************************)
EXTENDS PhoneRegistry

CONSTANTS
  Threads,         \* the threads that call KeyStore::Instance()
  NoThread,
  Credentials,     \* Windows credentials with a nonempty password
  Blank,           \* a stored credential whose password is empty
  NoCredential,    \* std::nullopt
  NoId,            \* the empty phone id, which Load skips
  ReadBack,        \* the phone a vault line written for a phone parses to: a '|'
                   \* in its id cuts it there, one in its name moves the rest
                   \* of the name into its key
  ReadBackCred,    \* likewise for a credential: a '|' cuts its password off
  MaxIdentities,   \* bound on the identities InitializeDefaultIdentity makes
  FaultySaves      \* may the disk fill up, or power fail, inside a Save?

ASSUME KeyStoreAssumption ==
  /\ NoThread \notin Threads
  /\ NoCredential \notin Credentials /\ Blank \notin Credentials
  /\ Blank # NoCredential
  /\ ReadBack \in [Phones -> Phones]
  /\ ReadBackCred \in [Credentials -> Credentials \cup {Blank}]
  /\ MaxIdentities \in Nat
  /\ FaultySaves \in BOOLEAN

VARIABLES
  running,      \* is the process up (its KeyStore constructed)?
  reg,          \* m_trustedPhones, m_revokedPhoneIds, m_revokedKeys
  cred,         \* m_windowsCredential
  identity,     \* m_pcIdentity.pcId; 0 is the empty string
  owes,         \* threads that have mutated and not yet called Save
  writer,       \* the thread inside Save with the file truncated
  file,         \* what keys.vault holds: "absent", "empty", "garbled", "sealed"
  image,        \* the plaintext sealed in it
  identities,   \* history: identities generated so far
  stale,        \* history: a change is in memory that no Save is due to write
  committed,    \* history: ids some sealed image blacklisted
  torn,         \* history: a Save was cut short after it truncated the file
  pairedWith,   \* history: the identity the PC had when the phone was added
  misread       \* history: ids Load gave to phones that were saved under others

vars == <<running, reg, cred, identity, owes, writer, file, image,
          identities, stale, committed, torn, pairedWith, misread>>

memory == <<reg, cred, identity>>
disk == <<file, image, committed, torn>>
history == <<identities, stale, pairedWith, misread>>

Image == [reg : Registry,
          cred : Credentials \cup {NoCredential},
          identity : 0..MaxIdentities]

EmptyImage == [reg |-> EmptyRegistry, cred |-> NoCredential, identity |-> 0]

Init ==
  /\ running = FALSE
  /\ reg = EmptyRegistry /\ cred = NoCredential /\ identity = 0
  /\ owes = {} /\ writer = NoThread
  /\ file = "absent" /\ image = EmptyImage
  /\ identities = 0 /\ stale = FALSE /\ committed = {} /\ torn = FALSE
  /\ pairedWith = [id \in PhoneIds |-> 0] /\ misread = {}
-----------------------------------------------------------------------------
(* Load and Save *)

\* Mutants: an image without the PC identity; one written from no blacklist
ImageWithoutIdentity == [reg |-> reg,
                         cred |-> IF cred = Blank THEN NoCredential ELSE cred,
                         identity |-> 0]
ImageWithoutBlacklist == [reg |-> [reg EXCEPT !.revokedIds = {}],
                          cred |-> IF cred = Blank THEN NoCredential ELSE cred,
                          identity |-> identity]

\* What Save serialises: a credential without a password is left out
Snapshot == [reg |-> reg,
             cred |-> IF cred = Blank THEN NoCredential ELSE cred,
             identity |-> identity]

\* Which lines of the image's phones Load keeps, in their order: it skips those
\* whose id parses as empty.
KeptLines ==
  LET lines == image.reg.trusted
      kept == {j \in DOMAIN lines : ReadBack[lines[j]].id # NoId}
  IN  {f \in UNION {[1..n -> kept] : n \in 0..Len(lines)} :
         /\ \A i, j \in DOMAIN f : i < j => f[i] < f[j]
         /\ kept = {f[i] : i \in DOMAIN f}}

\* The phone the i-th kept line was written for, and the one it is read as
Saved(f, i) == image.reg.trusted[f[i]]

Read(f, i) == ReadBack[Saved(f, i)]

\* What Load makes of a sealed image of which it keeps the lines f
Loaded(f) == [reg |-> [image.reg EXCEPT !.trusted = [i \in DOMAIN f |-> Read(f, i)]],
              cred |-> IF image.cred \in Credentials THEN ReadBackCred[image.cred]
                                                     ELSE NoCredential,
              identity |-> image.identity]

\* The lines that come back as a phone with another id, and history's account of
\* them: the phone under the new id is the one that was paired under the old
Misread(f) == {i \in DOMAIN f : Read(f, i).id # Saved(f, i).id}

MisreadFor(f, id) == {Saved(f, i).id : i \in {j \in Misread(f) : Read(f, j).id = id}}

PairedAsRead(f) ==
  [id \in PhoneIds |-> IF MisreadFor(f, id) = {}
                         THEN pairedWith[id]
                         ELSE pairedWith[CHOOSE old \in MisreadFor(f, id) : TRUE]]

\* The constructor's Load.  A vault that is not there or does not decrypt gives
\* a brand new identity; an empty file, or one that is not even base64,
\* "decrypts" to no line at all, so the identity stays empty as well.
Start ==
  /\ ~running
  /\ running' = TRUE
  /\ \/ /\ file \in {"absent", "garbled"}
        /\ identities < MaxIdentities
        /\ reg' = EmptyRegistry /\ cred' = NoCredential
        /\ identity' = identities + 1
        /\ identities' = identities + 1
        /\ stale' = TRUE
        /\ UNCHANGED <<pairedWith, misread>>
     \/ /\ file \in {"empty", "garbled"}
        /\ reg' = EmptyRegistry /\ cred' = NoCredential /\ identity' = 0
        /\ stale' = TRUE
        /\ UNCHANGED <<identities, pairedWith, misread>>
     \/ /\ file = "sealed"
        /\ \E f \in KeptLines :
             /\ reg' = Loaded(f).reg /\ cred' = Loaded(f).cred
             /\ identity' = Loaded(f).identity
             /\ stale' = (Loaded(f) # image)
             /\ misread' = misread \cup {Read(f, i).id : i \in Misread(f)}
             /\ pairedWith' = PairedAsRead(f)
        /\ UNCHANGED identities
  /\ UNCHANGED <<owes, writer, disk>>

\* The write of a whole image
Seal ==
  /\ file' = "sealed"
  /\ image' = Snapshot
  /\ committed' = committed \cup reg.revokedIds
  /\ stale' = FALSE
  /\ UNCHANGED torn

\* CryptProtectData or the open failed: Save returns false, nobody looks
SaveFails(t) ==
  /\ running /\ t \in owes /\ writer = NoThread
  /\ owes' = owes \ {t}
  /\ stale' = TRUE
  /\ UNCHANGED <<running, memory, writer, disk, identities, pairedWith, misread>>

SaveOpens(t) ==
  /\ running /\ t \in owes /\ writer = NoThread
  /\ writer' = t
  /\ file' = "empty" /\ image' = EmptyImage
  /\ UNCHANGED <<running, memory, owes, committed, torn, history>>

SaveWrites(t) ==
  /\ writer = t
  /\ writer' = NoThread
  /\ owes' = owes \ {t}
  /\ \/ Seal
     \/ /\ FaultySaves
        /\ file' = "garbled"
        /\ stale' = TRUE /\ torn' = TRUE
        /\ UNCHANGED <<image, committed>>
  /\ UNCHANGED <<running, memory, identities, pairedWith, misread>>
-----------------------------------------------------------------------------
(* The mutating operations: each holds the mutex, and each but a re-pairing
   leaves its thread owing a Save *)

CanCall(t) == running /\ writer = NoThread /\ t \notin owes

Mutated(t) ==
  /\ owes' = owes \cup {t}
  /\ UNCHANGED <<running, identity, writer, disk, identities, stale, misread>>

\* AddTrustedPhone of a new id
AddTrustedPhone(t, p) ==
  /\ CanCall(t)
  /\ Accepts(reg, p) /\ ~Knows(reg, p.id)
  /\ reg' = WithPhone(reg, p)
  /\ pairedWith' = [pairedWith EXCEPT ![p.id] = identity]
  /\ Mutated(t)
  /\ UNCHANGED cred

\* AddTrustedPhone of a known id overwrites the entry and returns before Save
RepairTrustedPhone(t, p) ==
  /\ CanCall(t)
  /\ Accepts(reg, p) /\ Knows(reg, p.id)
  /\ reg' = WithPhone(reg, p)
  /\ pairedWith' = [pairedWith EXCEPT ![p.id] = identity]
  /\ stale' = TRUE
  /\ UNCHANGED <<running, cred, identity, owes, writer, disk, identities, misread>>

RemoveTrustedPhone(t, id) ==
  /\ CanCall(t)
  /\ Knows(reg, id)
  /\ reg' = WithoutPhone(reg, id)
  /\ Mutated(t)
  /\ UNCHANGED <<cred, pairedWith>>

\* Mutant: the phone goes to the blacklist, and no Save follows
RevokeWithoutSave(t, id) ==
  /\ CanCall(t)
  /\ reg' = WithRevoked(reg, id)
  /\ UNCHANGED <<running, cred, identity, owes, writer, disk, history>>

RevokeTrustedPhone(t, id) ==
  /\ CanCall(t)
  /\ reg' = WithRevoked(reg, id)
  /\ Mutated(t)
  /\ UNCHANGED <<cred, pairedWith>>

SetWindowsCredential(t, c) ==
  /\ CanCall(t)
  /\ cred' = c
  /\ Mutated(t)
  /\ UNCHANGED <<reg, pairedWith>>

ClearWindowsCredential(t) ==
  /\ CanCall(t)
  /\ cred' = NoCredential
  /\ Mutated(t)
  /\ UNCHANGED <<reg, pairedWith>>

\* SetPcDisplayName and UpdateSettings change only text that is not modelled
UpdateSettings(t) ==
  /\ CanCall(t)
  /\ Mutated(t)
  /\ UNCHANGED <<reg, cred, pairedWith>>
-----------------------------------------------------------------------------
(* The end of the process *)

Down ==
  /\ running' = FALSE
  /\ reg' = EmptyRegistry /\ cred' = NoCredential /\ identity' = 0
  /\ owes' = {} /\ writer' = NoThread

\* The destructor of the static instance saves; it may fail like any Save
Quit ==
  /\ running /\ writer = NoThread
  /\ Down
  /\ Seal \/ UNCHANGED <<disk, stale>>
  /\ UNCHANGED <<identities, pairedWith, misread>>

\* The process is killed or loses power
Crash ==
  /\ running
  /\ writer # NoThread => FaultySaves
  /\ Down
  /\ torn' = (torn \/ writer # NoThread)
  /\ UNCHANGED <<file, image, committed, history>>

Operation(t) ==
  \/ \E p \in Phones : AddTrustedPhone(t, p) \/ RepairTrustedPhone(t, p)
  \/ \E id \in PhoneIds : RemoveTrustedPhone(t, id) \/ RevokeTrustedPhone(t, id)
  \/ \E c \in Credentials \cup {Blank} : SetWindowsCredential(t, c)
  \/ ClearWindowsCredential(t)
  \/ UpdateSettings(t)

Next ==
  \/ Start \/ Quit \/ Crash
  \/ \E t \in Threads : \/ Operation(t)
                        \/ SaveFails(t) \/ SaveOpens(t) \/ SaveWrites(t)

Spec == Init /\ [][Next]_vars
-----------------------------------------------------------------------------
(* Properties *)

TypeOK ==
  /\ running \in BOOLEAN
  /\ reg \in Registry
  /\ cred \in Credentials \cup {Blank, NoCredential}
  /\ identity \in 0..MaxIdentities
  /\ owes \subseteq Threads
  /\ writer \in Threads \cup {NoThread}
  /\ file \in {"absent", "empty", "garbled", "sealed"}
  /\ image \in Image
  /\ identities \in 0..MaxIdentities
  /\ stale \in BOOLEAN
  /\ committed \subseteq PhoneIds
  /\ torn \in BOOLEAN
  /\ pairedWith \in [PhoneIds -> 0..MaxIdentities]
  /\ misread \subseteq PhoneIds

\* A phone is never both trusted and blacklisted, neither in memory nor in the
\* vault, however additions and revocations interleave (the checks and the
\* mutation of AddTrustedPhone share one critical section), unless Load once read
\* its id off a line saved for another: a trusted "a|x" comes back as a trusted
\* "a", blacklisted or not, because Load asks no blacklist.
RevokedNotTrusted ==
  \A r \in {reg, image.reg} : RevokedIdsUntrusted(r, misread)

\* The "maximum two phones" of AddTrustedPhone, in memory and in the vault, so
\* that Load's own limit has nothing to cut off; and one entry per id, but for the
\* ids Load read off lines saved for others ("a|b" and "a|c" are both "a" then).
RegistryBounded ==
  \A r \in {reg, image.reg} : IdsUnique(r, misread) /\ WithinLimit(r)

\* A revocation is lost by nothing but a torn Save: as long as none was cut
\* short, one that a Save has put in the vault is in force whenever a KeyStore
\* is up, through concurrent and failed saves, exits, kills and restarts.
RevocationsSurvive == running /\ ~torn => committed \subseteq reg.revokedIds

\* "Permanently revoked": once a Save has put a revocation in the vault, it is
\* in force whenever a KeyStore is up, through concurrent saves of other
\* threads, failed saves, exits and restarts.
RevocationPermanent == running => committed \subseteq reg.revokedIds

\* No update is lost between threads: when no thread is inside an operation and
\* nothing is known to be unsaved, the vault holds what memory holds.
QuiescentVaultIsCurrent ==
  (running /\ owes = {} /\ writer = NoThread /\ ~stale)
    => file = "sealed" /\ image = Snapshot

\* A restart never leaves a trusted phone paired with another PC identity than
\* the one it was paired with: Save writes both in one image, and Load takes
\* both from it or neither.
PairedWithThisIdentity ==
  \A id \in TrustedIds(reg) : pairedWith[id] = identity
-----------------------------------------------------------------------------
(* The inductive invariant *)

\* Both registries keep what PhoneRegistry promises, of all ids but the misread.
GoodRegistries ==
  \A r \in {reg, image.reg} : GoodRegistry(r, misread)

\* A file that is not sealed holds nothing; a running KeyStore has the identity
\* of the sealed one, and every phone was paired with it.
OneIdentity ==
  /\ file # "sealed" => image = EmptyImage
  /\ running /\ file = "sealed" => identity = image.identity
  /\ \A id \in TrustedIds(reg) : pairedWith[id] = identity
  /\ \A id \in TrustedIds(image.reg) : pairedWith[id] = image.identity

\* Only a running KeyStore writes or holds phones, and while it writes the file
\* is truncated.
Stopped ==
  /\ ~running => writer = NoThread /\ owes = {} /\ reg = EmptyRegistry
  /\ writer # NoThread => file = "empty"

\* Where a committed revocation is while no Save was torn: in memory if the process
\* runs, and in the file unless a Save is on its way to put it back.
Committed ==
  /\ torn => FaultySaves
  /\ ~torn =>
      /\ running => committed \subseteq reg.revokedIds
      /\ file = "sealed" => committed \subseteq image.reg.revokedIds
      /\ committed # {} => file = "sealed" \/ writer # NoThread

StoreInv ==
  /\ TypeOK /\ GoodRegistries /\ OneIdentity /\ Stopped /\ Committed
  /\ QuiescentVaultIsCurrent
============================================================================
