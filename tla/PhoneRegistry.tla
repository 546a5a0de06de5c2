--------------------------- MODULE PhoneRegistry ---------------------------
(***************************************************************************)
(* The registry KeyStore keeps in memory (storage/KeyStore.h): the trusted *)
(* phones and the two blacklists, and the pure effect of each operation on *)
(* them.  The state machines that own or consult a registry extend this    *)
(* module.  A phone is its id and its public key; its name, status and     *)
(* last-seen text decide nothing.  The list of phones keeps its order,     *)
(* because every operation takes the first entry with an id, and a vault   *)
(* can be read back with two.  The blacklist's substring match is modelled *)
(* as equality, which is what it comes to for whole keys.                  *)
(***************************************************************************)
EXTENDS Naturals, FiniteSets, SequencesExt

CONSTANTS
  PhoneIds,   \* the phone ids that occur
  Keys,       \* the nonempty public keys that occur
  NoKey,      \* the empty publicKeyPem
  Phones,     \* the phones that ask to be trusted
  MaxPhones   \* the literal 2 in KeyStore.cpp and AuthCoordinator.cpp

ASSUME RegistryAssumption ==
  /\ NoKey \notin Keys
  /\ Phones \subseteq [id : PhoneIds, key : Keys \cup {NoKey}]
  /\ MaxPhones \in Nat \ {0}

Registry == [trusted : Seq(Phones),
             revokedIds : SUBSET PhoneIds,
             revokedKeys : SUBSET Keys]

EmptyRegistry == [trusted |-> <<>>, revokedIds |-> {}, revokedKeys |-> {}]
-----------------------------------------------------------------------------
TrustedIds(r) == {r.trusted[i].id : i \in DOMAIN r.trusted}

\* GetTrustedPhone found the id
Knows(r, id) == id \in TrustedIds(r)

\* The first entry with the id, which every loop over the list stops at
RowOf(r, id) == SelectInSeq(r.trusted, LAMBDA p : p.id = id)

PhoneWithId(r, id) == r.trusted[RowOf(r, id)]

PhoneRevoked(r, id) == id \in r.revokedIds

KeyRevoked(r, key) == key \in r.revokedKeys

Full(r) == Len(r.trusted) >= MaxPhones

\* Mutant: the limit off by one
AcceptsOneMore(r, p) ==
  /\ Len(r.trusted) <= MaxPhones
  /\ ~PhoneRevoked(r, p.id)
  /\ ~KeyRevoked(r, p.key)

\* The checks of AddTrustedPhone, made under the lock it mutates under
Accepts(r, p) == ~Full(r) /\ ~PhoneRevoked(r, p.id) /\ ~KeyRevoked(r, p.key)

\* AddTrustedPhone: overwrite the entry with the same id, or append
WithPhone(r, p) ==
  [r EXCEPT !.trusted = IF Knows(r, p.id) THEN ReplaceAt(@, RowOf(r, p.id), p)
                                          ELSE Append(@, p)]

\* The list without its first entry with the id
Erased(r, id) ==
  IF Knows(r, id) THEN RemoveAt(r.trusted, RowOf(r, id)) ELSE r.trusted

WithoutPhone(r, id) == [r EXCEPT !.trusted = Erased(r, id)]

\* Mutant: revoking blacklists but forgets to erase the phone
RevokedButKept(r, id) == [r EXCEPT !.revokedIds = @ \cup {id}]

\* Mutant: the key is blacklisted without asking whether there is one
RevokedWithEmptyKey(r, id) ==
  [trusted |-> Erased(r, id),
   revokedIds |-> r.revokedIds \cup {id},
   revokedKeys |-> r.revokedKeys
                     \cup (IF Knows(r, id) THEN {PhoneWithId(r, id).key} ELSE {})]

\* RevokeTrustedPhone: the id is blacklisted even when no phone has it, the
\* key only when the phone was trusted and had one
WithRevoked(r, id) ==
  [trusted |-> Erased(r, id),
   revokedIds |-> r.revokedIds \cup {id},
   revokedKeys |-> r.revokedKeys
                     \cup (IF Knows(r, id) THEN {PhoneWithId(r, id).key} \ {NoKey} ELSE {})]
-----------------------------------------------------------------------------
\* What the registry promises, for the invariants of the modules that own one, of
\* all ids but those that were not read back as they were written
RevokedIdsUntrusted(r, misread) == TrustedIds(r) \cap r.revokedIds \subseteq misread

IdsUnique(r, misread) ==
  \A i, j \in DOMAIN r.trusted :
    r.trusted[i].id = r.trusted[j].id => i = j \/ r.trusted[i].id \in misread

WithinLimit(r) == Len(r.trusted) <= MaxPhones

GoodRegistry(r, misread) ==
  /\ r \in Registry /\ RevokedIdsUntrusted(r, misread)
  /\ IdsUnique(r, misread) /\ WithinLimit(r)
============================================================================
