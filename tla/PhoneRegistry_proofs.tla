------------------------ MODULE PhoneRegistry_proofs ------------------------
(***************************************************************************)
(* What the operations on a registry preserve, whoever owns the registry   *)
(* and for any ids, keys and limit, and any ids that were misread.         *)
(***************************************************************************)
EXTENDS PhoneRegistry, FiniteSetTheorems, WellFoundedInduction, TLAPS

\* The empty registry of a new vault keeps every promise.
LEMMA EmptyRegistryGood ==
  ASSUME NEW misread
  PROVE  GoodRegistry(EmptyRegistry, misread)
<1>1. EmptyRegistry \in Registry
  BY DEF EmptyRegistry, Registry
<1>2. /\ RevokedIdsUntrusted(EmptyRegistry, misread)
      /\ IdsUnique(EmptyRegistry, misread)
  BY DEF EmptyRegistry, RevokedIdsUntrusted, TrustedIds, IdsUnique
<1>3. WithinLimit(EmptyRegistry)
  BY RegistryAssumption DEF EmptyRegistry, WithinLimit
<1>. QED  BY <1>1, <1>2, <1>3 DEF GoodRegistry
-----------------------------------------------------------------------------
(* Rows of the list *)

\* The loop over the list stops at an entry with the id, if there is one.
LEMMA RowOfKnown ==
  ASSUME NEW r \in Registry, NEW id, Knows(r, id)
  PROVE  RowOf(r, id) \in 1..Len(r.trusted) /\ PhoneWithId(r, id).id = id
<1>. DEFINE I == {i \in 1..Len(r.trusted) : r.trusted[i].id = id}
<1>1. I \subseteq Nat /\ I # {}
  BY DEF Registry, Knows, TrustedIds
<1>. HIDE DEF I
<1>2. PICK m \in I : \A n \in I : ~(<<n, m>> \in OpToRel(<, Nat))
  BY <1>1, NatLessThanWellFounded, WFMin, Zenon
<1>3. \A n \in I : m <= n
  <2>1. OpToRel(<, Nat) = {ss \in Nat \X Nat : ss[1] < ss[2]}
    BY DEF OpToRel
  <2>2. ASSUME NEW n \in I, n < m
        PROVE  FALSE
    <3>1. n \in Nat /\ m \in Nat
      BY <1>1
    <3>2. <<n, m>> \in Nat \X Nat /\ <<n, m>>[1] = n /\ <<n, m>>[2] = m
      BY <3>1
    <3>3. <<n, m>> \in OpToRel(<, Nat)
      BY <2>1, <2>2, <3>2
    <3>. QED  BY <1>2, <2>2, <3>3
  <2>. QED  BY <1>1, <2>2
<1>4. Min(I) \in I
  BY <1>2, <1>3 DEF Min
<1>5. RowOf(r, id) = Min(I)
  BY <1>1 DEF RowOf, SelectInSeq, I
<1>. QED  BY <1>4, <1>5 DEF I, PhoneWithId

\* What erasing a row leaves.
LEMMA RowErased ==
  ASSUME NEW S, NEW s \in Seq(S), NEW i \in 1..Len(s)
  PROVE  /\ RemoveAt(s, i) \in Seq(S)
         /\ Len(RemoveAt(s, i)) = Len(s) - 1
         /\ \A j \in 1..(Len(s) - 1) :
              RemoveAt(s, i)[j] = IF j < i THEN s[j] ELSE s[j + 1]
<1>. DEFINE before == SubSeq(s, 1, i - 1)
            after == SubSeq(s, i + 1, Len(s))
<1>1. /\ before \in Seq(S) /\ Len(before) = i - 1
      /\ \A j \in 1..(i - 1) : before[j] = s[j]
  OBVIOUS
<1>2. /\ after \in Seq(S) /\ Len(after) = Len(s) - i
      /\ \A j \in 1..(Len(s) - i) : after[j] = s[i + j]
  OBVIOUS
<1>3. RemoveAt(s, i) = before \o after
  BY DEF RemoveAt
<1>. HIDE DEF before, after
<1>4. /\ before \o after \in Seq(S)
      /\ Len(before \o after) = Len(s) - 1
  BY <1>1, <1>2
<1>5. ASSUME NEW j \in 1..(Len(s) - 1)
      PROVE  (before \o after)[j] = IF j < i THEN s[j] ELSE s[j + 1]
  <2>1. CASE j < i
    BY <1>1, <1>2, <2>1
  <2>2. CASE j >= i
    <3>1. j - (i - 1) \in 1..(Len(s) - i) /\ i + (j - (i - 1)) = j + 1
      BY <2>2
    <3>2. (before \o after)[j] = after[j - (i - 1)]
      BY <1>1, <1>2, <2>2
    <3>. QED  BY <1>2, <2>2, <3>1, <3>2
  <2>3. j < i \/ j >= i
    OBVIOUS
  <2>. QED  BY <2>1, <2>2, <2>3
<1>. QED  BY <1>3, <1>4, <1>5

\* Every row that is left was a row before, no two were the same, and what is erased
\* of an id that only one row has is all of it.
LEMMA ErasedRows ==
  ASSUME NEW r \in Registry, NEW id
  PROVE  /\ Erased(r, id) \in Seq(Phones)
         /\ Len(Erased(r, id)) \in Nat /\ Len(Erased(r, id)) <= Len(r.trusted)
         /\ \A j \in 1..Len(Erased(r, id)) :
              /\ (IF Knows(r, id) /\ j >= RowOf(r, id) THEN j + 1 ELSE j) \in 1..Len(r.trusted)
              /\ Erased(r, id)[j] =
                   r.trusted[IF Knows(r, id) /\ j >= RowOf(r, id) THEN j + 1 ELSE j]
<1>. DEFINE s == r.trusted
            i == RowOf(r, id)
<1>1. s \in Seq(Phones)
  BY DEF Registry
<1>2. CASE ~Knows(r, id)
  BY <1>1, <1>2 DEF Erased
<1>3. CASE Knows(r, id)
  <2>1. i \in 1..Len(s)
    BY <1>3, RowOfKnown
  <2>2. Erased(r, id) = RemoveAt(s, i)
    BY <1>3 DEF Erased
  <2>. HIDE DEF s, i
  <2>3. /\ RemoveAt(s, i) \in Seq(Phones)
        /\ Len(RemoveAt(s, i)) = Len(s) - 1
        /\ \A j \in 1..(Len(s) - 1) :
             RemoveAt(s, i)[j] = IF j < i THEN s[j] ELSE s[j + 1]
    BY <1>1, <2>1, RowErased
  <2>4. Len(s) \in Nat
    BY <1>1
  <2>5. ASSUME NEW j \in 1..(Len(s) - 1)
        PROVE  /\ (IF j >= i THEN j + 1 ELSE j) \in 1..Len(s)
               /\ RemoveAt(s, i)[j] = s[IF j >= i THEN j + 1 ELSE j]
    BY <2>1, <2>3, <2>4
  <2>6. /\ RemoveAt(s, i) \in Seq(Phones)
        /\ Len(RemoveAt(s, i)) \in Nat /\ Len(RemoveAt(s, i)) <= Len(s)
        /\ \A j \in 1..Len(RemoveAt(s, i)) :
             /\ (IF j >= i THEN j + 1 ELSE j) \in 1..Len(s)
             /\ RemoveAt(s, i)[j] = s[IF j >= i THEN j + 1 ELSE j]
    BY <2>1, <2>3, <2>4, <2>5
  <2>. QED  BY <1>3, <2>2, <2>6 DEF s, i
<1>. QED  BY <1>2, <1>3

\* So erasing adds no id, repeats none, and keeps the limit.
LEMMA ErasedKeeps ==
  ASSUME NEW r, NEW misread, GoodRegistry(r, misread), NEW id
  PROVE  /\ Erased(r, id) \in Seq(Phones) /\ Len(Erased(r, id)) <= MaxPhones
         /\ \A j \in DOMAIN Erased(r, id) : Erased(r, id)[j].id \in TrustedIds(r)
         /\ \A j, k \in DOMAIN Erased(r, id) :
              Erased(r, id)[j].id = Erased(r, id)[k].id =>
                j = k \/ Erased(r, id)[j].id \in misread
<1>. DEFINE s == r.trusted
            t == Erased(r, id)
            old(j) == IF Knows(r, id) /\ j >= RowOf(r, id) THEN j + 1 ELSE j
<1>. USE DEF GoodRegistry
<1>1. /\ t \in Seq(Phones) /\ Len(t) \in Nat /\ Len(t) <= Len(s)
      /\ \A j \in 1..Len(t) : old(j) \in 1..Len(s) /\ t[j] = s[old(j)]
  BY ErasedRows
<1>2. s \in Seq(Phones) /\ Len(s) \in Nat /\ Len(s) <= MaxPhones /\ MaxPhones \in Nat
  BY RegistryAssumption DEF Registry, WithinLimit
<1>3. DOMAIN s = 1..Len(s) /\ DOMAIN t = 1..Len(t)
  BY <1>1, <1>2
<1>4. \A j, k \in DOMAIN s : s[j].id = s[k].id => j = k \/ s[j].id \in misread
  BY DEF IdsUnique
<1>5. \A j \in DOMAIN s : s[j].id \in TrustedIds(r)
  BY DEF TrustedIds
<1>6. \A j, k \in 1..Len(t) : old(j) = old(k) => j = k
  <2>1. CASE ~Knows(r, id)
    BY <2>1
  <2>2. CASE Knows(r, id)
    <3>1. RowOf(r, id) \in 1..Len(s)
      BY <2>2, RowOfKnown
    <3>. HIDE DEF t, s
    <3>. QED  BY <2>2, <3>1
  <2>. QED  BY <2>1, <2>2
<1>. HIDE DEF s, t, old
<1>7. \A j \in DOMAIN t : t[j].id \in TrustedIds(r)
  BY <1>1, <1>3, <1>5
<1>8. \A j, k \in DOMAIN t : t[j].id = t[k].id => j = k \/ t[j].id \in misread
  BY <1>1, <1>3, <1>4, <1>6
<1>9. t \in Seq(Phones) /\ Len(t) <= MaxPhones
  BY <1>1, <1>2
<1>. QED  BY <1>7, <1>8, <1>9 DEF t
-----------------------------------------------------------------------------
(* The operations *)

\* AddTrustedPhone of an accepted phone keeps every promise: it refuses the
\* blacklisted, it finds a place free, and overwriting an entry repeats no id.
\* The blacklist stays, and nobody but the phone is new.
LEMMA WithPhoneGood ==
  ASSUME NEW r, NEW misread, GoodRegistry(r, misread), NEW p \in Phones, Accepts(r, p)
  PROVE  /\ GoodRegistry(WithPhone(r, p), misread)
         /\ WithPhone(r, p).revokedIds = r.revokedIds
         /\ TrustedIds(WithPhone(r, p)) \subseteq TrustedIds(r) \cup {p.id}
<1>. DEFINE s == r.trusted
            i == RowOf(r, p.id)
            t == IF Knows(r, p.id) THEN ReplaceAt(s, i, p) ELSE Append(s, p)
<1>. USE DEF GoodRegistry
<1>1. r \in Registry /\ s \in Seq(Phones) /\ Len(s) \in Nat /\ DOMAIN s = 1..Len(s)
  BY DEF Registry
<1>2. WithPhone(r, p) = [trusted |-> t, revokedIds |-> r.revokedIds,
                         revokedKeys |-> r.revokedKeys]
  <2>1. r = [trusted |-> r.trusted, revokedIds |-> r.revokedIds, revokedKeys |-> r.revokedKeys]
    BY <1>1 DEF Registry
  <2>2. WithPhone(r, p) = [r EXCEPT !.trusted = t]
    BY DEF WithPhone
  <2>. HIDE DEF t
  <2>. QED  BY <2>1, <2>2
<1>3. Len(s) < MaxPhones /\ p.id \notin r.revokedIds /\ MaxPhones \in Nat
  BY <1>1, RegistryAssumption DEF Accepts, Full, PhoneRevoked
<1>4. \A j, k \in 1..Len(s) : s[j].id = s[k].id => j = k \/ s[j].id \in misread
  BY <1>1 DEF IdsUnique
<1>5. \A j \in 1..Len(s) : s[j].id \in TrustedIds(r)
  BY <1>1 DEF TrustedIds
<1>6. /\ t \in Seq(Phones) /\ Len(t) <= MaxPhones /\ DOMAIN t = 1..Len(t)
      /\ \A j \in DOMAIN t : t[j].id \in TrustedIds(r) \cup {p.id}
      /\ \A j, k \in DOMAIN t : t[j].id = t[k].id => j = k \/ t[j].id \in misread
  <2>1. CASE Knows(r, p.id)
    <3>1. i \in 1..Len(s) /\ s[i].id = p.id
      BY <1>1, <2>1, RowOfKnown DEF PhoneWithId
    <3>2. t = [s EXCEPT ![i] = p]
      BY <2>1 DEF ReplaceAt
    <3>. HIDE DEF t, i
    <3>3. t \in Seq(Phones) /\ Len(t) = Len(s) /\ DOMAIN t = 1..Len(s)
      BY <1>1, <3>1, <3>2
    <3>4. \A j \in 1..Len(s) : t[j].id = s[j].id
      BY <1>1, <3>1, <3>2
    <3>. QED  BY <1>1, <1>3, <1>4, <1>5, <3>3, <3>4
  <2>2. CASE ~Knows(r, p.id)
    <3>1. t = Append(s, p)
      BY <2>2
    <3>2. \A j \in 1..Len(s) : s[j].id # p.id
      BY <1>5, <2>2 DEF Knows
    <3>. HIDE DEF t, i, s
    <3>3. t \in Seq(Phones) /\ Len(t) = Len(s) + 1 /\ DOMAIN t = 1..(Len(s) + 1)
      BY <1>1, <3>1
    <3>4. t[Len(s) + 1] = p /\ \A j \in 1..Len(s) : t[j] = s[j]
      BY <1>1, <3>1
    <3>5. \A j \in 1..(Len(s) + 1) : j \in 1..Len(s) \/ j = Len(s) + 1
      BY <1>1
    <3>6. Len(t) <= MaxPhones
      BY <1>1, <1>3, <3>3
    <3>7. \A j, k \in 1..(Len(s) + 1) : t[j].id = t[k].id => j = k \/ t[j].id \in misread
      BY <1>4, <3>2, <3>4, <3>5
    <3>8. \A j \in 1..(Len(s) + 1) : t[j].id \in TrustedIds(r) \cup {p.id}
      BY <1>5, <3>4, <3>5
    <3>. QED  BY <3>3, <3>6, <3>7, <3>8
  <2>. QED  BY <2>1, <2>2
<1>. HIDE DEF s, i, t
<1>7. TrustedIds(WithPhone(r, p)) \subseteq TrustedIds(r) \cup {p.id}
  BY <1>2, <1>6 DEF TrustedIds
<1>8. WithPhone(r, p) \in Registry
  BY <1>1, <1>2, <1>6 DEF Registry
<1>9. RevokedIdsUntrusted(WithPhone(r, p), misread)
  BY <1>2, <1>3, <1>7 DEF RevokedIdsUntrusted
<1>10. IdsUnique(WithPhone(r, p), misread) /\ WithinLimit(WithPhone(r, p))
  BY <1>2, <1>6 DEF IdsUnique, WithinLimit
<1>. QED  BY <1>2, <1>7, <1>8, <1>9, <1>10

\* A registry whose list lost rows keeps every promise, if what its blacklist gained
\* has no row any more or was misread.
LEMMA FewerRowsGood ==
  ASSUME NEW r, NEW misread, GoodRegistry(r, misread), NEW id,
         NEW ids \in SUBSET PhoneIds, NEW keys \in SUBSET Keys,
         \A j \in DOMAIN Erased(r, id) :
           Erased(r, id)[j].id \in ids => Erased(r, id)[j].id \in r.revokedIds \cup misread
  PROVE  LET q == [trusted |-> Erased(r, id), revokedIds |-> ids, revokedKeys |-> keys]
         IN  GoodRegistry(q, misread) /\ TrustedIds(q) \subseteq TrustedIds(r)
<1>. DEFINE t == Erased(r, id)
            q == [trusted |-> t, revokedIds |-> ids, revokedKeys |-> keys]
<1>1. /\ t \in Seq(Phones) /\ Len(t) <= MaxPhones
      /\ \A j \in DOMAIN t : t[j].id \in TrustedIds(r)
      /\ \A j, k \in DOMAIN t : t[j].id = t[k].id => j = k \/ t[j].id \in misread
  BY ErasedKeeps
<1>2. \A j \in DOMAIN t : t[j].id \in ids => t[j].id \in r.revokedIds \cup misread
  OBVIOUS
<1>. HIDE DEF t
<1>3. q \in Registry /\ IdsUnique(q, misread) /\ WithinLimit(q)
  BY <1>1 DEF Registry, IdsUnique, WithinLimit
<1>4. TrustedIds(q) \subseteq TrustedIds(r)
  BY <1>1 DEF TrustedIds
<1>5. TrustedIds(r) \cap r.revokedIds \subseteq misread
  BY DEF GoodRegistry, RevokedIdsUntrusted
<1>6. RevokedIdsUntrusted(q, misread)
  BY <1>1, <1>2, <1>5 DEF RevokedIdsUntrusted, TrustedIds
<1>. QED  BY <1>3, <1>4, <1>6 DEF GoodRegistry, t

\* RemoveTrustedPhone keeps every promise and the blacklist.
LEMMA WithoutPhoneGood ==
  ASSUME NEW r, NEW misread, GoodRegistry(r, misread), NEW id \in PhoneIds
  PROVE  /\ GoodRegistry(WithoutPhone(r, id), misread)
         /\ WithoutPhone(r, id).revokedIds = r.revokedIds
         /\ TrustedIds(WithoutPhone(r, id)) \subseteq TrustedIds(r)
<1>1. r = [trusted |-> r.trusted, revokedIds |-> r.revokedIds, revokedKeys |-> r.revokedKeys]
      /\ r.revokedIds \in SUBSET PhoneIds /\ r.revokedKeys \in SUBSET Keys
  BY DEF GoodRegistry, Registry
<1>2. WithoutPhone(r, id) = [trusted |-> Erased(r, id), revokedIds |-> r.revokedIds,
                             revokedKeys |-> r.revokedKeys]
  BY <1>1 DEF WithoutPhone
<1>. QED  BY <1>1, <1>2, FewerRowsGood

\* RevokeTrustedPhone keeps every promise, erasing the row of what it blacklists (an
\* id that has another row was misread), and adds the id to the blacklist whether or
\* not a phone had it.
LEMMA WithRevokedGood ==
  ASSUME NEW r, NEW misread, GoodRegistry(r, misread), NEW id \in PhoneIds
  PROVE  /\ GoodRegistry(WithRevoked(r, id), misread)
         /\ WithRevoked(r, id).revokedIds = r.revokedIds \cup {id}
         /\ TrustedIds(WithRevoked(r, id)) \subseteq TrustedIds(r)
<1>. DEFINE s == r.trusted
            t == Erased(r, id)
            i == RowOf(r, id)
            dead == IF Knows(r, id) THEN {PhoneWithId(r, id).key} \ {NoKey} ELSE {}
<1>1. /\ r \in Registry /\ s \in Seq(Phones) /\ DOMAIN s = 1..Len(s) /\ Len(s) \in Nat
      /\ r.revokedIds \in SUBSET PhoneIds /\ r.revokedKeys \in SUBSET Keys
  BY DEF GoodRegistry, Registry
<1>2. dead \subseteq Keys
  <2>1. CASE Knows(r, id)
    <3>1. i \in 1..Len(s)
      BY <1>1, <2>1, RowOfKnown
    <3>2. s[i] \in Phones
      BY <1>1, <3>1
    <3>. QED  BY <2>1, <3>2, RegistryAssumption DEF PhoneWithId
  <2>. QED  BY <2>1
<1>3. WithRevoked(r, id) = [trusted |-> t, revokedIds |-> r.revokedIds \cup {id},
                            revokedKeys |-> r.revokedKeys \cup dead]
  BY DEF WithRevoked
<1>4. ASSUME NEW j \in DOMAIN t, t[j].id \in r.revokedIds \cup {id}
      PROVE  t[j].id \in r.revokedIds \cup misread
  <2>1. CASE t[j].id = id /\ Knows(r, id)
    <3>1. i \in 1..Len(s) /\ s[i].id = id
      BY <1>1, <2>1, RowOfKnown DEF PhoneWithId
    <3>2. t \in Seq(Phones) /\ Len(t) \in Nat
      BY <1>1, ErasedRows
    <3>3. j \in 1..Len(t)
      BY <3>2
    <3>4. /\ (IF j >= i THEN j + 1 ELSE j) \in 1..Len(s)
          /\ t[j] = s[IF j >= i THEN j + 1 ELSE j]
      BY <1>1, <2>1, <3>3, ErasedRows
    <3>5. (IF j >= i THEN j + 1 ELSE j) # i
      BY <3>1, <3>3
    <3>6. \A k, l \in 1..Len(s) : s[k].id = s[l].id => k = l \/ s[k].id \in misread
      BY <1>1 DEF GoodRegistry, IdsUnique
    <3>. HIDE DEF s, t, i
    <3>. QED  BY <2>1, <3>1, <3>4, <3>5, <3>6
  <2>2. CASE t[j].id = id /\ ~Knows(r, id)
    BY <2>2, ErasedKeeps DEF Knows
  <2>. QED  BY <1>4, <2>1, <2>2
<1>. HIDE DEF dead, t, s, i
<1>5. r.revokedIds \cup {id} \in SUBSET PhoneIds /\ r.revokedKeys \cup dead \in SUBSET Keys
  BY <1>1, <1>2
<1>. QED  BY <1>3, <1>4, <1>5, FewerRowsGood DEF t
=============================================================================
