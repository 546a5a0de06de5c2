----------------------------- MODULE PairingMC -----------------------------
(* Pairing with one place for a phone: two phones with the same key ask for
   it over two sessions whose lifetime is one tick.  Phones and threads are
   interchangeable. *)
EXTENDS Pairing, TLC

SharingPhones == [id : PhoneIds, key : Keys]

Symmetry == Permutations(Threads) \cup Permutations(PhoneIds)
============================================================================
