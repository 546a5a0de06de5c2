----------------------------- MODULE AuthFlowMC -----------------------------
(* AuthFlow on two handler threads, two phones that may share a key, two
   challenges, a replay set of one nonce and a window of one tick. *)
EXTENDS AuthFlow, TLC

SharingPhones == [id : PhoneIds, key : Keys]

Symmetry == Permutations(Handlers) \cup Permutations(PhoneIds)
============================================================================
