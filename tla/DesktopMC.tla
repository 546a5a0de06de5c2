----------------------------- MODULE DesktopMC -----------------------------
(* Desktop with two instances over one vault of up to two phones.  Instances are
   interchangeable, and so are phones.  What follows on an overlap and a torn Save
   in one behaviour is left to the proofs. *)
EXTENDS Desktop

Symmetry == Permutations(Apps) \cup Permutations(Phones)

OneTrouble == ~(overlapped /\ torn)
============================================================================
