-------------------------- MODULE ChallengeLedger --------------------------
(***************************************************************************)
(* What the authentication core promises about challenges, with no word of *)
(* threads, blacklists or clocks: a challenge is issued once, accepted at  *)
(* most once while it is open, and every acceptance is announced to the    *)
(* named pipe at most once.                                                *)
(***************************************************************************)
EXTENDS Naturals

CONSTANT MaxChallenges    \* bound on the challenges issued

Challenges == 1..MaxChallenges

VARIABLES
  issued,      \* challenges are numbered in the order they are issued
  open,        \* those that can still be accepted
  accepts,     \* how often each was accepted
  announces    \* how often its acceptance was announced

ledgerVars == <<issued, open, accepts, announces>>

Init ==
  /\ issued = 0
  /\ open = {}
  /\ accepts = [c \in Challenges |-> 0]
  /\ announces = [c \in Challenges |-> 0]

Issue ==
  /\ issued < MaxChallenges
  /\ issued' = issued + 1
  /\ open' = open \cup {issued + 1}
  /\ UNCHANGED <<accepts, announces>>

Accept(c) ==
  /\ c \in open
  /\ open' = open \ {c}
  /\ accepts' = [accepts EXCEPT ![c] = @ + 1]
  /\ UNCHANGED <<issued, announces>>

Announce(c) ==
  /\ announces[c] < accepts[c]
  /\ announces' = [announces EXCEPT ![c] = @ + 1]
  /\ UNCHANGED <<issued, open, accepts>>

Next == Issue \/ \E c \in Challenges : Accept(c) \/ Announce(c)

Spec == Init /\ [][Next]_ledgerVars

TypeOK ==
  /\ issued \in 0..MaxChallenges
  /\ open \subseteq Challenges
  /\ accepts \in [Challenges -> Nat]
  /\ announces \in [Challenges -> Nat]

\* The single use of a challenge ("consume nonce immediately").
SingleUse ==
  \A c \in Challenges : accepts[c] <= 1 /\ announces[c] <= accepts[c]

\* SingleUse strengthened to an inductive invariant: what is open is issued
\* and was never accepted, and what is not issued was never accepted.
LedgerInv ==
  /\ TypeOK
  /\ open \subseteq 1..issued
  /\ \A c \in Challenges :
       /\ accepts[c] <= 1
       /\ announces[c] <= accepts[c]
       /\ (c \in open \/ c > issued) => accepts[c] = 0
============================================================================
