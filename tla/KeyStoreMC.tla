----------------------------- MODULE KeyStoreMC -----------------------------
(* KeyStore on two threads and three phone ids, one more than fit: an ordinary
   one, one that is the ordinary one with a separator after it and reads back as
   it, and the empty one.  There is one key, and every name holds separators too,
   so that no phone keeps its key through a reload; the credential's password
   begins with one and reads back as none.  The threads are interchangeable. *)
EXTENDS KeyStore, TLC

CONSTANTS i1, bar

SomePhones == [id : {bar}, key : Keys] \cup [id : {i1, NoId}, key : {NoKey}]

CutAtTheBar ==
  [p \in Phones |-> IF p.id = NoId THEN p ELSE [id |-> i1, key |-> NoKey]]

BarInPassword == [c \in Credentials |-> Blank]

\* What tells states apart: all but whom a phone was paired with that is trusted
\* neither in memory nor in the vault, which no action and no invariant reads
PairedNow == [id \in TrustedIds(reg) \cup TrustedIds(image.reg) |-> pairedWith[id]]

Seen == <<running, memory, owes, writer, disk, identities, stale, PairedNow, misread>>

Symmetry == Permutations(Threads)
============================================================================
