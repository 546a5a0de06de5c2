------------------------------ MODULE QrCodeMC ------------------------------
(* Payload lengths on both sides of the versions at which something changes in
   the code: the capacity of the smallest and the largest symbol, the first
   version with version bits, the wider count from version 10, the versions with
   more alignment patterns, version 32 with a step of its own, and the 470 bytes
   of the pairing payload. *)
EXTENDS QrCode

SomeLengths == {0, 17, 18, 106, 154, 230, 231, 271, 470, 1700, 1955, 2953, 2954}
PairingLength == {470}
AllLevels == 0..3
Medium == {1}
SampleBlock == <<64, 23, 181>>

(* Equal penalties, falling, rising, and a tie in the middle. *)
ScoreVectors == {[m \in 0..7 |-> 5], [m \in 0..7 |-> 7 - m], [m \in 0..7 |-> m],
                 [m \in 0..7 |-> IF m \in {3, 6} THEN 2 ELSE 4]}
=============================================================================
