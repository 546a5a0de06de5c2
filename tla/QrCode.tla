------------------------------- MODULE QrCode -------------------------------
(* The QR code of the pairing dialog, src/src/crypto/QrCode.cpp: encodeText
   chooses version and level for a payload of numChars bytes, the constructor
   draws the function patterns, adds error correction and interleaves the
   blocks, writes the codewords in the zig-zag scan and chooses a mask.

   The bytes of the payload are abstracted: a codeword is the pair of its block
   and its index in the block, one block of sample bytes stands for the others
   in the error correction, and the penalties of the eight masked symbols are
   one of the vectors in Scores.  Positions and the colours of the function
   patterns are the code's.

   The specification's parts have names of their own (QrInit, QrNext, qrVars), so
   that a module of proofs can take this one beside Desktop. *)
EXTENDS ReedSolomon

CONSTANTS Lengths,      \* payload lengths to encode, in bytes
          Levels,       \* requested levels: 0 LOW, 1 MEDIUM, 2 QUARTILE, 3 HIGH
          Sample,       \* the data bytes of the block that is computed
          Scores        \* penalty vectors: functions from 0..7 to Nat

ASSUME QrAssumption ==
  /\ Lengths \subseteq Nat
  /\ Levels \subseteq 0..3
  /\ Sample \in Seq(Byte)
  /\ Scores \subseteq [0..7 -> Nat]

MaxVersion == 40

(* ECC_CODEWORDS_PER_BLOCK and NUM_ERROR_CORRECTION_BLOCKS: level, version. *)
EccCodewordsPerBlock == <<
  <<7, 10, 15, 20, 26, 18, 20, 24, 30, 18, 20, 24, 26, 30, 22, 24, 28, 30, 28, 28, 28, 28, 30, 30, 26, 28, 30, 30, 30, 30, 30, 30, 30, 30, 30, 30, 30, 30, 30, 30>>,
  <<10, 16, 26, 18, 24, 16, 18, 22, 22, 26, 30, 22, 22, 24, 24, 28, 28, 26, 26, 26, 26, 28, 28, 28, 28, 28, 28, 28, 28, 28, 28, 28, 28, 28, 28, 28, 28, 28, 28, 28>>,
  <<13, 22, 18, 26, 18, 24, 18, 22, 20, 24, 28, 26, 24, 20, 30, 24, 28, 28, 26, 30, 28, 30, 30, 30, 30, 28, 30, 30, 30, 30, 30, 30, 30, 30, 30, 30, 30, 30, 30, 30>>,
  <<17, 28, 22, 16, 22, 28, 26, 26, 24, 28, 24, 28, 22, 24, 24, 30, 28, 28, 26, 28, 30, 24, 30, 30, 30, 30, 30, 30, 30, 30, 30, 30, 30, 30, 30, 30, 30, 30, 30, 30>> >>

NumErrorCorrectionBlocks == <<
  <<1, 1, 1, 1, 1, 2, 2, 2, 2, 4, 4, 4, 4, 4, 6, 6, 6, 6, 7, 8, 8, 9, 9, 10, 12, 12, 12, 13, 14, 15, 16, 17, 18, 19, 19, 20, 21, 22, 24, 25>>,
  <<1, 1, 1, 2, 2, 4, 4, 4, 5, 5, 5, 8, 9, 9, 10, 10, 11, 13, 14, 16, 17, 17, 18, 20, 21, 23, 25, 26, 28, 29, 31, 33, 35, 37, 38, 40, 43, 45, 47, 49>>,
  <<1, 1, 2, 2, 4, 4, 6, 6, 8, 8, 8, 10, 12, 16, 12, 17, 16, 18, 21, 20, 23, 23, 25, 27, 29, 34, 34, 35, 38, 40, 43, 45, 48, 51, 53, 56, 59, 62, 65, 68>>,
  <<1, 1, 2, 4, 4, 4, 5, 6, 8, 8, 11, 11, 16, 16, 18, 16, 19, 21, 25, 25, 25, 34, 30, 32, 35, 37, 40, 42, 45, 48, 51, 54, 57, 60, 63, 66, 70, 72, 74, 77>> >>

EccLen(v, l) == EccCodewordsPerBlock[l + 1][v]
NumBlocks(v, l) == NumErrorCorrectionBlocks[l + 1][v]

(* QrCode::getNumRawDataModules and getNumDataCodewords. *)
NumRawDataModules(v) ==
  LET numAlign == v \div 7 + 2
  IN (16 * v + 128) * v + 64
       - (IF v >= 2 THEN (25 * numAlign - 10) * numAlign - 55 ELSE 0)
       - (IF v >= 7 THEN 36 ELSE 0)

RawCodewords(v) == NumRawDataModules(v) \div 8

NumDataCodewords(v, l) == RawCodewords(v) - EccLen(v, l) * NumBlocks(v, l)

CapacityBits(v, l) == 8 * NumDataCodewords(v, l)

(* A mutant: version 10 keeps the short count. *)
CountBitsOneVersionLate(v) == IF v <= 10 THEN 8 ELSE 16

(* QrSegment::getTotalBits of the one byte segment makeSegments builds. *)
CountBits(v) == IF v < 10 THEN 8 ELSE 16

TotalBits(n, v) ==
  IF n >= 2^CountBits(v) THEN -1 ELSE 4 + CountBits(v) + 8 * n

Fits(n, v, l) == TotalBits(n, v) # -1 /\ TotalBits(n, v) <= CapacityBits(v, l)

Size(v) == 4 * v + 17

-----------------------------------------------------------------------------
(* Function patterns: where they lie and which of their modules are black. *)

Square(x, y, r) == ((x - r)..(x + r)) \X ((y - r)..(y + r))
Abs(n) == IF n < 0 THEN -n ELSE n
Ring(m, x, y) == Max({Abs(m[1] - x), Abs(m[2] - y)})

(* QrCode::getAlignmentPatternPositions *)
AlignmentPositions(v) ==
  LET num  == v \div 7 + 2
      step == IF v = 32 THEN 26
              ELSE ((4 * v + 2 * num + 1) \div (2 * num - 2)) * 2
  IN IF v = 1 THEN <<>>
     ELSE [i \in 1..num |-> IF i = 1 THEN 6 ELSE 4 * v + 10 - (num - i) * step]

(* The format and version words: level or version, then its check bits. *)
FormatBits(l, m) ==
  LET data == 8 * l + m
      rem  == FoldLeft(LAMBDA r, i : (2 * r) ^^ ((r \div 512) * 1335), data,
                       [i \in 1..10 |-> i])
  IN (1024 * data + rem) ^^ 21522

VersionBits(v) ==
  LET rem == FoldLeft(LAMBDA r, i : (2 * r) ^^ ((r \div 2048) * 7973), v,
                      [i \in 1..12 |-> i])
  IN 4096 * v + rem

(* Where bit i of the two copies of the format word lies. *)
FormatModule(v, copy, i) ==
  CASE copy = 1 /\ i <= 5 -> <<8, i>>
    [] copy = 1 /\ i \in {6, 7} -> <<8, i + 1>>
    [] copy = 1 /\ i = 8 -> <<7, 8>>
    [] copy = 1 /\ i > 8 -> <<14 - i, 8>>
    [] copy = 2 /\ i < 8 -> <<Size(v) - 1 - i, 8>>
    [] copy = 2 /\ i >= 8 -> <<8, Size(v) - 15 + i>>

VersionModule(v, copy, i) ==
  LET a == Size(v) - 11 + (i % 3)
      b == i \div 3
  IN IF copy = 1 THEN <<a, b>> ELSE <<b, a>>

DarkModule(v) == <<8, Size(v) - 8>>

FormatCells(v) ==
  {FormatModule(v, copy, i) : copy \in 1..2, i \in 0..14} \cup {DarkModule(v)}

FormatBlack(v, l, m) ==
  LET bits == FormatBits(l, m)
  IN {FormatModule(v, copy, i) : copy \in 1..2, i \in {k \in 0..14 : Bit(bits, k) = 1}}
       \cup {DarkModule(v)}

(* The patterns in the order of drawFunctionPatterns, each with its centre; the
   three turns of its loops that fall on a finder draw nothing.  The mutant draws
   alignment patterns there too. *)
Pattern(kind, x, y) == [kind |-> kind, x |-> x, y |-> y]

PatternsInEveryCorner(v) ==
  LET pos == AlignmentPositions(v)
      n   == Len(pos)
  IN <<Pattern("timing", 0, 0), Pattern("finder", 3, 3),
       Pattern("finder", Size(v) - 4, 3), Pattern("finder", 3, Size(v) - 4)>>
     \o [k \in 1..(n * n) |-> Pattern("alignment", pos[((k - 1) \div n) + 1],
                                      pos[((k - 1) % n) + 1])]
     \o <<Pattern("format", 0, 0), Pattern("version", 0, 0)>>

Patterns(v) ==
  LET pos == AlignmentPositions(v)
      n   == Len(pos)
      Kind(i, j) == IF <<i, j>> \in {<<1, 1>>, <<1, n>>, <<n, 1>>} THEN "corner"
                                                                  ELSE "alignment"
      Turn(i, j) == Pattern(Kind(i, j), pos[i], pos[j])
  IN <<Pattern("timing", 0, 0), Pattern("finder", 3, 3),
       Pattern("finder", Size(v) - 4, 3), Pattern("finder", 3, Size(v) - 4)>>
     \o [k \in 1..(n * n) |-> Turn(((k - 1) \div n) + 1, ((k - 1) % n) + 1)]
     \o <<Pattern("format", 0, 0), Pattern("version", 0, 0)>>

Cells(p, v) ==
  LET line == 0..(Size(v) - 1)
  IN CASE p.kind = "corner"    -> {}
       [] p.kind = "timing"    -> ({6} \X line) \cup (line \X {6})
       [] p.kind = "finder"    -> Square(p.x, p.y, 4) \cap (line \X line)
       [] p.kind = "alignment" -> Square(p.x, p.y, 2)
       [] p.kind = "format"    -> FormatCells(v)
       [] p.kind = "version"   ->
            IF v < 7 THEN {} ELSE {VersionModule(v, copy, i) : copy \in 1..2, i \in 0..17}

Black(p, v, l) ==
  CASE p.kind = "corner"    -> {}
    [] p.kind = "timing"    -> {m \in Cells(p, v) : (m[1] + m[2]) % 2 = 0}
    [] p.kind = "finder"    -> {m \in Cells(p, v) : Ring(m, p.x, p.y) \notin {2, 4}}
    [] p.kind = "alignment" -> {m \in Cells(p, v) : Ring(m, p.x, p.y) # 1}
    [] p.kind = "format"    -> FormatBlack(v, l, 0)
    [] p.kind = "version"   ->
         IF v < 7 THEN {}
         ELSE {VersionModule(v, copy, i) : copy \in 1..2,
                                           i \in {k \in 0..17 : Bit(VersionBits(v), k) = 1}}

-----------------------------------------------------------------------------
VARIABLES
  stage,       \* where encodeText and the constructor are
  numChars, requested,     \* the arguments: payload length and level
  level, version,          \* errorCorrectionLevel and version
  usedBits,    \* dataUsedBits
  bits,        \* bits appended: the mode's four, the number of the segment's, and
               \* with terminator and padding
  todo,        \* function patterns still to draw
  black, isFunction,       \* black function modules, and function modules
  divisor, root, rest, fed,    \* the Reed-Solomon loops over the sample block
  row,         \* the rows interleaved so far
  codewords,   \* the interleaved codewords, as <<block, index>>
  right,       \* the column of the zig-zag scan
  scanned,     \* the column pairs scanned, each with its direction
  visited, placed,         \* data modules met, and bits written into them
  score,       \* penalty of the symbol under each mask
  trial, minPenalty, mask, \* the mask under trial, the best so far
  masked       \* masks applied to the data modules and not undone

fitVars    == <<level, version, usedBits, bits>>
drawVars   == <<todo, black, isFunction>>
eccVars    == <<divisor, root, rest, fed, row, codewords>>
scanVars   == <<right, scanned, visited, placed>>
maskVars   == <<score, trial, minPenalty, mask, masked>>
qrVars == <<stage, numChars, requested, fitVars, drawVars, eccVars, scanVars, maskVars>>

NoPenalty == -1     \* LONG_MAX: larger than every penalty

QrInit ==
  /\ stage = "fit"
  /\ numChars \in Lengths
  /\ requested \in Levels
  /\ level = requested
  /\ version = 1
  /\ usedBits = -1
  /\ bits = [mode |-> <<>>, message |-> 0, total |-> 0]
  /\ todo = <<>> /\ black = {} /\ isFunction = {}
  /\ divisor = <<>> /\ root = 1 /\ rest = <<>> /\ fed = 0
  /\ row = 0 /\ codewords = <<>>
  /\ right = 0 /\ scanned = <<>> /\ visited = 0 /\ placed = 0
  /\ score = [m \in 0..7 |-> 0]
  /\ trial = 0 /\ minPenalty = NoPenalty /\ mask = -1 /\ masked = {}

(* encodeSegments: the version loop. *)
TakeVersion ==
  /\ stage = "fit"
  /\ Fits(numChars, version, level)
  /\ usedBits' = TotalBits(numChars, version)
  /\ stage' = "boost"
  /\ UNCHANGED <<numChars, requested, level, version, bits, drawVars, eccVars,
                 scanVars, maskVars>>

NextVersion ==
  /\ stage = "fit"
  /\ ~Fits(numChars, version, level)
  /\ version < MaxVersion
  /\ version' = version + 1
  /\ UNCHANGED <<stage, numChars, requested, level, usedBits, bits, drawVars,
                 eccVars, scanVars, maskVars>>

(* std::length_error, which PairingDialog::Create catches and logs. *)
TooLong ==
  /\ stage = "fit"
  /\ ~Fits(numChars, version, level)
  /\ version >= MaxVersion
  /\ stage' = "failed"
  /\ UNCHANGED <<numChars, requested, fitVars, drawVars, eccVars, scanVars, maskVars>>

(* boostEcl: the last of MEDIUM, QUARTILE and HIGH that holds the bits. *)
BoostLevel ==
  /\ stage = "boost"
  /\ LET holding == {l \in 1..3 : usedBits <= CapacityBits(version, l)}
     IN level' = IF holding = {} THEN level ELSE Max(holding)
  /\ stage' = "segments"
  /\ UNCHANGED <<numChars, requested, version, usedBits, bits, drawVars, eccVars,
                 scanVars, maskVars>>

(* The four bits that are written for a segment's mode. *)
ModeBits(mode) ==
  <<mode \in {"BYTE", "KANJI"}, mode \in {"ALPHANUMERIC", "KANJI"},
    mode \in {"NUMERIC", "BYTE"}, FALSE>>

(* Mode, count, bytes; terminator, alignment and pad bytes.  The constructor
   starts with the codewords that result. *)
AppendSegments ==
  /\ stage = "segments"
  /\ LET capacity == CapacityBits(version, level)
         count    == IF version < 10 THEN 8 ELSE 16
         message  == 4 + count + 8 * numChars
         ended    == message + Max({0, Min({4, capacity - message})})
         aligned  == ended + ((8 - (ended % 8)) % 8)
     IN bits' = [mode |-> ModeBits("BYTE"), message |-> message,
                 total |-> aligned + 8 * Max({0, (capacity - aligned + 7) \div 8})]
  /\ todo' = Patterns(version)
  /\ stage' = "patterns"
  /\ UNCHANGED <<numChars, requested, level, version, usedBits, black, isFunction,
                 eccVars, scanVars, maskVars>>

(* setFunctionModule on every module of the next pattern. *)
DrawPattern ==
  /\ stage = "patterns"
  /\ todo # <<>>
  /\ LET p == Head(todo)
     IN /\ isFunction' = isFunction \cup Cells(p, version)
        /\ black' = (black \ Cells(p, version)) \cup Black(p, version, level)
  /\ todo' = Tail(todo)
  /\ IF Tail(todo) # <<>> THEN UNCHANGED <<stage, eccVars>>
     ELSE /\ stage' = "divisor"
          /\ divisor' = DivisorOne(EccLen(version, level))
          /\ rest' = [i \in 1..EccLen(version, level) |-> 0]
          /\ UNCHANGED <<root, fed, row, codewords>>
  /\ UNCHANGED <<numChars, requested, fitVars, scanVars, maskVars>>

(* addEccAndInterleave: the divisor, one root after the other. *)
DivideByRoot ==
  /\ stage = "divisor"
  /\ divisor' = DivisorRound(divisor, root)
  /\ root' = Multiply(root, 2)
  /\ fed' = IF fed + 1 < EccLen(version, level) THEN fed + 1 ELSE 0
  /\ stage' = IF fed + 1 < EccLen(version, level) THEN stage ELSE "blocks"
  /\ UNCHANGED <<numChars, requested, fitVars, drawVars, rest, row, codewords,
                 scanVars, maskVars>>

(* The remainder of the sample block, one byte after the other. *)
FeedByte ==
  /\ stage = "blocks"
  /\ fed < Len(Sample)
  /\ rest' = RemainderRound(rest, divisor, Sample[fed + 1])
  /\ fed' = fed + 1
  /\ UNCHANGED <<stage, numChars, requested, fitVars, drawVars, divisor, root,
                 row, codewords, scanVars, maskVars>>

ShortBlocks(v, l)    == NumBlocks(v, l) - (RawCodewords(v) % NumBlocks(v, l))
ShortBlockLen(v, l)  == RawCodewords(v) \div NumBlocks(v, l)
BlockDataLen(v, l, j) ==
  ShortBlockLen(v, l) - EccLen(v, l) + (IF j >= ShortBlocks(v, l) THEN 1 ELSE 0)

(* Row i of the interleaved symbol: the i-th codeword of every block, where the
   first index after the data of a short block is skipped in short blocks.  The
   mutant skips nothing. *)
RowWithoutSkip(v, l, i) == [k \in 1..NumBlocks(v, l) |-> <<k - 1, i>>]

Row(v, l, i) ==
  LET first == IF i # ShortBlockLen(v, l) - EccLen(v, l) THEN 0 ELSE ShortBlocks(v, l)
  IN [k \in 1..(NumBlocks(v, l) - first) |-> <<first + k - 1, i>>]

(* The rows, as many as the first block has codewords, one after the other. *)
Rows(v, l) == BlockDataLen(v, l, 0) + EccLen(v, l)

InterleaveRow ==
  /\ stage = "blocks"
  /\ fed = Len(Sample)
  /\ row < Rows(version, level)
  /\ codewords' = codewords \o Row(version, level, row)
  /\ row' = row + 1
  /\ UNCHANGED <<stage, numChars, requested, fitVars, drawVars, divisor, root, rest,
                 fed, scanVars, maskVars>>

AddEccAndInterleave ==
  /\ stage = "blocks"
  /\ fed = Len(Sample)
  /\ row >= Rows(version, level)
  /\ right' = Size(version) - 1
  /\ stage' = "scan"
  /\ UNCHANGED <<numChars, requested, fitVars, drawVars, eccVars, scanned, visited,
                 placed, maskVars>>

(* The right column of the next pair; the mutant walks over column 6. *)
PairFromSix(r) == r
PairFrom(r) == IF r = 6 THEN 5 ELSE r

(* drawCodewords: two columns, from the right one to the left one; column 6
   is stepped over.  The penalties the symbol will have are settled with it. *)
ScanColumns ==
  /\ stage = "scan"
  /\ right >= 1
  /\ LET r    == PairFrom(right)
         free == ({r - 1, r} \X (0..(Size(version) - 1))) \ isFunction
         n    == Cardinality(free)
     IN /\ scanned' = Append(scanned, [x |-> r, upwards |-> ((r + 1) \div 2) % 2 = 0])
        /\ visited' = visited + n
        /\ placed' = Min({placed + n, 8 * Len(codewords)})
        /\ right' = r - 2
  /\ UNCHANGED <<stage, numChars, requested, fitVars, drawVars, eccVars, maskVars>>

StartTrials ==
  /\ stage = "scan"
  /\ right < 1
  /\ score' \in Scores
  /\ stage' = "trial"
  /\ UNCHANGED <<numChars, requested, fitVars, drawVars, eccVars, scanVars, trial,
                 minPenalty, mask, masked>>

Toggle(S, m) == (S \ {m}) \cup ({m} \ S)

(* drawFormatBits, once the format modules are function modules. *)
DrawFormatBits(m) ==
  black' = (black \ FormatCells(version)) \cup FormatBlack(version, level, m)

(* Whether a penalty is the best so far; the mutant lets a tie replace the best. *)
NotWorse(penalty) == minPenalty = NoPenalty \/ penalty <= minPenalty
Better(penalty) == minPenalty = NoPenalty \/ penalty < minPenalty

(* One mask: apply it, draw its format bits, and take it if its penalty is
   smaller than every one before. *)
TryMask ==
  /\ stage = "trial"
  /\ trial <= 7
  /\ masked' = Toggle(masked, trial)
  /\ DrawFormatBits(trial)
  /\ IF Better(score[trial])
     THEN mask' = trial /\ minPenalty' = score[trial]
     ELSE UNCHANGED <<mask, minPenalty>>
  /\ stage' = "undo"
  /\ UNCHANGED <<numChars, requested, fitVars, todo, isFunction, eccVars, scanVars,
                 score, trial>>

(* The mask is an exclusive or, so that applying it again takes it away. *)
UndoMask ==
  /\ stage = "undo"
  /\ masked' = Toggle(masked, trial)
  /\ trial' = trial + 1
  /\ stage' = "trial"
  /\ UNCHANGED <<numChars, requested, fitVars, drawVars, eccVars, scanVars, score,
                 minPenalty, mask>>

FinishSymbol ==
  /\ stage = "trial"
  /\ trial > 7
  /\ masked' = Toggle(masked, mask)
  /\ DrawFormatBits(mask)
  /\ isFunction' = {}
  /\ stage' = "done"
  /\ UNCHANGED <<numChars, requested, fitVars, todo, eccVars, scanVars, score, trial,
                 minPenalty, mask>>

QrNext ==
  \/ TakeVersion \/ NextVersion \/ TooLong \/ BoostLevel \/ AppendSegments
  \/ DrawPattern
  \/ DivideByRoot \/ FeedByte \/ InterleaveRow \/ AddEccAndInterleave
  \/ ScanColumns \/ StartTrials
  \/ TryMask \/ UndoMask \/ FinishSymbol

QrSpec == QrInit /\ [][QrNext]_qrVars

-----------------------------------------------------------------------------
(* Every variable has its type; words and bytes stay in their width. *)
QrTypeOK ==
  /\ stage \in {"fit", "boost", "segments", "patterns", "divisor", "blocks", "scan",
                "trial", "undo", "done", "failed"}
  /\ numChars \in Lengths /\ requested \in Levels
  /\ level \in 0..3 /\ version \in 1..MaxVersion
  /\ usedBits \in Int /\ bits \in [mode : Seq(BOOLEAN), message : Nat, total : Nat]
  /\ black \subseteq (0..(Size(version) - 1)) \X (0..(Size(version) - 1))
  /\ isFunction \subseteq (0..(Size(version) - 1)) \X (0..(Size(version) - 1))
  /\ \A i \in DOMAIN divisor : divisor[i] \in Byte
  /\ \A i \in DOMAIN rest : rest[i] \in Byte
  /\ right \in -1..(Size(version) - 1)
  /\ visited \in Nat /\ placed \in 0..visited
  /\ trial \in 0..8 /\ mask \in -1..7 /\ masked \subseteq 0..7

(* The version is the smallest that holds the payload at the requested level,
   the level the strongest that still fits, the segment takes the bits that were
   counted for it when the version was chosen (the width of the count changes
   between versions 9 and 10), and the data codewords fill the capacity of the
   chosen level exactly. *)
SmallestStrongestSymbol ==
  /\ stage = "failed" => \A v \in 1..MaxVersion : ~Fits(numChars, v, requested)
  /\ stage \notin {"fit", "boost", "segments", "failed"} =>
       /\ \A v \in 1..(version - 1) : ~Fits(numChars, v, requested)
       /\ Fits(numChars, version, level)
       /\ \A l \in (level + 1)..3 : ~Fits(numChars, version, l)
       /\ level >= requested
       /\ bits.message = usedBits
       /\ bits.total = CapacityBits(version, level)

(* No function pattern recolours a module that an earlier one has drawn, except
   that the finders cut the timing lines off; and once all are drawn only the
   format modules change.  Alignment patterns on a timing line agree with it. *)
PatternsKeepTheirColour ==
  [][\A m \in isFunction \cap ((black \ black') \cup (black' \ black)) :
       IF stage = "patterns" THEN Head(todo).kind = "finder" /\ 6 \in {m[1], m[2]}
                             ELSE m \in FormatCells(version)]_qrVars

(* The pairs of columns from right to left: all but the timing column, each in one
   pair, the first one upwards and then in turn. *)
EveryColumnOnce ==
  /\ Len(scanned) = (Size(version) - 1) \div 2
  /\ UNION {{scanned[k].x - 1, scanned[k].x} : k \in DOMAIN scanned}
       = (0..(Size(version) - 1)) \ {6}
  /\ \A k \in DOMAIN scanned : scanned[k].upwards = (k % 2 = 1)

(* The drawn patterns leave as many modules as getNumRawDataModules counts, and
   the zig-zag scan meets each of them once. *)
ScanMeetsEveryDataModule ==
  stage = "trial" =>
    /\ Size(version) * Size(version) - Cardinality(isFunction) = NumRawDataModules(version)
    /\ visited = NumRawDataModules(version)
    /\ EveryColumnOnce
    /\ placed = 8 * Len(codewords)

(* Interleaving reads the data codewords it is given, no more and no fewer, and
   the symbol starts with them in the order of the standard: index by index,
   within an index block by block, long blocks last; no codeword is drawn twice.
   Of the check codewords behind them nothing else is said: where there are short
   blocks, some are never drawn (SymbolReadable). *)
DataDrawnInOrder ==
  stage = "scan" =>
    LET n == bits.total \div 8
        blocks == 0..(NumBlocks(version, level) - 1)
        data == {<<j, i>> : j \in blocks, i \in 0..(BlockDataLen(version, level, 0))}
        Before(c, d) == c[2] < d[2] \/ (c[2] = d[2] /\ c[1] < d[1])
    IN /\ ToSet(SubSeq(codewords, 1, n))
            = {c \in data : c[2] < BlockDataLen(version, level, c[1])}
       /\ \A k \in 1..(n - 1) : Before(codewords[k], codewords[k + 1])
       /\ Cardinality(ToSet(codewords)) = Len(codewords)

(* What a reader of the finished symbol sees in a copy of the format word. *)
ReadFormat(copy) ==
  SumSet({2^i : i \in {k \in 0..14 : FormatModule(version, copy, k) \in black}})

(* The symbol has one mask, the first with the smallest penalty. *)
FirstSmallestMask ==
  /\ masked = {mask}
  /\ \A m \in 0..7 : score[mask] < score[m] \/ (score[mask] = score[m] /\ mask <= m)

DifferentBits(a, b) == Cardinality({i \in 0..17 : Bit(a, i) # Bit(b, i)})

(* Both copies of the format word show level and mask, and from version 7 both copies of
   the version word show the version, bit by bit. *)
WordsDrawn ==
  /\ \A copy \in 1..2, i \in 0..14 :
       FormatModule(version, copy, i) \in black <=> Bit(FormatBits(level, mask), i) = 1
  /\ version >= 7 =>
       \A copy \in 1..2, i \in 0..17 :
         VersionModule(version, copy, i) \in black <=> Bit(VersionBits(version), i) = 1

(* The finished symbol has the mask with the first smallest penalty and no other, its
   words are drawn where a reader looks for them, the format word names that mask and no
   three wrong modules turn it into that of another level or mask; the same of the
   version word. *)
InformationReadable ==
  stage = "done" =>
    /\ FirstSmallestMask
    /\ WordsDrawn
    /\ \A copy \in 1..2 : ((ReadFormat(copy) ^^ 21522) \div 1024) % 8 = mask
    /\ \A l \in 0..3, m \in 0..7 : <<l, m>> # <<level, mask>> =>
         DifferentBits(ReadFormat(1), FormatBits(l, m)) >= 7
    /\ version >= 7 =>
         \A v \in 7..MaxVersion : v # version =>
           DifferentBits(VersionBits(version), VersionBits(v)) >= 8

(* "Scan this QR code with AnshuBio Unlock on Android": the reader takes the level
   from the format word by the standard's code for levels, finds every codeword
   of every block, every block divides by the roots of its level, and the segment
   begins with the standard's 0100 for bytes. *)
StandardLevel == [code \in 0..3 |-> <<1, 0, 3, 2>>[code + 1]]

LevelAnnounced == StandardLevel[(ReadFormat(1) ^^ 21522) \div 8192] = level

EveryCodewordDrawn ==
  \A j \in 0..(NumBlocks(version, level) - 1) :
    \A i \in 0..(BlockDataLen(version, level, j) + EccLen(version, level) - 1) :
      <<j, i>> \in ToSet(codewords)

BlockIsCodeword ==
  \A i \in 1..EccLen(version, level) : ValueAt(Sample \o rest, FieldPowers[i]) = 0

ModeAnnounced == bits.mode = <<FALSE, TRUE, FALSE, FALSE>>

SymbolReadable ==
  stage = "done" =>
    LevelAnnounced /\ EveryCodewordDrawn /\ BlockIsCodeword /\ ModeAnnounced

=============================================================================
