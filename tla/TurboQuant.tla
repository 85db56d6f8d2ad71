----------------------------- MODULE TurboQuant -----------------------------
(***************************************************************************)
(* The compressed index of turboquant.c: rotation by sign flips and        *)
(* Hadamard transforms, quantization by binary search, the packed storage  *)
(* of codes and QJL sign bits, the score of a stored code and the          *)
(* exhaustive scan with a heap of its own.                                 *)
(*                                                                         *)
(* Vectors have integral coordinates and norms; code words are multiples   *)
(* of 1 / Unit.  Numbers of the code are kept as integers on a common      *)
(* scale, so that sums are exact: a rotated coordinate times Pdim^(3/2), a *)
(* score times Scale.  The two places where the code itself rounds to      *)
(* integers, int8 codes and int8 queries, round here as well.              *)
(*                                                                         *)
(* Storage is bytes, and a byte is the set of its bits that are set.       *)
(***************************************************************************)
EXTENDS Heaps, Kernels

CONSTANTS
    Dim,         \* dimension of the vectors
    Pdim,        \* padded dimension, NextPow2
    Vec,         \* Vec[x]: the vector of x, a sequence of Dim integers
    Signs,       \* the sign flips of the three rounds
    Projection,  \* the matrix S of the QJL stage
    Unit,        \* code words are in units of 1 / Unit
    Level4,      \* the 16 code words, increasing
    Level8,      \* the 256 code words
    Modes,       \* sequence of configurations [build, bits, qjl]
    CodecCap     \* first capacity of the codec (1024)

\* next_pow2(dim).
NextPow2 == FoldLeft(LAMBDA p, e : IF p < Dim THEN 2 * p ELSE p, 1, [e \in 1 .. Dim |-> e])
Coords == 0 .. Pdim - 1
Scale == Unit * Unit * Pdim * Pdim

Level(bits) == IF bits = 4 THEN Level4 ELSE Level8

\* The largest code word, and how much of it a step of the int8 grid is: a unit
\* can always be chosen in which it is a whole number.
Lmax(bits) == Level(bits)[2 ^ bits]
GridStep(bits) == Lmax(bits) \div 127

ASSUME TurboQuantAssumption ==
    /\ Dim \in Nat \ {0} /\ Unit \in Nat \ {0} /\ CodecCap \in Nat \ {0} /\ Pdim = NextPow2
    /\ \A r \in 1 .. 3 : \A i \in 1 .. Pdim : Signs[r][i] \in {-1, 1}
    /\ Projection \in [1 .. Pdim -> [1 .. Pdim -> Int]]
    /\ \A bits \in {4, 8} : /\ Level(bits) \in [1 .. 2 ^ bits -> Int]
                            /\ \A c \in 2 .. 2 ^ bits : Level(bits)[c - 1] < Level(bits)[c]
                            /\ Level(bits)[1] = -Lmax(bits) /\ Lmax(bits) % 127 = 0
    /\ \A m \in 1 .. Len(Modes) :
          /\ Modes[m].build \in Builds /\ Modes[m].bits \in {4, 8}
          /\ Modes[m].qjl => Pdim >= 8        \* sign bits fill whole bytes

\* The function f, its values computed once and not at every use.
Tabled(f) == f @@ <<>>

Sum(f, lanes) == FoldLeft(LAMBDA a, i : a + f[i], 0, lanes)
All == [j \in 1 .. Pdim |-> j - 1]
Abs(x) == IF x < 0 THEN -x ELSE x

\* x * m / d rounded down, without the product.
MulDiv(x, m, d) == (x \div d) * m + ((x % d) * m) \div d

\* lrintf(a / b): to the nearest integer, half-way to the even one.
Rounded(a, b) == LET q == a \div b
                     r == 2 * (a % b)
                 IN  IF r > b \/ (r = b /\ q % 2 = 1) THEN q + 1 ELSE q

Clamped(v) == IF v > 127 THEN 127 ELSE IF v < -127 THEN -127 ELSE v

Root(x) == CHOOSE n \in 0 .. x : n * n <= x /\ x < (n + 1) * (n + 1)
-----------------------------------------------------------------------------
Padded(v) == Tabled([i \in Coords |-> IF i < Dim THEN v[i + 1] ELSE 0])

NormSq(v) == Sum([i \in Coords |-> Padded(v)[i] * Padded(v)[i]], All)

\* fht: one stage, and all of them.
Butterfly(a, len) ==
    Tabled([i \in Coords |-> IF (i \div len) % 2 = 0 THEN a[i] + a[i + len]
                                                      ELSE a[i - len] - a[i]])

Fht(a) == LET stages == SelectSeq([e \in 1 .. Pdim |-> 2 ^ (e - 1)], LAMBDA l : l < Pdim)
          IN  FoldLeft(Butterfly, a, stages)

\* tq_rotate, without the scale.
Rotate(x) == FoldLeft(LAMBDA y, r : Fht(Tabled([i \in Coords |-> y[i] * Signs[r][i + 1]])),
                      x, <<1, 2, 3>>)

\* quantize_coord of num / (Pdim * den): a turn of the search, the whole of it.
Halved(r, L, num, den) ==
    LET mid == (r.lo + r.hi) \div 2
    IN  IF r.lo >= r.hi THEN r
        ELSE IF 2 * Unit * num <= (L[mid + 1] + L[mid + 2]) * den
             THEN [r EXCEPT !.hi = mid] ELSE [r EXCEPT !.lo = mid + 1]

Quantize(bits, num, den) ==
    FoldLeft(LAMBDA r, n : Halved(r, Level(bits), num, den),
             [lo |-> 0, hi |-> 2 ^ bits - 1], [n \in 1 .. bits |-> n]).lo

\* Code word c on the int8 grid; at 4 bits a table of its own, l8.
Int8(bits, c) == Clamped(Rounded(Level(bits)[c + 1] * 127, Lmax(bits)))
L8 == Tabled([c \in 0 .. 15 |-> Int8(4, c)])

\* What tq_add computes of a vector before it writes: norm, codes (code words
\* at 4 bits, int8 values at 8), their values, the residual and its signs.
Encode(m, v) ==
    LET bits == Modes[m].bits
        norm == Root(NormSq(v))
        den  == Pdim * (IF norm = 0 THEN 1 ELSE norm)
        y    == Rotate(Padded(v))
        code == [i \in Coords |-> LET c == Quantize(bits, y[i], den)
                                  IN  IF bits = 4 THEN c ELSE Int8(8, c)]
        val  == [i \in Coords |-> IF bits = 4 THEN Level4[code[i] + 1]
                                  ELSE code[i] * GridStep(8)]
        res  == [i \in Coords |-> Unit * y[i] - val[i] * den]
        proj == [i \in Coords |-> Sum([j \in Coords |-> Projection[i + 1][j + 1] * res[j]],
                                      Reads(Dotf(Modes[m].build), Pdim))]
    IN  [norm |-> norm, code |-> Tabled(code),
         csq |-> Sum([i \in Coords |-> val[i] * val[i]], All),
         sum |-> IF bits = 8 THEN Sum(code, All) ELSE 0,
         rnorm |-> Root(Sum([i \in Coords |-> res[i] * res[i]], All)),
         up |-> {i \in Coords : proj[i] >= 0}]
-----------------------------------------------------------------------------
(***************************************************************************)
(* Storage.                                                                *)
(***************************************************************************)
CodeBytes(m) == (Pdim * Modes[m].bits + 7) \div 8
QjlBytes(m) == IF Modes[m].qjl THEN Pdim \div 8 ELSE 0

Bits(n, w) == {b \in 0 .. w - 1 : ((n \div 2 ^ b) % 2) = 1}
Number == Tabled([B \in SUBSET (0 .. 7) |-> FoldSet(LAMBDA b, n : n + 2 ^ b, 0, B)])

\* Bytes of storage that nothing was written to.
Unwritten == 0 .. 7
Bytes(n) == [a \in 0 .. n - 1 |-> Unwritten]

EmptyCodec(m) == [mode |-> m, cap |-> CodecCap, ids |-> <<>>, norms |-> <<>>,
                  csqs |-> <<>>, sums |-> <<>>, rnorms |-> <<>>,
                  codes |-> Bytes(CodecCap * CodeBytes(m)),
                  signs |-> Bytes(CodecCap * QjlBytes(m))]

Extended(mem, n) == [a \in 0 .. n - 1 |-> IF a \in DOMAIN mem THEN mem[a] ELSE Unwritten]

IsFull(c) == Len(c.ids) = c.cap

Roomy(c) == IF ~ IsFull(c) THEN c
            ELSE [c EXCEPT !.cap = 2 * @,
                           !.codes = Extended(@, 2 * c.cap * CodeBytes(c.mode)),
                           !.signs = Extended(@, 2 * c.cap * QjlBytes(c.mode))]

WipedNone(mem, at, n) == mem   \* mutant: memset is forgotten

\* memset to 0.
Wiped(mem, at, n) == [a \in DOMAIN mem |-> IF a \in at .. at + n - 1 THEN {} ELSE mem[a]]

\* Bits or-ed into a byte.
Ored(mem, a, B) == [mem EXCEPT ![a] = @ \cup B]

NibbleAt(i) == 4 * (i % 2)

\* The codes of one vector, written at byte at.
CodesWritten(mem, m, at, code) ==
    FoldLeft(LAMBDA w, i :
                IF Modes[m].bits = 4
                THEN Ored(w, at + i \div 2, {b + NibbleAt(i) : b \in Bits(code[i], 4)})
                ELSE [w EXCEPT ![at + i] = Bits(code[i] % 256, 8)],
             Wiped(mem, at, CodeBytes(m)), All)

SignsWritten(mem, m, at, up) ==
    IF ~ Modes[m].qjl THEN mem
    ELSE FoldLeft(LAMBDA w, i : IF i \in up THEN Ored(w, at + i \div 8, {i % 8}) ELSE w,
                  Wiped(mem, at, QjlBytes(m)), All)

\* Of every vector and configuration, computed once.
Encodings == Tabled([m \in 1 .. Len(Modes) |->
                       Tabled([x \in DOMAIN Vec |-> Encode(m, Vec[x])])])

Filed(c, n, id, e) ==
    [mode |-> c.mode, cap |-> c.cap, ids |-> Append(c.ids, id),
     norms |-> Append(c.norms, e.norm), csqs |-> Append(c.csqs, e.csq),
     sums |-> Append(c.sums, e.sum), rnorms |-> Append(c.rnorms, e.rnorm),
     codes |-> CodesWritten(c.codes, c.mode, n * CodeBytes(c.mode), e.code),
     signs |-> SignsWritten(c.signs, c.mode, n * QjlBytes(c.mode), e.up)]

\* tq_add.
Encoded(old, id, x) == Filed(Roomy(old), Len(old.ids), id, Encodings[old.mode][x])

\* Reading slot s back: the code word or int8 value of coordinate i, its value
\* and its sign bit.
CodeOf(c, s, i) ==
    IF Modes[c.mode].bits = 4
    THEN Number[{b \in 0 .. 3 : b + 4 * (i % 2) \in c.codes[s * CodeBytes(c.mode) + i \div 2]}]
    ELSE LET u == Number[c.codes[s * CodeBytes(c.mode) + i]]
         IN  IF u < 128 THEN u ELSE u - 256

ValueOf(c, s, i) == IF Modes[c.mode].bits = 4 THEN Level4[CodeOf(c, s, i) + 1]
                    ELSE CodeOf(c, s, i) * GridStep(8)

GridIndex(c, s, i) == CodeOf(c, s, i)   \* mutant: the code, not its word

\* What an int8 kernel multiplies: at 4 bits the code word, looked up in l8.
GridOf(c, s, i) == IF Modes[c.mode].bits = 4 THEN L8[CodeOf(c, s, i)] ELSE CodeOf(c, s, i)

SignOf(c, s, i) == i % 8 \in c.signs[s * QjlBytes(c.mode) + i \div 8]
-----------------------------------------------------------------------------
(***************************************************************************)
(* Queries.                                                                *)
(***************************************************************************)
\* tq_query_begin.
Begun(m, v) ==
    LET y    == Rotate(Padded(v))
        qmax == CHOOSE a \in {Abs(y[i]) : i \in Coords} : \A i \in Coords : Abs(y[i]) <= a
    IN  [y |-> Tabled(y), qmax |-> qmax,
         qn |-> (Unit * Unit * Sum([i \in Coords |-> y[i] * y[i]], All)) \div Pdim,
         int8 |-> qmax > 0 /\ WantsInt8(Modes[m].build, Modes[m].bits, Pdim),
         q8 |-> Tabled([i \in Coords |-> IF qmax = 0 THEN 0
                                        ELSE Clamped(Rounded(127 * y[i], qmax))]),
         proj |-> Tabled([i \in Coords |->
                            Sum([j \in Coords |-> Projection[i + 1][j + 1] * y[j]],
                                Reads(Dotf(Modes[m].build), Pdim))])]

Queries == Tabled([m \in 1 .. Len(Modes) |->
                     Tabled([x \in DOMAIN Vec |-> Begun(m, Vec[x])])])

ScanLanes == Tabled([m \in 1 .. Len(Modes) |->
                       Reads(ScanKernel(Modes[m].build, Modes[m].bits, Pdim), Pdim)])

BiasNone(c, s) == 0   \* mutant: the offset of the unsigned query stays in

\* The query's int8 values are offset to be unsigned, except on NEON.
Bias(c, s) == 128 * c.sums[s + 1]

Int8Dot(c, q, s) ==
    IF Modes[c.mode].build = "neon"
    THEN Sum([i \in Coords |-> q.q8[i] * GridOf(c, s, i)], ScanLanes[c.mode])
    ELSE Sum([i \in Coords |-> (q.q8[i] + 128) * GridOf(c, s, i)], ScanLanes[c.mode])
         - Bias(c, s)

\* 2 * norm * <query, code>, by int8 values or exactly.
Cross(c, q, s) ==
    LET n == 2 * c.norms[s + 1] * Unit
    IN  IF q.int8
        THEN MulDiv(Int8Dot(c, q, s) * q.qmax, n * GridStep(Modes[c.mode].bits), 127)
        ELSE n * Sum([i \in Coords |-> q.y[i] * ValueOf(c, s, i)], ScanLanes[c.mode])

\* The QJL estimate of what the code misses of it; 5 / 4 is sqrt(pi / 2).
Correction(c, q, s) ==
    IF c.norms[s + 1] = 0 THEN 0
    ELSE MulDiv(c.rnorms[s + 1] *
                Sum([i \in Coords |-> IF SignOf(c, s, i) THEN q.proj[i] ELSE -q.proj[i]],
                    Reads(SignDot(Modes[c.mode].build, Pdim), Pdim)),
                5 * Unit, 2 * Pdim * Pdim)

\* tq_score_code, times Scale.
Score(c, x, s) ==
    LET q == Queries[c.mode][x]
        n == c.norms[s + 1]
    IN  IF Modes[c.mode].qjl
        THEN q.qn - Cross(c, q, s) - Correction(c, q, s) + n * n * Scale
        ELSE q.qn - Cross(c, q, s) + n * n * Pdim * c.csqs[s + 1]

ReplacedOnly(a, x) == [a EXCEPT ![1] = x]   \* mutant: the item stays on top

\* tq_search keeps the k nearest in a max-heap; the item that beats the worst
\* takes its place and sinks.
Replaced(a, x) == FoldLeft(LAMBDA h, r : SiftDown(TRUE, h),
                           [a |-> [a EXCEPT ![1] = x], i |-> 1], Steps(a)).a
Hold(a, x, k) == IF Len(a) < k THEN HeapPush(TRUE, a, x)
                 ELSE IF x.dist < a[1].dist THEN Replaced(a, x)
                 ELSE a

\* tq_search, given the scores it computes: the slots of the k best.
CodeScan(scores, k) ==
    LET n  == Len(scores)
        kk == IF k > n THEN n ELSE k
        Look(a, s) == Hold(a, [dist |-> scores[s], node |-> s], kk)
        hits == Emitted(FoldLeft(Look, <<>>, [s \in 1 .. n |-> s]), kk)
    IN  [j \in 1 .. Len(hits) |-> hits[j].node]
-----------------------------------------------------------------------------
(***************************************************************************)
(* What the encoding promises, without search, bytes and kernels.          *)
(***************************************************************************)
\* The code word nearest to num / den, the lower one of two.
NearestLevel(bits, num, den) ==
    LET off == Tabled([c \in 1 .. 2 ^ bits |-> Abs(Unit * num - Level(bits)[c] * den)])
    IN  Level(bits)[CHOOSE c \in DOMAIN off : \A e \in DOMAIN off :
                       off[c] < off[e] \/ (off[c] = off[e] /\ c <= e)]

NearestLevels ==
    Tabled([m \in 1 .. Len(Modes) |-> Tabled([x \in DOMAIN Vec |->
        LET norm == Root(NormSq(Vec[x]))
            y == Rotate(Padded(Vec[x]))
            den == Pdim * (IF norm = 0 THEN 1 ELSE norm)
        IN  Tabled([i \in Coords |-> NearestLevel(Modes[m].bits, y[i], den)])])])

\* Pdim times the squared distance of the query to the decoded code, and the
\* error that int8 rounding, of the query and of 4-bit code words, may add.
Decoded(c, x, s) ==
    LET off == [i \in Coords |-> Unit * Queries[c.mode][x].y[i]
                                 - c.norms[s + 1] * Pdim * ValueOf(c, s, i)]
    IN  Sum([i \in Coords |-> off[i] * off[i]], All)

Slack(c, x, s) ==
    LET q     == Queries[c.mode][x]
        query == Sum([i \in Coords |-> Abs(ValueOf(c, s, i))], All)
        code  == IF Modes[c.mode].bits = 8 THEN 0     \* stored on the grid
                 ELSE GridStep(4) * Sum([i \in Coords |-> Abs(q.q8[i])], All)
    IN  IF ~ q.int8 THEN 0
        ELSE 2 + (2 * c.norms[s + 1] * Unit * q.qmax * (query + code)) \div 254
=============================================================================
