---------------------------- MODULE HybridProofs ----------------------------
(***************************************************************************)
(* Theorems about the compressed index, for any vectors, and about the     *)
(* hybrid index, for every exact and code distance without ties, M and     *)
(* ef_construction.                                                        *)
(***************************************************************************)
EXTENDS Hybrid, ScanProofs, HnswOpsProofs

\* The configuration is one of those there are, the index ranks by the distances
\* its codes give, and no two of them are the same.
Configured == CodesApart /\ codec.mode \in 1 .. Len(Modes) /\ near = C[codec.mode]

-----------------------------------------------------------------------------
(***************************************************************************)
(* The codec.  The bytes of a slot are those its vector was given when it  *)
(* was added: an image that depends on the vector alone.                   *)
(***************************************************************************)
\* next_pow2: the padded dimension fills whole bytes of sign bits from 8 on.
PadTurn(c, p, e) == IF p < c THEN 2 * p ELSE p
PadInv(c, k, p) == p \in Nat /\ p >= 1 /\ (p < 8 \/ p % 8 = 0) /\ (p < 8 => p \in {1, 2, 4})
Pads == INSTANCE FoldFacts WITH Op <- PadTurn, Inv <- PadInv

LEMMA PdimFacts == Pdim \in Nat \ {0} /\ (Pdim >= 8 => Pdim % 8 = 0)
<1> DEFINE seq == [e \in 1 .. Dim |-> e]
<1>1. Dim \in Nat /\ DOMAIN seq = 1 .. Dim
  BY TurboQuantAssumption
<1>2. NextPow2 = Pads!Fold(Dim, 1, seq)
  BY DEF NextPow2, PadTurn, Pads!Fold, Pads!FoldLeft, FoldLeft, MapThenFoldSet,
         Pads!MapThenFoldSet, Max, Pads!Max
<1> HIDE DEF seq
<1>3. PadInv(Dim, 0, 1)
  BY DEF PadInv
<1>4. \A p : \A k \in 0 .. Dim - 1 :
         PadInv(Dim, k, p) => PadInv(Dim, k + 1, PadTurn(Dim, p, seq[k + 1]))
  <2> SUFFICES ASSUME NEW p, NEW k \in 0 .. Dim - 1, PadInv(Dim, k, p)
               PROVE  PadInv(Dim, k + 1, PadTurn(Dim, p, seq[k + 1]))
    OBVIOUS
  <2>1. PadInv(Dim, k + 1, 2 * p)
    BY DEF PadInv
  <2> QED
    BY <2>1 DEF PadTurn, PadInv
<1>5. PadInv(Dim, Dim, NextPow2)
  BY <1>1, <1>2, <1>3, <1>4, Pads!FoldInv
<1> QED
  BY <1>5, TurboQuantAssumption DEF PadInv

\* Functions as rows of n values, stores of n bytes.
IsRow(f, n) == f = [i \in 1 .. n |-> f[i]]
IsStore(mem, n) == mem = [a \in 0 .. n - 1 |-> mem[a]]

\* Row h is row f of n values and e after them.
RowAnd(h, n, f, e) == /\ IsRow(h, n + 1) /\ h[n + 1] = e
                      /\ \A i \in 1 .. n : h[i] = f[i]

LEMMA RowAppended ==
    ASSUME NEW n \in Nat, NEW f, IsRow(f, n), NEW e
    PROVE  RowAnd(Append(f, e), n, f, e)
<1> DEFINE S == {f[i] : i \in 1 .. n} \cup {e}
<1>1. f \in Seq(S) /\ e \in S
  <2>1. f \in [1 .. n -> S]
    BY DEF IsRow
  <2> QED
    BY <2>1
<1>2. DOMAIN f = 1 .. n /\ Len(f) = n
  <2>1. DOMAIN f = 1 .. n
    BY DEF IsRow
  <2> QED
    BY <1>1, <2>1
<1> HIDE DEF S
<1> QED
  BY <1>1, <1>2 DEF IsRow, RowAnd

\* An image put into a store at a byte.
Placed(mem, at, n, img) ==
    [a \in DOMAIN mem |-> IF a \in at .. at + n - 1 THEN img[a - at] ELSE mem[a]]

LEMMA PlacedOred ==
    ASSUME NEW N \in Nat, NEW mem, IsStore(mem, N), NEW at \in Nat, NEW n \in Nat,
           NEW img, IsStore(img, n), NEW j \in 0 .. n - 1, NEW B
    PROVE  Ored(Placed(mem, at, n, img), at + j, B) = Placed(mem, at, n, Ored(img, j, B))
<1> DEFINE new == [img EXCEPT ![j] = img[j] \cup B]
           w == Placed(mem, at, n, img)
<1>1. DOMAIN mem = 0 .. N - 1 /\ DOMAIN img = 0 .. n - 1
  BY DEF IsStore
<1>2. /\ DOMAIN w = 0 .. N - 1 /\ Ored(w, at + j, B) = [w EXCEPT ![at + j] = w[at + j] \cup B]
      /\ \A a \in 0 .. N - 1 : w[a] = IF a \in at .. at + n - 1 THEN img[a - at] ELSE mem[a]
  BY <1>1 DEF Placed, Ored
<1>3. \A a \in 0 .. N - 1 : a \in at .. at + n - 1 =>
         new[a - at] = IF a = at + j THEN img[j] \cup B ELSE img[a - at]
  BY <1>1
<1>4. Placed(mem, at, n, new) =
         [a \in 0 .. N - 1 |-> IF a \in at .. at + n - 1 THEN new[a - at] ELSE mem[a]]
  BY <1>1 DEF Placed
<1>5. at + j \in at .. at + n - 1 /\ (at + j) - at = j
  OBVIOUS
<1> HIDE DEF new, w
<1>6. Ored(w, at + j, B) = [a \in 0 .. N - 1 |-> IF a = at + j THEN w[at + j] \cup B ELSE w[a]]
  BY <1>2, Zenon
<1>7. \A a \in 0 .. N - 1 :
         (IF a = at + j THEN w[at + j] \cup B ELSE w[a])
            = IF a \in at .. at + n - 1 THEN new[a - at] ELSE mem[a]
  BY <1>2, <1>3, <1>5, Zenon
<1>8. Ored(w, at + j, B) = Placed(mem, at, n, new)
  BY <1>4, <1>6, <1>7, Zenon
<1> QED
  BY <1>8 DEF new, w, Ored

SetAt(mem, a, B) == [mem EXCEPT ![a] = B]

LEMMA PlacedSet ==
    ASSUME NEW N \in Nat, NEW mem, IsStore(mem, N), NEW at \in Nat, NEW n \in Nat,
           NEW img, IsStore(img, n), NEW j \in 0 .. n - 1, NEW B
    PROVE  SetAt(Placed(mem, at, n, img), at + j, B) = Placed(mem, at, n, SetAt(img, j, B))
<1> DEFINE new == [img EXCEPT ![j] = B]
           w == Placed(mem, at, n, img)
<1>1. DOMAIN mem = 0 .. N - 1 /\ DOMAIN img = 0 .. n - 1
  BY DEF IsStore
<1>2. /\ DOMAIN w = 0 .. N - 1
      /\ \A a \in 0 .. N - 1 : w[a] = IF a \in at .. at + n - 1 THEN img[a - at] ELSE mem[a]
  BY <1>1 DEF Placed
<1>3. \A a \in 0 .. N - 1 : a \in at .. at + n - 1 =>
         new[a - at] = IF a = at + j THEN B ELSE img[a - at]
  BY <1>1
<1>4. Placed(mem, at, n, new) =
         [a \in 0 .. N - 1 |-> IF a \in at .. at + n - 1 THEN new[a - at] ELSE mem[a]]
  BY <1>1 DEF Placed
<1>5. at + j \in at .. at + n - 1 /\ w = [a \in 0 .. N - 1 |-> w[a]]
  BY <1>1 DEF Placed
<1> HIDE DEF new, w
<1>6. [w EXCEPT ![at + j] = B] = [a \in 0 .. N - 1 |-> IF a = at + j THEN B ELSE w[a]]
  BY <1>2, <1>5
<1>7. \A a \in 0 .. N - 1 :
         (IF a = at + j THEN B ELSE w[a])
            = IF a \in at .. at + n - 1 THEN new[a - at] ELSE mem[a]
  BY <1>2, <1>3, <1>5
<1>8. [w EXCEPT ![at + j] = B] = Placed(mem, at, n, new)
  BY <1>4, <1>6, <1>7
<1> QED
  BY <1>8 DEF new, w, SetAt

\* The bytes of a slot once its first k coordinates are written.
Nibble(code, i) == {b + NibbleAt(i) : b \in Bits(code[i], 4)}
CodeByte(m, code, k, j) ==
    IF Modes[m].bits = 4 THEN UNION {Nibble(code, i) : i \in {i \in 0 .. k - 1 : i \div 2 = j}}
    ELSE IF j < k THEN Bits(code[j] % 256, 8) ELSE {}
SignByte(up, k, j) == {i % 8 : i \in {i \in 0 .. k - 1 : i \in up /\ i \div 8 = j}}
CodeImage(m, code, k) == [j \in 0 .. CodeBytes(m) - 1 |-> CodeByte(m, code, k, j)]
SignImage(m, up, k) == [j \in 0 .. QjlBytes(m) - 1 |-> SignByte(up, k, j)]

LEMMA ByteFacts ==
    ASSUME NEW m \in 1 .. Len(Modes)
    PROVE  /\ CodeBytes(m) \in Nat /\ QjlBytes(m) \in Nat
           /\ Modes[m].bits = 4 => \A i \in Coords : i \div 2 \in 0 .. CodeBytes(m) - 1
           /\ Modes[m].bits # 4 => \A i \in Coords : i \in 0 .. CodeBytes(m) - 1
           /\ Modes[m].qjl => \A i \in Coords : i \div 8 \in 0 .. QjlBytes(m) - 1
<1>1. Modes[m].bits \in {4, 8} /\ (Modes[m].qjl => Pdim >= 8)
  BY TurboQuantAssumption, Zenon
<1>2. Pdim \in Nat \ {0} /\ (Pdim >= 8 => Pdim % 8 = 0)
  BY PdimFacts
<1>3. Modes[m].bits = 4 =>
         CodeBytes(m) \in Nat /\ \A i \in Coords : i \div 2 \in 0 .. CodeBytes(m) - 1
  <2>1. Modes[m].bits = 4 => CodeBytes(m) = (Pdim * 4 + 7) \div 8
    BY DEF CodeBytes
  <2> QED
    BY <1>2, <2>1 DEF Coords
<1>4. Modes[m].bits = 8 =>
         CodeBytes(m) \in Nat /\ \A i \in Coords : i \in 0 .. CodeBytes(m) - 1
  <2>1. Modes[m].bits = 8 => CodeBytes(m) = (Pdim * 8 + 7) \div 8
    BY DEF CodeBytes
  <2> QED
    BY <1>2, <2>1 DEF Coords
<1>5. /\ QjlBytes(m) \in Nat
      /\ Modes[m].qjl => \A i \in Coords : i \div 8 \in 0 .. QjlBytes(m) - 1
  BY <1>1, <1>2 DEF QjlBytes, Coords
<1>6. /\ Modes[m].bits = 4 \/ Modes[m].bits = 8
      /\ Modes[m].bits # 4 <=> Modes[m].bits = 8
  BY <1>1
<1> QED
  BY ONLY <1>3, <1>4, <1>5, <1>6

\* The loop that writes the codes.
CodeTurn(c, w, i) ==
    IF Modes[c.m].bits = 4
    THEN Ored(w, c.at + i \div 2, {b + NibbleAt(i) : b \in Bits(c.code[i], 4)})
    ELSE [w EXCEPT ![c.at + i] = Bits(c.code[i] % 256, 8)]
CodeTurnInv(c, k, w) == w = Placed(c.mem, c.at, CodeBytes(c.m), CodeImage(c.m, c.code, k))
CodeTurns == INSTANCE FoldFacts WITH Op <- CodeTurn, Inv <- CodeTurnInv

LEMMA CodeImageTurn ==
    ASSUME NEW m \in 1 .. Len(Modes), NEW code, NEW k \in Coords
    PROVE  /\ Modes[m].bits = 4 =>
                 CodeImage(m, code, k + 1) = Ored(CodeImage(m, code, k), k \div 2, Nibble(code, k))
           /\ Modes[m].bits # 4 =>
                 CodeImage(m, code, k + 1)
                    = SetAt(CodeImage(m, code, k), k, Bits(code[k] % 256, 8))
<1> DEFINE n == CodeBytes(m)
           img == CodeImage(m, code, k)
<1>1. k \in Nat /\ n \in Nat
  BY PdimFacts, ByteFacts DEF Coords
<1>2. CASE Modes[m].bits = 4
  <2>1. k \div 2 \in 0 .. n - 1
    BY <1>2, ByteFacts
  <2>2. ASSUME NEW j \in 0 .. n - 1
        PROVE  CodeByte(m, code, k + 1, j) =
                  IF j = k \div 2 THEN CodeByte(m, code, k, j) \cup Nibble(code, k)
                  ELSE CodeByte(m, code, k, j)
    <3> DEFINE I(x) == {i \in 0 .. x - 1 : i \div 2 = j}
    <3>1. CASE j = k \div 2
      <4>1. I(k + 1) = I(k) \cup {k}
        BY <1>1, <3>1
      <4> HIDE DEF I
      <4>2. UNION {Nibble(code, i) : i \in I(k + 1)}
               = (UNION {Nibble(code, i) : i \in I(k)}) \cup Nibble(code, k)
        BY <4>1
      <4> QED
        BY <1>2, <3>1, <4>2 DEF CodeByte, I
    <3>2. CASE j # k \div 2
      <4>1. I(k + 1) = I(k)
        BY <1>1, <3>2
      <4> HIDE DEF I
      <4>2. UNION {Nibble(code, i) : i \in I(k + 1)} = UNION {Nibble(code, i) : i \in I(k)}
        BY <4>1
      <4> QED
        BY <1>2, <3>2, <4>2 DEF CodeByte, I
    <3> QED
      BY <3>1, <3>2
  <2>3. CodeImage(m, code, k + 1) = [j \in 0 .. n - 1 |-> CodeByte(m, code, k + 1, j)]
    BY DEF CodeImage
  <2>4. img = [j \in 0 .. n - 1 |-> CodeByte(m, code, k, j)]
    BY DEF CodeImage
  <2> HIDE DEF img, n
  <2>5. [img EXCEPT ![k \div 2] = img[k \div 2] \cup Nibble(code, k)]
           = [j \in 0 .. n - 1 |-> IF j = k \div 2 THEN CodeByte(m, code, k, j) \cup Nibble(code, k)
                                   ELSE CodeByte(m, code, k, j)]
    BY <2>1, <2>4, Zenon
  <2> QED
    BY <1>2, <2>2, <2>3, <2>5, Zenon DEF img, Ored
<1>3. CASE Modes[m].bits # 4
  <2>1. k \in 0 .. n - 1
    BY <1>3, ByteFacts
  <2>2. \A j \in 0 .. n - 1 : CodeByte(m, code, k + 1, j) =
           IF j = k THEN Bits(code[k] % 256, 8) ELSE CodeByte(m, code, k, j)
    BY <1>1, <1>3 DEF CodeByte
  <2>3. CodeImage(m, code, k + 1) = [j \in 0 .. n - 1 |-> CodeByte(m, code, k + 1, j)]
    BY DEF CodeImage
  <2>4. img = [j \in 0 .. n - 1 |-> CodeByte(m, code, k, j)]
    BY DEF CodeImage
  <2> HIDE DEF img, n
  <2>5. [img EXCEPT ![k] = Bits(code[k] % 256, 8)]
           = [j \in 0 .. n - 1 |-> IF j = k THEN Bits(code[k] % 256, 8)
                                   ELSE CodeByte(m, code, k, j)]
    BY <2>1, <2>4, Zenon
  <2> QED
    BY <1>3, <2>2, <2>3, <2>5, Zenon DEF img, SetAt
<1> QED
  BY <1>2, <1>3

LEMMA CodesWrittenFacts ==
    ASSUME NEW N \in Nat, NEW mem, IsStore(mem, N), NEW m \in 1 .. Len(Modes),
           NEW at \in Nat, NEW code
    PROVE  CodesWritten(mem, m, at, code) =
              Placed(mem, at, CodeBytes(m), CodeImage(m, code, Pdim))
<1> DEFINE c == [mem |-> mem, m |-> m, at |-> at, code |-> code]
           n == CodeBytes(m)
<1>1. c.mem = mem /\ c.m = m /\ c.at = at /\ c.code = code
  OBVIOUS
<1>2. Pdim \in Nat \ {0} /\ DOMAIN All = 1 .. Pdim /\ n \in Nat
  BY PdimFacts, ByteFacts DEF All
<1>3. CodesWritten(mem, m, at, code) = CodeTurns!Fold(c, Wiped(mem, at, n), All)
  BY <1>1 DEF CodesWritten, CodeTurn, CodeTurns!Fold, CodeTurns!FoldLeft, FoldLeft,
         MapThenFoldSet, CodeTurns!MapThenFoldSet, Max, CodeTurns!Max
<1> HIDE DEF c, n
<1>4. CodeTurnInv(c, 0, Wiped(mem, at, n))
  <2>1. \A j : CodeByte(m, code, 0, j) = {} \/ j < 0
    BY DEF CodeByte
  <2>2. \A j \in 0 .. n - 1 : CodeImage(m, code, 0)[j] = {}
    BY <1>2, <2>1 DEF CodeImage, n
  <2>3. \A a \in DOMAIN mem : a \in at .. at + n - 1 => CodeImage(m, code, 0)[a - at] = {}
    BY <1>2, <2>2
  <2> QED
    BY <1>1, <2>3, Zenon DEF CodeTurnInv, Wiped, Placed, n
<1>5. \A w : \A k \in 0 .. Pdim - 1 :
         CodeTurnInv(c, k, w) => CodeTurnInv(c, k + 1, CodeTurn(c, w, All[k + 1]))
  <2> SUFFICES ASSUME NEW w, NEW k \in 0 .. Pdim - 1, CodeTurnInv(c, k, w)
               PROVE  CodeTurnInv(c, k + 1, CodeTurn(c, w, All[k + 1]))
    OBVIOUS
  <2> DEFINE img == CodeImage(m, code, k)
  <2>1. All[k + 1] = k /\ k \in Coords
    BY <1>2 DEF All, Coords
  <2>2. w = Placed(mem, at, n, img) /\ IsStore(img, n)
    BY <1>1 DEF CodeTurnInv, n, IsStore, CodeImage
  <2>3. CASE Modes[m].bits = 4
    <3>1. k \div 2 \in 0 .. n - 1
      BY <2>1, <2>3, ByteFacts DEF n
    <3>2. CodeTurn(c, w, k) = Ored(w, at + k \div 2, Nibble(code, k))
      BY <1>1, <2>3 DEF CodeTurn, Nibble
    <3>3. CodeImage(m, code, k + 1) = Ored(img, k \div 2, Nibble(code, k))
      BY <2>1, <2>3, CodeImageTurn
    <3> HIDE DEF img
    <3>4. Ored(Placed(mem, at, n, img), at + k \div 2, Nibble(code, k))
             = Placed(mem, at, n, Ored(img, k \div 2, Nibble(code, k)))
      BY <1>2, <2>2, <3>1, PlacedOred
    <3> QED
      BY <1>1, <2>1, <2>2, <3>2, <3>3, <3>4 DEF CodeTurnInv, n
  <2>4. CASE Modes[m].bits # 4
    <3>1. k \in 0 .. n - 1
      BY <2>1, <2>4, ByteFacts DEF n
    <3>2. CodeTurn(c, w, k) = SetAt(w, at + k, Bits(code[k] % 256, 8))
      BY <1>1, <2>4 DEF CodeTurn, SetAt
    <3>3. CodeImage(m, code, k + 1) = SetAt(img, k, Bits(code[k] % 256, 8))
      BY <2>1, <2>4, CodeImageTurn
    <3> HIDE DEF img
    <3>4. SetAt(Placed(mem, at, n, img), at + k, Bits(code[k] % 256, 8))
             = Placed(mem, at, n, SetAt(img, k, Bits(code[k] % 256, 8)))
      BY <1>2, <2>2, <3>1, PlacedSet
    <3> QED
      BY <1>1, <2>1, <2>2, <3>2, <3>3, <3>4 DEF CodeTurnInv, n
  <2> QED
    BY <2>3, <2>4
<1>6. CodeTurnInv(c, Pdim, CodeTurns!Fold(c, Wiped(mem, at, n), All))
  BY <1>2, <1>4, <1>5, CodeTurns!FoldInv
<1> QED
  BY <1>1, <1>3, <1>6 DEF CodeTurnInv, n

\* The loop that writes the sign bits.
SignTurn(c, w, i) == IF i \in c.up THEN Ored(w, c.at + i \div 8, {i % 8}) ELSE w
SignTurnInv(c, k, w) == w = Placed(c.mem, c.at, QjlBytes(c.m), SignImage(c.m, c.up, k))
SignTurns == INSTANCE FoldFacts WITH Op <- SignTurn, Inv <- SignTurnInv

LEMMA SignImageTurn ==
    ASSUME NEW m \in 1 .. Len(Modes), Modes[m].qjl, NEW up, NEW k \in Coords
    PROVE  /\ k \in up => SignImage(m, up, k + 1) = Ored(SignImage(m, up, k), k \div 8, {k % 8})
           /\ k \notin up => SignImage(m, up, k + 1) = SignImage(m, up, k)
<1> DEFINE n == QjlBytes(m)
           img == SignImage(m, up, k)
<1>1. k \in Nat /\ n \in Nat /\ k \div 8 \in 0 .. n - 1
  BY PdimFacts, ByteFacts DEF Coords
<1>2. ASSUME NEW j \in 0 .. n - 1
      PROVE  SignByte(up, k + 1, j) =
                IF k \in up /\ j = k \div 8 THEN SignByte(up, k, j) \cup {k % 8}
                ELSE SignByte(up, k, j)
  <2> DEFINE I(x) == {i \in 0 .. x - 1 : i \in up /\ i \div 8 = j}
  <2>1. CASE k \in up /\ j = k \div 8
    <3>1. I(k + 1) = I(k) \cup {k}
      BY <1>1, <2>1
    <3> HIDE DEF I
    <3>2. {i % 8 : i \in I(k + 1)} = {i % 8 : i \in I(k)} \cup {k % 8}
      BY <3>1
    <3> QED
      BY <2>1, <3>2, Zenon DEF SignByte, I
  <2>2. CASE ~ (k \in up /\ j = k \div 8)
    <3>1. I(k + 1) = I(k)
      BY <1>1, <2>2
    <3> QED
      BY <2>2, <3>1 DEF SignByte
  <2> QED
    BY <2>1, <2>2
<1>3. SignImage(m, up, k + 1) = [j \in 0 .. n - 1 |-> SignByte(up, k + 1, j)]
  BY DEF SignImage
<1>4. img = [j \in 0 .. n - 1 |-> SignByte(up, k, j)]
  BY DEF SignImage
<1> HIDE DEF img, n
<1>5. Ored(img, k \div 8, {k % 8})
         = [j \in 0 .. n - 1 |-> IF j = k \div 8 THEN SignByte(up, k, j) \cup {k % 8}
                                 ELSE SignByte(up, k, j)]
  BY <1>1, <1>4, Zenon DEF Ored
<1>6. CASE k \in up
  BY <1>2, <1>3, <1>5, <1>6, Zenon DEF img
<1>7. CASE k \notin up
  BY <1>2, <1>3, <1>4, <1>7, Zenon DEF img
<1> QED
  BY <1>6, <1>7

LEMMA SignsWrittenFacts ==
    ASSUME NEW N \in Nat, NEW mem, IsStore(mem, N), NEW m \in 1 .. Len(Modes),
           NEW at \in Nat, NEW up
    PROVE  SignsWritten(mem, m, at, up) =
              Placed(mem, at, QjlBytes(m), SignImage(m, up, Pdim))
<1> DEFINE c == [mem |-> mem, m |-> m, at |-> at, up |-> up]
           n == QjlBytes(m)
<1>1. c.mem = mem /\ c.m = m /\ c.at = at /\ c.up = up
  OBVIOUS
<1>2. Pdim \in Nat \ {0} /\ DOMAIN All = 1 .. Pdim /\ n \in Nat
  BY PdimFacts, ByteFacts DEF All
<1>3. CASE ~ Modes[m].qjl
  <2>1. n = 0 /\ SignsWritten(mem, m, at, up) = mem
    BY <1>3 DEF QjlBytes, SignsWritten
  <2>2. \A a \in DOMAIN mem : a \notin at .. at + 0 - 1
    OBVIOUS
  <2>3. mem = [a \in DOMAIN mem |-> mem[a]]
    BY DEF IsStore
  <2>4. Placed(mem, at, 0, SignImage(m, up, Pdim)) = [a \in DOMAIN mem |-> mem[a]]
    BY <2>2 DEF Placed
  <2> QED
    BY <2>1, <2>3, <2>4
<1>4. CASE Modes[m].qjl
  <2>3. SignsWritten(mem, m, at, up) = SignTurns!Fold(c, Wiped(mem, at, n), All)
    BY <1>1, <1>4 DEF SignsWritten, SignTurn, SignTurns!Fold, SignTurns!FoldLeft, FoldLeft,
           MapThenFoldSet, SignTurns!MapThenFoldSet, Max, SignTurns!Max
  <2> HIDE DEF c, n
  <2>4. SignTurnInv(c, 0, Wiped(mem, at, n))
    <3>1. \A j : SignByte(up, 0, j) = {}
      BY DEF SignByte
    <3>2. \A j \in 0 .. n - 1 : SignImage(m, up, 0)[j] = {}
      BY <1>2, <3>1 DEF SignImage, n
    <3>3. \A a \in DOMAIN mem : a \in at .. at + n - 1 => SignImage(m, up, 0)[a - at] = {}
      <4>1. \A a \in at .. at + n - 1 : a - at \in 0 .. n - 1
        BY <1>2
      <4> QED
        BY <3>2, <4>1
    <3> QED
      BY <1>1, <3>3, Zenon DEF SignTurnInv, Wiped, Placed, n
  <2>5. \A w : \A k \in 0 .. Pdim - 1 :
           SignTurnInv(c, k, w) => SignTurnInv(c, k + 1, SignTurn(c, w, All[k + 1]))
    <3> SUFFICES ASSUME NEW w, NEW k \in 0 .. Pdim - 1, SignTurnInv(c, k, w)
                 PROVE  SignTurnInv(c, k + 1, SignTurn(c, w, All[k + 1]))
      OBVIOUS
    <3> DEFINE img == SignImage(m, up, k)
    <3>1. All[k + 1] = k /\ k \in Coords /\ k \div 8 \in 0 .. n - 1
      BY <1>2, <1>4, ByteFacts DEF All, Coords, n
    <3>2. w = Placed(mem, at, n, img) /\ IsStore(img, n)
      BY <1>1 DEF SignTurnInv, n, IsStore, SignImage
    <3>3. CASE k \in up
      <4>1. SignTurn(c, w, k) = Ored(w, at + k \div 8, {k % 8})
        BY <1>1, <3>3 DEF SignTurn
      <4>2. SignImage(m, up, k + 1) = Ored(img, k \div 8, {k % 8})
        BY <1>4, <3>1, <3>3, SignImageTurn
      <4> HIDE DEF img
      <4>3. Ored(Placed(mem, at, n, img), at + k \div 8, {k % 8})
               = Placed(mem, at, n, Ored(img, k \div 8, {k % 8}))
        BY <1>2, <3>1, <3>2, PlacedOred
      <4> QED
        BY <1>1, <3>1, <3>2, <4>1, <4>2, <4>3 DEF SignTurnInv, n
    <3>4. CASE k \notin up
      <4>1. SignTurn(c, w, k) = w /\ SignImage(m, up, k + 1) = img
        BY <1>1, <1>4, <3>1, <3>4, SignImageTurn, Zenon DEF SignTurn
      <4> HIDE DEF img
      <4> QED
        BY <1>1, <3>1, <3>2, <4>1 DEF SignTurnInv, n
    <3> QED
      BY <3>3, <3>4
  <2>6. SignTurnInv(c, Pdim, SignTurns!Fold(c, Wiped(mem, at, n), All))
    BY <1>2, <2>4, <2>5, SignTurns!FoldInv
  <2> QED
    BY <1>1, <2>3, <2>6 DEF SignTurnInv, n
<1> QED
  BY <1>3, <1>4

\* Slot s holds the encoding of x.
SlotHolds(c, s, x) ==
    LET e  == Encodings[c.mode][x]
        cb == CodeBytes(c.mode)
        qb == QjlBytes(c.mode)
    IN  /\ c.norms[s + 1] = e.norm /\ c.csqs[s + 1] = e.csq
        /\ c.sums[s + 1] = e.sum /\ c.rnorms[s + 1] = e.rnorm
        /\ \A j \in 0 .. cb - 1 : c.codes[s * cb + j] = CodeByte(c.mode, e.code, Pdim, j)
        /\ \A j \in 0 .. qb - 1 : c.signs[s * qb + j] = SignByte(e.up, Pdim, j)

CodecRecord(c) ==
    c = [mode |-> c.mode, cap |-> c.cap, ids |-> c.ids, norms |-> c.norms, csqs |-> c.csqs,
         sums |-> c.sums, rnorms |-> c.rnorms, codes |-> c.codes, signs |-> c.signs]

\* The codec holds the vectors xs in this order, within its capacity.
CodecHolds(c, xs) ==
    /\ CodecRecord(c) /\ c.mode \in 1 .. Len(Modes)
    /\ xs \in Seq(DOMAIN Vec) /\ c.ids = xs /\ c.cap \in Nat \ {0} /\ Len(xs) <= c.cap
    /\ IsRow(c.norms, Len(xs)) /\ IsRow(c.csqs, Len(xs))
    /\ IsRow(c.sums, Len(xs)) /\ IsRow(c.rnorms, Len(xs))
    /\ IsStore(c.codes, c.cap * CodeBytes(c.mode))
    /\ IsStore(c.signs, c.cap * QjlBytes(c.mode))
    /\ \A s \in 0 .. Len(xs) - 1 : SlotHolds(c, s, xs[s + 1])

LEMMA EmptyHolds ==
    ASSUME NEW m \in 1 .. Len(Modes)
    PROVE  CodecHolds(EmptyCodec(m), <<>>)
<1> DEFINE c == EmptyCodec(m)
<1>1. /\ CodecRecord(c) /\ c.mode = m /\ c.ids = <<>> /\ c.cap = CodecCap
      /\ c.norms = <<>> /\ c.csqs = <<>> /\ c.sums = <<>> /\ c.rnorms = <<>>
      /\ c.codes = Bytes(CodecCap * CodeBytes(m)) /\ c.signs = Bytes(CodecCap * QjlBytes(m))
  BY DEF EmptyCodec, CodecRecord
<1> HIDE DEF c
<1>2. <<>> \in Seq(DOMAIN Vec) /\ Len(<<>>) = 0 /\ IsRow(<<>>, 0)
  BY DEF IsRow
<1>3. \A N : IsStore(Bytes(N), N)
  BY DEF IsStore, Bytes
<1>4. CodecCap \in Nat \ {0}
  BY TurboQuantAssumption
<1>5. 0 .. Len(<<>>) - 1 = {}
  OBVIOUS
<1>6. CodecHolds(c, <<>>)
  BY <1>1, <1>2, <1>3, <1>4, <1>5 DEF CodecHolds
<1> QED
  BY <1>6 DEF c

LEMMA ExtendedFacts ==
    ASSUME NEW N \in Nat, NEW mem, IsStore(mem, N), NEW to \in Nat
    PROVE  /\ IsStore(Extended(mem, to), to)
           /\ \A a \in 0 .. N - 1 : a \in 0 .. to - 1 => Extended(mem, to)[a] = mem[a]
<1>1. DOMAIN mem = 0 .. N - 1
  BY DEF IsStore
<1> QED
  BY <1>1 DEF IsStore, Extended

\* Growth of the codec keeps what it holds.
LEMMA RoomyHolds ==
    ASSUME NEW c, NEW xs, CodecHolds(c, xs)
    PROVE  /\ CodecHolds(Roomy(c), xs) /\ Roomy(c).mode = c.mode
           /\ Len(xs) + 1 <= Roomy(c).cap
<1>0. Len(xs) \in Nat /\ c.cap \in Nat \ {0} /\ Len(xs) <= c.cap /\ c.ids = xs
  BY DEF CodecHolds
<1>1. CASE ~ IsFull(c)
  BY <1>0, <1>1 DEF Roomy, IsFull
<1>2. CASE IsFull(c)
  <2> DEFINE cb == CodeBytes(c.mode)
             qb == QjlBytes(c.mode)
             big == 2 * c.cap
             r == Roomy(c)
  <2>1. cb \in Nat /\ qb \in Nat /\ big \in Nat \ {0}
    BY <1>0, ByteFacts DEF CodecHolds
  <2>2. r = [c EXCEPT !.cap = big, !.codes = Extended(c.codes, big * cb),
                      !.signs = Extended(c.signs, big * qb)]
    BY <1>2 DEF Roomy
  <2>3. /\ r.cap = big /\ r.mode = c.mode /\ r.ids = c.ids /\ CodecRecord(r)
        /\ r.norms = c.norms /\ r.csqs = c.csqs /\ r.sums = c.sums /\ r.rnorms = c.rnorms
        /\ r.codes = Extended(c.codes, big * cb) /\ r.signs = Extended(c.signs, big * qb)
    BY <2>2, Zenon DEF CodecRecord, CodecHolds
  <2> HIDE DEF r
  <2>4. c.cap * cb \in Nat /\ c.cap * qb \in Nat /\ big * cb \in Nat /\ big * qb \in Nat
    <3> HIDE DEF big, cb, qb
    <3> QED BY <1>0, <2>1
  <2>5. /\ IsStore(r.codes, big * cb) /\ IsStore(r.signs, big * qb)
        /\ \A a \in 0 .. c.cap * cb - 1 : a \in 0 .. big * cb - 1 => r.codes[a] = c.codes[a]
        /\ \A a \in 0 .. c.cap * qb - 1 : a \in 0 .. big * qb - 1 => r.signs[a] = c.signs[a]
    <3>1. IsStore(c.codes, c.cap * cb) /\ IsStore(c.signs, c.cap * qb)
      BY DEF CodecHolds
    <3> HIDE DEF big, cb, qb
    <3>2. /\ IsStore(r.codes, big * cb)
          /\ \A a \in 0 .. c.cap * cb - 1 : a \in 0 .. big * cb - 1 => r.codes[a] = c.codes[a]
      BY ONLY <2>3, <2>4, <3>1, ExtendedFacts, SMTT(30)
    <3>3. /\ IsStore(r.signs, big * qb)
          /\ \A a \in 0 .. c.cap * qb - 1 : a \in 0 .. big * qb - 1 => r.signs[a] = c.signs[a]
      BY ONLY <2>3, <2>4, <3>1, ExtendedFacts, SMTT(30)
    <3> QED
      BY <3>2, <3>3
  <2>6. ASSUME NEW s \in 0 .. Len(xs) - 1
        PROVE  SlotHolds(r, s, xs[s + 1])
    <3>1. SlotHolds(c, s, xs[s + 1])
      BY DEF CodecHolds
    <3>2. s \in 0 .. c.cap - 1 /\ s \in 0 .. big - 1
      BY <1>0
    <3> HIDE DEF big
    <3>3. \A j \in 0 .. cb - 1 : r.codes[s * cb + j] = c.codes[s * cb + j]
      <4> HIDE DEF cb
      <4>1. \A j \in 0 .. cb - 1 :
               s * cb + j \in 0 .. c.cap * cb - 1 /\ s * cb + j \in 0 .. big * cb - 1
        BY <1>0, <2>1, <3>2, RowInside
      <4> QED
        BY <2>5, <4>1
    <3>4. \A j \in 0 .. qb - 1 : r.signs[s * qb + j] = c.signs[s * qb + j]
      <4> HIDE DEF qb
      <4>1. \A j \in 0 .. qb - 1 :
               s * qb + j \in 0 .. c.cap * qb - 1 /\ s * qb + j \in 0 .. big * qb - 1
        BY <1>0, <2>1, <3>2, RowInside
      <4> QED
        BY <2>5, <4>1
    <3> QED
      BY <2>3, <3>1, <3>3, <3>4 DEF SlotHolds
  <2>7. Len(xs) + 1 <= big
    BY <1>0
  <2> HIDE DEF big
  <2>8. CodecHolds(r, xs)
    BY <1>0, <2>1, <2>3, <2>5, <2>6, <2>7 DEF CodecHolds
  <2> QED
    BY <2>3, <2>7, <2>8 DEF r
<1> QED
  BY <1>1, <1>2

\* Store p of slots of k bytes has img in slot n, and mem in the slots before it.
SlotPlaced(p, mem, total, k, n, img) ==
    /\ IsStore(p, total * k)
    /\ \A s \in 0 .. n - 1 : \A j \in 0 .. k - 1 : p[s * k + j] = mem[s * k + j]
    /\ \A j \in 0 .. k - 1 : p[n * k + j] = img[j]

LEMMA PlacedSlots ==
    ASSUME NEW k \in Nat, NEW total \in Nat, NEW mem, IsStore(mem, total * k),
           NEW n \in 0 .. total - 1, NEW img, IsStore(img, k)
    PROVE  SlotPlaced(Placed(mem, n * k, k, img), mem, total, k, n, img)
<1> DEFINE p == Placed(mem, n * k, k, img)
<1>1. DOMAIN mem = 0 .. total * k - 1
  BY DEF IsStore
<1>2. /\ IsStore(p, total * k)
      /\ \A a \in 0 .. total * k - 1 :
            p[a] = IF a \in n * k .. n * k + k - 1 THEN img[a - n * k] ELSE mem[a]
  BY <1>1 DEF Placed, IsStore
<1> HIDE DEF p
<1>3. n \in Nat /\ n * k \in Nat
  OBVIOUS
<1>4. ASSUME NEW s \in 0 .. n - 1, NEW j \in 0 .. k - 1 PROVE p[s * k + j] = mem[s * k + j]
  <2>1. s \in Nat /\ s # n /\ s \in 0 .. total - 1 /\ s * k \in Nat
    OBVIOUS
  <2>2. s * k + j \in 0 .. total * k - 1
    BY <2>1, RowInside
  <2>3. (s * k + j) - n * k \notin 0 .. k - 1
    BY <1>3, <2>1, RowsApart
  <2>4. s * k + j \notin n * k .. n * k + k - 1
    BY <1>3, <2>1, <2>3
  <2> QED
    BY <1>2, <2>2, <2>4
<1>5. ASSUME NEW j \in 0 .. k - 1 PROVE p[n * k + j] = img[j]
  <2>1. n * k + j \in 0 .. total * k - 1 /\ (n * k + j) - n * k = j
    BY RowInside
  <2>2. n * k + j \in n * k .. n * k + k - 1
    BY <1>3
  <2> QED
    BY <1>2, <2>1, <2>2
<1>6. SlotPlaced(p, mem, total, k, n, img)
  BY <1>2, <1>4, <1>5 DEF SlotPlaced
<1> QED
  BY <1>6 DEF p

LEMMA FiledHolds ==
    ASSUME NEW c, NEW xs, CodecHolds(c, xs), Len(xs) + 1 <= c.cap, NEW x \in DOMAIN Vec
    PROVE  CodecHolds(Filed(c, Len(xs), x, Encodings[c.mode][x]), Append(xs, x))
<1> DEFINE n == Len(xs)
           m == c.mode
           e == Encodings[c.mode][x]
           f == Filed(c, n, x, e)
           ys == Append(xs, x)
           cb == CodeBytes(m)
           qb == QjlBytes(m)
<1>1. /\ n \in Nat /\ c.cap \in Nat \ {0} /\ n \in 0 .. c.cap - 1 /\ c.ids = xs
      /\ m \in 1 .. Len(Modes) /\ xs \in Seq(DOMAIN Vec)
  BY DEF CodecHolds
<1>2. cb \in Nat /\ qb \in Nat
  BY <1>1, ByteFacts
<1>3. /\ ys \in Seq(DOMAIN Vec) /\ Len(ys) = n + 1 /\ ys[n + 1] = x
      /\ \A i \in 1 .. n : ys[i] = xs[i]
  BY <1>1
<1>4. /\ CodecRecord(f) /\ f.mode = m /\ f.cap = c.cap /\ f.ids = ys
      /\ f.norms = Append(c.norms, e.norm) /\ f.csqs = Append(c.csqs, e.csq)
      /\ f.sums = Append(c.sums, e.sum) /\ f.rnorms = Append(c.rnorms, e.rnorm)
      /\ f.codes = CodesWritten(c.codes, m, n * cb, e.code)
      /\ f.signs = SignsWritten(c.signs, m, n * qb, e.up)
  BY <1>1, Zenon DEF Filed, CodecRecord
<1>5. /\ IsRow(c.norms, n) /\ IsRow(c.csqs, n) /\ IsRow(c.sums, n) /\ IsRow(c.rnorms, n)
      /\ IsStore(c.codes, c.cap * cb) /\ IsStore(c.signs, c.cap * qb)
      /\ \A s \in 0 .. n - 1 : SlotHolds(c, s, xs[s + 1])
  BY DEF CodecHolds
<1> HIDE DEF f, e, ys, n, m, cb, qb
<1>6. /\ IsRow(f.norms, n + 1) /\ f.norms[n + 1] = e.norm
      /\ \A i \in 1 .. n : f.norms[i] = c.norms[i]
  <2>1. RowAnd(Append(c.norms, e.norm), n, c.norms, e.norm)
    BY <1>1, <1>5, RowAppended, Zenon
  <2>2. RowAnd(f.norms, n, c.norms, e.norm)
    BY <1>4, <2>1, Zenon
  <2> QED
    BY <2>2, Zenon DEF RowAnd
<1>7. /\ IsRow(f.csqs, n + 1) /\ f.csqs[n + 1] = e.csq
      /\ \A i \in 1 .. n : f.csqs[i] = c.csqs[i]
  <2>1. RowAnd(Append(c.csqs, e.csq), n, c.csqs, e.csq)
    BY <1>1, <1>5, RowAppended, Zenon
  <2>2. RowAnd(f.csqs, n, c.csqs, e.csq)
    BY <1>4, <2>1, Zenon
  <2> QED
    BY <2>2, Zenon DEF RowAnd
<1>8. /\ IsRow(f.sums, n + 1) /\ f.sums[n + 1] = e.sum
      /\ \A i \in 1 .. n : f.sums[i] = c.sums[i]
  <2>1. RowAnd(Append(c.sums, e.sum), n, c.sums, e.sum)
    BY <1>1, <1>5, RowAppended, Zenon
  <2>2. RowAnd(f.sums, n, c.sums, e.sum)
    BY <1>4, <2>1, Zenon
  <2> QED
    BY <2>2, Zenon DEF RowAnd
<1>9. /\ IsRow(f.rnorms, n + 1) /\ f.rnorms[n + 1] = e.rnorm
      /\ \A i \in 1 .. n : f.rnorms[i] = c.rnorms[i]
  <2>1. RowAnd(Append(c.rnorms, e.rnorm), n, c.rnorms, e.rnorm)
    BY <1>1, <1>5, RowAppended, Zenon
  <2>2. RowAnd(f.rnorms, n, c.rnorms, e.rnorm)
    BY <1>4, <2>1, Zenon
  <2> QED
    BY <2>2, Zenon DEF RowAnd
<1>10. /\ IsStore(f.codes, c.cap * cb)
       /\ \A s \in 0 .. n - 1 : \A j \in 0 .. cb - 1 : f.codes[s * cb + j] = c.codes[s * cb + j]
       /\ \A j \in 0 .. cb - 1 : f.codes[n * cb + j] = CodeByte(m, e.code, Pdim, j)
  <2> DEFINE img == CodeImage(m, e.code, Pdim)
  <2>1. IsStore(img, cb) /\ \A j \in 0 .. cb - 1 : img[j] = CodeByte(m, e.code, Pdim, j)
    BY DEF CodeImage, IsStore, cb
  <2>2. n * cb \in Nat /\ c.cap * cb \in Nat
    BY <1>1, <1>2
  <2>3. f.codes = Placed(c.codes, n * cb, cb, img)
    BY <1>1, <1>4, <1>5, <2>2, CodesWrittenFacts DEF cb
  <2> HIDE DEF img
  <2>4. /\ cb \in Nat /\ c.cap \in Nat /\ IsStore(c.codes, c.cap * cb)
        /\ n \in 0 .. c.cap - 1 /\ IsStore(img, cb)
    BY <1>1, <1>2, <1>5, <2>1
  <2>5. SlotPlaced(Placed(c.codes, n * cb, cb, img), c.codes, c.cap, cb, n, img)
    BY ONLY <2>4, PlacedSlots, Zenon
  <2>6. SlotPlaced(f.codes, c.codes, c.cap, cb, n, img)
    BY <2>3, <2>5, Zenon
  <2> QED
    BY <2>1, <2>6 DEF SlotPlaced
<1>11. /\ IsStore(f.signs, c.cap * qb)
       /\ \A s \in 0 .. n - 1 : \A j \in 0 .. qb - 1 : f.signs[s * qb + j] = c.signs[s * qb + j]
       /\ \A j \in 0 .. qb - 1 : f.signs[n * qb + j] = SignByte(e.up, Pdim, j)
  <2> DEFINE img == SignImage(m, e.up, Pdim)
  <2>1. IsStore(img, qb) /\ \A j \in 0 .. qb - 1 : img[j] = SignByte(e.up, Pdim, j)
    BY DEF SignImage, IsStore, qb
  <2>2. n * qb \in Nat /\ c.cap * qb \in Nat
    BY <1>1, <1>2
  <2>3. f.signs = Placed(c.signs, n * qb, qb, img)
    BY <1>1, <1>4, <1>5, <2>2, SignsWrittenFacts DEF qb
  <2> HIDE DEF img
  <2>4. /\ qb \in Nat /\ c.cap \in Nat /\ IsStore(c.signs, c.cap * qb)
        /\ n \in 0 .. c.cap - 1 /\ IsStore(img, qb)
    BY <1>1, <1>2, <1>5, <2>1
  <2>5. SlotPlaced(Placed(c.signs, n * qb, qb, img), c.signs, c.cap, qb, n, img)
    BY ONLY <2>4, PlacedSlots, Zenon
  <2>6. SlotPlaced(f.signs, c.signs, c.cap, qb, n, img)
    BY <2>3, <2>5, Zenon
  <2> QED
    BY <2>1, <2>6 DEF SlotPlaced
<1>12. ASSUME NEW s \in 0 .. n PROVE SlotHolds(f, s, ys[s + 1])
  <2>1. CASE s = n
    BY <1>1, <1>3, <1>4, <1>6, <1>7, <1>8, <1>9, <1>10, <1>11, <2>1, ZenonT(30)
       DEF SlotHolds, cb, qb, e, m
  <2>2. CASE s # n
    <3>1. s \in 0 .. n - 1 /\ s + 1 \in 1 .. n
      BY <1>1, <2>2
    <3>2. SlotHolds(c, s, ys[s + 1])
      BY <1>3, <1>5, <3>1
    <3>3. /\ f.norms[s + 1] = c.norms[s + 1] /\ f.csqs[s + 1] = c.csqs[s + 1]
          /\ f.sums[s + 1] = c.sums[s + 1] /\ f.rnorms[s + 1] = c.rnorms[s + 1]
          /\ \A j \in 0 .. cb - 1 : f.codes[s * cb + j] = c.codes[s * cb + j]
          /\ \A j \in 0 .. qb - 1 : f.signs[s * qb + j] = c.signs[s * qb + j]
      BY <1>6, <1>7, <1>8, <1>9, <1>10, <1>11, <3>1
    <3> DEFINE d == Encodings[m][ys[s + 1]]
    <3>4. /\ c.norms[s + 1] = d.norm /\ c.csqs[s + 1] = d.csq
          /\ c.sums[s + 1] = d.sum /\ c.rnorms[s + 1] = d.rnorm
          /\ \A j \in 0 .. cb - 1 : c.codes[s * cb + j] = CodeByte(m, d.code, Pdim, j)
          /\ \A j \in 0 .. qb - 1 : c.signs[s * qb + j] = SignByte(d.up, Pdim, j)
      BY <3>2, Zenon DEF SlotHolds, cb, qb, m
    <3> HIDE DEF d
    <3>5. /\ f.norms[s + 1] = d.norm /\ f.csqs[s + 1] = d.csq
          /\ f.sums[s + 1] = d.sum /\ f.rnorms[s + 1] = d.rnorm
      BY <3>3, <3>4, Zenon
    <3>6. \A j \in 0 .. cb - 1 : f.codes[s * cb + j] = CodeByte(m, d.code, Pdim, j)
      BY <3>3, <3>4, Zenon
    <3>7. \A j \in 0 .. qb - 1 : f.signs[s * qb + j] = SignByte(d.up, Pdim, j)
      BY <3>3, <3>4, Zenon
    <3> QED
      BY <1>4, <3>5, <3>6, <3>7, ZenonT(30) DEF SlotHolds, cb, qb, d
  <2> QED
    BY <2>1, <2>2
<1>13. n + 1 <= c.cap /\ 0 .. (n + 1) - 1 = 0 .. n
  BY <1>1
<1>14. CodecHolds(f, ys)
  BY <1>1, <1>3, <1>4, <1>6, <1>7, <1>8, <1>9, <1>10, <1>11, <1>12, <1>13
     DEF CodecHolds, cb, qb
<1> QED
  BY <1>14 DEF f, ys, n, e

\* tq_add.
LEMMA EncodedHolds ==
    ASSUME NEW c, NEW xs, CodecHolds(c, xs), NEW x \in DOMAIN Vec
    PROVE  /\ CodecHolds(Encoded(c, x, x), Append(xs, x))
           /\ Encoded(c, x, x).mode = c.mode
<1> DEFINE r == Roomy(c)
           f == Filed(r, Len(xs), x, Encodings[r.mode][x])
<1>1. CodecHolds(r, xs) /\ r.mode = c.mode /\ Len(xs) + 1 <= r.cap
  BY RoomyHolds
<1>2. c.ids = xs
  BY DEF CodecHolds
<1>3. Encoded(c, x, x) = f
  BY <1>1, <1>2 DEF Encoded
<1>4. f.mode = r.mode
  BY DEF Filed
<1> HIDE DEF r
<1>5. CodecHolds(f, Append(xs, x))
  BY <1>1, FiledHolds
<1> QED
  BY <1>1, <1>3, <1>4, <1>5

\* A score is a function of the query and of the vector in the slot: it does not
\* depend on the slot, on what was stored before, nor on growth.
LEMMA SameScore ==
    ASSUME NEW c, NEW s, NEW d, NEW t, NEW x, c.mode \in 1 .. Len(Modes), d.mode = c.mode,
           SlotHolds(c, s, x), SlotHolds(d, t, x), NEW q
    PROVE  Score(c, q, s) = Score(d, q, t)
<1> DEFINE m == c.mode
           cb == CodeBytes(m)
           qb == QjlBytes(m)
           Q == Queries[m][q]
<1>1. /\ c.norms[s + 1] = d.norms[t + 1] /\ c.csqs[s + 1] = d.csqs[t + 1]
      /\ c.sums[s + 1] = d.sums[t + 1] /\ c.rnorms[s + 1] = d.rnorms[t + 1]
      /\ \A j \in 0 .. cb - 1 : c.codes[s * cb + j] = d.codes[t * cb + j]
      /\ \A j \in 0 .. qb - 1 : c.signs[s * qb + j] = d.signs[t * qb + j]
  BY DEF SlotHolds
<1>2. ASSUME NEW i \in Coords PROVE CodeOf(c, s, i) = CodeOf(d, t, i)
  <2>1. CASE Modes[m].bits = 4
    <3>1. i \div 2 \in 0 .. cb - 1
      BY <2>1, ByteFacts
    <3>2. c.codes[s * cb + i \div 2] = d.codes[t * cb + i \div 2]
      BY <1>1, <3>1
    <3> QED
      BY <2>1, <3>2 DEF CodeOf
  <2>2. CASE Modes[m].bits # 4
    <3>1. i \in 0 .. cb - 1
      BY <2>2, ByteFacts
    <3>2. c.codes[s * cb + i] = d.codes[t * cb + i]
      BY <1>1, <3>1
    <3> QED
      BY <2>2, <3>2 DEF CodeOf
  <2> QED
    BY <2>1, <2>2
<1>3. \A i \in Coords : ValueOf(c, s, i) = ValueOf(d, t, i)
  BY <1>2 DEF ValueOf
<1>4. Modes[m].qjl => \A i \in Coords : SignOf(c, s, i) <=> SignOf(d, t, i)
  <2> SUFFICES ASSUME Modes[m].qjl, NEW i \in Coords PROVE SignOf(c, s, i) <=> SignOf(d, t, i)
    OBVIOUS
  <2>1. i \div 8 \in 0 .. qb - 1
    BY ByteFacts
  <2>2. c.signs[s * qb + i \div 8] = d.signs[t * qb + i \div 8]
    BY <1>1, <2>1
  <2> QED
    BY <2>2 DEF SignOf
<1> HIDE DEF Q
<1>5. Int8Dot(c, Q, s) = Int8Dot(d, Q, t)
  <2>0. \A i \in Coords : GridOf(c, s, i) = GridOf(d, t, i)
    BY <1>2 DEF GridOf
  <2>1. [i \in Coords |-> Q.q8[i] * GridOf(c, s, i)] = [i \in Coords |-> Q.q8[i] * GridOf(d, t, i)]
    BY <2>0
  <2>2. [i \in Coords |-> (Q.q8[i] + 128) * GridOf(c, s, i)]
           = [i \in Coords |-> (Q.q8[i] + 128) * GridOf(d, t, i)]
    BY <2>0
  <2>3. Bias(c, s) = Bias(d, t)
    BY <1>1 DEF Bias
  <2> QED
    BY <2>1, <2>2, <2>3, Zenon DEF Int8Dot, m
<1>6. Cross(c, Q, s) = Cross(d, Q, t)
  <2>1. [i \in Coords |-> Q.y[i] * ValueOf(c, s, i)] = [i \in Coords |-> Q.y[i] * ValueOf(d, t, i)]
    BY <1>3
  <2> QED
    BY <1>1, <1>5, <2>1, Zenon DEF Cross, m
<1>7. Modes[m].qjl => Correction(c, Q, s) = Correction(d, Q, t)
  <2> SUFFICES ASSUME Modes[m].qjl PROVE Correction(c, Q, s) = Correction(d, Q, t)
    OBVIOUS
  <2>1. [i \in Coords |-> IF SignOf(c, s, i) THEN Q.proj[i] ELSE -Q.proj[i]]
           = [i \in Coords |-> IF SignOf(d, t, i) THEN Q.proj[i] ELSE -Q.proj[i]]
    BY <1>4
  <2> QED
    BY <1>1, <2>1, Zenon DEF Correction, m
<1>8. CASE Modes[m].qjl
  BY <1>1, <1>6, <1>7, <1>8, Zenon DEF Score, m, Q
<1>9. CASE ~ Modes[m].qjl
  BY <1>1, <1>6, <1>9, Zenon DEF Score, m, Q
<1> QED
  BY <1>8, <1>9

\* So it is the one of the codec that holds nothing else.
LEMMA ScoreIsCoded ==
    ASSUME NEW c, NEW xs, CodecHolds(c, xs), NEW q \in DOMAIN Vec, NEW s \in 0 .. Len(xs) - 1
    PROVE  Score(c, q, s) = C[c.mode][q][xs[s + 1]]
<1> DEFINE m == c.mode
           x == xs[s + 1]
           none == EmptyCodec(m)
           d == Encoded(none, x, x)
<1>1. m \in 1 .. Len(Modes) /\ x \in DOMAIN Vec /\ SlotHolds(c, s, x)
  BY DEF CodecHolds
<1>2. CodecHolds(none, <<>>) /\ none.mode = m
  BY <1>1, EmptyHolds DEF EmptyCodec
<1> HIDE DEF none, x, m
<1>3. CodecHolds(d, Append(<<>>, x)) /\ d.mode = m
  BY <1>1, <1>2, EncodedHolds, Zenon
<1>4. Len(Append(<<>>, x)) = 1 /\ Append(<<>>, x)[0 + 1] = x
  BY <1>1
<1> HIDE DEF d
<1>5. SlotHolds(d, 0, x)
  <2>1. 0 \in 0 .. Len(Append(<<>>, x)) - 1
    BY <1>4
  <2>2. SlotHolds(d, 0, Append(<<>>, x)[0 + 1])
    BY <1>3, <2>1 DEF CodecHolds
  <2> QED
    BY <1>4, <2>2
<1>6. Score(c, q, s) = Score(d, q, 0)
  BY <1>1, <1>3, <1>5, SameScore DEF m
<1>7. C[m][q][x] = Score(d, q, 0)
  BY <1>1 DEF C, d, none
<1> QED
  BY <1>6, <1>7 DEF m, x

-----------------------------------------------------------------------------
(***************************************************************************)
(* The kernels.                                                            *)
(***************************************************************************)
\* The first n coordinates, in order.
FirstCoords(n) == [j \in 1 .. n |-> j - 1]

ReadOp(n, r, st) == r \o [j \in 1 .. Covered(st, Len(r), n) |-> Len(r) + j - 1]

\* The stages so far have read the coordinates below pos, each once.
ReadInv(pos, k, r) == r = FirstCoords(pos[k + 1])

ReadLoop(c, r, st) == ReadOp(c.n, r, st)
ReadLoopInv(c, k, r) == ReadInv(c.pos, k, r)
ReadsFold == INSTANCE FoldFacts WITH Op <- ReadLoop, Inv <- ReadLoopInv

LEMMA ReadMore ==
    ASSUME NEW n \in Nat, NEW i \in 0 .. n, NEW st, NEW more \in Nat, Covered(st, i, n) = more
    PROVE  ReadOp(n, FirstCoords(i), st) = FirstCoords(i + more)
<1> DEFINE a == FirstCoords(i)
           b == [j \in 1 .. more |-> i + j - 1]
<1>1. i \in Nat /\ a \in Seq(Int) /\ Len(a) = i /\ b \in Seq(Int) /\ Len(b) = more
  BY DEF FirstCoords
<1>2. ReadOp(n, a, st) = a \o b
  BY <1>1 DEF ReadOp
<1>3. /\ \A j \in 1 .. i : a[j] = j - 1
      /\ \A j \in 1 .. more : b[j] = i + j - 1
  BY DEF FirstCoords
<1> HIDE DEF a, b
<1>4. a \o b = [j \in 1 .. i + more |-> IF j <= i THEN a[j] ELSE b[j - i]]
  <2> DEFINE s == a \o b
  <2>1. s \in Seq(Int) /\ Len(s) = i + more
    BY <1>1
  <2>2. \A j \in 1 .. i + more : s[j] = IF j <= i THEN a[j] ELSE b[j - i]
    BY <1>1
  <2> HIDE DEF s
  <2>3. s = [j \in 1 .. i + more |-> s[j]]
    BY <2>1
  <2> QED
    BY <2>2, <2>3 DEF s
<1>5. \A j \in 1 .. i + more : (IF j <= i THEN a[j] ELSE b[j - i]) = j - 1
  <2> SUFFICES ASSUME NEW j \in 1 .. i + more
               PROVE  (IF j <= i THEN a[j] ELSE b[j - i]) = j - 1
    OBVIOUS
  <2>1. CASE j <= i
    BY <1>1, <1>3, <2>1
  <2>2. CASE ~ (j <= i)
    <3>1. j - i \in 1 .. more
      BY <1>1, <2>2
    <3>2. b[j - i] = i + (j - i) - 1
      BY <1>3, <3>1
    <3> QED
      BY <1>1, <2>2, <3>2
  <2> QED
    BY <2>1, <2>2
<1> QED
  BY <1>2, <1>4, <1>5 DEF a, FirstCoords

\* A kernel of m stages over n coordinates: each starts where the one before
\* stopped, the first at 0, and the last stops at n.
Staged(stages, pos, m, n) ==
    /\ pos \in [1 .. m + 1 -> 0 .. n] /\ pos[1] = 0 /\ pos[m + 1] = n
    /\ DOMAIN stages = 1 .. m
    /\ \A k \in 1 .. m : /\ Covered(stages[k], pos[k], n) \in Nat
                         /\ pos[k + 1] = pos[k] + Covered(stages[k], pos[k], n)

\* Such a kernel reads every coordinate once.
LEMMA ReadsThrough ==
    ASSUME NEW n \in Nat, NEW m \in Nat, NEW stages, NEW pos, Staged(stages, pos, m, n)
    PROVE  EachOnce(stages, n)
<1> DEFINE c == [n |-> n, pos |-> pos]
           r == ReadsFold!Fold(c, <<>>, stages)
<1>0. /\ pos \in [1 .. m + 1 -> 0 .. n] /\ pos[1] = 0 /\ pos[m + 1] = n
      /\ DOMAIN stages = 1 .. m
      /\ \A k \in 1 .. m : /\ Covered(stages[k], pos[k], n) \in Nat
                           /\ pos[k + 1] = pos[k] + Covered(stages[k], pos[k], n)
  BY DEF Staged
<1>1. c.n = n /\ c.pos = pos
  OBVIOUS
<1>2. r = Reads(stages, n)
  BY Zenon DEF Reads, ReadLoop, ReadOp, ReadsFold!Fold, ReadsFold!FoldLeft, FoldLeft,
         MapThenFoldSet, ReadsFold!MapThenFoldSet, Max, ReadsFold!Max
<1> HIDE DEF c, r
<1>3. ReadLoopInv(c, 0, <<>>)
  <2>1. FirstCoords(0) = <<>>
    BY DEF FirstCoords
  <2> QED
    BY <1>0, <1>1, <2>1 DEF ReadLoopInv, ReadInv
<1>4. \A s : \A k \in 0 .. m - 1 :
         ReadLoopInv(c, k, s) => ReadLoopInv(c, k + 1, ReadLoop(c, s, stages[k + 1]))
  <2> SUFFICES ASSUME NEW s, NEW k \in 0 .. m - 1, ReadLoopInv(c, k, s)
               PROVE  ReadLoopInv(c, k + 1, ReadLoop(c, s, stages[k + 1]))
    OBVIOUS
  <2>1. k + 1 \in 1 .. m /\ k + 1 \in 1 .. m + 1
    OBVIOUS
  <2>2. s = FirstCoords(pos[k + 1])
    BY <1>1 DEF ReadLoopInv, ReadInv
  <2>3. ReadOp(n, s, stages[k + 1]) = FirstCoords(pos[(k + 1) + 1])
    BY <1>0, <2>1, <2>2, ReadMore
  <2> QED
    BY <1>1, <2>3 DEF ReadLoopInv, ReadInv, ReadLoop
<1>5. ReadLoopInv(c, m, r)
  BY <1>0, <1>3, <1>4, ReadsFold!FoldInv, Zenon DEF r
<1> QED
  BY <1>0, <1>1, <1>2, <1>5 DEF ReadLoopInv, ReadInv, EachOnce, FirstCoords

LEMMA OneStage ==
    ASSUME NEW n \in Nat, NEW a, Covered(a, 0, n) = n
    PROVE  EachOnce(<<a>>, n)
<1> DEFINE pos == <<0, n>>
           st == <<a>>
<1>1. pos \in [1 .. 1 + 1 -> 0 .. n] /\ pos[1] = 0 /\ pos[1 + 1] = n
  OBVIOUS
<1>2. DOMAIN st = 1 .. 1 /\ st[1] = a
  OBVIOUS
<1> HIDE DEF pos, st
<1>3. Staged(st, pos, 1, n)
  BY <1>1, <1>2 DEF Staged
<1>4. EachOnce(st, n)
  BY <1>3, ReadsThrough
<1> QED
  BY <1>4 DEF st

LEMMA TwoStages ==
    ASSUME NEW n \in Nat, NEW a, NEW b, NEW i \in 0 .. n, Covered(a, 0, n) = i,
           Covered(b, i, n) = n - i
    PROVE  EachOnce(<<a, b>>, n)
<1> DEFINE pos == <<0, i, n>>
           st == <<a, b>>
<1>1. pos \in [1 .. 2 + 1 -> 0 .. n] /\ pos[1] = 0 /\ pos[2] = i /\ pos[2 + 1] = n
  OBVIOUS
<1>2. DOMAIN st = 1 .. 2 /\ st[1] = a /\ st[2] = b
  OBVIOUS
<1> HIDE DEF pos, st
<1>3. Staged(st, pos, 2, n)
  BY <1>1, <1>2 DEF Staged
<1>4. EachOnce(st, n)
  BY <1>3, ReadsThrough
<1> QED
  BY <1>4 DEF st

LEMMA ThreeStages ==
    ASSUME NEW n \in Nat, NEW a, NEW b, NEW c, NEW i \in 0 .. n, NEW j \in i .. n,
           Covered(a, 0, n) = i, Covered(b, i, n) = j - i, Covered(c, j, n) = n - j
    PROVE  EachOnce(<<a, b, c>>, n)
<1> DEFINE pos == <<0, i, j, n>>
           st == <<a, b, c>>
<1>1. pos \in [1 .. 3 + 1 -> 0 .. n] /\ pos[1] = 0 /\ pos[2] = i /\ pos[3] = j /\ pos[3 + 1] = n
  OBVIOUS
<1>2. DOMAIN st = 1 .. 3 /\ st[1] = a /\ st[2] = b /\ st[3] = c
  OBVIOUS
<1> HIDE DEF pos, st
<1>3. Staged(st, pos, 3, n)
  BY <1>1, <1>2 DEF Staged
<1>4. EachOnce(st, n)
  BY <1>3, ReadsThrough
<1> QED
  BY <1>4 DEF st

\* What a stage leaves over.
LEMMA StageFacts ==
    ASSUME NEW n \in Nat, NEW i \in 0 .. n
    PROVE  /\ \A w \in {4, 16, 32} :
                 LET c == Covered(Chunks(w), i, n) IN
                 c \in 0 .. n - i /\ n - i - c < w /\ ((n - i) % w = 0 => c = n - i)
           /\ Covered(Chunks(1), i, n) = n - i
           /\ n - i < 16 => Covered(Masked(16), i, n) = n - i
<1>1. /\ 4 * ((n - i) \div 4) \in 0 .. n - i /\ n - i - 4 * ((n - i) \div 4) < 4
      /\ (n - i) % 4 = 0 => 4 * ((n - i) \div 4) = n - i
  OBVIOUS
<1>2. /\ 16 * ((n - i) \div 16) \in 0 .. n - i /\ n - i - 16 * ((n - i) \div 16) < 16
      /\ (n - i) % 16 = 0 => 16 * ((n - i) \div 16) = n - i
  OBVIOUS
<1>3. /\ 32 * ((n - i) \div 32) \in 0 .. n - i /\ n - i - 32 * ((n - i) \div 32) < 32
      /\ (n - i) % 32 = 0 => 32 * ((n - i) \div 32) = n - i
  OBVIOUS
<1>4. \A w : Covered(Chunks(w), i, n) = w * ((n - i) \div w)
  BY DEF Covered, Chunks
<1>5. 1 * ((n - i) \div 1) = n - i
  OBVIOUS
<1>6. n - i < 16 => Covered(Masked(16), i, n) = n - i
  BY DEF Covered, Masked
<1> QED
  BY <1>1, <1>2, <1>3, <1>4, <1>5, <1>6

\* A stage that reads whole registers to the end: exact where n is a multiple.
LEMMA BlindFacts ==
    ASSUME NEW n \in Nat
    PROVE  \A w \in {2, 16, 64} : n % w = 0 => Covered(Blind(w), 0, n) = n
<1>1. n % 2 = 0 => 2 * ((n - 0 + 2 - 1) \div 2) = n
  OBVIOUS
<1>2. n % 16 = 0 => 16 * ((n - 0 + 16 - 1) \div 16) = n
  OBVIOUS
<1>3. n % 64 = 0 => 64 * ((n - 0 + 64 - 1) \div 64) = n
  OBVIOUS
<1>4. \A w : Covered(Blind(w), 0, n) = w * ((n - 0 + w - 1) \div w)
  BY DEF Covered, Blind
<1> QED
  BY <1>1, <1>2, <1>3, <1>4

\* Chunks and what is left of them.
LEMMA ChunksThenRest ==
    ASSUME NEW n \in Nat
    PROVE  /\ EachOnce(<<Chunks(1)>>, n)
           /\ EachOnce(<<Chunks(4), Chunks(1)>>, n)
           /\ EachOnce(<<Chunks(16), Masked(16)>>, n)
           /\ EachOnce(<<Chunks(32), Chunks(16), Masked(16)>>, n)
           /\ EachOnce(<<Chunks(16), Chunks(4), Chunks(1)>>, n)
           /\ n % 16 = 0 => EachOnce(<<Chunks(32), Chunks(16)>>, n)
<1> DEFINE a(w, i) == Covered(Chunks(w), i, n)
           i4 == a(4, 0)
           i16 == a(16, 0)
           i32 == a(32, 0)
           j16 == i32 + a(16, i32)
           j4 == i16 + a(4, i16)
<1>1. 0 \in 0 .. n
  OBVIOUS
<1>2. /\ i4 \in 0 .. n /\ i16 \in 0 .. n /\ n - i16 < 16 /\ i32 \in 0 .. n
  BY <1>1, StageFacts
<1> HIDE DEF i4, i16, i32
<1>3. j4 \in i16 .. n /\ a(4, i16) = j4 - i16
  <2> DEFINE x == a(4, i16)
  <2>1. x \in 0 .. n - i16
    BY <1>2, StageFacts
  <2> HIDE DEF x
  <2>2. i16 + x \in i16 .. n /\ x = (i16 + x) - i16
    BY <1>2, <2>1
  <2> QED
    BY <2>2 DEF x
<1>4. j16 \in i32 .. n /\ a(16, i32) = j16 - i32 /\ n - j16 < 16
  <2> DEFINE x == a(16, i32)
  <2>1. x \in 0 .. n - i32 /\ n - i32 - x < 16
    BY <1>2, StageFacts
  <2> HIDE DEF x
  <2>2. i32 + x \in i32 .. n /\ x = (i32 + x) - i32 /\ n - (i32 + x) < 16
    BY <1>2, <2>1
  <2> QED
    BY <2>2 DEF x
<1> HIDE DEF j4, j16
<1>5. \A i \in 0 .. n : /\ Covered(Chunks(1), i, n) = n - i
                        /\ n - i < 16 => Covered(Masked(16), i, n) = n - i
  BY StageFacts
<1>6. EachOnce(<<Chunks(1)>>, n)
  BY <1>1, <1>5, OneStage
<1>7. EachOnce(<<Chunks(4), Chunks(1)>>, n)
  BY <1>2, <1>5, TwoStages DEF i4
<1>8. EachOnce(<<Chunks(16), Masked(16)>>, n)
  BY <1>2, <1>5, TwoStages DEF i16
<1>9. EachOnce(<<Chunks(32), Chunks(16), Masked(16)>>, n)
  <2>1. j16 \in 0 .. n
    BY <1>2, <1>4
  <2>2. Covered(Chunks(32), 0, n) = i32
    BY DEF i32
  <2> QED
    BY <1>2, <1>4, <1>5, <2>1, <2>2, ThreeStages
<1>10. EachOnce(<<Chunks(16), Chunks(4), Chunks(1)>>, n)
  <2>1. j4 \in 0 .. n
    BY <1>2, <1>3
  <2>2. Covered(Chunks(16), 0, n) = i16
    BY DEF i16
  <2> QED
    BY <1>2, <1>3, <1>5, <2>1, <2>2, ThreeStages
<1>11. ASSUME n % 16 = 0 PROVE EachOnce(<<Chunks(32), Chunks(16)>>, n)
  <2>1. i32 = 32 * (n \div 32)
    BY DEF Covered, Chunks, i32
  <2>2. (n - i32) % 16 = 0
    BY <1>11, <2>1
  <2>3. a(16, i32) = n - i32
    BY <1>2, <2>2, StageFacts
  <2> QED
    BY <1>2, <2>3, TwoStages DEF i32
<1> QED
  BY <1>6, <1>7, <1>8, <1>9, <1>10, <1>11

LEMMA KernelsAreWhole == KernelsWhole
<1> SUFFICES ASSUME NEW build \in Builds
             PROVE  /\ \A n \in 1 .. MaxDim : EachOnce(L2sq(build), n) /\ EachOnce(DotsBlock(build), n)
                    /\ \A p \in PaddedDims :
                          /\ \A bits \in {4, 8} : EachOnce(ScanKernel(build, bits, p), p)
                          /\ EachOnce(Dotf(build), p) /\ EachOnce(SignDot(build, p), p)
  BY DEF KernelsWhole, AllCovered
<1>1. ASSUME NEW n \in Nat PROVE EachOnce(L2sq(build), n) /\ EachOnce(DotsBlock(build), n)
  BY ChunksThenRest DEF L2sq, DotsBlock
<1>2. ASSUME NEW p \in Nat, p % 2 = 0
      PROVE  /\ \A bits \in {4, 8} : EachOnce(ScanKernel(build, bits, p), p)
             /\ EachOnce(Dotf(build), p) /\ EachOnce(SignDot(build, p), p)
  <2>1. \A w \in {2, 16, 64} : p % w = 0 => EachOnce(<<Blind(w)>>, p)
    BY BlindFacts, OneStage
  <2>2. EachOnce(<<Blind(2)>>, p)
    BY <1>2, <2>1
  <2>3. p % 16 = 0 => EachOnce(<<Blind(16)>>, p)
    BY <2>1
  <2>4. p % 64 = 0 => EachOnce(<<Blind(64)>>, p)
    BY <2>1
  <2>5. EachOnce(Dotf(build), p) /\ EachOnce(SignDot(build, p), p)
    BY <2>3, ChunksThenRest DEF Dotf, SignDot
  <2>6. /\ EachOnce(<<Chunks(1)>>, p)
        /\ p % 16 = 0 => EachOnce(<<Chunks(32), Chunks(16)>>, p)
    BY ChunksThenRest
  <2>7. EachOnce(ScanKernel(build, 4, p), p)
    BY <2>2, <2>3, <2>6 DEF ScanKernel
  <2>8. EachOnce(ScanKernel(build, 8, p), p)
    BY <2>4, <2>6 DEF ScanKernel
  <2> QED
    BY <2>5, <2>7, <2>8
<1> QED
  BY <1>1, <1>2, HybridAssumption

\* In every build, for every dimension and every even padded dimension, however
\* many registers they fill and whatever is left over, the kernel a call is
\* dispatched to reads each coordinate once and none beyond the vector.
THEOREM KernelsAlwaysCover == Spec => []KernelsCover
<1>1. TRUE => KernelsCover
  BY KernelsAreWhole DEF KernelsCover
<1> QED
  BY <1>1, PTL

-----------------------------------------------------------------------------
(***************************************************************************)
(* The heap of tq_search, whose worst item is replaced instead of popped.  *)
(***************************************************************************)
LEMMA TopReplaced ==
    ASSUME NEW X, NEW a \in Seq(X), IsInjective(a), a # <<>>, NEW x \in X, x \notin ToSet(a)
    PROVE  LET b == [a EXCEPT ![1] = x] IN
           /\ b \in Seq(X) /\ Len(b) = Len(a) /\ IsInjective(b)
           /\ ToSet(b) = (ToSet(a) \cup {x}) \ {a[1]}
           /\ \A j \in 2 .. Len(a) : b[j] = a[j]
<1> DEFINE b == [a EXCEPT ![1] = x]
           n == Len(a)
<1>1. n \in Nat /\ n >= 1 /\ DOMAIN a = 1 .. n /\ 1 \in 1 .. n /\ \A j \in 1 .. n : a[j] \in X
  OBVIOUS
<1>2. /\ b \in Seq(X) /\ Len(b) = n /\ DOMAIN b = 1 .. n /\ b[1] = x
      /\ \A j \in 1 .. n : j # 1 => b[j] = a[j]
  BY <1>1
<1> HIDE DEF b, n
<1>3. \A j \in 1 .. n : a[j] # x
  BY <1>1 DEF ToSet
<1>4. \A i, j \in 1 .. n : a[i] = a[j] => i = j
  BY <1>1 DEF IsInjective
<1>5. IsInjective(b)
  BY <1>1, <1>2, <1>3, <1>4 DEF IsInjective
<1>6. ToSet(b) = (ToSet(a) \cup {x}) \ {a[1]}
  <2>1. ToSet(b) = {b[j] : j \in 1 .. n} /\ ToSet(a) = {a[j] : j \in 1 .. n}
    BY <1>1, <1>2 DEF ToSet
  <2>2. x # a[1]
    BY <1>1, <1>3
  <2>3. ASSUME NEW y \in ToSet(b) PROVE y \in (ToSet(a) \cup {x}) \ {a[1]}
    <3>1. PICK j \in 1 .. n : y = b[j]
      BY <2>1
    <3> QED
      BY <1>1, <1>2, <1>4, <2>1, <2>2, <3>1
  <2>4. ASSUME NEW y \in (ToSet(a) \cup {x}) \ {a[1]} PROVE y \in ToSet(b)
    <3>1. CASE y = x
      BY <1>1, <1>2, <2>1, <3>1
    <3>2. CASE y # x
      <4>1. PICK j \in 1 .. n : y = a[j]
        BY <2>1, <3>2
      <4> QED
        BY <1>2, <2>1, <4>1
    <3> QED
      BY <3>1, <3>2
  <2> QED
    BY <2>3, <2>4
<1>7. \A j \in 2 .. n : j \in 1 .. n /\ j # 1
  BY <1>1
<1> QED
  BY <1>2, <1>5, <1>6, <1>7, Zenon DEF b, n

\* tq_search keeps the best of what it is offered, as the scan of vecdb.c does.
LEMMA HoldFacts ==
    ASSUME NEW X, Weighed(X), NEW S, S \subseteq X, IsFiniteSet(S), NEW k \in Nat, k >= 1,
           NEW a, BestOf(a, X, S, k), NEW x \in X, x \notin S
    PROVE  BestOf(Hold(a, x, k), X, S \cup {x}, k)
<1> DEFINE b == Pushed(a, x)
           r == Replaced(a, x)
           o == Hold(a, x, k)
<1>1. Len(a) \in Nat /\ Len(a) <= k /\ x \notin ToSet(a) /\ Joins(b, a, x, X)
  BY BestPushed
<1>2. /\ Len(a) < k => o = b
      /\ Len(a) = k /\ x.dist < a[1].dist => o = r
      /\ Len(a) = k /\ ~ (x.dist < a[1].dist) => o = a
  <2>1. o = IF Len(a) < k THEN b ELSE IF x.dist < a[1].dist THEN r ELSE a
    BY Zenon DEF Hold, Pushed
  <2> HIDE DEF b, o, r
  <2> QED
    BY <1>1, <2>1
<1> HIDE DEF b, o
<1>3. ASSUME Len(a) = k, x.dist < a[1].dist PROVE Ousts(r, a, x, X)
  <2> DEFINE c == [a EXCEPT ![1] = x]
             T == ToSet(a) \cup {x}
             s(max) == Sunk(max, c)
  <2>1. Holding(TRUE, a, X, ToSet(a)) /\ ToSet(a) \subseteq S
    BY Zenon DEF BestOf
  <2>2. a \in Seq(X) /\ IsInjective(a) /\ IsHeap(TRUE, a) /\ a # <<>>
    <3>1. a \in Seq(X) /\ IsInjective(a)
      BY <2>1 DEF Holding
    <3>2. IsHeap(TRUE, a)
      BY <2>1, Zenon DEF Holding
    <3>3. a # <<>>
      BY <1>3
    <3> QED
      BY <3>1, <3>2, <3>3, Zenon
  <2>3. /\ c \in Seq(X) /\ Len(c) = Len(a) /\ IsInjective(c)
        /\ ToSet(c) = T \ {a[1]}
        /\ \A j \in 2 .. Len(a) : c[j] = a[j]
    BY <1>1, <2>2, TopReplaced, Zenon
  <2>4. r = Sunk(TRUE, c)
    <3>1. Steps(a) = Steps(c)
      BY <2>3 DEF Steps
    <3> HIDE DEF c
    <3>2. Replaced(a, x) = FoldLeft(LAMBDA f, i : SiftDown(TRUE, f), [a |-> c, i |-> 1], Steps(a)).a
      BY DEF Replaced, c
    <3> QED
      BY <3>1, <3>2, Zenon DEF Sunk
  <2>5. a[1] \in ToSet(a) /\ \A y \in ToSet(a) : ~ Before(TRUE, y, a[1])
    <3>1. \A max : Holding(max, a, X, ToSet(a)) =>
             a[1] \in ToSet(a) /\ \A y \in ToSet(a) : ~ Before(max, y, a[1])
      BY <2>2, PopFacts, Zenon
    <3> QED
      BY <2>1, <3>1, Zenon
  <2> HIDE DEF c, r, T
  <2>6. \A j \in 2 .. Len(c) : j \div 2 # 1 => ~ Before(TRUE, c[j], c[j \div 2])
    <3> SUFFICES ASSUME NEW j \in 2 .. Len(a), j \div 2 # 1
                 PROVE  ~ Before(TRUE, c[j], c[j \div 2])
      BY <2>3, Zenon
    <3>1. j \div 2 \in 2 .. Len(a)
      BY <1>1
    <3>2. ~ Before(TRUE, a[j], a[j \div 2])
      BY <2>2, Zenon DEF IsHeap
    <3> QED
      BY <2>3, <3>1, <3>2, Zenon
  <2>7. c # <<>>
    BY <1>1, <1>3, <2>3
  <2>8. \A max : (\A j \in 2 .. Len(c) : j \div 2 # 1 => ~ Before(max, c[j], c[j \div 2]))
           => Holding(max, s(max), X, ToSet(c)) /\ Len(s(max)) = Len(c)
    BY <2>3, <2>7, SunkFacts, Zenon
  <2>9. Holding(TRUE, s(TRUE), X, ToSet(c)) /\ Len(s(TRUE)) = Len(c)
    BY <2>6, <2>8, Zenon
  <2>10. s(TRUE) = r
    BY <2>4
  <2> HIDE DEF s
  <2>11. Holding(TRUE, r, X, T \ {a[1]}) /\ Len(r) = Len(a)
    BY <2>3, <2>9, <2>10, Zenon
  <2>12. \A y \in T : ~ Before(TRUE, y, a[1])
    <3>1. x.dist \in Int /\ a[1].dist \in Int
      BY <2>1, <2>5 DEF Weighed
    <3>2. ~ Before(TRUE, x, a[1])
      BY <1>3, <3>1 DEF Before
    <3> QED
      BY <2>5, <3>2, Zenon DEF T
  <2> QED
    BY <2>5, <2>11, <2>12, Zenon DEF Ousts, T
<1> HIDE DEF r
<1>4. /\ Len(a) < k => Joins(o, a, x, X)
      /\ Len(a) = k /\ x.dist < a[1].dist => Ousts(o, a, x, X)
      /\ Len(a) = k /\ ~ (x.dist < a[1].dist) => o = a
  BY <1>1, <1>2, <1>3
<1>5. BestOf(o, X, S \cup {x}, k)
  BY <1>4, BestKept, Zenon
<1> QED
  BY <1>5 DEF o

\* What the scan offers for a slot, and its loop.
ScanItem(scores, s) == [dist |-> scores[s], node |-> s]
ItemsOf(scores, n) == {ScanItem(scores, s) : s \in 1 .. n}

CodeLook(c, h, s) == Hold(h, ScanItem(c.scores, s), c.kk)
CodeLookInv(c, k, h) == BestOf(h, Hits, ItemsOf(c.scores, k), c.kk)
CodeLooks == INSTANCE FoldFacts WITH Op <- CodeLook, Inv <- CodeLookInv

LEMMA ItemFacts ==
    ASSUME NEW n \in Nat, NEW scores \in [1 .. n -> Int]
    PROVE  \A s \in 1 .. n : /\ ScanItem(scores, s) \in Hits
                             /\ ScanItem(scores, s).node = s
                             /\ ScanItem(scores, s).dist = scores[s]
BY DEF ScanItem, Hits

LEMMA ItemsCount ==
    ASSUME NEW n \in Nat, NEW scores \in [1 .. n -> Int], NEW k \in 0 .. n
    PROVE  /\ ItemsOf(scores, k) \subseteq Hits /\ IsFiniteSet(ItemsOf(scores, k))
           /\ Cardinality(ItemsOf(scores, k)) = k
<1> DEFINE P == ItemsOf(scores, k)
           f == [s \in 1 .. k |-> ScanItem(scores, s)]
<1>1. k \in Nat /\ \A s \in 1 .. k : s \in 1 .. n
  OBVIOUS
<1>2. P \subseteq Hits
  BY <1>1, ItemFacts DEF ItemsOf
<1>3. /\ f \in [1 .. k -> P] /\ \A y \in P : \E s \in 1 .. k : f[s] = y
      /\ \A s \in 1 .. k : f[s].node = s
  BY <1>1, ItemFacts DEF ItemsOf
<1> HIDE DEF f, P
<1>4. \A s, t \in 1 .. k : f[s] = f[t] => s = t
  BY <1>3
<1>5. f \in Bijection(1 .. k, P)
  BY <1>3, <1>4 DEF Bijection, Injection, Surjection, IsInjective
<1>6. ExistsBijection(1 .. k, P)
  BY <1>5 DEF ExistsBijection
<1>7. IsFiniteSet(P) /\ Cardinality(P) = k
  BY <1>1, <1>6, FS_CountingElements, FS_NatBijection
<1> QED
  BY <1>2, <1>7 DEF P

LEMMA CodeLooksFacts ==
    ASSUME NEW n \in Nat, NEW scores \in [1 .. n -> Int], NEW kk \in Nat, n >= 1 => kk >= 1
    PROVE  LET c == [scores |-> scores, kk |-> kk] IN
           BestOf(CodeLooks!Fold(c, <<>>, [s \in 1 .. n |-> s]), Hits, ItemsOf(scores, n), kk)
<1> DEFINE c == [scores |-> scores, kk |-> kk]
           seq == [s \in 1 .. n |-> s]
<1>1. c.scores = scores /\ c.kk = kk /\ DOMAIN seq = 1 .. n
  OBVIOUS
<1> HIDE DEF c
<1>2. CodeLookInv(c, 0, <<>>)
  <2>1. ItemsOf(scores, 0) = {}
    BY DEF ItemsOf
  <2>2. Cardinality({}) = 0 /\ Len(<<>>) = 0 /\ ToSet(<<>>) = {} /\ AtMost(0, kk) = 0
    BY FS_EmptySet DEF ToSet, AtMost
  <2>3. Holding(TRUE, <<>>, Hits, {})
    BY DEF Holding, IsInjective, ToSet, IsHeap
  <2>4. BestOf(<<>>, Hits, {}, kk)
    BY <2>2, <2>3, Zenon DEF BestOf
  <2> QED
    BY <1>1, <2>1, <2>4, Zenon DEF CodeLookInv
<1>3. \A h : \A k \in 0 .. n - 1 :
         CodeLookInv(c, k, h) => CodeLookInv(c, k + 1, CodeLook(c, h, seq[k + 1]))
  <2> SUFFICES ASSUME NEW h, NEW k \in 0 .. n - 1, CodeLookInv(c, k, h)
               PROVE  CodeLookInv(c, k + 1, CodeLook(c, h, seq[k + 1]))
    OBVIOUS
  <2> DEFINE x == ScanItem(scores, k + 1)
             P == ItemsOf(scores, k)
  <2>1. k + 1 \in 1 .. n /\ seq[k + 1] = k + 1 /\ k \in 0 .. n /\ n >= 1 /\ kk >= 1
    OBVIOUS
  <2>2. BestOf(h, Hits, P, kk)
    BY <1>1 DEF CodeLookInv
  <2>3. x \in Hits /\ x.node = k + 1 /\ P \subseteq Hits /\ IsFiniteSet(P)
    BY <2>1, ItemFacts, ItemsCount
  <2>4. x \notin P
    <3>1. \A s \in 1 .. k : ScanItem(scores, s).node = s /\ s # k + 1
      BY <2>1, ItemFacts
    <3> HIDE DEF x
    <3> QED
      BY <2>3, <3>1 DEF ItemsOf
  <2>5. ItemsOf(scores, k + 1) = P \cup {x}
    <3>1. 1 .. k + 1 = (1 .. k) \cup {k + 1}
      OBVIOUS
    <3> QED
      BY <3>1 DEF ItemsOf
  <2>6. CodeLook(c, h, seq[k + 1]) = Hold(h, x, kk)
    BY <1>1, <2>1 DEF CodeLook
  <2> HIDE DEF x, P
  <2>7. BestOf(Hold(h, x, kk), Hits, P \cup {x}, kk)
    BY <2>1, <2>2, <2>3, <2>4, HitsWeighed, HoldFacts
  <2> QED
    BY <1>1, <2>5, <2>6, <2>7, Zenon DEF CodeLookInv
<1> HIDE DEF seq
<1>4. CodeLookInv(c, n, CodeLooks!Fold(c, <<>>, seq))
  BY <1>1, <1>2, <1>3, CodeLooks!FoldInv
<1> QED
  BY <1>1, <1>4 DEF CodeLookInv, c, seq

\* tq_search returns the slots of the k lowest scores, lowest first.
LEMMA CodeScanFacts ==
    ASSUME NEW n \in Nat, NEW scores \in [1 .. n -> Int], NEW k \in Nat, k >= 1
    PROVE  AreNearest(CodeScan(scores, k), k, scores)
<1> DEFINE kk == IF k > n THEN n ELSE k
           P == ItemsOf(scores, n)
           h == CodeLooks!Fold([scores |-> scores, kk |-> kk], <<>>, [s \in 1 .. n |-> s])
           hits == Emitted(h, kk)
           out == CodeScan(scores, k)
<1>1. Len(scores) = n /\ DOMAIN scores = 1 .. n /\ \A s \in 1 .. n : scores[s] \in Int
  OBVIOUS
<1>2. kk \in Nat /\ (n >= 1 => kk >= 1) /\ kk <= n
  OBVIOUS
<1>3. out = [j \in 1 .. Len(hits) |-> hits[j].node]
  BY <1>1 DEF CodeScan, CodeLook, ScanItem, CodeLooks!Fold, CodeLooks!FoldLeft, FoldLeft,
         MapThenFoldSet, CodeLooks!MapThenFoldSet, Max, CodeLooks!Max
<1>4. BestOf(h, Hits, P, kk)
  <2> HIDE DEF kk
  <2> QED BY <1>2, CodeLooksFacts, Zenon
<1> HIDE DEF h, hits, out
<1>5. P \subseteq Hits /\ IsFiniteSet(P) /\ Cardinality(P) = n
  BY ItemsCount
<1> HIDE DEF P, kk
<1>6. /\ Holding(TRUE, h, Hits, ToSet(h)) /\ ToSet(h) \subseteq P
      /\ Len(h) = kk
      /\ \A s \in P \ ToSet(h) : \A r \in ToSet(h) : r.dist <= s.dist
  <2>1. Len(h) = AtMost(Cardinality(P), kk)
    BY <1>4, Zenon DEF BestOf
  <2>2. Len(h) = kk
    BY <1>2, <1>5, <2>1 DEF AtMost
  <2> QED
    BY <1>4, <2>2, Zenon DEF BestOf
<1>7. PICK s \in Seq(Hits) :
            /\ IsInjective(s) /\ ToSet(s) = ToSet(h) /\ Ascending(s) /\ Len(s) = Len(h)
            /\ \A m : Emitted(h, m) = SubSeq(s, 1, IF m < Len(h) THEN m ELSE Len(h))
  <2>1. Weighed(Hits) /\ Holding(TRUE, h, Hits, ToSet(h))
    BY <1>6, HitsWeighed, Zenon
  <2> QED BY ONLY <2>1, EmittedFacts, Zenon
<1>8. hits = s
  BY <1>2, <1>6, <1>7 DEF hits
<1>9. /\ Len(s) = kk /\ DOMAIN s = 1 .. kk /\ out = [j \in 1 .. kk |-> s[j].node]
      /\ \A j \in 1 .. kk : s[j] \in ToSet(h)
  <2>1. Len(s) = kk /\ DOMAIN s = 1 .. kk
    BY <1>6, <1>7
  <2>2. out = [j \in 1 .. kk |-> s[j].node]
    BY <1>3, <1>8, <2>1
  <2>3. \A j \in 1 .. kk : s[j] \in ToSet(s)
    BY <2>1 DEF ToSet
  <2> QED
    BY <1>7, <2>1, <2>2, <2>3
<1>10. \A x \in ToSet(h) : x.node \in 1 .. n /\ x = ScanItem(scores, x.node) /\ x.dist = scores[x.node]
  <2>1. \A x \in P : \E r \in 1 .. n : x = ScanItem(scores, r)
    BY DEF P, ItemsOf
  <2> QED
    BY <1>6, <2>1, ItemFacts
<1>11. Len(out) = kk /\ DOMAIN out = 1 .. kk /\ \A j \in 1 .. kk : out[j] = s[j].node
  BY <1>2, <1>9
<1>12. IsInjective(out)
  <2> SUFFICES ASSUME NEW i \in 1 .. kk, NEW j \in 1 .. kk, out[i] = out[j] PROVE i = j
    BY <1>11 DEF IsInjective
  <2>1. s[i] = s[j]
    BY <1>9, <1>10, <1>11
  <2> QED
    BY <1>7, <1>9, <2>1 DEF IsInjective
<1>13. ToSet(out) \subseteq DOMAIN scores
  BY <1>1, <1>9, <1>10, <1>11 DEF ToSet
<1>14. \A j \in 2 .. Len(out) : scores[out[j - 1]] <= scores[out[j]]
  <2> SUFFICES ASSUME NEW j \in 2 .. kk PROVE scores[out[j - 1]] <= scores[out[j]]
    BY <1>11
  <2>1. j - 1 \in 1 .. kk /\ j \in 1 .. kk /\ j - 1 < j
    BY <1>2
  <2>2. s[j - 1].dist <= s[j].dist
    BY <1>7, <1>9, <2>1 DEF Ascending
  <2> QED
    BY <1>9, <1>10, <1>11, <2>1, <2>2
<1>15. \A r \in DOMAIN scores \ ToSet(out) : scores[r] >= scores[out[Len(out)]]
  <2> SUFFICES ASSUME NEW r \in 1 .. n, r \notin ToSet(out) PROVE scores[r] >= scores[out[kk]]
    BY <1>1, <1>11
  <2>1. kk \in 1 .. kk
    BY <1>2
  <2>2. s[kk] \in ToSet(h) /\ s[kk].dist = scores[out[kk]] /\ out[kk] \in 1 .. n
    BY <1>9, <1>10, <1>11, <2>1
  <2>3. ScanItem(scores, r) \in P \ ToSet(h)
    <3>1. ScanItem(scores, r) \in P /\ ScanItem(scores, r).node = r
      BY ItemFacts DEF P, ItemsOf
    <3>2. \A x \in ToSet(h) : \E j \in 1 .. kk : x = s[j]
      BY <1>7, <1>9, Zenon DEF ToSet
    <3>3. \A x \in ToSet(h) : x.node \in ToSet(out)
      <4>1. \A j \in 1 .. kk : out[j] \in ToSet(out)
        BY <1>11 DEF ToSet
      <4> QED
        BY <1>11, <3>2, <4>1
    <3> QED
      BY <3>1, <3>3
  <2>4. s[kk].dist <= ScanItem(scores, r).dist
    BY <1>6, <2>2, <2>3
  <2> QED
    BY <1>1, <2>2, <2>4, ItemFacts, Zenon
<1> QED
  BY <1>1, <1>11, <1>12, <1>13, <1>14, <1>15 DEF AreNearest, out, kk

-----------------------------------------------------------------------------
(***************************************************************************)
(* The compressed index by itself.                                         *)
(***************************************************************************)
\* The inductive invariant: the bytes of every slot are those of its vector.
CodeInv == near = C[codec.mode] /\ codec.mode \in 1 .. Len(Modes) /\ CodecHolds(codec, vecs)

LEMMA CodeStart == CodeInit => CodeInv
<1> SUFFICES ASSUME CodeInit PROVE CodeInv
  OBVIOUS
<1>1. PICK m \in 1 .. Len(Modes) : codec = EmptyCodec(m)
  BY DEF CodeInit
<1>2. CodecHolds(codec, <<>>) /\ codec.mode = m
  BY <1>1, EmptyHolds DEF EmptyCodec
<1> QED
  BY <1>2 DEF CodeInit, CodeInv

LEMMA CodeStep == CodeInv /\ [CodeNext]_codeVars => CodeInv'
<1> SUFFICES ASSUME CodeInv, [CodeNext]_codeVars PROVE CodeInv'
  OBVIOUS
<1>1. CASE UNCHANGED codeVars
  BY <1>1 DEF codeVars, CodeInv
<1>2. ASSUME NEW x \in DOMAIN Vec, CodeAdd(x) PROVE CodeInv'
  <2>1. CodecHolds(codec', vecs') /\ codec'.mode = codec.mode
    BY <1>2, EncodedHolds DEF CodeInv, CodeAdd
  <2> QED
    BY <1>2, <2>1 DEF CodeInv, CodeAdd
<1> QED
  BY <1>1, <1>2 DEF CodeNext

\* Whatever was added and however often the stores of the codec have moved, each
\* slot holds what tq_add made of its vector.
THEOREM CodeInvariance == CodeSpec => []CodeInv
<1> QED
  BY CodeStart, CodeStep, PTL DEF CodeSpec

LEMMA ScanIsExact == CodeInv => ScanExact
<1> SUFFICES ASSUME CodeInv, NEW q \in Searched, NEW k \in 1 .. Len(vecs) + 1
             PROVE  AreNearest(CodeScan([s \in 1 .. Len(vecs) |-> Score(codec, q, s - 1)], k), k,
                               [s \in 1 .. Len(vecs) |-> near[q][vecs[s]]])
  BY DEF ScanExact
<1> DEFINE n == Len(vecs)
           scores == [s \in 1 .. n |-> Score(codec, q, s - 1)]
           dist == [s \in 1 .. n |-> near[q][vecs[s]]]
<1>1. /\ n \in Nat /\ q \in DOMAIN Vec /\ CodecHolds(codec, vecs)
      /\ \A s \in 1 .. n : vecs[s] \in DOMAIN Vec
  <2>1. CodecHolds(codec, vecs)
    BY DEF CodeInv
  <2>2. vecs \in Seq(DOMAIN Vec)
    BY <2>1 DEF CodecHolds
  <2> QED
    BY <2>1, <2>2, CodeIndexAssumption
<1>2. /\ C \in [1 .. Len(Modes) -> [DOMAIN Vec -> [DOMAIN Vec -> Int]]]
      /\ codec.mode \in 1 .. Len(Modes) /\ near = C[codec.mode]
  BY CodeIndexAssumption DEF CodeInv
<1>3. ASSUME NEW s \in 1 .. n PROVE Score(codec, q, s - 1) = near[q][vecs[s]]
  <2>1. s - 1 \in 0 .. n - 1 /\ (s - 1) + 1 = s
    BY <1>1
  <2>2. Score(codec, q, s - 1) = C[codec.mode][q][vecs[(s - 1) + 1]]
    BY <1>1, <2>1, ScoreIsCoded
  <2> QED
    BY <1>2, <2>1, <2>2
<1>4. scores = dist
  BY <1>3
<1>5. dist \in [1 .. n -> Int]
  BY <1>1, <1>2
<1>6. k \in Nat /\ k >= 1
  BY <1>1
<1> HIDE DEF scores, dist, n
<1>7. AreNearest(CodeScan(dist, k), k, dist)
  BY <1>1, <1>5, <1>6, CodeScanFacts
<1> QED
  BY <1>4, <1>7, Zenon DEF scores, dist, n

\* tq_search is right about the codes: for every query and every k, over any
\* history of adds and growth, of any vectors (equal ones too, and ones whose codes
\* are equally far), with any codebooks, build and width, it returns slots whose
\* codes score lowest, in order, each scored as if it were alone in the index.
THEOREM ScanAlways == CodeSpec => []ScanExact
<1> QED
  BY ScanIsExact, CodeInvariance, PTL

-----------------------------------------------------------------------------
(***************************************************************************)
(* The hybrid index is a user of the compressed one.                       *)
(***************************************************************************)
LEMMA AddIsCodeAdd == [Next]_vars => [CodeNext]_codeVars
<1>1. UNCHANGED vars => UNCHANGED codeVars
  BY DEF vars, codeVars
<1>2. Next => CodeNext
  BY HybridAssumption DEF Next, Add, CodeNext
<1> QED
  BY <1>1, <1>2

\* What the hybrid index does to its codec is what users of turboquant.h may do:
\* every add of the one is an add of the other, and nothing else touches it.
THEOREM HybridIsCodeIndex == Spec => CodeSpec
<1>1. Init => CodeInit
  BY DEF Init
<1> QED
  BY <1>1, AddIsCodeAdd, PTL DEF Spec, CodeSpec

\* So the scan is exact in every state of the hybrid index as well.
THEOREM HybridScans == Spec => []ScanExact
<1> QED
  BY HybridIsCodeIndex, ScanAlways, PTL

-----------------------------------------------------------------------------
(***************************************************************************)
(* The lemmas about the graph algorithms hold over code distances too: CF  *)
(* are those lemmas about the operators of Coded.                          *)
(***************************************************************************)
CF == INSTANCE HnswOpsProofs WITH D <- near

LEMMA SameSets ==
    /\ \A S : CF!IsFiniteSet(S) <=> IsFiniteSet(S)
    /\ \A S : CF!Cardinality(S) = Cardinality(S)
    /\ \A s : CF!ToSet(s) = ToSet(s)
    /\ \A s : CF!IsInjective(s) <=> IsInjective(s)
<1>1. \A S : CF!IsFiniteSet(S) <=> IsFiniteSet(S)
  BY DEF CF!IsFiniteSet, IsFiniteSet
<1>2. \A S : CF!Cardinality(S) = Cardinality(S)
  BY DEF CF!Cardinality, Cardinality
<1>3. \A s : CF!ToSet(s) = ToSet(s)
  BY DEF CF!ToSet, ToSet
<1>4. \A s : CF!IsInjective(s) <=> IsInjective(s)
  BY DEF CF!IsInjective, IsInjective
<1> QED
  BY <1>1, <1>2, <1>3, <1>4

LEMMA SameGraphs ==
    /\ \A h : CF!Nodes(h) = Nodes(h)
    /\ \A h, u, l : CF!Links(h, u, l) = Links(h, u, l)
    /\ \A h, l : CF!OnLev(h, l) = OnLev(h, l)
    /\ \A h, l, S : CF!Closed(h, l, S) <=> Closed(h, l, S)
    /\ \A l : CF!LinkCap(l) = LinkCap(l)
    /\ CF!M0 = M0
<1>1. \A h : CF!Nodes(h) = Nodes(h)
  BY DEF CF!Nodes, Nodes
<1>2. \A h, u, l : CF!Links(h, u, l) = Links(h, u, l)
  BY DEF CF!Links, Links
<1>3. \A h, l : CF!OnLev(h, l) = OnLev(h, l)
  BY <1>1 DEF CF!OnLev, OnLev
<1>4. \A h, l, S : CF!Closed(h, l, S) <=> Closed(h, l, S)
  BY <1>2 DEF CF!Closed, Closed
<1>5. CF!M0 = M0 /\ \A l : CF!LinkCap(l) = LinkCap(l)
  BY DEF CF!LinkCap, LinkCap, CF!M0, M0
<1> QED
  BY <1>1, <1>2, <1>3, <1>4, <1>5

LEMMA SameSound ==
    /\ \A h : CF!IsGraph(h) <=> IsGraph(h)
    /\ \A h : CF!OnLevel(h) <=> OnLevel(h)
    /\ \A h : CF!WithinCap(h) <=> WithinCap(h)
    /\ \A h : CF!Sound(h) <=> Sound(h)
<1>1. \A h : CF!IsGraph(h) <=> IsGraph(h)
  BY SameGraphs DEF CF!IsGraph, IsGraph
<1>2. \A h : CF!OnLevel(h) <=> OnLevel(h)
  BY SameGraphs, SameSets DEF CF!OnLevel, OnLevel
<1>3. \A h : CF!WithinCap(h) <=> WithinCap(h)
  BY SameGraphs, SameSets DEF CF!WithinCap, WithinCap
<1> QED
  BY <1>1, <1>2, <1>3 DEF CF!Sound, Sound

LEMMA SameWhole ==
    /\ \A h, v : CF!Unwired(h, v) <=> Unwired(h, v)
    /\ \A h : CF!Whole(h) <=> Whole(h)
    /\ \A h, v : CF!FirstLevel(h, v) = FirstLevel(h, v)
<1>1. \A h : CF!Small(h) <=> Small(h)
  BY SameGraphs, SameSets DEF CF!Small, Small
<1>2. \A h, u : CF!Beside(h, u) = Beside(h, u)
  BY SameGraphs, SameSets DEF CF!Beside, Beside
<1>3. \A h : CF!Symmetric(h) <=> Symmetric(h)
  BY <1>2, SameGraphs DEF CF!Symmetric, Symmetric
<1>4. \A h, S : CF!Joined(h, S) <=> Joined(h, S)
  BY <1>2 DEF CF!Joined, Joined
<1>5. \A h, v, l : CF!Unnamed(h, v, l) <=> Unnamed(h, v, l)
  BY SameGraphs, SameSets DEF CF!Unnamed, Unnamed
<1>6. \A h : CF!EntryOnTopOf(h) <=> EntryOnTopOf(h)
  BY SameGraphs DEF CF!EntryOnTopOf, EntryOnTopOf
<1>7. \A h, v : CF!Unwired(h, v) <=> Unwired(h, v)
  BY <1>1, <1>3, <1>4, <1>5, SameGraphs, SameSound DEF CF!Unwired, Unwired
<1>8. \A h : CF!Whole(h) <=> Whole(h)
  BY <1>1, <1>3, <1>4, <1>6, SameGraphs, SameSound DEF CF!Whole, Whole
<1>9. \A h, v : CF!FirstLevel(h, v) = FirstLevel(h, v)
  BY DEF CF!FirstLevel, FirstLevel
<1> QED
  BY <1>7, <1>8, <1>9

\* Code distances satisfy what the lemmas assume of D.
LEMMA CodedAssumption ==
    ASSUME Configured
    PROVE  /\ CF!IsFiniteSet(Points) /\ NoNode \notin Points
           /\ near \in [Points -> [Points -> Int]]
           /\ \A p, q, r \in Points : near[p][q] = near[p][r] => q = r
           /\ M \in Nat /\ M >= 2
           /\ EfC \in Nat /\ EfC >= M
<1>1. /\ near \in [Points -> [Points -> Int]]
      /\ \A p, q, r \in Points : near[p][q] = near[p][r] => q = r
  BY HybridAssumption, CodeIndexAssumption DEF Configured, CodesApart
<1>2. CF!IsFiniteSet(Points)
  BY HnswOpsAssumption, SameSets
<1> QED
  BY <1>1, <1>2, HnswOpsAssumption

LEMMA SameSearch ==
    /\ \A q, S : CF!Nearest(q, S) = Coded!Nearest(q, S)
    /\ \A q, S : CF!ByDistance(q, S) = Coded!ByDistance(q, S)
    /\ \A h, q, ep, ef, l, ok :
          CF!SearchLayer(h, q, ep, ef, l, ok) = Coded!SearchLayer(h, q, ep, ef, l, ok)
    /\ \A h, q, ep, from, to : CF!Descend(h, q, ep, from, to) = Coded!Descend(h, q, ep, from, to)
<1>1. \A q, S : CF!Nearest(q, S) = Coded!Nearest(q, S)
  BY DEF CF!Nearest, Coded!Nearest
<1>2. \A q, S : CF!ByDistance(q, S) = Coded!ByDistance(q, S)
  BY DEF CF!ByDistance, Coded!ByDistance, CF!Cardinality, Coded!Cardinality
<1>3. ASSUME NEW h, NEW q, NEW ep, NEW ef, NEW l, NEW ok
      PROVE  CF!SearchLayer(h, q, ep, ef, l, ok) = Coded!SearchLayer(h, q, ep, ef, l, ok)
  BY DEF CF!SearchLayer, Coded!SearchLayer, CF!Expand, Coded!Expand, CF!Meet, Coded!Meet,
         CF!Room, Coded!Room, CF!Trim, Coded!Trim, CF!BeamDone, Coded!BeamDone,
         CF!Nearest, Coded!Nearest, CF!Farthest, Coded!Farthest, CF!Rounds, Coded!Rounds,
         CF!Nodes, Coded!Nodes, CF!Links, Coded!Links, CF!FoldLeft, Coded!FoldLeft,
         CF!MapThenFoldSet, Coded!MapThenFoldSet, CF!Max, Coded!Max,
         CF!Cardinality, Coded!Cardinality
<1>4. ASSUME NEW h, NEW q, NEW ep, NEW from, NEW to
      PROVE  CF!Descend(h, q, ep, from, to) = Coded!Descend(h, q, ep, from, to)
  BY DEF CF!Descend, Coded!Descend, CF!GreedyStep, Coded!GreedyStep, CF!Down, Coded!Down,
         CF!Nearest, Coded!Nearest, CF!Rounds, Coded!Rounds, CF!ToSet, Coded!ToSet,
         CF!Nodes, Coded!Nodes, CF!Links, Coded!Links, CF!FoldLeft, Coded!FoldLeft,
         CF!MapThenFoldSet, Coded!MapThenFoldSet, CF!Max, Coded!Max,
         CF!Cardinality, Coded!Cardinality
<1> QED
  BY <1>1, <1>2, <1>3, <1>4

-----------------------------------------------------------------------------
(***************************************************************************)
(* Selecting and pruning neighbours.                                       *)
(***************************************************************************)
LEMMA SelNeighborsFacts ==
    ASSUME Configured, NEW q \in Points, NEW S, S \subseteq Points, NEW k \in Nat
    PROVE  LET s == SelNeighbors(q, S, k) IN
           /\ s \in Seq(S) /\ IsInjective(s) /\ ToSet(s) \subseteq S
           /\ Len(s) = IF k < Cardinality(S) THEN k ELSE Cardinality(S)
<1> DEFINE div == HDiverse(q, S)
           a == Coded!ByDistance(q, div)
           b == Coded!ByDistance(q, S \ div)
           s == SelNeighbors(q, S, k)
<1>1. div \subseteq S
  BY DEF HDiverse
<1> HIDE DEF div
<1>2. ASSUME NEW T, T \subseteq S
      PROVE  LET t == Coded!ByDistance(q, T) IN
             /\ t \in Seq(S) /\ IsInjective(t) /\ ToSet(t) = T /\ Len(t) = Cardinality(T)
  <2> DEFINE t == CF!ByDistance(q, T)
  <2>1. T \subseteq Points
    BY <1>2
  <2>2. t \in Seq(T) /\ Len(t) = CF!Cardinality(T) /\ CF!IsInjective(t) /\ CF!ToSet(t) = T
    BY <2>1, CodedAssumption, CF!ByDistanceFacts
  <2> HIDE DEF t
  <2>3. /\ t \in Seq(T) /\ IsInjective(t) /\ ToSet(t) = T /\ Len(t) = Cardinality(T)
    BY <2>2, SameSets
  <2>4. Coded!ByDistance(q, T) = t
    BY SameSearch DEF t
  <2> QED
    BY <1>2, <2>3, <2>4
<1>3. /\ a \in Seq(S) /\ IsInjective(a) /\ ToSet(a) = div /\ Len(a) = Cardinality(div)
      /\ b \in Seq(S) /\ IsInjective(b) /\ ToSet(b) = S \ div
      /\ Len(b) = Cardinality(S \ div)
  BY <1>1, <1>2
<1>4. Cardinality(S) = Cardinality(div) + Cardinality(S \ div)
  BY <1>1, SplitCount
<1>5. s = SubSeq(a \o b, 1, IF k < Len(a \o b) THEN k ELSE Len(a \o b))
  BY DEF SelNeighbors, div
<1>6. ToSet(a) \cap ToSet(b) = {} /\ ToSet(a) \cup ToSet(b) = S
  BY <1>1, <1>3, Zenon
<1> HIDE DEF a, b, s
<1>7. /\ s \in Seq(S) /\ IsInjective(s) /\ ToSet(s) \subseteq S
      /\ Len(s) = IF k < Len(a) + Len(b) THEN k ELSE Len(a) + Len(b)
  BY <1>3, <1>5, <1>6, PrefixFacts, ZenonT(30)
<1> QED
  BY <1>3, <1>4, <1>7 DEF s

\* A list that fits is not touched.
LEMMA HShrinkFacts ==
    ASSUME Configured, NEW v \in Points, NEW list \in Seq(Points), IsInjective(list), NEW l \in Nat
    PROVE  LET s == Shrink(v, list, l) IN
           /\ s \in Seq(ToSet(list)) /\ IsInjective(s) /\ ToSet(s) \subseteq ToSet(list)
           /\ Len(s) = IF Len(list) <= LinkCap(l) THEN Len(list) ELSE LinkCap(l)
           /\ Len(list) <= LinkCap(l) => s = list
<1>1. LinkCap(l) \in Nat /\ Len(list) \in Nat
  BY HnswOpsAssumption DEF LinkCap, M0
<1>2. list \in Seq(ToSet(list))
  BY DEF ToSet
<1>3. ToSet(list) \subseteq Points /\ Cardinality(ToSet(list)) = Len(list)
  BY InjectiveLen
<1>4. CASE Len(list) <= LinkCap(l)
  BY <1>1, <1>2, <1>4 DEF Shrink
<1>5. CASE ~ (Len(list) <= LinkCap(l))
  <2>1. Shrink(v, list, l) = SelNeighbors(v, ToSet(list), LinkCap(l))
    BY <1>5 DEF Shrink
  <2>2. LinkCap(l) < Cardinality(ToSet(list))
    BY <1>1, <1>3, <1>5
  <2> QED
    BY <1>1, <1>3, <1>5, <2>1, <2>2, SelNeighborsFacts, ZenonT(30)
<1> QED
  BY <1>4, <1>5

-----------------------------------------------------------------------------
(***************************************************************************)
(* Wiring a node.                                                          *)
(***************************************************************************)
LEMMA HLinkBackFacts ==
    ASSUME Configured, NEW h, Sound(h), NEW l \in Nat, NEW u \in OnLev(h, l),
           NEW v \in OnLev(h, l), u # v, l \in 0 .. h.lvl[u], Unnamed(h, v, l)
    PROVE  LinkedBack(h, u, v, l, Shrink(v, Append(Links(h, u, l), v), l))
<1> DEFINE list == Links(h, u, l)
           a == Append(list, v)
           s == Shrink(v, a, l)
<1>1. /\ IsGraph(h) /\ OnLevel(h) /\ WithinCap(h) /\ u \in Nodes(h) /\ v \in Points
      /\ v \notin ToSet(list)
  BY DEF Sound, IsGraph, OnLev, Unnamed
<1>2. GoodList(h, u, l, list)
  BY <1>1, SoundLists
<1> HIDE DEF list
<1>3. Len(list) \in Nat /\ LinkCap(l) \in Nat
  BY <1>2, HnswOpsAssumption DEF GoodList, LinkCap, M0
<1>4. /\ a \in Seq(Points) /\ IsInjective(a) /\ Len(a) = Len(list) + 1
      /\ ToSet(a) \subseteq OnLev(h, l)
      /\ u \notin ToSet(a) /\ OnLev(h, l) \subseteq Nodes(h)
  BY <1>1, <1>2, AppendedLinks
<1> HIDE DEF a, s
<1>5. /\ s \in Seq(ToSet(a)) /\ IsInjective(s) /\ ToSet(s) \subseteq ToSet(a)
      /\ Len(s) = IF Len(a) <= LinkCap(l) THEN Len(a) ELSE LinkCap(l)
      /\ Len(a) <= LinkCap(l) => s = a
  BY <1>1, <1>4, HShrinkFacts, Zenon DEF s
<1>6. GoodList(h, u, l, s)
  BY <1>3, <1>4, <1>5, PrunedFacts
<1>7. Len(list) < LinkCap(l) => Len(a) <= LinkCap(l)
  BY <1>3, <1>4
<1> QED
  BY <1>5, <1>6, <1>7 DEF LinkedBack, list, a, s

\* What the search of a level finds for the new node.
LEMMA HFoundFacts ==
    ASSUME Configured, NEW h, Sound(h), NEW v \in Nodes(h), NEW l \in 0 .. h.lvl[v],
           Unnamed(h, v, l), NEW ep \in OnLev(h, l) \ {v}
    PROVE  LET res == Coded!SearchLayer(h, v, ep, EfC, l, Nodes(h)) IN
           /\ res \subseteq OnLev(h, l) \ {v} /\ res # {}
           /\ Coded!Nearest(v, res) \in res
<1> DEFINE S == OnLev(h, l) \ {v}
           res == CF!SearchLayer(h, v, ep, EfC, l, Nodes(h))
<1>1. /\ IsGraph(h) /\ OnLevel(h) /\ h.lvl[v] \in Nat
      /\ l \in Nat /\ v \in Points /\ Nodes(h) \subseteq Points
      /\ EfC \in Nat /\ EfC >= 1
  BY HnswOpsAssumption DEF Sound, IsGraph
<1>2. S \subseteq Nodes(h) /\ Closed(h, l, S) /\ ep \in S
  BY <1>1, LevelClosed, Zenon DEF Unnamed, OnLev
<1> HIDE DEF S, res
<1>3. /\ S \subseteq CF!Nodes(h) /\ CF!Nodes(h) \subseteq Points /\ CF!Closed(h, l, S)
  BY <1>1, <1>2, SameGraphs
<1>4. /\ res \subseteq S \cap Nodes(h)
      /\ \/ CF!Cardinality(res) >= EfC
         \/ \E V \in SUBSET S : ep \in V /\ CF!Closed(h, l, V) /\ res = V \cap Nodes(h)
  <2>1. /\ CF!IsFiniteSet(Points) /\ NoNode \notin Points
        /\ near \in [Points -> [Points -> Int]]
        /\ \A p, q, r \in Points : near[p][q] = near[p][r] => q = r
        /\ M \in Nat /\ M >= 2
        /\ EfC \in Nat /\ EfC >= M
    BY CodedAssumption
  <2>2. /\ v \in Points /\ EfC \in Nat /\ EfC >= 1 /\ S \subseteq CF!Nodes(h)
        /\ CF!Nodes(h) \subseteq Points /\ CF!Closed(h, l, S) /\ ep \in S
    BY <1>1, <1>2, <1>3
  <2>3. CF!Explored(h, v, ep, EfC, l, Nodes(h), S)
    BY ONLY <2>1, <2>2, CF!SearchLayerFacts, Zenon
  <2> QED
    BY <2>3, Zenon DEF CF!Explored, res
<1>5. res # {}
  <2>1. CASE Cardinality(res) >= EfC
    BY <1>1, <2>1, FS_EmptySet
  <2>2. CASE \E V \in SUBSET S : ep \in V /\ res = V \cap Nodes(h)
    BY <1>2, <2>2
  <2> QED
    BY <1>4, <2>1, <2>2, SameSets
<1>6. res \subseteq Points
  BY <1>1, <1>4
<1>7. CF!Nearest(v, res) \in res
  BY <1>1, <1>5, <1>6, CodedAssumption, CF!NearestIn
<1>8. res = Coded!SearchLayer(h, v, ep, EfC, l, Nodes(h)) /\ Coded!Nearest(v, res) \in res
  BY <1>7, SameSearch DEF res
<1> QED
  BY <1>4, <1>5, <1>8 DEF S

LEMMA HWireLevelFacts ==
    ASSUME Configured, NEW h, Sound(h), NEW v \in Nodes(h), NEW l \in 0 .. h.lvl[v],
           Unnamed(h, v, l), NEW ep \in OnLev(h, l) \ {v}
    PROVE  LET r == HWireLevel([g |-> h, ep |-> ep], v, l) IN
           /\ r = [g |-> r.g, ep |-> r.ep]
           /\ LevelWired(h, r.g, v, l) /\ r.ep \in OnLev(h, l) \ {v}
<1> DEFINE S == OnLev(h, l) \ {v}
           res == Coded!SearchLayer(h, v, ep, EfC, l, Nodes(h))
           sel == SelNeighbors(v, res, M)
           N == [u \in Nodes(h) |->
                   IF l > h.lvl[u] THEN <<>>
                   ELSE IF u = v THEN sel
                   ELSE IF u \in ToSet(sel) THEN Shrink(v, Append(Links(h, u, l), v), l)
                   ELSE Links(h, u, l)]
           k == Relinked(h, l, N)
           r == HWireLevel([g |-> h, ep |-> ep], v, l)
<1>1. /\ IsGraph(h) /\ h.lvl[v] \in Nat
      /\ l \in Nat /\ l <= h.lvl[v] /\ v \in Points /\ Nodes(h) \subseteq Points
      /\ v \in OnLev(h, l) /\ \A u \in Nodes(h) : h.lvl[u] \in Nat
  BY DEF Sound, IsGraph, OnLev
<1>2. /\ res \subseteq S /\ res # {} /\ Coded!Nearest(v, res) \in res
  BY HFoundFacts
<1> HIDE DEF res
<1>3. res \subseteq Points /\ S \subseteq Nodes(h)
  BY <1>1, <1>2 DEF OnLev
<1>4. Cardinality(res) \in Nat /\ Cardinality(res) # 0
  BY <1>2, <1>3, PointsFinite, FS_EmptySet
<1>5. /\ sel \in Seq(res) /\ IsInjective(sel) /\ ToSet(sel) \subseteq res
      /\ Len(sel) = IF M < Cardinality(res) THEN M ELSE Cardinality(res)
  BY <1>1, <1>3, SelNeighborsFacts, HnswOpsAssumption, Zenon
<1> HIDE DEF sel
<1>6. GoodList(h, v, l, sel) /\ ToSet(sel) # {}
  <2>1. Len(sel) \in Nat /\ Len(sel) >= 1 /\ Len(sel) <= M /\ M <= LinkCap(l)
    BY <1>4, <1>5, HnswOpsAssumption DEF LinkCap, M0
  <2>2. Len(sel) <= LinkCap(l)
    BY <2>1, HnswOpsAssumption DEF LinkCap, M0
  <2>3. sel[1] \in ToSet(sel)
    BY <1>5, <2>1 DEF ToSet
  <2>4. ToSet(sel) \subseteq S
    BY <1>2, <1>5
  <2>5. sel \in Seq(Nodes(h))
    BY <1>2, <1>3, <1>5
  <2> QED
    BY <1>5, <2>2, <2>3, <2>4, <2>5 DEF GoodList
<1>7. ASSUME NEW u \in S, u \in ToSet(sel)
      PROVE  LinkedBack(h, u, v, l, Shrink(v, Append(Links(h, u, l), v), l))
  <2>1. u \in OnLev(h, l) /\ l \in 0 .. h.lvl[u] /\ u \in Nodes(h) /\ u # v
    BY <1>1 DEF OnLev
  <2> QED
    BY <1>1, <2>1, HLinkBackFacts
<1>8. r = [g |-> k, ep |-> Coded!Nearest(v, res)]
  BY <1>1 DEF HWireLevel, Relinked, res, sel
<1>9. /\ N[v] = sel /\ N = [u \in Nodes(h) |-> N[u]]
      /\ \A u \in Nodes(h) : l > h.lvl[u] => N[u] = <<>>
      /\ \A u \in S : N[u] = IF u \in ToSet(sel) THEN Shrink(v, Append(Links(h, u, l), v), l)
                                                 ELSE Links(h, u, l)
  BY <1>1 DEF OnLev
<1> HIDE DEF N, k, r
<1>10. \A u \in OnLev(h, l) \ {v} :
          IF u \in ToSet(sel) THEN LinkedBack(h, u, v, l, N[u]) ELSE N[u] = Links(h, u, l)
  BY <1>7, <1>9
<1>11. LevelWired(h, k, v, l)
  <2> HIDE DEF S
  <2> QED BY <1>6, <1>9, <1>10, LevelRelinked, Zenon DEF k
<1>12. r.g = k /\ r.ep = Coded!Nearest(v, res) /\ r = [g |-> r.g, ep |-> r.ep]
  BY <1>8
<1> QED
  BY <1>2, <1>11, <1>12 DEF r

HWireOp(c, a, l) == HWireLevel(a, c.v, l)

HWires == INSTANCE FoldFacts WITH Op <- HWireOp, Inv <- WireInv

LEMMA HWireStep ==
    ASSUME Configured,
           NEW c, IsGraph(c.g), c.v \in Nodes(c.g), c.start \in 0 .. c.g.lvl[c.v],
           NEW k \in 0 .. c.start, NEW a, WireInv(c, k, a)
    PROVE  WireInv(c, k + 1, HWireOp(c, a, c.start - k))
<1> DEFINE v == c.v
           l == c.start - k
           r == HWireLevel([g |-> a.g, ep |-> a.ep], v, l)
<1>1. /\ a = [g |-> a.g, ep |-> a.ep] /\ Sound(a.g) /\ v \in Nodes(a.g)
      /\ l \in 0 .. a.g.lvl[v] /\ Unnamed(a.g, v, l) /\ a.ep \in OnLev(a.g, l) \ {v}
  BY WireReady
<1>2. HWireOp(c, a, l) = r
  BY <1>1 DEF HWireOp
<1> HIDE DEF v, l
<1>3. /\ r = [g |-> r.g, ep |-> r.ep]
      /\ LevelWired(a.g, r.g, v, l) /\ r.ep \in OnLev(a.g, l) \ {v}
  BY <1>1, HWireLevelFacts
<1> HIDE DEF r
<1>4. WireInv(c, k + 1, r)
  BY <1>3, WiredStep DEF v, l
<1> QED
  BY <1>2, <1>4 DEF l

\* hybrid_add after its vector is stored.
LEMMA WiredFacts ==
    ASSUME Configured, NEW h, Built(h), NEW v \in Points \ Nodes(h), NEW level \in Nat
    PROVE  LET w == Wired(h, v, level) IN
           /\ Whole(w) /\ Nodes(w) = Nodes(h) \cup {v}
           /\ w.lvl[v] = level /\ \A u \in Nodes(h) : w.lvl[u] = h.lvl[u]
<1>1. CASE h.entry = NoNode
  <2> DEFINE w == OnlyNode(h, v, level)
  <2>1. /\ Whole(w) /\ Nodes(w) = Nodes(h) \cup {v}
        /\ w.lvl[v] = level /\ \A u \in Nodes(h) : w.lvl[u] = h.lvl[u]
    BY <1>1, FirstNode
  <2>2. Wired(h, v, level) = w
    BY <1>1 DEF Wired, OnlyNode
  <2> HIDE DEF w
  <2> QED
    BY <2>1, <2>2
<1>2. CASE h.entry # NoNode
  <2> DEFINE s == StoreNode(h, v, level)
             ep == Coded!Descend(s, v, s.entry, s.top, level + 1)
             start == FirstLevel(s, v)
             c == Wiring(s, v)
             base == [g |-> s, ep |-> ep]
             a == HWires!Fold(c, base, Down(start, 0))
             w == AdvanceEntry(a.g, v, level)
  <2>1. /\ Unwired(s, v) /\ Nodes(s) = Nodes(h) \cup {v}
        /\ s.lvl[v] = level /\ \A u \in Nodes(h) : s.lvl[u] = h.lvl[u]
    BY <1>2, StoredUnwired
  <2>2. Wired(h, v, level) = w
    <3>1. s.lvl[v] = level
      BY <2>1
    <3> QED
      BY <1>2, <3>1 DEF Wired, FirstLevel, Wiring, HWireOp, HWires!Fold, HWires!FoldLeft, FoldLeft,
            MapThenFoldSet, HWires!MapThenFoldSet, Max, HWires!Max
  <2> HIDE DEF s
  <2>3. ep \in Nodes(s) \ {v} /\ s.lvl[ep] >= start
    <3> DEFINE e == CF!Descend(s, v, s.entry, s.top, s.lvl[v] + 1)
    <3>1. CF!Unwired(s, v)
      BY <2>1, SameWhole
    <3>2. e \in CF!Nodes(s) \ {v} /\ s.lvl[e] >= CF!FirstLevel(s, v)
      BY <3>1, CodedAssumption, CF!DescentLeads
    <3>3. e = ep
      BY <2>1, SameSearch
    <3> HIDE DEF e, ep
    <3> QED
      BY <3>2, <3>3, SameGraphs, SameWhole
  <2> HIDE DEF ep
  <2>4. IsGraph(s) /\ v \in Nodes(s) /\ start \in 0 .. s.lvl[v] /\ start \in Nat
    BY <2>1, UnwiredFacts
  <2>5. c.g = s /\ c.v = v /\ c.start = start
    BY DEF Wiring
  <2>6. WireInv(c, 0, base)
    BY <2>1, <2>3, WiringStarts
  <2> HIDE DEF c, base, a, start
  <2>7. /\ DOMAIN Down(start, 0) = 1 .. start + 1
        /\ \A k \in 0 .. (start + 1) - 1 : Down(start, 0)[k + 1] = start - k /\ k \in 0 .. start
    BY <2>4, DownFacts
  <2>8. \A b : \A k \in 0 .. (start + 1) - 1 :
           WireInv(c, k, b) => WireInv(c, k + 1, HWireOp(c, b, Down(start, 0)[k + 1]))
    <3> SUFFICES ASSUME NEW b, NEW k \in 0 .. (start + 1) - 1, WireInv(c, k, b)
                 PROVE  WireInv(c, k + 1, HWireOp(c, b, Down(start, 0)[k + 1]))
      OBVIOUS
    <3>1. /\ IsGraph(c.g) /\ c.v \in Nodes(c.g) /\ c.start \in 0 .. c.g.lvl[c.v]
          /\ k \in 0 .. c.start /\ Down(start, 0)[k + 1] = c.start - k
      BY <2>4, <2>5, <2>7
    <3> QED
      BY <3>1, HWireStep
  <2>9. WireInv(c, start + 1, a)
    <3>1. start + 1 \in Nat
      BY <2>4
    <3> QED
      BY <3>1, <2>6, <2>7, <2>8, HWires!FoldInv DEF a
  <2>10. Whole(w) /\ Nodes(w) = Nodes(s) /\ w.lvl = s.lvl
    BY <2>1, <2>9, WiringEnds DEF c, start
  <2> HIDE DEF w
  <2> QED
    BY <2>1, <2>2, <2>10
<1> QED
  BY <1>1, <1>2

-----------------------------------------------------------------------------
(***************************************************************************)
(* The index.                                                              *)
(***************************************************************************)
\* The inductive invariant: the graph is built of the stored vectors, and index
\* and codec, which grow apart, hold the same vectors in the same slots.
HybridInv ==
    /\ Configured /\ Built(g) /\ g.lvl \in [Nodes(g) -> 0 .. MaxLevel]
    /\ IsInjective(vecs) /\ ToSet(vecs) = Nodes(g)
    /\ cap \in Nat \ {0} /\ Len(vecs) <= cap
    /\ CodeInv

LEMMA HybridStart == CodesApart /\ Init => HybridInv
<1> SUFFICES ASSUME CodesApart, Init PROVE HybridInv
  OBVIOUS
<1>1. CodeInv
  BY CodeStart DEF Init
<1>2. g = EmptyGraph /\ vecs = <<>> /\ cap = FirstCap
  BY DEF Init, CodeInit
<1>3. Built(g) /\ Nodes(g) = {} /\ g.lvl = <<>>
  BY <1>2, EmptyBuilt DEF EmptyGraph
<1>4. g.lvl \in [Nodes(g) -> 0 .. MaxLevel]
  BY <1>3
<1>5. IsInjective(vecs) /\ ToSet(vecs) = {} /\ Len(vecs) = 0
  BY <1>2 DEF IsInjective, ToSet
<1>6. FirstCap \in Nat \ {0}
  BY HybridAssumption
<1>7. Configured
  BY <1>1 DEF Configured, CodeInv
<1> QED
  BY <1>1, <1>2, <1>3, <1>4, <1>5, <1>6, <1>7 DEF HybridInv

LEMMA HybridStep == HybridInv /\ [Next]_vars => HybridInv'
<1> SUFFICES ASSUME HybridInv, [Next]_vars PROVE HybridInv'
  OBVIOUS
<1>1. CodeInv'
  BY AddIsCodeAdd, CodeStep DEF HybridInv
<1>2. Configured'
  BY <1>1 DEF Configured, CodeInv, HybridInv
<1>3. CASE UNCHANGED vars
  BY <1>1, <1>2, <1>3 DEF vars, HybridInv
<1>4. ASSUME NEW v \in Points, NEW level \in 0 .. MaxLevel, Add(v, level)
      PROVE  HybridInv'
  <2>1. /\ v \in Points \ Nodes(g) /\ level \in Nat
        /\ cap' = Grown(cap, Len(vecs))
        /\ vecs' = Append(vecs, v) /\ g' = Wired(g, v, level)
    BY <1>4 DEF Add, CodeAdd
  <2>2. /\ Whole(g') /\ Nodes(g') = Nodes(g) \cup {v}
        /\ g'.lvl[v] = level /\ \A u \in Nodes(g) : g'.lvl[u] = g.lvl[u]
    BY <2>1, WiredFacts DEF HybridInv
  <2>3. Built(g') /\ g'.lvl \in [Nodes(g') -> 0 .. MaxLevel]
    <3>1. Nodes(g') # {} /\ IsGraph(g')
      BY <2>2 DEF Whole, Sound
    <3>2. \A u \in Nodes(g') : g'.lvl[u] \in 0 .. MaxLevel
      BY <2>2 DEF HybridInv
    <3>3. g'.lvl = [u \in Nodes(g') |-> g'.lvl[u]]
      BY <3>1 DEF IsGraph
    <3> QED
      BY <2>2, <3>1, <3>2, <3>3 DEF Built
  <2>4. vecs \in Seq(Points)
    BY HybridAssumption DEF HybridInv, CodeInv, CodecHolds
  <2>5. IsInjective(vecs') /\ ToSet(vecs') = Nodes(g')
    BY <2>1, <2>2, <2>4, AppendFacts DEF HybridInv
  <2>6. cap' \in Nat \ {0} /\ Len(vecs') <= cap'
    <3>1. Len(vecs) \in Nat /\ Len(vecs') = Len(vecs) + 1
      BY <2>1, <2>4
    <3> QED
      BY <2>1, <3>1 DEF HybridInv, Grown
  <2> QED
    BY <1>1, <1>2, <2>3, <2>5, <2>6 DEF HybridInv
<1> QED
  BY <1>3, <1>4 DEF Next

\* When no two codes tie, index and codec, which grow apart, hold the same vectors
\* in the same slots, and the graph is built of them.
THEOREM HybridInvariance == CodesApart /\ Spec => []HybridInv
<1> QED
  BY HybridStart, HybridStep, PTL DEF Spec

\* Pruning by the wrong distances, those to the vector being added, never breaks
\* the graph: in every order of adds, with any distances without ties, exact and of
\* codes, any M and ef_construction, lists keep to their level and cap, the entry
\* point is on top, and a bottom layer whose lists cannot overflow is symmetric and
\* connected.
THEOREM HybridSound == CodesApart /\ Spec => []GraphSound
<1>1. HybridInv => GraphSound
  BY BuiltSound DEF HybridInv, GraphSound
<1> QED
  BY <1>1, HybridInvariance, PTL

-----------------------------------------------------------------------------
(***************************************************************************)
(* The search.                                                             *)
(***************************************************************************)
LEMMA SameReach ==
    \A h, S, l : CF!Reach(h, S, l) = Reach(h, S, l)
BY DEF CF!Reach, Reach, CF!FoldLeft, FoldLeft, CF!MapThenFoldSet, MapThenFoldSet, CF!Max, Max,
       CF!Rounds, Rounds, CF!Nodes, Nodes, CF!Links, Links, CF!ToSet, ToSet,
       CF!Cardinality, Cardinality

\* What the traversal with code distances finds: ef nodes of those within reach
\* of where the descent ends, or all of them.
LEMMA CodedSearchFinds ==
    ASSUME Configured, NEW h, Whole(h), NEW q \in Points, NEW ef \in Nat, ef >= 1
    PROVE  LET e == Coded!Descend(h, q, h.entry, h.top, 1)
               F == Reach(h, {e}, 0)
               r == Coded!SearchLayer(h, q, e, ef, 0, Nodes(h))
           IN  /\ F \subseteq Nodes(h) /\ r \subseteq F
               /\ Cardinality(r) >= ef \/ r = F
<1> DEFINE e == CF!Descend(h, q, h.entry, h.top, 1)
           F == CF!Within(h, q)
           r == CF!SearchLayer(h, q, e, ef, 0, Nodes(h))
<1>1. CF!Whole(h)
  BY SameWhole
<1>2. /\ F \subseteq CF!Nodes(h) /\ r \subseteq F \cap Nodes(h)
      /\ CF!Cardinality(r) >= ef \/ r = F \cap Nodes(h)
  <2>1. /\ CF!IsFiniteSet(Points) /\ NoNode \notin Points
        /\ near \in [Points -> [Points -> Int]]
        /\ \A p, q1, r1 \in Points : near[p][q1] = near[p][r1] => q1 = r1
        /\ M \in Nat /\ M >= 2
        /\ EfC \in Nat /\ EfC >= M
    BY CodedAssumption
  <2> QED
    BY ONLY <1>1, <2>1, ef >= 1, CF!SearchFinds, Zenon
<1>3. F = Reach(h, {e}, 0)
  BY SameReach DEF CF!Within
<1>4. e = Coded!Descend(h, q, h.entry, h.top, 1)
  BY SameSearch
<1> HIDE DEF F, e
<1>5. r = Coded!SearchLayer(h, q, e, ef, 0, Nodes(h))
  BY SameSearch
<1> HIDE DEF r
<1> QED
  BY <1>2, <1>3, <1>4, <1>5, SameGraphs, SameSets

LEMMA SearchIsExact ==
    ASSUME HybridInv, vecs # <<>>, NEW q \in Points, NEW k \in 1 .. Len(vecs)
    PROVE  FindsNearest(q, k)
<1> DEFINE e == Coded!Descend(g, q, g.entry, g.top, 1)
           F == Reach(g, {e}, 0)
           n == Len(vecs)
           wide == Coded!SearchLayer(g, q, e, n, 0, Nodes(g))
           few == Coded!SearchLayer(g, q, e, k, 0, Nodes(g))
<1>1. /\ n \in Nat /\ n >= 1 /\ k \in Nat /\ k >= 1 /\ k <= n
      /\ Cardinality(Nodes(g)) = n
  BY InjectiveLen DEF HybridInv, CodeInv, CodecHolds
<1>2. Whole(g) /\ Nodes(g) \subseteq Points
  <2>1. Nodes(g) # {}
    <3> SUFFICES ASSUME Nodes(g) = {} PROVE FALSE
      OBVIOUS
    <3>1. Cardinality(Nodes(g)) = 0
      BY FS_EmptySet
    <3> QED
      BY <1>1, <3>1
  <2> QED
    BY <2>1 DEF HybridInv, Built, Whole, Sound, IsGraph
<1>3. F \subseteq Nodes(g) /\ wide \subseteq F /\ few \subseteq F
  BY <1>1, <1>2, CodedSearchFinds DEF HybridInv
<1>4. Cardinality(wide) >= n \/ wide = F
  BY <1>1, <1>2, CodedSearchFinds DEF HybridInv
<1>5. Cardinality(few) >= k \/ few = F
  BY <1>1, <1>2, CodedSearchFinds DEF HybridInv
<1>6. /\ HybridSearch(q, k, n) = TopK(q, k, wide)
      /\ HybridSearch(q, k, k) = TopK(q, k, few)
  BY <1>1 DEF HybridSearch, Rerank
<1>7. FindsNearest(q, k) <=> /\ HybridSearch(q, k, n) = TopK(q, k, F)
                             /\ Len(HybridSearch(q, k, k)) = Len(TopK(q, k, F))
  BY DEF FindsNearest
<1> HIDE DEF e, F, n, wide, few
<1>8. /\ F \subseteq Points /\ wide \subseteq Points /\ few \subseteq Points
      /\ IsFiniteSet(F) /\ IsFiniteSet(Nodes(g))
  BY <1>2, <1>3, PointsFinite
<1>9. wide = F
  <2> SUFFICES ASSUME Cardinality(wide) >= n PROVE wide = F
    BY <1>4
  <2>1. wide \subseteq Nodes(g) /\ Cardinality(wide) <= Cardinality(Nodes(g))
    BY <1>3, <1>8, FS_Subset
  <2>2. Cardinality(wide) = Cardinality(Nodes(g))
    BY <1>1, <2>1, <1>8, FS_CardinalityType, FS_Subset
  <2>3. wide = Nodes(g)
    BY <1>8, <2>1, <2>2, FS_Subset
  <2> QED
    BY <1>3, <2>3, Zenon
<1>10. Len(TopK(q, k, few)) = Len(TopK(q, k, F))
  <2>1. /\ Len(TopK(q, k, few)) = IF Cardinality(few) < k THEN Cardinality(few) ELSE k
        /\ Len(TopK(q, k, F)) = IF Cardinality(F) < k THEN Cardinality(F) ELSE k
    BY <1>1, <1>8, NearestFew
  <2>2. Cardinality(few) <= Cardinality(F) /\ Cardinality(few) \in Nat /\ Cardinality(F) \in Nat
    BY <1>3, <1>8, FS_Subset, FS_CardinalityType
  <2> QED
    BY <1>1, <1>5, <2>1, <2>2
<1> QED
  BY <1>6, <1>7, <1>9, <1>10

\* A search as wide as the index ranks by exact distance everything the graph
\* can reach, and no search returns fewer than it could, although the graph was
\* built and is traversed with code distances only.
THEOREM RerankAlways == CodesApart /\ Spec => []RerankExact
<1>1. HybridInv => RerankExact
  BY SearchIsExact, HybridAssumption, CodeIndexAssumption DEF RerankExact
<1> QED
  BY <1>1, HybridInvariance, PTL
=============================================================================
