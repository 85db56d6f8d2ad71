------------------------------ MODULE CodeIndex ------------------------------
(***************************************************************************)
(* The TurboQuant index by itself (turboquant.c): vectors are added, their *)
(* codes are kept, and a scan of the codes answers queries.  The codec     *)
(* grows by a capacity of its own.                                         *)
(*                                                                         *)
(* A vector stands for its id, x, and Vec[x] gives it.  Equal vectors, and *)
(* vectors whose codes are equally far from a query, may be added, and the *)
(* same one again: tq_add looks at neither.                                *)
(***************************************************************************)
EXTENDS TurboQuant

CONSTANT Searched      \* properties are evaluated while the index holds these only

\* C[m][q][x]: the distance of query q to the code of x, in an index of its own.
C == [m \in 1 .. Len(Modes) |-> [q \in DOMAIN Vec |-> [x \in DOMAIN Vec |->
        Score(Encoded(EmptyCodec(m), x, x), q, 0)]]]

ASSUME CodeIndexAssumption ==
    /\ Searched \subseteq DOMAIN Vec
    /\ C \in [1 .. Len(Modes) -> [DOMAIN Vec -> [DOMAIN Vec -> Int]]]

VARIABLES
    vecs,      \* the vectors added, by slot
    codec,     \* the index of their codes, same slots
    near       \* the distances its codes give: C of its configuration

codeVars == <<vecs, codec, near>>
-----------------------------------------------------------------------------
\* tq_create.
CodeInit == /\ vecs = <<>>
            /\ codec \in {EmptyCodec(m) : m \in 1 .. Len(Modes)}
            /\ near = C[codec.mode]

\* tq_add.
CodeAdd(x) == /\ codec' = Encoded(codec, x, x)
              /\ vecs' = Append(vecs, x)
              /\ near' = near

CodeNext == \E x \in DOMAIN Vec : CodeAdd(x)

CodeSpec == CodeInit /\ [][CodeNext]_codeVars
-----------------------------------------------------------------------------
(***************************************************************************)
(* Properties.                                                             *)
(***************************************************************************)
\* What was stored comes back: slot s gives the id, norm and sums of x, the
\* nearest code words (at 8 bits, to within half a step of the int8 grid) and the
\* signs of the projected residual.
SlotKept(s, x) ==
    LET y   == Queries[codec.mode][x].y
        den == Pdim * (IF codec.norms[s + 1] = 0 THEN 1 ELSE codec.norms[s + 1])
        val == Tabled([i \in Coords |-> ValueOf(codec, s, i)])
        res == [i \in Coords |-> Unit * y[i] - val[i] * den]
        off == IF Modes[codec.mode].bits = 8 THEN GridStep(8) \div 2 ELSE 0
    IN  /\ codec.ids[s + 1] = x
        /\ codec.norms[s + 1] * codec.norms[s + 1] = NormSq(Vec[x])
        /\ \A i \in Coords : Abs(val[i] - NearestLevels[codec.mode][x][i]) <= off
        /\ codec.csqs[s + 1] = Sum([i \in Coords |-> val[i] * val[i]], All)
        /\ Modes[codec.mode].bits = 8 =>
              codec.sums[s + 1] = Sum([i \in Coords |-> CodeOf(codec, s, i)], All)
        /\ Modes[codec.mode].qjl =>
              \A i \in Coords : SignOf(codec, s, i) <=>
                 Sum([j \in Coords |-> Projection[i + 1][j + 1] * res[j]], All) >= 0

\* The rotation keeps distances (times Pdim^3, which fht_scale takes out), and
\* the decomposed score of a stored code is the squared distance between the
\* rotated query and what the code stands for, up to the int8 rounding of the
\* query and, on NEON, of 4-bit code words.  QJL adds an estimate to it, of which
\* nothing is claimed.
ScoreFaithful ==
    ToSet(vecs) \subseteq Searched =>
    \A s \in 0 .. Len(vecs) - 1, q \in Searched :
       LET x   == vecs[s + 1]
           off == [i \in Coords |-> Queries[codec.mode][q].y[i] - Queries[codec.mode][x].y[i]]
           err == Pdim * Score(codec, q, s) - Decoded(codec, q, s)
       IN  /\ Sum([i \in Coords |-> off[i] * off[i]], All)
                 = Pdim * Pdim * Pdim * NormSq([i \in 1 .. Dim |-> Vec[q][i] - Vec[x][i]])
           /\ ~ Modes[codec.mode].qjl => Abs(err) <= Pdim * Slack(codec, q, s)

\* The exhaustive scan of the codes returns, for every k, slots of k vectors whose
\* codes score lowest, nearest first; which of two that score alike is not said.
AreNearest(out, k, dist) ==
    /\ Len(out) = IF k > Len(dist) THEN Len(dist) ELSE k
    /\ IsInjective(out) /\ ToSet(out) \subseteq DOMAIN dist
    /\ \A j \in 2 .. Len(out) : dist[out[j - 1]] <= dist[out[j]]
    /\ \A s \in DOMAIN dist \ ToSet(out) : dist[s] >= dist[out[Len(out)]]

ScanExact ==
    ToSet(vecs) \subseteq Searched =>
    \A q \in Searched, k \in 1 .. Len(vecs) + 1 :
       AreNearest(CodeScan([s \in 1 .. Len(vecs) |-> Score(codec, q, s - 1)], k), k,
                  [s \in 1 .. Len(vecs) |-> near[q][vecs[s]]])
=============================================================================
