------------------------------ MODULE Kernels ------------------------------
(***************************************************************************)
(* The loops of the distance kernels of vecdb.c, turboquant.c and hybrid.c *)
(* in every build: which coordinates they read.  A kernel is a sequence of *)
(* stages over one index i; a stage reads w coordinates from i at a time.  *)
(* What is done with the coordinates is a sum, whose order plays no part.  *)
(***************************************************************************)
EXTENDS Integers, SequencesExt

Chunks(w) == [w |-> w, kind |-> "chunks"]       \* for (; i + w <= n; i += w)
Masked(w) == [w |-> w, kind |-> "masked"]   \* if (i < n), the lanes below n only
Blind(w) == [w |-> w, kind |-> "blind"]     \* for (; i < n; i += w), all w lanes

CoveredShort(st, i, n) ==   \* mutant: i + w < n, the last full chunk is left out
    IF st.kind = "chunks" THEN st.w * ((n - i - 1) \div st.w)
    ELSE IF st.kind = "masked" THEN IF n - i < st.w THEN n - i ELSE st.w
    ELSE st.w * ((n - i + st.w - 1) \div st.w)

\* How many coordinates a stage reads that starts at i <= n.
Covered(st, i, n) ==
    IF st.kind = "chunks" THEN st.w * ((n - i) \div st.w)
    ELSE IF st.kind = "masked" THEN IF n - i < st.w THEN n - i ELSE st.w
    ELSE st.w * ((n - i + st.w - 1) \div st.w)

\* The coordinates a kernel reads of a vector of n, in order.
Reads(stages, n) ==
    FoldLeft(LAMBDA r, st : r \o [j \in 1 .. Covered(st, Len(r), n) |-> Len(r) + j - 1],
             <<>>, stages)

Builds == {"avx512", "vnni", "neon", "scalar"}
Avx(build) == build \in {"avx512", "vnni"}     \* VNNI comes with AVX-512

\* vecdb.c: l2sq and dots_block.
L2sq(build) == IF Avx(build) THEN <<Chunks(32), Chunks(16), Masked(16)>>
               ELSE IF build = "neon" THEN <<Chunks(16), Chunks(4), Chunks(1)>>
               ELSE <<Chunks(4), Chunks(1)>>
DotsBlock(build) == IF Avx(build) THEN <<Chunks(16), Masked(16)>>
                    ELSE IF build = "neon" THEN <<Chunks(4), Chunks(1)>>
                    ELSE <<Chunks(1)>>

\* turboquant.c: is the query rounded to int8?
WantsInt8(build, bits, n) == IF build = "neon" THEN n % 16 = 0 ELSE bits = 8

\* The scan kernel tq_score_code chooses for a query that is not zero.
ScanKernel(build, bits, n) ==
    IF build = "neon" /\ n % 16 = 0
    THEN IF bits = 4 THEN <<Blind(16)>> ELSE <<Chunks(32), Chunks(16)>>
    ELSE IF bits = 8 THEN IF build = "vnni" /\ n % 64 = 0 THEN <<Blind(64)>> ELSE <<Chunks(1)>>
    ELSE IF Avx(build) /\ n % 16 = 0 THEN <<Blind(16)>>
    ELSE <<Blind(2)>>          \* tq_dot_scalar takes the codes of a byte together

\* tq_dotf, and the sign kernels of QJL.
Dotf(build) == IF Avx(build) THEN <<Chunks(16), Masked(16)>> ELSE <<Chunks(1)>>
SignDot(build, n) == IF Avx(build) /\ n % 16 = 0 THEN <<Blind(16)>> ELSE <<Chunks(1)>>
-----------------------------------------------------------------------------
\* Every coordinate once, none beyond the vector.
EachOnce(stages, n) == Reads(stages, n) = [j \in 1 .. n |-> j - 1]

\* In every build, for every dimension up to N and every padded dimension from
\* 2 to P, the kernel a call is dispatched to reads each coordinate exactly
\* once: no tail is dropped, read twice or overrun.
AllCovered(N, P) ==
    \A build \in Builds :
      /\ \A n \in 1 .. N : EachOnce(L2sq(build), n) /\ EachOnce(DotsBlock(build), n)
      /\ \A p \in P :
            /\ \A bits \in {4, 8} : EachOnce(ScanKernel(build, bits, p), p)
            /\ EachOnce(Dotf(build), p) /\ EachOnce(SignDot(build, p), p)
=============================================================================
