------------------------------ MODULE MCHybrid ------------------------------
(* Model-checking instance of Hybrid: six vectors of eleven coordinates,       *)
(* padded to sixteen, with integral norms; codebooks near those of             *)
(* lloyd_max_gaussian in units of 1/93.  At 4 bits, exact and code distances   *)
(* rank the vectors differently.                                               *)
EXTENDS Hybrid

MCVec == << <<0, 0, 0, 0, 0, 0, 0, 0, 0, 0, 0>>,
            <<0, 0, 0, 0, 1, 0, 0, 0, 0, 0, 0>>,
            <<0, 0, 0, 0, -1, 0, -1, 1, 1, 0, 0>>,
            <<0, 0, 0, 0, 2, 0, 0, 0, 1, 0, 2>>,
            <<1, 0, 1, 0, 0, -3, 0, 0, 0, 2, 1>>,
            <<0, 0, 0, 0, 0, 0, 0, 4, 0, 0, 3>> >>

\* Constants given by the configuration are evaluated at every use, definitions
\* of constants once: MCD and MCLevel8 name such definitions.  Exact distances, on
\* the scale of the scores:
Distances == Tabled([p \in Points |-> Tabled([q \in Points |->
               93 * 93 * 16 * 16 * Sum([i \in 1 .. 11 |-> (MCVec[p][i] - MCVec[q][i])
                                                       * (MCVec[p][i] - MCVec[q][i])],
                                       [i \in 1 .. 11 |-> i])])])
MCD == Distances

MCSigns == << <<-1, 1, -1, -1, 1, -1, -1, 1, 1, -1, 1, -1, 1, 1, -1, -1>>,
              <<-1, -1, 1, 1, -1, -1, 1, 1, -1, 1, 1, -1, 1, -1, -1, 1>>,
              <<-1, 1, 1, 1, 1, 1, 1, -1, 1, -1, -1, 1, 1, -1, -1, 1>> >>

MCProjection == << <<1, 0, 0, 0, -1, 0, 2, 0, -1, 0, 2, -1, 1, 0, 1, 2>>,
                   <<0, -1, -2, 2, -1, 0, -1, -1, 1, 1, 2, 2, 2, 0, 1, 1>>,
                   <<2, 0, 0, 0, -2, -2, 2, -2, -1, 0, 2, -2, 2, 2, -2, 0>>,
                   <<0, -1, 1, -1, 0, 2, 2, 1, -2, 0, -1, 0, -1, 0, 2, 2>>,
                   <<-2, 2, 2, 0, 0, 1, -1, -2, 1, 0, 2, 0, 1, -2, -2, 1>>,
                   <<2, 0, -2, 2, 0, 1, 0, -2, 0, 1, 2, 0, 1, 0, 0, 1>>,
                   <<2, 0, 2, 0, 2, 0, 2, 2, 1, -1, 1, 0, 1, 1, -2, -1>>,
                   <<-2, 2, 0, 0, -1, -2, 0, -2, 2, 0, 0, 0, -2, 1, 0, 0>>,
                   <<-2, -2, 0, -2, -2, 1, 0, 1, -1, 1, 0, 0, 1, 1, 0, 0>>,
                   <<0, 0, 0, 0, 0, 0, 2, 0, 0, 0, 1, 2, -1, 0, -1, 2>>,
                   <<0, 2, 1, -2, -2, 1, 0, 1, -2, 0, 0, -1, 0, -2, -1, -2>>,
                   <<-2, 2, 1, 0, -2, 2, -1, 1, -1, 0, -2, -2, -1, 0, 1, 1>>,
                   <<0, 0, 0, 0, 0, 2, 2, -1, 0, 0, 0, -2, 0, -1, 1, -1>>,
                   <<-1, -1, 2, -2, -1, 1, 0, 2, 0, -1, 2, 2, 1, -2, 2, -1>>,
                   <<2, 2, -1, -1, -1, -2, 0, 1, -1, -1, 1, -2, 1, 2, -2, -1>>,
                   <<2, 2, 0, 1, -1, -2, 1, 0, -1, -2, 2, 0, 0, -2, 1, -2>> >>

MCLevel4 == <<-254, -192, -150, -117, -88, -61, -36, -12, 12, 36, 61, 88, 117, 150, 192, 254>>

\* Denser near 0, as Lloyd-Max levels are: some share a cell of the int8 grid.
Levels == Tabled([c \in 1 .. 256 |->
             LET t == 2 * c - 257
                 a == (39 * Abs(t) + 20) \div 40 + (Abs(t) * Abs(t) * Abs(t)) \div 125616
             IN  IF t > 0 THEN a ELSE -a])
MCLevel8 == Levels

MCModes == << [build |-> "avx512", bits |-> 4, qjl |-> FALSE],
              [build |-> "neon", bits |-> 4, qjl |-> FALSE],
              [build |-> "avx512", bits |-> 4, qjl |-> TRUE],
              [build |-> "avx512", bits |-> 8, qjl |-> FALSE],
              [build |-> "neon", bits |-> 8, qjl |-> FALSE] >>

MCMaxNodes == <<6, 4, 3, 3, 3>>

ASSUME Apart == CodesApart
=============================================================================
