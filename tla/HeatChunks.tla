----------------------------- MODULE HeatChunks -----------------------------
(***************************************************************************)
(* How an ordered field is cut into heats that fit the track               *)
(* (backend/domain/heat_chunks.py): nobody races alone, no heat holds more *)
(* cars than there are lanes, and whom that leaves over, at the end of the *)
(* order, sits this set of heats out.                                      *)
(***************************************************************************)
EXTENDS Integers, Sequences

\* The fewest heats of w cars that hold m cars, and whether each of them can
\* have two.
NumHeats(m, w) == (m + w - 1) \div w
Splits(m, w) == NumHeats(m, w) <= m \div 2

\* The cars that sit out: the fewest that leave a field which can be split.
Byes(n, w) == CHOOSE b \in 0..n-2 : Splits(n - b, w) /\ \A c \in 0..b-1 : ~Splits(n - c, w)

\* The i-th of k heats of m cars, which differ by one car at most: its size, and
\* the cars in the heats before it.
Size(m, k, i) == m \div k + (IF i <= m % k THEN 1 ELSE 0)
Before(m, k, i) == (i - 1) * (m \div k) + (IF i - 1 < m % k THEN i - 1 ELSE m % k)

ChunkHeats(ordered, w) ==
    LET n == Len(ordered)
        m == n - Byes(n, w)
        k == NumHeats(m, w)
    IN  IF n < 2 \/ w < 1 THEN <<>>
        ELSE [i \in 1..k |-> [p \in 1..Size(m, k, i) |-> ordered[Before(m, k, i) + p]]]

=============================================================================
