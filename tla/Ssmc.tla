---------------------------------- MODULE Ssmc ----------------------------------
(******************************************************************************)
(* The matrices of the SuiteSparse Matrix Collection: a MATLAB sparse matrix  *)
(* A (compressed by column, 0-based) and Zeros, whose pattern names the       *)
(* explicit zeros of A.  A record holds nrows, ncols, is_complex, colptr,     *)
(* rowind and values; problem.has_zeros says whether problem.z is passed as   *)
(* the argument Zeros at all.                                                 *)
(******************************************************************************)
EXTENDS MexCall

A == problem.a

Nnz(m) == m.colptr[m.ncols]

\* mxIsEmpty
IsEmpty(m) == m.nrows = 0 \/ m.ncols = 0

NoZeros ==
    [is_sparse |-> TRUE, class |-> "float64", is_complex |-> FALSE,
     nrows |-> A.nrows, ncols |-> A.ncols, colptr |-> [c \in 0 .. A.ncols |-> 0],
     rowind |-> [p \in {} |-> 0], values |-> [p \in {} |-> Zero]]

\* The Zeros that a converter works with.  Zeros that are not sparse are ignored by
\* one and refused by the other; an empty matrix has no entries for either.
Z == IF problem.has_zeros /\ problem.z.is_sparse /\ ~IsEmpty(problem.z)
     THEN problem.z ELSE NoZeros

\* A matrix as MATLAB keeps it: the rows of a column in order, the columns one
\* behind the other, no dimension beyond the wide type.  A dense one has a value
\* for every place and no entries.
IsMatlabMatrix(m) ==
    /\ m.nrows \in 0 .. Base * Base /\ m.ncols \in 0 .. Base * Base
    /\ m.colptr \in [0 .. m.ncols -> Nat]
    /\ m.colptr[0] = 0
    /\ \A c, d \in 0 .. m.ncols : c <= d => m.colptr[c] <= m.colptr[d]
    /\ m.rowind \in [0 .. Nnz(m) - 1 -> 0 .. m.nrows - 1]
    /\ \A c \in 0 .. m.ncols - 1 : \A p, q \in m.colptr[c] .. m.colptr[c + 1] - 1 :
          p < q => m.rowind[p] < m.rowind[q]
    /\ m.is_sparse => m.values \in [0 .. Nnz(m) - 1 -> Int \X Int]
    /\ ~m.is_sparse => m.values \in [0 .. m.nrows * m.ncols - 1 -> Int \X Int]

\* What both converters refuse of Zeros that they look at: complex ones and another
\* shape.
ZerosFault ==
    IF problem.z.is_complex THEN "InvalidZeros"
    ELSE IF A.nrows # problem.z.nrows \/ A.ncols # problem.z.ncols THEN "DimensionMismatch"
    ELSE "none"

\* index_type_for_extent
ExtentType(n) == Pick(IF n = 0 THEN 0 ELSE n - 1)

\* analyze_values, and merged_values_are_iso with sparse_values_are_iso
IsoValueOfA == IF Nnz(A) > 0 THEN A.values[0] ELSE Zero

IsIsoForgettingZeros == Nnz(A) + Nnz(Z) > 0 /\ AllEqual(A.values)  \* mutant
IsIso ==
    /\ Nnz(A) + Nnz(Z) > 0
    /\ AllEqual(A.values)
    /\ Nnz(Z) > 0 => Equal(IsoValueOfA, Zero)

\* The next of two entries of one column, at p of A and at q of Zeros: the one
\* in the smaller row.  In equal rows it is neither.
Left(m, p, c) == p < m.colptr[c + 1]
PrecedesOrTies(m, p, n, q, c) ==                            \* mutant
    Left(m, p, c) /\ (Left(n, q, c) => m.rowind[p] <= n.rowind[q])
Precedes(m, p, n, q, c) ==
    Left(m, p, c) /\ (Left(n, q, c) => m.rowind[p] < n.rowind[q])

Duplicates(p, q, c) ==
    Left(A, p, c) /\ Left(Z, q, c) /\ A.rowind[p] = Z.rowind[q]

--------------------------------------------------------------------------------
(* What the problem denotes. *)

ColumnOf(m, p) ==
    CHOOSE c \in 0 .. m.ncols - 1 : m.colptr[c] <= p /\ p < m.colptr[c + 1]

PositionsOf(m) == {<<m.rowind[p], ColumnOf(m, p)>> : p \in DOMAIN m.rowind}

\* The entries of A and the explicit zeros: row, column, value.
ProblemEntries ==
    {<<A.rowind[p], ColumnOf(A, p), A.values[p]>> : p \in DOMAIN A.rowind} \cup
    {<<x[1], x[2], Zero>> : x \in PositionsOf(Z)}

\* A matrix in coordinate form: its entries, and that they are in row order.
CooEntries(i, j, values, is_iso) ==
    {<<i[k], j[k], values[IF is_iso THEN 0 ELSE k]>> : k \in DOMAIN i}

RowOrdered(i, j) ==
    \A k, l \in DOMAIN i : k < l => i[k] < i[l] \/ (i[k] = i[l] /\ j[k] < j[l])

================================================================================
