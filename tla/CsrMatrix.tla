-------------------------------- MODULE CsrMatrix --------------------------------
(******************************************************************************)
(* The CSR matrices that bsp_convert_matrix makes of matrices in row order,   *)
(* and what they denote: for the programs of examples/ and for                *)
(* binsparse_from_ssmc, for which the conversion is one step.                 *)
(******************************************************************************)
EXTENDS IndexTypes

MaxDim(m) == Larger(m.nrows, m.ncols)

BeginAfter(m, r) ==                                         \* mutant
    CHOOSE k \in 0 .. m.nnz :
        /\ k = m.nnz \/ m.indices_0.data[k] > r
        /\ \A l \in 0 .. k - 1 : m.indices_0.data[l] <= r
\* Row r begins at the first entry of a row that is not before it.
Begin(m, r) ==
    CHOOSE k \in 0 .. m.nnz :
        /\ k = m.nnz \/ m.indices_0.data[k] >= r
        /\ \A l \in 0 .. k - 1 : m.indices_0.data[l] < r

\* COOR to CSR.  The type of the pointers has room for the dimensions and the number
\* of values, which of an iso matrix is 1.
CsrOf(m) ==
    LET t == Pick(Larger(MaxDim(m), Size(m.values.data)))
    IN  [m EXCEPT !.format = "CSR",
                  !.indices_0 = Absent,
                  !.indices_1 = Converted(@, t),
                  !.pointers_to_1 =
                     Indexes(t, [r \in 0 .. m.nrows |-> Stored(t, Begin(m, r))])]

\* The row of entry k of a CSR matrix; none if the pointers do not reach it.
RowOf(m, k) ==
    LET p == m.pointers_to_1.data
        rows == {r \in 0 .. m.nrows - 1 : p[r] <= k /\ k < p[r + 1]}
    IN  IF rows = {} THEN Junk ELSE CHOOSE r \in rows : \A q \in rows : q <= r

================================================================================
