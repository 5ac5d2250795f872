---------------------------- MODULE MCConvertMatrix ----------------------------
(******************************************************************************)
(* Instances of ConvertMatrix for TLC: every sparsity pattern of some shapes, *)
(* in every format, with both index types and with and without iso values;    *)
(* and the CSC matrices binsparse_from_ssmc makes, whose row indices and      *)
(* column pointers have types of their own.                                   *)
(******************************************************************************)
EXTENDS ConvertMatrix, Sequences

CONSTANTS
    Shapes,     \* bound: <<nrows, ncols>>
    MinNnz,     \* bounds: the number of entries
    MaxNnz,
    Isos,       \* which is_iso occur
    Types,      \* which index types occur
    Formats     \* which formats the sources have

Before(x, y, format) ==
    LET d == IF format = "CSC" THEN 2 ELSE 1
    IN  x[d] < y[d] \/ (x[d] = y[d] /\ x[3 - d] < y[3 - d])

\* The positions in the order of a format.
Ordered(positions, format) ==
    [k \in 1 .. Cardinality(positions) |->
       CHOOSE x \in positions :
          Cardinality({y \in positions : Before(y, x, format)}) = k - 1]

\* Of a sequence of positions, the indices in dimension d, and the pointers of
\* dimension d of size n.
IndicesOf(s, d, t) == Indexes(t, [k \in 0 .. Len(s) - 1 |-> s[k + 1][d]])
PointersOf(s, d, n, t) ==
    Indexes(t, [q \in 0 .. n |-> Cardinality({k \in DOMAIN s : s[k][d] < q})])

\* The matrix of these positions; a value is the position it belongs to, an iso
\* matrix has one that belongs to none.
MatrixOf(shape, positions, format, t, iso) ==
    LET s == Ordered(positions, format)
    IN  [format |-> format, nrows |-> shape[1], ncols |-> shape[2], nnz |-> Len(s),
         is_iso |-> iso,
         values |-> IF iso THEN [k \in {0} |-> << >>]
                           ELSE [k \in 0 .. Len(s) - 1 |-> s[k + 1]],
         indices_0 |-> IF format = "COOR" THEN IndicesOf(s, 1, t) ELSE Absent,
         indices_1 |-> IndicesOf(s, IF format = "CSC" THEN 1 ELSE 2, t),
         pointers_to_1 |->
            CASE format = "COOR" -> Absent
              [] format = "CSR" -> PointersOf(s, 1, shape[1], t)
              [] format = "CSC" -> PointersOf(s, 2, shape[2], t)]

Positions(shape) == (0 .. shape[1] - 1) \X (0 .. shape[2] - 1)

\* A matrix's index type holds its dimensions and, if it has pointers, the
\* number of its entries.
Fits(shape, positions, format, t) ==
    /\ Larger(shape[1], shape[2]) <= Cap(t)
    /\ format # "COOR" => Cardinality(positions) <= Cap(t)

\* The CSC matrix that build_csc_from_a makes of a MATLAB matrix.
SsmcMatrix(shape, positions, iso) ==
    LET m == MatrixOf(shape, positions, "CSC", "wide", iso)
    IN  [m EXCEPT !.indices_1.type = Pick(IF shape[1] = 0 THEN 0 ELSE shape[1] - 1),
                  !.pointers_to_1.type = Pick(m.nnz)]

MCShapes == {<<2, 3>>, <<3, 2>>, <<5, 1>>, <<0, 2>>}
WideShape == {<<2, 3>>}

Patterns(shape) ==
    {q \in SUBSET Positions(shape) : Cardinality(q) \in MinNnz .. MaxNnz}

MCMatrices ==
    UNION {
        {MatrixOf(shape, positions, format, t, iso) :
            positions \in {q \in Patterns(shape) : Fits(shape, q, format, t)},
            iso \in Isos} :
        shape \in Shapes, t \in Types, format \in Formats}

SsmcMatrices ==
    UNION {{SsmcMatrix(shape, positions, iso) : positions \in Patterns(shape), iso \in Isos} :
           shape \in Shapes}

AllMatrices == MCMatrices \cup SsmcMatrices
================================================================================
