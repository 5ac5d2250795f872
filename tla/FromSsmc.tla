-------------------------------- MODULE FromSsmc --------------------------------
(******************************************************************************)
(* binsparse_from_ssmc: the same A and Zeros converted in memory, by merging  *)
(* the columns into a CSC matrix and converting that, and handed to MATLAB as *)
(* a struct.  ConvertMatrix shows what the conversion does; here it is one    *)
(* step.  Dense matrices become DVEC, DMAT or DMATC.                          *)
(******************************************************************************)
EXTENDS Ssmc, CsrMatrix

VARIABLES
    workspace,   \* the struct in MATLAB's workspace
    source,      \* the struct the minimiser made it from, if it did
    target,      \* the format argument
    csc,         \* the matrix under construction
    j, a_ptr, z_ptr, out_ptr   \* the merge's counters

ssmcVars == <<workspace, source, target, csc, j, a_ptr, z_ptr, out_ptr>>
mergeVars == <<j, a_ptr, z_ptr, out_ptr>>

Ssmc(step) == At("from_ssmc", step)

NoStruct == [format |-> "none"]

Fields == {"values", "indices_0", "indices_1", "pointers_to_1"}

\* get_mxClassID: a bint8 array becomes uint8, one without a type double.
ClassOf(t) ==
    CASE t = "bint8" -> "narrow"
      [] t = "invalid" -> "float64"
      [] OTHER -> t

\* bsp_matrix_to_matlab_struct, as the caller sees it
MatlabStruct(m) ==
    [f \in DOMAIN m |->
        IF f \in Fields
        THEN [type |-> ClassOf(m[f].type), data |-> m[f].data]
        ELSE m[f]]

SsmcIdle ==
    /\ workspace = NoStruct
    /\ source = NoStruct
    /\ target = "none"
    /\ csc = NoStruct
    /\ j = 0
    /\ a_ptr = 0
    /\ z_ptr = 0
    /\ out_ptr = 0

SsmcForgotten ==
    /\ target' = "none"
    /\ csc' = NoStruct
    /\ j' = 0
    /\ a_ptr' = 0
    /\ z_ptr' = 0
    /\ out_ptr' = 0

SsmcRaise(id) == Raise(id) /\ SsmcForgotten /\ UNCHANGED <<file, handles, workspace, source>>

--------------------------------------------------------------------------------
\* The formats that parse_format accepts, COO when there is none.
SsmcCall(format) ==
    /\ Enter("from_ssmc", "arguments")
    /\ target' = format
    /\ UNCHANGED <<file, handles, workspace, source, csc, mergeVars>>

IsVector(m) == m.nrows = 1 \/ m.ncols = 1

DenseFormats(m) == IF IsVector(m) THEN {"DVEC"} ELSE {"DMAT", "DMATC"}

\* build_dense_matrix: the elements in MATLAB's order, by column; a vector
\* becomes one column.
DenseMatrix ==
    [format |-> target,
     nrows |-> IF IsVector(A) THEN A.nrows * A.ncols ELSE A.nrows,
     ncols |-> IF IsVector(A) THEN 1 ELSE A.ncols,
     nnz |-> A.nrows * A.ncols, is_iso |-> FALSE,
     values |-> [type |-> A.class, data |-> A.values],
     indices_0 |-> Absent, indices_1 |-> Absent, pointers_to_1 |-> Absent]

SsmcDense ==
    /\ Ssmc("arguments")
    /\ ~A.is_sparse
    /\ target \in DenseFormats(A)
    /\ workspace' = MatlabStruct(DenseMatrix)
    /\ source' = NoStruct
    /\ Leave([function |-> "from_ssmc"])
    /\ SsmcForgotten
    /\ UNCHANGED <<file, handles>>

\* Zeros that are not sparse are no Zeros; an empty sparse matrix is looked at.
HasZeros == problem.has_zeros /\ problem.z.is_sparse

\* A dense matrix in another format, DMAT or DVEC for a sparse one, or Zeros
\* that do not fit.
SsmcRefuse ==
    /\ Ssmc("arguments")
    /\ \/ ~A.is_sparse /\ target \notin DenseFormats(A) /\ SsmcRaise("InvalidFormat")
       \/ A.is_sparse /\ target \in {"DMAT", "DVEC"} /\ SsmcRaise("InvalidFormat")
       \/ /\ A.is_sparse /\ target \notin {"DMAT", "DVEC"}
          /\ HasZeros /\ ZerosFault # "none"
          /\ SsmcRaise(ZerosFault)

\* The arrays of the CSC matrix, the iso value written and the column pointers
\* counted.
MergedPointers ==
    Indexes(Pick(Nnz(A) + Nnz(Z)),
            [c \in 0 .. A.ncols |-> Stored(Pick(Nnz(A) + Nnz(Z)), A.colptr[c] + Z.colptr[c])])

SsmcAllocate ==
    /\ Ssmc("arguments")
    /\ A.is_sparse /\ target \notin {"DMAT", "DVEC"}
    /\ HasZeros => ZerosFault = "none"
    /\ csc' = [format |-> "CSC", nrows |-> A.nrows, ncols |-> A.ncols,
               nnz |-> Nnz(A) + Nnz(Z), is_iso |-> IsIso,
               values |-> [type |-> IF A.is_complex THEN "complex64" ELSE "float64",
                           data |-> IF IsIso THEN [k \in {0} |-> IsoValueOfA]
                                    ELSE [k \in 0 .. Nnz(A) + Nnz(Z) - 1 |-> Unset]],
               indices_0 |-> Absent,
               indices_1 |-> Uninitialised(ExtentType(A.nrows), Nnz(A) + Nnz(Z)),
               pointers_to_1 |-> MergedPointers]
    /\ Proceed(IF HasZeros THEN "merge" ELSE "copy")
    /\ UNCHANGED <<file, handles, workspace, source, target, mergeVars>>

\* build_csc_from_a's loop: without Zeros the arrays are A's.
SsmcCopy ==
    /\ Ssmc("copy")
    /\ csc' = [csc EXCEPT
                 !.indices_1 = Converted(Indexes("wide", A.rowind), csc.indices_1.type),
                 !.values.data = IF csc.is_iso THEN @ ELSE A.values]
    /\ Proceed("convert")
    /\ UNCHANGED <<file, handles, workspace, source, target, mergeVars>>

\* One iteration of build_csc_merged's loop.
Merge(r, v) ==
    /\ csc' = [csc EXCEPT
                 !.indices_1.data[out_ptr] = Stored(csc.indices_1.type, r),
                 !.values.data = IF csc.is_iso THEN @ ELSE [@ EXCEPT ![out_ptr] = v]]
    /\ out_ptr' = out_ptr + 1

MergeA ==
    /\ Ssmc("merge") /\ j < A.ncols
    /\ Precedes(A, a_ptr, Z, z_ptr, j)
    /\ Merge(A.rowind[a_ptr], A.values[a_ptr])
    /\ a_ptr' = a_ptr + 1
    /\ UNCHANGED <<mexVars, workspace, source, target, j, z_ptr>>

MergeZ ==
    /\ Ssmc("merge") /\ j < A.ncols
    /\ Precedes(Z, z_ptr, A, a_ptr, j)
    /\ Merge(Z.rowind[z_ptr], Zero)
    /\ z_ptr' = z_ptr + 1
    /\ UNCHANGED <<mexVars, workspace, source, target, j, a_ptr>>

MergeDuplicate ==
    /\ Ssmc("merge") /\ j < A.ncols
    /\ Duplicates(a_ptr, z_ptr, j)
    /\ SsmcRaise("DuplicateIndex")

MergeColumn ==
    /\ Ssmc("merge") /\ j < A.ncols
    /\ ~Left(A, a_ptr, j) /\ ~Left(Z, z_ptr, j)
    /\ out_ptr = A.colptr[j + 1] + Z.colptr[j + 1]    \* or InternalError
    /\ j' = j + 1
    /\ UNCHANGED <<mexVars, workspace, source, target, csc, a_ptr, z_ptr, out_ptr>>

MergeEnd ==
    /\ Ssmc("merge") /\ j = A.ncols
    /\ Proceed("convert")
    /\ UNCHANGED <<file, handles, workspace, source, target, csc, mergeVars>>

--------------------------------------------------------------------------------
\* The column of entry k of a CSC matrix.
CscColumn(m, k) ==
    CHOOSE c \in 0 .. m.ncols - 1 :
        m.pointers_to_1.data[c] <= k /\ k < m.pointers_to_1.data[c + 1]

\* bsp_convert_matrix to COO: the entries by row, with index types for the
\* larger dimension.
CooOf(m) ==
    LET t == Pick(Larger(m.nrows, m.ncols))
        i == m.indices_1.data
        Before(k, l) == i[k] < i[l] \/ (i[k] = i[l] /\ k < l)
        order == [n \in DOMAIN i |->
                    CHOOSE k \in DOMAIN i : Cardinality({l \in DOMAIN i : Before(l, k)}) = n]
    IN  [m EXCEPT !.format = "COO",
                  !.indices_0 = Indexes(t, [n \in DOMAIN i |-> i[order[n]]]),
                  !.indices_1 = Indexes(t, [n \in DOMAIN i |-> CscColumn(m, order[n])]),
                  !.pointers_to_1 = Absent,
                  !.values.data = IF m.is_iso THEN @ ELSE [n \in DOMAIN i |-> @[order[n]]]]

\* bsp_matrix_to_matlab_struct: the arrays of the mxMalloc allocator become the
\* struct's fields.
SsmcReturn ==
    /\ Ssmc("convert")
    /\ target \in {"CSC", "COO", "CSR"}
    /\ workspace' = MatlabStruct(CASE target = "CSC" -> csc
                                   [] target = "COO" -> CooOf(csc)
                                   [] target = "CSR" -> CsrOf(CooOf(csc)))
    /\ source' = NoStruct
    /\ Leave([function |-> "from_ssmc"])
    /\ SsmcForgotten
    /\ UNCHANGED <<file, handles>>

\* bsp_convert_matrix has no conversion to DMATC, which its caller did not
\* refuse: an assertion ends the session.
SsmcAborts ==
    /\ Ssmc("convert")
    /\ target = "DMATC"
    /\ Proceed("aborted")
    /\ UNCHANGED <<file, handles, ssmcVars>>

SsmcFormats == {"COO", "CSC", "CSR", "DMAT", "DMATC", "DVEC"}

SsmcNext ==
    \/ \E format \in SsmcFormats : SsmcCall(format)
    \/ SsmcDense \/ SsmcRefuse \/ SsmcAllocate \/ SsmcCopy
    \/ MergeA \/ MergeZ \/ MergeDuplicate \/ MergeColumn \/ MergeEnd
    \/ SsmcReturn \/ SsmcAborts

--------------------------------------------------------------------------------
(* Properties. *)

\* What a sparse struct denotes.
StructEntries(m) ==
    LET Index(k) == CASE m.format = "COO" -> <<m.indices_0.data[k], m.indices_1.data[k]>>
                      [] m.format = "CSC" -> <<m.indices_1.data[k], CscColumn(m, k)>>
                      [] m.format = "CSR" -> <<RowOf(m, k), m.indices_1.data[k]>>
    IN  {<<Index(k)[1], Index(k)[2], m.values.data[IF m.is_iso THEN 0 ELSE k]>> :
            k \in DOMAIN m.indices_1.data}

\* The pointers of an iso matrix have room for its dimensions only.
PointersWrap == IsIso /\ Nnz(A) + Nnz(Z) > Cap(Pick(Larger(A.nrows, A.ncols)))

\* The struct has the entries of A and the explicit zeros, with Zeros merged in
\* or not, in each format, as it came from the conversion and however the
\* minimiser changed its types since; except that a CSR struct loses entries exactly
\* when its pointers wrap.
StructFaithful ==
    problem.struct = NoStruct /\ workspace.format \in {"COO", "CSC", "CSR"} =>
        /\ StructEntries(workspace) = ProblemEntries
              <=> ~(workspace.format = "CSR" /\ PointersWrap)
        /\ Size(workspace.indices_1.data) = workspace.nnz
        /\ workspace.format = "COO" =>
              RowOrdered(workspace.indices_0.data, workspace.indices_1.data)

================================================================================
