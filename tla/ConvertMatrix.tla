----------------------------- MODULE ConvertMatrix -----------------------------
(******************************************************************************)
(* bsp_convert_matrix (include/binsparse/convert_matrix.h): COOR <-> CSR/CSC, *)
(* and CSR <-> CSC through an intermediate COOR matrix.  Every allocation may *)
(* fail, every loop is a step per iteration.                                  *)
(*                                                                            *)
(* A stored value is abstracted to its identity.                              *)
(******************************************************************************)
EXTENDS IndexTypes

CONSTANTS
    Matrices,   \* the matrices programs convert
    Targets,    \* the formats they ask for
    MayFail     \* the allocator may return NULL

ASSUME TargetsAssumption == Targets \subseteq {"COOR", "CSR", "CSC"}
ASSUME MayFailAssumption == MayFail \in BOOLEAN

\* bsp_matrix_t, of a format that can be converted
IsMatrix(m) ==
    /\ m = [format |-> m.format, nrows |-> m.nrows, ncols |-> m.ncols, nnz |-> m.nnz,
            is_iso |-> m.is_iso, values |-> m.values, indices_0 |-> m.indices_0,
            indices_1 |-> m.indices_1, pointers_to_1 |-> m.pointers_to_1]
    /\ m.format \in {"COOR", "CSR", "CSC"}
    /\ m.nrows \in Nat /\ m.ncols \in Nat /\ m.nnz \in Nat
    /\ m.is_iso \in BOOLEAN

ASSUME MatricesAssumption == \A m \in Matrices : IsMatrix(m)

VARIABLES
    origin,    \* the caller's matrix
    target,    \* the format asked for
    matrix,    \* the matrix the conversion under way reads
    result,    \* the matrix it builds
    indices,   \* the permutation it sorts
    stage,     \* the next step, named for what it allocates or does
    r, c,      \* its loop counters
    live,      \* allocated arrays, <<owner, array>>
    outcome    \* "running", "ok", "failed": a default matrix, "aborted"

vars == <<origin, target, matrix, result, indices, stage, r, c, live, outcome>>

--------------------------------------------------------------------------------
(* Arrays of another type. *)

\* The element that bsp_array_awrite reads from a if its other array has type
\* t: element k of the same bytes taken for t's, or what lies behind them.
Element(a, t, k) ==
    CASE t = a.type -> a.data[k]
      [] t = "wide" /\ a.type = "narrow" ->
            IF 2 * k + 1 \in DOMAIN a.data
            THEN a.data[2 * k] + Base * a.data[2 * k + 1]
            ELSE Junk
      [] t = "narrow" /\ a.type = "wide" ->
            IF k % 2 = 0 THEN a.data[k \div 2] % Base ELSE a.data[k \div 2] \div Base

--------------------------------------------------------------------------------
(* The conversion under way. *)

To == IF matrix.format = "COOR" THEN target ELSE "COOR"

Owner == IF To = target THEN "result" ELSE "intermediate"

\* The compressed format among the two, its pointers' dimension, and the COOR
\* arrays of that dimension and of the other one.
Compressed == IF To = "COOR" THEN matrix.format ELSE To
MajorDim == IF Compressed = "CSR" THEN matrix.nrows ELSE matrix.ncols
Major == IF Compressed = "CSR" THEN "indices_0" ELSE "indices_1"
Minor == IF Compressed = "CSR" THEN "indices_1" ELSE "indices_0"

MaxDim == Larger(matrix.nrows, matrix.ncols)

PointerMax == MaxDim                                        \* mutant
MaxValue == Larger(MaxDim, Size(matrix.values))

IndexType == Pick(IF To = "COOR" THEN MaxDim ELSE MaxValue)

\* The default matrix with what it inherits from m.
Blank(m, format) ==
    [m EXCEPT !.format = format, !.values = Absent.data, !.indices_0 = Absent,
              !.indices_1 = Absent, !.pointers_to_1 = Absent]

\* The stages of the conversions, and what follows each.
First(to) == IF to = "CSC" THEN "indices" ELSE "values"

AfterExpand == IF matrix.format = "CSR" THEN "return" ELSE "indices"
AfterMinor == IF To = "COOR" THEN "major" ELSE "pointers"
AfterSort == IF To = "COOR" THEN "rowind" ELSE "values"
AfterColind == IF matrix.is_iso THEN "permute" ELSE "sorted_values"

\* How many elements each allocation asks for.
Elements(a) ==
    CASE a \in {"values", "sorted_values"} -> Size(matrix.values)
      [] a = "pointers" -> MajorDim + 1
      [] OTHER -> matrix.nnz

\* What the error branch after each failed allocation destroys or frees.
CleanupToCOOR ==
    [values  |-> {},
     minor   |-> {"values"},
     major   |-> {"values", "minor"},
     indices |-> {"values", "minor", "major"},
     rowind  |-> {"indices", "values", "minor", "major"},
     colind  |-> {"rowind", "indices", "values", "minor", "major"},
     sorted_values |-> {"rowind", "colind", "indices", "values", "minor", "major"}]
CleanupToCSR ==
    [values |-> {}, minor |-> {"values"}, pointers |-> {"values", "minor"}]
CleanupToCSC ==
    [indices |-> {}, values |-> {"indices"}, minor |-> {"values", "indices"},
     pointers |-> {"values", "minor", "indices"}]

CleanupKeepingIndices(a) ==                                 \* mutant
    (CASE To = "COOR" -> CleanupToCOOR[a]
       [] To = "CSR" -> CleanupToCSR[a]
       [] To = "CSC" -> CleanupToCSC[a]) \ {"indices"}
Cleanup(a) ==
    CASE To = "COOR" -> CleanupToCOOR[a]
      [] To = "CSR" -> CleanupToCSR[a]
      [] To = "CSC" -> CleanupToCSC[a]

\* Allocating n elements: an empty array is NULL and owns nothing.
Obtain(a) == live' = IF Elements(a) = 0 THEN live ELSE live \cup {<<Owner, a>>}

\* The arrays of matrix m.
Arrays(owner, m) ==
    {owner} \X
        ((IF Size(m.values) = 0 THEN {} ELSE {"values"}) \cup
         (IF m.nnz = 0 THEN {} ELSE {"minor"}) \cup
         (IF m.format # "COOR" THEN {"pointers"}
          ELSE IF m.nnz = 0 THEN {} ELSE {"major"}))

--------------------------------------------------------------------------------
Init ==
    /\ origin \in Matrices
    /\ target \in Targets \ {origin.format}
    /\ matrix = origin
    /\ result = Blank(matrix, To)
    /\ indices = Absent.data
    /\ stage = First(To)
    /\ r = 0
    /\ c = 0
    /\ live = Arrays("origin", origin)
    /\ outcome = "running"

\* Without what belongs to the intermediate matrix, which is destroyed last.
Final(heap) == {x \in heap : x[1] # "intermediate"}

\* An allocation returns NULL: clean up and return a default matrix.  Its format
\* is not set, and without values it cannot be converted: a conversion that was
\* to use it runs into an assertion, at the latest bsp_type_size's.
AllocationFails ==
    /\ MayFail
    /\ stage \in {"values", "minor", "major", "indices", "rowind", "colind",
                  "sorted_values", "pointers"}
    /\ stage = "indices" \/ Elements(stage) > 0
    /\ live' = Final(live \ ({Owner} \X Cleanup(stage)))
    /\ outcome' = IF Owner = "result" THEN "failed" ELSE "aborted"
    /\ stage' = "done"
    /\ UNCHANGED <<origin, target, matrix, result, indices, r, c>>

\* The values are copied; for CSC in the sorted order.
CopyValues ==
    /\ stage = "values"
    /\ Obtain("values")
    /\ result' = [result EXCEPT !.values =
                    IF To = "CSC" /\ ~matrix.is_iso
                    THEN [k \in DOMAIN matrix.values |-> matrix.values[indices[k]]]
                    ELSE matrix.values]
    /\ stage' = "minor"
    /\ UNCHANGED <<origin, target, matrix, indices, r, c, outcome>>

\* The indices of the dimension that is not compressed: copied or converted to
\* the index type; for CSC moved by bsp_array_awrite in the sorted order.
CopyMinor ==
    /\ stage = "minor"
    /\ Obtain("minor")
    /\ result' =
          CASE To = "COOR" ->
                 [result EXCEPT ![Minor] = Converted(matrix.indices_1, IndexType)]
            [] To = "CSR" ->
                 [result EXCEPT !.indices_1 = Converted(matrix.indices_1, IndexType)]
            [] To = "CSC" ->
                 [result EXCEPT !.indices_1 = Indexes(IndexType,
                    [k \in 0 .. matrix.nnz - 1 |->
                       Element(matrix.indices_0, IndexType, indices[k])])]
    /\ stage' = AfterMinor
    /\ UNCHANGED <<origin, target, matrix, indices, r, c, outcome>>

AllocateMajor ==
    /\ stage = "major"
    /\ Obtain("major")
    /\ result' = [result EXCEPT ![Major] = Uninitialised(IndexType, matrix.nnz)]
    /\ stage' = "expand"
    /\ r' = 0
    /\ UNCHANGED <<origin, target, matrix, indices, c, outcome>>

\* One iteration of the loop that expands the pointers: row or column r.
ExpandPointers ==
    /\ stage = "expand"
    /\ r < MajorDim
    /\ result' = [result EXCEPT ![Major].data =
                    [k \in DOMAIN @ |->
                       IF /\ matrix.pointers_to_1.data[r] <= k
                          /\ k < matrix.pointers_to_1.data[r + 1]
                       THEN Stored(IndexType, r)
                       ELSE @[k]]]
    /\ r' = r + 1
    /\ UNCHANGED <<origin, target, matrix, indices, stage, c, live, outcome>>

EndExpand ==
    /\ stage = "expand"
    /\ r = MajorDim
    /\ stage' = AfterExpand
    /\ UNCHANGED <<origin, target, matrix, result, indices, r, c, live, outcome>>

\* malloc of the permutation; malloc(0) returns memory too.
AllocateIndices ==
    /\ stage = "indices"
    /\ live' = live \cup {<<Owner, "indices">>}
    /\ stage' = "sort"
    /\ UNCHANGED <<origin, target, matrix, result, indices, r, c, outcome>>

\* The matrix in coordinate form that the sort compares.
Coordinates == IF To = "COOR" THEN result ELSE matrix

\* bsp_coo_comparison_row_sort_operator_impl_ for COOR, ..._col_... for CSC.
RowBefore(k, l) ==
    LET i == Coordinates.indices_0.data
        j == Coordinates.indices_1.data
    IN  i[k] < i[l] \/ (i[k] = i[l] /\ j[k] <= j[l])
ColumnBefore(k, l) ==
    LET i == Coordinates.indices_0.data
        j == Coordinates.indices_1.data
    IN  j[k] < j[l] \/ (j[k] = j[l] /\ i[k] <= i[l])

SortedByRow(p) ==                                           \* mutant
    \A k, l \in DOMAIN p : k < l => RowBefore(p[k], p[l])
Sorted(p) ==
    \A k, l \in DOMAIN p : k < l =>
        IF To = "COOR" THEN RowBefore(p[k], p[l]) ELSE ColumnBefore(p[k], p[l])

Orders(n) ==
    {p \in [0 .. n - 1 -> 0 .. n - 1] : \A k, l \in 0 .. n - 1 : k # l => p[k] # p[l]}

\* qsort
Sort ==
    /\ stage = "sort"
    /\ indices' \in {p \in Orders(matrix.nnz) : Sorted(p)}
    /\ stage' = AfterSort
    /\ UNCHANGED <<origin, target, matrix, result, r, c, live, outcome>>

\* rowind, colind and values start as copies of the result's arrays.
AllocateSorted ==
    /\ \/ stage = "rowind" /\ stage' = "colind"
       \/ stage = "colind" /\ stage' = AfterColind
       \/ stage = "sorted_values" /\ stage' = "permute"
    /\ Obtain(stage)
    /\ UNCHANGED <<origin, target, matrix, result, indices, r, c, outcome>>

Permuted(f) == [k \in DOMAIN f |-> f[indices[k]]]

\* What Permute frees: a copy stands for the array whose place it takes.
ReplacedAlways == {"indices", "rowind", "colind", "sorted_values", "values"} \* mutant
Replaced == {"indices", "rowind", "colind", "sorted_values"}

\* The sorted copies are filled and take the place of the result's arrays,
\* which are destroyed, as is the permutation.
Permute ==
    /\ stage = "permute"
    /\ result' = [result EXCEPT
                    !.indices_0.data = Permuted(@),
                    !.indices_1.data = Permuted(@),
                    !.values = IF matrix.is_iso THEN @ ELSE Permuted(@)]
    /\ live' = live \ ({Owner} \X Replaced)
    /\ stage' = "return"
    /\ UNCHANGED <<origin, target, matrix, indices, r, c, outcome>>

AllocatePointers ==
    /\ stage = "pointers"
    /\ Obtain("pointers")
    /\ result' = [result EXCEPT !.pointers_to_1 =
                    Indexes(IndexType, [Uninitialised(IndexType, MajorDim + 1).data
                                          EXCEPT ![0] = 0])]
    /\ stage' = "build"
    /\ r' = 0
    /\ c' = 0
    /\ UNCHANGED <<origin, target, matrix, indices, outcome>>

\* The row (for CSC: column) of the c-th entry in the order of the result.
MajorOfEntry ==
    IF To = "CSR" THEN matrix.indices_0.data[c] ELSE matrix.indices_1.data[indices[c]]

SetPointer(v) ==
    result' = [result EXCEPT !.pointers_to_1.data[r + 1] = Stored(IndexType, v)]

\* while (r < j): the rows up to the entry's begin at the entry.
AdvanceRow ==
    /\ stage = "build"
    /\ c < matrix.nnz
    /\ r < MajorOfEntry
    /\ r + 1 <= MajorDim       \* assert
    /\ SetPointer(c)
    /\ r' = r + 1
    /\ UNCHANGED <<origin, target, matrix, indices, stage, c, live, outcome>>

SkipEarly == c < matrix.nnz                                 \* mutant
RowReached == c < matrix.nnz /\ MajorOfEntry <= r

\* The entry is in row r: on to the next one.
NextEntry ==
    /\ stage = "build"
    /\ RowReached
    /\ c' = c + 1
    /\ UNCHANGED <<origin, target, matrix, result, indices, stage, r, live, outcome>>

RowsLeftInclusive == r <= MajorDim                          \* mutant
RowsLeft == r < MajorDim

\* The rows after the last entry are empty.
FinishRows ==
    /\ stage = "build"
    /\ c = matrix.nnz
    /\ RowsLeft
    /\ SetPointer(matrix.nnz)
    /\ r' = r + 1
    /\ UNCHANGED <<origin, target, matrix, indices, stage, c, live, outcome>>

\* CSC frees its permutation.
EndBuild ==
    /\ stage = "build"
    /\ c = matrix.nnz
    /\ r = MajorDim
    /\ live' = live \ {<<Owner, "indices">>}
    /\ stage' = "return"
    /\ UNCHANGED <<origin, target, matrix, result, indices, r, c, outcome>>

\* The inner of two conversions returns: the outer one starts from its result.
ReturnIntermediate ==
    /\ stage = "return"
    /\ Owner = "intermediate"
    /\ matrix' = result
    /\ result' = Blank(result, target)
    /\ stage' = First(target)
    /\ r' = 0
    /\ c' = 0
    /\ indices' = Absent.data
    /\ UNCHANGED <<origin, target, live, outcome>>

\* The conversion returns; an intermediate matrix is destroyed.
Return ==
    /\ stage = "return"
    /\ Owner = "result"
    /\ live' = Final(live)
    /\ outcome' = "ok"
    /\ stage' = "done"
    /\ UNCHANGED <<origin, target, matrix, result, indices, r, c>>

\* The call is over; any other state without a successor is a failed assertion.
Over == stage = "done" /\ UNCHANGED vars

Next ==
    \/ AllocationFails
    \/ CopyValues \/ CopyMinor \/ AllocateMajor \/ ExpandPointers \/ EndExpand
    \/ AllocateIndices \/ Sort \/ AllocateSorted \/ Permute
    \/ AllocatePointers \/ AdvanceRow \/ NextEntry \/ FinishRows \/ EndBuild
    \/ ReturnIntermediate \/ Return \/ Over

Spec == Init /\ [][Next]_vars

--------------------------------------------------------------------------------
(* Properties. *)

\* The value of the k-th entry.
Value(m, k) == m.values[IF m.is_iso THEN 0 ELSE k]

Begins(m, q) == m.pointers_to_1.data[q]

\* What a matrix denotes: its entries, as row, column and value.
Entries(m) ==
    LET i0 == m.indices_0.data
        i1 == m.indices_1.data
        Slots(q) == Begins(m, q) .. Begins(m, q + 1) - 1
    IN  CASE m.format = "COOR" ->
               {<<i0[k], i1[k], Value(m, k)>> : k \in DOMAIN i0}
          [] m.format = "CSR" ->
               UNION {{<<q, i1[k], Value(m, k)>> : k \in Slots(q) \cap DOMAIN i1} :
                      q \in 0 .. m.nrows - 1}
          [] m.format = "CSC" ->
               UNION {{<<i1[k], q, Value(m, k)>> : k \in Slots(q) \cap DOMAIN i1} :
                      q \in 0 .. m.ncols - 1}

\* The pointers of m delimit its entries.
PointersSpan(m, n) ==
    /\ Begins(m, 0) = 0
    /\ Begins(m, n) = m.nnz
    /\ \A q \in 0 .. n - 1 : Begins(m, q) <= Begins(m, q + 1)

\* The order the formats prescribe.
InOrder(m) ==
    LET i0 == m.indices_0.data
        i1 == m.indices_1.data
    IN  IF m.format = "COOR"
        THEN \A k, l \in DOMAIN i0 :
                k < l => i0[k] < i0[l] \/ (i0[k] = i0[l] /\ i1[k] < i1[l])
        ELSE LET n == IF m.format = "CSR" THEN m.nrows ELSE m.ncols
             IN  /\ PointersSpan(m, n)
                 /\ \A q \in 0 .. n - 1 :
                       \A k, l \in Begins(m, q) .. Begins(m, q + 1) - 1 :
                          k < l => i1[k] < i1[l]

\* A matrix as its format prescribes it: indices and pointers within its shape,
\* one value per entry or one for all, every entry once; and a shape that the
\* widest index type can count.
WellFormed(m) ==
    LET major == IF m.format = "CSC" THEN m.ncols ELSE m.nrows
        minor == IF m.format = "CSC" THEN m.nrows ELSE m.ncols
        entries == 0 .. m.nnz - 1
    IN  /\ Larger(m.nrows, m.ncols) <= Cap("wide")
        /\ DOMAIN m.values = IF m.is_iso THEN {0} ELSE entries
        /\ m.indices_1.data \in [entries -> 0 .. minor - 1]
        /\ IF m.format = "COOR"
           THEN m.indices_0.data \in [entries -> 0 .. major - 1]
           ELSE /\ m.pointers_to_1.data \in [0 .. major -> 0 .. m.nnz]
                /\ \A q, s \in 0 .. major : q <= s => Begins(m, q) <= Begins(m, s)
        /\ InOrder(m)

ASSUME WellFormedAssumption == \A m \in Matrices : WellFormed(m)

\* The two cases in which the code does not do what its comments say: the
\* pointers of an iso matrix may be larger than its index type holds, and
\* bsp_array_awrite converts nothing between index types.
PointersFit == target = "COOR" \/ origin.nnz <= Cap(Pick(Larger(MaxDim, Size(origin.values))))

SameIndexType ==
    target = "CSC" =>
        LET coordinates == IF origin.format = "COOR" THEN origin.indices_0.type
                                                     ELSE Pick(MaxDim)
        IN  coordinates = Pick(Larger(MaxDim, Size(origin.values)))

\* The types of the variables; no loop counter leaves its array.
TypeOK ==
    /\ target \in {"COOR", "CSR", "CSC"} \ {origin.format}
    /\ matrix.format # target \/ stage = "done"
    /\ stage \in {"values", "minor", "major", "expand", "indices", "sort", "rowind",
                  "colind", "sorted_values", "permute", "pointers", "build",
                  "return", "done"}
    /\ r \in 0 .. MajorDim
    /\ c \in 0 .. matrix.nnz
    /\ outcome \in {"running", "ok", "failed", "aborted"}
    /\ outcome = "running" <=> stage # "done"

\* A conversion that returns has the entries of its source, each with its own
\* value, through an intermediate matrix or not, in the order of its format.
ConversionFaithful ==
    outcome = "ok" => Entries(result) = Entries(origin) /\ InOrder(result)

\* It does while the index types hold what is put into them.
FaithfulWhereTypesFit == PointersFit /\ SameIndexType => ConversionFaithful

\* A conversion that returns, whichever of its allocations failed, leaves the
\* caller with the source and, if it succeeded, the result: nothing else stays
\* allocated and nothing of theirs is freed.
NothingLeaks ==
    outcome \in {"ok", "failed"} =>
        live = Arrays("origin", origin) \cup
                 (IF outcome = "ok" THEN Arrays("result", result) ELSE {})

\* What a step reads is allocated: the source throughout, the intermediate
\* matrix until it has been converted.
SourcesLive ==
    outcome = "running" =>
        /\ Arrays("origin", origin) \subseteq live
        /\ matrix # origin => Arrays("intermediate", matrix) \subseteq live

================================================================================
