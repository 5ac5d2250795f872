------------------------------ MODULE MatrixMarket ------------------------------
(******************************************************************************)
(* bsp_mmread and bsp_mmwrite (include/binsparse/matrix_market): a Matrix     *)
(* Market file as a coordinate or dense matrix, and a coordinate matrix as a  *)
(* file.                                                                      *)
(*                                                                            *)
(* A file is its header and the lines after it, <<row, column, value>>        *)
(* counted from 1; a line of a dense matrix has row and column 0.             *)
(******************************************************************************)
EXTENDS Programs

NoText == [valid |-> FALSE]

\* The file bsp_mmread is given.
Text == IF Head(todo) = "check_copy" THEN copy ELSE input.text

TypeOf == [real |-> "float64", integer |-> "int_wide", complex |-> "complex64",
           pattern |-> "bint8"]

\* No assertion on its header fails.
Readable(t) ==
    \/ t.format = "coordinate" /\ t.type \in DOMAIN TypeOf
    \/ t.format = "array" /\ t.type \in DOMAIN TypeOf \ {"pattern"}

Structures == {"general", "symmetric", "hermitian", "skew-symmetric"}

Mm(s) == At("mmread", s)

Returned(m) == matrix' = m /\ Return("SUCCESS") /\ UNCHANGED <<file, copy>>

Element(t, k) == t.lines[k + 1][3]

\* As many elements as the header announces.
Count(t, f) == IF f = "values" /\ t.type = "pattern" THEN 1 ELSE t.nnz

Fresh(t, f) ==
    IF f = "values"
    THEN [type |-> TypeOf[t.type],
          data |-> [k \in 0 .. Count(t, f) - 1 |->
                      IF t.type = "pattern" THEN <<1, 0>> ELSE Unset]]
    ELSE Uninitialised(Pick(Larger(t.nrows, t.ncols)), t.nnz)

--------------------------------------------------------------------------------
(* Reading. *)

\* The header is read three times, each time into memory of its own; bsp_mmread
\* returns a default matrix where bsp_mmread_explicit_* fail an assertion.
MmHeader ==
    /\ Mm("start")
    /\ Text.valid => Readable(Text)
    /\ IF Text.valid
       THEN /\ matrix' = [DefaultMatrix EXCEPT
                    !.nrows = Text.nrows, !.ncols = Text.ncols, !.nnz = Text.nnz,
                    !.is_iso = (Text.type = "pattern")]
            /\ live' = {"metadata"}
            /\ Go(IF Text.format = "array" THEN "values" ELSE "indices_0")
       ELSE Returned(DefaultMatrix) /\ UNCHANGED live
    /\ UNCHANGED faulted

MmHeaderFails ==
    /\ Mm("start")
    /\ \/ Text.valid /\ ~Readable(Text) /\ Dies("abort", FALSE)
       \/ MayFail /\ Text.valid /\ Dies("abort", TRUE)
       \/ MayFail /\ Returned(DefaultMatrix) /\ faulted' = TRUE /\ UNCHANGED live

MmOrder == <<"indices_0", "indices_1", "values", "open", "lines", "sort",
             "rowind", "colind", "sorted_values", "permute">>
After(s) == MmOrder[(CHOOSE k \in 1 .. 9 : MmOrder[k] = s) + 1]

MmAllocate(f) ==
    /\ Mm(f)
    /\ matrix' = [matrix EXCEPT ![f] = Fresh(Text, f)]
    /\ live' = live \cup (IF Count(Text, f) = 0 THEN {} ELSE {f})
    /\ Go(After(f))
    /\ UNCHANGED faulted

\* The arrays before it are destroyed and the matrix, with its pointers to them,
\* returned.
MmAllocateFails(f) ==
    /\ MayFail
    /\ Mm(f)
    /\ Count(Text, f) > 0
    /\ live' = {"metadata"}
    /\ faulted' = TRUE
    /\ Returned(matrix)

MmOpen ==
    /\ Mm("open")
    /\ matrix' = [matrix EXCEPT
            !.format = IF Text.format = "array" THEN "DMATR" ELSE "COO",
            !.structure = IF Text.structure \in Structures THEN Text.structure ELSE @]
    /\ live' = live \cup {"stream"}
    /\ Go("lines")
    /\ UNCHANGED faulted

MmOpenFails == MayFail /\ Mm("open") /\ Dies("abort", TRUE)

\* One line per entry; more are written past the arrays' end, fewer leave elements
\* unwritten that the sort goes on to read.
MmLines ==
    /\ Mm("lines")
    /\ Text.format = "coordinate"
    /\ IF Len(Text.lines) # Text.nnz
       THEN Dies("undefined", FALSE)
       ELSE /\ matrix' =
                  LET t == Text
                      Of(d) == [k \in 0 .. t.nnz - 1 |->
                                  (t.lines[k + 1][d] - 1) % (Cap(matrix.indices_0.type) + 1)]
                  IN  [matrix EXCEPT
                         !.indices_0.data = Of(1), !.indices_1.data = Of(2),
                         !.values.data = IF t.type = "pattern" THEN @
                                         ELSE [k \in 0 .. t.nnz - 1 |-> Element(t, k)]]
            /\ Go("sort")
            /\ UNCHANGED <<live, faulted>>

\* Where the reader puts the element of line c, counted from 0, and where a
\* row-major matrix has it.
Place(t, c) == (c % t.ncols) * t.nrows + c \div t.ncols

MmArrayLines ==
    /\ Mm("lines")
    /\ Text.format = "array"
    /\ LET t == Text
           written == 0 .. Len(t.lines) - 1
           Last(k) == CHOOSE c \in written :
                        /\ Place(t, c) = k
                        /\ \A d \in written : Place(t, d) = k => d <= c
       IN  IF t.lines # <<>> /\ t.ncols = 0 THEN Dies("crash", FALSE)
           ELSE IF {Place(t, c) : c \in written} # 0 .. t.nnz - 1 THEN Dies("undefined", FALSE)
           ELSE /\ live' = live \ {"metadata", "stream"}
                /\ faulted' = faulted
                /\ Returned([matrix EXCEPT !.values.data =
                                [k \in 0 .. t.nnz - 1 |-> Element(t, Last(k))]])

\* The permutation is allocated, and filled without a check, and sorted.
MmSort ==
    /\ Mm("sort")
    /\ live' = live \cup {"indices"}
    /\ Go("rowind")
    /\ UNCHANGED <<matrix, faulted>>

MmSortFails ==
    /\ MayFail
    /\ Mm("sort")
    /\ matrix.nnz > 0
    /\ Dies("crash", TRUE)

Copies == {"rowind", "colind", "sorted_values"}

\* A copy of each array, but of the one value of a pattern matrix.
Copied(s) == matrix.nnz > 0 /\ ~(s = "sorted_values" /\ matrix.is_iso)

MmCopy(s) ==
    /\ Mm(s)
    /\ live' = live \cup (IF Copied(s) THEN {s} ELSE {})
    /\ Go(After(s))
    /\ UNCHANGED <<matrix, faulted>>

\* The matrix is returned as it was read; nothing but the copies is freed.
MmCopyFails(s) ==
    /\ MayFail
    /\ Mm(s)
    /\ Copied(s)
    /\ live' = live \ Copies
    /\ faulted' = TRUE
    /\ Returned(matrix)

Permuted(m, p) ==
    [m EXCEPT !.indices_0.data = [k \in DOMAIN @ |-> @[p[k]]],
              !.indices_1.data = [k \in DOMAIN @ |-> @[p[k]]],
              !.values.data = IF m.is_iso THEN @ ELSE [k \in DOMAIN @ |-> @[p[k]]]]

SortsNothing(m, p) == \A k \in DOMAIN p : p[k] = k          \* mutant
Sorts(m, p) ==
    /\ \A k, l \in DOMAIN p : p[k] = p[l] => k = l
    /\ \A k, l \in DOMAIN p : k < l => RowBefore(m, p[k], p[l])

\* The sorted copies take the place of the arrays.
MmPermute ==
    /\ Mm("permute")
    /\ \E p \in [0 .. matrix.nnz - 1 -> 0 .. matrix.nnz - 1] :
          Sorts(matrix, p) /\ Returned(Permuted(matrix, p))
    /\ live' = Pointed(matrix)
    /\ UNCHANGED faulted

MmNext ==
    \/ MmHeader \/ MmHeaderFails \/ MmOpen \/ MmOpenFails \/ MmLines \/ MmArrayLines
    \/ MmSort \/ MmSortFails \/ MmPermute
    \/ \E f \in {"indices_0", "indices_1", "values"} : MmAllocate(f) \/ MmAllocateFails(f)
    \/ \E s \in Copies : MmCopy(s) \/ MmCopyFails(s)

--------------------------------------------------------------------------------
(* Writing. *)

\* Every matrix with one value is written as a pattern.
TextType(m) ==
    IF m.is_iso THEN "pattern"
    ELSE CASE m.values.type \in {"float32", "float64"} -> "real"
           [] m.values.type \in {"complex32", "complex64"} -> "complex"
           [] m.values.type \in {"narrow", "wide", "int_narrow", "int_wide", "bint8"} -> "integer"
           [] OTHER -> "none"

WrittenFromZero(m) ==                                       \* mutant
    [valid |-> TRUE, format |-> "coordinate", type |-> TextType(m),
     structure |-> m.structure, nrows |-> m.nrows, ncols |-> m.ncols, nnz |-> m.nnz,
     lines |-> [k \in 1 .. m.nnz |->
                  <<m.indices_0.data[k - 1], m.indices_1.data[k - 1],
                    IF m.is_iso THEN Unset ELSE m.values.data[k - 1]>>]]
Written(m) ==
    [valid |-> TRUE, format |-> "coordinate", type |-> TextType(m),
     structure |-> m.structure, nrows |-> m.nrows, ncols |-> m.ncols, nnz |-> m.nnz,
     lines |-> [k \in 1 .. m.nnz |->
                  <<m.indices_0.data[k - 1] + 1, m.indices_1.data[k - 1] + 1,
                    IF m.is_iso THEN Unset ELSE m.values.data[k - 1]>>]]

MmWrites == matrix.structure \in Structures /\ TextType(matrix) # "none"

MmWrite ==
    /\ At("mmwrite", "start")
    /\ MmWrites
    /\ copy' = Written(matrix)
    /\ Return("SUCCESS")
    /\ UNCHANGED <<file, matrix, live, faulted>>

\* The file does not open; or it does, emptied, and an assertion fails.
MmWriteFails ==
    /\ At("mmwrite", "start")
    /\ \/ MayFail /\ Dies("abort", TRUE)
       \/ /\ ~MmWrites
          /\ copy' = NoText
          /\ End("abort", FALSE)
          /\ UNCHANGED file

--------------------------------------------------------------------------------
(* Properties. *)

\* A Matrix Market file denotes the entries of its lines; a dense one has them
\* column by column.
TextEntries(t) ==
    IF t.format = "coordinate"
    THEN {<<t.lines[k][1] - 1, t.lines[k][2] - 1,
            IF t.type = "pattern" THEN <<1, 0>> ELSE t.lines[k][3]>> : k \in 1 .. Len(t.lines)}
    ELSE {<<(k - 1) % t.nrows, (k - 1) \div t.nrows, t.lines[k][3]>> : k \in 1 .. t.nnz}

\* A dense matrix is read as it is only if it is square or a vector.
ReadRight(t) == t.format = "coordinate" \/ t.nrows = t.ncols \/ t.nrows <= 1 \/ t.ncols <= 1

\* Its values are pairwise different.
Different(t) == \A j, k \in 1 .. Len(t.lines) : t.lines[j][3] = t.lines[k][3] => j = k

ReadAs(m, t) ==
    /\ ReadRight(t) => Entries(m) = TextEntries(t)
    /\ ~ReadRight(t) /\ Different(t) => Entries(m) # TextEntries(t)

\* It has the lines its header announces, each of an entry within its dimensions,
\* which are 64-bit numbers.
Complete(t) ==
    /\ t.valid
    /\ {t.nrows, t.ncols, t.nnz} \subseteq 0 .. Cap("wide")
    /\ Len(t.lines) = t.nnz
    /\ IF t.format = "coordinate"
       THEN \A k \in 1 .. t.nnz :
               t.lines[k][1] \in 1 .. t.nrows /\ t.lines[k][2] \in 1 .. t.ncols
       ELSE t.nnz = t.nrows * t.ncols

\* A coordinate file whose lines are as many as its header says is read as the
\* sorted matrix of its entries; if memory fails, as the default matrix or as
\* the unsorted one, in neither case with an error.  A dense file is read as the
\* matrix it denotes if that is square or a vector; any other is transposed, and
\* thus another matrix, at the latest if no two of its values are the same.
MmReadFaithful ==
    todo # <<>> /\ step = "start" /\ Head(calls) \in {"declamp", "keep"} =>
        \/ matrix.format = "junk" /\ (faulted \/ ~Text.valid)
        \/ /\ Complete(Text) => ReadAs(matrix, Text)
           /\ Text.format = "coordinate" => faulted \/ InOrder(matrix)

================================================================================
