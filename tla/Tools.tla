--------------------------------- MODULE Tools ---------------------------------
(******************************************************************************)
(* The command-line programs mtx2bsp, bsp2mtx, check_equivalence (serial and  *)
(* parallel), benchmark_read (serial and parallel) and tensor_test, in        *)
(* sessions: a Matrix Market file is converted and the result compared with   *)
(* it, as test/bash/test.sh does, converted back and compared again.          *)
(*                                                                            *)
(* MatrixFile has the steps of bsp_write_matrix, ConvertMatrix those of       *)
(* bsp_convert_matrix; here each is one step that succeeds or fails.          *)
(******************************************************************************)
EXTENDS ReadMatrix, MatrixMarket, TensorFile

CONSTANT Inputs     \* of the sessions

\* The version of a file that is not a JSON object was never an attribute's, and
\* values of the wrong type are values.
IsText(t) ==
    t.valid =>
       t \in [valid : {TRUE}, format : STRING, type : STRING, structure : STRING,
              nrows : 0 .. Cap("wide"), ncols : 0 .. Cap("wide"), nnz : 0 .. Cap("wide"),
              lines : Seq(Int \X Int \X (Int \X Int))]

IsFile(f) ==
    /\ f.exists \in BOOLEAN
    /\ f.exists =>
          /\ f.attribute \in BOOLEAN
          /\ f.flaw = "array" => f.attribute
          /\ f.flaw \in {"complex", "values_type"} => f.m.values.type # "invalid" /\ Size(f.m.values.data) > 0

ValueTypes == FloatTypes \cup {"narrow", "wide", "int_narrow", "int_wide", "bint8"}

\* Arrays of the matrix's format, with as many elements as its descriptor announces
\* and indices within its shape; the pointers are whatever they are.
IsStored(m) ==
    /\ m.format \in {"COO", "CSR", "DMATR"}
    /\ m.is_iso \in BOOLEAN
    /\ {m.nrows, m.ncols, m.nnz} \subseteq 0 .. Cap("wide")
    /\ m.values.type \in ValueTypes
    /\ DOMAIN m.values.data = IF m.is_iso THEN {0} ELSE 0 .. m.nnz - 1
    /\ IF m.format = "DMATR" THEN m.indices_1 = Absent
       ELSE /\ m.indices_1.type # "invalid"
            /\ m.indices_1.data \in [0 .. m.nnz - 1 -> 0 .. m.ncols - 1]
    /\ IF m.format # "COO" THEN m.indices_0 = Absent
       ELSE /\ m.indices_0.type # "invalid"
            /\ m.indices_0.data \in [0 .. m.nnz - 1 -> 0 .. m.nrows - 1]
    /\ IF m.format # "CSR" THEN m.pointers_to_1 = Absent
       ELSE /\ m.pointers_to_1.type # "invalid"
            /\ m.pointers_to_1.data \in [0 .. m.nrows -> Nat]

\* Only the last level is an element, and every other has a dimension.
IsTensor(s) ==
    /\ s.readable \in BOOLEAN
    /\ s.readable =>
          /\ s.described \in BOOLEAN /\ s.transposed \in BOOLEAN
          /\ s.rank \in Nat
          /\ s.levels \in Seq([kind : {"dense", "sparse", "element"}, rank : Nat])
          /\ \A k \in DOMAIN s.levels : s.levels[k].kind # "element" => s.levels[k].rank > 0
          /\ \A k \in 1 .. Len(s.levels) - 1 : s.levels[k].kind # "element"

\* The Binsparse file is made, if at all, by the first program of a session, the
\* Matrix Market file once and before anything is compared with it, and the tensor is
\* copied once.
IsSession(i) ==
    /\ IsText(i.text)
    /\ IsFile(i.file)
    /\ i.file.exists => IsStored(i.file.m)
    /\ IsTensor(i.tensor)
    /\ i.format \in {"COOR", "CSR", "DMATR", "invalid"}
    /\ i.programs \in Seq(DOMAIN Script) \ {<<>>}
    /\ \A k \in 2 .. Len(i.programs) : i.programs[k] # "mtx2bsp"
    /\ \A j, k \in 1 .. Len(i.programs) :
          j < k /\ i.programs[k] = "bsp2mtx" => i.programs[j] \notin {"bsp2mtx", "check_copy"}
    /\ \A j, k \in 1 .. Len(i.programs) :
          i.programs[j] = "tensor_test" /\ i.programs[k] = "tensor_test" => j = k

ASSUME InputsAssumption == \A i \in Inputs : IsSession(i)

vars == <<programVars, tensorVars>>

NoFile == [exists |-> FALSE]

Init ==
    /\ input \in Inputs
    /\ file = input.file
    /\ copy = NoText
    /\ todo = input.programs
    /\ calls = Script[Head(input.programs)]
    /\ step = "start"
    /\ matrix = NoMatrix
    /\ first = NoMatrix
    /\ live = {}
    /\ faulted = FALSE
    /\ ended = <<>>
    /\ TensorInit

--------------------------------------------------------------------------------
(* mtx2bsp. *)

Calls(call) == At(call, "start")

KeepFiles == UNCHANGED <<file, copy>>

\* The header is valid, and the format argument the name of a format.
CheckArguments ==
    /\ Calls("metadata")
    /\ \/ /\ input.text.valid /\ input.format # "invalid"
          /\ Return("SUCCESS")
          /\ KeepFiles
          /\ UNCHANGED <<matrix, live, faulted>>
       \/ /\ ~(input.text.valid /\ input.format # "invalid")
          /\ Dies("exit 1", FALSE)
       \/ MayFail /\ Dies("exit 1", TRUE)

DeclampReal(x) ==
    IF x >= Huge THEN Infinity ELSE IF x <= -Huge THEN -Infinity ELSE x

Declamp(t, v) ==
    IF t \in {"float64", "complex64"} THEN <<DeclampReal(v[1]), DeclampReal(v[2])>> ELSE v

Declamped(m) ==
    [m EXCEPT !.values.data = [k \in DOMAIN @ |-> Declamp(m.values.type, @[k])]]

\* bsp_matrix_declamp_values
DeclampValues ==
    /\ Calls("declamp")
    /\ matrix' = Declamped(matrix)
    /\ Return("SUCCESS")
    /\ KeepFiles
    /\ UNCHANGED <<live, faulted>>

\* bsp_matrix_minimize_values: 64-bit integers are always stored anew, and the
\* first of them read even if there is none.
MinimizeValues ==
    /\ Calls("minimize")
    /\ LET a == matrix.values
           integers == a.type = "int_wide"
           renewed == integers \/ MinimalType(a) # a.type
       IN  IF integers /\ Size(a.data) = 0
           THEN Dies("crash", FALSE)
           ELSE /\ \/ /\ matrix' = IF renewed THEN [matrix EXCEPT !.values = Minimized(a)]
                                              ELSE matrix
                      /\ UNCHANGED faulted
                   \/ /\ MayFail /\ renewed /\ Size(a.data) > 0
                      /\ faulted' = TRUE
                      /\ UNCHANGED matrix
                /\ Return("SUCCESS")
                /\ KeepFiles
                /\ UNCHANGED live

\* A row beyond the one after the last, which the conversion asserts there is not.
RowBeyond(m) == \E k \in DOMAIN m.indices_0.data : m.indices_0.data[k] > m.nrows

\* As many rows as the matrix has entries.
CooOf(m) ==
    LET t == Pick(MaxDim(m))
    IN  [m EXCEPT !.format = "COO",
                  !.indices_0 = Indexes(t, [k \in 0 .. m.nnz - 1 |-> Stored(t, RowOf(m, k))]),
                  !.indices_1 = Converted(@, t),
                  !.pointers_to_1 = Absent]

\* bsp_convert_matrix to the format asked for, unless that is COOR; mtx2bsp
\* destroys the matrix it had.
Convert ==
    /\ Calls("convert")
    /\ \/ /\ input.format = "COOR"
          /\ Return("SUCCESS")
          /\ KeepFiles
          /\ UNCHANGED <<matrix, live, faulted>>
       \/ /\ input.format = "CSR" /\ Sound /\ matrix.format = "COO"
          /\ \/ /\ ~RowBeyond(matrix)
                /\ matrix' = CsrOf(matrix)
                /\ live' = (live \ Pointed(matrix)) \cup Pointed(CsrOf(matrix))
                /\ UNCHANGED faulted
             \/ /\ MayFail
                /\ matrix' = DefaultMatrix
                /\ live' = live \ Pointed(matrix)
                /\ faulted' = TRUE
          /\ Return("SUCCESS")
          /\ KeepFiles

\* From or to a dense format; of rows outside the matrix; with a matrix that could not
\* be read.
ConvertFails ==
    /\ Calls("convert")
    /\ input.format # "COOR"
    /\ \/ ~Sound /\ Dies("undefined", FALSE)
       \/ /\ Sound
          /\ input.format = "CSR" /\ matrix.format = "COO" => RowBeyond(matrix)
          /\ Dies("abort", FALSE)

\* The file with the first n arrays, and perhaps the attribute.
FileOf(m, n, attribute) ==
    [exists |-> TRUE, attribute |-> attribute, flaw |-> "none", version |-> Supported,
     m |-> m, datasets |-> {ReadOrder[k] : k \in 1 .. n} \cap {f \in Fields : m[f].type # "invalid"}]

\* bsp_write_matrix_cjson
WriteFile ==
    /\ Calls("write")
    /\ Sound
    /\ \/ /\ file' = FileOf(matrix, 4, TRUE)
          /\ UNCHANGED faulted
       \/ /\ MayFail
          /\ file' = FileOf(matrix, 4, FALSE)
          /\ faulted' = TRUE
    /\ Return("SUCCESS")
    /\ UNCHANGED <<copy, matrix, live>>

WriteFileFails ==
    /\ Calls("write")
    /\ \/ ~Sound /\ Dies("undefined", FALSE)
       \/ /\ MayFail
          /\ Sound
          /\ \/ UNCHANGED file
             \/ \E n \in 0 .. 3 : file' = FileOf(matrix, n, FALSE)
          /\ faulted' = TRUE
          /\ Return("IO")
          /\ UNCHANGED <<copy, matrix, live>>

\* bsp_destroy_matrix_t, and main returns.
Finish ==
    /\ Calls("finish")
    /\ Dies(IF Pointed(matrix) \subseteq live THEN "exit 0" ELSE "undefined", FALSE)

--------------------------------------------------------------------------------
(* check_equivalence and bsp2mtx. *)

\* The Matrix Market file's matrix is declamped and kept for the comparison.
KeepFirst ==
    /\ Calls("keep")
    /\ first' = IF Sound THEN Declamped(matrix) ELSE DefaultMatrix
    /\ matrix' = NoMatrix
    /\ live' = {}
    /\ calls' = Tail(calls)
    /\ UNCHANGED <<input, file, copy, todo, step, faulted, ended>>

\* check_array_equivalence: arrays of the same kind, with equal elements.
Kind(t) ==
    CASE t \in {"float32", "float64"} -> "real"
      [] t \in {"complex32", "complex64"} -> "complex"
      [] OTHER -> "integer"

SameSize(a, b) == Size(a.data) = Size(b.data)                \* mutant
SameValues(a, b) ==
    /\ Size(a.data) = Size(b.data)
    /\ Size(a.data) > 0 => Kind(a.type) = Kind(b.type)
    /\ \A k \in DOMAIN a.data : Equal(a.data[k], b.data[k])

SameIndices(a, b) == a.data = b.data

\* What is compared before the indices.
SameUpToValues(m1, m2) ==
    /\ m1.structure = m2.structure
    /\ m1.nrows = m2.nrows /\ m1.ncols = m2.ncols
    /\ m1.nnz = m2.nnz
    /\ m1.is_iso = m2.is_iso
    /\ SameValues(m1.values, m2.values)

Equivalent(m1, m2) ==
    /\ SameUpToValues(m1, m2)
    /\ SameIndices(m1.indices_0, m2.indices_0)
    /\ SameIndices(m1.indices_1, m2.indices_1)
    /\ SameIndices(m1.pointers_to_1, m2.pointers_to_1)

AsCoo(m) == IF m.format = "CSR" THEN CooOf(m) ELSE m

\* The rows that the pointers of a CSR matrix do not reach are never written; those
\* that they reach beyond its entries are written past the array's end.
RowsMissing(m) == \E k \in 0 .. m.nnz - 1 : RowOf(m, k) = Junk
RowsBeyond(m) ==
    LET p == m.pointers_to_1.data
    IN  \E r \in 0 .. m.nrows - 1 : p[r] < p[r + 1] /\ m.nnz < p[r + 1]
BadRows(m) == m.format = "CSR" /\ (RowsBeyond(m) \/ RowsMissing(m))

\* The first array that is converted has no type.
NoArrays(m) == m.values.type = "invalid"

\* The comparison comes to a row of the second matrix that was never written.
ComparesUnwritten(m1, m2) ==
    LET i == m1.indices_0.data
        j == m2.indices_0.data
    IN  /\ SameUpToValues(m1, m2)
        /\ \E k \in DOMAIN j : j[k] = Junk /\ \A l \in 0 .. k - 1 : i[l] = j[l]

\* The first matrix is a Matrix Market file's, and never CSR.
Verdict(m1, m2) ==
    LET differ == m1.format # m2.format
        a == IF differ THEN AsCoo(m1) ELSE m1
        b == IF differ THEN AsCoo(m2) ELSE m2
    IN  IF m1.format = "junk" THEN "undefined"
        ELSE IF differ /\ {m1.format, m2.format} \ {"COO", "CSR"} # {} THEN "abort"
        ELSE IF differ /\ NoArrays(m2) THEN "abort"
        ELSE IF differ /\ (RowsBeyond(m2) \/ ComparesUnwritten(a, b)) THEN "undefined"
        ELSE IF Equivalent(a, b) THEN "exit 0" ELSE "exit 1"

\* The conversion runs out of memory; it may for a number of entries that is none.
Compare ==
    /\ Calls("compare")
    /\ \/ Dies(Verdict(first, matrix), FALSE)
       \/ /\ MayFail \/ file.flaw = "nnz_type"
          /\ {first.format, matrix.format} = {"COO", "CSR"} /\ ~NoArrays(matrix)
          /\ matrix.nnz > 0
          /\ Dies("undefined", file.flaw # "nnz_type")

\* bsp2mtx converts what is not COOR, and loses the matrix it had.
ToCoo ==
    /\ Calls("to_coo")
    /\ \/ /\ matrix.format = "COO"
          /\ UNCHANGED <<matrix, live, faulted>>
       \/ /\ matrix.format = "CSR" /\ ~BadRows(matrix)
          /\ \/ /\ matrix' = CooOf(matrix)
                /\ UNCHANGED faulted
             \/ /\ MayFail /\ Pointed(matrix) # {}
                /\ matrix' = DefaultMatrix
                /\ faulted' = TRUE
          /\ live' = Pointed(matrix') \cup {"source"}
    /\ Return("SUCCESS")
    /\ KeepFiles

ToCooFails ==
    /\ Calls("to_coo")
    /\ \/ matrix.format \notin {"COO", "CSR"} /\ Dies("abort", FALSE)
       \/ BadRows(matrix) /\ Dies("undefined", FALSE)

\* The session is over.
Over == todo = <<>> /\ UNCHANGED programVars

MatrixNext ==
    \/ CheckArguments \/ DeclampValues \/ MinimizeValues \/ Convert \/ ConvertFails
    \/ WriteFile \/ WriteFileFails \/ Finish
    \/ KeepFirst \/ Compare \/ ToCoo \/ ToCooFails \/ MmWrite \/ MmWriteFails
    \/ BspCheck \/ ReadNext \/ MmNext \/ Over

Next ==
    \/ MatrixNext /\ UNCHANGED tensorVars
    \/ TensorNext

Spec == Init /\ [][Next]_vars

--------------------------------------------------------------------------------
(* Properties. *)

Ends == {"exit 0", "exit 1", "BSP_CHECK", "abort", "crash", "undefined"}

\* The types of the variables; the calls of a program are the rest of its script,
\* and only a program that reads has anything allocated.
TypeOK ==
    /\ todo # <<>> => calls # <<>> /\ IsSuffix(calls, Script[Head(todo)])
    /\ Len(ended) + Len(todo) = Len(input.programs)
    /\ \A k \in DOMAIN ended : ended[k].how \in Ends /\ ended[k].program = input.programs[k]
    /\ step \in Errors => todo # <<>> /\ Head(calls) \in {"read", "read_parallel", "write"}
    /\ live \subseteq Fields \cup Copies \cup
                       {"metadata", "stream", "indices", "json_string", "j", "source"}
    /\ faulted \in BOOLEAN

\* What the Binsparse file should hold: the entries of the Matrix Market file,
\* declamped.
DeclampedText(t) ==
    [t EXCEPT !.lines = [k \in DOMAIN @ |->
                            <<@[k][1], @[k][2], Declamp(TypeOf[t.type], @[k][3])>>]]

\* The conversion to CSR loses entries of a pattern when its index type, chosen
\* without regard to the number of entries, is too small for its pointers.
PointersFit(t, format) ==
    format = "CSR" /\ t.type = "pattern" => t.nnz <= Cap(Pick(Larger(t.nrows, t.ncols)))

\* mtx2bsp has made the Binsparse file, without a failure.
Made(k) ==
    /\ k \in DOMAIN ended
    /\ ended[k].program = "mtx2bsp" /\ ended[k].how = "exit 0" /\ ended[k].clean

\* The file that mtx2bsp makes of a complete Matrix Market file denotes its declamped
\* entries, in the order of its format and in the narrowest type, as they are read:
\* if the pointers fit, and only then.
FileFaithful ==
    (\E k \in DOMAIN ended : Made(k)) /\ Complete(input.text) =>
        LET t == DeclampedText(input.text)
            m == file.m
        IN  /\ IF PointersFit(t, m.format) THEN ReadAs(m, t) ELSE Entries(m) # TextEntries(t)
            /\ m.format = "COO" => InOrder(m)
            /\ Narrowest(m.values)

HasNaN(t) ==
    /\ t.type # "pattern"
    /\ \E k \in 1 .. Len(t.lines) : NaN \in {t.lines[k][3][1], t.lines[k][3][2]}

\* No two of its lines are at the same position.
Distinct(t) ==
    t.format = "coordinate" =>
       \A j, k \in 1 .. Len(t.lines) :
          t.lines[j][1] = t.lines[k][1] /\ t.lines[j][2] = t.lines[k][2] => j = k

Comparable(t, format) == ~HasNaN(t) /\ Distinct(t) /\ PointersFit(t, format)

\* check_equivalence finds the file that mtx2bsp has made equivalent to the one it
\* was made from, serially and in parallel, unless it holds a NaN, its
\* pointers overflow or qsort may order its entries in two ways.  What it finds
\* equivalent denotes the same matrix; but as it reads the Matrix Market file with
\* the function that mtx2bsp reads it with, it never notices that a dense matrix
\* is transposed.
VerdictRight ==
    \A k \in DOMAIN ended :
        ended[k].program \in {"check", "check_parallel"} =>
            LET t == input.text
            IN  /\ ended[k].how = "exit 0" /\ Complete(t) =>
                      ReadAs(file.m, DeclampedText(t)) /\ ~HasNaN(t)
                /\ Made(1) /\ ended[k].clean /\ Complete(t) /\ Comparable(t, file.m.format) =>
                      ended[k].how = "exit 0"

\* The Matrix Market file that bsp2mtx makes denotes the matrix of the Binsparse
\* file: exactly if that does not store one value, other than 1, for all of its
\* entries.
CopyFaithful ==
    \A k \in DOMAIN ended :
        ended[k].program = "bsp2mtx" /\ ended[k].how = "exit 0" =>
            (TextEntries(copy) = Entries(file.m)
               <=> (file.m.is_iso /\ file.m.nnz > 0 => ValueOf(file.m, 0) = <<1, 0>>))

\* The only inputs that a program which nothing else goes wrong with dies of, by a
\* failed assertion, a NULL pointer or memory that is not its own: a Matrix Market file
\* that the reader is not made for, that has no integers, or that the format asked for
\* is not made of, one whose lines lie outside it included; a Binsparse file of which
\* the reader asserts or compares a part that is not there, dense, with pointers that
\* miss entries or go beyond them, or with a structure that cannot be written; and a
\* tensor that is not whole or has names of datasets to be written.
UnreadableText(t) ==
    t.valid /\
        \/ ~Readable(t)
        \/ t.format = "array" /\ (t.ncols = 0 \/ t.nnz # t.nrows * t.ncols)
        \/ Len(t.lines) # t.nnz
\* A line whose row, as it is stored, is beyond the one after the last.
RowOutside(t) ==
    LET size == Cap(Pick(Larger(t.nrows, t.ncols))) + 1
    IN  \E k \in 1 .. Len(t.lines) : (t.lines[k][1] - 1) % size > t.nrows
EmptyIntegers(t) == t.valid /\ t.type = "integer" /\ t.nnz = 0
Unconvertible(t, format) ==
    t.valid /\ (format = "DMATR" \/ (format = "CSR" /\ (t.format = "array" \/ RowOutside(t))))
DeadlyRead(parallel) ==
    /\ file.exists /\ file.attribute
    /\ \/ parallel /\ file.flaw \in Asserted \cup {"format_type"}
       \/ file.flaw \in {"values_type", "structure_type"}
DeadlyFile(parallel) ==
    \/ DeadlyRead(parallel)
    \/ /\ file.exists /\ file.attribute
       /\ \/ parallel /\ file.flaw \in Ignored("read_parallel")
          \/ file.m.format = "DMATR" \/ BadRows(file.m)

DeathsExplained ==
    \A k \in DOMAIN ended :
        LET e == ended[k]
            t == input.text
        IN  e.clean /\ e.how \in {"abort", "crash", "undefined"} =>
               CASE e.program = "mtx2bsp" ->
                       UnreadableText(t) \/ EmptyIntegers(t) \/ Unconvertible(t, input.format)
                 [] e.program \in {"check", "check_parallel"} ->
                       \/ ~t.valid \/ UnreadableText(t)
                       \/ t.format = "array" /\ file.exists /\ file.m.format # "DMATR"
                       \/ DeadlyFile(e.program = "check_parallel")
                 [] e.program = "bsp2mtx" ->
                       DeadlyFile(FALSE) \/ (file.exists /\ file.m.structure \notin Structures)
                 [] e.program = "check_copy" -> ~copy.valid \/ DeadlyFile(FALSE)
                 [] e.program = "benchmark_read" -> DeadlyRead(FALSE)
                 [] e.program = "benchmark_read_parallel" -> DeadlyRead(TRUE)
                 [] e.program = "tensor_test" -> ~SourceWhole \/ KeysNamed

================================================================================
