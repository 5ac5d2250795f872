-------------------------------- MODULE Programs --------------------------------
(******************************************************************************)
(* What the command-line programs of examples/ share.  A program is a         *)
(* sequence of calls of the library on one matrix in memory; a session runs   *)
(* programs one after the other, whatever became of the one before, on a      *)
(* Matrix Market file, the Binsparse file made from it and the Matrix Market  *)
(* file made from that.  Assertions are compiled in.                          *)
(******************************************************************************)
EXTENDS Values, CsrMatrix, Sequences

CONSTANT MayFail    \* memory may run out, files and HDF5 calls may fail

ASSUME FailureAssumption == MayFail \in BOOLEAN

VARIABLES
    input,     \* the Matrix Market file, the Binsparse and tensor files others have
               \* written, the format argument, and the programs of the session
    file,      \* the Binsparse file
    copy,      \* the Matrix Market file written from it
    todo,      \* the programs still to run, the one under way first
    calls,     \* the calls it still has to make, the one under way first
    step,      \* the next step of that call, or the error it has returned
    matrix,    \* the program's matrix
    first,     \* the first of the two matrices that check_equivalence compares
    live,      \* the blocks of memory that the calls on matrix have allocated
    faulted,   \* something has failed in this program
    ended      \* how the programs before it ended

programVars ==
    <<input, file, copy, todo, calls, step, matrix, first, live, faulted, ended>>

--------------------------------------------------------------------------------
(* Matrices in memory.  The array of field f is in block f; its pointer       *)
(* dangles when the block has been freed.                                     *)

Fields == {"values", "indices_0", "indices_1", "pointers_to_1"}

NoMatrix == [format |-> "none"]

\* bsp_construct_default_matrix_t leaves the format as it is.
DefaultMatrix ==
    [format |-> "junk", nrows |-> 0, ncols |-> 0, nnz |-> 0, is_iso |-> FALSE,
     structure |-> "general", values |-> Absent, indices_0 |-> Absent,
     indices_1 |-> Absent, pointers_to_1 |-> Absent]

\* The fields that are not NULL.
Pointed(m) == {f \in Fields : Size(m[f].data) > 0}

\* The caller may use and destroy the matrix.
Sound == matrix.format # "junk" /\ Pointed(matrix) \subseteq live

ValueOf(m, k) == m.values.data[IF m.is_iso THEN 0 ELSE k]

\* What a coordinate, CSR or dense row-major matrix denotes.
Entries(m) ==
    CASE m.format = "COO" ->
            {<<m.indices_0.data[k], m.indices_1.data[k], ValueOf(m, k)>> :
                k \in DOMAIN m.indices_0.data}
      [] m.format = "CSR" ->
            {<<RowOf(m, k), m.indices_1.data[k], ValueOf(m, k)>> :
                k \in DOMAIN m.indices_1.data}
      [] m.format = "DMATR" ->
            {<<k \div m.ncols, k % m.ncols, ValueOf(m, k)>> : k \in 0 .. m.nnz - 1}

\* A coordinate matrix is sorted by rows, and by columns within them.
RowBefore(m, k, l) ==
    LET i == m.indices_0.data
        j == m.indices_1.data
    IN  i[k] < i[l] \/ (i[k] = i[l] /\ j[k] <= j[l])

InOrder(m) == \A k, l \in DOMAIN m.indices_0.data : k < l => RowBefore(m, k, l)

--------------------------------------------------------------------------------
(* The course of a program. *)

\* The benchmarks' ten reads of the same file are one.
Script ==
    [mtx2bsp |-> <<"metadata", "mmread", "declamp", "minimize", "convert", "write", "finish">>,
     check |-> <<"mmread", "keep", "read", "compare">>,
     check_parallel |-> <<"mmread", "keep", "read_parallel", "compare">>,
     bsp2mtx |-> <<"read", "to_coo", "mmwrite", "finish">>,
     check_copy |-> <<"mmread", "keep", "read", "compare">>,
     benchmark_read |-> <<"read", "finish">>,
     benchmark_read_parallel |-> <<"read_parallel", "finish">>,
     tensor_test |-> <<"tensor_read", "tensor_write", "tensor_finish">>]

Errors == {"IO", "FORMAT", "UNSUPPORTED", "TYPE", "READ"}

At(call, s) == todo # <<>> /\ Head(calls) = call /\ step = s

Go(s) == step' = s /\ UNCHANGED <<input, file, copy, todo, calls, first, ended>>

ReturnPastError(status) ==                                  \* mutant
    /\ calls' = Tail(calls)
    /\ step' = IF status = "SUCCESS" THEN "start" ELSE status
    /\ UNCHANGED <<input, todo, first, ended>>
\* The call under way returns this error code.
Return(status) ==
    /\ calls' = IF status = "SUCCESS" THEN Tail(calls) ELSE calls
    /\ step' = IF status = "SUCCESS" THEN "start" ELSE status
    /\ UNCHANGED <<input, todo, first, ended>>

\* The program ends, its memory with it.
End(how, failed) ==
    /\ ended' = Append(ended,
                    [program |-> Head(todo), how |-> how, clean |-> ~(faulted \/ failed),
                     left |-> live \ (IF matrix = NoMatrix THEN {} ELSE Pointed(matrix))])
    /\ todo' = Tail(todo)
    /\ calls' = IF Len(todo) = 1 THEN <<>> ELSE Script[todo[2]]
    /\ step' = "start"
    /\ matrix' = NoMatrix
    /\ first' = NoMatrix
    /\ live' = {}
    /\ faulted' = FALSE
    /\ UNCHANGED input

\* A failed assertion ("abort"), a NULL dereference or a division by zero
\* ("crash"), or the use of memory that was freed, never written or not
\* allocated ("undefined"), after which nothing is known.
Dies(how, failed) == End(how, failed) /\ UNCHANGED <<file, copy>>

\* The BSP_CHECK around a call that has returned an error.
BspCheck ==
    /\ todo # <<>>
    /\ step \in Errors
    /\ Dies("BSP_CHECK", FALSE)

================================================================================
