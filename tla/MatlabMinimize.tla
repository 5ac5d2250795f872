----------------------------- MODULE MatlabMinimize -----------------------------
(******************************************************************************)
(* binsparse_minimize_types, binsparse_write and binsparse_read: structs of   *)
(* MATLAB's workspace as Binsparse matrices and back.                         *)
(*                                                                            *)
(* A struct's real arrays are viewed, not copied: the minimiser replaces some *)
(* of them by arrays of its own, returns a struct that takes those over and   *)
(* copies the rest, and destroys the matrix, of which MATLAB owns one part,   *)
(* the call another, and the new struct a third.                              *)
(******************************************************************************)
EXTENDS FromSsmc, Sequences

VARIABLES
    matrix,    \* the matrix that views it
    memory,    \* of each array of the matrix, the block of memory it is in
    freed,     \* the blocks the call has freed
    given      \* the blocks of the returned struct's fields

minVars == <<matrix, memory, freed, given>>

Minimizing(step) == At("minimize_types", step)

\* A block is named for the field it holds and who allocated it: "matlab" for
\* the argument's, "copy" for an owned copy of a complex one, "minimized" and
\* "iso" for the minimiser's, "struct" for a new field's.
NoBlock == <<"none", "none">>

Owned == {"copy", "minimized", "iso", "struct"}

\* bsp_matlab_view_allocator's free does nothing.
FreesViews(block) == block # NoBlock                        \* mutant
FreesMemory(block) == block[2] \in Owned

\* bsp_destroy_array_t
Destroyed(blocks) == {b \in blocks : FreesMemory(b)}

IsComplex(t) == t \in {"complex32", "complex64"}

MinIdle ==
    /\ matrix = NoStruct
    /\ memory = [f \in Fields |-> NoBlock]
    /\ freed = {}
    /\ given = [f \in Fields |-> NoBlock]

--------------------------------------------------------------------------------
(* Entering: matlab_struct_to_bsp_matrix_view. *)

StructFields == {"format", "nrows", "ncols", "nnz", "is_iso"} \cup Fields

IsArrayOf(S, f) == Size(f) \in Nat /\ f \in [0 .. Size(f) - 1 -> S]

\* A matrix with arrays for the values and indices that nnz and is_iso speak of,
\* and no index beyond the wide type.
HasItsArrays(m) ==
    /\ m = [f \in StructFields |-> m[f]]
    /\ m.format # "none" /\ m.nnz \in Nat /\ m.is_iso \in BOOLEAN
    /\ IsArrayOf(Int \X Int, m.values.data)
    /\ ~m.is_iso => m.nnz <= Size(m.values.data)
    /\ \A f \in Fields \ {"values"} :
          /\ IsArrayOf(Int, m[f].data)
          /\ \A k \in DOMAIN m[f].data : m[f].data[k] < Base * Base

\* In a struct of MATLAB's, the arrays are of MATLAB's classes; whether the classes
\* and signs of its indices are those of indices is the minimiser's to find out.
IsStruct(m) == HasItsArrays(m) /\ \A f \in Fields : ClassOf(m[f].type) = m[f].type

\* A struct made by hand, as binsparse_create_struct makes them.
CreateStruct ==
    /\ call = "none"
    /\ "create_struct" \in problem.calls
    /\ workspace' = problem.struct
    /\ last' = NoCall
    /\ source' = NoStruct
    /\ UNCHANGED <<problem, file, call, stage, handles, raised, target, csc, mergeVars,
                   matrix, memory, freed, given>>

ViewBlock(m, f) ==
    IF Size(m[f].data) = 0 THEN NoBlock
    ELSE <<f, IF IsComplex(m[f].type) THEN "copy" ELSE "matlab">>

MinCall ==
    /\ workspace # NoStruct
    /\ Enter("minimize_types", "values")
    /\ source' = workspace
    /\ matrix' = workspace
    /\ memory' = [f \in Fields |-> ViewBlock(workspace, f)]
    /\ freed' = {}
    /\ given' = [f \in Fields |-> NoBlock]
    /\ UNCHANGED <<file, handles, workspace, target, csc, mergeVars>>

--------------------------------------------------------------------------------
(* Minimising. *)

\* A new array of the minimiser takes the place of field f.
Replace(f, a, owner) ==
    /\ matrix' = [matrix EXCEPT ![f] = a]
    /\ memory' = [memory EXCEPT ![f] = <<f, owner>>]
    /\ freed' = freed \cup Destroyed({memory[f]})

KeepMatrix == UNCHANGED <<matrix, memory, freed>>

\* minimize_values_matlab
MinimizeValues ==
    /\ Minimizing("values")
    /\ LET a == matrix.values
       IN  IF Size(a.data) = 0 \/ MinimalType(a) = a.type
           THEN KeepMatrix
           ELSE Replace("values", Minimized(a), "minimized")
    /\ Proceed("indices_0")
    /\ UNCHANGED <<file, handles, ssmcVars, given>>

IntegerTypes == {"narrow", "wide", "int_narrow", "int_wide"}

IndexFields == {"indices_0", "indices_1", "pointers_to_1"}
After(f) ==
    CASE f = "indices_0" -> "indices_1"
      [] f = "indices_1" -> "pointers_to_1"
      [] f = "pointers_to_1" -> "iso"

LargestOf(f) == CHOOSE x \in {f[k] : k \in DOMAIN f} : \A k \in DOMAIN f : f[k] <= x

\* minimize_index_array
MinimizeIndices(f) ==
    /\ Minimizing(f)
    /\ LET a == matrix[f]
           t == Pick(LargestOf(a.data))
       IN  IF Size(a.data) = 0 THEN KeepMatrix
           ELSE /\ a.type \in IntegerTypes
                /\ \A k \in DOMAIN a.data : a.data[k] >= 0
                /\ IF a.type = t THEN KeepMatrix
                   ELSE Replace(f, Converted(a, t), "minimized")
    /\ Proceed(After(f))
    /\ UNCHANGED <<file, handles, ssmcVars, given>>

\* An index array that is not an integer array or holds a negative value: the
\* call ends, MATLAB reclaims what it allocated.
MinimizeIndicesFails(f) ==
    /\ Minimizing(f)
    /\ Size(matrix[f].data) > 0
    /\ \/ matrix[f].type \notin IntegerTypes /\ Raise("InvalidIndexType")
       \/ /\ matrix[f].type \in IntegerTypes
          /\ \E k \in DOMAIN matrix[f].data : matrix[f].data[k] < 0
          /\ Raise("InvalidIndexValue")
    /\ source' = NoStruct
    /\ matrix' = NoStruct
    /\ memory' = [g \in Fields |-> NoBlock]
    /\ freed' = {}
    /\ UNCHANGED <<file, handles, workspace, target, csc, mergeVars, given>>

\* minimize_iso_values: the integer 1 becomes bint8, the type of patterns.
MinimizeIso ==
    /\ Minimizing("iso")
    /\ LET a == matrix.values
           pattern == a.type \in IntegerTypes /\ a.data[0] = <<1, 0>>
       IN  IF matrix.is_iso \/ Size(a.data) = 0 \/ ~AllEqual(a.data)
           THEN KeepMatrix
           ELSE /\ matrix' = [matrix EXCEPT
                                !.values = [type |-> IF pattern THEN "bint8" ELSE a.type,
                                            data |-> [k \in {0} |-> a.data[0]]],
                                !.is_iso = TRUE]
                /\ memory' = [memory EXCEPT !["values"] = <<"values", "iso">>]
                /\ freed' = freed \cup Destroyed({memory["values"]})
    /\ Proceed("struct")
    /\ UNCHANGED <<file, handles, ssmcVars, given>>

\* bsp_array_to_matlab hands over the memory of a real array of mxMalloc's, and
\* the array forgets it; it copies a view or a complex array.
HandsOver(f) == FreesMemory(memory[f]) /\ ~IsComplex(matrix[f].type)

FieldBlock(f) ==
    CASE memory[f] = NoBlock -> NoBlock
      [] HandsOver(f) -> memory[f]
      [] OTHER -> <<f, "struct">>

\* The struct is made, and what is left of the matrix destroyed.
MinReturn ==
    /\ Minimizing("struct")
    /\ workspace' = MatlabStruct(matrix)
    /\ given' = [f \in Fields |-> FieldBlock(f)]
    /\ freed' = freed \cup Destroyed({memory[f] : f \in {g \in Fields : ~HandsOver(g)}})
    /\ Leave([function |-> "minimize_types"])
    /\ matrix' = NoStruct
    /\ UNCHANGED <<file, handles, target, csc, mergeVars, source, memory>>

--------------------------------------------------------------------------------
(* Files.  MatrixFile shows how matrices are written and read. *)

\* What binsparse_write takes from the struct besides the arrays
DescriptorOf(m) ==
    [format |-> m.format, nrows |-> m.nrows, ncols |-> m.ncols, nnz |-> m.nnz,
     is_iso |-> m.is_iso]

\* The group after n arrays, which are written in this order.
WriteOrder == <<"values", "indices_0", "indices_1", "pointers_to_1">>
StructGroup(n) ==
    [f \in DOMAIN EmptyGroup |->
        IF \E k \in 1 .. n : WriteOrder[k] = f THEN workspace[f] ELSE EmptyGroup[f]]

\* A vector that has not one column, or not a value for each row, is refused before
\* its first array is written.
Misshapen(m) ==
    \/ m.format \in {"DVEC", "CVEC"} /\ m.ncols # 1
    \/ m.format = "DVEC" /\ m.nnz # m.nrows

\* The struct a driver writes has been minimised first.  A write that fails
\* leaves the arrays before it, or no group at all; one whose descriptor could
\* not be written reports success.
WriteStruct(g) ==
    /\ call = "none"
    /\ "write" \in problem.calls
    /\ source # NoStruct
    /\ g # Root => ~NameTaken(OpenedFile, g)
    /\ LET opened == IF g = Root THEN NewFile ELSE OpenedFile
       IN  \/ /\ ~Misshapen(workspace)
              /\ file' = WithObject(opened, g,
                             [StructGroup(4) EXCEPT !.descriptor = DescriptorOf(workspace)])
              /\ raised' = "none"
           \/ /\ Misshapen(workspace)
              /\ file' = WithObject(opened, g, StructGroup(0))
              /\ raised' = "WriteError"
           \/ /\ MayFail
              /\ ~Misshapen(workspace)
              /\ \E n \in 0 .. 4 :
                    /\ file' = WithObject(opened, g, StructGroup(n))
                    /\ raised' = IF n = 4 THEN "none" ELSE "WriteError"
           \/ /\ MayFail
              /\ file' \in {file, opened}
              /\ raised' = "WriteError"
    /\ last' = NoCall
    /\ UNCHANGED <<problem, call, stage, handles, ssmcVars, minVars>>

WriteStructRefused(g) ==
    /\ call = "none"
    /\ "write" \in problem.calls
    /\ source # NoStruct
    /\ g # Root
    /\ NameTaken(OpenedFile, g)
    /\ file' = OpenedFile
    /\ raised' = "WriteError"
    /\ last' = NoCall
    /\ UNCHANGED <<problem, call, stage, handles, ssmcVars, minVars>>

Described(g) ==
    /\ file.exists
    /\ file.objects[g].kind = "group"
    /\ file.objects[g].descriptor.format # "none"

\* binsparse_read
ReadStruct(g) ==
    /\ call = "none"
    /\ "read" \in problem.calls
    /\ Described(g)
    /\ LET o == file.objects[g]
           d == o.descriptor
       IN  workspace' = MatlabStruct(
              [f \in DOMAIN d \cup Fields |-> IF f \in Fields THEN o[f] ELSE d[f]])
    /\ source' = NoStruct
    /\ raised' = "none"
    /\ last' = [function |-> "read", group |-> g]
    /\ UNCHANGED <<problem, file, call, stage, handles, target, csc, mergeVars,
                   matrix, memory, freed, given>>

ReadStructFails(g) ==
    /\ call = "none"
    /\ "read" \in problem.calls
    /\ MayFail \/ ~Described(g)
    /\ raised' = "ReadError"
    /\ last' = NoCall
    /\ UNCHANGED <<problem, file, call, stage, handles, ssmcVars, minVars>>

MinNext ==
    \/ CreateStruct
    \/ MinCall \/ MinimizeValues \/ MinimizeIso \/ MinReturn
    \/ \E f \in IndexFields : MinimizeIndices(f) \/ MinimizeIndicesFails(f)
    \/ \E g \in problem.names : WriteStruct(g) \/ WriteStructRefused(g) \/ ReadStruct(g)
          \/ ReadStructFails(g)

--------------------------------------------------------------------------------
(* Properties. *)

Blocks(m) == {m[f] : f \in Fields} \ {NoBlock}

\* Nothing of the argument's is freed or given away, nothing is in the returned
\* struct that the call freed, no two fields share memory, and what the call
\* allocated is in the struct or freed.
MemoryAccounted ==
    LET returned == Blocks(given)
        argument == {<<f, "matlab">> : f \in Fields}
    IN  /\ (freed \cup returned) \cap argument = {}
        /\ returned \cap freed = {}
        /\ \A f, g \in Fields : f # g /\ given[f] # NoBlock => given[f] # given[g]
        /\ last.function = "minimize_types" =>
              \A f \in Fields : memory[f][2] \in Owned => memory[f] \in returned \cup freed

ValueAt(m, k) == m.values.data[IF m.is_iso THEN 0 ELSE k]

\* The minimised struct has the same indices and the same values, a value that
\* all entries share stored once, in the narrowest types.  (NaNs are kept, and
\* never taken for equal.)
MinimizedFaithful ==
    last.function = "minimize_types" =>
        /\ \A f \in IndexFields : workspace[f].data = source[f].data
        /\ \A k \in 0 .. source.nnz - 1 : ValueAt(workspace, k) = ValueAt(source, k)
        /\ workspace.is_iso \/ Size(workspace.values.data) = 0
              \/ ~AllEqual(workspace.values.data)
        /\ Size(workspace.values.data) > 0 => Narrowest(workspace.values)
        /\ \A f \in IndexFields :
              Size(workspace[f].data) > 0 =>
                 workspace[f].type = Pick(LargestOf(workspace[f].data))

================================================================================
