-------------------------------- MODULE SsmcCoo --------------------------------
(******************************************************************************)
(* binsparse_write_ssmc_coo: A and Zeros are scattered straight into row      *)
(* order, by a counting sort without comparisons, and the row indices, which  *)
(* never exist as an array, are generated into the dataset chunk by chunk     *)
(* from the ends of the rows.                                                 *)
(******************************************************************************)
EXTENDS Ssmc, Sequences

CONSTANT ChunkBytes   \* COO_WRITE_CHUNK_BYTES, in bytes of the narrow type

ASSUME ChunkAssumption == ChunkBytes \in Nat

VARIABLES
    group,        \* the group argument
    positions,    \* of each row, where its next entry goes
    column,       \* the column being scattered
    ap, zp,       \* its next entries in A and Zeros
    output,       \* is_iso, values and indices_1 of the matrix
    row,          \* the generator's row
    written,      \* elements of indices_0 on disk
    buffer        \* the chunk: the elements generated since

cooVars == <<group, positions, column, ap, zp, output, row, written, buffer>>
scatterVars == <<positions, column, ap, zp, output>>
generatorVars == <<row, written, buffer>>

Coo(step) == At("write_ssmc_coo", step)

NoMatrix ==
    [is_iso |-> FALSE, value_type |-> "float32", values |-> Absent.data, indices_1 |-> Absent]

NnzOut == Nnz(A) + Nnz(Z)

CooIdle ==
    /\ group = Root
    /\ positions = Absent.data
    /\ column = 0
    /\ ap = 0
    /\ zp = 0
    /\ output = NoMatrix
    /\ row = 0
    /\ written = 0
    /\ buffer = <<>>

\* The call's variables end with the call.
CooForgotten ==
    /\ group' = Root
    /\ positions' = Absent.data
    /\ column' = 0
    /\ ap' = 0
    /\ zp' = 0
    /\ output' = NoMatrix
    /\ row' = 0
    /\ written' = 0
    /\ buffer' = <<>>

--------------------------------------------------------------------------------
(* The conversion, in memory. *)

CooCall(g) ==
    /\ Enter("write_ssmc_coo", "arguments")
    /\ group' = g
    /\ UNCHANGED <<file, handles, scatterVars, generatorVars>>

\* Any empty matrix stands for no Zeros.
ZerosRefused ==
    IF ~problem.has_zeros \/ IsEmpty(problem.z) THEN "none"
    ELSE IF ~problem.z.is_sparse THEN "InvalidZeros"
    ELSE ZerosFault

\* The checks of the arguments, in order; with them accepted nothing fails
\* before the duplicates are found.
Refused ==
    IF ~problem.json THEN "InvalidJSON"
    ELSE IF ~A.is_sparse THEN "InvalidMatrix"
    ELSE ZerosRefused

CooRefuse ==
    /\ Coo("arguments")
    /\ Refused # "none"
    /\ Raise(Refused)
    /\ CooForgotten
    /\ UNCHANGED <<file, handles>>

\* The counts of all rows, summed up: row r begins where the rows before it end.
RowStart(r) ==
    Cardinality({p \in DOMAIN A.rowind : A.rowind[p] < r}) +
    Cardinality({p \in DOMAIN Z.rowind : Z.rowind[p] < r})

\* output_value_type
OutputTypeByRealParts ==                                    \* mutant
    CASE A.is_complex -> IF FitsReal(A.values) THEN "complex32" ELSE "complex64"
      [] OTHER -> IF FitsReal(A.values) THEN "float32" ELSE "float64"
OutputType ==
    CASE A.is_complex -> IF AllFit(A.values) THEN "complex32" ELSE "complex64"
      [] OTHER -> IF AllFit(A.values) THEN "float32" ELSE "float64"

CooCount ==
    /\ Coo("arguments")
    /\ Refused = "none"
    /\ positions' = [r \in 0 .. A.nrows - 1 |-> RowStart(r)]
    /\ output' = [is_iso |-> IsIso,
                  value_type |-> OutputType,
                  values |-> IF IsIso THEN [k \in {0} |-> Held(OutputType, IsoValueOfA)]
                                      ELSE [k \in 0 .. NnzOut - 1 |-> Unset],
                  indices_1 |-> Uninitialised(ExtentType(A.ncols), NnzOut)]
    /\ Proceed("scatter")
    /\ UNCHANGED <<file, handles, group, column, ap, zp, generatorVars>>

\* Entry v of row r in the current column goes to the row's next place.
ScatterOverIso(r, v) ==                                     \* mutant
    /\ output' = [output EXCEPT
                    !.indices_1.data[positions[r]] = Stored(output.indices_1.type, column),
                    !.values = IF output.is_iso THEN @
                               ELSE [@ EXCEPT ![positions[r]] = Held(output.value_type, v)]]
    /\ positions' = IF output.is_iso THEN positions ELSE [positions EXCEPT ![r] = @ + 1]
Scatter(r, v) ==
    /\ output' = [output EXCEPT
                    !.indices_1.data[positions[r]] = Stored(output.indices_1.type, column),
                    !.values = IF output.is_iso THEN @
                               ELSE [@ EXCEPT ![positions[r]] = Held(output.value_type, v)]]
    /\ positions' = [positions EXCEPT ![r] = @ + 1]

TakeA ==
    /\ Coo("scatter") /\ column < A.ncols
    /\ Precedes(A, ap, Z, zp, column)
    /\ Scatter(A.rowind[ap], A.values[ap])
    /\ ap' = ap + 1
    /\ UNCHANGED <<mexVars, group, column, zp, generatorVars>>

TakeZ ==
    /\ Coo("scatter") /\ column < A.ncols
    /\ Precedes(Z, zp, A, ap, column)
    /\ Scatter(Z.rowind[zp], Zero)
    /\ zp' = zp + 1
    /\ UNCHANGED <<mexVars, group, column, ap, generatorVars>>

NextColumn ==
    /\ Coo("scatter") /\ column < A.ncols
    /\ ~Left(A, ap, column) /\ ~Left(Z, zp, column)
    /\ column' = column + 1
    /\ UNCHANGED <<mexVars, group, positions, ap, zp, output, generatorVars>>

CooDuplicate ==
    /\ Coo("scatter") /\ column < A.ncols
    /\ Duplicates(ap, zp, column)
    /\ Raise("DuplicateIndex")
    /\ CooForgotten
    /\ UNCHANGED <<file, handles>>

CooScattered ==
    /\ Coo("scatter") /\ column = A.ncols
    /\ Proceed("open")
    /\ UNCHANGED <<file, handles, cooVars>>

--------------------------------------------------------------------------------
(* write_coo_file. *)

\* The handles a successful open holds.
FileHandles == IF group = Root THEN {"file"} ELSE {"file", "group"}

\* H5Fcreate for the root group, otherwise open or create and H5Gcreate1.
CooOpen ==
    /\ Coo("open")
    /\ IF group = Root
       THEN file' = NewFile
       ELSE /\ ~NameTaken(OpenedFile, group)
            /\ file' = WithObject(OpenedFile, group, EmptyGroup)
    /\ handles' = handles \cup FileHandles
    /\ Proceed("values")
    /\ UNCHANGED cooVars

\* The file does not open, or opens and the group cannot be made.
CooOpenFails ==
    /\ Coo("open")
    /\ \/ MayFail /\ UNCHANGED file
       \/ /\ group # Root
          /\ MayFail \/ NameTaken(OpenedFile, group)
          /\ file' = OpenedFile
    /\ Raise("WriteError")
    /\ CooForgotten
    /\ UNCHANGED handles

\* write_coo_file's end, when a step failed whose own handles are own.
ClosesGroup == IF group = Root THEN {} ELSE {"group"}
CooFail(own) ==
    /\ handles' = handles \ (own \cup ClosesGroup \cup {"file"})
    /\ Raise("WriteError")
    /\ CooForgotten

Put(name, a) ==
    file' = [file EXCEPT !.objects[group] = [@ EXCEPT ![name] = a]]

\* bsp_write_array closes what it opens on every path.
CooWriteArray(step, name, a, next) ==
    /\ Coo(step)
    /\ Put(name, a)
    /\ Proceed(next)
    /\ UNCHANGED <<handles, cooVars>>

\* H5Dcreate2 fails, or H5Dwrite does and the dataset stays.
CooWriteArrayFails(step, name, a, fill) ==
    /\ Coo(step)
    /\ MayFail
    /\ UNCHANGED file \/ Put(name, Unfilled(a, fill))
    /\ CooFail({})

ValuesArray == [type |-> output.value_type, data |-> output.values]

CooValues == CooWriteArray("values", "values", ValuesArray, "dataset")

CooValuesFail == CooWriteArrayFails("values", "values", ValuesArray, Zero)

RowType == ExtentType(A.nrows)

\* How many elements a chunk has.
Capacity ==
    LET elements == ChunkBytes \div (IF RowType = "narrow" THEN 1 ELSE 2)
        atLeastOne == IF elements = 0 THEN 1 ELSE elements
    IN  IF atLeastOne > NnzOut THEN NnzOut ELSE atLeastOne

\* The dataset of the row indices is created; it has its size from the start.
CooRowsDataset ==
    /\ Coo("dataset")
    /\ Put("indices_0", Uninitialised(RowType, NnzOut))
    /\ handles' = handles \cup (IF NnzOut = 0 THEN {} ELSE {"space", "dataset"})
    /\ Proceed(IF NnzOut = 0 THEN "columns" ELSE "fill")
    /\ UNCHANGED cooVars

CooRowsDatasetFails ==
    /\ Coo("dataset")
    /\ MayFail
    /\ CooFail({})
    /\ UNCHANGED file

Generated == written + Len(buffer)      \* the next element to be generated

\* while (row < nrows && written + buffered >= row_ends[row]) row++; the rows end
\* (BSP_ERROR_INTERNAL) only after the entries do.
SkipRow ==
    /\ Coo("fill")
    /\ Len(buffer) < Capacity /\ Generated < NnzOut
    /\ Generated >= positions[row]
    /\ row' = row + 1
    /\ UNCHANGED <<mexVars, group, scatterVars, written, buffer>>

\* The run of the row's indices that is left and that the chunk has room for.
RunToRowEnd == positions[row] - Generated                       \* mutant
Run ==
    LET available == positions[row] - Generated
        room == Capacity - Len(buffer)
    IN  IF available < room THEN available ELSE room

\* fill_indices
Filled(count) == [k \in 1 .. count |-> Stored(RowType, row)]

FillRun ==
    /\ Coo("fill")
    /\ Len(buffer) < Capacity /\ Generated < NnzOut
    /\ Generated < positions[row]
    /\ buffer' = buffer \o Filled(Run)
    /\ UNCHANGED <<mexVars, group, scatterVars, row, written>>

ChunkReady == Coo("fill") /\ (Len(buffer) = Capacity \/ Generated = NnzOut)

\* One hyperslab of the dataset; the memory space is closed either way.
FlushChunk ==
    /\ ChunkReady
    /\ Put("indices_0", [file.objects[group].indices_0 EXCEPT
                !.data = [k \in DOMAIN @ |-> IF k \in written .. Generated - 1
                                             THEN buffer[k - written + 1]
                                             ELSE @[k]]])
    /\ written' = Generated
    /\ buffer' = <<>>
    /\ handles' = IF Generated = NnzOut THEN handles \ {"dataset", "space"} ELSE handles
    /\ Proceed(IF Generated = NnzOut THEN "columns" ELSE "fill")
    /\ UNCHANGED <<group, scatterVars, row>>

ClosedByRows == {"dataset", "space"}

FlushFails ==
    /\ ChunkReady
    /\ MayFail
    /\ CooFail(ClosedByRows)
    /\ UNCHANGED file

CooColumns == CooWriteArray("columns", "indices_1", output.indices_1, "descriptor")

CooColumnsFail == CooWriteArrayFails("columns", "indices_1", output.indices_1, 0)

Descriptor ==
    [format |-> "COO", nrows |-> A.nrows, ncols |-> A.ncols, nnz |-> NnzOut,
     is_iso |-> output.is_iso]

\* bsp_write_attribute reports success whether or not the attribute exists.
CooDescriptor ==
    /\ Coo("descriptor")
    /\ Put("descriptor", Descriptor) \/ (MayFail /\ UNCHANGED file)
    /\ handles' = handles \ (ClosesGroup \cup {"file"})
    /\ Leave([function |-> "write_ssmc_coo", group |-> group])
    /\ CooForgotten

CooNext ==
    \/ \E g \in problem.names : CooCall(g)
    \/ CooRefuse \/ CooCount \/ TakeA \/ TakeZ \/ NextColumn \/ CooDuplicate
    \/ CooScattered \/ CooOpen \/ CooOpenFails \/ CooValues \/ CooValuesFail
    \/ CooRowsDataset \/ CooRowsDatasetFails \/ SkipRow \/ FillRun
    \/ FlushChunk \/ FlushFails \/ CooColumns \/ CooColumnsFail \/ CooDescriptor

--------------------------------------------------------------------------------
(* Properties. *)

\* The scatter: each row's next place is behind exactly those of its entries
\* that were taken so far, which stand in column order, and no row runs into
\* the next one.
RowsFillUp ==
    Coo("scatter") =>
        \A r \in 0 .. A.nrows - 1 :
            /\ positions[r] = RowStart(r) + Cardinality({p \in 0 .. ap - 1 : A.rowind[p] = r})
                                         + Cardinality({p \in 0 .. zp - 1 : Z.rowind[p] = r})
            /\ positions[r] <= RowStart(r + 1)
            /\ LET c == output.indices_1.data
               IN  \A k, l \in RowStart(r) .. positions[r] - 1 : k < l => c[k] < c[l]

\* A group with a coordinate descriptor holds exactly the entries of A and the
\* explicit zeros, sorted by row: whatever size the chunks have, whichever
\* write before it failed and however often it was retried.
CooHolds(o) ==
    LET i == o.indices_0.data
        j == o.indices_1.data
    IN  /\ CooEntries(i, j, o.values.data, o.descriptor.is_iso) = ProblemEntries
        /\ Size(i) = o.descriptor.nnz /\ Size(j) = o.descriptor.nnz
        /\ RowOrdered(i, j)

CooFileFaithful ==
    \A n \in Names :
        LET o == file.objects[n]
        IN  o.kind = "group" /\ o.descriptor.format = "COO" => CooHolds(o)

================================================================================
