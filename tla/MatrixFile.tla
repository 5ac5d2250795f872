------------------------------- MODULE MatrixFile -------------------------------
(******************************************************************************)
(* Writing matrices to and reading them from one HDF5 file: bsp_write_matrix, *)
(* bsp_write_matrix_to_group (src/write_matrix.c) and bsp_read_matrix         *)
(* (src/read_matrix.c), with HDF5 calls that fail and a program that dies in  *)
(* the middle of a write and is started again.                                *)
(*                                                                            *)
(* A matrix is abstracted to its identity: a dataset holds "the values array  *)
(* of m", and the binsparse attribute is "the descriptor of m".  The steps of *)
(* a write are the HDF5 objects it creates.                                   *)
(******************************************************************************)
EXTENDS Naturals, Sequences

CONSTANTS
    Groups,     \* the groups programs use, the root group included
    Root,       \* where bsp_write_matrix writes when its group is NULL
    Matrices,   \* the matrices programs write
    ArraysOf,   \* the arrays of each matrix whose type is not BSP_INVALID_TYPE
    Valid,      \* the matrices whose shape fits their format
    NoMatrix,   \* no object
    Unwritten,  \* a dataset whose H5Dwrite failed: it exists, unfilled
    Faults,     \* what may go wrong, see FaultKinds
    AnyFlushOrder,   \* HDF5 may write objects back in any order
    GroupHandles     \* programs use bsp_write_matrix_to_group on open groups too

FaultKinds == {"open",       \* H5Fcreate, H5Fopen or H5Gcreate1 fails
               "dataset",    \* H5Dcreate2 fails
               "write",      \* H5Dwrite fails
               "attribute",  \* H5Acreate2 or H5Awrite fails
               "read",       \* any HDF5 call of a read fails
               "crash"}      \* the program dies during a write

\* The order of the datasets in bsp_write_matrix_to_group_cjson.
Order == <<"values", "indices_0", "indices_1", "pointers_to_1">>
ArrayNames == {"values", "indices_0", "indices_1", "pointers_to_1"}

ASSUME GroupsAssumption == Root \in Groups
ASSUME ArraysAssumption ==
    /\ ArraysOf \in [Matrices -> SUBSET ArrayNames]
    /\ \A m \in Matrices : "values" \in ArraysOf[m]
ASSUME ValidAssumption == Valid \subseteq Matrices
ASSUME DistinctAssumption ==
    NoMatrix \notin Matrices /\ Unwritten \notin Matrices /\ NoMatrix # Unwritten
ASSUME FaultsAssumption == Faults \subseteq FaultKinds
ASSUME OptionsAssumption == AnyFlushOrder \in BOOLEAN /\ GroupHandles \in BOOLEAN

VARIABLES
    file,      \* "absent", "hdf5", or "damaged": H5Fopen fails on it
    content,   \* its groups, their datasets and binsparse attributes
    before,    \* the content when the write under way opened the file
    step,      \* 0 idle, 1..4 next array of Order, 5 attribute, 6 close
    grp, mat,  \* group and matrix of the write under way
    handle,    \* its group handle is valid
    result     \* what the last call returned

vars == <<file, content, before, step, grp, mat, handle, result>>

--------------------------------------------------------------------------------
(* The file. *)

Nothing == [a \in ArrayNames |-> NoMatrix]

\* A file H5Fcreate has just created or truncated.
RootlessContent ==                                          \* mutant
    [made |-> {}, data |-> [g \in Groups |-> Nothing],
     attr |-> [g \in Groups |-> NoMatrix]]
EmptyContent ==
    [made |-> {Root}, data |-> [g \in Groups |-> Nothing],
     attr |-> [g \in Groups |-> NoMatrix]]

\* The file with dataset a of group g created and holding x.
WithEagerAttribute(c, g, a, x) ==                           \* mutant
    [c EXCEPT !.data[g][a] = x, !.attr[g] = mat]
WithDataset(c, g, a, x) == [c EXCEPT !.data[g][a] = x]

\* H5Dcreate2 refuses a name that is taken.
Overwrites(g, a) == TRUE                                    \* mutant
NameFree(g, a) == content.data[g][a] = NoMatrix

\* The matrix has the array.
SkipsPointers(m, k) == Order[k] \in ArraysOf[m] /\ k # 4    \* mutant
HasArray(m, k) == Order[k] \in ArraysOf[m]

\* What may be on disk of group g when a program died that had opened c and got
\* to d: HDF5 writes the objects back in the order they were created, or, if
\* AnyFlushOrder, each on its own.
FileObjects == ArrayNames \cup {"binsparse"}

Flushed(c, d, g, objects) ==
    [d EXCEPT !.data[g] = [a \in ArrayNames |-> IF a \in objects THEN d.data[g][a]
                                                                ELSE c.data[g][a]],
              !.attr[g] = IF "binsparse" \in objects THEN d.attr[g] ELSE c.attr[g]]

Prefixes == {{Order[k] : k \in 1 .. n} : n \in 0 .. 4} \cup {FileObjects}

OnDisk(c, d, g) ==
    {c} \cup {Flushed(c, d, g, objects) :
                objects \in IF AnyFlushOrder THEN SUBSET FileObjects ELSE Prefixes}

\* The arrays a reader finds for the descriptor of group g.
Complete(c, g) ==
    /\ g \in c.made
    /\ c.attr[g] # NoMatrix
    /\ \A a \in ArraysOf[c.attr[g]] : c.data[g][a] # NoMatrix

\* The matrix a reader puts together from them.
Assembled(c, g) ==
    IF \A a \in ArraysOf[c.attr[g]] : c.data[g][a] = c.attr[g]
    THEN c.attr[g]
    ELSE Unwritten

--------------------------------------------------------------------------------
NoResult == [op |-> "none", group |-> NoMatrix, code |-> "none", matrix |-> NoMatrix]

Result(op, g, code, m) == [op |-> op, group |-> g, code |-> code, matrix |-> m]

Init ==
    /\ file = "absent"
    /\ content = EmptyContent
    /\ before = EmptyContent
    /\ step = 0
    /\ grp = Root
    /\ mat = NoMatrix
    /\ handle = FALSE
    /\ result = NoResult

\* The checks at the top of bsp_write_matrix_to_group_cjson: vector shapes.  They
\* come after the file has been opened, created or truncated.
CheckInput(g, m) ==
    IF m \in Valid
    THEN /\ step' = 1
         /\ grp' = g
         /\ mat' = m
         /\ result' = NoResult
    ELSE /\ result' = Result("write", g, "BSP_ERROR_INVALID_INPUT", NoMatrix)
         /\ UNCHANGED <<step, grp, mat>>

\* bsp_write_matrix with group NULL: H5Fcreate with H5F_ACC_TRUNC, whatever the
\* file holds; a handle that is not valid is found out by the first dataset.
WriteRoot(m) ==
    /\ step = 0
    /\ \/ /\ file' = "hdf5"
          /\ content' = EmptyContent
          /\ before' = EmptyContent
          /\ handle' = TRUE
       \/ /\ "open" \in Faults
          /\ before' = content
          /\ handle' = FALSE
          /\ UNCHANGED <<file, content>>
    /\ CheckInput(Root, m)

\* bsp_write_matrix with a group: open the file or create it, and create the
\* group, which must not exist.
WriteGroup(g, m) ==
    /\ step = 0
    /\ g # Root
    /\ \E opened, created \in (IF "open" \in Faults THEN BOOLEAN ELSE {TRUE}) :
          LET found == IF file = "absent" THEN EmptyContent ELSE content
              usable == opened /\ file # "damaged"
              makes == usable /\ created /\ g \notin found.made
          IN  /\ file' = IF usable THEN "hdf5" ELSE file
              /\ before' = IF usable THEN found ELSE content
              /\ content' = IF makes THEN [found EXCEPT !.made = @ \cup {g}]
                                     ELSE before'
              /\ handle' = makes
    /\ CheckInput(g, m)

\* bsp_write_matrix_to_group on a group of a file the caller has opened.
WriteToGroup(g, m) ==
    /\ GroupHandles
    /\ step = 0
    /\ file = "hdf5"
    /\ g \in content.made
    /\ before' = content
    /\ handle' = TRUE
    /\ CheckInput(g, m)
    /\ UNCHANGED <<file, content>>

\* bsp_write_array of the next array.
WriteArray ==
    /\ step \in 1 .. 4
    /\ HasArray(mat, step)
    /\ handle
    /\ NameFree(grp, Order[step])
    /\ content' = WithDataset(content, grp, Order[step], mat)
    /\ step' = step + 1
    /\ UNCHANGED <<file, before, grp, mat, handle, result>>

\* An array of BSP_INVALID_TYPE.
SkipArray ==
    /\ step \in 1 .. 4
    /\ ~HasArray(mat, step)
    /\ step' = step + 1
    /\ UNCHANGED <<file, content, before, grp, mat, handle, result>>

\* H5Dcreate2 or H5Dwrite fails: BSP_ERROR_IO, the handles are closed and what
\* was created stays.
WriteArrayFails ==
    /\ step \in 1 .. 4
    /\ HasArray(mat, step)
    /\ \/ /\ ~handle \/ ~NameFree(grp, Order[step]) \/ "dataset" \in Faults
          /\ content' = content
       \/ /\ handle /\ NameFree(grp, Order[step]) /\ "write" \in Faults
          /\ content' = WithDataset(content, grp, Order[step], Unwritten)
    /\ step' = 0
    /\ result' = Result("write", grp, "BSP_ERROR_IO", NoMatrix)
    /\ UNCHANGED <<file, before, grp, mat, handle>>

\* bsp_write_attribute looks at no return value and returns BSP_SUCCESS.
WriteAttribute ==
    /\ step = 5
    /\ \/ content' = [content EXCEPT !.attr[grp] = IF @ = NoMatrix THEN mat ELSE @]
       \/ "attribute" \in Faults /\ content' = content
    /\ step' = 6
    /\ UNCHANGED <<file, before, grp, mat, handle, result>>

CloseFile ==
    /\ step = 6
    /\ step' = 0
    /\ result' = Result("write", grp, "BSP_SUCCESS", mat)
    /\ UNCHANGED <<file, content, before, grp, mat, handle>>

\* The program dies with the file open for writing.
Crash ==
    /\ "crash" \in Faults
    /\ step # 0
    /\ \/ /\ file' = "damaged"
          /\ content' = EmptyContent
       \/ /\ content' \in OnDisk(before, content, grp)
          /\ UNCHANGED file
    /\ step' = 0
    /\ result' = NoResult
    /\ UNCHANGED <<before, grp, mat, handle>>

\* bsp_read_matrix: the group must open, have a descriptor, and every dataset
\* the descriptor names must open.
Read(g) ==
    /\ step = 0
    /\ file = "hdf5"
    /\ Complete(content, g)
    /\ result' = Result("read", g, "BSP_SUCCESS", Assembled(content, g))
    /\ UNCHANGED <<file, content, before, step, grp, mat, handle>>

ReadFails(g) ==
    /\ step = 0
    /\ \/ /\ \/ file # "hdf5"
             \/ g \notin content.made
             \/ content.attr[g] # NoMatrix /\ ~Complete(content, g)
             \/ "read" \in Faults
          /\ result' = Result("read", g, "BSP_ERROR_IO", NoMatrix)
       \/ /\ file = "hdf5"
          /\ g \in content.made
          /\ content.attr[g] = NoMatrix
          /\ result' = Result("read", g, "BSP_ERROR_FORMAT", NoMatrix)
    /\ UNCHANGED <<file, content, before, step, grp, mat, handle>>

Next ==
    \/ \E m \in Matrices : WriteRoot(m)
    \/ \E g \in Groups, m \in Matrices : WriteGroup(g, m) \/ WriteToGroup(g, m)
    \/ WriteArray \/ SkipArray \/ WriteArrayFails \/ WriteAttribute \/ CloseFile
    \/ Crash
    \/ \E g \in Groups : Read(g) \/ ReadFails(g)

Spec == Init /\ [][Next]_vars

--------------------------------------------------------------------------------
(* Properties. *)

Contents == [made : SUBSET Groups,
             data : [Groups -> [ArrayNames -> Matrices \cup {NoMatrix, Unwritten}]],
             attr : [Groups -> Matrices \cup {NoMatrix}]]

\* The types of the variables; every file of HDF5's has a root group, and only a
\* matrix that passed the shape checks gets as far as its datasets.
TypeOK ==
    /\ file \in {"absent", "hdf5", "damaged"}
    /\ content \in Contents
    /\ before \in Contents
    /\ Root \in content.made \cap before.made
    /\ step \in 0 .. 6
    /\ grp \in Groups
    /\ mat \in Matrices \cup {NoMatrix}
    /\ step # 0 => mat \in Valid
    /\ handle \in BOOLEAN
    /\ result.code = "BSP_SUCCESS" => result.op \in {"read", "write"}

\* A read that succeeds returns one whole matrix some write was given: never
\* arrays of two writes and never a dataset whose H5Dwrite failed, whatever
\* failed, crashed or was retried before.
ReadIsSomeWrite ==
    result.op = "read" /\ result.code = "BSP_SUCCESS" => result.matrix \in Valid

\* A write that returned BSP_SUCCESS can be read back.
WriteSuccessMeansReadable ==
    result.op = "write" /\ result.code = "BSP_SUCCESS" =>
        /\ file = "hdf5"
        /\ Complete(content, result.group)
        /\ Assembled(content, result.group) = result.matrix

\* A group in which a write failed half-way is lost until the file is: the retry
\* stops at the dataset that is already there, so that no write completes the
\* arrays of another one.
HalfWrittenIsStuck == step > 1 => before.data[grp]["values"] = NoMatrix

\* The file implements the store of whole matrices.  A write counts from the
\* moment it returns.
Committed == IF step = 0 THEN content ELSE before

Store == INSTANCE MatrixStore WITH
    store <- [g \in Groups |-> IF Complete(Committed, g) THEN Assembled(Committed, g)
                                                        ELSE NoMatrix],
    reply <- [op |-> result.op, group |-> result.group,
              ok |-> result.code = "BSP_SUCCESS", matrix |-> result.matrix]

ImplementsStore == Store!Spec

================================================================================
