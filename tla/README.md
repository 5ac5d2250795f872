# Formal models of binsparse-reference-c

TLA+ models of the Binsparse reference library in C, checked with TLC; the safety
of the parallel reader, the file, the format conversions, the MATLAB bindings (but
for the decoding of text) and the command-line programs is proved with TLAPS.
Paths below are relative to the
repository's root (`src/write_matrix.c` is the library's source file of that
name, `include/binsparse/...` its headers).

## Inventory

The library reads and writes sparse matrices as groups of HDF5 files: one
dataset per array and a JSON descriptor in an attribute.

| component | state | operations | interacts with |
|---|---|---|---|
| parallel array reader (`hdf5_wrapper.h:94-204`, `shm_tools.h`) | two shared memory segments, an atomic counter, one process per slice | `bsp_read_array_parallel` | HDF5, the kernel (fork, shmget/shmat), its caller through `array->data` |
| serial array reader (`hdf5_wrapper.h:207-273`) | none beyond the call | `bsp_read_array_allocator` | HDF5, the caller's allocator |
| matrix file writer (`write_matrix.c`, `hdf5_wrapper.h:25-92, 280-301`) | the HDF5 file | `bsp_write_matrix(_to_group)(_cjson)` | HDF5, cJSON, later runs of the program through the file |
| matrix file reader (`read_matrix.c`) | the matrix under construction, the parsed descriptor | `bsp_read_matrix(_from_group)(_parallel)` | both array readers, cJSON, version check, Matrix Market reader |
| format conversion (`convert_matrix.h`, `coo_sort_tools.h`) | arrays of source and result, a static variable of the comparison functions | `bsp_convert_matrix` | `array.h`'s typed reads and writes, qsort |
| value minimisation (`minimize_values.h`, `declamp_values.h`) | the values array | `bsp_matrix_minimize_values`, `bsp_matrix_declamp_values` | `array.h` |
| Matrix Market (`matrix_market/*.h`) | a text file, the matrix under construction | `bsp_mmread`, `bsp_mmwrite` | the sort of the conversions |
| version check (`version.c`) | none | `bsp_check_version_compatible` | semver (vendored) |
| tensors (`read_tensor.c`, `write_tensor.c`, `tensor.h`) | a tree of levels | `bsp_read_tensor`, `bsp_write_tensor` | serial array reader and writer, cJSON |
| MATLAB/Octave bindings (`bindings/matlab`) | mxArrays and views of them, open HDF5 handles | `binsparse_read`, `binsparse_write`, `binsparse_minimize_types`, `binsparse_write_string_dataset`, `binsparse_read_string_dataset` | the library, with two allocators; MATLAB, whose errors end a call from anywhere |
| SuiteSparse conversion (`binsparse_write_ssmc_coo.c`, `binsparse_from_ssmc.c`) | counters of a scatter, a chunk of row indices; a CSC matrix being merged | one MEX function each: straight into a file, or into a struct | `A` and `Zeros` of a problem of the collection; the file; the minimiser |
| programs (`examples/*.c`, including `examples/tensor_test.c`) | one or two matrices | `mtx2bsp`, `bsp2mtx`, `check_equivalence(_parallel)`, `benchmark_read(_parallel)`, `tensor_test` | the library; each other through files |
| generation, compliance reformatter, C++ examples | none | command lines | the library |

What is hard here:

* **Concurrency.** The parallel reader shares memory between forked processes
  and synchronises them with one counter.
* **Partial failure.** Every HDF5, kernel and allocator call can fail, and a
  matrix is several objects in a file and several arrays in memory.
* **Crash and retry.** A file outlives the program: a write that stopped half-way
  is found by the next run.
* **Widths and layouts.** Conversions choose index types, copy elements between
  types and sort; text is UTF-16 in MATLAB and UTF-8 in a file.
* **Two of everything.** There are two readers, two ways from the SuiteSparse
  collection to a file, and a comparison program that shares its reader with the
  program it checks.
* **Ownership.** Views of MATLAB's memory, arrays of two allocators and structs
  that take arrays over go through one destructor.

What makes each component correct:

* parallel reader: the slices partition the dataset; success means all of it is
  there; nobody writes the array once the caller has it; the call returns and
  gives the segments back; it is interchangeable with the serial reader;
* file writer and reader: success means readable; a read returns one matrix that
  was written, never parts of two; failures and crashes leave other groups alone;
* reader in memory: on every path each array, string and JSON object is freed
  once or handed to the caller;
* conversion: the same set of (row, column, value) entries, in the order the
  format demands, in index types wide enough; no element read or written out of
  bounds; memory freed on failure;
* minimisation: same values, narrowest type;
* Matrix Market: what was in the text is in the matrix and back;
* tensors: the tensor written is the tensor read, every array under its own key;
* SuiteSparse conversion: the file and the struct have exactly the entries of `A`
  and the explicit zeros, and agree with each other;
* MATLAB calls: handles are closed and memory is freed once however a call ends;
  a finished component of a file is never damaged by a later call;
* programs: what is converted, judged equivalent and converted back is the same
  matrix, and no input kills them
  (`DeathsExplained` lists those that do).

## Modules

| module | models | state and actions |
|---|---|---|
| `ArrayRead` | a serial read as its caller sees it | returns all elements or an error, then may be destroyed |
| `ParallelRead` | `bsp_read_array_parallel` | see below; refines `ArrayRead` |
| `ParallelRead_proofs` | theorems about `ParallelRead` | |
| `MatrixFile_proofs` | theorems about `MatrixFile` | |
| `MatrixStore` | what users of the file may rely on | a map from groups to whole matrices |
| `MatrixFile` | `bsp_write_matrix`, `bsp_write_matrix_to_group`, `bsp_read_matrix` on one file | see below; refines `MatrixStore` |
| `ConvertMatrix` | `bsp_convert_matrix` between COOR, CSR and CSC | see below |
| `ConvertMatrix_proofs` | theorems about the memory, the loop counters and the entries of `ConvertMatrix` | |
| `MCConvertMatrix` | instance of `ConvertMatrix` for TLC | every sparsity pattern of some shapes, as a matrix of each format |
| `MCMatrixFile` | instance of `MatrixFile` for TLC | four matrices: dense vector, COO, CSR, a vector of the wrong shape |
| `IndexTypes` | `bsp_pick_integer_type`, the widths of indices | no state; used by all modules below and `ConvertMatrix` |
| `CsrMatrix` | the CSR matrices that a conversion makes, and what one denotes | no state; used by `Programs` and `FromSsmc` |
| `Values` | numbers, `minimize_values.h`, float casts | no state |
| `Programs` | how a program of `examples/` runs: its calls, `BSP_CHECK`, death | see Tools |
| `ReadMatrix` | `bsp_read_matrix`, `bsp_read_matrix_parallel`, `version.c` | see Tools |
| `MatrixMarket` | `bsp_mmread`, `bsp_mmwrite` | see Tools |
| `TensorFile` | `bsp_read_tensor`, `bsp_write_tensor`, `bsp_destroy_tensor_t` | see Tools |
| `Tools` | the programs, composed of the four above | see Tools |
| `Tools_proofs` | theorems about sessions of programs: their calls, their memory, the two readers, the tensor that is copied | |
| `Texts_proofs` | theorems about the matrix that `bsp_mmread` reads, the files that `mtx2bsp` and `bsp2mtx` make of it, the verdicts of `check_equivalence` and the deaths of programs; extends `Tools_proofs` | |
| `MCTools` | instance of `Tools` for TLC | texts, files and tensors |
| `MexCall` | what MEX calls share: the file, open handles, errors | see Mex |
| `Ssmc` | `A` and `Zeros`, and what they denote | no state of its own |
| `SsmcCoo` | `binsparse_write_ssmc_coo` | see Mex |
| `FromSsmc` | `binsparse_from_ssmc` | see Mex |
| `MatlabMinimize` | `binsparse_minimize_types`, `binsparse_write`, `binsparse_read` | see Mex |
| `TextDataset` | `binsparse_write_string_dataset`, `binsparse_read_string_dataset`, `matlab_bsp_strings.h` | see Mex |
| `Mex` | a session of all MEX functions on one file | see Mex |
| `Mex_proofs` | theorems about sessions: handles, finished objects, the minimiser's memory | |
| `Ssmc_proofs` | theorems about the loops of both SuiteSparse conversions, lemmas about what `SsmcCoo` scatters and writes; extends `Mex_proofs` | |
| `Structs_proofs` | theorems about the entries of structs and files, and the minimiser; extends `Ssmc_proofs` | |
| `MCMex` | instance of `Mex` for TLC | matrices, structs and texts |

### ParallelRead

`num_threads` and `size` are the call's inputs, `pc[p]` the program counter of
process `p` (0 is the caller; the child with `thread_num = p` is process `p`),
`i` the loop variable of the fork loop, `active_children` the shared counter,
`attached` who has which segment mapped, `status` what the call returned. An
element is its offset: `cursor[p]` is the next one `H5Dread` of process `p`
stores, `visible` those the parent sees in `array->data`, `buffer[p]` those a
child has stored and the parent does not see yet. That buffer is what a relaxed
atomic permits: `memory_order_relaxed` orders nothing, so with
`RmwIsFence = FALSE` a decrement may become visible before the stores that
precede it. On x86 the locked instruction drains the store buffer:
`RmwIsFence = TRUE`. Other languages' memory models (speculative loads, values
out of thin air) do not matter to this code: the parent only loads elements
after its `atomic_load`, which is sequentially consistent.

Actions follow the function from top to bottom: `OpenFails`, `ReturnEmpty`,
`MapSegments`, `Fork`/`ForkFails`/`EndFork`, then per process `StoreElement`,
`EndRead`/`ReadFails`, for a child `Decrement` and `Exit`, for the parent
`EndWait`; `DestroyArray` is the caller's `bsp_destroy_array_t`. `Die` and
`Drain` are the environment's. `H5Dread` is element by element, so that a
failure, a death or a return can fall between any two stores. A failed `fork`
is what the code makes of it: `-1 != 0`, so the parent takes it for a child and
goes on. A failed `shmat` leaves `(void*) -1`: for the counter the next store
faults, for the elements `H5Dread` fails with `EFAULT` or faults.

The serial reader's description, `ArrayRead`, is instantiated with `contents`
the visible offsets once the call has returned: the intermediate steps of the
parallel reader are stutters, its return is `ReturnElements` or `ReturnError`.

### MatrixFile

`content` has, per HDF5 group, the matrix whose array each dataset holds
(`NoMatrix`: no dataset, `Unwritten`: created but never filled), the matrix the
`binsparse` attribute describes, and which groups exist. A write is `WriteRoot`
(`H5F_ACC_TRUNC`), `WriteGroup` (open or create, then `H5Gcreate1`) or
`WriteToGroup` (the library's entry point for callers with their own handle),
followed by `WriteArray`/`SkipArray`/`WriteArrayFails` per array in the order of
`bsp_write_matrix_to_group_cjson`, `WriteAttribute` and `CloseFile`. The opening
actions include the shape checks of `write_matrix.c:102-107`, which run after
the file has been truncated or the group created. An `H5Gcreate1` or
`H5Fopen` that fails is noticed only by the first `H5Dcreate2`: `handle`.

`Crash` is the program's death during a write. What is on disk then is HDF5's
business: the file as it was before the write, the file with a prefix of the
objects written, with `AnyFlushOrder` any subset of them, or a file HDF5 cannot
open. The next actions are those of the program's next run.

`Read` and `ReadFails` are a whole `bsp_read_matrix`: nobody else has the file
open meanwhile, so its steps cannot be told apart. A read fails with
`BSP_ERROR_FORMAT` where the attribute is missing and `BSP_ERROR_IO` elsewhere.

`MatrixStore` sees the file's content as a map from groups to matrices. A group
maps to a matrix when the descriptor and every array it names are there; during
a write it still has the content from before.

### ConvertMatrix

A call is a sequence of stages named for what they allocate or do, in the order
of the branch of `bsp_convert_matrix_allocator` that converts `matrix.format` to
`To`; CSR <-> CSC are two calls, the inner one's result (`Owner` is
"intermediate") becoming the outer one's `matrix`. The branches share the
actions they have in common: `CopyValues`, `CopyMinor` (the index array of the
dimension that is not compressed), `AllocateMajor` and `ExpandPointers` for
COOR, `AllocateIndices` and `Sort` for CSC -> COOR and COOR -> CSC,
`AllocateSorted` and `Permute` for the former, and `AllocatePointers`,
`AdvanceRow`, `NextEntry`, `FinishRows` for the pointers of CSR and CSC (their
loop counters are `r`, the row or column, and `c`, the entry, in both).
`AllocationFails` is every error branch: what it destroys is in `CleanupToCOOR`,
`CleanupToCSR` and `CleanupToCSC`. `live` is the heap, one element per array.

There are two index types (`IndexTypes`), with maxima `NarrowMax` and
`(NarrowMax + 1)^2 - 1`, which stand for adjacent unsigned types.
`bsp_array_read` and `bsp_array_write` convert between them (`Stored`: modulo the
width); `bsp_array_awrite` takes the bytes of one for the other (`Element`: two
narrow elements make a wide one, memory behind the array is `Junk`). Values are
moved only between arrays of one type and are identities; qsort is any
permutation that the comparison function accepts.

The branches CSR -> COOR and COOR -> CSR copy an array of the right type
with `memcpy` and convert any other element by element; the result is the same,
so they are one action. The order of a failed allocation and the loops between
two allocations is kept. `outcome` is "aborted" when an inner conversion has
failed: its default matrix has no values (`BSP_INVALID_TYPE`), and
`bsp_type_size` asserts on that, if the uninitialised format has not stopped the
outer call before.

### Tools

A session is a list of programs that run one after the other on the same files:
the Matrix Market file it is given (`input.text`), the Binsparse file (`file`)
and the Matrix Market file made from that (`copy`). A program is the sequence of
its library calls (`Script`): `calls` are those it still has to make, `step` is
where the one under way is, or the error code it returned. `matrix` is the
program's matrix, `live` the blocks of memory that its calls have allocated, so
that `Pointed(matrix) \ live` are dangling pointers; `ended` records how
the programs before it ended, whether anything had failed in them, and what
they left allocated. A program ends with its exit status, in `BSP_CHECK`, in a
failed assertion (`"abort"`), by a signal (`"crash"`) or, once it uses memory
that it does not own or has never written, in `"undefined"`: nothing is claimed
of what it does after that.

`ReadMatrix` has the two readers: `ReadOpen`, `ReadDescriptor` (or `ReadAsserts`
where the parallel one asserts, `ReadCrashes` where a string is NULL),
`ReadArray`/`ReadArrayFails` per array, `ReadReturns`. A file is the matrix it
describes, the datasets that exist, and at most one flaw of its descriptor besides
its version: a part that is missing, or one of the wrong JSON type (`"nnz_type"` and
the like), which the serial reader refuses just so and the parallel one, which
asserts only that the part is there, does not. `DescriptorError` has the checks in
the order of `read_matrix.c`. `Supported` is what `"0.1"`
parses to. `MatrixMarket` has `bsp_mmread` allocation by allocation (`MmOrder`),
with its lines as one step, the sort as any permutation that its comparison
accepts (`Sorts`), and `bsp_mmwrite` as one step that writes or fails.
`TensorFile` reads level by level: `DepthRead` is the dimension that the keys of
a level are numbered from, which the writer counts again (`WrittenKeys`). Each key is
terminated one byte behind its memory (`read_tensor.c:29`), which nobody may notice
or the program may die of: `TensorReadOverruns`, `TensorWriteOverruns`.
`Tools` adds the steps of the programs themselves: `DeclampValues`,
`MinimizeValues`, `Convert`, `WriteFile`, `Compare` (`Verdict` is
`check_equivalence`'s), `ToCoo`. `Convert` keeps the assertion of
`convert_matrix.h:378` (`RowBeyond`), and conversions to COO the pointers of a file as
they are: `RowsMissing` are rows that no pointer reaches, which stay uninitialised,
`RowsBeyond` those written behind the array. What `MatrixFile` and `ConvertMatrix` show of a
write and a conversion is taken from there: here each is one step that succeeds
or fails.

### Mex

A session calls the MEX functions of `problem.calls`, in any order and any number
of times, on one output file. `call` and `stage` are the function under way and
its next step; `handles` the HDF5 objects that are open; `raised` the identifier
of the last error, after which `mexErrMsgIdAndTxt` has left the call from
wherever it was: MATLAB frees what `mxMalloc` gave, nothing closes a handle.

`SsmcCoo` follows `binsparse_write_ssmc_coo`. `CooCount` counts the rows,
`TakeA`, `TakeZ` and `NextColumn` are the scatter (`positions` is
`row_positions`), then the file is written array by array. The row indices are
never an array in memory: `SkipRow`, `FillRun` and `FlushChunk` generate them
from the ends of the rows, `ChunkBytes` at a time. `FromSsmc` merges the columns
(`MergeA`, `MergeZ`, `MergeColumn`) into a CSC matrix, which the library
converts to COO or, by way of COO, to CSR. `Ssmc` has what both share and what the
problem denotes (`ProblemEntries`). They do not treat `Zeros` alike: the coordinate
writer takes any empty matrix for none and refuses one that is not sparse
(`SsmcCoo`'s `ZerosRefused`), `binsparse_from_ssmc` ignores one that is not sparse
(`HasZeros`) and refuses an empty sparse one of another shape (`SsmcRefuse`). `PathsAgree`
compares what both accept.

`MatlabMinimize` has the views: `memory[f]` is the block that array `f` of the
matrix is in, named for who allocated it, `freed` what the call has freed and
`given` the blocks of the struct it returns. `MinimizeValues`,
`MinimizeIndices` and `MinimizeIso` replace arrays, `MinReturn` hands over or
copies what there is and destroys the rest. `WriteStruct` and `ReadStruct` are
whole calls of `binsparse_write` and `binsparse_read`; a vector that has not the shape
of one (`Misshapen`, `write_matrix.c:102-107`) is refused once the file has been
truncated or the group created.

`TextDataset` encodes, writes, reads and decodes char matrices and cell arrays,
one action per HDF5 call. Characters are the seven classes that are encoded
differently; bytes are lead bytes, which know how many continuation bytes
follow, and continuation bytes.

## Runs

| run | constants | shows |
|---|---|---|
| `parallel_faults` | 4 processes, sizes 0, 1, 3, 5, all faults | `TypeOK`, `SlicesDisjoint`, `LostChildBlocksReturn`, the inductive invariant `IInv`, `QuietAfterReturn` |
| `parallel_serial` | 4 processes, sizes 0 to 5, no failing read or mapping | `SuccessMeansComplete`, `ImplementsSerial` |
| `parallel_live` | 3 processes, sizes 0, 1, 3, 4, failing opens, relaxed memory | `Returns`, `SegmentsReclaimed`, `CompleteInTheEnd` |
| `parallel_reordered` | 2 processes, relaxed memory | violates `SuccessMeansComplete` |
| `parallel_unchecked` | 2 processes, failing mappings | violates `SuccessMeansComplete` |
| `file_faults` | 2 groups, 4 matrices, all faults | `TypeOK`, `ReadIsSomeWrite`, `HalfWrittenIsStuck` |
| `file_store` | 2 groups, 4 matrices, all faults but the attribute's, any write-back order | `WriteSuccessMeansReadable`, `ImplementsStore` |
| `file_attribute` | failing attributes | violates `WriteSuccessMeansReadable` |
| `convert_all` | shapes 2x3, 3x2, 5x1, 0x2, up to 5 entries, `NarrowMax` = 3, failing allocations | `TypeOK`, `FaithfulWhereTypesFit`, `NothingLeaks`, `SourcesLive` |
| `convert_types` | shape 2x3, 4 or 5 entries, iso, wide indices | violates `ConversionFaithful` |
| `mex` | `NarrowMax` = 3, chunks of 2 bytes, shapes 2x2, 5x1, 1x5, 0x1, 1x0, `A` and `Zeros` of up to 3 entries together (4 for the CSR structs), 5498 initial states, every HDF5 failure | `TypeOK`, `HandlesClosed`, `RowsFillUp`, `CooFileFaithful`, `StructFaithful`, `MemoryAccounted`, `MinimizedFaithful`, `TextReadsBack`, `PathsAgree`, `FinishedStays` |
| `tools` | `NarrowMax` = 3, 905 sessions, every failure | `TypeOK`, `ReadOwnership`, `ReadersAgree`, `MmReadFaithful`, `FileFaithful`, `VerdictRight`, `CopyFaithful`, `DeathsExplained`, `TensorCopied`, `TensorAccepted` |

Bounds. The slices' arithmetic depends on the remainder of the size by the
number of processes: with sizes up to five and up to four processes there are
empty slices, short last slices, more processes than elements and exact
divisions (the theorems cover all sizes and numbers of processes). Two groups
tell the root group, which truncates, from the others, which do not; four
matrices cover every combination of arrays the formats have, and let a retry
write another matrix than the failed one. The number of writes, crashes and
reads is unbounded.

For conversions `NarrowMax` = 3 puts the boundary between the index types where
small matrices cross it in both ways the code meets: by a dimension (5x1, the
"tall and skinny" case of `convert_matrix.h:66`) and by the number of entries
(four or five in 2x3). The shapes have empty rows and columns everywhere, rows
with several entries, more rows than columns and the reverse, and no rows at all;
0 entries make empty arrays, which are NULL.

`mex`: two columns with two rows have every way in which the entries of `A` and
`Zeros` can follow, precede and hit each other; 5x1 and 1x5 have row and column
indices and dimensions at the boundary of the narrow type. Chunks of two narrow
elements, or one wide one, end inside rows, at their ends and at the end of the
matrix. Values are all equal, different, not representable as a float, NaN and
complex with either part at fault; structs made by hand have index arrays of
every class with negative and large values; texts are all rows of up to three
characters of the seven classes, matrices of two rows, cell arrays, and texts of
other programs (padded with blanks, ragged, malformed). Four equal values in 2x2
are one more than the narrow type counts, which is the pointers' type in CSR; so that
the exception in `StructFaithful` is met, and four different values beside it, for which
there is none. `Zeros` are also dense, empty, and empty and complex; vectors made by
hand are of the right shape and of both wrong ones. Most sessions write to
one name; one writes matrices, and one matrices and texts, to two. Sessions
have no end: every call can be repeated after every failure.

`tools`: coordinate files of each type with the values that minimising and
declamping tell apart, out of order; a pattern whose four entries do not fit its
pointers' type; dense files 2x2, 1x3, 3x1, 2x3 and 0x2; files without entries,
with too few and too many lines, with rows and columns outside their shape, with
headers that no reader is meant for.
Each is converted to COOR and to CSR, compared, converted back and compared
again, as `test/bash/test.sh` does, and compared by the parallel program.
Binsparse files that other programs wrote have every flaw and every wrong JSON type
together with every kind of version, every missing dataset, pointers that descend, miss
entries or go beyond them, and structures that Matrix Market does not know. Tensors
are seven chains of levels, for three ranks, with and without transposition,
with datasets missing.

The runs of `ParallelRead` do not check for deadlock: the call ends, and with a
lost child it hangs by design of the code (`LostChildBlocksReturn` says
precisely when). A conversion ends with `Over`, so its runs check for deadlock:
no call gets stuck, in particular not at the assertions of
`convert_matrix.h:378, 482`. `MatrixFile` never stops, and its runs check it. So does
`mex` (a session never stops but at a failed assertion, `Aborted`) and `tools` (a
session ends when its programs have, `Over`): no call gets stuck in the middle.

Fairness. `Returns`, `SegmentsReclaimed` and `CompleteInTheEnd` assume that the
operating system keeps scheduling every process (weak fairness of each process's
own steps) and that a store reaches memory in finite time (weak fairness of
`Drain`). Nothing is assumed of faults or of the caller, who need not destroy
the array. The parent's spin reads an atomic and has no other progress
condition. `mex` and `tools` state safety only: their programs are sequential, and
what they could wait for is the parallel reader.

### Disagreements found

Four runs end in violations.

* `parallel_unchecked`, `file_attribute`: what `BSP_SUCCESS` means. The results
  of `shmget`/`shmat` (`hdf5_wrapper.h:145`), of `H5Dread`
  (`hdf5_wrapper.h:182`; the run's trace drops both) and of
  `H5Acreate2`/`H5Awrite` (`hdf5_wrapper.h:290`) are dropped, while
  `error.h:15-18` names error codes for them and the serial reader returns them.
* `parallel_reordered`: the relaxed decrement (`hdf5_wrapper.h:191`).
* `convert_types`: `bsp_array_awrite` between index arrays of different types
  (`convert_matrix.h:457`; `SameIndexType` says when they are the same), and the
  index type for the pointers of an iso matrix (`convert_matrix.h:314`;
  `PointersFit` says when it suffices).

`FaithfulWhereTypesFit` is `ConversionFaithful` under those two conditions: there
is no third way for a conversion to lose or move an entry on these instances.

Other behaviour that a user may not expect is part of passing properties, named
with each item: most state the exact condition, so that a change of the code in
either direction breaks them.

* A dense Matrix Market file is read transposed unless it is square or a vector, and is
  then another matrix if its values differ from each other (`matrix_market_read.h:81`;
  `MmReadFaithful`, `FileFaithful`).
  `check_equivalence` cannot notice, as it reads the file with the same function
  (`VerdictRight`).
* `mtx2bsp` to CSR overflows the pointers of a pattern (`convert_matrix.h:314`
  end to end; `FileFaithful`), and dies of an integer file without entries
  (`minimize_values.h:46`; `DeathsExplained`).
* `bsp_mmwrite` writes every iso matrix as a pattern: a value other than 1 is lost
  (`matrix_market_write.h:36`; `CopyFaithful`).
* Where the serial reader returns `BSP_ERROR_FORMAT`, the parallel one fails an
  assertion if a part of the descriptor is missing; accepts a format that nobody
  knows, as `assert(format != 0)` does not compare with `BSP_INVALID_FORMAT`; reads
  some number of entries from what is no number, and no array at all from a `data_types`
  that is no object; and crashes on a format that is no string (`read_matrix.c:103,
  115, 133`; `ReadersAgree`, whose `ParallelEnd` has the cases). On shapes they agree,
  as both check the type of each dimension.
* Indices and pointers of files are not checked: a line whose row is outside the matrix
  aborts `mtx2bsp` to CSR (`convert_matrix.h:378`), and pointers beyond the number of
  entries make the conversion to COO write behind its array (`convert_matrix.h:106-113`;
  `DeathsExplained`).
* Every name of a tensor's dataset overruns its memory by one byte (`read_tensor.c:29`;
  `DeathsExplained`, `TensorAccepted`).
* A CSR struct of `binsparse_from_ssmc` loses entries if all are equal and they are more than
  the index type of the larger dimension counts (`convert_matrix.h:313-317`, here without
  an error and on the way to a file; `StructFaithful`).
* After an error the matrix keeps pointers to the arrays that were freed, so the
  caller must not destroy it; the parsed descriptor is not freed on two error
  paths (`ReadOwnership`).
* When memory is short `bsp_mmread` returns no error but a default matrix, one
  with dangling pointers or an unsorted one (`MmReadFaithful`).
* `bsp_read_tensor` reports no failure in the middle of a tensor, and
  `tensor_test` looks at no error (`TensorAccepted`); `bsp_write_tensor`
  dereferences the transposition of a tensor that has none.
* `binsparse_from_ssmc(A, 'DMATC')` of a sparse `A` is not refused, and ends in the
  assertion of `bsp_convert_matrix` (an action, `SsmcAborts`, and no property).
* A text's trailing NULs are lost in a char matrix, and only there
  (`TextReadsBack`, whose `Exact` says which texts).

One more behaviour is worth knowing though no run states it: combine any
write-back order with `bsp_write_matrix_to_group` on a group that a crash left
with a descriptor but without arrays. The new arrays are written, the new
descriptor is refused because there is one, the refusal is ignored, and a reader
combines the old descriptor with the new arrays. Nothing in the repository calls
`bsp_write_matrix_to_group` on an existing group, so `file_store` leaves it out
(`GroupHandles = FALSE`) and `file_faults` has it only with ordered write-back.

## Proofs

`ParallelRead_proofs` proves, for every `MaxThreads`, set of `Sizes`, kind of
memory and set of faults:

* `InductiveInvariant`: `Spec => []IInv`. `IInv` is the conjunction of `TypeOK`;
  `ControlInv` (which control points go together); `StoresInv` (each process has
  stored a prefix of its slice, split between its buffer and the visible
  elements); `CounterInv` (the counter is the cardinality of `Pending`, the
  children that have not decremented, and a successful return saw none);
  `FenceInv` (a child that has decremented has an empty buffer, if the decrement
  drains it). The counter's meaning is what none of the others gives: without it
  the parent's exit from the loop says nothing about the children.
* `TypeCorrect`, `SlicesAreDisjoint`, `LostChildHangs`: consequences of `IInv`;
  disjointness also needs that a slice ends before the next begins
  (`SlicesOrdered`, from `ProductMonotone` and integer division).
* `ReturnedArrayIsQuiet` (assuming `RmwIsFence`): after the return every buffer
  is empty.
* `CompleteOnSuccess` (assuming `RmwIsFence` and no failing read or mapping):
  it rests on a second invariant, `SliceIInv`, which adds to `IInv` that a process past
  its read has stored its whole slice; with `SlicesCover` the union of the slices is the
  dataset.
* `ParallelImplementsSerial` (same assumptions): initial states map to initial
  states and each step to a return, a destruction or a stutter.

Both assumptions are necessary: the violating runs are the counterexamples.

`MatrixFile_proofs`, for every set of groups, matrices and faults:

* `FileTypeCorrect`, and `HalfWrittenStaysStuck` (from `HalfInv`: a group that has
  a dataset and no descriptor, and is not being written, stays so until the file is
  replaced).
* `FileInvariant`: `FileInv` says that a group with a descriptor has datasets of
  that one matrix only, that groups other than the one being written are as they were,
  and that `before`, to which a crash may return, has the same properties. The
  last part is what makes it inductive: what a crash leaves is put together from `before` and
  `content`, so both must be sound, and they may differ in one group.
* `ReadsAreWrites`, `SuccessIsReadable` and the refinement `FileImplementsStore`
  follow from it.

`FileInvariant` and what follows from it assume `WritesKeptInOrder`, which is
`~(AnyFlushOrder /\ GroupHandles)`: with both, the mixture described above is a
behaviour, so the assumption cannot be dropped. Nothing in the repository makes `GroupHandles` true on an
existing group. `SuccessIsReadable` and the refinement assume
`"attribute" \notin Faults`, for which `file_attribute` is the counterexample.

`ConvertMatrix_proofs`, for every set of matrices with the fields of `bsp_matrix_t`
(`MatricesAssumption`), targets and failures: `ConversionInvariant`,
`ConversionTypeCorrect`, `ConversionLeaksNothing`, `ConversionSourcesLive`. `HeldTo`
is the set of arrays each stage of each branch has obtained, and
`ConvertInv` says that what is allocated is the matrix that was found, and
those. The cleanups are lists of the code, so the proof compares each one
with `HeldTo` of the stage that it is reached from.

`ConversionKeepsEntries`, in the same module, is `FaithfulWhereTypesFit` for every set
of well-formed matrices (`WellFormedAssumption`: indices and pointers within the shape,
one value per entry or one for all, the order of the format, every entry once). Its
two hypotheses, `PointersFit` and `SameIndexType`, are in the property itself; a conversion for
which one does not hold is a counterexample of `convert_types`. The invariant
`EntriesInv` has a part for each loop:

* `FoundInv`: the matrix that is read is well-formed and has the entries of the caller's, also
  when it is the intermediate one.
* `ExpandInv`, to COOR: the entries of the rows (columns) before `r` have that row as
  their index (`Expanded`). No entry is in two rows, since the pointers ascend
  (`OneOwner`), so that at the end the coordinates are the source's entries (`Placed`).
* The sort is any permutation that the comparison accepts. It is an injection of a finite set into
  itself, so it reaches every entry (`OrderReaches`, from `FS_Injection`), and as the entries
  are distinct, an order that the comparison accepts is strict.
* `CompressInv`, from COOR: `Taken` is the order in which the entries are moved, and `Built` says of each
  pointer set so far that the entries before it are in earlier rows and those from it on are
  not. It says it of all entries and not only of those before `c`, which is why it needs
  `Ascending`; at the end the pointers delimit the rows (`PointersDelimit`).
* `TypeHolds`: no index or pointer is reduced by its type. This is where the hypotheses
  are used, and where the shape must be one that the widest type counts.

`Mex_proofs`, for every set of problems:

* `SessionClosesHandles`: `CallInv` has, for each function, the handles that its
  stages hold and that the call's stage is one of its own.
* `FinishedMatricesStay`: an action property. `FileInv` keeps which names
  exist and which object the call under way is building; a call adds to that object only, and
  only while it has no descriptor (`Kept`, for each action).
* `MinimizerMemoryAccounted`: `MemoryInv` says that the blocks the matrix's arrays are in, what
  was freed and what was given away are disjoint and together all that was
  allocated, so that no block is freed twice.

`Ssmc_proofs`, for every `A` and `Zeros` that MATLAB can hold (`IsMatlabMatrix`) and every
chunk size:

* `RowsFillUpInOrder`: the counting sort. `InRowOrder` says of each row that the
  place of its next entry is behind exactly its entries taken so far, and that the columns
  in its places ascend. Needed for it: counting the entries of a row
  before a position (`CountBefore`) as a cardinality, and that counts of consecutive
  rows do not overlap (`Start`).
* `SessionTypeCorrect`: the scatter, the generator of row indices (`GeneratorInv`: what is
  written and what is in the buffer end at the place it has reached) and the merge (`MergeInv`) never leave
  their arrays, and the chunk never its buffer.

Two more parts say what is written, not only where. `PlacedInv`, while
columns are scattered: each place behind a row's start has an entry of that row, and each
entry that was taken has a place (`Members`). `WrittenInv`, while the file is written: the
arrays in the file so far are the ones in memory, and the row indices on disk followed by
those in the buffer are what the rows' ends say (`HoldsSoFar`). Neither suffices alone: the
row indices never exist as an array, so that a row's entries are known only by where the
scatter has put them. `FinishedHolds` puts them together when the descriptor is written.

`Structs_proofs`, for every `A`, `Zeros` and struct made by hand, every chunk size and every
sequence of calls and failures, with the inductive invariant `StructsInv`:

* `StructsFaithful` is `StructFaithful`, for COO, CSC and CSR. What a struct is to hold is
  `Denotes`: some assignment of rows and columns to its places gives the entries
  of the problem, in arrays of their number, one value only where there is one, and what it
  is read as are those entries, but for a CSR struct whose pointers wrap, and then they are not.
  For CSR this needs both directions: `Begins`, that a pointer that is not reduced is behind
  exactly the entries of the rows before it, so that each entry is read in its own row
  (`RowsKept`); and that the last pointer, if it is reduced, is less than the
  number of entries, so that the last entry is in no row (`CsrDenotes`). It is carried
  from step to step: by `CscInv` through the merge (`MergedUpTo` is `Members` for two
  cursors; `MergedBehind`, that what is left of a column is below what was taken of it, makes
  the merged column ascend), by `CooDenotes` through the conversion (an order
  of the entries that is chosen by rank exists and is the only one: `RowRanks`), by
  `MinimizedDenotes` through the minimiser, and by `FinishedInv` through the file and back.
* `MinimizerFaithful` is `MinimizedFaithful`. `IsMinimizing` says, for the fields
  done so far, what the matrix under way has of its argument. The types are narrowest
  because the largest and smallest element exist (`LargestPlace`) and decide for
  all others.
* `CooFilesFaithful` is `CooFileFaithful` for both ways to a file, as long as
  `binsparse_write` is not given a struct made by hand. (It stores any struct it is given as a
  coordinate matrix; `mex` checks that such sessions do everything else right.)
* `PathsAlwaysAgree` is `PathsAgree`. Both paths end in types that `Final` names. For the minimiser
  that needs the reverse of what faithfulness needs: it leaves nothing wide that could be
  narrow (`Reduced`), and since the struct's values are those of `A` and zero, what it finds
  in the struct is what the coordinate writer finds in `A` (`FinalIs`).

`Tools_proofs`, for every Matrix Market, Binsparse and tensor file, every list of programs in an
order like that of `test/bash/test.sh` (the Binsparse file is made first if at all, the Matrix Market
file is made from it at most once and before anything is compared with it, and the tensor is
copied at most once), and every failure (`InputsAssumption`):

* `SessionInvariant`: `CallsInv` says that the calls are the rest of a script, element by element,
  so that the program and the call under way determine what was called before (`Succession`).
  `MakeInv`, `ReadInv` and `HoldInv` say what is allocated before each step of each call;
  `ReadInv` also says which of the descriptor's checks the file has passed, since what a
  reader makes of a file is known only once it has read all of it. `EndedInv` compares
  how the benchmarks ended with `Outcome`, which is a function of the file. `mtx2bsp` must be
  first: a file that is made anew would change what the programs before it are compared with.
* `ReadsOwnTheirMemory`, `ReadersAgreeOnFiles` and `ToolsTypeCorrect` follow from it. For `mtx2bsp`
  the first needs that a matrix whose calls have all succeeded points to everything that
  is allocated: `MmLive`, through every allocation of `bsp_mmread`.
* `TensorsAccepted`, by `TensorInv`: while levels are read, those before the last are the source's
  (`TensorReading`, `LevelOf`) and could be read (`Readable1`); what `bsp_read_tensor` returns is whole
  exactly if all of the source can be had (`Obtainable`). That the element is no deeper than the
  shape and the loop's test at each level come to the same is `DepthAscends`: the dimension a
  level begins at never decreases along the chain.
* `TensorsCopied`, by `CopyInv`, needs no such thing, as whatever failed: a tensor that ends in an
  element has the levels of the source, and the writer, which counts the dimensions again and
  looks for pointers by their being there, gives each array the key that it was read under
  (`LevelWritten`). A chain of levels ends in its element, and each other level has a dimension
  (`IsTensor`): two levels at one dimension would be written under the same keys.

`Texts_proofs`, under the same assumptions:

* `MmReadsFaithful` is `MmReadFaithful`, for every text (`IsText`: numbers in the header that
  are not negative, and lines of integers) and whatever fails. `MmreadInv` says what the
  matrix under way has of the text: its header and the arrays allocated so far (`Prepared`),
  then every line that was taken (`Coordinated` for coordinates, `Holds` for dense values), then the
  order of the sort, which is a permutation. `ResultInv` keeps it for what was returned.
  For a dense text the place of each line, `Place`, is proved to be one-to-one and onto, which is
  Euclidean division; both directions of `ReadAs` follow from it (`HoldsReadAs`): at a place
  is the text's own value exactly if the text is square or a vector, or two values are equal.
* `FilesFaithful` is `FileFaithful`. `ContentInv` carries through the calls of `mtx2bsp` what the
  matrix has of the text: after declamping (`DeclampedHolds`), after minimising
  (`MinimizedHolds`: a type that holds the least and the greatest value holds all of them, so that
  the cast changes nothing, and it is the narrowest), after the conversion to CSR, in the file,
  and there until the session ends, as no program after the first makes the file again. The conversion
  has two cases. Where the pointers fit, the entries between two pointers are those of the
  row (`CsrRows`, from `Begins`: the pointer of a row counts the entries of the rows before it).
  Where they do not, the last pointer is less than the number of entries, so that the last entry is in no
  row and the file does not have it (`CsrLoses`): the exception in the property is exact.

* `VerdictsRight`, `CopiesFaithful` and `DeathsAlwaysExplained` are one induction. `VInv` says what
  the matrices and files of a session are. `FileFormed`: the arrays of the Binsparse file, whoever
  wrote it, have the lengths it announces. `ShapeInv`: so have those of the matrix that `mtx2bsp` is
  about to write. `PointInv`: without a failure no matrix points to memory that is not its
  program's. `FillInv`: what a reader has filled in so far is the file's. `FirstInv`: what
  `check_equivalence` keeps is what `bsp_mmread` returned, declamped. `WrittenInv`: the text
  of `bsp2mtx` has as many lines as it announces and denotes the file. `JudgedInv` says that
  each program that has ended did so for a reason (`Fair`), and is kept by the end of every program
  after it (`FairStays`), as `mtx2bsp` is first and `bsp2mtx` runs once.
* `VerdictRight` has two directions. That an exit with 0 is deserved is `VerdictAccurate`: what is
  compared is the declamped text, equivalent matrices have the same entries
  (`EquivalentEntries`), and converting a CSR matrix changes none of them. That the file of
  `mtx2bsp` is recognised is `VerdictRecognises`. For CSR the comparison converts back, which
  gives back the coordinates that were converted (`BackAgain`). For COO two programs have sorted
  the same text with `qsort`: `OneOrder` says that they come to the same order if no two
  entries are in one place, as both orders ascend strictly and so agree at their first
  difference (`FirstPlace`). That no two are in one place after the sort, when no two were
  before, is counting (`EntriesApart`).
* `DeathsExplained` follows the calls of each script to the assertions, NULL pointers and
  memory that is unwritten or not theirs: what `bsp_mmread` dies of is in `UnreadableText` (`MmDeadly`),
  what the readers die of in `DeadlyRead`, what converting and comparing dies of in `DeadlyFile`
  and, for the text's rows, `RowOutside`; and nothing else fails as long as pointers are live
  and matrices are formed.

What a text must be for its matrix to mean anything is in the properties, and so is not assumed of
the inputs: as many lines as announced, each within the dimensions (`Complete`), and, for
`check_equivalence` to recognise a file, no two entries in one place and no NaN (`Comparable`).
`qsort` may order equal coordinates in two ways and the comparison compares value by value, so that
a text with duplicates may be found different from its own file; and a NaN is different from itself.
Of a Binsparse file of another program it is assumed that its arrays are as long as its descriptor
says and its indices within its shape (`IsStored`): the readers check neither, and the
comparison and `bsp2mtx` read as many elements as are announced. It is in COO, CSR or
DMATR. Its pointers may be anything the type holds: descending, missing entries, or beyond them;
and what that does to a program is in `DeadlyFile`.

Assumptions on the constants are in the modules that declare them, and TLC evaluates them:
`NarrowMax` positive, matrices to convert well-formed (`WellFormedAssumption`, used by
`ConversionKeepsEntries` only), the special numbers different from each other and from 0 and 1, and below `Huge`
(`NumbersAssumption`), and the sessions of programs. For the bindings
(`ProblemsAssumption`): matrices as MATLAB keeps them, a dense one with a value
for each place; `A` and `Zeros` with no more entries together than `size_t` counts, as all
of them are in memory (`binsparse_write_ssmc_coo.c:380` refuses more); an object of
another program being a text; and structs made by hand having arrays of MATLAB's classes and at
least as many values as they say (`IsStruct`), without which the value of an
entry, and so `MinimizedFaithful`, means nothing. Signs, classes of indices, `nnz` and the
format are whatever the caller likes.

Only model-checked:

* The liveness properties: TLAPS's backends do not reach fairness and ENABLED.
* `Mex`: `TextReadsBack`, as decoding what was encoded is an induction over sequences,
  which the provers cannot do.

## Not modelled, and why

* HDF5 itself, beyond what its calls can return; that concurrent `H5Dread`s in
  forked processes do not disturb each other through the shared file offset is
  assumed (HDF5 reads with `pread` where the system has it).
* Loads of the children: `H5Dread`'s internal buffers are private to a process.
* `num_threads <= 0`.
* Two threads converting at once: the comparison functions share a static
  variable (`convert_matrix.h:205`), and no program in the repository has
  threads. Conversions of matrices with duplicate entries one by one (those that `mtx2bsp` makes
  of texts with duplicates are covered by the theorems of `Texts_proofs`), and files whose index
  arrays have different types from each other.
* Values: two integer widths stand for four, and a floating point type for whether
  it holds a value. Numbers in text are numbers: how `sscanf` and `fprintf`
  convert them is left out, and so are the comments of a Matrix Market header
  (`matrix_market_inspector.h:106` writes the NUL behind a buffer that they fill
  exactly).
* Descriptors with several flaws, beyond a version and another one, and files whose
  arrays are not as long as announced.
* A close that fails: the results of `H5Dclose` (`hdf5_wrapper.h:87`) and `H5Fclose`
  (`write_matrix.c:179, 197`) are dropped, so that a write whose data HDF5 cannot flush
  would return success. `MatrixFile`'s `CloseFile` writes everything.
* Tensors: the blocks of the levels themselves, which `bsp_destroy_tensor_t` never
  frees, groups, and complex and iso values, which are read as in `ReadMatrix`.
* Memory that the comparison programs do not free before they exit.
* `matlab_struct_to_bsp_matrix` (the copying variant), the argument checks of
  `binsparse_create_struct`, and the `.m` files, which only call the functions.
  A write and a read of a struct are single steps.
* In the bindings `mxMalloc` does not return when memory is short, so it has no
  failure there; MATLAB reclaims its memory.
* Random matrix generation, the compliance reformatter, the C++ examples and the
  tables between enums and strings: no state and no order that matters.
* Five listed hazards have no property: `num_threads` = 0, the zombies of the
  parallel reader, a close that fails, sorting in two threads, and the comment buffer.
  `SegmentsReclaimed` is about attachments: a failed mapping is not in its run, and
  marking a segment for removal is one step with mapping it.

## Plan

1. The copying path of the MATLAB bindings, and the levels' blocks of a tensor.
2. Texts with duplicates in the runs of `Tools`: what `check_equivalence` may say of them, as
   far as `qsort` decides it.
