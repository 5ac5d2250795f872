------------------------------- MODULE TensorFile -------------------------------
(******************************************************************************)
(* bsp_read_tensor (src/read_tensor.c), bsp_write_tensor (src/write_tensor.c) *)
(* and bsp_destroy_tensor_t (include/binsparse/tensor.h), as tensor_test      *)
(* calls them: a chain of levels, each dense or sparse in some dimensions,    *)
(* that ends in an element, is read from one file and written to another.     *)
(*                                                                            *)
(* A dataset is <<"indices", d>>, <<"pointers_to", d>> or <<"values", 0>>;    *)
(* an array is known by the dataset it was read from.                         *)
(******************************************************************************)
EXTENDS Programs, SequencesExt

VARIABLES
    tensor,     \* the tensor in memory
    output      \* the tensor file that is written

tensorVars == <<tensor, output>>

\* A level in memory: its kind, its rank and its arrays, the pointers before the
\* indices.  The last level of a tensor that is being read is uninitialised.
Level(kind, rank, arrays) == [kind |-> kind, rank |-> rank, arrays |-> arrays]
JunkLevel == Level("junk", 0, <<>>)

DefaultTensor == [rank |-> 0, transposed |-> FALSE, levels |-> <<>>]

NoOutput == [levels |-> <<>>, data |-> [key \in {} |-> key], attribute |-> FALSE]

TensorInit == tensor = DefaultTensor /\ output = NoOutput

\* The file that is read: whether it opens and has a descriptor of this version,
\* whether that has all its parts, and the tensor it describes.
Source == input.tensor

\* The dimension that level k of s begins at: as many as the levels before it have.
Depth(s, k) == Cardinality(UNION {{j} \X (1 .. s[j].rank) : j \in 1 .. k - 1})

Indices(level, d) == [i \in 1 .. level.rank |-> <<"indices", d + i - 1>>]

\* The datasets read for a level at dimension d; the first one has no pointers.
Datasets(level, d) ==
    CASE level.kind = "element" -> <<<<"values", 0>>>>
      [] level.kind = "dense" -> <<>>
      [] level.kind = "sparse" ->
            (IF d = 0 THEN <<>> ELSE <<<<"pointers_to", d>>>>) \o Indices(level, d)

TensorGo == UNCHANGED <<input, file, copy, todo, calls, step, matrix, first, live, ended>>

TensorReturns == Return("SUCCESS") /\ UNCHANGED <<file, copy, matrix, live>>

TensorEnds(how) == Dies(how, FALSE) /\ tensor' = DefaultTensor /\ UNCHANGED output

--------------------------------------------------------------------------------
(* Reading. *)

TensorOpen ==
    /\ At("tensor_read", "start")
    /\ Source.readable /\ Source.described
    /\ tensor' = [rank |-> Source.rank, transposed |-> Source.transposed,
                  levels |-> <<JunkLevel>>]
    /\ step' = "level"
    /\ UNCHANGED <<input, file, copy, todo, calls, matrix, first, live, ended, output, faulted>>

\* The file does not open, has no attribute or another version: nobody is told.
TensorOpenFails ==
    /\ At("tensor_read", "start")
    /\ ~Source.readable \/ MayFail
    /\ faulted' = Source.readable
    /\ TensorReturns
    /\ UNCHANGED tensorVars

LevelsRead == Len(tensor.levels) - 1
Described == Source.levels[LevelsRead + 1]
AtLevel == At("tensor_read", "level") /\ LevelsRead < Len(Source.levels)
DepthReadFrom1 == Depth(tensor.levels, LevelsRead + 1) + 1    \* mutant
DepthRead == Depth(tensor.levels, LevelsRead + 1)

\* The descriptor lacks a part, or ends before an element.
TensorAsserts ==
    /\ \/ At("tensor_read", "start") /\ Source.readable /\ ~Source.described
       \/ At("tensor_read", "level") /\ LevelsRead = Len(Source.levels)
    /\ TensorEnds("abort")

SetLast(level) == ReplaceAt(tensor.levels, Len(tensor.levels), level)

\* key_with_index writes a 0 one byte behind the memory it has allocated for the name
\* of a sparse level's dataset: nobody may notice, or the program dies.
TensorReadOverruns ==
    /\ AtLevel
    /\ DepthRead <= tensor.rank
    /\ Described.kind = "sparse"
    /\ TensorEnds("undefined")

\* The level's datasets are read; its child, if it is no element, is allocated.
TensorLevel ==
    /\ AtLevel
    /\ DepthRead <= tensor.rank
    /\ LET keys == Datasets(Described, DepthRead)
           level == Level(Described.kind, Described.rank, keys)
       IN  /\ Range(keys) \subseteq Source.datasets
           /\ IF Described.kind = "element"
              THEN tensor' = [tensor EXCEPT !.levels = SetLast(level)] /\ TensorReturns
              ELSE /\ tensor' = [tensor EXCEPT !.levels = Append(SetLast(level), JunkLevel)]
                   /\ TensorGo
    /\ UNCHANGED <<output, faulted>>

\* One of them cannot be: the tensor is returned with its last level half set.
TensorLevelFails ==
    /\ AtLevel
    /\ DepthRead <= tensor.rank
    /\ LET keys == Range(Datasets(Described, DepthRead))
       IN  /\ keys # {}
           /\ MayFail \/ ~(keys \subseteq Source.datasets)
           /\ faulted' = (keys \subseteq Source.datasets)
    /\ TensorReturns
    /\ UNCHANGED tensorVars

\* The levels have more dimensions than the shape: the loop ends before the
\* element.
TensorTooDeep ==
    /\ AtLevel
    /\ DepthRead > tensor.rank
    /\ TensorReturns
    /\ UNCHANGED <<tensor, output, faulted>>

--------------------------------------------------------------------------------
(* Writing and destroying. *)

Whole == tensor.levels # <<>> /\ Last(tensor.levels).kind = "element"

\* The transposition is written whether there is one or not, and the values are
\* looked for at the end of the levels.
TensorWriteFails ==
    /\ At("tensor_write", "start")
    /\ IF tensor.rank > 0 /\ ~tensor.transposed THEN TensorEnds("crash")
       ELSE IF tensor.levels = <<>> THEN TensorEnds("abort")
       ELSE ~Whole /\ TensorEnds("undefined")

\* The datasets of a level in memory that begins at dimension d, and its arrays:
\* pointers are written if there are any.
WrittenAtDepth0(level, d) ==                                \* mutant
    (IF Len(level.arrays) > level.rank THEN <<<<"pointers_to", d + 1>>>> ELSE <<>>)
       \o Indices(level, d)
WrittenKeys(level, d) ==
    (IF Len(level.arrays) > level.rank THEN <<<<"pointers_to", d>>>> ELSE <<>>)
       \o Indices(level, d)

\* The arrays of level k, if it is sparse, each with the key it is written under.
WritesOf(k) ==
    LET level == tensor.levels[k]
        keys == WrittenKeys(level, Depth(tensor.levels, k))
    IN  IF level.kind # "sparse" THEN <<>>
        ELSE [i \in DOMAIN keys |-> <<keys[i], level.arrays[i]>>]

\* What is written up to the first n arrays of level k; the values are first.
WrittenUpTo(k, n) ==
    {<<<<"values", 0>>, Last(tensor.levels).arrays[1]>>}
       \cup UNION {Range(WritesOf(j)) : j \in 1 .. k - 1}
       \cup {WritesOf(k)[i] : i \in 1 .. n}

OutputOf(written, attribute) ==
    [levels |-> [k \in DOMAIN tensor.levels |->
                    [kind |-> tensor.levels[k].kind, rank |-> tensor.levels[k].rank]],
     data |-> [key \in {w[1] : w \in written} |-> (CHOOSE w \in written : w[1] = key)[2]],
     attribute |-> attribute]

TensorWrites ==
    /\ At("tensor_write", "start")
    /\ tensor.rank = 0 \/ tensor.transposed
    /\ Whole

\* No dataset, or some of them, and no descriptor.
PartlyWritten ==
    \/ UNCHANGED output
    \/ \E k \in DOMAIN tensor.levels : \E n \in 0 .. Len(WritesOf(k)) :
          output' = OutputOf(WrittenUpTo(k, n), FALSE)

\* tensor_test does not look at what bsp_write_tensor returns.
TensorWrite ==
    /\ TensorWrites
    /\ \/ /\ output' = OutputOf(WrittenUpTo(Len(tensor.levels), 0), TRUE)
          /\ UNCHANGED faulted
       \/ /\ MayFail
          /\ PartlyWritten
          /\ faulted' = TRUE
    /\ TensorReturns
    /\ UNCHANGED tensor

\* As the reader's, the writer's names of datasets overrun their memory.
TensorWriteOverruns ==
    /\ TensorWrites
    /\ \E k \in DOMAIN tensor.levels : tensor.levels[k].kind = "sparse"
    /\ PartlyWritten
    /\ Dies("undefined", FALSE)
    /\ tensor' = DefaultTensor

\* Every level's arrays are freed, and main returns.
TensorDestroy ==
    /\ At("tensor_finish", "start")
    /\ TensorEnds("exit 0")

TensorNext ==
    \/ TensorOpen \/ TensorOpenFails \/ TensorAsserts \/ TensorLevel \/ TensorLevelFails
    \/ TensorReadOverruns \/ TensorTooDeep
    \/ TensorWrite \/ TensorWriteFails \/ TensorWriteOverruns \/ TensorDestroy

--------------------------------------------------------------------------------
(* Properties. *)

\* The datasets the levels of the source name.
SourceKeys ==
    UNION {Range(Datasets(Source.levels[k], Depth(Source.levels, k))) :
           k \in DOMAIN Source.levels}

\* A tensor file with a descriptor, whatever failed while it was written, is the
\* tensor that was read: the same levels, with every dataset they name and no
\* other, each the array of its own name.
TensorCopied ==
    output.attribute =>
        /\ output.levels = Source.levels
        /\ DOMAIN output.data = SourceKeys
        /\ \A key \in SourceKeys : output.data[key] = key

\* A source that all of this can be done with: it has a transposition, its levels
\* end in an element no deeper than its shape, and their datasets exist.
SourceWhole ==
    /\ Source.readable /\ Source.described
    /\ Source.rank = 0 \/ Source.transposed
    /\ \E k \in DOMAIN Source.levels :
          /\ Source.levels[k].kind = "element"
          /\ Depth(Source.levels, k) <= Source.rank
    /\ SourceKeys \subseteq Source.datasets

\* It has the names of datasets that their memory is too small for.
KeysNamed == \E k \in DOMAIN Source.levels : Source.levels[k].kind = "sparse"

\* Without a failure tensor_test copies whole tensors and no other, and dies of a whole
\* one only if that has a sparse level, whose names overrun.  It never reports an
\* error: on the others, as after a failed read, it dies, and if only the write fails
\* it exits with 0.
TensorAccepted ==
    \A k \in DOMAIN ended :
        ended[k].program = "tensor_test" =>
            /\ ended[k].how \in {"exit 0", "abort", "crash", "undefined"}
            /\ ended[k].clean =>
                  /\ output.attribute = (ended[k].how = "exit 0")
                  /\ ended[k].how = "exit 0" => SourceWhole
                  /\ SourceWhole =>
                        ended[k].how = "exit 0" \/ (ended[k].how = "undefined" /\ KeysNamed)

================================================================================
