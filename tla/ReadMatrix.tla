------------------------------- MODULE ReadMatrix -------------------------------
(******************************************************************************)
(* bsp_read_matrix and bsp_read_matrix_parallel (src/read_matrix.c) on one    *)
(* Binsparse file: the descriptor's checks, what is allocated and freed, and  *)
(* what is left to the caller after an error.  Arrays are read as ArrayRead   *)
(* describes.                                                                 *)
(*                                                                            *)
(* A file is the matrix it was written from, the datasets it has, and at most *)
(* one flaw in its descriptor besides the version: a part that is missing, or *)
(* one that is there and not of its JSON type (".._type").  Of the descriptor *)
(* as a whole, of binsparse, the version and the shape the readers refuse     *)
(* both in the same way, and the two are one flaw.                            *)
(******************************************************************************)
EXTENDS Programs

\* BINSPARSE_VERSION is "0.1", which semver parses as 0.1.0.
Supported == <<0, 1, 0>>

Compatible(v, s) ==
    /\ v[1] = s[1]
    /\ IF s[1] = 0 THEN v = s ELSE v[2] >= s[2]

\* bsp_check_version_compatible; what does not parse is <<>>.
VersionError(v) ==
    IF v = <<>> THEN "FORMAT" ELSE IF Compatible(v, Supported) THEN "SUCCESS" ELSE "UNSUPPORTED"

\* The flaws that come before the version in the descriptor.
Early == {"json", "array", "binsparse", "version"}

\* The flaws after it that the serial reader refuses.
Refused == {"format", "format_type", "unknown_format", "nnz", "nnz_type", "shape",
            "data_types", "data_types_type"}

DescriptorError(ignored) ==
    IF file.flaw \in Early THEN "FORMAT"
    ELSE IF VersionError(file.version) # "SUCCESS" THEN VersionError(file.version)
    ELSE IF file.flaw \in Refused \ ignored THEN "FORMAT"
    ELSE "SUCCESS"

IgnoresUnknown(call) == {"unknown_format"}                  \* mutant
IgnoresShape(call) ==                                       \* mutant
    IF call = "read_parallel"
    THEN {"unknown_format", "nnz_type", "data_types_type", "shape"} ELSE {}
\* The parallel reader knows no unknown format, and does not look at the type of the
\* number of entries and of data_types.
Ignored(call) ==
    IF call = "read_parallel" THEN {"unknown_format", "nnz_type", "data_types_type"} ELSE {}

\* What it asserts is that these parts are there.
Asserted == {"binsparse", "version", "format", "nnz", "data_types"}

AssertionFails ==
    /\ Head(calls) = "read_parallel"
    /\ file.flaw \in Asserted
    /\ file.flaw \in Early \/ VersionError(file.version) = "SUCCESS"

\* A format that is no string is NULL, and compared with the formats' names.
FormatCrashes ==
    /\ Head(calls) = "read_parallel"
    /\ file.flaw = "format_type"
    /\ VersionError(file.version) = "SUCCESS"

\* What is no number is a NaN, and a NaN converted to an unsigned integer anything.
Numbers == IF file.flaw = "nnz_type" THEN 0 .. Cap("wide") ELSE {file.m.nnz}

\* What the descriptor's error paths do not free: the serial reader a JSON value
\* that is no object, the parallel one the text as well.
Unparsed ==
    (IF file.flaw = "array" THEN {"j"} ELSE {}) \cup
    (IF Head(calls) = "read_parallel" /\ file.flaw \in {"json", "array"}
     THEN {"json_string"} ELSE {})

\* The arrays that data_types names: if it is no object, none.
Names ==
    IF file.flaw = "data_types_type" THEN {} ELSE {f \in Fields : file.m[f].type # "invalid"}

ReadOrder == <<"values", "indices_0", "indices_1", "pointers_to_1", "structure">>
Following(f) == ReadOrder[(CHOOSE k \in 1 .. 4 : ReadOrder[k] = f) + 1]

Reading(s) == At("read", s) \/ At("read_parallel", s)

--------------------------------------------------------------------------------
\* The file and its attribute; a file that does not open leaves the matrix as it
\* is.
ReadOpen ==
    /\ Reading("start")
    /\ file.exists
    /\ IF file.attribute
       THEN live' = {"json_string"} /\ Go("descriptor")
       ELSE live' = {} /\ Return("FORMAT") /\ UNCHANGED <<file, copy>>
    /\ matrix' = DefaultMatrix
    /\ UNCHANGED faulted

ReadOpenFails ==
    /\ Reading("start")
    /\ MayFail \/ ~file.exists
    /\ \/ matrix' = NoMatrix
       \/ file.exists /\ file.attribute /\ matrix' = DefaultMatrix
    /\ faulted' = (faulted \/ file.exists)
    /\ Return("IO")
    /\ UNCHANGED <<file, copy, live>>

ReadDescriptor ==
    /\ Reading("descriptor")
    /\ ~AssertionFails /\ ~FormatCrashes
    /\ LET error == DescriptorError(Ignored(Head(calls)))
           m == file.m
       IN  IF error = "SUCCESS"
           THEN /\ \E n \in Numbers :
                      matrix' = [matrix EXCEPT
                        !.format = IF file.flaw = "unknown_format" THEN "unknown" ELSE m.format,
                        !.nrows = m.nrows, !.ncols = m.ncols, !.nnz = n]
                /\ live' = {"json_string", "j"}
                /\ Go("values")
           ELSE /\ live' = Unparsed
                /\ Return(error)
                /\ UNCHANGED <<file, copy, matrix>>
    /\ UNCHANGED faulted

ReadAsserts == Reading("descriptor") /\ AssertionFails /\ Dies("abort", FALSE)

\* The format, the type of the values or the structure is no string: the two latter
\* both readers compare with the names they know.
ReadCrashes ==
    /\ \/ Reading("descriptor") /\ FormatCrashes
       \/ Reading("values") /\ file.flaw = "values_type" /\ "values" \in Names \cap file.datasets
       \/ Reading("structure") /\ file.flaw = "structure_type"
    /\ Dies("crash", FALSE)

\* One array; of the values, a complex type must be one of floats.
ReadArray(f) ==
    /\ Reading(f)
    /\ f \in Names => f \in file.datasets
    /\ ~(f = "values" /\ file.flaw = "values_type")
    /\ IF f \in Names
       THEN /\ matrix' = [matrix EXCEPT ![f] = file.m[f],
                                        !.is_iso = IF f = "values" THEN file.m.is_iso ELSE @]
            /\ live' = live \cup (Pointed(matrix') \cap {f})
       ELSE UNCHANGED <<matrix, live>>
    /\ IF f = "values" /\ file.flaw = "complex"
       THEN Return("TYPE") /\ UNCHANGED <<file, copy>>
       ELSE Go(Following(f))
    /\ UNCHANGED faulted

\* The arrays before it are destroyed, the matrix still points to them.
KeepsArrays == live \ {"json_string"}                       \* mutant
ArraysDestroyed == live \ ({"json_string"} \cup Fields)

ReadArrayFails(f) ==
    /\ Reading(f)
    /\ f \in Names
    /\ MayFail \/ f \notin file.datasets
    /\ live' = ArraysDestroyed
    /\ faulted' = (faulted \/ f \in file.datasets)
    /\ Return("READ")
    /\ UNCHANGED <<file, copy, matrix>>

ReadReturns ==
    /\ Reading("structure")
    /\ file.flaw # "structure_type"
    /\ matrix' = [matrix EXCEPT !.structure = file.m.structure]
    /\ live' = live \ {"json_string", "j"}
    /\ Return("SUCCESS")
    /\ UNCHANGED <<file, copy, faulted>>

ReadNext ==
    \/ ReadOpen \/ ReadOpenFails \/ ReadDescriptor \/ ReadAsserts \/ ReadCrashes
    \/ ReadReturns
    \/ \E f \in Fields : ReadArray(f) \/ ReadArrayFails(f)

--------------------------------------------------------------------------------
(* Properties. *)

\* A read that succeeds leaves its caller the arrays it points to and nothing
\* else; one that fails frees them all, except values of the wrong type, and
\* keeps its pointers: no caller may destroy the matrix after an error, and the
\* descriptor of a file whose arrays could not be read is never freed.  A
\* program that ends as it should has freed everything, but for the matrix that
\* bsp2mtx has converted.
ReadOwnership ==
    /\ step \in Errors /\ Head(calls) # "write" =>
          /\ live \cap Fields = IF step = "TYPE" THEN {"values"} ELSE {}
          /\ "json_string" \in live => step = "TYPE" \/ file.flaw \in {"json", "array"}
          /\ "j" \in live <=> step \in {"TYPE", "READ"} \/ (step = "FORMAT" /\ file.flaw = "array")
    /\ todo # <<>> /\ step = "start" /\ Head(calls) \in {"to_coo", "compare"} =>
          live = Pointed(matrix)
    /\ \A k \in DOMAIN ended :
          ended[k].how = "exit 0" /\ ended[k].clean =>
             ended[k].left = IF ended[k].program = "bsp2mtx" /\ file.m.format = "CSR"
                             THEN {"source"} ELSE {}

\* Where the serial reader returns BSP_ERROR_FORMAT the parallel one may go on to
\* success, or crash; else, unless they agree, it fails an assertion.
ParallelEnd ==
    IF file.flaw \in {"unknown_format", "nnz_type", "data_types_type"} THEN "exit 0"
    ELSE IF file.flaw = "format_type" THEN "crash"
    ELSE "abort"

\* Of two programs that read the same file, serially and in parallel, one
\* accepts it if the other does, and they end alike, except where the serial reader
\* returns BSP_ERROR_FORMAT: the parallel one accepts a format nobody knows, a number
\* of entries that is no number and a data_types that is no object, crashes on a
\* format that is no string, and fails an assertion if a part is missing.
ReadersAgree ==
    \A a, b \in DOMAIN ended :
        LET serial == ended[a]
            parallel == ended[b]
        IN  /\ serial.program = "benchmark_read" /\ serial.clean
            /\ parallel.program = "benchmark_read_parallel" /\ parallel.clean
            => \/ serial.how = parallel.how
               \/ serial.how = "BSP_CHECK" /\ parallel.how = ParallelEnd

================================================================================
