-------------------------------- MODULE MCTools --------------------------------
(******************************************************************************)
(* Instances of Tools for TLC: small Matrix Market files of every kind,       *)
(* converted as test/bash/test.sh does, and back; Binsparse files of other    *)
(* programs, with every flaw; and tensors.                                    *)
(******************************************************************************)
EXTENDS Tools

Line(i, j, x) == <<i, j, <<x, 0>>>>

\* A Matrix Market file with as many lines as it announces.
Coordinate(type, nrows, ncols, lines) ==
    [valid |-> TRUE, format |-> "coordinate", type |-> type, structure |-> "general",
     nrows |-> nrows, ncols |-> ncols, nnz |-> Len(lines), lines |-> lines]

Array(type, nrows, ncols) ==
    [valid |-> TRUE, format |-> "array", type |-> type, structure |-> "general",
     nrows |-> nrows, ncols |-> ncols, nnz |-> nrows * ncols,
     lines |-> [k \in 1 .. nrows * ncols |-> Line(0, 0, k)]]

\* Three positions out of order; the values to put there.
Placed(x, y, z) == <<Line(2, 1, x), Line(1, 2, y), Line(1, 1, z)>>

Coordinates ==
    {Coordinate("real", 2, 2, Placed(x, y, 1)) :
        x \in {Fractional, NaN, 2}, y \in {Huge, -Huge}}
    \cup {Coordinate("integer", 2, 2, Placed(x, y, 1)) :
            x \in {-3, -1, 0}, y \in {1, 2, 3, 4}}
    \cup {Coordinate("complex", 2, 2, <<<<2, 1, <<1, y>>>>, Line(1, 2, x)>>) :
            x \in {Huge, 2}, y \in {-Huge, Fractional, 2}}
    \cup {Coordinate("pattern", 2, 2, lines) :
            lines \in {Placed(0, 0, 0), Append(Placed(0, 0, 0), Line(2, 2, 0))}}
    \cup {Coordinate("pattern", 5, 1, <<Line(5, 1, 0), Line(1, 1, 0)>>)}
    \cup {Coordinate(type, 0, 2, <<>>) : type \in {"real", "integer", "pattern"}}
    \cup {[Coordinate("real", 2, 2, Placed(2, 3, 4)) EXCEPT !.structure = "symmetric"],
          Coordinate("real", 2, 2, <<Line(1, 1, 2), Line(1, 1, 3)>>)}

Arrays ==
    {Array(type, shape[1], shape[2]) :
        type \in {"real", "integer", "complex"},
        shape \in {<<2, 2>>, <<1, 3>>, <<3, 1>>, <<2, 3>>, <<0, 2>>}}

\* Files that no reader is meant for.
Odd ==
    LET t == Coordinate("real", 2, 2, Placed(2, 3, 4))
        a == Array("real", 2, 2)
    IN  {NoText, [t EXCEPT !.type = "Real"], [a EXCEPT !.type = "pattern"],
         [t EXCEPT !.format = "vector"], [t EXCEPT !.structure = "other"],
         [t EXCEPT !.nnz = 2], [t EXCEPT !.nnz = 4],
         [t EXCEPT !.lines[1] = Line(4, 1, 2)], [t EXCEPT !.lines[1] = Line(3, 1, 2)],
         [t EXCEPT !.lines[1] = Line(0, 1, 2)], [t EXCEPT !.lines[1] = Line(1, 4, 2)],
         [a EXCEPT !.lines = Append(@, Line(0, 0, 9))],
         [a EXCEPT !.lines = Tail(@)],
         [Array("real", 2, 0) EXCEPT !.lines = <<Line(0, 0, 1)>>]}

Chain == <<"mtx2bsp", "check", "bsp2mtx", "check_copy">>
ParallelChain == <<"mtx2bsp", "check_parallel">>

NoTensor == [readable |-> FALSE]

Session(text, f, format, programs) ==
    [text |-> text, file |-> f, tensor |-> NoTensor, format |-> format, programs |-> programs]

TextSessions ==
    {Session(t, NoFile, format, programs) :
        t \in Coordinates \cup Arrays \cup Odd, format \in {"COOR", "CSR"},
        programs \in {Chain, ParallelChain}}
    \cup {Session(t, NoFile, format, <<"mtx2bsp", "check">>) :
            t \in Odd \cup {Array("real", 2, 2)}, format \in {"DMATR", "invalid"}}

\* Binsparse files of other programs: the entries (1, 0) and (1, 1).
OtherMatrix(iso, x, format) ==
    [DefaultMatrix EXCEPT
        !.format = format, !.nrows = 2, !.ncols = 2,
        !.nnz = IF format = "DMATR" THEN 4 ELSE 2,
        !.is_iso = iso,
        !.values = [type |-> "int_narrow",
                    data |-> [k \in 0 .. (IF iso THEN 0 ELSE IF format = "DMATR" THEN 3 ELSE 1)
                                |-> <<x, 0>>]],
        !.indices_0 = IF format = "COO" THEN Indexes("narrow", [k \in 0 .. 1 |-> 1]) ELSE Absent,
        !.indices_1 = IF format = "DMATR" THEN Absent
                      ELSE Indexes("narrow", [k \in 0 .. 1 |-> k]),
        !.pointers_to_1 =
            IF format = "CSR"
            THEN Indexes("narrow", [r \in 0 .. 2 |-> IF r = 2 THEN 2 ELSE 0]) ELSE Absent]

OtherFile(m, flaw, version, present) ==
    [exists |-> TRUE, attribute |-> TRUE, flaw |-> flaw, version |-> version, m |-> m,
     datasets |-> present]

OtherMatrices ==
    {OtherMatrix(iso, x, format) :
        iso \in BOOLEAN, x \in {1, 2}, format \in {"COO", "CSR", "DMATR"}}

Whole1 == OtherMatrix(TRUE, 2, "CSR")

OtherFiles ==
    {OtherFile(m, "none", Supported, Fields) : m \in OtherMatrices}
    \cup {OtherFile([m EXCEPT !.structure = s], "none", Supported, Fields) :
            m \in {OtherMatrix(FALSE, 2, "COO")}, s \in {"hermitian", "symmetric_lower"}}
    \cup {OtherFile(Whole1, flaw, version, Fields) :
            flaw \in Early \cup Refused \cup {"none", "complex", "values_type", "structure_type"},
            version \in {Supported, <<0, 2, 0>>, <<1, 1, 0>>, <<>>}}
    \cup {OtherFile(OtherMatrix(FALSE, 2, format), flaw, Supported, Fields) :
            flaw \in {"nnz_type", "data_types_type", "values_type"},
            format \in {"COO", "CSR", "DMATR"}}
    \cup {OtherFile([OtherMatrix(FALSE, 2, "CSR") EXCEPT !.pointers_to_1 = Indexes("narrow", p)],
                    "none", Supported, Fields) :
            p \in {[r \in 0 .. 2 |-> q[r + 1]] :
                     q \in {<<0, 0, 3>>, <<0, 2, 0>>, <<0, 3, 2>>, <<0, 1, 1>>, <<3, 2, 2>>, <<2, 0, 2>>}}}
    \cup {OtherFile(Whole1, "none", Supported, Fields \ {f}) : f \in Fields}
    \cup {[OtherFile(Whole1, "none", Supported, Fields) EXCEPT !.attribute = FALSE], NoFile}

FileSessions ==
    {Session(NoText, f, "COOR", programs) :
        f \in OtherFiles,
        programs \in {<<"benchmark_read", "benchmark_read_parallel", "bsp2mtx", "check_copy">>}}
    \cup {Session(t, f, "COOR", <<"check", "check_parallel">>) :
            f \in OtherFiles,
            t \in {Coordinate("integer", 2, 2, <<Line(2, 1, 2), Line(2, 2, 2)>>),
                  Array("integer", 2, 2)}}

Dense(r) == [kind |-> "dense", rank |-> r]
Sparse(r) == [kind |-> "sparse", rank |-> r]
Element0 == [kind |-> "element", rank |-> 0]

TensorLevels ==
    {<<Element0>>, <<Sparse(2), Element0>>, <<Dense(1), Sparse(1), Element0>>,
     <<Sparse(1), Sparse(1), Element0>>, <<Sparse(1), Dense(1), Sparse(2), Element0>>,
     <<Sparse(1)>>, <<Sparse(2), Sparse(2), Element0>>}

AllKeys == {"indices", "pointers_to", "values"} \X (0 .. 3)

TensorSources ==
    {[readable |-> TRUE, described |-> described, rank |-> rank, transposed |-> transposed,
      levels |-> levels, datasets |-> AllKeys \ missing] :
        described \in BOOLEAN, rank \in {0, 2, 4}, transposed \in BOOLEAN,
        levels \in TensorLevels,
        missing \in {{}, {<<"values", 0>>}, {<<"pointers_to", 1>>}, {<<"indices", 1>>}}}

TensorSessions ==
    {[Session(NoText, NoFile, "COOR", <<"tensor_test">>) EXCEPT !.tensor = s] :
        s \in TensorSources \cup {NoTensor}}

MCInputs == TextSessions \cup FileSessions \cup TensorSessions
================================================================================
