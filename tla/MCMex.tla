--------------------------------- MODULE MCMex ---------------------------------
(******************************************************************************)
(* Sessions for TLC: many pairs of A and Zeros written to one name, a few in  *)
(* two names, dense matrices, structs made by hand, and many texts.           *)
(******************************************************************************)
EXTENDS Mex

CONSTANTS
    Shapes,   \* bound: <<nrows, ncols>>
    MaxNnz    \* bound: entries of A and Zeros together

One == <<1, 0>>

InColumnOrder(x, y) == x[2] < y[2] \/ (x[2] = y[2] /\ x[1] < y[1])

\* The MATLAB sparse matrix with these places; V(k) is its k-th value.
Sparse(shape, places, is_complex, V(_)) ==
    LET s == [k \in 0 .. Cardinality(places) - 1 |->
                CHOOSE x \in places :
                    Cardinality({y \in places : InColumnOrder(y, x)}) = k]
    IN  [is_sparse |-> TRUE, class |-> IF is_complex THEN "complex64" ELSE "float64",
         is_complex |-> is_complex, nrows |-> shape[1], ncols |-> shape[2],
         colptr |-> [c \in 0 .. shape[2] |-> Cardinality({x \in places : x[2] < c})],
         rowind |-> [k \in DOMAIN s |-> s[k][1]],
         values |-> [k \in DOMAIN s |-> V(k)]]

\* The values: all equal, one that no float holds, different ones, NaNs.
Ones(k) == One
Fraction(k) == IF k = 0 THEN <<Fractional, 0>> ELSE One
Different(k) == <<k + 1, 0>>
NaNs(k) == <<NaN, 0>>
Imaginary(k) == <<1, IF k = 1 THEN Fractional ELSE 2>>
Alike(k) == <<1, 2>>

Pattern(shape, places) == Sparse(shape, places, FALSE, Ones)

Versions(shape, places) ==
    {Sparse(shape, places, FALSE, Ones), Sparse(shape, places, FALSE, Fraction),
     Sparse(shape, places, FALSE, Different), Sparse(shape, places, FALSE, NaNs),
     Sparse(shape, places, TRUE, Imaginary), Sparse(shape, places, TRUE, Alike)}

Positions(shape) == (0 .. shape[1] - 1) \X (0 .. shape[2] - 1)

Single == Pattern(<<1, 1>>, {<<0, 0>>})

Word == [class |-> "char", columns |-> 1, rows |-> <<<<"two">>>>]

NoText == [class |-> "char", columns |-> 0, rows |-> <<>>]

CooCalls == {"write_ssmc_coo"}
StructCalls == {"from_ssmc", "minimize_types"}
FileCalls == CooCalls \cup StructCalls \cup {"write", "read"}
HandCalls == {"create_struct", "minimize_types"}
TextCalls == {"write_string", "read_string"}

Problem(a, z, names) ==
    [a |-> a, z |-> z, has_zeros |-> TRUE, json |-> TRUE, text |-> NoText,
     struct |-> NoStruct, foreign |-> NoObject, names |-> names, calls |-> FileCalls]

Calling(calls, p) == [p EXCEPT !.calls = calls]

WithoutZeros(p) ==
    [p EXCEPT !.has_zeros = FALSE, !.z = Pattern(<<p.a.nrows, p.a.ncols>>, {})]

PairsOf(shape) ==
    {q \in (SUBSET Positions(shape)) \X (SUBSET Positions(shape)) :
        /\ Cardinality(q[1]) + Cardinality(q[2]) <= MaxNnz
        /\ Cardinality(q[1] \cap q[2]) <= 1}

MatrixProblems ==
    UNION {UNION {{Problem(a, Pattern(shape, q[2]), {Root}) : a \in Versions(shape, q[1])} :
                     q \in PairsOf(shape)} : shape \in Shapes}

PlainProblems ==
    {WithoutZeros(p) : p \in {p \in MatrixProblems : Nnz(p.z) = 0}}

\* Every matrix by itself on each path, some on both and through files.
PathProblems ==
    {Calling(c, p) : c \in {CooCalls, StructCalls}, p \in MatrixProblems \cup PlainProblems}
BothProblems ==
    {p \in MatrixProblems \cup PlainProblems :
        /\ p.a.nrows = 2 /\ p.a.ncols = 2
        /\ {p.a.rowind[k] : k \in DOMAIN p.a.rowind} \cap {1} # {} /\ Nnz(p.a) + Nnz(p.z) = 2
        /\ p.a.colptr[1] + p.z.colptr[1] = 1}

\* Two names, Zeros of another shape or complex ones, and bad JSON.
Two == {<<0, 1>>, <<1, 0>>}
NamesProblem ==
    Problem(Sparse(<<2, 2>>, Two, FALSE, Different), Pattern(<<2, 2>>, {<<0, 0>>}), Names)
OtherProblems ==
    {NamesProblem,
     [NamesProblem EXCEPT !.z = Single, !.names = {Root}],
     [NamesProblem EXCEPT !.z.is_complex = TRUE, !.names = {Root}],
     [NamesProblem EXCEPT !.json = FALSE, !.names = {Root}],
     Calling(CooCalls \cup TextCalls, [NamesProblem EXCEPT !.text = Word])}

\* More entries than the narrow type counts: an iso A, an A with different values, and
\* no A.
Everywhere(V(_)) == Sparse(<<2, 2>>, Positions(<<2, 2>>), FALSE, V)
Nowhere == Pattern(<<2, 2>>, {})
FullProblems ==
    {WithoutZeros(Problem(Everywhere(Ones), Single, {Root})),
     WithoutZeros(Problem(Everywhere(Different), Single, {Root})),
     Calling(StructCalls, Problem(Nowhere, Everywhere(Ones), {Root}))}

Dense(shape, class, V(_)) ==
    [is_sparse |-> FALSE, class |-> class, is_complex |-> class = "complex64",
     nrows |-> shape[1], ncols |-> shape[2], colptr |-> [c \in 0 .. shape[2] |-> 0],
     rowind |-> Absent.data,
     values |-> [k \in 0 .. shape[1] * shape[2] - 1 |-> V(k)]]

\* Zeros that are not sparse, or empty, real or complex.
ZerosProblems ==
    {[NamesProblem EXCEPT !.z = z, !.names = {Root}, !.calls = CooCalls \cup StructCalls] :
        z \in {Dense(<<2, 2>>, "float64", Different), Dense(<<0, 0>>, "float64", Ones),
               Pattern(<<0, 0>>, {}), Sparse(<<0, 0>>, {}, TRUE, Ones)}}

Signs(k) == <<IF k = 0 THEN -2 ELSE 1, 0>>
FarApart(k) == <<IF k = 0 THEN -3 ELSE 1, 0>>
Large(k) == <<Base + k, 0>>

DenseProblems ==
    {WithoutZeros(Problem(Dense(shape, "float64", Different), Single, {Root})) :
        shape \in {<<1, 2>>, <<2, 2>>}}
    \cup {WithoutZeros(Problem(a, Single, {Root})) :
            a \in {Dense(<<2, 2>>, "complex64", Alike), Dense(<<2, 1>>, "int_wide", Signs),
                   Dense(<<2, 1>>, "int_wide", FarApart), Dense(<<2, 1>>, "int_wide", Ones),
                   Dense(<<2, 2>>, "int_wide", Large), Dense(<<2, 1>>, "narrow", Ones),
                   Dense(<<2, 1>>, "float64", NaNs)}}

\* Structs made by hand: any class of index array, with values out of place.
Struct(t, indices) ==
    [format |-> "COO", nrows |-> 2, ncols |-> 2, nnz |-> 2, is_iso |-> FALSE,
     values |-> [type |-> "float64", data |-> [k \in 0 .. 1 |-> <<k + 1, 0>>]],
     indices_0 |-> Indexes(t, indices),
     indices_1 |-> Indexes("int_wide", [k \in 0 .. 1 |-> k]),
     pointers_to_1 |-> Indexes("float64", Absent.data)]

StructProblems ==
    {[WithoutZeros(Calling(HandCalls, Problem(Single, Single, {}))) EXCEPT !.struct = Struct(t, f)] :
        t \in {"float64", "int_narrow", "wide"}, f \in [0 .. 1 -> {-1, 0, 1, Base}]}
    \cup {[WithoutZeros(Calling(HandCalls, Problem(Single, Single, {}))) EXCEPT
             !.struct = [Struct("narrow", [k \in 0 .. 1 |-> k]) EXCEPT !.format = "COO",
                            !.values = [type |-> "int_wide", data |-> [k \in 0 .. 1 |-> One]]]]}

\* Dense vectors, as they should be or not.
VectorProblems ==
    {[WithoutZeros(Calling(HandCalls \cup {"write", "read"}, Problem(Single, Single, Names)))
        EXCEPT !.struct =
            [Struct("narrow", [k \in 0 .. 1 |-> k]) EXCEPT
                !.format = "DVEC", !.nrows = shape[1], !.ncols = shape[2],
                !.indices_0.data = Absent.data, !.indices_1.data = Absent.data]] :
        shape \in {<<2, 1>>, <<3, 1>>, <<1, 2>>}}

--------------------------------------------------------------------------------
Characters == {"letter", "blank", "nul", "two", "three", "high", "low"}

Rows(n) == [1 .. n -> Characters]

CharTexts ==
    {[class |-> "char", columns |-> n, rows |-> r] :
        n \in 0 .. 2, r \in {<<>>}}
    \cup UNION {{[class |-> "char", columns |-> n, rows |-> <<r>>] : r \in Rows(n)} : n \in 0 .. 3}
    \cup {[class |-> "char", columns |-> 2, rows |-> <<r, s>>] :
            r \in Rows(2), s \in {<<"letter", "blank">>, <<"high", "low">>, <<"nul", "nul">>}}

CellTexts ==
    {[class |-> "cell", cells |-> c] :
        c \in {<<>>, <<[class |-> "char", columns |-> 0, rows |-> <<>>]>>,
               <<[class |-> "char", columns |-> 1, rows |-> <<<<"letter">>, <<"letter">>>>]>>}}
    \cup {[class |-> "cell", cells |-> <<Row(r), Row(<<"letter">>)>>] :
            r \in UNION {Rows(n) : n \in 0 .. 2}}

TextProblems ==
    {[WithoutZeros(Calling(TextCalls, Problem(Single, Single, AuxNames))) EXCEPT !.text = t] :
        t \in CharTexts \cup CellTexts}

\* Texts of other programs: padded with blanks, ragged, malformed.
ForeignText(pad, length, width, bytes) ==
    [kind |-> "text", length |-> length, width |-> width, pad |-> pad, bytes |-> bytes]
ForeignTexts ==
    {ForeignText(pad, "fixed", 2, <<r, <<"two", "+">>>>) :
        pad \in {"nul", "space"}, r \in [1 .. 2 -> {"letter", "blank", "two", "+"}]}
    \cup {ForeignText("nul", "variable", 0, <<r>>) : r \in {<<"pair", "+">>, <<"+">>, <<"two", "+">>}}

ForeignProblems ==
    {[WithoutZeros(Calling(TextCalls, Problem(Single, Single, AuxNames))) EXCEPT !.foreign = t] : t \in ForeignTexts}

MCProblems ==
    PathProblems \cup BothProblems \cup OtherProblems \cup DenseProblems
    \cup FullProblems \cup ZerosProblems \cup VectorProblems
    \cup StructProblems \cup TextProblems \cup ForeignProblems

MCShapes == {<<2, 2>>, <<5, 1>>, <<1, 5>>, <<0, 1>>, <<1, 0>>}
================================================================================
