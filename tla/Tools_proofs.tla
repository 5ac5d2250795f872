------------------------------ MODULE Tools_proofs ------------------------------
(******************************************************************************)
(* Proofs about sessions of the command-line programs, for all Matrix Market, *)
(* Binsparse and tensor files, all programs in any number and order after     *)
(* mtx2bsp, and any failures.                                                 *)
(******************************************************************************)
EXTENDS Tools, SequenceTheorems, FiniteSetTheorems, TLAPS

--------------------------------------------------------------------------------
(* The inductive invariant. *)

CallNames ==
    {"metadata", "mmread", "declamp", "minimize", "convert", "write", "finish", "keep",
     "read", "read_parallel", "compare", "to_coo", "mmwrite", "tensor_read", "tensor_write",
     "tensor_finish"}

Blocks == Fields \cup Copies \cup
             {"metadata", "stream", "indices", "json_string", "j", "source"}

Endings == [program : DOMAIN Script, how : Ends, clean : BOOLEAN, left : SUBSET Blocks]

Keys ==
    {"format", "nrows", "ncols", "nnz", "is_iso", "structure", "values", "indices_0",
     "indices_1", "pointers_to_1"}

\* A matrix in memory: its fields, and the two parts of its arrays.
HasKeys(m) == DOMAIN m = Keys
IsMatrix(m) ==
    /\ HasKeys(m)
    /\ \A f \in Fields : DOMAIN m[f] = {"type", "data"}

Program == Head(todo)
Call == Head(calls)
UnderWay == todo # <<>>

\* The programs of a session are those that have ended and those still to run.
SessionInv ==
    /\ input \in Inputs
    /\ todo \in Seq(DOMAIN Script)
    /\ ended \in Seq(Endings)
    /\ Len(ended) + Len(todo) = Len(input.programs)
    /\ \A k \in DOMAIN todo : todo[k] = input.programs[Len(ended) + k]
    /\ \A k \in DOMAIN ended : ended[k].program = input.programs[k]

\* The calls are the rest of the program's script.
CallsInv ==
    UnderWay =>
       LET s == Script[Program]
       IN  /\ calls \in Seq(CallNames)
           /\ Len(calls) \in 1 .. Len(s)
           /\ \A k \in 1 .. Len(calls) : calls[k] = s[Len(s) - Len(calls) + k]

StateInv ==
    /\ IsFile(file)
    /\ live \subseteq Blocks
    /\ faulted \in BOOLEAN
    /\ step \in Errors => UnderWay /\ Call \in {"read", "read_parallel", "write"}
    /\ UnderWay /\ Program = "tensor_test" => live = {}

\* What mtx2bsp has allocated, while nothing has failed.
MmLive ==
    /\ IsMatrix(matrix)
    /\ input.text.format = "array" =>
          /\ input.text.type # "pattern"
          /\ step \in {"values", "open", "lines"}
          /\ live \subseteq {"metadata", "stream"} \cup
                               (IF input.text.nnz > 0 THEN {"values"} ELSE {})

MakeInv ==
    UnderWay /\ Program = "mtx2bsp" =>
        /\ Call = "metadata" \/ (Call = "mmread" /\ step = "start") => live = {}
        /\ ~faulted /\ Call = "mmread" /\ step # "start" => input.text.valid /\ MmLive
        /\ ~faulted /\ Call \notin {"metadata", "mmread"} =>
              IsMatrix(matrix) /\ live \subseteq Pointed(matrix)

\* The verdict of the two readers on the file.
Opens == file.exists /\ file.attribute
Asserts(call) ==
    /\ call = "read_parallel"
    /\ file.flaw \in Asserted
    /\ file.flaw \in Early \/ VersionError(file.version) = "SUCCESS"
Describes(call) == ~Asserts(call) /\ DescriptorError(Ignored(call)) = "SUCCESS"
Accepts(call) ==
    /\ Opens /\ Describes(call)
    /\ file.flaw \notin {"complex", "values_type", "structure_type"}
    /\ Names \subseteq file.datasets
Crashes(call) ==
    \/ call = "read_parallel" /\ file.flaw = "format_type" /\ VersionError(file.version) = "SUCCESS"
    \/ Describes(call) /\ file.flaw = "values_type" /\ "values" \in Names \cap file.datasets
    \/ Describes(call) /\ file.flaw = "structure_type" /\ Names \subseteq file.datasets
Refuses(call) == ~Accepts(call) /\ ~(Opens /\ (Asserts(call) \/ Crashes(call)))

\* The fields that are read before step s.
Got(s) ==
    CASE s = "values" -> {}
      [] s = "indices_0" -> {"values"}
      [] s = "indices_1" -> {"values", "indices_0"}
      [] s = "pointers_to_1" -> {"values", "indices_0", "indices_1"}
      [] OTHER -> Fields

FormatRead == IF file.flaw = "unknown_format" THEN "unknown" ELSE file.m.format

Reads == {"read", "read_parallel"}

ReadingInv ==
    /\ Opens /\ Describes(Call)
    /\ HasKeys(matrix)
    /\ matrix.format = FormatRead
    /\ live = {"json_string", "j"} \cup Pointed(matrix)
    /\ Got(step) \cap Names \subseteq file.datasets
    /\ \A f \in Fields \ Got(step) : matrix[f] = Absent
    /\ step # "values" => file.flaw \notin {"complex", "values_type"}

ErrorInv ==
    /\ live \cap Fields = IF step = "TYPE" THEN {"values"} ELSE {}
    /\ "json_string" \in live => step = "TYPE" \/ file.flaw \in {"json", "array"}
    /\ "j" \in live <=> step \in {"TYPE", "READ"} \/ (step = "FORMAT" /\ file.flaw = "array")
    /\ ~faulted => Refuses(Call)

ReadInv ==
    UnderWay /\ Call \in Reads =>
        /\ step = "start" => live = {}
        /\ step = "descriptor" => Opens /\ matrix = DefaultMatrix /\ live = {"json_string"}
        /\ step \in Fields \cup {"structure"} => ReadingInv
        /\ step \in Errors => ErrorInv
        /\ step \in {"start", "descriptor", "structure"} \cup Fields \cup Errors

ReaderOf(program) == IF program = "benchmark_read" THEN "read" ELSE "read_parallel"
Benchmarks == {"benchmark_read", "benchmark_read_parallel"}

\* What the programs have allocated after a read, and bsp2mtx after the conversion.
HoldInv ==
    /\ UnderWay /\ Call \in {"to_coo", "compare"} =>
          HasKeys(matrix) /\ live = Pointed(matrix)
    /\ UnderWay /\ Call = "to_coo" => matrix.format = FormatRead
    /\ UnderWay /\ Program \in Benchmarks /\ Call = "finish" =>
          HasKeys(matrix) /\ live = Pointed(matrix) /\ Accepts(ReaderOf(Program))
    /\ UnderWay /\ Program = "bsp2mtx" /\ Call \in {"mmwrite", "finish"} /\ ~faulted =>
          /\ HasKeys(matrix)
          /\ live = Pointed(matrix) \cup (IF file.m.format = "CSR" THEN {"source"} ELSE {})

Outcome(call) ==
    IF Opens /\ Asserts(call) THEN "abort"
    ELSE IF Opens /\ Crashes(call) THEN "crash"
    ELSE IF Accepts(call) THEN "exit 0" ELSE "BSP_CHECK"

\* What a program that has ended leaves, and how the benchmarks end.
Settled(e, format, serial, parallel) ==
    /\ e.how \in Ends
    /\ e.how = "exit 0" /\ e.clean =>
          e.left = IF e.program = "bsp2mtx" /\ format = "CSR" THEN {"source"} ELSE {}
    /\ e.clean /\ e.program = "benchmark_read" => e.how = serial
    /\ e.clean /\ e.program = "benchmark_read_parallel" => e.how = parallel

EndedInv ==
    \A k \in DOMAIN ended :
       Settled(ended[k], file.m.format, Outcome("read"), Outcome("read_parallel"))

IInv ==
    /\ SessionInv
    /\ CallsInv
    /\ StateInv
    /\ MakeInv
    /\ ReadInv
    /\ HoldInv
    /\ EndedInv

--------------------------------------------------------------------------------
(* Programs and their calls. *)

\* Each call of each program, and the one after it.
Succession ==
    {<<"mtx2bsp", "metadata", "mmread">>, <<"mtx2bsp", "mmread", "declamp">>,
     <<"mtx2bsp", "declamp", "minimize">>, <<"mtx2bsp", "minimize", "convert">>,
     <<"mtx2bsp", "convert", "write">>, <<"mtx2bsp", "write", "finish">>,
     <<"check", "mmread", "keep">>, <<"check", "keep", "read">>, <<"check", "read", "compare">>,
     <<"check_parallel", "mmread", "keep">>, <<"check_parallel", "keep", "read_parallel">>,
     <<"check_parallel", "read_parallel", "compare">>,
     <<"bsp2mtx", "read", "to_coo">>, <<"bsp2mtx", "to_coo", "mmwrite">>,
     <<"bsp2mtx", "mmwrite", "finish">>,
     <<"check_copy", "mmread", "keep">>, <<"check_copy", "keep", "read">>,
     <<"check_copy", "read", "compare">>,
     <<"benchmark_read", "read", "finish">>,
     <<"benchmark_read_parallel", "read_parallel", "finish">>,
     <<"tensor_test", "tensor_read", "tensor_write">>,
     <<"tensor_test", "tensor_write", "tensor_finish">>}

Final ==
    {<<"mtx2bsp", "finish">>, <<"check", "compare">>, <<"check_parallel", "compare">>,
     <<"bsp2mtx", "finish">>, <<"check_copy", "compare">>, <<"benchmark_read", "finish">>,
     <<"benchmark_read_parallel", "finish">>, <<"tensor_test", "tensor_finish">>}

FirstCalls == {"metadata", "mmread", "read", "read_parallel", "tensor_read"}

LEMMA Scripts ==
    ASSUME NEW p \in DOMAIN Script
    PROVE  /\ Script[p] \in Seq(CallNames)
           /\ Len(Script[p]) >= 2
           /\ Script[p][1] \in FirstCalls
           /\ p = "mtx2bsp" <=> Script[p][1] = "metadata"
           /\ \A k \in 1 .. Len(Script[p]) - 1 :
                 <<p, Script[p][k], Script[p][k + 1]>> \in Succession
           /\ <<p, Script[p][Len(Script[p])]>> \in Final
<1>1. p \in {"mtx2bsp", "check", "check_parallel", "bsp2mtx", "check_copy", "benchmark_read",
             "benchmark_read_parallel", "tensor_test"}
  BY DEF Script
<1>2. CASE p = "mtx2bsp"
  <2>1. Script[p] \in Seq(CallNames)
    BY <1>2 DEF Script, CallNames
  <2>2. Len(Script[p]) = 7
    BY <1>2 DEF Script
  <2>3. Len(Script[p]) - 1 = 6 /\ Len(Script[p]) >= 2
    BY <2>2
  <2>4. /\ \A k \in 1 .. 6 : <<p, Script[p][k], Script[p][k + 1]>> \in Succession
        /\ <<p, Script[p][7]>> \in Final
    BY <1>2 DEF Script, Succession, Final
  <2>5. /\ Script[p][1] \in FirstCalls
        /\ p = "mtx2bsp" <=> Script[p][1] = "metadata"
    BY <1>2 DEF Script, FirstCalls
  <2>6. QED
    BY <2>1, <2>2, <2>3, <2>4, <2>5
<1>3. CASE p = "check"
  <2>1. Script[p] \in Seq(CallNames)
    BY <1>3 DEF Script, CallNames
  <2>2. Len(Script[p]) = 4
    BY <1>3 DEF Script
  <2>3. Len(Script[p]) - 1 = 3 /\ Len(Script[p]) >= 2
    BY <2>2
  <2>4. /\ \A k \in 1 .. 3 : <<p, Script[p][k], Script[p][k + 1]>> \in Succession
        /\ <<p, Script[p][4]>> \in Final
    BY <1>3 DEF Script, Succession, Final
  <2>5. /\ Script[p][1] \in FirstCalls
        /\ p = "mtx2bsp" <=> Script[p][1] = "metadata"
    BY <1>3 DEF Script, FirstCalls
  <2>6. QED
    BY <2>1, <2>2, <2>3, <2>4, <2>5
<1>4. CASE p = "check_parallel"
  <2>1. Script[p] \in Seq(CallNames)
    BY <1>4 DEF Script, CallNames
  <2>2. Len(Script[p]) = 4
    BY <1>4 DEF Script
  <2>3. Len(Script[p]) - 1 = 3 /\ Len(Script[p]) >= 2
    BY <2>2
  <2>4. /\ \A k \in 1 .. 3 : <<p, Script[p][k], Script[p][k + 1]>> \in Succession
        /\ <<p, Script[p][4]>> \in Final
    BY <1>4 DEF Script, Succession, Final
  <2>5. /\ Script[p][1] \in FirstCalls
        /\ p = "mtx2bsp" <=> Script[p][1] = "metadata"
    BY <1>4 DEF Script, FirstCalls
  <2>6. QED
    BY <2>1, <2>2, <2>3, <2>4, <2>5
<1>5. CASE p = "bsp2mtx"
  <2>1. Script[p] \in Seq(CallNames)
    BY <1>5 DEF Script, CallNames
  <2>2. Len(Script[p]) = 4
    BY <1>5 DEF Script
  <2>3. Len(Script[p]) - 1 = 3 /\ Len(Script[p]) >= 2
    BY <2>2
  <2>4. /\ \A k \in 1 .. 3 : <<p, Script[p][k], Script[p][k + 1]>> \in Succession
        /\ <<p, Script[p][4]>> \in Final
    BY <1>5 DEF Script, Succession, Final
  <2>5. /\ Script[p][1] \in FirstCalls
        /\ p = "mtx2bsp" <=> Script[p][1] = "metadata"
    BY <1>5 DEF Script, FirstCalls
  <2>6. QED
    BY <2>1, <2>2, <2>3, <2>4, <2>5
<1>6. CASE p = "check_copy"
  <2>1. Script[p] \in Seq(CallNames)
    BY <1>6 DEF Script, CallNames
  <2>2. Len(Script[p]) = 4
    BY <1>6 DEF Script
  <2>3. Len(Script[p]) - 1 = 3 /\ Len(Script[p]) >= 2
    BY <2>2
  <2>4. /\ \A k \in 1 .. 3 : <<p, Script[p][k], Script[p][k + 1]>> \in Succession
        /\ <<p, Script[p][4]>> \in Final
    BY <1>6 DEF Script, Succession, Final
  <2>5. /\ Script[p][1] \in FirstCalls
        /\ p = "mtx2bsp" <=> Script[p][1] = "metadata"
    BY <1>6 DEF Script, FirstCalls
  <2>6. QED
    BY <2>1, <2>2, <2>3, <2>4, <2>5
<1>7. CASE p = "benchmark_read"
  <2>1. Script[p] \in Seq(CallNames)
    BY <1>7 DEF Script, CallNames
  <2>2. Len(Script[p]) = 2
    BY <1>7 DEF Script
  <2>3. Len(Script[p]) - 1 = 1 /\ Len(Script[p]) >= 2
    BY <2>2
  <2>4. /\ \A k \in 1 .. 1 : <<p, Script[p][k], Script[p][k + 1]>> \in Succession
        /\ <<p, Script[p][2]>> \in Final
    BY <1>7 DEF Script, Succession, Final
  <2>5. /\ Script[p][1] \in FirstCalls
        /\ p = "mtx2bsp" <=> Script[p][1] = "metadata"
    BY <1>7 DEF Script, FirstCalls
  <2>6. QED
    BY <2>1, <2>2, <2>3, <2>4, <2>5
<1>8. CASE p = "benchmark_read_parallel"
  <2>1. Script[p] \in Seq(CallNames)
    BY <1>8 DEF Script, CallNames
  <2>2. Len(Script[p]) = 2
    BY <1>8 DEF Script
  <2>3. Len(Script[p]) - 1 = 1 /\ Len(Script[p]) >= 2
    BY <2>2
  <2>4. /\ \A k \in 1 .. 1 : <<p, Script[p][k], Script[p][k + 1]>> \in Succession
        /\ <<p, Script[p][2]>> \in Final
    BY <1>8 DEF Script, Succession, Final
  <2>5. /\ Script[p][1] \in FirstCalls
        /\ p = "mtx2bsp" <=> Script[p][1] = "metadata"
    BY <1>8 DEF Script, FirstCalls
  <2>6. QED
    BY <2>1, <2>2, <2>3, <2>4, <2>5
<1>9. CASE p = "tensor_test"
  <2>1. Script[p] \in Seq(CallNames)
    BY <1>9 DEF Script, CallNames
  <2>2. Len(Script[p]) = 3
    BY <1>9 DEF Script
  <2>3. Len(Script[p]) - 1 = 2 /\ Len(Script[p]) >= 2
    BY <2>2
  <2>4. /\ \A k \in 1 .. 2 : <<p, Script[p][k], Script[p][k + 1]>> \in Succession
        /\ <<p, Script[p][3]>> \in Final
    BY <1>9 DEF Script, Succession, Final
  <2>5. /\ Script[p][1] \in FirstCalls
        /\ p = "mtx2bsp" <=> Script[p][1] = "metadata"
    BY <1>9 DEF Script, FirstCalls
  <2>6. QED
    BY <2>1, <2>2, <2>3, <2>4, <2>5
<1>10. QED
  BY <1>1, <1>2, <1>3, <1>4, <1>5, <1>6, <1>7, <1>8, <1>9

LEMMA OneOrMore == \A n \in Nat : n >= 1 => n = 1 \/ n > 1
  OBVIOUS

LEMMA Behind ==
    ASSUME NEW m \in Int, NEW n \in Int, NEW l \in Int, NEW k \in Int, l = n - 1
    PROVE  m - n + (k + 1) = m - l + k
  OBVIOUS

\* The rest of a rest.
LEMMA RestOfRest ==
    ASSUME NEW S, NEW s, NEW c \in Seq(S), Len(s) \in Nat, Len(c) > 1, Len(c) \in 1 .. Len(s),
           \A k \in 1 .. Len(c) : c[k] = s[Len(s) - Len(c) + k]
    PROVE  /\ Len(Tail(c)) \in 1 .. Len(s)
           /\ \A k \in 1 .. Len(Tail(c)) : Tail(c)[k] = s[Len(s) - Len(Tail(c)) + k]
<1> DEFINE m == Len(s)
           n == Len(c)
           d == Tail(c)
           l == Len(d)
<1>1. m \in Int /\ n \in Int /\ n > 1 /\ n <= m
  OBVIOUS
<1>2. c # <<>>
  BY <1>1, EmptySeq
<1>3. l = n - 1 /\ \A k \in 1 .. l : d[k] = c[k + 1]
  BY <1>2, HeadTailProperties
<1>4. \A k \in 1 .. n : c[k] = s[m - n + k]
  OBVIOUS
<1> HIDE DEF m, n, d, l
<1>5. l \in Int /\ l \in 1 .. m
  BY <1>1, <1>3
<1>6. ASSUME NEW k \in 1 .. l PROVE d[k] = s[m - l + k]
  <2>1. k \in Int /\ k + 1 \in 1 .. n
    BY <1>1, <1>3
  <2>2. d[k] = s[m - n + (k + 1)]
    BY <2>1, <1>3, <1>4
  <2>3. m - n + (k + 1) = m - l + k
    BY <2>1, <1>1, <1>3, <1>5, Behind
  <2>4. QED
    BY <2>2, <2>3
<1>7. QED
  BY <1>5, <1>6 DEF m, l, d

\* What is known of the call under way.
LEMMA CallUnderWay ==
    ASSUME SessionInv, CallsInv, UnderWay
    PROVE  /\ Program \in DOMAIN Script
           /\ calls \in Seq(CallNames) /\ calls # <<>> /\ Call = calls[1]
           /\ \/ Len(calls) = 1 /\ <<Program, Call>> \in Final
              \/ Len(calls) > 1 /\ <<Program, Call, calls[2]>> \in Succession
<1>1. Program \in DOMAIN Script
  BY HeadTailProperties DEF SessionInv, UnderWay, Program
<1>2. calls \in Seq(CallNames) /\ Len(calls) >= 1
  BY DEF CallsInv
<1>3. Call = calls[1] /\ calls # <<>>
  BY <1>2, EmptySeq DEF Call
<1>4. Len(Script[Program]) \in Nat
  BY <1>1, Scripts, LenProperties
<1>5. CASE Len(calls) = 1
  <2>1. calls[1] = Script[Program][Len(Script[Program]) - 1 + 1]
    BY <1>5 DEF CallsInv
  <2>2. Len(Script[Program]) - 1 + 1 = Len(Script[Program])
    BY <1>4
  <2>3. calls[1] = Script[Program][Len(Script[Program])]
    BY <2>1, <2>2
  <2>4. QED
    BY <2>3, <1>1, <1>2, <1>3, <1>5, Scripts
<1>6. CASE Len(calls) > 1
  <2> DEFINE k == Len(Script[Program]) - Len(calls) + 1
  <2>1. k \in 1 .. Len(Script[Program]) - 1 /\ Len(calls) \in Nat
    BY <1>4, <1>2, <1>6 DEF CallsInv
  <2>2. 1 \in 1 .. Len(calls) /\ 2 \in 1 .. Len(calls)
    BY <2>1, <1>6
  <2>3. calls[1] = Script[Program][k]
    BY <2>2 DEF CallsInv
  <2>4. calls[2] = Script[Program][Len(Script[Program]) - Len(calls) + 2]
    BY <2>2 DEF CallsInv
  <2>5. Len(Script[Program]) - Len(calls) + 2 = k + 1
    BY <2>1, <1>4
  <2>6. calls[2] = Script[Program][k + 1]
    BY <2>4, <2>5
  <2>7. <<Program, Script[Program][k], Script[Program][k + 1]>> \in Succession
    BY <2>1, <1>1, Scripts
  <2>8. QED
    BY <2>3, <2>6, <2>7, <1>1, <1>2, <1>3, <1>6
<1>7. Len(calls) \in Nat
  BY <1>2, LenProperties
<1>8. Len(calls) = 1 \/ Len(calls) > 1
  BY <1>2, <1>7, OneOrMore
<1>9. QED
  BY <1>1, <1>2, <1>3, <1>5, <1>6, <1>8

\* A call that is not the last one returns.
LEMMA NextCall ==
    ASSUME SessionInv, CallsInv, UnderWay, calls' = Tail(calls), UNCHANGED todo,
           Call \notin {"finish", "compare", "tensor_finish"}
    PROVE  /\ CallsInv'
           /\ UnderWay' /\ Program' = Program
           /\ <<Program, Call, Call'>> \in Succession
<1>1. Len(calls) > 1 /\ <<Program, Call, calls[2]>> \in Succession
  BY CallUnderWay DEF Final
<1>2. /\ calls' \in Seq(CallNames) /\ Len(calls') = Len(calls) - 1
      /\ \A k \in 1 .. Len(calls') : calls'[k] = calls[k + 1]
  BY CallUnderWay, HeadTailProperties
<1>3. UnderWay' /\ Program' = Program
  BY DEF UnderWay, Program
<1>4. Len(Script[Program]) \in Nat /\ Len(calls) \in Nat
  BY Scripts, CallUnderWay, LenProperties
<1>5. CallsInv'
  <2>1. Len(calls) \in 1 .. Len(Script[Program])
        /\ \A k \in 1 .. Len(calls) :
              calls[k] = Script[Program][Len(Script[Program]) - Len(calls) + k]
    BY DEF CallsInv
  <2>2. /\ Len(calls') \in 1 .. Len(Script[Program])
        /\ \A k \in 1 .. Len(calls') :
              calls'[k] = Script[Program][Len(Script[Program]) - Len(calls') + k]
    BY <2>1, <1>1, <1>4, CallUnderWay, RestOfRest
  <2>3. QED
    BY <2>2, <1>2, <1>3 DEF CallsInv
<1>6. Call' = calls[2]
  BY <1>1, <1>2, <1>4, EmptySeq DEF Call
<1>7. QED
  BY <1>1, <1>3, <1>5, <1>6

\* A program ends, and the next one begins.
LEMMA NextProgram ==
    ASSUME SessionInv, UnderWay, UNCHANGED input,
           NEW e \in Endings, e.program = Program,
           ended' = Append(ended, e), todo' = Tail(todo),
           calls' = IF Len(todo) = 1 THEN <<>> ELSE Script[todo[2]]
    PROVE  /\ SessionInv' /\ CallsInv'
           /\ UnderWay' => Call' \in FirstCalls
           /\ UnderWay' => (Program' = "mtx2bsp" <=> Call' = "metadata")
           /\ \A k \in DOMAIN ended' :
                 (k \in DOMAIN ended /\ ended'[k] = ended[k]) \/ ended'[k] = e
<1> DEFINE m == Len(ended)
           n == Len(todo)
<1>1. /\ todo \in Seq(DOMAIN Script) /\ todo # <<>>
      /\ ended \in Seq(Endings)
      /\ m \in Nat /\ n \in Nat /\ n >= 1
      /\ DOMAIN todo = 1 .. n /\ DOMAIN ended = 1 .. m
  BY EmptySeq, LenProperties DEF SessionInv, UnderWay
<1>2. /\ todo' \in Seq(DOMAIN Script)
      /\ Len(todo') = n - 1
      /\ \A k \in 1 .. n - 1 : todo'[k] = todo[k + 1]
      /\ Program = todo[1]
      /\ DOMAIN todo' = 1 .. n - 1
  <2>1. /\ Tail(todo) \in Seq(DOMAIN Script)
        /\ Len(Tail(todo)) = n - 1
        /\ \A k \in 1 .. Len(Tail(todo)) : Tail(todo)[k] = todo[k + 1]
    BY <1>1, HeadTailProperties
  <2>2. DOMAIN Tail(todo) = 1 .. n - 1
    BY <2>1, LenProperties
  <2>3. Program = todo[1]
    BY <1>1 DEF Program
  <2>4. QED
    BY <2>1, <2>2, <2>3
<1>3. /\ ended' \in Seq(Endings)
      /\ Len(ended') = m + 1
      /\ \A k \in 1 .. m : ended'[k] = ended[k]
      /\ ended'[m + 1] = e
      /\ DOMAIN ended' = 1 .. m + 1
  BY <1>1, AppendProperties, LenProperties
<1>4. /\ m + n = Len(input.programs)
      /\ \A k \in 1 .. n : todo[k] = input.programs[m + k]
      /\ \A k \in 1 .. m : ended[k].program = input.programs[k]
  BY <1>1 DEF SessionInv
<1> HIDE DEF m, n
<1>5. SessionInv'
  <2>1. Len(ended') + Len(todo') = Len(input'.programs)
    <3>1. (m + 1) + (n - 1) = m + n
      BY <1>1
    <3>2. Len(ended') + Len(todo') = m + n
      BY <3>1, <1>2, <1>3, Zenon
    <3>3. QED
      BY <3>2, <1>4
  <2>2. ASSUME NEW k \in DOMAIN todo' PROVE todo'[k] = input'.programs[Len(ended') + k]
    <3>0. k \in 1 .. n - 1
      BY <1>2
    <3>1. k \in Int /\ k + 1 \in 1 .. n /\ m + (k + 1) = (m + 1) + k
      BY <3>0, <1>1
    <3>2. todo'[k] = input.programs[m + (k + 1)]
      BY <1>2, <1>4, <3>1
    <3>3. QED
      BY <3>1, <3>2, <1>3
  <2>3. ASSUME NEW k \in DOMAIN ended' PROVE ended'[k].program = input'.programs[k]
    <3>1. CASE k \in 1 .. m
      BY <3>1, <1>3, <1>4
    <3>2. CASE k = m + 1
      <4>1. e.program = input.programs[m + 1]
        BY <1>1, <1>2, <1>4
      <4>2. QED
        BY <3>2, <4>1, <1>3
    <3>3. QED
      BY <3>1, <3>2, <1>1, <1>3
  <2>4. QED
    BY <2>1, <2>2, <2>3, <1>2, <1>3 DEF SessionInv
<1>6. CASE n = 1
  <2>1. ~UnderWay'
    BY <1>2, <1>6, EmptySeq DEF UnderWay
  <2>2. CallsInv'
    BY <2>1 DEF CallsInv
  <2>3. QED
    BY <2>1, <2>2, <1>1, <1>3, <1>5
<1>7. CASE n # 1
  <2>1. 2 \in 1 .. n /\ 1 \in 1 .. n - 1
    BY <1>1, <1>7
  <2>2. calls' = Script[todo[2]] /\ todo[2] \in DOMAIN Script
    BY <2>1, <1>1, <1>7, ElementOfSeq DEF n
  <2>3. todo' # <<>> /\ todo'[1] = todo[2]
    BY <2>1, <1>2, EmptySeq
  <2>4. Program' = todo[2]
    BY <2>3, <1>2 DEF Program
  <2>5. calls' = Script[Program'] /\ Program' \in DOMAIN Script
    BY <2>2, <2>4
  <2>6. /\ calls' \in Seq(CallNames) /\ Len(calls') >= 2 /\ Len(calls') \in Nat
        /\ calls'[1] \in FirstCalls
        /\ Program' = "mtx2bsp" <=> calls'[1] = "metadata"
    BY <2>5, Scripts, LenProperties
  <2>7. Call' = calls'[1]
    <3>1. calls' # <<>>
      BY <2>6, EmptySeq
    <3>2. QED
      BY <3>1, <2>6 DEF Call
  <2>8. CallsInv'
    <3>1. Len(calls') \in 1 .. Len(Script[Program'])
      BY <2>5, <2>6
    <3>2. ASSUME NEW k \in 1 .. Len(calls')
          PROVE  calls'[k] = Script[Program'][Len(Script[Program']) - Len(calls') + k]
      <4>1. Len(calls') - Len(calls') + k = k
        BY <2>6
      <4>2. QED
        BY <4>1, <2>5
    <3>3. QED
      BY <3>1, <3>2, <2>6 DEF CallsInv
  <2>9. QED
    BY <2>6, <2>7, <2>8, <1>1, <1>3, <1>5
<1>8. QED
  BY <1>6, <1>7

\* The readers' verdict is about the file alone.
LEMMA OutcomeStays ==
    ASSUME UNCHANGED file, NEW call \in Reads
    PROVE  Outcome(call)' = Outcome(call)
  BY DEF Outcome, Opens, Asserts, Accepts, Crashes, Describes, DescriptorError, Ignored, Names

\* The program under way ends: what it leaves and how are as they should be.
LEMMA EndStep ==
    ASSUME IInv, UnderWay, UNCHANGED file,
           NEW how \in Ends, NEW failed \in BOOLEAN, End(how, failed),
           how = "exit 0" /\ ~faulted /\ ~failed =>
              live \ (IF matrix = NoMatrix THEN {} ELSE Pointed(matrix))
                 = IF Program = "bsp2mtx" /\ file.m.format = "CSR" THEN {"source"} ELSE {},
           Program \in Benchmarks /\ ~faulted /\ ~failed => how = Outcome(ReaderOf(Program))
    PROVE  IInv'
<1> DEFINE e == [program |-> Program, how |-> how, clean |-> ~(faulted \/ failed),
                 left |-> live \ (IF matrix = NoMatrix THEN {} ELSE Pointed(matrix))]
<1>1. e \in Endings /\ e.program = Program
  BY CallUnderWay DEF IInv, StateInv, Endings
<1>2. /\ UNCHANGED input /\ ended' = Append(ended, e) /\ todo' = Tail(todo)
      /\ calls' = IF Len(todo) = 1 THEN <<>> ELSE Script[todo[2]]
      /\ step' = "start" /\ live' = {} /\ faulted' = FALSE
  BY DEF End, Program
<1>3. /\ SessionInv' /\ CallsInv'
      /\ UnderWay' => Call' \in FirstCalls
      /\ UnderWay' => (Program' = "mtx2bsp" <=> Call' = "metadata")
      /\ \A k \in DOMAIN ended' :
            (k \in DOMAIN ended /\ ended'[k] = ended[k]) \/ ended'[k] = e
  <2> HIDE DEF e
  <2>1. QED
    BY <1>1, <1>2, NextProgram DEF IInv
<1> DEFINE format == file.m.format
           serial == Outcome("read")
           parallel == Outcome("read_parallel")
<1>4. Settled(e, format, serial, parallel)
  BY DEF Settled, Benchmarks, ReaderOf
<1>5. format' = format /\ serial' = serial /\ parallel' = parallel
  BY OutcomeStays DEF Reads
<1>6. EndedInv'
  <2>1. \A k \in DOMAIN ended : Settled(ended[k], format, serial, parallel)
    BY DEF IInv, EndedInv
  <2> HIDE DEF e, format, serial, parallel
  <2>2. ASSUME NEW k \in DOMAIN ended' PROVE Settled(ended'[k], format, serial, parallel)
    BY <1>3, <1>4, <2>1
  <2>3. ASSUME NEW k \in DOMAIN ended' PROVE Settled(ended'[k], format', serial', parallel')
    BY <2>2, <1>5
  <2>4. QED
    BY <2>3 DEF EndedInv, format, serial, parallel
<1>7. StateInv'
  BY <1>2 DEF IInv, StateInv, Errors
<1>8. MakeInv'
  BY <1>2, <1>3 DEF MakeInv, FirstCalls
<1>9. ReadInv'
  BY <1>2, <1>3 DEF ReadInv, Errors, Fields
<1>10. HoldInv'
  BY <1>2, <1>3 DEF HoldInv, FirstCalls
<1>11. QED
  BY <1>3, <1>6, <1>7, <1>8, <1>9, <1>10 DEF IInv

--------------------------------------------------------------------------------
(* Calls return or go on. *)

LEMMA SessionStays ==
    ASSUME SessionInv, UNCHANGED <<input, todo, ended>>
    PROVE  SessionInv'
  BY DEF SessionInv

LEMMA EndedStays ==
    ASSUME EndedInv, UNCHANGED ended, UNCHANGED file \/ ended = <<>>
    PROVE  EndedInv'
<1>1. CASE ended = <<>>
  BY <1>1 DEF EndedInv
<1>2. CASE UNCHANGED file
  <2> DEFINE format == file.m.format
             serial == Outcome("read")
             parallel == Outcome("read_parallel")
  <2>1. format' = format /\ serial' = serial /\ parallel' = parallel
    BY <1>2, OutcomeStays DEF Reads
  <2>2. \A k \in DOMAIN ended : Settled(ended[k], format, serial, parallel)
    BY DEF EndedInv
  <2> HIDE DEF format, serial, parallel
  <2>3. \A k \in DOMAIN ended' : Settled(ended'[k], format', serial', parallel')
    BY <2>1, <2>2
  <2>4. QED
    BY <2>3 DEF EndedInv, format, serial, parallel
<1>3. QED
  BY <1>1, <1>2

\* A call goes on, or returns an error.
LEMMA CallGoesOn ==
    ASSUME IInv, UnderWay, UNCHANGED <<input, todo, calls, ended>>,
           UNCHANGED file \/ ended = <<>>, IsFile(file'),
           live' \subseteq Blocks, faulted' \in BOOLEAN,
           step' \in Errors => Call \in {"read", "read_parallel", "write"},
           Program = "tensor_test" => live' = {},
           MakeInv', ReadInv', HoldInv'
    PROVE  IInv'
<1>1. Program' = Program /\ Call' = Call /\ UnderWay'
  BY DEF Program, Call, UnderWay
<1>2. SessionInv'
  BY SessionStays DEF IInv
<1>3. CallsInv'
  BY <1>1 DEF IInv, CallsInv
<1>4. EndedInv'
  BY EndedStays DEF IInv
<1>5. StateInv'
  BY <1>1 DEF StateInv
<1>6. QED
  BY <1>2, <1>3, <1>4, <1>5 DEF IInv

\* A call that is not the last one succeeds.
LEMMA CallSucceeds ==
    ASSUME IInv, UnderWay, calls' = Tail(calls), step' = "start", UNCHANGED <<input, todo, ended>>,
           Call \notin {"finish", "compare", "tensor_finish"},
           UNCHANGED file \/ ended = <<>>, IsFile(file'),
           live' \subseteq Blocks, faulted' \in BOOLEAN,
           Program = "tensor_test" => live' = {},
           Call' \in Reads => live' = {},
           MakeInv', HoldInv'
    PROVE  IInv'
<1>1. CallsInv' /\ UnderWay' /\ Program' = Program
  BY NextCall DEF IInv
<1>2. SessionInv'
  BY SessionStays DEF IInv
<1>3. EndedInv'
  BY EndedStays DEF IInv
<1>4. StateInv'
  BY <1>1 DEF StateInv, Errors
<1>5. ReadInv'
  BY DEF ReadInv, Errors, Fields
<1>6. QED
  BY <1>1, <1>2, <1>3, <1>4, <1>5 DEF IInv

LEMMA CallReturns ==
    ASSUME IInv, UnderWay, Return("SUCCESS"),
           Call \notin {"finish", "compare", "tensor_finish"},
           UNCHANGED file \/ ended = <<>>, IsFile(file'),
           live' \subseteq Blocks, faulted' \in BOOLEAN,
           Program = "tensor_test" => live' = {},
           Call' \in Reads => live' = {},
           MakeInv', HoldInv'
    PROVE  IInv'
<1>1. calls' = Tail(calls) /\ step' = "start" /\ UNCHANGED <<input, todo, ended>>
  BY DEF Return
<1>2. QED
  BY <1>1, CallSucceeds

\* A program that does not exit with 0 dies.
LEMMA Death ==
    ASSUME IInv, UnderWay, NEW how \in Ends \ {"exit 0"}, NEW failed \in BOOLEAN,
           Dies(how, failed), Program \notin Benchmarks \/ failed
    PROVE  IInv'
<1>1. UNCHANGED file /\ End(how, failed)
  BY DEF Dies
<1>2. QED
  BY <1>1, EndStep

--------------------------------------------------------------------------------
(* Matrices and what they point to. *)

LEMMA PointedSame ==
    ASSUME NEW m, NEW n, \A f \in Fields : DOMAIN n[f].data = DOMAIN m[f].data
    PROVE  Pointed(n) = Pointed(m)
  BY DEF Pointed, Size

LEMMA DefaultMatrixFacts ==
    /\ IsMatrix(DefaultMatrix)
    /\ Pointed(DefaultMatrix) = {}
<1>1. IsMatrix(DefaultMatrix)
  BY DEF IsMatrix, HasKeys, Keys, DefaultMatrix, Fields, Absent, Indexes
<1>2. Size(Absent.data) = 0
  BY FS_EmptySet DEF Size, Absent, Indexes
<1>3. \A f \in Fields : DefaultMatrix[f] = Absent
  BY DEF Fields, DefaultMatrix
<1>4. QED
  BY <1>1, <1>2, <1>3 DEF Pointed

LEMMA NotNoMatrix ==
    ASSUME NEW m, HasKeys(m)
    PROVE  m # NoMatrix
  BY DEF HasKeys, Keys, NoMatrix

LEMMA ArrayPointed ==
    ASSUME NEW m, NEW f \in Fields, NEW n \in Nat, DOMAIN m[f].data = 0 .. n - 1
    PROVE  f \in Pointed(m) <=> n > 0
<1>1. Size(m[f].data) = n
  BY FS_Interval DEF Size
<1>2. QED
  BY <1>1 DEF Pointed

--------------------------------------------------------------------------------
(* bsp_mmread. *)

LEMMA SetArray ==
    ASSUME NEW m, IsMatrix(m), NEW f \in Fields, NEW a, DOMAIN a = {"type", "data"}
    PROVE  IsMatrix([m EXCEPT ![f] = a])
  BY DEF IsMatrix, HasKeys, Keys, Fields

LEMMA PermutedFacts ==
    ASSUME NEW m, IsMatrix(m), NEW p
    PROVE  IsMatrix(Permuted(m, p)) /\ Pointed(Permuted(m, p)) = Pointed(m)
<1> DEFINE n == Permuted(m, p)
<1>1. IsMatrix(n)
  BY DEF Permuted, IsMatrix, HasKeys, Keys, Fields
<1>2. \A f \in Fields : DOMAIN n[f].data = DOMAIN m[f].data
  BY DEF Permuted, IsMatrix, HasKeys, Keys, Fields
<1> HIDE DEF n
<1>3. Pointed(n) = Pointed(m)
  BY <1>2, PointedSame
<1>4. QED
  BY <1>1, <1>3 DEF n

LEMMA AfterSteps ==
    /\ After("indices_0") = "indices_1" /\ After("indices_1") = "values"
    /\ After("values") = "open"
    /\ After("rowind") = "colind" /\ After("colind") = "sorted_values"
    /\ After("sorted_values") = "permute"
<1>1. /\ MmOrder[1] = "indices_0" /\ MmOrder[2] = "indices_1" /\ MmOrder[3] = "values"
      /\ MmOrder[4] = "open" /\ MmOrder[5] = "lines" /\ MmOrder[6] = "sort"
      /\ MmOrder[7] = "rowind" /\ MmOrder[8] = "colind" /\ MmOrder[9] = "sorted_values"
      /\ MmOrder[10] = "permute"
  BY DEF MmOrder
<1>2. ASSUME NEW k \in 1 .. 9, NEW s, MmOrder[k] = s,
             \A l \in 1 .. 9 : MmOrder[l] = s => l = k
      PROVE  After(s) = MmOrder[k + 1]
  <2>1. (CHOOSE l \in 1 .. 9 : MmOrder[l] = s) = k
    BY <1>2
  <2>2. QED
    BY <2>1 DEF After
<1>3. \A l \in 1 .. 9 : l \in {1, 2, 3, 4, 5, 6, 7, 8, 9}
  OBVIOUS
<1>4. After("indices_0") = MmOrder[1 + 1]
  BY <1>1, <1>2, <1>3
<1>5. After("indices_1") = MmOrder[2 + 1]
  BY <1>1, <1>2, <1>3
<1>6. After("values") = MmOrder[3 + 1]
  BY <1>1, <1>2, <1>3
<1>7. After("rowind") = MmOrder[7 + 1]
  BY <1>1, <1>2, <1>3
<1>8. After("colind") = MmOrder[8 + 1]
  BY <1>1, <1>2, <1>3
<1>9. After("sorted_values") = MmOrder[9 + 1]
  BY <1>1, <1>2, <1>3
<1>10. QED
  BY <1>1, <1>4, <1>5, <1>6, <1>7, <1>8, <1>9

LEMMA MmGoes ==
    ASSUME IInv, UnderWay, Call = "mmread", NEW s, Go(s), s \notin Errors \cup {"start"},
           live' \subseteq Blocks, faulted' \in BOOLEAN,
           Program = "mtx2bsp" /\ ~faulted' => input.text.valid /\ MmLive'
    PROVE  IInv'
<1>1. step' = s /\ UNCHANGED <<input, file, todo, calls, ended>>
  BY DEF Go
<1>2. Program' = Program /\ Call' = Call
  BY <1>1 DEF Program, Call
<1>3. MakeInv' /\ ReadInv' /\ HoldInv'
  BY <1>1, <1>2 DEF MakeInv, ReadInv, HoldInv, Reads
<1>4. Program # "tensor_test"
  BY CallUnderWay DEF IInv, Succession, Final
<1>5. IsFile(file')
  BY <1>1 DEF IInv, StateInv
<1>6. QED
  BY <1>1, <1>3, <1>4, <1>5, CallGoesOn

LEMMA MmReturns ==
    ASSUME IInv, UnderWay, Call = "mmread", Return("SUCCESS"), UNCHANGED file,
           live' \subseteq Blocks, faulted' \in BOOLEAN,
           Program = "mtx2bsp" /\ ~faulted' => IsMatrix(matrix') /\ live' \subseteq Pointed(matrix')
    PROVE  IInv'
<1>1. step' = "start" /\ UNCHANGED <<input, todo, ended>> /\ calls' = Tail(calls)
  BY DEF Return
<1>2. Program' = Program /\ UnderWay' /\ <<Program, Call, Call'>> \in Succession
  BY <1>1, NextCall DEF IInv
<1>3. Call' \in {"declamp", "keep"} /\ Program # "tensor_test"
  BY <1>2 DEF Succession
<1>4. MakeInv' /\ HoldInv'
  BY <1>2, <1>3 DEF MakeInv, HoldInv
<1>5. IsFile(file')
  BY DEF IInv, StateInv
<1>6. QED
  BY <1>3, <1>4, <1>5, CallReturns DEF Reads

LEMMA MmDies ==
    ASSUME IInv, UnderWay, Call = "mmread", NEW how \in {"abort", "crash", "undefined"},
           NEW failed \in BOOLEAN, Dies(how, failed)
    PROVE  IInv'
<1>1. Program \notin Benchmarks
  BY CallUnderWay DEF IInv, Succession, Final, Benchmarks
<1>2. how \in Ends \ {"exit 0"}
  BY DEF Ends
<1>3. QED
  BY <1>1, <1>2, Death

LEMMA TextNumbers ==
    ASSUME NEW t, IsText(t), t.valid PROVE t.nrows \in Nat /\ t.ncols \in Nat /\ t.nnz \in Nat
  BY DEF IsText

\* What is known of a call of bsp_mmread.
LEMMA MmUnderWay ==
    ASSUME IInv, NEW s, Mm(s)
    PROVE  /\ UnderWay /\ Call = "mmread" /\ step = s
           /\ live \subseteq Blocks /\ faulted \in BOOLEAN
           /\ Program = "mtx2bsp" => Text = input.text /\ IsText(input.text)
           /\ Program = "mtx2bsp" /\ s = "start" => live = {}
           /\ Program = "mtx2bsp" /\ ~faulted /\ s # "start" => input.text.valid /\ MmLive
<1>1. UnderWay /\ Call = "mmread" /\ step = s
  BY DEF Mm, At, UnderWay, Call
<1>2. live \subseteq Blocks /\ faulted \in BOOLEAN
  BY DEF IInv, StateInv
<1>3. IsText(input.text)
  BY InputsAssumption DEF IInv, SessionInv, IsSession
<1>4. QED
  BY <1>1, <1>2, <1>3 DEF IInv, MakeInv, Text, Program

LEMMA MmHeaderKeeps == ASSUME IInv, MmHeader \/ MmHeaderFails PROVE IInv'
<1>1. Mm("start")
  BY DEF MmHeader, MmHeaderFails
<1> USE MmUnderWay, <1>1
<1>2. CASE MmHeader /\ Text.valid
  <2> DEFINE s == IF Text.format = "array" THEN "values" ELSE "indices_0"
  <2>1. Go(s) /\ live' = {"metadata"} /\ UNCHANGED faulted
    BY <1>2 DEF MmHeader
  <2>2. s \notin Errors \cup {"start"}
    BY DEF Errors
  <2>3. IsMatrix(matrix')
    <3>1. matrix' = [DefaultMatrix EXCEPT !.nrows = Text.nrows, !.ncols = Text.ncols,
                                          !.nnz = Text.nnz, !.is_iso = (Text.type = "pattern")]
      BY <1>2 DEF MmHeader
    <3>2. QED
      BY <3>1 DEF IsMatrix, HasKeys, Keys, Fields, DefaultMatrix, Absent, Indexes
  <2>4. Program = "mtx2bsp" => input.text.valid /\ MmLive'
    <3>1. UNCHANGED input /\ step' = s
      BY <2>1 DEF Go
    <3>2. Readable(Text)
      BY <1>2 DEF MmHeader
    <3>3. QED
      BY <3>1, <3>2, <2>1, <2>3, <1>2 DEF MmLive, Readable
  <2>5. live' \subseteq Blocks
    BY <2>1 DEF Blocks
  <2> HIDE DEF s
  <2>6. QED
    BY <2>1, <2>2, <2>4, <2>5, MmGoes
<1>3. CASE MmHeader /\ ~Text.valid
  <2>1. Returned(DefaultMatrix) /\ UNCHANGED <<live, faulted>>
    BY <1>3 DEF MmHeader
  <2>2. Program = "mtx2bsp" => IsMatrix(matrix') /\ live' \subseteq Pointed(matrix')
    BY <2>1, DefaultMatrixFacts DEF Returned
  <2>3. QED
    BY <2>1, <2>2, MmReturns DEF Returned
<1>4. CASE MmHeaderFails
  <2>1. CASE Dies("abort", FALSE) \/ Dies("abort", TRUE)
    BY <2>1, MmDies
  <2>2. CASE Returned(DefaultMatrix) /\ faulted' = TRUE /\ UNCHANGED live
    BY <2>2, MmReturns DEF Returned
  <2>3. QED
    BY <1>4, <2>1, <2>2 DEF MmHeaderFails
<1>5. QED
  BY <1>2, <1>3, <1>4

LEMMA MmAllocateKeeps ==
    ASSUME IInv, NEW f \in {"indices_0", "indices_1", "values"},
           MmAllocate(f) \/ MmAllocateFails(f)
    PROVE  IInv'
<1>1. Mm(f)
  BY DEF MmAllocate, MmAllocateFails
<1> USE MmUnderWay, <1>1
<1>2. CASE MmAllocate(f)
  <2>1. /\ Go(After(f)) /\ UNCHANGED faulted
        /\ matrix' = [matrix EXCEPT ![f] = Fresh(Text, f)]
        /\ live' = live \cup (IF Count(Text, f) = 0 THEN {} ELSE {f})
    BY <1>2 DEF MmAllocate
  <2>2. After(f) \in {"indices_1", "values", "open"} /\ (f = "values" => After(f) = "open")
    BY AfterSteps
  <2>3. ASSUME Program = "mtx2bsp", ~faulted PROVE input.text.valid /\ MmLive'
    <3>1. input.text.valid /\ MmLive /\ step = f /\ Text = input.text
      BY <2>3
    <3>2. DOMAIN Fresh(Text, f) = {"type", "data"}
      BY DEF Fresh, Uninitialised, Indexes
    <3>3. IsMatrix(matrix')
      BY <2>1, <3>1, <3>2, SetArray DEF MmLive, Fields
    <3>4. step' = After(f) /\ UNCHANGED input
      BY <2>1 DEF Go
    <3>5. CASE input.text.format = "array"
      <4>1. f = "values" /\ input.text.type # "pattern"
        BY <3>1, <3>5 DEF MmLive
      <4>2. Count(Text, f) = input.text.nnz
        BY <4>1, <3>1 DEF Count
      <4>3. input.text.nnz # 0 => input.text.nnz > 0
        BY <2>3, <3>1, TextNumbers
      <4>4. QED
        BY <3>1, <3>3, <3>4, <3>5, <4>1, <4>2, <4>3, <2>1, <2>2 DEF MmLive
    <3>6. QED
      BY <3>1, <3>3, <3>4, <3>5 DEF MmLive
  <2>4. live' \subseteq Blocks
    BY <2>1 DEF Blocks, Fields
  <2>5. After(f) \notin Errors \cup {"start"}
    BY <2>2 DEF Errors
  <2>6. QED
    BY <2>1, <2>3, <2>4, <2>5, MmGoes
<1>3. CASE MmAllocateFails(f)
  <2>1. Returned(matrix) /\ faulted' = TRUE /\ live' \subseteq Blocks
    BY <1>3 DEF MmAllocateFails, Blocks
  <2>2. QED
    BY <2>1, MmReturns DEF Returned
<1>4. QED
  BY <1>2, <1>3

LEMMA MmOpenKeeps == ASSUME IInv, MmOpen \/ MmOpenFails PROVE IInv'
<1>1. Mm("open")
  BY DEF MmOpen, MmOpenFails
<1> USE MmUnderWay, <1>1
<1>2. CASE MmOpen
  <2>1. Go("lines") /\ live' = live \cup {"stream"} /\ UNCHANGED faulted
    BY <1>2 DEF MmOpen
  <2>2. ASSUME Program = "mtx2bsp", ~faulted PROVE input.text.valid /\ MmLive'
    <3>1. IsMatrix(matrix')
      <4>1. IsMatrix(matrix)
        BY <2>2 DEF MmLive
      <4>2. PICK format, structure :
               matrix' = [matrix EXCEPT !.format = format, !.structure = structure]
        BY <1>2 DEF MmOpen
      <4>3. QED
        BY <4>1, <4>2 DEF IsMatrix, HasKeys, Keys, Fields
    <3>2. step' = "lines" /\ UNCHANGED input
      BY <2>1 DEF Go
    <3>3. QED
      BY <3>1, <3>2, <2>1, <2>2 DEF MmLive
  <2>3. live' \subseteq Blocks
    BY <2>1 DEF Blocks
  <2>4. "lines" \notin Errors \cup {"start"}
    BY DEF Errors
  <2>5. QED
    BY <2>1, <2>2, <2>3, <2>4, MmGoes
<1>3. CASE MmOpenFails
  BY <1>3, MmDies DEF MmOpenFails
<1>4. QED
  BY <1>2, <1>3

LEMMA MmLinesKeeps == ASSUME IInv, MmLines PROVE IInv'
<1>1. Mm("lines") /\ Text.format = "coordinate"
  BY DEF MmLines
<1> USE MmUnderWay, <1>1
<1>2. CASE Dies("undefined", FALSE)
  BY <1>2, MmDies
<1>3. CASE ~Dies("undefined", FALSE)
  <2>1. Go("sort") /\ UNCHANGED <<live, faulted>>
    BY <1>3 DEF MmLines
  <2>2. matrix' =
           LET t == Text
               Of(d) == [k \in 0 .. t.nnz - 1 |->
                           (t.lines[k + 1][d] - 1) % (Cap(matrix.indices_0.type) + 1)]
           IN  [matrix EXCEPT
                  !.indices_0.data = Of(1), !.indices_1.data = Of(2),
                  !.values.data = IF t.type = "pattern" THEN @
                                  ELSE [k \in 0 .. t.nnz - 1 |-> Element(t, k)]]
    BY <1>3 DEF MmLines
  <2>3. ASSUME Program = "mtx2bsp", ~faulted PROVE input.text.valid /\ MmLive'
    <3>1. IsMatrix(matrix)
      BY <2>3 DEF MmLive
    <3>2. IsMatrix(matrix')
      BY <3>1, <2>2 DEF IsMatrix, HasKeys, Keys, Fields
    <3>3. step' = "sort" /\ UNCHANGED input /\ input.text.format # "array"
      BY <2>1, <2>3 DEF Go
    <3>4. QED
      BY <3>2, <3>3, <2>3 DEF MmLive
  <2>4. "sort" \notin Errors \cup {"start"}
    BY DEF Errors
  <2>5. QED
    BY <2>1, <2>3, <2>4, MmGoes
<1>4. QED
  BY <1>2, <1>3

LEMMA MmArrayLinesKeeps == ASSUME IInv, MmArrayLines PROVE IInv'
<1>1. Mm("lines") /\ Text.format = "array"
  BY DEF MmArrayLines
<1> USE MmUnderWay, <1>1
<1>2. CASE Dies("crash", FALSE) \/ Dies("undefined", FALSE)
  BY <1>2, MmDies
<1>3. CASE ~Dies("crash", FALSE) /\ ~Dies("undefined", FALSE)
  <2>1. live' = live \ {"metadata", "stream"} /\ UNCHANGED faulted
    BY <1>3 DEF MmArrayLines
  <2>2. PICK a : /\ DOMAIN a = 0 .. Text.nnz - 1
                 /\ Returned([matrix EXCEPT !.values.data = a])
    BY <1>3 DEF MmArrayLines
  <2>3. ASSUME Program = "mtx2bsp", ~faulted
        PROVE  IsMatrix(matrix') /\ live' \subseteq Pointed(matrix')
    <3>1. IsMatrix(matrix') /\ matrix'.values.data = a
      <4>1. IsMatrix(matrix)
        BY <2>3 DEF MmLive
      <4>2. matrix' = [matrix EXCEPT !.values.data = a]
        BY <2>2 DEF Returned
      <4>3. QED
        BY <4>1, <4>2 DEF IsMatrix, HasKeys, Keys, Fields
    <3>2. input.text.nnz \in Nat /\ DOMAIN matrix'["values"].data = 0 .. input.text.nnz - 1
      BY <2>2, <2>3, <3>1, TextNumbers
    <3>3. "values" \in Pointed(matrix') <=> input.text.nnz > 0
      BY <3>2, ArrayPointed DEF Fields
    <3>4. live' \subseteq IF input.text.nnz > 0 THEN {"values"} ELSE {}
      BY <2>1, <2>3 DEF MmLive
    <3>5. QED
      BY <3>1, <3>3, <3>4
  <2>4. QED
    BY <2>1, <2>2, <2>3, MmReturns DEF Returned
<1>4. QED
  BY <1>2, <1>3

LEMMA MmSortKeeps ==
    ASSUME IInv, MmSort \/ MmSortFails \/ \E s \in Copies : MmCopy(s) \/ MmCopyFails(s)
    PROVE  IInv'
<1>1. CASE MmSort
  <2>1. Mm("sort") /\ Go("rowind") /\ live' = live \cup {"indices"} /\ UNCHANGED <<matrix, faulted>>
    BY <1>1 DEF MmSort
  <2>2. ASSUME Program = "mtx2bsp", ~faulted PROVE input.text.valid /\ MmLive'
    <3>1. input.text.valid /\ MmLive /\ step = "sort"
      BY <2>1, <2>2, MmUnderWay
    <3>2. QED
      BY <3>1, <2>1 DEF MmLive, Go
  <2>3. live' \subseteq Blocks /\ "rowind" \notin Errors \cup {"start"}
    BY <2>1, MmUnderWay DEF Blocks, Errors
  <2>4. QED
    BY <2>1, <2>2, <2>3, MmGoes, MmUnderWay
<1>2. CASE MmSortFails
  BY <1>2, MmDies, MmUnderWay DEF MmSortFails
<1>3. ASSUME NEW s \in Copies, MmCopy(s) PROVE IInv'
  <2>1. /\ Mm(s) /\ Go(After(s)) /\ live' = live \cup (IF Copied(s) THEN {s} ELSE {})
        /\ UNCHANGED <<matrix, faulted>>
    BY <1>3 DEF MmCopy
  <2>2. ASSUME Program = "mtx2bsp", ~faulted PROVE input.text.valid /\ MmLive'
    <3>1. input.text.valid /\ MmLive /\ step = s
      BY <2>1, <2>2, MmUnderWay DEF Copies
    <3>2. QED
      BY <3>1, <2>1 DEF MmLive, Go, Copies
  <2>3. live' \subseteq Blocks
    BY <2>1, MmUnderWay DEF Blocks
  <2>4. After(s) \notin Errors \cup {"start"}
    BY AfterSteps DEF Copies, Errors
  <2>5. QED
    BY <2>1, <2>2, <2>3, <2>4, MmGoes, MmUnderWay
<1>4. ASSUME NEW s \in Copies, MmCopyFails(s) PROVE IInv'
  <2>1. Mm(s) /\ Returned(matrix) /\ faulted' = TRUE /\ live' = live \ Copies
    BY <1>4 DEF MmCopyFails
  <2>2. QED
    BY <2>1, MmUnderWay, MmReturns DEF Returned
<1>5. QED
  BY <1>1, <1>2, <1>3, <1>4

LEMMA MmPermuteKeeps == ASSUME IInv, MmPermute PROVE IInv'
<1>1. Mm("permute") /\ live' = Pointed(matrix) /\ UNCHANGED faulted
  BY DEF MmPermute
<1>2. PICK p : Returned(Permuted(matrix, p))
  BY DEF MmPermute
<1>3. ASSUME Program = "mtx2bsp", ~faulted
      PROVE  IsMatrix(matrix') /\ live' \subseteq Pointed(matrix')
  <2>1. IsMatrix(matrix)
    BY <1>1, <1>3, MmUnderWay DEF MmLive
  <2>2. QED
    BY <1>1, <1>2, <2>1, PermutedFacts DEF Returned
<1>4. live' \subseteq Blocks
  BY <1>1 DEF Pointed, Blocks
<1>5. QED
  BY <1>1, <1>2, <1>3, <1>4, MmReturns, MmUnderWay DEF Returned

LEMMA MmKeeps == ASSUME IInv, MmNext PROVE IInv'
  BY MmHeaderKeeps, MmAllocateKeeps, MmOpenKeeps, MmLinesKeeps, MmArrayLinesKeeps, MmSortKeeps,
     MmPermuteKeeps
     DEF MmNext

--------------------------------------------------------------------------------
(* bsp_read_matrix and bsp_read_matrix_parallel. *)

\* The programs that read, and what they do next.
LEMMA Readers ==
    ASSUME IInv, UnderWay, Call \in Reads
    PROVE  /\ Program \notin {"mtx2bsp", "tensor_test"}
           /\ Program \in Benchmarks => Call = ReaderOf(Program)
           /\ IsFile(file) /\ live \subseteq Blocks /\ faulted \in BOOLEAN
<1>1. Program \notin {"mtx2bsp", "tensor_test"}
  BY CallUnderWay DEF IInv, Succession, Final, Reads
<1>2. Program \in Benchmarks => Call = ReaderOf(Program)
  BY CallUnderWay DEF IInv, Succession, Final, Reads, Benchmarks, ReaderOf
<1>3. QED
  BY <1>1, <1>2 DEF IInv, StateInv

LEMMA ReadGoes ==
    ASSUME IInv, UnderWay, Call \in Reads, NEW s, Go(s), s \notin Errors,
           live' \subseteq Blocks, UNCHANGED faulted, ReadInv'
    PROVE  IInv'
<1>1. step' = s /\ UNCHANGED <<input, file, todo, calls, ended>>
  BY DEF Go
<1>2. Program' = Program /\ Call' = Call
  BY <1>1 DEF Program, Call
<1>3. MakeInv' /\ HoldInv'
  BY <1>2, Readers DEF MakeInv, HoldInv, Reads
<1>4. IsFile(file') /\ faulted' \in BOOLEAN
  BY <1>1, Readers
<1>5. QED
  BY <1>1, <1>3, <1>4, Readers, CallGoesOn

\* An error is returned to BSP_CHECK.
LEMMA ReadErrs ==
    ASSUME IInv, UnderWay, Call \in Reads, NEW e \in Errors, Return(e), UNCHANGED file,
           live' \subseteq Blocks, faulted' \in BOOLEAN, ErrorInv'
    PROVE  IInv'
<1>1. step' = e /\ UNCHANGED <<input, todo, calls, ended>>
  BY DEF Return, Errors
<1>2. Program' = Program /\ Call' = Call
  BY <1>1 DEF Program, Call
<1>3. MakeInv' /\ HoldInv'
  BY <1>2, Readers DEF MakeInv, HoldInv, Reads
<1>4. IsFile(file')
  BY Readers
<1>5. ReadInv'
  BY <1>1 DEF ReadInv, Errors, Fields
<1>6. QED
  BY <1>1, <1>3, <1>4, <1>5, Readers, CallGoesOn DEF Reads

LEMMA ReadUnderWay ==
    ASSUME IInv, NEW s, Reading(s)
    PROVE  /\ UnderWay /\ Call \in Reads /\ step = s
           /\ s = "start" => live = {}
           /\ s = "descriptor" => Opens /\ matrix = DefaultMatrix /\ live = {"json_string"}
           /\ s \in Fields \cup {"structure"} => ReadingInv
<1>1. UnderWay /\ Call \in Reads /\ step = s
  BY DEF Reading, At, UnderWay, Call, Reads
<1>2. QED
  BY <1>1 DEF IInv, ReadInv

LEMMA Assertions ==
    /\ AssertionFails <=> Asserts(Call)
    /\ FormatCrashes <=>
          /\ Call = "read_parallel"
          /\ file.flaw = "format_type"
          /\ VersionError(file.version) = "SUCCESS"
  BY DEF AssertionFails, FormatCrashes, Asserts, Call

LEMMA Accepted == ASSUME NEW call, Accepts(call) PROVE ~Crashes(call)
<1>1. Describes(call) /\ file.flaw \notin {"values_type", "structure_type"}
  BY DEF Accepts
<1>2. ~(call = "read_parallel" /\ file.flaw = "format_type"
           /\ VersionError(file.version) = "SUCCESS")
  BY <1>1 DEF Describes, DescriptorError, Ignored, Refused
<1>3. QED
  BY <1>1, <1>2 DEF Crashes

LEMMA ReadOpenKeeps == ASSUME IInv, ReadOpen PROVE IInv'
<1>1. Reading("start") /\ file.exists /\ UNCHANGED faulted /\ matrix' = DefaultMatrix
  BY DEF ReadOpen
<1> USE <1>1, ReadUnderWay
<1>2. CASE file.attribute
  <2>1. live' = {"json_string"} /\ Go("descriptor")
    BY <1>2 DEF ReadOpen
  <2>2. ReadInv'
    BY <1>2, <2>1 DEF ReadInv, Opens, Go, Fields, Errors
  <2>3. "descriptor" \notin Errors /\ live' \subseteq Blocks
    BY <2>1 DEF Errors, Blocks
  <2>4. QED
    BY <2>1, <2>2, <2>3, ReadGoes
<1>3. CASE ~file.attribute
  <2>1. live' = {} /\ Return("FORMAT") /\ UNCHANGED file
    BY <1>3 DEF ReadOpen
  <2>2. ErrorInv'
    <3>1. step' = "FORMAT" /\ file.flaw # "array" /\ ~Opens'
      BY <2>1, <1>3, Readers DEF Return, IsFile, Opens
    <3>2. Refuses(Call)'
      BY <3>1 DEF Refuses, Accepts
    <3>3. QED
      BY <2>1, <3>1, <3>2 DEF ErrorInv, Fields
  <2>3. QED
    BY <2>1, <2>2, Readers, ReadErrs DEF Errors
<1>4. QED
  BY <1>2, <1>3

LEMMA ReadOpenFailsKeeps == ASSUME IInv, ReadOpenFails PROVE IInv'
<1>1. /\ Reading("start") /\ faulted' = (faulted \/ file.exists)
      /\ Return("IO") /\ UNCHANGED <<file, live>>
  BY DEF ReadOpenFails
<1>2. live = {} /\ UnderWay /\ Call \in Reads
  BY <1>1, ReadUnderWay
<1>3. faulted' \in BOOLEAN
  BY <1>1
<1>4. ErrorInv'
  <2>1. step' = "IO" /\ (~faulted' => ~Opens')
    BY <1>1 DEF Return, Opens
  <2>2. ~faulted' => Refuses(Call)'
    BY <2>1 DEF Refuses, Accepts
  <2>3. QED
    BY <1>1, <1>2, <2>1, <2>2 DEF ErrorInv
<1>5. QED
  BY <1>1, <1>2, <1>3, <1>4, ReadErrs DEF Errors

LEMMA ReadDescriptorKeeps == ASSUME IInv, ReadDescriptor PROVE IInv'
<1> DEFINE error == DescriptorError(Ignored(Call))
<1>1. Reading("descriptor") /\ ~Asserts(Call) /\ ~FormatCrashes /\ UNCHANGED faulted
  BY Assertions DEF ReadDescriptor
<1>2. /\ UnderWay /\ Call \in Reads /\ step = "descriptor"
      /\ Opens /\ matrix = DefaultMatrix /\ live = {"json_string"}
  BY <1>1, ReadUnderWay
<1>3. error \in {"SUCCESS", "FORMAT", "UNSUPPORTED"}
      /\ (file.flaw = "array" => error = "FORMAT")
  <2>1. VersionError(file.version) \in {"SUCCESS", "FORMAT", "UNSUPPORTED"}
    BY DEF VersionError
  <2>2. CASE file.flaw \in Early
    BY <2>2 DEF DescriptorError
  <2>3. CASE file.flaw \notin Early
    <3>1. file.flaw # "array"
      BY <2>3 DEF Early
    <3>2. error \in {"SUCCESS", "FORMAT", "UNSUPPORTED"}
      BY <2>1, <2>3 DEF DescriptorError
    <3>3. QED
      BY <3>1, <3>2
  <2>4. QED
    BY <2>2, <2>3
<1>4. CASE error = "SUCCESS"
  <2> PICK n \in Numbers :
        /\ matrix' = [matrix EXCEPT
              !.format = IF file.flaw = "unknown_format" THEN "unknown" ELSE file.m.format,
              !.nrows = file.m.nrows, !.ncols = file.m.ncols, !.nnz = n]
        /\ live' = {"json_string", "j"}
        /\ Go("values")
    BY <1>4 DEF ReadDescriptor, Call
  <2>1. /\ matrix' = [matrix EXCEPT
              !.format = IF file.flaw = "unknown_format" THEN "unknown" ELSE file.m.format,
              !.nrows = file.m.nrows, !.ncols = file.m.ncols, !.nnz = n]
        /\ live' = {"json_string", "j"}
        /\ Go("values")
    OBVIOUS
  <2>2. UNCHANGED <<file, calls, todo>> /\ step' = "values" /\ Call' = Call
    BY <2>1 DEF Go, Call
  <2>3. /\ HasKeys(matrix') /\ \A f \in Fields : matrix'[f] = Absent
        /\ matrix'.format = FormatRead'
    <3>1. \A f \in Fields : DefaultMatrix[f] = Absent
      BY DEF Fields, DefaultMatrix
    <3>2. \A f \in Fields : matrix'[f] = matrix[f]
      BY <2>1, <1>2 DEF Fields, DefaultMatrix
    <3>3. HasKeys(matrix') /\ matrix'.format = FormatRead'
      BY <2>1, <2>2, <1>2 DEF HasKeys, Keys, DefaultMatrix, FormatRead
    <3>4. QED
      BY <3>1, <3>2, <3>3, <1>2
  <2>4. Pointed(matrix') = {}
    BY <2>3, FS_EmptySet DEF Pointed, Absent, Indexes, Size
  <2>5. Opens' /\ Describes(Call)'
    BY <1>1, <1>2, <1>4, <2>2 DEF Opens, Describes, Asserts, DescriptorError, Ignored
  <2>6. ReadingInv'
    BY <2>1, <2>2, <2>3, <2>4, <2>5 DEF ReadingInv, Got
  <2>7. ReadInv'
    BY <2>2, <2>6 DEF ReadInv, Errors, Fields
  <2>8. "values" \notin Errors /\ live' \subseteq Blocks
    BY <2>1 DEF Errors, Blocks
  <2>9. QED
    BY <2>1, <2>7, <2>8, <1>1, <1>2, ReadGoes
<1>5. CASE error # "SUCCESS"
  <2>1. live' = Unparsed /\ Return(error) /\ UNCHANGED file
    BY <1>5 DEF ReadDescriptor, Call
  <2>2. step' = error /\ UNCHANGED calls /\ Call' = Call /\ error \in Errors
    BY <2>1, <1>3, <1>5 DEF Return, Call, Errors
  <2>3. Refuses(Call)'
    BY <1>1, <1>5, <2>1, <2>2, Assertions
       DEF Refuses, Accepts, Crashes, Describes, Asserts, DescriptorError, Ignored
  <2>4. live' \subseteq {"j", "json_string"}
        /\ ("j" \in live' <=> file.flaw = "array")
        /\ ("json_string" \in live' => file.flaw \in {"json", "array"})
    BY <2>1 DEF Unparsed
  <2>5. ErrorInv'
    <3>1. live' \cap Fields = {}
      BY <2>4 DEF Fields
    <3>2. step' \in {"FORMAT", "UNSUPPORTED"} /\ (file.flaw = "array" => step' = "FORMAT")
      BY <2>2, <1>3, <1>5
    <3>3. QED
      BY <2>1, <2>3, <2>4, <3>1, <3>2 DEF ErrorInv
  <2>6. live' \subseteq Blocks /\ faulted' \in BOOLEAN
    BY <2>4, <1>1, <1>2, Readers DEF Blocks
  <2> HIDE DEF error
  <2>7. QED
    BY <2>1, <2>2, <2>5, <2>6, <1>2, ReadErrs
<1>6. QED
  BY <1>4, <1>5

LEMMA ReadAssertsKeeps == ASSUME IInv, ReadAsserts PROVE IInv'
<1>1. Reading("descriptor") /\ Asserts(Call) /\ Dies("abort", FALSE)
  BY Assertions DEF ReadAsserts
<1>2. UnderWay /\ Call \in Reads /\ Opens
  BY <1>1, ReadUnderWay
<1>3. Program \in Benchmarks => "abort" = Outcome(ReaderOf(Program))
  <2>1. Program \in Benchmarks => Call = ReaderOf(Program)
    BY <1>2, Readers
  <2>2. QED
    BY <2>1, <1>1, <1>2 DEF Outcome
<1>4. "abort" \in Ends
  BY DEF Ends
<1>5. UNCHANGED file /\ End("abort", FALSE)
  BY <1>1 DEF Dies
<1>6. QED
  BY <1>2, <1>3, <1>4, <1>5, EndStep

LEMMA ReadCrashesKeeps == ASSUME IInv, ReadCrashes PROVE IInv'
<1>1. Dies("crash", FALSE)
  BY DEF ReadCrashes
<1>2. UnderWay /\ Call \in Reads /\ Opens /\ Crashes(Call) /\ ~Asserts(Call)
  <2>1. CASE Reading("descriptor") /\ FormatCrashes
    <3>1. Crashes(Call) /\ file.flaw = "format_type"
      BY <2>1, Assertions DEF Crashes
    <3>2. ~Asserts(Call)
      BY <3>1 DEF Asserts, Asserted
    <3>3. QED
      BY <2>1, <3>1, <3>2, ReadUnderWay
  <2>2. CASE Reading("values") /\ file.flaw = "values_type"
                 /\ "values" \in Names \cap file.datasets
    <3>1. UnderWay /\ Call \in Reads /\ ReadingInv
      BY <2>2, ReadUnderWay DEF Fields
    <3>2. QED
      BY <2>2, <3>1 DEF Crashes, ReadingInv, Describes
  <2>3. CASE Reading("structure") /\ file.flaw = "structure_type"
    <3>1. UnderWay /\ Call \in Reads /\ step = "structure" /\ ReadingInv
      BY <2>3, ReadUnderWay
    <3>2. Names \subseteq file.datasets
      BY <3>1 DEF ReadingInv, Got, Names
    <3>3. QED
      BY <2>3, <3>1, <3>2 DEF Crashes, ReadingInv, Describes
  <2>4. QED
    BY <2>1, <2>2, <2>3 DEF ReadCrashes
<1>3. Program \in Benchmarks => "crash" = Outcome(ReaderOf(Program))
  <2>1. Program \in Benchmarks => Call = ReaderOf(Program)
    BY <1>2, Readers
  <2>2. QED
    BY <2>1, <1>2 DEF Outcome
<1>4. "crash" \in Ends
  BY DEF Ends
<1>5. UNCHANGED file /\ End("crash", FALSE)
  BY <1>1 DEF Dies
<1>6. QED
  BY <1>2, <1>3, <1>4, <1>5, EndStep

LEMMA FollowingSteps ==
    /\ Following("values") = "indices_0" /\ Following("indices_0") = "indices_1"
    /\ Following("indices_1") = "pointers_to_1" /\ Following("pointers_to_1") = "structure"
<1>1. /\ ReadOrder[1] = "values" /\ ReadOrder[2] = "indices_0" /\ ReadOrder[3] = "indices_1"
      /\ ReadOrder[4] = "pointers_to_1" /\ ReadOrder[5] = "structure"
  BY DEF ReadOrder
<1>2. ASSUME NEW k \in 1 .. 4, NEW s, ReadOrder[k] = s,
             \A l \in 1 .. 4 : ReadOrder[l] = s => l = k
      PROVE  Following(s) = ReadOrder[k + 1]
  <2>1. (CHOOSE l \in 1 .. 4 : ReadOrder[l] = s) = k
    BY <1>2
  <2>2. QED
    BY <2>1 DEF Following
<1>3. \A l \in 1 .. 4 : l \in {1, 2, 3, 4}
  OBVIOUS
<1>4. Following("values") = ReadOrder[1 + 1]
  BY <1>1, <1>2, <1>3
<1>5. Following("indices_0") = ReadOrder[2 + 1]
  BY <1>1, <1>2, <1>3
<1>6. Following("indices_1") = ReadOrder[3 + 1]
  BY <1>1, <1>2, <1>3
<1>7. Following("pointers_to_1") = ReadOrder[4 + 1]
  BY <1>1, <1>2, <1>3
<1>8. QED
  BY <1>1, <1>4, <1>5, <1>6, <1>7

LEMMA GotFollowing ==
    ASSUME NEW f \in Fields
    PROVE  /\ Following(f) \in {"indices_0", "indices_1", "pointers_to_1", "structure"}
           /\ Got(Following(f)) = Got(f) \cup {f} /\ f \notin Got(f)
           /\ Got(Following(f)) \subseteq Fields
  BY FollowingSteps DEF Fields, Got

\* What is known of a read before and after it has read array f.
LEMMA ReadArrayFacts ==
    ASSUME IInv, NEW f \in Fields, ReadArray(f)
    PROVE  /\ UnderWay /\ Call \in Reads /\ step = f /\ ReadingInv
           /\ UNCHANGED <<file, faulted>> /\ (f \in Names => f \in file.datasets)
           /\ HasKeys(matrix') /\ matrix'.format = matrix.format
           /\ \A g \in Fields \ {f} : matrix'[g] = matrix[g]
           /\ f \in Names => matrix'[f] = file.m[f]
           /\ live' = {"json_string", "j"} \cup Pointed(matrix')
<1>1. UnderWay /\ Call \in Reads /\ step = f /\ ReadingInv
  BY ReadUnderWay DEF ReadArray
<1>2. UNCHANGED <<file, faulted>> /\ (f \in Names => f \in file.datasets)
  BY DEF ReadArray, Go
<1>3. /\ HasKeys(matrix) /\ live = {"json_string", "j"} \cup Pointed(matrix)
      /\ f \notin Pointed(matrix)
  <2>1. matrix[f] = Absent
    BY <1>1, GotFollowing DEF ReadingInv
  <2>2. Size(matrix[f].data) = 0
    BY <2>1, FS_EmptySet DEF Absent, Indexes, Size
  <2>3. QED
    BY <1>1, <2>2 DEF ReadingInv, Pointed
<1>4. CASE f \in Names
  <2>1. /\ matrix' = [matrix EXCEPT ![f] = file.m[f],
                         !.is_iso = IF f = "values" THEN file.m.is_iso ELSE @]
        /\ live' = live \cup (Pointed(matrix') \cap {f})
    BY <1>4 DEF ReadArray
  <2>2. HasKeys(matrix') /\ matrix'.format = matrix.format
    BY <2>1, <1>3 DEF HasKeys, Keys, Fields
  <2>3. matrix'[f] = file.m[f] /\ \A g \in Fields \ {f} : matrix'[g] = matrix[g]
    BY <2>1, <1>3 DEF HasKeys, Keys, Fields
  <2>4. Pointed(matrix') \ {f} = Pointed(matrix)
    BY <2>3, <1>3 DEF Pointed
  <2>5. QED
    BY <1>1, <1>2, <1>3, <2>1, <2>2, <2>3, <2>4
<1>5. CASE f \notin Names
  <2>1. UNCHANGED <<matrix, live>>
    BY <1>5 DEF ReadArray
  <2>2. QED
    BY <1>1, <1>2, <1>3, <1>5, <2>1
<1>6. QED
  BY <1>4, <1>5

LEMMA ReadArrayKeeps == ASSUME IInv, NEW f \in Fields, ReadArray(f) PROVE IInv'
<1>1. /\ UnderWay /\ Call \in Reads /\ step = f /\ ReadingInv
      /\ UNCHANGED <<file, faulted>> /\ (f \in Names => f \in file.datasets)
      /\ HasKeys(matrix') /\ matrix'.format = matrix.format
      /\ \A g \in Fields \ {f} : matrix'[g] = matrix[g]
      /\ f \in Names => matrix'[f] = file.m[f]
      /\ live' = {"json_string", "j"} \cup Pointed(matrix')
  BY ReadArrayFacts
<1>2. live' \subseteq Blocks /\ faulted' \in BOOLEAN
  BY <1>1, Readers DEF Blocks, Pointed
<1>3. CASE f = "values" /\ file.flaw = "complex"
  <2>1. Return("TYPE")
    BY <1>3 DEF ReadArray
  <2>2. step' = "TYPE" /\ UNCHANGED calls /\ Call' = Call
    BY <2>1 DEF Return, Call
  <2>3. Pointed(matrix') = {"values"}
    <3>1. \A g \in Fields \ {f} : matrix'[g] = Absent
      BY <1>1, <1>3 DEF ReadingInv, Got
    <3>2. \A g \in Fields \ {f} : ~(Size(matrix'[g].data) > 0)
      BY <3>1, FS_EmptySet DEF Absent, Indexes, Size
    <3>3. file.m.values.type # "invalid" /\ Size(file.m.values.data) > 0
      BY <1>1, <1>3, Readers DEF IsFile, ReadingInv, Opens
    <3>4. matrix'["values"] = file.m.values
      BY <1>1, <1>3, <3>3 DEF Names
    <3>5. QED
      BY <3>2, <3>3, <3>4, <1>3 DEF Pointed
  <2>4. Refuses(Call)'
    BY <1>1, <1>3, <2>2 DEF Refuses, Accepts, Crashes, ReadingInv, Describes, Asserts
  <2>5. ErrorInv'
    BY <1>1, <2>2, <2>3, <2>4 DEF ErrorInv, Fields
  <2>6. QED
    BY <1>1, <1>2, <2>1, <2>5, ReadErrs DEF Errors
<1>4. CASE ~(f = "values" /\ file.flaw = "complex")
  <2>1. Go(Following(f))
    BY <1>4 DEF ReadArray
  <2>2. step' = Following(f) /\ UNCHANGED <<file, calls>> /\ Call' = Call
    BY <2>1 DEF Go, Call
  <2>3. Opens' /\ Describes(Call)'
    BY <1>1, <2>2 DEF ReadingInv, Opens, Describes, Asserts, DescriptorError, Ignored
  <2>4. matrix'.format = FormatRead' /\ Names' = Names
    BY <1>1 DEF ReadingInv, FormatRead, Names
  <2>5. Got(step') \cap Names \subseteq file.datasets
    BY <1>1, <2>2, GotFollowing DEF ReadingInv
  <2>6. \A g \in Fields \ Got(step') : matrix'[g] = Absent
    BY <1>1, <2>2, GotFollowing DEF ReadingInv
  <2>7. file.flaw \notin {"complex", "values_type"}
    BY <1>1, <1>4 DEF ReadingInv, ReadArray
  <2>8. ReadingInv'
    BY <1>1, <2>2, <2>3, <2>4, <2>5, <2>6, <2>7 DEF ReadingInv
  <2>9. Following(f) \in {"indices_0", "indices_1", "pointers_to_1", "structure"}
    BY GotFollowing
  <2>10. ReadInv'
    BY <2>2, <2>8, <2>9 DEF ReadInv, Errors, Fields
  <2>11. Following(f) \notin Errors
    BY <2>9 DEF Errors
  <2>12. QED
    BY <1>1, <1>2, <2>1, <2>10, <2>11, ReadGoes
<1>5. QED
  BY <1>3, <1>4

LEMMA ReadArrayFailsKeeps == ASSUME IInv, NEW f \in Fields, ReadArrayFails(f) PROVE IInv'
<1>1. /\ Reading(f) /\ f \in Names
      /\ live' = ArraysDestroyed /\ faulted' = (faulted \/ f \in file.datasets)
      /\ Return("READ") /\ UNCHANGED file
  BY DEF ReadArrayFails
<1>2. UnderWay /\ Call \in Reads /\ ReadingInv
  BY <1>1, ReadUnderWay
<1>3. live' = {"j"}
  BY <1>1, <1>2 DEF ReadingInv, ArraysDestroyed, Pointed, Fields
<1>4. step' = "READ" /\ UNCHANGED calls /\ Call' = Call
  BY <1>1 DEF Return, Call
<1>5. ~faulted' => Refuses(Call)'
  <2>1. Describes(Call) /\ Describes(Call)'
    BY <1>1, <1>2, <1>4 DEF ReadingInv, Describes, Asserts, DescriptorError, Ignored
  <2>2. ASSUME ~faulted' PROVE ~Accepts(Call)' /\ ~Crashes(Call)'
    <3>1. f \notin file.datasets /\ f \in Names' /\ UNCHANGED file
      BY <1>1, <2>2 DEF Names
    <3>2. ~(Names \subseteq file.datasets)'
      BY <3>1
    <3>3. f = "values" \/ file.flaw # "values_type"
      BY <1>1, <1>2 DEF ReadingInv, Reading, At
    <3>4. ~(Call' = "read_parallel" /\ file.flaw = "format_type"
              /\ VersionError(file.version) = "SUCCESS")
      BY <2>1, <1>4 DEF Describes, DescriptorError, Ignored, Refused
    <3>5. QED
      BY <3>1, <3>2, <3>3, <3>4 DEF Accepts, Crashes
  <2>3. QED
    BY <2>1, <2>2 DEF Refuses, Describes
<1>6. ErrorInv'
  BY <1>3, <1>4, <1>5 DEF ErrorInv, Fields
<1>7. live' \subseteq Blocks /\ faulted' \in BOOLEAN
  BY <1>1, <1>3 DEF Blocks
<1>8. QED
  BY <1>1, <1>2, <1>6, <1>7, ReadErrs DEF Errors

LEMMA ReadReturnsKeeps == ASSUME IInv, ReadReturns PROVE IInv'
<1>1. /\ Reading("structure")
      /\ matrix' = [matrix EXCEPT !.structure = file.m.structure]
      /\ live' = live \ {"json_string", "j"}
      /\ Return("SUCCESS") /\ UNCHANGED <<file, faulted>>
  BY DEF ReadReturns
<1>2. UnderWay /\ Call \in Reads /\ step = "structure" /\ ReadingInv
  BY <1>1, ReadUnderWay
<1>3. calls' = Tail(calls) /\ UNCHANGED todo
  BY <1>1 DEF Return
<1>4. Program' = Program /\ UnderWay' /\ <<Program, Call, Call'>> \in Succession
  BY <1>2, <1>3, NextCall DEF IInv, Reads
<1>5. HasKeys(matrix') /\ matrix'.format = matrix.format /\ Pointed(matrix') = Pointed(matrix)
  <2>1. HasKeys(matrix)
    BY <1>2 DEF ReadingInv
  <2>2. HasKeys(matrix') /\ matrix'.format = matrix.format
        /\ \A f \in Fields : matrix'[f] = matrix[f]
    BY <1>1, <2>1 DEF HasKeys, Keys, Fields
  <2>3. QED
    BY <2>2 DEF Pointed
<1>6. live' = Pointed(matrix')
  BY <1>1, <1>2, <1>5 DEF ReadingInv, Pointed, Fields
<1>7. Accepts(Call)
  <2>1. Names \subseteq file.datasets
    BY <1>2 DEF ReadingInv, Got, Names
  <2>2. QED
    BY <1>1, <1>2, <2>1 DEF ReadingInv, Accepts, ReadReturns
<1>8. HoldInv'
  <2>1. FormatRead' = FormatRead /\ \A c \in Reads : Accepts(c)' = Accepts(c)
    BY <1>1
       DEF FormatRead, Accepts, Opens, Describes, Asserts, DescriptorError, Ignored, Names
  <2>2. matrix'.format = FormatRead'
    BY <1>2, <1>5, <2>1 DEF ReadingInv
  <2>3. Program' \in Benchmarks => ReaderOf(Program') = Call
    BY <1>2, <1>4, Readers
  <2>4. Program' \in Benchmarks => Accepts(ReaderOf(Program))'
    BY <2>1, <2>3, <1>2, <1>7, <1>4 DEF Benchmarks, Reads, ReaderOf, Accepts, Opens, Describes, Asserts, DescriptorError, Ignored, Names
  <2>5. Call' \notin {"mmwrite"} /\ (Call' = "finish" => Program' # "bsp2mtx")
    BY <1>2, <1>4 DEF Succession, Reads
  <2>6. QED
    BY <1>4, <1>5, <1>6, <2>2, <2>4, <2>5 DEF HoldInv
<1>9. MakeInv' /\ Call' \notin Reads
  BY <1>2, <1>4 DEF MakeInv, Succession, Reads
<1>10. live' \subseteq Blocks
  BY <1>6 DEF Pointed, Blocks
<1>11. QED
  BY <1>1, <1>2, <1>8, <1>9, <1>10, Readers, CallReturns DEF Reads

LEMMA ReadKeeps == ASSUME IInv, ReadNext PROVE IInv'
  BY ReadOpenKeeps, ReadOpenFailsKeeps, ReadDescriptorKeeps, ReadAssertsKeeps, ReadCrashesKeeps,
     ReadArrayKeeps, ReadArrayFailsKeeps, ReadReturnsKeeps
     DEF ReadNext

LEMMA BspCheckKeeps == ASSUME IInv, BspCheck PROVE IInv'
<1>1. UnderWay /\ step \in Errors /\ Dies("BSP_CHECK", FALSE)
  BY DEF BspCheck, UnderWay
<1>2. Program \in Benchmarks /\ ~faulted => "BSP_CHECK" = Outcome(ReaderOf(Program))
  <2>1. ASSUME Program \in Benchmarks, ~faulted PROVE "BSP_CHECK" = Outcome(ReaderOf(Program))
    <3>1. Call \in {"read", "read_parallel", "write"}
      BY <1>1 DEF IInv, StateInv
    <3>2. Call \in Reads
      BY <1>1, <2>1, <3>1, CallUnderWay DEF IInv, Succession, Final, Benchmarks, Reads
    <3>3. Refuses(Call)
      BY <1>1, <2>1, <3>2 DEF IInv, ReadInv, ErrorInv
    <3>4. Call = ReaderOf(Program)
      BY <1>1, <2>1, <3>2, Readers
    <3>5. QED
      BY <3>3, <3>4 DEF Refuses, Outcome, Describes, Accepts
  <2>2. QED
    BY <2>1
<1>3. "BSP_CHECK" \in Ends
  BY DEF Ends
<1>4. UNCHANGED file /\ End("BSP_CHECK", FALSE)
  BY <1>1 DEF Dies
<1>5. QED
  BY <1>1, <1>2, <1>3, <1>4, EndStep

--------------------------------------------------------------------------------
(* mtx2bsp. *)

MakeCalls == {"metadata", "declamp", "minimize", "convert", "write"}

\* mtx2bsp comes first, and what nothing has failed in points to all it allocated.
LEMMA Making ==
    ASSUME IInv, NEW c \in MakeCalls, Calls(c)
    PROVE  /\ UnderWay /\ Program = "mtx2bsp" /\ Call = c /\ step = "start"
           /\ ended = <<>> /\ IsFile(file) /\ live \subseteq Blocks /\ faulted \in BOOLEAN
           /\ c = "metadata" => live = {}
           /\ c # "metadata" /\ ~faulted => IsMatrix(matrix) /\ live \subseteq Pointed(matrix)
<1>1. UnderWay /\ Call = c /\ step = "start"
  BY DEF Calls, At, UnderWay, Call
<1>2. Program = "mtx2bsp"
  BY <1>1, CallUnderWay DEF IInv, Succession, Final, MakeCalls
<1>3. ended = <<>>
  <2> DEFINE m == Len(ended)
             n == Len(todo)
             l == Len(input.programs)
  <2>1. /\ todo \in Seq(DOMAIN Script) /\ todo # <<>> /\ ended \in Seq(Endings)
        /\ m + n = l /\ \A k \in DOMAIN todo : todo[k] = input.programs[m + k]
    BY <1>1 DEF IInv, SessionInv, UnderWay
  <2>2. m \in Nat /\ n \in Nat /\ n >= 1 /\ 1 \in DOMAIN todo /\ Program = todo[1]
    BY <2>1, EmptySeq, LenProperties DEF Program
  <2>3. \A k \in 2 .. l : input.programs[k] # "mtx2bsp"
    BY InputsAssumption DEF IInv, SessionInv, IsSession
  <2>4. input.programs[m + 1] = "mtx2bsp"
    BY <1>2, <2>1, <2>2
  <2> HIDE DEF l, m, n
  <2>5. m = 0
    BY <2>1, <2>2, <2>3, <2>4
  <2>6. QED
    BY <2>1, <2>5, EmptySeq DEF m
<1>4. QED
  BY <1>1, <1>2, <1>3 DEF IInv, StateInv, MakeInv, MakeCalls

LEMMA MakeReturns ==
    ASSUME IInv, NEW c \in MakeCalls \ {"metadata"}, Calls(c), Return("SUCCESS"), IsFile(file'),
           live' \subseteq Blocks, faulted' \in BOOLEAN,
           ~faulted' => IsMatrix(matrix') /\ live' \subseteq Pointed(matrix')
    PROVE  IInv'
<1>1. UnderWay /\ Program = "mtx2bsp" /\ Call = c /\ ended = <<>>
  BY Making
<1>2. step' = "start" /\ calls' = Tail(calls) /\ UNCHANGED todo
  BY DEF Return
<1>3. Program' = Program /\ <<Program, Call, Call'>> \in Succession
  BY <1>1, <1>2, NextCall DEF IInv, MakeCalls
<1>4. Call' \in {"minimize", "convert", "write", "finish"}
  BY <1>1, <1>3 DEF Succession, MakeCalls
<1>5. MakeInv' /\ HoldInv'
  BY <1>1, <1>3, <1>4 DEF MakeInv, HoldInv, Benchmarks
<1>6. QED
  BY <1>1, <1>4, <1>5, CallReturns DEF Reads, MakeCalls

LEMMA MakeDies ==
    ASSUME IInv, NEW c \in MakeCalls, Calls(c), NEW how \in Ends \ {"exit 0"},
           NEW failed \in BOOLEAN, Dies(how, failed)
    PROVE  IInv'
  BY Making, Death DEF Benchmarks

LEMMA CheckArgumentsKeeps == ASSUME IInv, CheckArguments PROVE IInv'
<1>1. Calls("metadata") /\ "metadata" \in MakeCalls
  BY DEF CheckArguments, MakeCalls
<1>2. CASE Return("SUCCESS") /\ KeepFiles /\ UNCHANGED <<matrix, live, faulted>>
  <2>1. /\ UnderWay /\ Program = "mtx2bsp" /\ Call = "metadata" /\ live = {}
        /\ IsFile(file) /\ faulted \in BOOLEAN
    BY <1>1, Making
  <2>2. step' = "start" /\ calls' = Tail(calls) /\ UNCHANGED <<todo, file>>
    BY <1>2 DEF Return, KeepFiles
  <2>3. Program' = Program /\ <<Program, Call, Call'>> \in Succession
    BY <2>1, <2>2, NextCall DEF IInv
  <2>4. Call' = "mmread"
    BY <2>1, <2>3 DEF Succession
  <2>5. MakeInv' /\ HoldInv'
    BY <1>2, <2>1, <2>2, <2>3, <2>4 DEF MakeInv, HoldInv, Benchmarks
  <2>6. live' \subseteq Blocks
    BY <1>2, <2>1
  <2>7. QED
    BY <1>2, <2>1, <2>2, <2>4, <2>5, <2>6, CallReturns DEF Reads
<1>3. CASE Dies("exit 1", FALSE) \/ Dies("exit 1", TRUE)
  BY <1>1, <1>3, MakeDies DEF Ends
<1>4. QED
  BY <1>2, <1>3 DEF CheckArguments

LEMMA DeclampedFacts ==
    ASSUME NEW m, IsMatrix(m)
    PROVE  IsMatrix(Declamped(m)) /\ Pointed(Declamped(m)) = Pointed(m)
<1> DEFINE n == Declamped(m)
<1>1. IsMatrix(n)
  BY DEF Declamped, IsMatrix, HasKeys, Keys, Fields
<1>2. \A f \in Fields : DOMAIN n[f].data = DOMAIN m[f].data
  BY DEF Declamped, IsMatrix, HasKeys, Keys, Fields
<1> HIDE DEF n
<1>3. Pointed(n) = Pointed(m)
  BY <1>2, PointedSame
<1>4. QED
  BY <1>1, <1>3 DEF n

LEMMA MinimizedFacts ==
    ASSUME NEW m, IsMatrix(m)
    PROVE  /\ IsMatrix([m EXCEPT !.values = Minimized(m.values)])
           /\ Pointed([m EXCEPT !.values = Minimized(m.values)]) = Pointed(m)
<1> DEFINE n == [m EXCEPT !.values = Minimized(m.values)]
<1>1. IsMatrix(n)
  BY DEF Minimized, IsMatrix, HasKeys, Keys, Fields
<1>2. \A f \in Fields : DOMAIN n[f].data = DOMAIN m[f].data
  BY DEF Minimized, IsMatrix, HasKeys, Keys, Fields
<1> HIDE DEF n
<1>3. Pointed(n) = Pointed(m)
  BY <1>2, PointedSame
<1>4. QED
  BY <1>1, <1>3 DEF n

LEMMA DeclampKeeps == ASSUME IInv, DeclampValues PROVE IInv'
<1>1. /\ Calls("declamp") /\ "declamp" \in MakeCalls \ {"metadata"}
      /\ matrix' = Declamped(matrix) /\ Return("SUCCESS") /\ UNCHANGED <<file, live, faulted>>
  BY DEF DeclampValues, MakeCalls, KeepFiles
<1>2. /\ IsFile(file) /\ live \subseteq Blocks /\ faulted \in BOOLEAN
      /\ ~faulted => IsMatrix(matrix) /\ live \subseteq Pointed(matrix)
  BY <1>1, Making
<1>3. ~faulted' => IsMatrix(matrix') /\ live' \subseteq Pointed(matrix')
  BY <1>1, <1>2, DeclampedFacts
<1>4. QED
  BY <1>1, <1>2, <1>3, MakeReturns

LEMMA MinimizeKeeps == ASSUME IInv, MinimizeValues PROVE IInv'
<1>1. Calls("minimize") /\ "minimize" \in MakeCalls \ {"metadata"}
  BY DEF MinimizeValues, MakeCalls
<1>2. /\ IsFile(file) /\ live \subseteq Blocks /\ faulted \in BOOLEAN
      /\ ~faulted => IsMatrix(matrix) /\ live \subseteq Pointed(matrix)
  BY <1>1, Making
<1>3. CASE Dies("crash", FALSE)
  BY <1>1, <1>3, MakeDies DEF Ends
<1>4. CASE ~Dies("crash", FALSE)
  <2>1. Return("SUCCESS") /\ UNCHANGED <<file, live>>
    BY <1>4 DEF MinimizeValues, KeepFiles
  <2>2. \/ matrix' = [matrix EXCEPT !.values = Minimized(matrix.values)] /\ UNCHANGED faulted
        \/ UNCHANGED <<matrix, faulted>>
        \/ faulted' = TRUE
    BY <1>4 DEF MinimizeValues
  <2>3. ~faulted' => IsMatrix(matrix') /\ live' \subseteq Pointed(matrix')
    BY <1>2, <2>1, <2>2, MinimizedFacts
  <2>4. faulted' \in BOOLEAN
    BY <1>2, <2>2
  <2>5. QED
    BY <1>1, <1>2, <2>1, <2>3, <2>4, MakeReturns
<1>5. QED
  BY <1>3, <1>4

LEMMA CsrIsMatrix == ASSUME NEW m, IsMatrix(m) PROVE IsMatrix(CsrOf(m))
  BY DEF CsrOf, Converted, Absent, Indexes, IsMatrix, HasKeys, Keys, Fields

LEMMA ConvertKeeps == ASSUME IInv, Convert PROVE IInv'
<1>1. Calls("convert") /\ "convert" \in MakeCalls \ {"metadata"} /\ Return("SUCCESS") /\ UNCHANGED file
  BY DEF Convert, MakeCalls, KeepFiles
<1>2. /\ IsFile(file) /\ live \subseteq Blocks /\ faulted \in BOOLEAN
      /\ ~faulted => IsMatrix(matrix) /\ live \subseteq Pointed(matrix)
  BY <1>1, Making
<1>3. \/ UNCHANGED <<matrix, live, faulted>>
      \/ /\ matrix' = CsrOf(matrix) /\ UNCHANGED faulted
         /\ live' = (live \ Pointed(matrix)) \cup Pointed(CsrOf(matrix))
      \/ live' = live \ Pointed(matrix) /\ faulted' = TRUE
  BY DEF Convert
<1>4. ~faulted' => IsMatrix(matrix') /\ live' \subseteq Pointed(matrix')
  BY <1>2, <1>3, CsrIsMatrix
<1>5. live' \subseteq Blocks /\ faulted' \in BOOLEAN
  <2>1. \A m : Pointed(m) \subseteq Blocks
    BY DEF Pointed, Blocks
  <2>2. QED
    BY <1>2, <1>3, <2>1
<1>6. QED
  BY <1>1, <1>2, <1>4, <1>5, MakeReturns

LEMMA ConvertFailsKeeps == ASSUME IInv, ConvertFails PROVE IInv'
<1>1. Calls("convert") /\ "convert" \in MakeCalls
  BY DEF ConvertFails, MakeCalls
<1>2. Dies("undefined", FALSE) \/ Dies("abort", FALSE)
  BY DEF ConvertFails
<1>3. QED
  BY <1>1, <1>2, MakeDies DEF Ends

LEMMA WrittenIsFile ==
    ASSUME NEW m, NEW n, NEW attribute \in BOOLEAN
    PROVE  IsFile(FileOf(m, n, attribute))
  BY DEF IsFile, FileOf

LEMMA WriteFileKeeps == ASSUME IInv, WriteFile PROVE IInv'
<1>1. /\ Calls("write") /\ "write" \in MakeCalls \ {"metadata"} /\ Return("SUCCESS")
      /\ UNCHANGED <<matrix, live>>
  BY DEF WriteFile, MakeCalls
<1>2. /\ live \subseteq Blocks /\ faulted \in BOOLEAN
      /\ ~faulted => IsMatrix(matrix) /\ live \subseteq Pointed(matrix)
  BY <1>1, Making
<1>3. IsFile(file') /\ (UNCHANGED faulted \/ faulted' = TRUE)
  BY WrittenIsFile DEF WriteFile
<1>4. ~faulted' => IsMatrix(matrix') /\ live' \subseteq Pointed(matrix')
  BY <1>1, <1>2, <1>3
<1>5. QED
  BY <1>1, <1>2, <1>3, <1>4, MakeReturns

LEMMA WriteFileFailsKeeps == ASSUME IInv, WriteFileFails PROVE IInv'
<1>1. Calls("write") /\ "write" \in MakeCalls
  BY DEF WriteFileFails, MakeCalls
<1>2. CASE Dies("undefined", FALSE)
  BY <1>1, <1>2, MakeDies DEF Ends
<1>3. CASE ~Dies("undefined", FALSE)
  <2>1. /\ file' = file \/ \E n \in 0 .. 3 : file' = FileOf(matrix, n, FALSE)
        /\ faulted' = TRUE /\ Return("IO") /\ UNCHANGED live
    BY <1>3 DEF WriteFileFails
  <2>2. /\ UnderWay /\ Program = "mtx2bsp" /\ Call = "write" /\ ended = <<>>
        /\ IsFile(file) /\ live \subseteq Blocks
    BY <1>1, Making
  <2>3. IsFile(file')
    BY <2>1, <2>2, WrittenIsFile
  <2>4. step' = "IO" /\ UNCHANGED <<input, todo, calls, ended>>
    BY <2>1 DEF Return
  <2>5. Program' = Program /\ Call' = Call
    BY <2>4 DEF Program, Call
  <2>6. MakeInv' /\ ReadInv' /\ HoldInv'
    BY <2>1, <2>2, <2>5 DEF MakeInv, ReadInv, HoldInv, Reads
  <2>7. QED
    BY <2>1, <2>2, <2>3, <2>4, <2>6, CallGoesOn
<1>4. QED
  BY <1>2, <1>3

\* mtx2bsp, bsp2mtx and the benchmarks destroy their matrix and exit.
LEMMA FinishKeeps == ASSUME IInv, Finish PROVE IInv'
<1> DEFINE how == IF Pointed(matrix) \subseteq live THEN "exit 0" ELSE "undefined"
<1>1. UnderWay /\ Call = "finish" /\ Dies(how, FALSE)
  BY DEF Finish, Calls, At, UnderWay, Call
<1>2. Program \in {"mtx2bsp", "bsp2mtx"} \cup Benchmarks
  BY <1>1, CallUnderWay DEF IInv, Succession, Final, Benchmarks
<1>3. how \in Ends
  BY DEF Ends
<1>4. UNCHANGED file /\ End(how, FALSE)
  BY <1>1 DEF Dies
<1>5. ASSUME ~faulted
      PROVE  /\ HasKeys(matrix)
             /\ live \ Pointed(matrix)
                  = IF Program = "bsp2mtx" /\ file.m.format = "CSR" THEN {"source"} ELSE {}
  <2>1. CASE Program = "mtx2bsp"
    <3>1. IsMatrix(matrix) /\ live \subseteq Pointed(matrix)
      BY <1>1, <1>5, <2>1 DEF IInv, MakeInv
    <3>2. QED
      BY <3>1, <2>1 DEF IsMatrix
  <2>2. CASE Program = "bsp2mtx"
    <3>1. /\ HasKeys(matrix)
          /\ live = Pointed(matrix) \cup (IF file.m.format = "CSR" THEN {"source"} ELSE {})
      BY <1>1, <1>5, <2>2 DEF IInv, HoldInv
    <3>2. "source" \notin Pointed(matrix)
      BY DEF Pointed, Fields
    <3>3. QED
      BY <3>1, <3>2, <2>2
  <2>3. CASE Program \in Benchmarks
    BY <1>1, <2>3 DEF IInv, HoldInv, Benchmarks
  <2>4. QED
    BY <1>2, <2>1, <2>2, <2>3
<1>6. Program \in Benchmarks => how = Outcome(ReaderOf(Program))
  <2>1. ASSUME Program \in Benchmarks PROVE live = Pointed(matrix) /\ Accepts(ReaderOf(Program))
    BY <1>1, <2>1 DEF IInv, HoldInv
  <2>2. QED
    BY <2>1, Accepted DEF Outcome, Accepts, Describes
<1>7. ~faulted => matrix # NoMatrix
  BY <1>5, NotNoMatrix
<1> HIDE DEF how
<1>8. QED
  BY <1>1, <1>3, <1>4, <1>5, <1>6, <1>7, EndStep

--------------------------------------------------------------------------------
(* check_equivalence and bsp2mtx. *)

LEMMA KeepFirstKeeps == ASSUME IInv, KeepFirst PROVE IInv'
<1>1. /\ UnderWay /\ Call = "keep" /\ step' = "start" /\ live' = {} /\ calls' = Tail(calls)
      /\ UNCHANGED <<input, file, todo, faulted, ended>>
  BY DEF KeepFirst, Calls, At, UnderWay, Call
<1>2. Program' = Program /\ <<Program, Call, Call'>> \in Succession
  BY <1>1, NextCall DEF IInv
<1>3. Program \notin {"mtx2bsp"} /\ Call' \in Reads
  BY <1>1, <1>2 DEF Succession, Reads
<1>4. MakeInv' /\ HoldInv'
  BY <1>2, <1>3 DEF MakeInv, HoldInv, Reads
<1>5. IsFile(file') /\ faulted' \in BOOLEAN
  BY <1>1 DEF IInv, StateInv
<1>6. QED
  BY <1>1, <1>4, <1>5, CallSucceeds

LEMMA VerdictEnds ==
    ASSUME NEW m1, NEW m2 PROVE Verdict(m1, m2) \in {"exit 0", "exit 1", "abort", "undefined"}
<1> DEFINE a == IF m1.format # m2.format THEN AsCoo(m1) ELSE m1
           b == IF m1.format # m2.format THEN AsCoo(m2) ELSE m2
<1>1. Verdict(m1, m2) \in {"exit 0", "exit 1", "abort", "undefined"}
  BY DEF Verdict
<1>2. QED
  BY <1>1

LEMMA CompareKeeps == ASSUME IInv, Compare PROVE IInv'
<1> DEFINE how == Verdict(first, matrix)
<1>1. UnderWay /\ Call = "compare"
  BY DEF Compare, Calls, At, UnderWay, Call
<1>2. Program \notin {"bsp2mtx"} \cup Benchmarks
  BY <1>1, CallUnderWay DEF IInv, Succession, Final, Benchmarks
<1>3. CASE Dies("undefined", file.flaw # "nnz_type")
  <2>1. (file.flaw # "nnz_type") \in BOOLEAN /\ "undefined" \in Ends \ {"exit 0"}
    BY DEF Ends
  <2>2. QED
    BY <1>1, <1>2, <1>3, <2>1, Death
<1>4. CASE Dies(how, FALSE)
  <2>1. how \in Ends
    BY VerdictEnds DEF Ends
  <2>2. UNCHANGED file /\ End(how, FALSE)
    BY <1>4 DEF Dies
  <2>3. HasKeys(matrix) /\ live = Pointed(matrix)
    BY <1>1 DEF IInv, HoldInv
  <2>4. matrix # NoMatrix
    BY <2>3, NotNoMatrix
  <2> HIDE DEF how
  <2>5. QED
    BY <1>1, <1>2, <2>1, <2>2, <2>3, <2>4, EndStep
<1>5. QED
  BY <1>3, <1>4 DEF Compare

LEMMA CooKeys == ASSUME NEW m, HasKeys(m) PROVE HasKeys(CooOf(m))
  BY DEF CooOf, HasKeys, Keys

LEMMA ToCooKeeps == ASSUME IInv, ToCoo PROVE IInv'
<1>1. UnderWay /\ Call = "to_coo" /\ Return("SUCCESS") /\ UNCHANGED file
  BY DEF ToCoo, Calls, At, UnderWay, Call, KeepFiles
<1>2. /\ HasKeys(matrix) /\ live = Pointed(matrix) /\ matrix.format = FormatRead
      /\ IsFile(file) /\ faulted \in BOOLEAN
  BY <1>1 DEF IInv, HoldInv, StateInv
<1>3. calls' = Tail(calls) /\ UNCHANGED todo
  BY <1>1 DEF Return
<1>4. UnderWay' /\ Program' = Program /\ <<Program, Call, Call'>> \in Succession
  BY <1>1, <1>3, NextCall DEF IInv
<1>5. Program = "bsp2mtx" /\ Call' = "mmwrite"
  BY <1>1, <1>4 DEF Succession
<1>6. \/ matrix.format = "COO" /\ UNCHANGED <<matrix, live, faulted>>
      \/ /\ matrix.format = "CSR" /\ live' = Pointed(matrix') \cup {"source"}
         /\ matrix' = CooOf(matrix) /\ UNCHANGED faulted
      \/ live' = Pointed(matrix') \cup {"source"} /\ faulted' = TRUE
  BY DEF ToCoo
<1>7. ~faulted' => /\ HasKeys(matrix')
                   /\ live' = Pointed(matrix') \cup
                               (IF file.m.format = "CSR" THEN {"source"} ELSE {})
  <2>1. CASE matrix.format = "COO" /\ UNCHANGED <<matrix, live, faulted>>
    BY <1>2, <2>1 DEF FormatRead
  <2>2. CASE /\ matrix.format = "CSR" /\ live' = Pointed(matrix') \cup {"source"}
             /\ matrix' = CooOf(matrix)
    <3>1. file.m.format = "CSR"
      BY <1>2, <2>2 DEF FormatRead
    <3>2. QED
      BY <1>2, <2>2, <3>1, CooKeys
  <2>3. QED
    BY <1>6, <2>1, <2>2
<1>8. MakeInv' /\ HoldInv'
  BY <1>1, <1>4, <1>5, <1>7 DEF MakeInv, HoldInv, Benchmarks
<1>9. live' \subseteq Blocks /\ faulted' \in BOOLEAN
  <2>1. \A m : Pointed(m) \cup {"source"} \subseteq Blocks
    BY DEF Pointed, Blocks
  <2>2. QED
    BY <1>2, <1>6, <2>1
<1>10. QED
  BY <1>1, <1>2, <1>5, <1>8, <1>9, CallReturns DEF Reads

LEMMA ToCooFailsKeeps == ASSUME IInv, ToCooFails PROVE IInv'
<1>1. UnderWay /\ Call = "to_coo" /\ (Dies("abort", FALSE) \/ Dies("undefined", FALSE))
  BY DEF ToCooFails, Calls, At, UnderWay, Call
<1>2. Program \notin Benchmarks
  BY <1>1, CallUnderWay DEF IInv, Succession, Final, Benchmarks
<1>3. QED
  BY <1>1, <1>2, Death DEF Ends

LEMMA MmWriteKeeps == ASSUME IInv, MmWrite PROVE IInv'
<1>1. /\ UnderWay /\ Call = "mmwrite" /\ Return("SUCCESS")
      /\ UNCHANGED <<file, matrix, live, faulted>>
  BY DEF MmWrite, At, UnderWay, Call
<1>2. calls' = Tail(calls) /\ UNCHANGED todo
  BY <1>1 DEF Return
<1>3. UnderWay' /\ Program' = Program /\ <<Program, Call, Call'>> \in Succession
  BY <1>1, <1>2, NextCall DEF IInv
<1>4. Program = "bsp2mtx" /\ Call' = "finish"
  BY <1>1, <1>3 DEF Succession
<1>5. MakeInv' /\ HoldInv'
  BY <1>1, <1>3, <1>4 DEF IInv, MakeInv, HoldInv, Benchmarks
<1>6. IsFile(file') /\ live' \subseteq Blocks /\ faulted' \in BOOLEAN
  BY <1>1 DEF IInv, StateInv
<1>7. QED
  BY <1>1, <1>4, <1>5, <1>6, CallReturns DEF Reads

LEMMA MmWriteFailsKeeps == ASSUME IInv, MmWriteFails PROVE IInv'
<1>1. /\ UnderWay /\ Call = "mmwrite" /\ UNCHANGED file
      /\ End("abort", TRUE) \/ End("abort", FALSE)
  BY DEF MmWriteFails, At, UnderWay, Call, Dies
<1>2. Program \notin Benchmarks
  BY <1>1, CallUnderWay DEF IInv, Succession, Final, Benchmarks
<1>3. "abort" \in Ends
  BY DEF Ends
<1>4. QED
  BY <1>1, <1>2, <1>3, EndStep

--------------------------------------------------------------------------------
(* tensor_test allocates none of the blocks of matrices. *)

TensorCalls == {"tensor_read", "tensor_write", "tensor_finish"}

LEMMA TensorUnderWay ==
    ASSUME IInv, UnderWay, Call \in TensorCalls
    PROVE  /\ Program = "tensor_test" /\ Program \notin Benchmarks /\ live = {}
           /\ IsFile(file) /\ faulted \in BOOLEAN
<1>1. Program = "tensor_test"
  BY CallUnderWay DEF IInv, Succession, Final, TensorCalls
<1>2. QED
  BY <1>1 DEF IInv, StateInv, Benchmarks

LEMMA TensorReturn ==
    ASSUME IInv, UnderWay, Call \in {"tensor_read", "tensor_write"}, TensorReturns,
           faulted' \in BOOLEAN
    PROVE  IInv'
<1>1. Return("SUCCESS") /\ UNCHANGED <<file, live>>
  BY DEF TensorReturns
<1>2. Program = "tensor_test" /\ live = {} /\ IsFile(file)
  BY TensorUnderWay DEF TensorCalls
<1>3. calls' = Tail(calls) /\ UNCHANGED todo
  BY <1>1 DEF Return
<1>4. Program' = Program /\ <<Program, Call, Call'>> \in Succession
  BY <1>3, NextCall DEF IInv
<1>5. Call' \in {"tensor_write", "tensor_finish"}
  BY <1>2, <1>4 DEF Succession
<1>6. MakeInv' /\ HoldInv'
  BY <1>2, <1>4, <1>5 DEF MakeInv, HoldInv, Benchmarks
<1>7. QED
  BY <1>1, <1>2, <1>5, <1>6, CallReturns DEF Reads

LEMMA TensorStays ==
    ASSUME IInv, UnderWay, Call \in TensorCalls, step' = "level",
           UNCHANGED <<input, file, todo, calls, live, ended, faulted>>
    PROVE  IInv'
<1>1. Program = "tensor_test" /\ live = {} /\ IsFile(file) /\ faulted \in BOOLEAN
  BY TensorUnderWay
<1>2. Program' = Program /\ Call' = Call
  BY DEF Program, Call
<1>3. MakeInv' /\ ReadInv' /\ HoldInv'
  BY <1>1, <1>2 DEF MakeInv, ReadInv, HoldInv, Benchmarks, TensorCalls, Reads
<1>4. step' \notin Errors
  BY DEF Errors
<1>5. QED
  BY <1>1, <1>3, <1>4, CallGoesOn

LEMMA TensorEnd ==
    ASSUME IInv, UnderWay, Call \in TensorCalls,
           NEW how \in {"exit 0", "abort", "crash", "undefined"}, TensorEnds(how)
    PROVE  IInv'
<1>1. Program = "tensor_test" /\ Program \notin Benchmarks /\ live = {}
  BY TensorUnderWay
<1>2. UNCHANGED file /\ End(how, FALSE) /\ how \in Ends
  BY DEF TensorEnds, Dies, Ends
<1>3. QED
  BY <1>1, <1>2, EndStep

LEMMA TensorKeeps == ASSUME IInv, TensorNext PROVE IInv'
<1>1. UnderWay /\ Call \in TensorCalls
  BY DEF TensorNext, TensorOpen, TensorOpenFails, TensorAsserts, TensorLevel, TensorLevelFails,
     TensorReadOverruns, TensorTooDeep, TensorWrite, TensorWriteFails, TensorWriteOverruns,
     TensorWrites, TensorDestroy, AtLevel, At, UnderWay, Call, TensorCalls
<1>2. faulted \in BOOLEAN
  BY <1>1, TensorUnderWay
<1>3. CASE TensorOpen
  BY <1>1, <1>3, TensorStays DEF TensorOpen
<1>4. CASE TensorOpenFails
  <2>1. Source.readable \in BOOLEAN
    BY InputsAssumption DEF IInv, SessionInv, IsSession, IsTensor, Source
  <2>2. QED
    BY <1>1, <1>4, <2>1, TensorReturn DEF TensorOpenFails, At, Call
<1>5. CASE TensorAsserts
  BY <1>1, <1>5, TensorEnd DEF TensorAsserts
<1>6. CASE TensorLevel
  <2>1. CASE TensorReturns
    BY <1>1, <1>2, <1>6, <2>1, TensorReturn DEF TensorLevel, AtLevel, At, Call
  <2>2. CASE ~TensorReturns
    <3>1. TensorGo /\ step = "level" /\ UNCHANGED faulted
      BY <1>6, <2>2 DEF TensorLevel, AtLevel, At
    <3>2. QED
      BY <1>1, <3>1, TensorStays DEF TensorGo
  <2>3. QED
    BY <2>1, <2>2
<1>7. CASE TensorLevelFails
  BY <1>1, <1>7, TensorReturn DEF TensorLevelFails, AtLevel, At, Call
<1>8. CASE TensorTooDeep
  BY <1>1, <1>2, <1>8, TensorReturn DEF TensorTooDeep, AtLevel, At, Call
<1>9. CASE TensorWrite
  <2>1. TensorReturns /\ Call = "tensor_write" /\ (UNCHANGED faulted \/ faulted' = TRUE)
    BY <1>9 DEF TensorWrite, TensorWrites, At, Call
  <2>2. QED
    BY <1>1, <1>2, <2>1, TensorReturn
<1>10. CASE TensorWriteFails
  <2>1. TensorEnds("crash") \/ TensorEnds("abort") \/ TensorEnds("undefined")
    BY <1>10 DEF TensorWriteFails
  <2>2. QED
    BY <1>1, <2>1, TensorEnd
<1>11. CASE TensorDestroy
  BY <1>1, <1>11, TensorEnd DEF TensorDestroy
<1>12. CASE TensorReadOverruns
  BY <1>1, <1>12, TensorEnd DEF TensorReadOverruns
<1>13. CASE TensorWriteOverruns
  <2>1. Program \notin Benchmarks
    BY <1>1, TensorUnderWay
  <2>2. UNCHANGED file /\ End("undefined", FALSE) /\ "undefined" \in Ends
    BY <1>13 DEF TensorWriteOverruns, Dies, Ends
  <2>3. QED
    BY <1>1, <2>1, <2>2, EndStep
<1>14. QED
  BY <1>3, <1>4, <1>5, <1>6, <1>7, <1>8, <1>9, <1>10, <1>11, <1>12, <1>13 DEF TensorNext

--------------------------------------------------------------------------------
(* The session. *)

LEMMA InitIInv == Init => IInv
<1> SUFFICES ASSUME Init PROVE IInv
  OBVIOUS
<1>1. /\ IsSession(input) /\ file = input.file /\ todo = input.programs
      /\ calls = Script[Head(todo)] /\ step = "start" /\ live = {} /\ faulted = FALSE
      /\ ended = <<>>
  BY InputsAssumption DEF Init
<1>2. todo \in Seq(DOMAIN Script) /\ todo # <<>>
  BY <1>1 DEF IsSession
<1>3. Len(todo) \in Nat /\ Head(todo) \in DOMAIN Script
  BY <1>2
<1>4. Len(ended) = 0 /\ DOMAIN ended = {} /\ ended \in Seq(Endings)
  BY <1>1
<1>5. SessionInv
  <2>1. input \in Inputs
    BY DEF Init
  <2>2. Len(ended) + Len(todo) = Len(input.programs)
    BY <1>1, <1>3, <1>4
  <2>3. \A k \in DOMAIN todo : todo[k] = input.programs[Len(ended) + k]
    <3>1. ASSUME NEW k \in DOMAIN todo PROVE 0 + k = k
      BY <1>2
    <3>2. QED
      BY <1>1, <1>4, <3>1
  <2>4. QED
    BY <1>2, <1>4, <2>1, <2>2, <2>3 DEF SessionInv
<1>6. /\ calls \in Seq(CallNames) /\ Len(calls) >= 2 /\ calls[1] \in FirstCalls
      /\ Program = "mtx2bsp" <=> calls[1] = "metadata"
  BY <1>1, <1>3, Scripts DEF Program
<1>7. Call = calls[1]
  BY <1>6, HeadTailProperties DEF Call
<1>8. CallsInv
  <2>1. Len(calls) \in Nat
    BY <1>6
  <2>2. Len(calls) \in 1 .. Len(calls)
    BY <1>6, <2>1
  <2>3. \A k \in 1 .. Len(calls) : Len(calls) - Len(calls) + k = k
    BY <2>1
  <2>4. QED
    BY <1>1, <1>6, <2>2, <2>3 DEF CallsInv, Program
<1>9. StateInv
  BY <1>1 DEF StateInv, IsSession, Errors
<1>10. MakeInv
  BY <1>1, <1>6, <1>7 DEF MakeInv, FirstCalls
<1>11. ReadInv
  BY <1>1 DEF ReadInv, Fields, Errors
<1>12. HoldInv
  BY <1>6, <1>7 DEF HoldInv, FirstCalls
<1>13. EndedInv
  BY <1>4 DEF EndedInv
<1>14. QED
  BY <1>5, <1>8, <1>9, <1>10, <1>11, <1>12, <1>13 DEF IInv

LEMMA IInvStays == ASSUME IInv, UNCHANGED programVars PROVE IInv'
<1>1. UNCHANGED <<input, file, copy, todo, calls, step, matrix, first, live, faulted, ended>>
  BY DEF programVars
<1>2. SessionInv' /\ CallsInv'
  BY <1>1 DEF IInv, SessionInv, CallsInv, UnderWay, Program
<1>3. StateInv' /\ MakeInv'
  BY <1>1 DEF IInv, StateInv, MakeInv, MmLive, UnderWay, Program, Call
<1>4. /\ Opens' = Opens /\ FormatRead' = FormatRead /\ Names' = Names
      /\ \A c : Asserts(c)' = Asserts(c)
      /\ \A c : Accepts(c)' = Accepts(c)
      /\ \A c : Describes(c)' = Describes(c)
      /\ \A c : Refuses(c)' = Refuses(c)
      /\ \A c : Outcome(c)' = Outcome(c)
  BY <1>1 DEF Opens, FormatRead, Names, Asserts, Accepts, Crashes, Describes, Refuses, Outcome,
     DescriptorError
<1>5. ReadInv'
  BY <1>1, <1>4 DEF IInv, ReadInv, ReadingInv, ErrorInv, UnderWay, Call
<1>6. HoldInv'
  BY <1>1, <1>4 DEF IInv, HoldInv, UnderWay, Call, Program
<1>7. EndedInv'
  BY <1>1, <1>4 DEF IInv, EndedInv
<1>8. QED
  BY <1>2, <1>3, <1>5, <1>6, <1>7 DEF IInv

LEMMA NextIInv == IInv /\ [Next]_vars => IInv'
<1> SUFFICES ASSUME IInv, [Next]_vars PROVE IInv'
  OBVIOUS
<1>1. CASE MatrixNext
  <2>1. CASE CheckArguments \/ DeclampValues \/ MinimizeValues
    BY <2>1, CheckArgumentsKeeps, DeclampKeeps, MinimizeKeeps
  <2>2. CASE Convert \/ ConvertFails
    BY <2>2, ConvertKeeps, ConvertFailsKeeps
  <2>3. CASE WriteFile \/ WriteFileFails \/ Finish
    BY <2>3, WriteFileKeeps, WriteFileFailsKeeps, FinishKeeps
  <2>4. CASE KeepFirst \/ Compare
    BY <2>4, KeepFirstKeeps, CompareKeeps
  <2>5. CASE ToCoo \/ ToCooFails \/ MmWrite \/ MmWriteFails
    BY <2>5, ToCooKeeps, ToCooFailsKeeps, MmWriteKeeps, MmWriteFailsKeeps
  <2>6. CASE BspCheck \/ ReadNext \/ MmNext
    BY <2>6, BspCheckKeeps, ReadKeeps, MmKeeps
  <2>7. CASE Over
    BY <2>7, IInvStays DEF Over
  <2>8. QED
    BY <1>1, <2>1, <2>2, <2>3, <2>4, <2>5, <2>6, <2>7 DEF MatrixNext
<1>2. CASE TensorNext
  BY <1>2, TensorKeeps
<1>3. CASE UNCHANGED vars
  BY <1>3, IInvStays DEF vars
<1>4. QED
  BY <1>1, <1>2, <1>3 DEF Next

--------------------------------------------------------------------------------
(* tensor_test: what it has read so far, and whether it can go on.            *)

Kinds == {"dense", "sparse", "element"}
TensorKeys == {"indices", "pointers_to", "values"} \X Nat
Levels == [kind : Kinds \cup {"junk"}, rank : Nat, arrays : Seq(TensorKeys)]

\* Level k of the source can be read.
Readable1(k) ==
    /\ Depth(Source.levels, k) <= Source.rank
    /\ Range(Datasets(Source.levels[k], Depth(Source.levels, k))) \subseteq Source.datasets

\* All of the source can be read; what SourceWhole adds is needed to write it.
Obtainable ==
    /\ Source.readable /\ Source.described
    /\ \E k \in DOMAIN Source.levels :
          /\ Source.levels[k].kind = "element"
          /\ Depth(Source.levels, k) <= Source.rank
    /\ SourceKeys \subseteq Source.datasets

\* Level k of the source, in memory.
LevelOf(k) ==
    LET s == Source.levels
    IN  Level(s[k].kind, s[k].rank, Datasets(s[k], Depth(s, k)))

SameShape == tensor.rank = Source.rank /\ tensor.transposed = Source.transposed

TensorReading ==
    /\ Source.readable /\ Source.described
    /\ DOMAIN tensor = {"rank", "transposed", "levels"}
    /\ SameShape
    /\ tensor.levels \in Seq(Levels)
    /\ LevelsRead \in 0 .. Len(Source.levels)
    /\ tensor.levels[LevelsRead + 1] = JunkLevel
    /\ \A k \in 1 .. LevelsRead :
          /\ tensor.levels[k] = LevelOf(k)
          /\ Source.levels[k].kind # "element"
          /\ Readable1(k)

CopiesTensor == UnderWay /\ Program = "tensor_test"

\* The tensor has a sparse level only if the source has one.
SparseNamed == \A k \in DOMAIN tensor.levels : tensor.levels[k].kind = "sparse" => KeysNamed

TensorInv ==
    /\ output.attribute \in BOOLEAN
    /\ ~CopiesTensor => tensor = DefaultTensor
    /\ CopiesTensor =>
          /\ Call = "tensor_read" /\ step = "start" => tensor = DefaultTensor
          /\ Call = "tensor_read" /\ step # "start" => TensorReading
          /\ Call = "tensor_write" => SparseNamed
          /\ Call = "tensor_write" /\ ~faulted =>
                (Whole <=> Obtainable) /\ (Whole => SameShape)
          /\ Call = "tensor_finish" /\ ~faulted => SourceWhole /\ output.attribute
    /\ /\ \A k \in DOMAIN ended : ended[k].program # "tensor_test"
       /\ ~(CopiesTensor /\ Call = "tensor_finish")
       => ~output.attribute
    /\ TensorAccepted

IsLevels(s) == s \in Seq([kind : Kinds, rank : Nat])

LEMMA DepthSame ==
    ASSUME NEW s, NEW t, NEW k \in Nat, \A j \in 1 .. k - 1 : s[j].rank = t[j].rank
    PROVE  Depth(s, k) = Depth(t, k)
<1>1. {{j} \X (1 .. s[j].rank) : j \in 1 .. k - 1} = {{j} \X (1 .. t[j].rank) : j \in 1 .. k - 1}
  OBVIOUS
<1>2. QED
  BY <1>1 DEF Depth

LEMMA DepthAscends ==
    ASSUME NEW s, IsLevels(s), NEW k \in DOMAIN s, NEW j \in 1 .. k
    PROVE  Depth(s, j) \in Nat /\ Depth(s, k) \in Nat /\ Depth(s, j) <= Depth(s, k)
<1> DEFINE D(i) == UNION {{l} \X (1 .. s[l].rank) : l \in 1 .. i - 1}
<1>1. /\ Len(s) \in Nat /\ k \in 1 .. Len(s) /\ j \in 1 .. Len(s)
      /\ \A l \in 1 .. Len(s) : s[l].rank \in Nat
  <2>1. Len(s) \in Nat /\ DOMAIN s = 1 .. Len(s)
    BY DEF IsLevels
  <2> DEFINE R == [kind : Kinds, rank : Nat]
  <2>2. \A l \in 1 .. Len(s) : s[l] \in R
    <3>1. s \in Seq(R)
      BY DEF IsLevels
    <3> HIDE DEF R
    <3>2. QED
      BY <2>1, <3>1
  <2>3. QED
    BY <2>1, <2>2
<1>2. ASSUME NEW i \in 1 .. Len(s) PROVE IsFiniteSet(D(i))
  <2> DEFINE F(l) == {l} \X (1 .. s[l].rank)
             W == {F(l) : l \in 1 .. i - 1}
  <2>1. \A l \in 1 .. i - 1 : IsFiniteSet(F(l))
    <3> SUFFICES ASSUME NEW l \in 1 .. i - 1 PROVE IsFiniteSet(F(l))
      OBVIOUS
    <3>1. s[l].rank \in Nat
      BY <1>1
    <3>2. IsFiniteSet({l}) /\ IsFiniteSet(1 .. s[l].rank)
      <4>1. IsFiniteSet(1 .. s[l].rank)
        <5>1. \A n \in Nat : IsFiniteSet(1 .. n)
          BY FS_Interval
        <5>2. QED
          BY <3>1, <5>1
      <4>2. QED
        BY <4>1, FS_Singleton
    <3>3. QED
      BY <3>2, FS_Product
  <2>2. IsFiniteSet(1 .. i - 1)
    BY <1>1, FS_Interval
  <2> HIDE DEF F
  <2>3. IsFiniteSet(W)
    <3> DEFINE f == [l \in 1 .. i - 1 |-> F(l)]
    <3>1. f \in Surjection(1 .. i - 1, W)
      BY DEF Surjection
    <3>2. QED
      BY <2>2, <3>1, FS_Surjection
  <2>4. \A x \in W : IsFiniteSet(x)
    BY <2>1
  <2>5. IsFiniteSet(UNION W)
    BY <2>3, <2>4, FS_UNION
  <2>6. QED
    BY <2>5 DEF F
<1>3. D(j) \subseteq D(k)
  BY <1>1
<1>4. IsFiniteSet(D(j)) /\ IsFiniteSet(D(k))
  BY <1>1, <1>2
<1> HIDE DEF D
<1>5. Cardinality(D(j)) \in Nat /\ Cardinality(D(k)) \in Nat /\ Cardinality(D(j)) <= Cardinality(D(k))
  BY <1>3, <1>4, FS_Subset, FS_CardinalityType
<1>6. QED
  BY <1>5 DEF D, Depth

LEMMA DatasetsKeys ==
    ASSUME NEW level \in [kind : Kinds, rank : Nat], NEW d \in Nat
    PROVE  Datasets(level, d) \in Seq(TensorKeys)
<1>1. Indices(level, d) \in Seq(TensorKeys)
  <2>1. level.rank \in Nat
    OBVIOUS
  <2>2. \A i \in 1 .. level.rank : <<"indices", d + i - 1>> \in TensorKeys
    BY <2>1 DEF TensorKeys
  <2>3. QED
    BY <2>1, <2>2 DEF Indices
<1>2. <<"values", 0>> \in TensorKeys /\ <<"pointers_to", d>> \in TensorKeys
  BY DEF TensorKeys
<1>3. level.kind \in Kinds
  OBVIOUS
<1>4. CASE level.kind = "element"
  BY <1>2, <1>4 DEF Datasets
<1>5. CASE level.kind = "dense"
  BY <1>5 DEF Datasets
<1>6. CASE level.kind = "sparse"
  <2>1. (IF d = 0 THEN <<>> ELSE <<<<"pointers_to", d>>>>) \in Seq(TensorKeys)
    BY <1>2
  <2> DEFINE a == IF d = 0 THEN <<>> ELSE <<<<"pointers_to", d>>>>
             b == Indices(level, d)
  <2>2. Datasets(level, d) = a \o b
    BY <1>6 DEF Datasets
  <2> HIDE DEF a, b
  <2>3. a \in Seq(TensorKeys) /\ b \in Seq(TensorKeys)
    BY <1>1, <2>1 DEF a, b
  <2>4. a \o b \in Seq(TensorKeys)
    BY <2>3
  <2>5. QED
    BY <2>2, <2>4
<1>7. QED
  BY <1>3, <1>4, <1>5, <1>6 DEF Kinds

\* All of a tensor whose element is no deeper than its shape can be read, if each of
\* its levels can; and none other.
LEMMA ObtainableLevels ==
    ASSUME Source.readable, Source.described, IsTensor(Source)
    PROVE  Obtainable <=> /\ Source.levels # <<>>
                          /\ Source.levels[Len(Source.levels)].kind = "element"
                          /\ \A k \in DOMAIN Source.levels : Readable1(k)
<1> DEFINE s == Source.levels
<1>1. /\ IsLevels(s) /\ Len(s) \in Nat /\ DOMAIN s = 1 .. Len(s)
      /\ \A k \in 1 .. Len(s) - 1 : s[k].kind # "element"
  BY DEF IsTensor, IsLevels, Kinds
<1>2. SourceKeys \subseteq Source.datasets <=>
         \A k \in DOMAIN s : Range(Datasets(s[k], Depth(s, k))) \subseteq Source.datasets
  BY DEF SourceKeys
<1>3. ASSUME Obtainable PROVE /\ s # <<>> /\ s[Len(s)].kind = "element"
                              /\ \A k \in DOMAIN s : Readable1(k)
  <2>1. PICK k \in DOMAIN s : s[k].kind = "element" /\ Depth(s, k) <= Source.rank
    BY <1>3 DEF Obtainable
  <2>2. k = Len(s) /\ s # <<>>
    BY <1>1, <2>1
  <2>3. ASSUME NEW l \in DOMAIN s PROVE Depth(s, l) <= Source.rank
    <3>1. l \in 1 .. k /\ k \in DOMAIN s
      BY <1>1, <2>2
    <3>2. Depth(s, l) \in Nat /\ Depth(s, k) \in Nat /\ Depth(s, l) <= Depth(s, k)
      BY <1>1, <3>1, DepthAscends
    <3>3. Source.rank \in Nat
      BY DEF IsTensor
    <3>4. QED
      BY <2>1, <3>2, <3>3
  <2>4. QED
    BY <1>2, <1>3, <2>1, <2>2, <2>3 DEF Obtainable, Readable1
<1>4. ASSUME s # <<>>, s[Len(s)].kind = "element", \A k \in DOMAIN s : Readable1(k)
      PROVE  Obtainable
  <2>1. Len(s) \in DOMAIN s
    BY <1>1, <1>4 DEF IsLevels
  <2>2. QED
    BY <1>2, <1>4, <2>1 DEF Obtainable, Readable1
<1>5. QED
  BY <1>3, <1>4

LEMMA TensorSource == ASSUME SessionInv PROVE IsTensor(Source)
BY InputsAssumption DEF SessionInv, IsSession, Source

\* The tensor is copied once.
LEMMA TensorOnce ==
    ASSUME SessionInv, CopiesTensor
    PROVE  \A k \in DOMAIN ended : ended[k].program # "tensor_test"
<1> DEFINE m == Len(ended)
           n == Len(todo)
<1>1. /\ todo \in Seq(DOMAIN Script) /\ todo # <<>> /\ ended \in Seq(Endings)
      /\ m \in Nat /\ n \in Nat /\ n >= 1 /\ DOMAIN todo = 1 .. n /\ DOMAIN ended = 1 .. m
  BY EmptySeq, LenProperties DEF SessionInv, CopiesTensor, UnderWay
<1>2. todo[1] = "tensor_test"
  BY <1>1 DEF CopiesTensor, Program
<1>3. m + n = Len(input.programs)
  BY DEF SessionInv
<1>4. input.programs[m + 1] = "tensor_test" /\ m + 1 \in 1 .. Len(input.programs)
  BY <1>1, <1>2, <1>3 DEF SessionInv
<1>5. \A k \in DOMAIN ended : ended[k].program = input.programs[k]
  BY DEF SessionInv
<1>6. \A j, k \in 1 .. Len(input.programs) :
         input.programs[j] = "tensor_test" /\ input.programs[k] = "tensor_test" => j = k
  BY InputsAssumption DEF SessionInv, IsSession
<1> HIDE DEF m, n
<1>7. ASSUME NEW k \in DOMAIN ended, ended[k].program = "tensor_test" PROVE FALSE
  <2>1. k \in 1 .. Len(input.programs) /\ k # m + 1
    BY <1>1, <1>3
  <2>2. QED
    BY <1>4, <1>5, <1>6, <1>7, <2>1
<1>8. QED
  BY <1>7

\* What the end of a program leaves to the next one.
LEMMA AfterEnd ==
    ASSUME IInv, IInv', UnderWay, NEW how \in Ends, NEW failed \in BOOLEAN, End(how, failed)
    PROVE  /\ UNCHANGED input /\ step' = "start" /\ faulted' = FALSE
           /\ UnderWay' => Call' \in FirstCalls
           /\ \A k \in DOMAIN ended' :
                 \/ k \in DOMAIN ended /\ ended'[k] = ended[k]
                 \/ /\ ended'[k].program = Program /\ ended'[k].how = how
                    /\ ended'[k].clean = ~(faulted \/ failed)
           /\ \E k \in DOMAIN ended' : ended'[k].program = Program
           /\ \A k \in DOMAIN ended : k \in DOMAIN ended' /\ ended'[k] = ended[k]
<1> DEFINE e == [program |-> Program, how |-> how, clean |-> ~(faulted \/ failed),
                 left |-> live \ (IF matrix = NoMatrix THEN {} ELSE Pointed(matrix))]
<1>1. e \in Endings /\ e.program = Program
  BY CallUnderWay DEF IInv, StateInv, Endings
<1>2. /\ UNCHANGED input /\ ended' = Append(ended, e) /\ todo' = Tail(todo)
      /\ calls' = IF Len(todo) = 1 THEN <<>> ELSE Script[todo[2]]
      /\ step' = "start" /\ faulted' = FALSE
  BY DEF End, Program
<1>3. e.how = how /\ e.clean = ~(faulted \/ failed)
  OBVIOUS
<1> HIDE DEF e
<1>4. /\ UnderWay' => Call' \in FirstCalls
      /\ \A k \in DOMAIN ended' :
            (k \in DOMAIN ended /\ ended'[k] = ended[k]) \/ ended'[k] = e
  BY <1>1, <1>2, NextProgram DEF IInv
<1>5. ended \in Seq(Endings) /\ Len(ended) \in Nat /\ DOMAIN ended = 1 .. Len(ended)
  BY LenProperties DEF IInv, SessionInv
<1>6. /\ ended'[Len(ended) + 1] = e /\ DOMAIN ended' = 1 .. Len(ended) + 1
      /\ \A k \in 1 .. Len(ended) : ended'[k] = ended[k]
  BY <1>1, <1>2, <1>5, AppendProperties, LenProperties
<1>7. Len(ended) + 1 \in DOMAIN ended' /\ \A k \in DOMAIN ended : k \in DOMAIN ended'
  BY <1>5, <1>6
<1>8. QED
  BY <1>1, <1>2, <1>3, <1>4, <1>5, <1>6, <1>7

LEMMA TensorFirst ==
    ASSUME IInv, CopiesTensor, Call \in FirstCalls
    PROVE  Call = "tensor_read"
BY CallUnderWay DEF IInv, CopiesTensor, FirstCalls, Succession, Final

LEMMA InitTensor == Init => TensorInv
<1> SUFFICES ASSUME Init PROVE TensorInv
  OBVIOUS
<1>1. IInv
  BY InitIInv
<1>2. tensor = DefaultTensor /\ output = NoOutput /\ step = "start"
  BY DEF Init, TensorInit
<1>3. DOMAIN ended = {}
  BY DEF Init
<1>4. CopiesTensor => Call = "tensor_read"
  <2>1. ASSUME CopiesTensor PROVE Call \in FirstCalls
    <3>1. Program \in DOMAIN Script /\ calls = Script[Program]
      BY <1>1, <2>1, CallUnderWay DEF Init, Program, CopiesTensor, IInv
    <3>2. calls \in Seq(CallNames) /\ Len(calls) >= 2 /\ calls[1] \in FirstCalls
      BY <3>1, Scripts
    <3>3. Call = calls[1]
      BY <3>2 DEF Call
    <3>4. QED
      BY <3>2, <3>3
  <2>2. QED
    BY <1>1, <2>1, TensorFirst
<1>5. TensorAccepted
  BY <1>3 DEF TensorAccepted
<1>6. output.attribute = FALSE
  BY <1>2 DEF NoOutput
<1>7. QED
  BY <1>2, <1>4, <1>5, <1>6 DEF TensorInv

\* No program but tensor_test has anything to do with the tensor.
LEMMA MatrixSteps ==
    ASSUME IInv, MatrixNext
    PROVE  \/ UNCHANGED programVars
           \/ /\ UnderWay /\ Program # "tensor_test"
              /\ \/ UNCHANGED <<input, todo, ended>>
                 \/ \E how \in Ends, failed \in BOOLEAN : End(how, failed)
<1>1. CASE Over
  BY <1>1 DEF Over
<1>2. CASE BspCheck
  <2>1. UnderWay /\ Program # "tensor_test"
    <3>1. UnderWay /\ Call \in {"read", "read_parallel", "write"}
      BY <1>2 DEF BspCheck, IInv, StateInv
    <3>2. QED
      BY <3>1, CallUnderWay DEF IInv, Succession, Final
  <2>2. End("BSP_CHECK", FALSE) /\ "BSP_CHECK" \in Ends
    BY <1>2 DEF BspCheck, Dies, Ends
  <2>3. QED
    BY <2>1, <2>2
<1>3. CASE ~(Over \/ BspCheck)
  <2>1. UnderWay /\ Call \notin TensorCalls
    <3>1. CASE ReadNext
      BY <3>1 DEF ReadNext, ReadOpen, ReadOpenFails, ReadDescriptor, ReadAsserts, ReadCrashes,
         ReadReturns, ReadArray, ReadArrayFails, Reading, At, UnderWay, Call, TensorCalls
    <3>2. CASE MmNext
      BY <3>2 DEF MmNext, MmHeader, MmHeaderFails, MmOpen, MmOpenFails, MmLines, MmArrayLines,
         MmSort, MmSortFails, MmPermute, MmAllocate, MmAllocateFails, MmCopy, MmCopyFails, Mm, At,
         UnderWay, Call, TensorCalls
    <3>3. CASE ~(ReadNext \/ MmNext)
      BY <1>3, <3>3 DEF MatrixNext, CheckArguments, DeclampValues, MinimizeValues, Convert,
         ConvertFails, WriteFile, WriteFileFails, Finish, KeepFirst, Compare, ToCoo, ToCooFails,
         MmWrite, MmWriteFails, Calls, At, UnderWay, Call, TensorCalls
    <3>4. QED
      BY <3>1, <3>2, <3>3
  <2>2. Program # "tensor_test"
    BY <2>1, CallUnderWay DEF IInv, Succession, Final, TensorCalls
  <2>3. \/ UNCHANGED <<input, todo, ended>>
        \/ \E how \in Ends, failed \in BOOLEAN : End(how, failed)
    <3>1. CASE ReadNext
      BY <3>1 DEF ReadNext, ReadOpen, ReadOpenFails, ReadDescriptor, ReadAsserts, ReadCrashes,
         ReadReturns, ReadArray, ReadArrayFails, Go, Return, Dies, Ends
    <3>2. CASE MmNext
      BY <3>2 DEF MmNext, MmHeader, MmHeaderFails, MmOpen, MmOpenFails, MmLines, MmArrayLines,
         MmSort, MmSortFails, MmPermute, MmAllocate, MmAllocateFails, MmCopy, MmCopyFails,
         Returned, Go, Return, Dies, Ends
    <3>3. CASE CheckArguments \/ DeclampValues \/ MinimizeValues \/ Convert \/ ConvertFails
      BY <3>3 DEF CheckArguments, DeclampValues, MinimizeValues, Convert, ConvertFails,
         Return, Dies, Ends
    <3>4. CASE WriteFile \/ WriteFileFails \/ Finish
      BY <3>4 DEF WriteFile, WriteFileFails, Finish, Return, Dies, Ends
    <3>5. CASE KeepFirst \/ ToCoo \/ ToCooFails \/ MmWrite \/ MmWriteFails
      BY <3>5 DEF KeepFirst, ToCoo, ToCooFails, MmWrite, MmWriteFails, Return, Dies, Ends
    <3>6. CASE Compare
      <4>1. Verdict(first, matrix) \in Ends
        BY VerdictEnds DEF Ends
      <4>2. (file.flaw # "nnz_type") \in BOOLEAN /\ "undefined" \in Ends
        BY DEF Ends
      <4>3. QED
        BY <3>6, <4>1, <4>2 DEF Compare, Dies
    <3>7. QED
      BY <1>3, <3>1, <3>2, <3>3, <3>4, <3>5, <3>6 DEF MatrixNext
  <2>4. QED
    BY <2>1, <2>2, <2>3
<1>4. QED
  BY <1>1, <1>2, <1>3

LEMMA MatrixKeepsTensor ==
    ASSUME IInv, IInv', TensorInv, MatrixNext, UNCHANGED tensorVars
    PROVE  TensorInv'
<1>1. UNCHANGED <<tensor, output>>
  BY DEF tensorVars
<1>2. CASE UNCHANGED programVars
  <2>1. UNCHANGED <<input, todo, calls, step, faulted, ended>>
    BY <1>2 DEF programVars
  <2>2. UNCHANGED <<CopiesTensor, Call, Source>>
    BY <2>1 DEF CopiesTensor, UnderWay, Program, Call, Source
  <2>3. UNCHANGED <<TensorReading, Whole, SameShape, Obtainable, SourceWhole, SparseNamed,
                    TensorAccepted>>
    BY <1>1, <2>1 DEF TensorReading, Whole, SameShape, Obtainable, SourceWhole, SparseNamed,
       KeysNamed, TensorAccepted, SourceKeys, Readable1, LevelOf, LevelsRead, Source
  <2>4. QED
    BY <1>1, <2>1, <2>2, <2>3 DEF TensorInv
<1>3. CASE /\ UnderWay /\ Program # "tensor_test"
           /\ UNCHANGED <<input, todo, ended>>
  <2>1. ~CopiesTensor /\ ~CopiesTensor'
    BY <1>3 DEF CopiesTensor, Program
  <2>2. UNCHANGED TensorAccepted
    BY <1>1, <1>3 DEF TensorAccepted, SourceWhole, SourceKeys, KeysNamed, Source
  <2>3. QED
    BY <1>1, <1>3, <2>1, <2>2 DEF TensorInv
<1>4. ASSUME UnderWay, Program # "tensor_test",
             NEW how \in Ends, NEW failed \in BOOLEAN, End(how, failed)
      PROVE  TensorInv'
  <2>1. /\ UNCHANGED input /\ step' = "start"
        /\ UnderWay' => Call' \in FirstCalls
        /\ \A k \in DOMAIN ended' :
              (k \in DOMAIN ended /\ ended'[k] = ended[k]) \/ ended'[k].program = Program
        /\ \A k \in DOMAIN ended : k \in DOMAIN ended' /\ ended'[k] = ended[k]
    BY <1>4, AfterEnd
  <2>2. ~CopiesTensor /\ tensor = DefaultTensor
    BY <1>4 DEF CopiesTensor, TensorInv
  <2>3. ASSUME CopiesTensor' PROVE Call' = "tensor_read"
    <3>1. (IInv /\ CopiesTensor /\ Call \in FirstCalls)'
      BY <2>1, <2>3 DEF CopiesTensor
    <3>2. (Call = "tensor_read")'
      BY <3>1, TensorFirst, PTL
    <3>3. QED
      BY <3>2
  <2>4. SourceWhole' = SourceWhole /\ KeysNamed' = KeysNamed
    BY <2>1 DEF SourceWhole, SourceKeys, KeysNamed, Source
  <2>5. TensorAccepted'
    BY <1>1, <1>4, <2>1, <2>4 DEF TensorInv, TensorAccepted
  <2>6. ASSUME \A k \in DOMAIN ended' : ended'[k].program # "tensor_test"
        PROVE  ~output'.attribute
    BY <1>1, <2>1, <2>2, <2>6 DEF TensorInv
  <2>7. QED
    BY <1>1, <2>1, <2>2, <2>3, <2>5, <2>6 DEF TensorInv
<1>5. QED
  BY <1>2, <1>3, <1>4, MatrixSteps

\* tensor_test ends, and says so of the source.
LEMMA TensorEndsWell ==
    ASSUME IInv, IInv', TensorInv, CopiesTensor,
           NEW how \in {"exit 0", "abort", "crash", "undefined"}, Dies(how, FALSE),
           tensor' = DefaultTensor, output'.attribute \in BOOLEAN,
           ~faulted => /\ output'.attribute = (how = "exit 0")
                       /\ how = "exit 0" => SourceWhole
                       /\ SourceWhole => how = "exit 0" \/ (how = "undefined" /\ KeysNamed)
    PROVE  TensorInv'
<1>1. UnderWay /\ Program = "tensor_test"
  BY DEF CopiesTensor
<1>2. End(how, FALSE) /\ how \in Ends
  BY DEF Dies, Ends
<1>3. /\ UNCHANGED input /\ step' = "start"
      /\ \A k \in DOMAIN ended' :
            \/ k \in DOMAIN ended /\ ended'[k] = ended[k]
            \/ ended'[k].program = Program /\ ended'[k].how = how /\ ended'[k].clean = ~faulted
      /\ \E k \in DOMAIN ended' : ended'[k].program = Program
  <2>1. ~(faulted \/ FALSE) = ~faulted
    BY DEF IInv, StateInv
  <2>2. QED
    BY <1>1, <1>2, <2>1, AfterEnd
<1>4. ~CopiesTensor'
  <2>1. ASSUME CopiesTensor' PROVE FALSE
    <3>1. (SessionInv /\ CopiesTensor)'
      BY <2>1 DEF IInv
    <3>2. (\A k \in DOMAIN ended : ended[k].program # "tensor_test")'
      BY <3>1, TensorOnce, PTL
    <3>3. QED
      BY <1>1, <1>3, <3>2
  <2>2. QED
    BY <2>1
<1>5. SourceWhole' = SourceWhole /\ KeysNamed' = KeysNamed
  BY <1>3 DEF SourceWhole, SourceKeys, KeysNamed, Source
<1>6. \A k \in DOMAIN ended : ended[k].program # "tensor_test"
  BY TensorOnce DEF IInv
<1>7. TensorAccepted'
  BY <1>2, <1>3, <1>5, <1>6 DEF TensorAccepted
<1>8. QED
  BY <1>1, <1>2, <1>3, <1>4, <1>7 DEF TensorInv

LEMMA CopyingTensor ==
    ASSUME IInv, TensorInv, UnderWay, Call \in TensorCalls
    PROVE  /\ CopiesTensor /\ IsTensor(Source) /\ faulted \in BOOLEAN
           /\ \A k \in DOMAIN ended : ended[k].program # "tensor_test"
           /\ Call # "tensor_finish" => ~output.attribute
<1>1. CopiesTensor /\ faulted \in BOOLEAN
  BY TensorUnderWay DEF CopiesTensor
<1>2. \A k \in DOMAIN ended : ended[k].program # "tensor_test"
  BY <1>1, TensorOnce DEF IInv
<1>3. QED
  BY <1>1, <1>2, TensorSource DEF TensorInv, IInv

\* Nothing that has ended is about a tensor yet.
LEMMA NotYetAccepted ==
    ASSUME \A k \in DOMAIN ended : ended[k].program # "tensor_test", UNCHANGED ended
    PROVE  TensorAccepted'
BY DEF TensorAccepted

\* bsp_read_tensor returns.
LEMMA TensorIsRead ==
    ASSUME IInv, TensorInv, UnderWay, Call = "tensor_read", TensorReturns, UNCHANGED output,
           ~faulted' => (Whole' <=> Obtainable) /\ (Whole' => SameShape'), SparseNamed'
    PROVE  TensorInv'
<1>1. CopiesTensor /\ (\A k \in DOMAIN ended : ended[k].program # "tensor_test")
      /\ ~output.attribute
  BY CopyingTensor DEF TensorCalls
<1>2. /\ calls' = Tail(calls) /\ step' = "start" /\ UNCHANGED <<input, todo, ended>>
  BY DEF TensorReturns, Return
<1>3. UnderWay' /\ Program' = Program /\ <<Program, Call, Call'>> \in Succession
  BY <1>2, NextCall DEF IInv
<1>4. CopiesTensor' /\ Call' = "tensor_write"
  BY <1>1, <1>3 DEF CopiesTensor, Succession
<1>5. Obtainable' = Obtainable
  BY <1>2 DEF Obtainable, SourceKeys, Source
<1>6. TensorAccepted'
  BY <1>1, <1>2, NotYetAccepted
<1>7. QED
  BY <1>1, <1>4, <1>5, <1>6 DEF TensorInv

LEMMA JunkIsLevel == JunkLevel \in Levels
<1>1. <<>> \in Seq(TensorKeys)
  OBVIOUS
<1>2. QED
  BY <1>1 DEF JunkLevel, Level, Levels, Kinds

LEMMA TensorOpens ==
    ASSUME IInv, IInv', TensorInv, TensorOpen \/ TensorOpenFails PROVE TensorInv'
<1>1. /\ UnderWay /\ Call = "tensor_read" /\ step = "start"
  BY DEF TensorOpen, TensorOpenFails, At, UnderWay, Call
<1>2. /\ CopiesTensor /\ IsTensor(Source) /\ ~output.attribute
      /\ \A k \in DOMAIN ended : ended[k].program # "tensor_test"
  BY <1>1, CopyingTensor DEF TensorCalls
<1>3. tensor = DefaultTensor
  BY <1>1, <1>2 DEF TensorInv
<1>4. CASE TensorOpen
  <2>1. /\ Source.readable /\ Source.described /\ step' = "level"
        /\ tensor' = [rank |-> Source.rank, transposed |-> Source.transposed,
                      levels |-> <<JunkLevel>>]
        /\ UNCHANGED <<input, todo, calls, ended, output>>
    BY <1>4 DEF TensorOpen
  <2>2. Source' = Source /\ CopiesTensor' /\ Call' = Call
    BY <1>2, <2>1 DEF CopiesTensor, UnderWay, Program, Call, Source
  <2>3. tensor'.levels = <<JunkLevel>> /\ tensor'.levels \in Seq(Levels)
    <3>1. JunkLevel \in Levels
      BY JunkIsLevel
    <3> HIDE DEF JunkLevel, Levels
    <3>2. QED
      BY <2>1, <3>1
  <2>4. Len(tensor'.levels) = 1 /\ tensor'.levels[1] = JunkLevel
    BY <2>3
  <2>5. LevelsRead' = 0
    BY <2>4 DEF LevelsRead
  <2>6. Len(Source.levels) \in Nat
    BY <1>2, <2>1 DEF IsTensor
  <2>7. SameShape'
    BY <2>1, <2>2 DEF SameShape
  <2>8. TensorReading'
    BY <2>1, <2>2, <2>3, <2>4, <2>5, <2>6, <2>7 DEF TensorReading
  <2>9. QED
    BY <1>1, <1>2, <2>1, <2>2, <2>8, NotYetAccepted DEF TensorInv
<1>5. CASE TensorOpenFails
  <2>1. TensorReturns /\ UNCHANGED <<tensor, output>> /\ faulted' = Source.readable
    BY <1>5 DEF TensorOpenFails, tensorVars
  <2>2. ~Whole'
    BY <1>3, <2>1 DEF Whole, DefaultTensor
  <2>3. ~faulted' => ~Obtainable
    BY <2>1 DEF Obtainable
  <2>4. SparseNamed'
    BY <1>3, <2>1 DEF SparseNamed, DefaultTensor
  <2>5. QED
    BY <1>1, <2>1, <2>2, <2>3, <2>4, TensorIsRead
<1>6. QED
  BY <1>4, <1>5

\* The level that is read next, as the source has it.
LEMMA TensorAtLevel ==
    ASSUME IInv, TensorInv, UnderWay, Call = "tensor_read", step = "level"
    PROVE  /\ TensorReading /\ CopiesTensor /\ ~output.attribute
           /\ IsTensor(Source) /\ IsLevels(Source.levels)
           /\ LevelsRead \in Nat /\ Len(tensor.levels) = LevelsRead + 1
           /\ DepthRead = Depth(Source.levels, LevelsRead + 1)
           /\ tensor.levels # <<>> /\ Last(tensor.levels) = JunkLevel
           /\ ~Whole
           /\ LevelsRead < Len(Source.levels) =>
                 /\ LevelsRead + 1 \in DOMAIN Source.levels
                 /\ Described \in [kind : Kinds, rank : Nat]
                 /\ DepthRead \in Nat
<1>1. TensorReading /\ CopiesTensor /\ ~output.attribute /\ IsTensor(Source)
  BY CopyingTensor DEF TensorCalls, TensorInv
<1>2. IsLevels(Source.levels) /\ Len(Source.levels) \in Nat
  BY <1>1 DEF TensorReading, IsTensor, IsLevels, Kinds
<1>3. LevelsRead \in Nat
  BY <1>1 DEF TensorReading
<1>4. Len(tensor.levels) \in Nat /\ Len(tensor.levels) = LevelsRead + 1
  <2>1. Len(tensor.levels) \in Nat
    BY <1>1 DEF TensorReading
  <2>2. QED
    BY <2>1, <1>3 DEF LevelsRead
<1>5. DepthRead = Depth(Source.levels, LevelsRead + 1)
  <2>1. LevelsRead + 1 \in Nat /\ (LevelsRead + 1) - 1 = LevelsRead
    BY <1>3
  <2>2. \A j \in 1 .. (LevelsRead + 1) - 1 : tensor.levels[j].rank = Source.levels[j].rank
    <3>1. \A j \in 1 .. (LevelsRead + 1) - 1 : tensor.levels[j] = LevelOf(j)
      BY <1>1, <2>1 DEF TensorReading
    <3>2. \A j : LevelOf(j).rank = Source.levels[j].rank
      BY DEF LevelOf, Level
    <3>3. QED
      BY <3>1, <3>2
  <2>3. Depth(tensor.levels, LevelsRead + 1) = Depth(Source.levels, LevelsRead + 1)
    <3> DEFINE s == tensor.levels
               t == Source.levels
               k == LevelsRead + 1
    <3>1. k \in Nat /\ \A j \in 1 .. k - 1 : s[j].rank = t[j].rank
      BY <2>1, <2>2
    <3> HIDE DEF s, t, k
    <3>2. Depth(s, k) = Depth(t, k)
      BY <3>1, DepthSame
    <3>3. QED
      BY <3>2 DEF s, t, k
  <2>4. QED
    BY <2>3 DEF DepthRead
<1>6. Last(tensor.levels) = JunkLevel /\ tensor.levels # <<>>
  BY <1>1, <1>3, <1>4 DEF Last, TensorReading
<1>7. ~Whole
  BY <1>6 DEF Whole, JunkLevel, Level
<1>8. ASSUME LevelsRead < Len(Source.levels)
      PROVE  /\ LevelsRead + 1 \in DOMAIN Source.levels
             /\ Described \in [kind : Kinds, rank : Nat]
             /\ DepthRead \in Nat
  <2>1. LevelsRead + 1 \in 1 .. Len(Source.levels)
    BY <1>2, <1>3, <1>8
  <2> DEFINE R == [kind : Kinds, rank : Nat]
  <2>2. Source.levels \in Seq(R)
    BY <1>2 DEF IsLevels
  <2> HIDE DEF R
  <2>3. LevelsRead + 1 \in DOMAIN Source.levels /\ Source.levels[LevelsRead + 1] \in R
    BY <2>1, <2>2
  <2>4. LevelsRead + 1 \in 1 .. LevelsRead + 1
    BY <1>3
  <2>5. Depth(Source.levels, LevelsRead + 1) \in Nat
    BY <1>2, <2>3, <2>4, DepthAscends
  <2>6. QED
    BY <1>5, <2>3, <2>5 DEF R, Described
<1>9. QED
  BY <1>1, <1>2, <1>3, <1>4, <1>5, <1>6, <1>7, <1>8

LEMMA TensorLevelKeeps == ASSUME IInv, IInv', TensorInv, TensorLevel PROVE TensorInv'
<1>1. /\ UnderWay /\ Call = "tensor_read" /\ step = "level" /\ LevelsRead < Len(Source.levels)
      /\ UNCHANGED <<output, faulted>>
  BY DEF TensorLevel, AtLevel, At, UnderWay, Call
<1> DEFINE n == LevelsRead + 1
           keys == Datasets(Described, DepthRead)
           level == Level(Described.kind, Described.rank, keys)
<1>2. /\ TensorReading /\ CopiesTensor /\ ~output.attribute
      /\ IsTensor(Source) /\ IsLevels(Source.levels)
      /\ LevelsRead \in Nat /\ Len(tensor.levels) = n
      /\ DepthRead = Depth(Source.levels, n)
      /\ n \in DOMAIN Source.levels
      /\ Described \in [kind : Kinds, rank : Nat]
      /\ DepthRead \in Nat
  BY <1>1, TensorAtLevel
<1>3. level \in Levels
  <2>1. keys \in Seq(TensorKeys)
    BY <1>2, DatasetsKeys
  <2>2. Described.kind \in Kinds /\ Described.rank \in Nat
    BY <1>2
  <2> HIDE DEF keys
  <2>3. QED
    BY <2>1, <2>2 DEF Level, Levels
<1>4. DepthRead <= tensor.rank /\ Range(keys) \subseteq Source.datasets
  BY DEF TensorLevel
<1>5. Readable1(n)
  BY <1>2, <1>4 DEF Readable1, TensorReading, SameShape, Described
<1>6. SetLast(level) = [tensor.levels EXCEPT ![n] = level]
  BY <1>2 DEF SetLast, ReplaceAt
<1>7. /\ SetLast(level) \in Seq(Levels) /\ Len(SetLast(level)) = n
      /\ SetLast(level)[n] = level
      /\ \A k \in 1 .. LevelsRead : SetLast(level)[k] = tensor.levels[k]
  <2> HIDE DEF level
  <2>1. tensor.levels \in Seq(Levels) /\ n \in 1 .. n
    BY <1>2 DEF TensorReading
  <2>2. \A k \in 1 .. LevelsRead : k \in 1 .. n /\ k # n
    BY <1>2
  <2> HIDE DEF n
  <2>3. QED
    BY <1>2, <1>3, <1>6, <2>1, <2>2
<1>8. CASE Described.kind = "element"
  <2>1. tensor' = [tensor EXCEPT !.levels = SetLast(level)] /\ TensorReturns
    BY <1>8 DEF TensorLevel
  <2>2. Whole'
    <3>1. tensor'.levels = SetLast(level)
      <4>1. "levels" \in DOMAIN tensor
        BY <1>2 DEF TensorReading
      <4>2. QED
        BY <2>1, <4>1
    <3>2. tensor'.levels # <<>> /\ tensor'.levels[Len(tensor'.levels)] = level
      BY <1>2, <1>7, <3>1
    <3>3. level.kind = "element"
      BY <1>8 DEF Level
    <3>4. QED
      BY <3>2, <3>3 DEF Whole, Last
  <2>3. Obtainable
    <3>1. n = Len(Source.levels)
      BY <1>2, <1>8 DEF IsTensor, IsLevels, Described, TensorReading
    <3>2. \A k \in DOMAIN Source.levels : Readable1(k)
      BY <1>2, <1>5, <3>1 DEF TensorReading, IsLevels
    <3>3. QED
      BY <1>2, <1>8, <3>1, <3>2, ObtainableLevels DEF TensorReading, Described
  <2>4. SameShape'
    <3>1. UNCHANGED input
      BY <2>1 DEF TensorReturns, Return
    <3>2. QED
      BY <1>2, <2>1, <3>1 DEF TensorReading, SameShape, Source
  <2>5. SparseNamed'
    <3>1. UNCHANGED input
      BY <2>1 DEF TensorReturns, Return
    <3>2. tensor'.levels = SetLast(level) /\ DOMAIN SetLast(level) = 1 .. n
      <4>1. "levels" \in DOMAIN tensor
        BY <1>2 DEF TensorReading
      <4>2. QED
        BY <1>2, <1>7, <2>1, <4>1
    <3>3. \A k \in 1 .. n : k \in 1 .. LevelsRead \/ k = n
      BY <1>2
    <3>4. level.kind # "sparse"
      BY <1>8 DEF Level
    <3>5. ASSUME NEW k \in 1 .. LevelsRead, SetLast(level)[k].kind = "sparse" PROVE KeysNamed
      <4>1. tensor.levels[k] = LevelOf(k) /\ k \in DOMAIN Source.levels
        BY <1>2 DEF TensorReading, IsLevels
      <4>2. Source.levels[k].kind = "sparse"
        BY <1>7, <3>5, <4>1 DEF LevelOf, Level
      <4>3. QED
        BY <4>1, <4>2 DEF KeysNamed
    <3>6. KeysNamed' = KeysNamed
      BY <3>1 DEF KeysNamed, Source
    <3> HIDE DEF level
    <3>7. QED
      BY <1>7, <3>2, <3>3, <3>4, <3>5, <3>6 DEF SparseNamed
  <2>6. QED
    BY <1>1, <2>1, <2>2, <2>3, <2>4, <2>5, TensorIsRead
<1>9. CASE Described.kind # "element"
  <2>1. /\ tensor' = [tensor EXCEPT !.levels = Append(SetLast(level), JunkLevel)]
        /\ UNCHANGED <<input, todo, calls, step, ended>>
    BY <1>9 DEF TensorLevel, TensorGo
  <2>2. Source' = Source /\ CopiesTensor' /\ Call' = Call
    BY <1>2, <2>1 DEF CopiesTensor, UnderWay, Program, Call, Source
  <2>3. /\ DOMAIN tensor' = {"rank", "transposed", "levels"}
        /\ tensor'.levels = Append(SetLast(level), JunkLevel)
        /\ tensor'.rank = tensor.rank /\ tensor'.transposed = tensor.transposed
    <3>1. DOMAIN tensor = {"rank", "transposed", "levels"}
      BY <1>2 DEF TensorReading
    <3>2. QED
      BY <2>1, <3>1
  <2>4. JunkLevel \in Levels
    BY JunkIsLevel
  <2>5. /\ tensor'.levels \in Seq(Levels) /\ Len(tensor'.levels) = n + 1
        /\ tensor'.levels[n + 1] = JunkLevel /\ tensor'.levels[n] = level
        /\ \A k \in 1 .. LevelsRead : tensor'.levels[k] = tensor.levels[k]
    <3> DEFINE s == SetLast(level)
    <3>1. /\ s \in Seq(Levels) /\ Len(s) = n /\ s[n] = level /\ n \in 1 .. n
          /\ \A k \in 1 .. LevelsRead : s[k] = tensor.levels[k] /\ k \in 1 .. n
      BY <1>2, <1>7
    <3> HIDE DEF s, level, n
    <3>2. QED
      BY <2>3, <2>4, <3>1, AppendProperties DEF s
  <2>6. LevelsRead' = n /\ n \in 0 .. Len(Source.levels)
    <3>1. n \in 1 .. Len(Source.levels) /\ Len(tensor'.levels) - 1 = n
      BY <1>2, <2>5 DEF IsLevels
    <3>2. QED
      BY <3>1 DEF LevelsRead
  <2>7. Described.kind # "element" /\ level = LevelOf(n)
    BY <1>2, <1>9 DEF LevelOf, Described
  <2>8. \A k \in 1 .. n : /\ tensor'.levels[k] = LevelOf(k)
                          /\ Source.levels[k].kind # "element"
                          /\ Readable1(k)
    <3>1. \A k \in 1 .. LevelsRead : /\ tensor.levels[k] = LevelOf(k)
                                     /\ Source.levels[k].kind # "element"
                                     /\ Readable1(k)
      BY <1>2 DEF TensorReading
    <3>2. \A k \in 1 .. n : k = n \/ k \in 1 .. LevelsRead
      BY <1>2
    <3> HIDE DEF level
    <3>3. QED
      BY <1>5, <2>5, <2>7, <3>1, <3>2 DEF Described
  <2>9. \A k : (Readable1(k)' <=> Readable1(k)) /\ LevelOf(k)' = LevelOf(k)
    BY <2>2 DEF Readable1, LevelOf
  <2>10. TensorReading'
    <3>1. SameShape'
      BY <1>2, <2>2, <2>3 DEF TensorReading, SameShape
    <3>2. Source.readable /\ Source.described
      BY <1>2 DEF TensorReading
    <3> HIDE DEF n, level
    <3>3. QED
      BY <2>2, <2>3, <2>5, <2>6, <2>8, <2>9, <3>1, <3>2 DEF TensorReading
  <2>11. \A k \in DOMAIN ended : ended[k].program # "tensor_test"
    BY <1>1, CopyingTensor DEF TensorCalls
  <2>12. QED
    BY <1>1, <1>2, <2>1, <2>2, <2>10, <2>11, NotYetAccepted DEF TensorInv
<1>10. QED
  BY <1>8, <1>9

\* The levels that were read are the source's.
LEMMA ReadNamed ==
    ASSUME TensorReading, IsTensor(Source), UNCHANGED tensor, TensorReturns
    PROVE  SparseNamed'
<1>1. Source' = Source
  BY DEF TensorReturns, Return, Source
<1>2. LevelsRead \in Nat /\ LevelsRead <= Len(Source.levels) /\ Len(Source.levels) \in Nat
      /\ DOMAIN Source.levels = 1 .. Len(Source.levels)
  BY DEF TensorReading, IsTensor
<1>3. DOMAIN tensor.levels = 1 .. LevelsRead + 1
  <2>1. Len(tensor.levels) \in Nat /\ DOMAIN tensor.levels = 1 .. Len(tensor.levels)
    BY DEF TensorReading
  <2>2. Len(tensor.levels) = LevelsRead + 1
    BY <1>2, <2>1 DEF LevelsRead
  <2>3. QED
    BY <2>1, <2>2
<1>4. ASSUME NEW k \in DOMAIN tensor.levels, tensor.levels[k].kind = "sparse"
      PROVE  KeysNamed
  <2>1. k # LevelsRead + 1
    BY <1>4 DEF TensorReading, JunkLevel, Level
  <2>2. k \in 1 .. LevelsRead /\ k \in DOMAIN Source.levels
    BY <1>2, <1>3, <2>1
  <2>3. Source.levels[k].kind = "sparse"
    <3>1. tensor.levels[k] = LevelOf(k)
      BY <2>2 DEF TensorReading
    <3>2. QED
      BY <1>4, <3>1 DEF LevelOf, Level
  <2>4. QED
    BY <2>2, <2>3 DEF KeysNamed
<1>5. QED
  BY <1>1, <1>4 DEF SparseNamed, KeysNamed

LEMMA TensorLevelFailsKeeps ==
    ASSUME IInv, IInv', TensorInv, TensorLevelFails \/ TensorTooDeep PROVE TensorInv'
<1>1. /\ UnderWay /\ Call = "tensor_read" /\ step = "level" /\ LevelsRead < Len(Source.levels)
      /\ TensorReturns /\ UNCHANGED <<tensor, output>>
  BY DEF TensorLevelFails, TensorTooDeep, AtLevel, At, UnderWay, Call, tensorVars
<1> DEFINE n == LevelsRead + 1
<1>2. /\ TensorReading /\ ~Whole
      /\ IsTensor(Source) /\ IsLevels(Source.levels)
      /\ DepthRead = Depth(Source.levels, n)
      /\ n \in DOMAIN Source.levels
      /\ DepthRead \in Nat
  BY <1>1, TensorAtLevel
<1>3. ~Whole'
  BY <1>1, <1>2 DEF Whole
<1>4. ~faulted' => ~Readable1(n)
  <2>1. CASE TensorLevelFails
    BY <1>2, <2>1 DEF TensorLevelFails, Readable1, Described
  <2>2. CASE TensorTooDeep
    <3>1. DepthRead > tensor.rank /\ tensor.rank = Source.rank /\ Source.rank \in Nat
      BY <1>2, <2>2 DEF TensorTooDeep, TensorReading, SameShape, IsTensor
    <3>2. QED
      BY <1>2, <3>1 DEF Readable1
  <2>3. QED
    BY <2>1, <2>2
<1>5. ~faulted' => ~Obtainable
  BY <1>2, <1>4, ObtainableLevels DEF TensorReading
<1>6. SparseNamed'
  BY <1>1, <1>2, ReadNamed
<1>7. QED
  BY <1>1, <1>3, <1>5, <1>6, TensorIsRead

\* A tensor is whole if all of it could be read, and it can be transposed back.
LEMMA WholeSources ==
    SourceWhole <=> Obtainable /\ (Source.rank = 0 \/ Source.transposed)
BY DEF SourceWhole, Obtainable

LEMMA TensorAssertsKeeps == ASSUME IInv, IInv', TensorInv, TensorAsserts PROVE TensorInv'
<1>1. UnderWay /\ Call = "tensor_read" /\ TensorEnds("abort")
  BY DEF TensorAsserts, At, UnderWay, Call
<1>2. CopiesTensor /\ ~output.attribute /\ IsTensor(Source)
  BY <1>1, CopyingTensor DEF TensorCalls
<1>3. ~Obtainable
  <2>1. CASE Source.readable /\ ~Source.described
    BY <2>1 DEF Obtainable
  <2>2. CASE step = "level" /\ LevelsRead = Len(Source.levels)
    <3>1. TensorReading
      BY <1>1, <2>2, TensorAtLevel
    <3>2. \A k \in DOMAIN Source.levels : Source.levels[k].kind # "element"
      BY <1>2, <2>2, <3>1 DEF TensorReading, IsTensor
    <3>3. QED
      BY <3>2 DEF Obtainable
  <2>3. QED
    BY <2>1, <2>2 DEF TensorAsserts, At
<1>4. ~SourceWhole
  BY <1>3, WholeSources
<1>5. output.attribute = FALSE
  BY <1>2 DEF TensorInv
<1>6. Dies("abort", FALSE) /\ tensor' = DefaultTensor /\ output'.attribute = FALSE
  BY <1>1, <1>5 DEF TensorEnds
<1>7. QED
  BY <1>2, <1>4, <1>6, TensorEndsWell

\* The names of a sparse level's datasets overrun their memory.
LEMMA TensorReadOverrunsKeeps ==
    ASSUME IInv, IInv', TensorInv, TensorReadOverruns PROVE TensorInv'
<1>1. /\ UnderWay /\ Call = "tensor_read" /\ step = "level" /\ LevelsRead < Len(Source.levels)
      /\ TensorEnds("undefined") /\ Described.kind = "sparse"
  BY DEF TensorReadOverruns, AtLevel, At, UnderWay, Call
<1>2. CopiesTensor /\ ~output.attribute /\ LevelsRead + 1 \in DOMAIN Source.levels
  BY <1>1, TensorAtLevel
<1>3. KeysNamed
  BY <1>1, <1>2 DEF Described, KeysNamed
<1>4. output.attribute = FALSE
  BY <1>2 DEF TensorInv
<1>5. Dies("undefined", FALSE) /\ tensor' = DefaultTensor /\ output'.attribute = FALSE
  BY <1>1, <1>4 DEF TensorEnds
<1>6. QED
  BY <1>2, <1>3, <1>5, TensorEndsWell

LEMMA TensorWriteOverrunsKeeps ==
    ASSUME IInv, IInv', TensorInv, TensorWriteOverruns PROVE TensorInv'
<1>1. /\ UnderWay /\ Call = "tensor_write" /\ Dies("undefined", FALSE) /\ PartlyWritten
      /\ tensor' = DefaultTensor
      /\ \E k \in DOMAIN tensor.levels : tensor.levels[k].kind = "sparse"
  BY DEF TensorWriteOverruns, TensorWrites, At, UnderWay, Call
<1>2. CopiesTensor /\ ~output.attribute
  BY <1>1, CopyingTensor DEF TensorCalls
<1>3. KeysNamed
  BY <1>1, <1>2 DEF TensorInv, SparseNamed
<1>4. output'.attribute = FALSE
  <2>1. \A w : OutputOf(w, FALSE).attribute = FALSE
    BY DEF OutputOf
  <2>2. QED
    BY <1>1, <1>2, <2>1 DEF PartlyWritten, TensorInv
<1>5. QED
  BY <1>1, <1>2, <1>3, <1>4, TensorEndsWell

LEMMA TensorWriteKeeps == ASSUME IInv, IInv', TensorInv, TensorWrite PROVE TensorInv'
<1>1. /\ UnderWay /\ Call = "tensor_write" /\ step = "start" /\ TensorReturns /\ Whole
      /\ tensor.rank = 0 \/ tensor.transposed
      /\ UNCHANGED tensor
  BY DEF TensorWrite, TensorWrites, At, UnderWay, Call
<1>2. CopiesTensor /\ faulted \in BOOLEAN
      /\ (\A k \in DOMAIN ended : ended[k].program # "tensor_test")
  BY <1>1, CopyingTensor DEF TensorCalls
<1>3. /\ calls' = Tail(calls) /\ step' = "start" /\ UNCHANGED <<input, todo, ended>>
  BY <1>1 DEF TensorReturns, Return
<1>4. UnderWay' /\ Program' = Program /\ <<Program, Call, Call'>> \in Succession
  BY <1>1, <1>3, NextCall DEF IInv
<1>5. CopiesTensor' /\ Call' = "tensor_finish"
  BY <1>1, <1>2, <1>4 DEF CopiesTensor, Succession
<1>6. output'.attribute \in BOOLEAN /\ (~faulted' => ~faulted /\ output'.attribute)
  <2>1. \A w, a : OutputOf(w, a).attribute = a
    BY DEF OutputOf
  <2>2. CASE UNCHANGED faulted /\ \E w : output' = OutputOf(w, TRUE)
    BY <2>1, <2>2
  <2>3. CASE faulted' = TRUE /\ (UNCHANGED output \/ \E w : output' = OutputOf(w, FALSE))
    <3>1. output'.attribute \in BOOLEAN
      BY <2>1, <2>3 DEF TensorInv
    <3>2. QED
      BY <2>3, <3>1
  <2>4. QED
    BY <2>2, <2>3 DEF TensorWrite, PartlyWritten
<1>7. ~faulted => SourceWhole
  <2>1. SUFFICES ASSUME ~faulted PROVE SourceWhole
    OBVIOUS
  <2>2. Obtainable /\ SameShape
    BY <1>1, <1>2, <2>1 DEF TensorInv
  <2>3. QED
    BY <1>1, <2>2, WholeSources DEF SameShape
<1>8. SourceWhole' = SourceWhole
  BY <1>3 DEF SourceWhole, SourceKeys, Source
<1>9. QED
  BY <1>2, <1>3, <1>5, <1>6, <1>7, <1>8, NotYetAccepted DEF TensorInv

LEMMA TensorWriteFailsKeeps ==
    ASSUME IInv, IInv', TensorInv, TensorWriteFails PROVE TensorInv'
<1>1. UnderWay /\ Call = "tensor_write" /\ step = "start"
  BY DEF TensorWriteFails, At, UnderWay, Call
<1>2. CopiesTensor /\ output.attribute = FALSE /\ IsTensor(Source)
  <2>1. CopiesTensor /\ ~output.attribute /\ IsTensor(Source)
    BY <1>1, CopyingTensor DEF TensorCalls
  <2>2. QED
    BY <2>1 DEF TensorInv
<1>3. ~Whole \/ (tensor.rank > 0 /\ ~tensor.transposed)
  BY DEF TensorWriteFails, Whole
<1>4. ~faulted => ~SourceWhole
  <2>1. ASSUME ~faulted, Obtainable PROVE ~(Source.rank = 0 \/ Source.transposed)
    <3>1. Whole /\ SameShape
      BY <1>1, <1>2, <2>1 DEF TensorInv
    <3>2. tensor.rank > 0 /\ ~tensor.transposed
      BY <1>3, <3>1
    <3>3. QED
      BY <3>1, <3>2 DEF SameShape
  <2>2. QED
    BY <2>1, WholeSources
<1>5. PICK how \in {"abort", "crash", "undefined"} : TensorEnds(how)
  BY DEF TensorWriteFails
<1>6. Dies(how, FALSE) /\ tensor' = DefaultTensor /\ output'.attribute = FALSE
  BY <1>2, <1>5 DEF TensorEnds
<1>7. QED
  BY <1>2, <1>4, <1>5, <1>6, TensorEndsWell

LEMMA TensorDestroyKeeps == ASSUME IInv, IInv', TensorInv, TensorDestroy PROVE TensorInv'
<1>1. UnderWay /\ Call = "tensor_finish" /\ TensorEnds("exit 0")
  BY DEF TensorDestroy, At, UnderWay, Call
<1>2. CopiesTensor
  BY <1>1, CopyingTensor DEF TensorCalls
<1>3. ~faulted => SourceWhole /\ output.attribute = TRUE
  BY <1>1, <1>2 DEF TensorInv
<1>4. /\ Dies("exit 0", FALSE) /\ tensor' = DefaultTensor
      /\ output' = output /\ output.attribute \in BOOLEAN
  BY <1>1 DEF TensorEnds, TensorInv
<1>5. QED
  BY <1>2, <1>3, <1>4, TensorEndsWell

LEMMA NextTensor == ASSUME IInv, TensorInv, [Next]_vars PROVE TensorInv'
<1>1. IInv'
  BY NextIInv
<1>2. CASE MatrixNext /\ UNCHANGED tensorVars
  BY <1>1, <1>2, MatrixKeepsTensor
<1>3. CASE TensorOpen \/ TensorOpenFails
  BY <1>1, <1>3, TensorOpens
<1>4. CASE TensorAsserts
  BY <1>1, <1>4, TensorAssertsKeeps
<1>5. CASE TensorLevel
  BY <1>1, <1>5, TensorLevelKeeps
<1>6. CASE TensorLevelFails \/ TensorTooDeep
  BY <1>1, <1>6, TensorLevelFailsKeeps
<1>7. CASE TensorWrite
  BY <1>1, <1>7, TensorWriteKeeps
<1>8. CASE TensorWriteFails
  BY <1>1, <1>8, TensorWriteFailsKeeps
<1>9. CASE TensorDestroy
  BY <1>1, <1>9, TensorDestroyKeeps
<1>10. CASE UNCHANGED vars
  <2>1. UNCHANGED <<programVars, tensor, output, input, todo, calls, step, faulted, ended>>
    BY <1>10 DEF vars, programVars, tensorVars
  <2>2. UNCHANGED <<CopiesTensor, Call, Source>>
    BY <2>1 DEF CopiesTensor, UnderWay, Program, Call, Source
  <2>3. UNCHANGED <<TensorReading, Whole, SameShape, Obtainable, SourceWhole, SparseNamed,
                    TensorAccepted>>
    BY <2>1 DEF TensorReading, Whole, SameShape, Obtainable, SourceWhole, SparseNamed, KeysNamed,
       TensorAccepted, SourceKeys, Readable1, LevelOf, LevelsRead, Source
  <2>4. QED
    BY <2>1, <2>2, <2>3 DEF TensorInv
<1>11. CASE TensorReadOverruns
  BY <1>1, <1>11, TensorReadOverrunsKeeps
<1>12. CASE TensorWriteOverruns
  BY <1>1, <1>12, TensorWriteOverrunsKeeps
<1>13. QED
  BY <1>2, <1>3, <1>4, <1>5, <1>6, <1>7, <1>8, <1>9, <1>10, <1>11, <1>12 DEF Next, TensorNext

--------------------------------------------------------------------------------
(* tensor_test: what it writes is what it has read. *)

\* The tensor has the levels of the source.
Taken ==
    /\ Source.readable
    /\ tensor.levels \in Seq(Levels) /\ Len(tensor.levels) = Len(Source.levels)
    /\ \A k \in DOMAIN Source.levels : tensor.levels[k] = LevelOf(k)

CopyInv ==
    /\ CopiesTensor /\ Call = "tensor_write" /\ Whole => Taken
    /\ TensorCopied

LEMMA CopiedStays ==
    ASSUME TensorCopied, UNCHANGED <<input, output>> PROVE TensorCopied'
BY DEF TensorCopied, SourceKeys, Source

\* Whatever ends, what comes next is no write of a tensor.
LEMMA EndCopies ==
    ASSUME IInv, IInv', CopyInv, UnderWay, NEW how \in Ends, NEW failed \in BOOLEAN,
           End(how, failed), UNCHANGED output
    PROVE  CopyInv'
<1>1. UNCHANGED input /\ (UnderWay' => Call' \in FirstCalls)
  BY AfterEnd
<1>2. ASSUME CopiesTensor' PROVE Call' = "tensor_read"
  <2>1. (IInv /\ CopiesTensor /\ Call \in FirstCalls)'
    BY <1>1, <1>2 DEF CopiesTensor
  <2>2. (Call = "tensor_read")'
    BY <2>1, TensorFirst, PTL
  <2>3. QED
    BY <2>2
<1>3. QED
  BY <1>1, <1>2, CopiedStays DEF CopyInv

\* bsp_read_tensor returns, with a whole tensor or not.
LEMMA ReadCopies ==
    ASSUME IInv, CopyInv, UnderWay, Call = "tensor_read", TensorReturns, UNCHANGED output,
           Whole' => Taken'
    PROVE  CopyInv'
<1>1. UNCHANGED input
  BY DEF TensorReturns, Return
<1>2. QED
  BY <1>1, CopiedStays DEF CopyInv

LEMMA MatrixCopies ==
    ASSUME IInv, IInv', CopyInv, MatrixNext, UNCHANGED tensorVars PROVE CopyInv'
<1>1. UNCHANGED <<tensor, output>>
  BY DEF tensorVars
<1>2. CASE UNCHANGED programVars
  <2>1. UNCHANGED <<input, todo, calls>>
    BY <1>2 DEF programVars
  <2>2. UNCHANGED <<CopiesTensor, Call, Whole, Taken>>
    BY <1>1, <2>1 DEF CopiesTensor, UnderWay, Program, Call, Whole, Taken, LevelOf, Source
  <2>3. QED
    BY <1>1, <2>1, <2>2, CopiedStays DEF CopyInv
<1>3. CASE UnderWay /\ Program # "tensor_test" /\ UNCHANGED <<input, todo, ended>>
  <2>1. ~CopiesTensor'
    BY <1>3 DEF CopiesTensor, Program
  <2>2. QED
    BY <1>1, <1>3, <2>1, CopiedStays DEF CopyInv
<1>4. ASSUME UnderWay, NEW how \in Ends, NEW failed \in BOOLEAN, End(how, failed)
      PROVE  CopyInv'
  BY <1>1, <1>4, EndCopies
<1>5. QED
  BY <1>2, <1>3, <1>4, MatrixSteps

LEMMA LevelCopies == ASSUME IInv, IInv', TensorInv, CopyInv, TensorLevel PROVE CopyInv'
<1>1. /\ UnderWay /\ Call = "tensor_read" /\ step = "level" /\ LevelsRead < Len(Source.levels)
      /\ UNCHANGED output
  BY DEF TensorLevel, AtLevel, At, UnderWay, Call
<1> DEFINE n == LevelsRead + 1
           keys == Datasets(Described, DepthRead)
           level == Level(Described.kind, Described.rank, keys)
<1>2. /\ TensorReading /\ IsTensor(Source)
      /\ LevelsRead \in Nat /\ Len(tensor.levels) = n
      /\ DepthRead = Depth(Source.levels, n)
      /\ n \in DOMAIN Source.levels
      /\ Described \in [kind : Kinds, rank : Nat]
      /\ DepthRead \in Nat
  BY <1>1, TensorAtLevel
<1>3. level \in Levels
  <2>1. keys \in Seq(TensorKeys)
    BY <1>2, DatasetsKeys
  <2>2. Described.kind \in Kinds /\ Described.rank \in Nat
    BY <1>2
  <2> HIDE DEF keys
  <2>3. QED
    BY <2>1, <2>2 DEF Level, Levels
<1>4. level = LevelOf(n)
  BY <1>2 DEF LevelOf, Described
<1>5. SetLast(level) = [tensor.levels EXCEPT ![n] = level]
  BY <1>2 DEF SetLast, ReplaceAt
<1>6. CASE Described.kind = "element"
  <2>1. tensor' = [tensor EXCEPT !.levels = SetLast(level)] /\ TensorReturns
    BY <1>6 DEF TensorLevel
  <2>2. tensor'.levels = [tensor.levels EXCEPT ![n] = level]
    <3>1. "levels" \in DOMAIN tensor
      BY <1>2 DEF TensorReading
    <3>2. QED
      BY <1>5, <2>1, <3>1
  <2>3. n = Len(Source.levels) /\ DOMAIN Source.levels = 1 .. n /\ Source.readable
    BY <1>2, <1>6 DEF IsTensor, Described, TensorReading
  <2>4. /\ tensor'.levels \in Seq(Levels) /\ Len(tensor'.levels) = n
        /\ \A k \in 1 .. n : tensor'.levels[k] = LevelOf(k)
    <3>1. tensor.levels \in Seq(Levels) /\ \A k \in 1 .. LevelsRead : tensor.levels[k] = LevelOf(k)
      BY <1>2 DEF TensorReading
    <3>2. n \in Nat /\ n \in 1 .. n /\ Len(tensor.levels) = n
          /\ \A k \in 1 .. n : k = n \/ (k \in 1 .. LevelsRead /\ k # n)
      BY <1>2
    <3> HIDE DEF level, n
    <3>3. tensor'.levels \in Seq(Levels) /\ Len(tensor'.levels) = n
      BY <1>3, <2>2, <3>1, <3>2
    <3>4. \A k \in 1 .. n : tensor'.levels[k] = IF k = n THEN level ELSE tensor.levels[k]
      BY <2>2, <3>1, <3>2
    <3>5. QED
      BY <1>4, <3>1, <3>2, <3>3, <3>4
  <2>5. UNCHANGED input
    BY <2>1 DEF TensorReturns, Return
  <2>6. Taken'
    <3>1. Source' = Source /\ \A k : LevelOf(k)' = LevelOf(k)
      BY <2>5 DEF LevelOf, Source
    <3> HIDE DEF level, n
    <3>2. QED
      BY <2>3, <2>4, <3>1 DEF Taken
  <2>7. QED
    BY <1>1, <2>1, <2>6, ReadCopies
<1>7. CASE Described.kind # "element"
  <2>1. UNCHANGED <<input, calls>>
    BY <1>7 DEF TensorLevel, TensorGo
  <2>2. Call' # "tensor_write"
    BY <1>1, <2>1 DEF Call
  <2>3. QED
    BY <1>1, <2>1, <2>2, CopiedStays DEF CopyInv
<1>8. QED
  BY <1>6, <1>7

\* Each array of a level that was read is written under its own key.
LEMMA LevelWritten ==
    ASSUME Taken, IsTensor(Source), NEW k \in DOMAIN Source.levels,
           Source.levels[k].kind # "element"
    PROVE  /\ WritesOf(k) \in Seq(TensorKeys \X TensorKeys)
           /\ Range(WritesOf(k)) =
                 {<<key, key>> : key \in Range(Datasets(Source.levels[k], Depth(Source.levels, k)))}
<1> DEFINE s == Source.levels
           d == Depth(s, k)
           keys == Datasets(s[k], d)
<1>1. IsLevels(s) /\ k \in 1 .. Len(s) /\ Len(s) \in Nat
  BY DEF IsTensor, IsLevels, Kinds, Taken
<1>2. s[k] \in [kind : Kinds, rank : Nat]
  <2> DEFINE R == [kind : Kinds, rank : Nat]
  <2>1. s \in Seq(R)
    BY <1>1 DEF IsLevels
  <2> HIDE DEF R
  <2>2. s[k] \in R
    BY <2>1
  <2>3. QED
    BY <2>2 DEF R
<1>3. d \in Nat
  BY <1>1, DepthAscends
<1>4. keys \in Seq(TensorKeys)
  BY <1>2, <1>3, DatasetsKeys
<1>5. tensor.levels[k].kind = s[k].kind /\ tensor.levels[k].rank = s[k].rank
      /\ tensor.levels[k].arrays = keys
  <2>1. tensor.levels[k] = LevelOf(k)
    BY DEF Taken
  <2>2. LevelOf(k) = Level(s[k].kind, s[k].rank, keys)
    BY DEF LevelOf
  <2> HIDE DEF keys
  <2>3. QED
    BY <2>1, <2>2 DEF Level
<1>6. Depth(tensor.levels, k) = d
  <2>1. \A j \in 1 .. k - 1 : tensor.levels[j].rank = s[j].rank
    <3>1. \A j \in 1 .. k - 1 : tensor.levels[j] = LevelOf(j)
      BY <1>1 DEF Taken
    <3>2. \A j : LevelOf(j).rank = s[j].rank
      BY DEF LevelOf, Level
    <3>3. QED
      BY <3>1, <3>2
  <2> DEFINE t == tensor.levels
  <2>2. k \in Nat /\ \A j \in 1 .. k - 1 : t[j].rank = s[j].rank
    BY <1>1, <2>1
  <2> HIDE DEF s, t
  <2>3. Depth(t, k) = Depth(s, k)
    BY <2>2, DepthSame
  <2>4. QED
    BY <2>3 DEF t
<1>7. CASE s[k].kind = "dense"
  <2>1. keys = <<>> /\ WritesOf(k) = <<>>
    BY <1>5, <1>7 DEF Datasets, WritesOf
  <2>2. Range(keys) = {}
    BY <2>1 DEF Range
  <2>3. Range(WritesOf(k)) = {}
    BY <2>1 DEF Range
  <2> HIDE DEF keys
  <2>4. QED
    BY <2>1, <2>2, <2>3 DEF keys
<1>8. CASE s[k].kind = "sparse"
  <2>1. WrittenKeys(tensor.levels[k], d) = keys
    <3>1. Indices(tensor.levels[k], d) = Indices(s[k], d)
      BY <1>5 DEF Indices
    <3> DEFINE x == Indices(s[k], d)
               r == s[k].rank
    <3>2. r \in Nat
      BY <1>2
    <3>3. x \in Seq(TensorKeys) /\ Len(x) = r
      <4>1. x = [i \in 1 .. r |-> <<"indices", d + i - 1>>]
        BY DEF Indices
      <4>2. \A i \in 1 .. r : <<"indices", d + i - 1>> \in TensorKeys
        BY <1>3, <3>2 DEF TensorKeys
      <4> HIDE DEF x, r
      <4>3. QED
        BY <3>2, <4>1, <4>2
    <3>4. keys = (IF d = 0 THEN <<>> ELSE <<<<"pointers_to", d>>>>) \o x
      BY <1>8 DEF Datasets
    <3>5. WrittenKeys(tensor.levels[k], d) =
             (IF Len(keys) > r THEN <<<<"pointers_to", d>>>> ELSE <<>>) \o x
      BY <1>5, <3>1 DEF WrittenKeys
    <3> DEFINE p == <<"pointers_to", d>>
               y == <<p>> \o x
    <3>6. <<>> \o x = x
      <4> HIDE DEF x
      <4>1. QED
        BY <3>3
    <3>7. Len(y) = r + 1
      <4>1. p \in TensorKeys
        BY <1>3 DEF TensorKeys
      <4>2. <<p>> \in Seq(TensorKeys) /\ Len(<<p>>) = 1
        BY <4>1
      <4> HIDE DEF x, p, r
      <4>3. Len(<<p>> \o x) = Len(<<p>>) + Len(x)
        BY <3>3, <4>2
      <4>4. QED
        BY <3>2, <3>3, <4>2, <4>3
    <3>8. CASE d = 0
      <4>1. keys = x /\ ~(Len(keys) > r)
        <5>1. keys = x
          BY <3>4, <3>6, <3>8
        <5> HIDE DEF keys, x, r
        <5>2. QED
          BY <3>2, <3>3, <5>1
      <4>2. WrittenKeys(tensor.levels[k], d) = <<>> \o x
        BY <3>5, <4>1
      <4>3. QED
        BY <3>6, <4>1, <4>2
    <3>9. CASE d # 0
      <4>1. keys = y /\ Len(keys) > r
        <5>1. keys = y
          BY <3>4, <3>9
        <5> HIDE DEF keys, y, r
        <5>2. QED
          BY <3>2, <3>7, <5>1
      <4>2. QED
        BY <3>5, <4>1
    <3>10. QED
      BY <3>8, <3>9
  <2>2. WritesOf(k) = [i \in DOMAIN keys |-> <<keys[i], keys[i]>>]
    <3> HIDE DEF s, d, keys
    <3>1. QED
      BY <1>5, <1>6, <1>8, <2>1 DEF WritesOf
  <2> HIDE DEF keys
  <2>3. WritesOf(k) \in Seq(TensorKeys \X TensorKeys)
    BY <1>4, <2>2
  <2>4. Range(WritesOf(k)) = {<<key, key>> : key \in Range(keys)}
    BY <2>2 DEF Range
  <2>5. QED
    BY <2>3, <2>4 DEF keys
<1>9. QED
  BY <1>2, <1>7, <1>8 DEF Kinds

\* With the last level and before any array of it, all has been written.
LEMMA AllWritten ==
    ASSUME Taken, IsTensor(Source), Whole
    PROVE  WrittenUpTo(Len(tensor.levels), 0) = {<<key, key>> : key \in SourceKeys}
<1> DEFINE s == Source.levels
           n == Len(s)
           K(k) == Range(Datasets(s[k], Depth(s, k)))
           v == <<"values", 0>>
<1>1. n \in Nat /\ DOMAIN s = 1 .. n /\ Len(tensor.levels) = n
      /\ \A k \in 1 .. n - 1 : s[k].kind # "element"
  BY DEF IsTensor, Taken
<1>2. n >= 1 /\ tensor.levels[n].kind = "element" /\ Last(tensor.levels) = tensor.levels[n]
  <2>1. tensor.levels # <<>> /\ Last(tensor.levels).kind = "element"
    BY DEF Whole
  <2>2. tensor.levels \in Seq(Levels)
    BY DEF Taken
  <2>3. n # 0
    BY <1>1, <2>1, <2>2, EmptySeq
  <2>4. QED
    BY <1>1, <2>1, <2>3 DEF Last
<1>3. s[n].kind = "element" /\ tensor.levels[n].arrays = <<v>>
  <2>1. tensor.levels[n] = LevelOf(n)
    BY <1>1, <1>2 DEF Taken
  <2>2. tensor.levels[n].kind = s[n].kind
        /\ tensor.levels[n].arrays = Datasets(s[n], Depth(s, n))
    BY <2>1 DEF LevelOf, Level
  <2>3. QED
    BY <1>2, <2>2 DEF Datasets
<1>4. K(n) = {v}
  <2>1. Datasets(s[n], Depth(s, n)) = <<v>>
    BY <1>3 DEF Datasets
  <2>2. Range(<<v>>) = {v}
    BY DEF Range
  <2>3. QED
    BY <2>1, <2>2
<1>5. \A k \in 1 .. n - 1 : Range(WritesOf(k)) = {<<key, key>> : key \in K(k)}
  <2> SUFFICES ASSUME NEW k \in 1 .. n - 1
               PROVE  Range(WritesOf(k)) = {<<key, key>> : key \in K(k)}
    OBVIOUS
  <2>1. k \in DOMAIN s /\ s[k].kind # "element"
    BY <1>1
  <2>2. QED
    BY <2>1, LevelWritten
<1>6. WrittenUpTo(n, 0) = {<<v, v>>} \cup UNION {Range(WritesOf(j)) : j \in 1 .. n - 1}
  <2>1. Last(tensor.levels).arrays[1] = v
    BY <1>2, <1>3
  <2>2. {WritesOf(n)[i] : i \in 1 .. 0} = {}
    OBVIOUS
  <2>3. QED
    BY <2>1, <2>2 DEF WrittenUpTo
<1>7. SourceKeys = {v} \cup UNION {K(k) : k \in 1 .. n - 1}
  <2>1. SourceKeys = UNION {K(k) : k \in 1 .. n}
    BY <1>1 DEF SourceKeys
  <2>2. \A k \in 1 .. n : k = n \/ k \in 1 .. n - 1
    BY <1>1
  <2>3. n \in 1 .. n /\ \A k \in 1 .. n - 1 : k \in 1 .. n
    BY <1>1, <1>2
  <2> HIDE DEF K, n
  <2>4. QED
    BY <1>4, <2>1, <2>2, <2>3
<1> HIDE DEF K, n, v
<1>8. {<<key, key>> : key \in SourceKeys} =
         {<<v, v>>} \cup UNION {{<<key, key>> : key \in K(k)} : k \in 1 .. n - 1}
  BY <1>7
<1>9. UNION {Range(WritesOf(j)) : j \in 1 .. n - 1} =
         UNION {{<<key, key>> : key \in K(k)} : k \in 1 .. n - 1}
  BY <1>5
<1>10. QED
  BY <1>1, <1>6, <1>8, <1>9

LEMMA WriteCopies == ASSUME IInv, IInv', TensorInv, CopyInv, TensorWrite PROVE CopyInv'
<1>1. /\ UnderWay /\ Call = "tensor_write" /\ step = "start" /\ TensorReturns /\ Whole
      /\ UNCHANGED tensor
  BY DEF TensorWrite, TensorWrites, At, UnderWay, Call
<1>2. CopiesTensor /\ IsTensor(Source) /\ ~output.attribute
  BY <1>1, CopyingTensor DEF TensorCalls
<1>3. /\ calls' = Tail(calls) /\ UNCHANGED <<input, todo, ended>>
  BY <1>1 DEF TensorReturns, Return
<1>4. <<Program, Call, Call'>> \in Succession
  BY <1>1, <1>3, NextCall DEF IInv
<1>5. Call' # "tensor_write"
  BY <1>1, <1>4 DEF Succession
<1>6. Taken
  BY <1>1, <1>2 DEF CopyInv
<1>7. CASE output' = OutputOf(WrittenUpTo(Len(tensor.levels), 0), TRUE)
  <2> DEFINE w == WrittenUpTo(Len(tensor.levels), 0)
  <2>1. w = {<<key, key>> : key \in SourceKeys}
    BY <1>1, <1>2, <1>6, AllWritten
  <2> HIDE DEF w
  <2>2. output'.levels = Source.levels
    <3> DEFINE R == [kind : Kinds, rank : Nat]
               t == [k \in DOMAIN tensor.levels |->
                       [kind |-> tensor.levels[k].kind, rank |-> tensor.levels[k].rank]]
               s == Source.levels
    <3>1. output'.levels = t
      BY <1>7 DEF OutputOf
    <3>2. s \in Seq(R) /\ Len(s) \in Nat /\ DOMAIN s = 1 .. Len(s)
      BY <1>2, <1>6 DEF IsTensor, Kinds, Taken
    <3>3. DOMAIN tensor.levels = DOMAIN s
      BY <1>6, <3>2 DEF Taken
    <3>4. ASSUME NEW k \in DOMAIN s PROVE t[k] = s[k]
      <4>1. tensor.levels[k] = LevelOf(k)
        BY <1>6 DEF Taken
      <4>2. tensor.levels[k].kind = s[k].kind /\ tensor.levels[k].rank = s[k].rank
        BY <4>1 DEF LevelOf, Level
      <4>3. t[k] = [kind |-> s[k].kind, rank |-> s[k].rank]
        BY <3>3, <4>2
      <4>4. s[k] \in R
        <5> HIDE DEF R
        <5>1. QED
          BY <3>2
      <4>5. QED
        BY <4>3, <4>4
    <3>5. t = s
      <4>1. DOMAIN t = 1 .. Len(s)
        BY <3>2, <3>3
      <4>2. s = [k \in 1 .. Len(s) |-> s[k]]
        <5> HIDE DEF R
        <5>1. QED
          BY <3>2
      <4>3. t = [k \in 1 .. Len(s) |-> t[k]]
        BY <3>2, <3>3
      <4> HIDE DEF t
      <4>4. QED
        BY <3>2, <3>4, <4>2, <4>3
    <3>6. QED
      BY <3>1, <3>5
  <2>3. output'.data = [key \in {x[1] : x \in w} |-> (CHOOSE x \in w : x[1] = key)[2]]
    BY <1>7 DEF OutputOf, w
  <2>4. {x[1] : x \in w} = SourceKeys
    <3>1. \A x \in w : x[1] \in SourceKeys
      BY <2>1
    <3>2. \A key \in SourceKeys : <<key, key>> \in w /\ <<key, key>>[1] = key
      BY <2>1
    <3>3. QED
      BY <3>1, <3>2
  <2>5. ASSUME NEW key \in SourceKeys PROVE output'.data[key] = key
    <3>1. <<key, key>> \in w /\ <<key, key>>[1] = key
      BY <2>1
    <3>2. (CHOOSE x \in w : x[1] = key) \in w /\ (CHOOSE x \in w : x[1] = key)[1] = key
      BY <3>1
    <3>3. \A x \in w : x[1] = x[2]
      BY <2>1
    <3>4. QED
      BY <2>3, <2>4, <3>2, <3>3
  <2>6. DOMAIN output'.data = SourceKeys
    BY <2>3, <2>4
  <2>7. SourceKeys' = SourceKeys /\ Source' = Source
    BY <1>3 DEF SourceKeys, Source
  <2>8. TensorCopied'
    BY <2>2, <2>5, <2>6, <2>7 DEF TensorCopied
  <2>9. QED
    BY <1>5, <2>8 DEF CopyInv
<1>8. CASE UNCHANGED output \/ \E w : output' = OutputOf(w, FALSE)
  <2>1. output'.attribute = FALSE
    <3>1. output.attribute = FALSE
      BY <1>2 DEF TensorInv
    <3>2. \A w : OutputOf(w, FALSE).attribute = FALSE
      BY DEF OutputOf
    <3>3. QED
      BY <1>8, <3>1, <3>2
  <2>2. TensorCopied'
    BY <2>1 DEF TensorCopied
  <2>3. QED
    BY <1>5, <2>2 DEF CopyInv
<1>9. QED
  BY <1>7, <1>8 DEF TensorWrite, PartlyWritten

\* A writer that overruns has written no descriptor.
LEMMA OverrunCopies ==
    ASSUME IInv, IInv', TensorInv, CopyInv, TensorWriteOverruns PROVE CopyInv'
<1>1. UnderWay /\ Call = "tensor_write" /\ PartlyWritten /\ End("undefined", FALSE)
      /\ tensor' = DefaultTensor
  BY DEF TensorWriteOverruns, TensorWrites, Dies, At, UnderWay, Call
<1>2. output.attribute = FALSE
  BY <1>1, CopyingTensor DEF TensorCalls, TensorInv
<1>3. output'.attribute = FALSE
  <2>1. \A w : OutputOf(w, FALSE).attribute = FALSE
    BY DEF OutputOf
  <2>2. QED
    BY <1>1, <1>2, <2>1 DEF PartlyWritten
<1>4. TensorCopied' /\ ~Whole'
  BY <1>1, <1>3 DEF TensorCopied, Whole, DefaultTensor
<1>5. QED
  BY <1>4 DEF CopyInv

LEMMA NextCopies == ASSUME IInv, TensorInv, CopyInv, [Next]_vars PROVE CopyInv'
<1>1. IInv'
  BY NextIInv
<1>2. CASE MatrixNext /\ UNCHANGED tensorVars
  BY <1>1, <1>2, MatrixCopies
<1>3. CASE TensorOpen
  <2>1. UNCHANGED <<input, calls, output>> /\ Call = "tensor_read"
    BY <1>3 DEF TensorOpen, At, Call
  <2>2. Call' # "tensor_write"
    BY <2>1 DEF Call
  <2>3. QED
    BY <2>1, <2>2, CopiedStays DEF CopyInv
<1>4. CASE TensorOpenFails
  <2>1. /\ UnderWay /\ Call = "tensor_read" /\ step = "start" /\ TensorReturns
        /\ UNCHANGED <<tensor, output>>
    BY <1>4 DEF TensorOpenFails, At, UnderWay, Call, tensorVars
  <2>2. CopiesTensor
    BY <2>1, CopyingTensor DEF TensorCalls
  <2>3. ~Whole'
    BY <2>1, <2>2 DEF TensorInv, Whole, DefaultTensor
  <2>4. QED
    BY <2>1, <2>3, ReadCopies
<1>5. CASE TensorLevel
  BY <1>1, <1>5, LevelCopies
<1>6. CASE TensorLevelFails \/ TensorTooDeep
  <2>1. /\ UnderWay /\ Call = "tensor_read" /\ step = "level" /\ TensorReturns
        /\ UNCHANGED <<tensor, output>>
    BY <1>6 DEF TensorLevelFails, TensorTooDeep, AtLevel, At, UnderWay, Call, tensorVars
  <2>2. ~Whole'
    BY <2>1, TensorAtLevel DEF Whole
  <2>3. QED
    BY <2>1, <2>2, ReadCopies
<1>7. CASE TensorWrite
  BY <1>1, <1>7, WriteCopies
<1>8. CASE TensorAsserts \/ TensorReadOverruns \/ TensorWriteFails \/ TensorDestroy
  <2>1. UnderWay
    BY <1>8 DEF TensorAsserts, TensorReadOverruns, TensorWriteFails, TensorDestroy, AtLevel, At,
       UnderWay
  <2>2. \E how \in Ends : End(how, FALSE) /\ UNCHANGED output
    BY <1>8 DEF TensorAsserts, TensorReadOverruns, TensorWriteFails, TensorDestroy, TensorEnds,
       Dies, Ends
  <2>3. QED
    BY <1>1, <2>1, <2>2, EndCopies
<1>9. CASE UNCHANGED vars
  <2>1. UNCHANGED <<input, todo, calls, tensor, output>>
    BY <1>9 DEF vars, programVars, tensorVars
  <2>2. UNCHANGED <<CopiesTensor, Call, Whole, Taken>>
    BY <2>1 DEF CopiesTensor, UnderWay, Program, Call, Whole, Taken, LevelOf, Source
  <2>3. QED
    BY <2>1, <2>2, CopiedStays DEF CopyInv
<1>10. CASE TensorWriteOverruns
  BY <1>1, <1>10, OverrunCopies
<1>11. QED
  BY <1>2, <1>3, <1>4, <1>5, <1>6, <1>7, <1>8, <1>9, <1>10 DEF Next, TensorNext

--------------------------------------------------------------------------------
(* Theorems. *)

\* The inductive invariant holds in every state of every session: which calls a
\* program still has to make, what is allocated before each step of them, and what
\* the programs that have ended made of the file.
THEOREM SessionInvariant == Spec => []IInv
<1>1. Init => IInv
  BY InitIInv
<1>2. IInv /\ [Next]_vars => IInv'
  BY NextIInv
<1>3. QED
  BY <1>1, <1>2, PTL DEF Spec

\* bsp_read_matrix and bsp_read_matrix_parallel leave the caller the arrays of the
\* matrix and nothing else when they succeed; when they fail they leave what is
\* wrong of type, and the descriptor as the error says; programs that end as they
\* should have freed everything, but for the matrix bsp2mtx has converted.
THEOREM ReadsOwnTheirMemory == Spec => []ReadOwnership
<1>1. IInv => ReadOwnership
  <2> SUFFICES ASSUME IInv PROVE ReadOwnership
    OBVIOUS
  <2>1. ASSUME step \in Errors, Head(calls) # "write" PROVE ErrorInv
    <3>1. UnderWay /\ Call \in Reads
      BY <2>1 DEF IInv, StateInv, Reads, Call
    <3>2. QED
      BY <2>1, <3>1 DEF IInv, ReadInv
  <2>2. ASSUME todo # <<>>, Head(calls) \in {"to_coo", "compare"} PROVE live = Pointed(matrix)
    BY <2>2 DEF IInv, HoldInv, UnderWay, Call
  <2>3. ASSUME NEW k \in DOMAIN ended, ended[k].how = "exit 0", ended[k].clean
        PROVE  ended[k].left = IF ended[k].program = "bsp2mtx" /\ file.m.format = "CSR"
                               THEN {"source"} ELSE {}
    BY <2>3 DEF IInv, EndedInv, Settled
  <2>4. QED
    BY <2>1, <2>2, <2>3 DEF ReadOwnership, ErrorInv
<1>2. QED
  BY <1>1, SessionInvariant, PTL

\* What the parallel reader makes of a file when the serial one makes something
\* else of it.
LEMMA OutcomesDiffer ==
    ASSUME Outcome("read") # Outcome("read_parallel")
    PROVE  /\ Outcome("read") = "BSP_CHECK"
           /\ Outcome("read_parallel") = ParallelEnd
<1> DEFINE ignored == {"unknown_format", "nnz_type", "data_types_type"}
<1>1. ~Asserts("read")
  BY DEF Asserts
<1>2. Opens
  BY DEF Outcome, Accepts
<1>3. /\ Describes("read") <=> DescriptorError({}) = "SUCCESS"
      /\ Describes("read_parallel") <=>
            ~Asserts("read_parallel") /\ DescriptorError(ignored) = "SUCCESS"
  BY <1>1 DEF Describes, Ignored
<1>4. ASSUME Describes("read") PROVE FALSE
  <2>1. file.flaw \notin Early \cup Refused /\ VersionError(file.version) = "SUCCESS"
    BY <1>3, <1>4 DEF DescriptorError
  <2>2. file.flaw # "format_type"
    BY <2>1 DEF Refused
  <2>3. ~Asserts("read_parallel")
    BY <2>1 DEF Asserts, Asserted, Early, Refused
  <2>4. Describes("read_parallel")
    BY <1>3, <2>1, <2>3 DEF DescriptorError
  <2>5. (Accepts("read") <=> Accepts("read_parallel"))
        /\ (Crashes("read") <=> Crashes("read_parallel"))
    BY <1>4, <2>2, <2>4 DEF Accepts, Crashes
  <2>6. QED
    BY <1>1, <2>3, <2>5 DEF Outcome
<1>5. Outcome("read") = "BSP_CHECK"
  <2>1. ~Accepts("read") /\ ~Crashes("read")
    BY <1>4 DEF Accepts, Crashes
  <2>2. QED
    BY <1>1, <2>1 DEF Outcome
<1>6. CASE Asserts("read_parallel")
  <2>1. file.flaw \in Asserted /\ Outcome("read_parallel") = "abort"
    BY <1>2, <1>6 DEF Asserts, Outcome
  <2>2. QED
    BY <1>5, <2>1 DEF Asserted, ParallelEnd
<1>7. CASE ~Asserts("read_parallel") /\ file.flaw = "format_type"
  <2>1. DescriptorError(ignored) # "SUCCESS"
    BY <1>7 DEF DescriptorError, Refused
  <2>2. ~Accepts("read_parallel")
    BY <1>3, <2>1 DEF Accepts
  <2>3. Outcome("read_parallel") = "crash"
    BY <1>5, <1>7, <2>2 DEF Outcome
  <2>4. QED
    BY <1>5, <1>7, <2>3 DEF ParallelEnd
<1>8. CASE ~Asserts("read_parallel") /\ file.flaw # "format_type"
  <2>1. DescriptorError(ignored) = "SUCCESS"
    <3>1. SUFFICES ASSUME ~Describes("read_parallel") PROVE FALSE
      BY <1>3
    <3>2. ~Accepts("read_parallel") /\ ~Crashes("read_parallel")
      BY <1>8, <3>1 DEF Accepts, Crashes
    <3>3. QED
      BY <1>5, <1>8, <3>2 DEF Outcome
  <2>2. file.flaw \in ignored
    BY <1>3, <1>4, <2>1 DEF DescriptorError
  <2>3. ~Crashes("read_parallel")
    BY <2>2 DEF Crashes
  <2>4. Outcome("read_parallel") = "exit 0"
    BY <1>5, <1>8, <2>3 DEF Outcome
  <2>5. QED
    BY <1>5, <2>2, <2>4 DEF ParallelEnd
<1>9. QED
  BY <1>6, <1>7, <1>8

\* benchmark_read and benchmark_read_parallel, where nothing has failed, end alike on
\* the same file, unless the serial reader returns BSP_ERROR_FORMAT and the parallel
\* one accepts a format it does not know, a number of entries or a data_types of the
\* wrong type, crashes on a format that is no string or fails an assertion.
THEOREM ReadersAgreeOnFiles == Spec => []ReadersAgree
<1>1. IInv => ReadersAgree
  <2> SUFFICES ASSUME IInv,
                      NEW a \in DOMAIN ended, NEW b \in DOMAIN ended,
                      ended[a].program = "benchmark_read", ended[a].clean,
                      ended[b].program = "benchmark_read_parallel", ended[b].clean,
                      ended[a].how # ended[b].how
               PROVE  /\ ended[a].how = "BSP_CHECK"
                      /\ ended[b].how = ParallelEnd
    BY DEF ReadersAgree
  <2>1. ended[a].how = Outcome("read") /\ ended[b].how = Outcome("read_parallel")
    BY DEF IInv, EndedInv, Settled
  <2>2. QED
    BY <2>1, OutcomesDiffer
<1>2. QED
  BY <1>1, SessionInvariant, PTL

\* A sequence whose elements are the last of another is a suffix of it.
LEMMA RestIsSuffix ==
    ASSUME NEW S, NEW c \in Seq(S), NEW s \in Seq(S), Len(c) \in 1 .. Len(s),
           \A k \in 1 .. Len(c) : c[k] = s[Len(s) - Len(c) + k]
    PROVE  IsSuffix(c, s)
<1> DEFINE m == Len(c)
           n == Len(s)
<1>1. m \in Nat /\ n \in Nat /\ m <= n
  OBVIOUS
<1>2. /\ Reverse(c) = [i \in 1 .. m |-> c[(m - i) + 1]]
      /\ Reverse(s) = [i \in 1 .. n |-> s[(n - i) + 1]]
  BY DEF Reverse
<1>3. Len(Reverse(c)) = m /\ Len(Reverse(s)) = n /\ Reverse(c) \in Seq(S) /\ Reverse(s) \in Seq(S)
  <2>1. \A i \in 1 .. m : c[(m - i) + 1] \in S
    OBVIOUS
  <2>2. \A i \in 1 .. n : s[(n - i) + 1] \in S
    OBVIOUS
  <2>3. QED
    BY <1>1, <1>2, <2>1, <2>2
<1>4. \A i \in 1 .. m : Reverse(c)[i] = Reverse(s)[i]
  <2> SUFFICES ASSUME NEW i \in 1 .. m PROVE Reverse(c)[i] = Reverse(s)[i]
    OBVIOUS
  <2>1. (m - i) + 1 \in 1 .. m /\ n - m + ((m - i) + 1) = (n - i) + 1
    BY <1>1
  <2>2. i \in 1 .. n
    BY <1>1
  <2>3. c[(m - i) + 1] = s[(n - i) + 1]
    BY <2>1
  <2>4. QED
    BY <1>2, <2>2, <2>3
<1>5. SubSeq(Reverse(c), 1, m) = SubSeq(Reverse(s), 1, m)
  <2>1. SubSeq(Reverse(c), 1, m) = [i \in 1 .. m |-> Reverse(c)[i]]
    BY <1>1, <1>3
  <2>2. SubSeq(Reverse(s), 1, m) = [i \in 1 .. m |-> Reverse(s)[i]]
    BY <1>1, <1>3
  <2>3. QED
    BY <1>4, <2>1, <2>2
<1>6. QED
  BY <1>1, <1>3, <1>5 DEF IsSuffix, IsPrefix

\* The variables have their types, the calls under way are the rest of the script of
\* the first program that has not ended, and the error of a call is one of a read or
\* a write.
THEOREM ToolsTypeCorrect == Spec => []TypeOK
<1>1. IInv => TypeOK
  <2> SUFFICES ASSUME IInv PROVE TypeOK
    OBVIOUS
  <2>1. ASSUME todo # <<>> PROVE calls # <<>> /\ IsSuffix(calls, Script[Head(todo)])
    <3>1. calls # <<>> /\ Program \in DOMAIN Script
      BY <2>1, CallUnderWay DEF IInv, UnderWay
    <3>2. /\ calls \in Seq(CallNames) /\ Len(calls) \in 1 .. Len(Script[Program])
          /\ \A k \in 1 .. Len(calls) :
                calls[k] = Script[Program][Len(Script[Program]) - Len(calls) + k]
      BY <2>1 DEF IInv, CallsInv, UnderWay
    <3>3. Script[Program] \in Seq(CallNames)
      BY <3>1, Scripts
    <3>4. IsSuffix(calls, Script[Program])
      BY <3>2, <3>3, RestIsSuffix
    <3>5. QED
      BY <3>1, <3>4 DEF Program
  <2>2. ASSUME NEW k \in DOMAIN ended
        PROVE  ended[k].how \in Ends /\ ended[k].program = input.programs[k]
    BY DEF IInv, EndedInv, Settled, SessionInv
  <2>3. step \in Errors => todo # <<>> /\ Head(calls) \in {"read", "read_parallel", "write"}
    BY DEF IInv, StateInv, UnderWay, Call
  <2>4. live \subseteq Blocks /\ faulted \in BOOLEAN
        /\ Len(ended) + Len(todo) = Len(input.programs)
    BY DEF IInv, StateInv, SessionInv
  <2>5. QED
    BY <2>1, <2>2, <2>3, <2>4 DEF TypeOK, Blocks
<1>2. QED
  BY <1>1, SessionInvariant, PTL

\* Without a failure tensor_test copies exactly the whole tensors, and it never
\* reports that it could not read or write.
THEOREM TensorsAccepted == Spec => []TensorAccepted
<1>1. Init => IInv /\ TensorInv
  BY InitIInv, InitTensor
<1>2. IInv /\ TensorInv /\ [Next]_vars => IInv' /\ TensorInv'
  BY NextIInv, NextTensor
<1>3. TensorInv => TensorAccepted
  BY DEF TensorInv
<1>4. QED
  BY <1>1, <1>2, <1>3, PTL DEF Spec

\* A tensor file with a descriptor has the levels of the file that was read, every
\* dataset they name and no other, each the array of its own name.
THEOREM TensorsCopied == Spec => []TensorCopied
<1>1. Init => IInv /\ TensorInv /\ CopyInv
  <2>1. Init => TensorInv /\ IInv
    BY InitIInv, InitTensor
  <2>2. ASSUME Init PROVE CopyInv
    <3>1. tensor = DefaultTensor /\ output.attribute = FALSE
      BY <2>2 DEF Init, TensorInit, NoOutput
    <3>2. ~Whole
      BY <3>1 DEF Whole, DefaultTensor
    <3>3. QED
      BY <3>1, <3>2 DEF CopyInv, TensorCopied
  <2>3. QED
    BY <2>1, <2>2
<1>2. IInv /\ TensorInv /\ CopyInv /\ [Next]_vars => IInv' /\ TensorInv' /\ CopyInv'
  BY NextIInv, NextTensor, NextCopies
<1>3. CopyInv => TensorCopied
  BY DEF CopyInv
<1>4. QED
  BY <1>1, <1>2, <1>3, PTL DEF Spec

================================================================================
