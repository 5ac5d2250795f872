-------------------------- MODULE ConvertMatrix_proofs --------------------------
(******************************************************************************)
(* Proofs about bsp_convert_matrix, for all matrices whose format can be      *)
(* converted, all targets and all allocations that fail: it frees what it     *)
(* allocates and no more; and it keeps the entries of a well-formed matrix    *)
(* whose index types hold what is put into them, each with its own value, in  *)
(* the order of the format asked for.                                         *)
(******************************************************************************)
EXTENDS ConvertMatrix, FiniteSetTheorems, FunctionTheorems, TLAPS

ArrayFields == {"values", "indices_0", "indices_1", "pointers_to_1"}

\* Two matrices that differ in their arrays only.
SameShape(m, n) ==
    /\ m.format = n.format /\ m.nrows = n.nrows /\ m.ncols = n.ncols
    /\ m.nnz = n.nnz /\ m.is_iso = n.is_iso

\* n is m with another array f.
Gives(m, f, v, n) == n = [m EXCEPT ![f] = v]

LEMMA FieldChanged ==
    ASSUME NEW m, IsMatrix(m), NEW f \in ArrayFields, NEW v, NEW n, Gives(m, f, v, n)
    PROVE  /\ IsMatrix(n) /\ SameShape(m, n)
           /\ f = "values" => n.values = v
           /\ f # "values" => n.values = m.values
<1>1. n = [format |-> m.format, nrows |-> m.nrows, ncols |-> m.ncols, nnz |-> m.nnz,
           is_iso |-> m.is_iso, values |-> IF f = "values" THEN v ELSE m.values,
           indices_0 |-> IF f = "indices_0" THEN v ELSE m.indices_0,
           indices_1 |-> IF f = "indices_1" THEN v ELSE m.indices_1,
           pointers_to_1 |-> IF f = "pointers_to_1" THEN v ELSE m.pointers_to_1]
  BY DEF IsMatrix, ArrayFields, Gives
<1>2. QED
  BY <1>1 DEF IsMatrix, SameShape

\* n is m with three other arrays.
Permutes(m, u, v, w, n) == n = [m EXCEPT !.indices_0 = u, !.indices_1 = v, !.values = w]

LEMMA ArraysChanged ==
    ASSUME NEW m, IsMatrix(m), NEW u, NEW v, NEW w, NEW n, Permutes(m, u, v, w, n)
    PROVE  IsMatrix(n) /\ SameShape(m, n) /\ n.values = w
<1>1. n = [format |-> m.format, nrows |-> m.nrows, ncols |-> m.ncols, nnz |-> m.nnz,
           is_iso |-> m.is_iso, values |-> w, indices_0 |-> u, indices_1 |-> v,
           pointers_to_1 |-> m.pointers_to_1]
  BY DEF IsMatrix, Permutes
<1>2. QED
  BY <1>1 DEF IsMatrix, SameShape

\* The default matrix of a format that inherits the shape of m.
LEMMA BlankFields ==
    ASSUME NEW m, IsMatrix(m), NEW f \in {"COOR", "CSR", "CSC"}
    PROVE  /\ IsMatrix(Blank(m, f)) /\ Blank(m, f).format = f
           /\ Blank(m, f).nrows = m.nrows /\ Blank(m, f).ncols = m.ncols
           /\ Blank(m, f).nnz = m.nnz /\ Blank(m, f).is_iso = m.is_iso
<1>1. ASSUME NEW a, NEW d, NEW n,
             n = [m EXCEPT !.format = f, !.values = d, !.indices_0 = a,
                           !.indices_1 = a, !.pointers_to_1 = a]
      PROVE  n = [format |-> f, nrows |-> m.nrows, ncols |-> m.ncols, nnz |-> m.nnz,
                  is_iso |-> m.is_iso, values |-> d, indices_0 |-> a,
                  indices_1 |-> a, pointers_to_1 |-> a]
  <2>1. PICK f1, x1, x2, x3, x4, x5, x6, x7, x8 :
          m = [format |-> f1, nrows |-> x1, ncols |-> x2, nnz |-> x3, is_iso |-> x4,
               values |-> x5, indices_0 |-> x6, indices_1 |-> x7, pointers_to_1 |-> x8]
    BY DEF IsMatrix
  <2>2. QED
    BY <1>1, <2>1
<1>2. Blank(m, f) =
        [format |-> f, nrows |-> m.nrows, ncols |-> m.ncols, nnz |-> m.nnz,
         is_iso |-> m.is_iso, values |-> Absent.data, indices_0 |-> Absent,
         indices_1 |-> Absent, pointers_to_1 |-> Absent]
  BY <1>1 DEF Blank
<1>3. QED
  BY <1>2 DEF IsMatrix

--------------------------------------------------------------------------------
(* What is allocated. *)

\* The arrays that the conversion under way has allocated when it reaches a stage.
HeldToCOOR ==
    LET entries == {"values", "minor", "major"}
    IN  [values |-> {}, minor |-> {"values"}, major |-> {"values", "minor"},
         expand |-> entries, indices |-> entries, sort |-> entries \cup {"indices"},
         rowind |-> entries \cup {"indices"}, colind |-> entries \cup {"indices", "rowind"},
         sorted_values |-> entries \cup {"indices", "rowind", "colind"},
         permute |-> entries \cup {"indices", "rowind", "colind"} \cup
                        (IF matrix.is_iso THEN {} ELSE {"sorted_values"}),
         return |-> entries]
HeldToCSR ==
    LET all == {"values", "minor", "pointers"}
    IN  [values |-> {}, minor |-> {"values"}, pointers |-> {"values", "minor"},
         build |-> all, return |-> all]
HeldToCSC ==
    LET all == {"values", "minor", "pointers"}
    IN  [indices |-> {}, sort |-> {"indices"}, values |-> {"indices"},
         minor |-> {"indices", "values"}, pointers |-> {"indices", "values", "minor"},
         build |-> all \cup {"indices"}, return |-> all]

HeldTo ==
    CASE To = "COOR" -> HeldToCOOR
      [] To = "CSR" -> HeldToCSR
      [] To = "CSC" -> HeldToCSC

\* Those of them that own memory.
Obtained(held) == {a \in held : a = "indices" \/ Elements(a) # 0}

\* What the conversion under way found.
Found ==
    Arrays("origin", origin) \cup
        (IF matrix = origin THEN {} ELSE Arrays("intermediate", matrix))

--------------------------------------------------------------------------------
(* The invariant. *)

\* The matrix that is read is the caller's, or the intermediate one on its way from
\* one compressed format to the other.
SourceInv ==
    /\ IsMatrix(origin) /\ target \in {"COOR", "CSR", "CSC"} \ {origin.format}
    /\ IsMatrix(matrix)
    /\ matrix = origin \/ (/\ matrix.format = "COOR"
                           /\ origin.format # "COOR" /\ target # "COOR")

\* The matrix that is built inherits its shape.
ResultInv ==
    /\ IsMatrix(result) /\ result.format = To
    /\ result.nrows = matrix.nrows /\ result.ncols = matrix.ncols
    /\ result.nnz = matrix.nnz /\ result.is_iso = matrix.is_iso

LoopInv == r \in 0 .. MajorDim /\ c \in 0 .. matrix.nnz

\* While the call runs, its arrays are those its stage says; the result has as
\* many values as the source.
StageInv == stage \in DOMAIN HeldTo /\ (stage = "sorted_values" => ~matrix.is_iso)

ValuesInv ==
    "values" \in HeldTo[stage] => DOMAIN result.values = DOMAIN matrix.values

LiveInv == live = Found \cup ({Owner} \X Obtained(HeldTo[stage]))

RunningInv == outcome = "running" => StageInv /\ ValuesInv /\ LiveInv

OutcomeInv ==
    /\ outcome \in {"running", "ok", "failed", "aborted"}
    /\ outcome = "running" <=> stage # "done"
    /\ NothingLeaks

ConvertInv == SourceInv /\ ResultInv /\ LoopInv /\ RunningInv /\ OutcomeInv

--------------------------------------------------------------------------------
(* Lemmas about it. *)

Formats3 == {"COOR", "CSR", "CSC"}

LEMMA Direction ==
    ASSUME SourceInv
    PROVE  /\ To \in Formats3 /\ To # matrix.format /\ matrix.format \in Formats3
           /\ Owner \in {"result", "intermediate"}
           /\ Owner = "result" <=> To = target
           /\ Owner = "intermediate" =>
                 To = "COOR" /\ target # "COOR" /\ origin.format # "COOR" /\ matrix = origin
           /\ matrix # origin => Owner = "result" /\ To # "COOR"
           /\ matrix.format # target
           /\ MajorDim \in Nat /\ matrix.nnz \in Nat
<1>1. MajorDim \in Nat /\ matrix.nnz \in Nat
  BY DEF SourceInv, IsMatrix, MajorDim
<1>2. QED
  BY <1>1 DEF SourceInv, IsMatrix, To, Owner, Formats3

\* Nothing found is taken for an array of the conversion under way.
LEMMA FoundOwners ==
    ASSUME SourceInv
    PROVE  /\ \A x \in Found : x[1] # Owner
           /\ \A x \in Found : x[1] = "intermediate" \/ x \in Arrays("origin", origin)
           /\ \A x \in Arrays("origin", origin) : x[1] = "origin"
           /\ Arrays("origin", origin) \subseteq Found
           /\ matrix = origin => Found = Arrays("origin", origin)
           /\ matrix # origin => Arrays("intermediate", matrix) \subseteq Found
<1>1. \A x \in Arrays("origin", origin) : x[1] = "origin"
  BY DEF Arrays
<1>2. \A x \in Arrays("intermediate", matrix) : x[1] = "intermediate"
  BY DEF Arrays
<1>3. QED
  BY <1>1, <1>2, Direction DEF Found

\* What does not change while one conversion is under way.
LEMMA Frame ==
    ASSUME UNCHANGED <<origin, target, matrix>>
    PROVE  /\ To' = To /\ Owner' = Owner /\ MajorDim' = MajorDim
           /\ Found' = Found /\ HeldTo' = HeldTo
           /\ \A s : Obtained(s)' = Obtained(s)
           /\ SourceInv => SourceInv'
<1>1. To' = To
  BY DEF To
<1>2. MajorDim' = MajorDim /\ Owner' = Owner
  BY <1>1 DEF MajorDim, Compressed, Owner
<1>3. Found' = Found
  BY DEF Found
<1>4. HeldTo' = HeldTo
  BY <1>1 DEF HeldTo, HeldToCOOR, HeldToCSR, HeldToCSC
<1>5. \A a : Elements(a)' = Elements(a)
  BY <1>2 DEF Elements
<1>6. \A s : Obtained(s)' = Obtained(s)
  BY <1>5 DEF Obtained
<1>7. QED
  BY <1>1, <1>2, <1>3, <1>4, <1>6 DEF SourceInv

\* An allocation of array a, after which the stage holds one more.
LEMMA AllocationStep ==
    ASSUME LiveInv, UNCHANGED <<origin, target, matrix>>, NEW a,
           HeldTo[stage'] = HeldTo[stage] \cup {a},
           \/ a # "indices" /\ Obtain(a)
           \/ a = "indices" /\ live' = live \cup {<<Owner, a>>}
    PROVE  LiveInv'
<1>1. Obtained(HeldTo[stage']) =
        Obtained(HeldTo[stage]) \cup (IF a = "indices" \/ Elements(a) # 0 THEN {a} ELSE {})
  BY DEF Obtained
<1>2. live' = live \cup ({Owner} \X (IF a = "indices" \/ Elements(a) # 0 THEN {a} ELSE {}))
  BY DEF Obtain
<1>3. live' = Found \cup ({Owner} \X Obtained(HeldTo[stage']))
  BY <1>1, <1>2 DEF LiveInv
<1>4. QED
  BY <1>3, Frame DEF LiveInv

\* A step that allocates nothing.
LEMMA OtherStep ==
    ASSUME LiveInv, UNCHANGED <<origin, target, matrix, live>>,
           HeldTo[stage'] = HeldTo[stage]
    PROVE  LiveInv'
  BY Frame DEF LiveInv

\* The arrays held from stage to stage.
LEMMA Holdings ==
    ASSUME To \in Formats3, To # matrix.format, matrix.format \in Formats3,
           matrix.is_iso \in BOOLEAN
    PROVE  /\ "values" \in DOMAIN HeldTo /\ "minor" \in DOMAIN HeldTo
           /\ HeldTo["minor"] = HeldTo["values"] \cup {"values"}
           /\ AfterMinor \in DOMAIN HeldTo
           /\ HeldTo[AfterMinor] = HeldTo["minor"] \cup {"minor"}
           /\ "major" \in DOMAIN HeldTo =>
                 /\ To = "COOR"
                 /\ "expand" \in DOMAIN HeldTo
                 /\ HeldTo["expand"] = HeldTo["major"] \cup {"major"}
           /\ "expand" \in DOMAIN HeldTo =>
                 AfterExpand \in DOMAIN HeldTo /\ HeldTo[AfterExpand] = HeldTo["expand"]
           /\ "indices" \in DOMAIN HeldTo =>
                 /\ "sort" \in DOMAIN HeldTo
                 /\ HeldTo["sort"] = HeldTo["indices"] \cup {"indices"}
           /\ "sort" \in DOMAIN HeldTo =>
                 AfterSort \in DOMAIN HeldTo /\ HeldTo[AfterSort] = HeldTo["sort"]
           /\ "rowind" \in DOMAIN HeldTo =>
                 "colind" \in DOMAIN HeldTo /\ HeldTo["colind"] = HeldTo["rowind"] \cup {"rowind"}
           /\ "colind" \in DOMAIN HeldTo =>
                 /\ AfterColind \in DOMAIN HeldTo
                 /\ HeldTo[AfterColind] = HeldTo["colind"] \cup {"colind"}
           /\ "sorted_values" \in DOMAIN HeldTo /\ ~matrix.is_iso =>
                 /\ "permute" \in DOMAIN HeldTo
                 /\ HeldTo["permute"] = HeldTo["sorted_values"] \cup {"sorted_values"}
           /\ "permute" \in DOMAIN HeldTo =>
                 /\ "return" \in DOMAIN HeldTo
                 /\ HeldTo["return"] = HeldTo["permute"] \ Replaced
                 /\ "values" \in HeldTo["permute"]
           /\ "pointers" \in DOMAIN HeldTo =>
                 /\ "build" \in DOMAIN HeldTo
                 /\ HeldTo["build"] = HeldTo["pointers"] \cup {"pointers"}
           /\ "build" \in DOMAIN HeldTo =>
                 /\ "return" \in DOMAIN HeldTo
                 /\ HeldTo["return"] = HeldTo["build"] \ {"indices"}
           /\ "values" \notin HeldTo["values"]
<1>1. CASE To = "COOR"
  <2>1. HeldTo = HeldToCOOR
    BY <1>1 DEF HeldTo
  <2>2. AfterMinor = "major" /\ AfterSort = "rowind"
    BY <1>1 DEF AfterMinor, AfterSort
  <2>3. AfterExpand \in {"return", "indices"}
    BY DEF AfterExpand
  <2>4. AfterColind \in {"permute", "sorted_values"}
        /\ (AfterColind = "permute" <=> matrix.is_iso)
    BY DEF AfterColind
  <2>5. QED
    BY <1>1, <2>1, <2>2, <2>3, <2>4 DEF HeldToCOOR, Replaced
<1>2. CASE To = "CSR"
  <2>1. HeldTo = HeldToCSR /\ AfterMinor = "pointers"
    BY <1>2 DEF HeldTo, AfterMinor
  <2>2. QED
    BY <1>2, <2>1 DEF HeldToCSR
<1>3. CASE To = "CSC"
  <2>1. HeldTo = HeldToCSC /\ AfterMinor = "pointers" /\ AfterSort = "values"
    BY <1>3 DEF HeldTo, AfterMinor, AfterSort
  <2>2. QED
    BY <1>3, <2>1 DEF HeldToCSC
<1>4. QED
  BY <1>1, <1>2, <1>3 DEF Formats3

\* A step of a conversion under way.
LEMMA RunningStep ==
    ASSUME ConvertInv, stage # "done", stage' # "done",
           UNCHANGED <<origin, target, matrix, outcome>>,
           ResultInv', LoopInv', StageInv', ValuesInv', LiveInv'
    PROVE  ConvertInv'
<1>1. outcome = "running" /\ outcome' = "running"
  BY DEF ConvertInv, OutcomeInv
<1>2. SourceInv'
  BY Frame DEF ConvertInv
<1>3. QED
  BY <1>1, <1>2 DEF ConvertInv, RunningInv, OutcomeInv, NothingLeaks

LEMMA RunningFacts ==
    ASSUME ConvertInv, stage # "done"
    PROVE  /\ SourceInv /\ ResultInv /\ LoopInv /\ StageInv /\ ValuesInv /\ LiveInv
           /\ IsMatrix(result) /\ IsMatrix(matrix) /\ matrix.is_iso \in BOOLEAN
  BY DEF ConvertInv, RunningInv, OutcomeInv, ResultInv, SourceInv, IsMatrix

\* A change of one array of the result, or of none.
LEMMA ResultStep ==
    ASSUME ResultInv, UNCHANGED <<origin, target, matrix>>,
           IsMatrix(result'), SameShape(result, result')
    PROVE  ResultInv'
  BY Frame DEF ResultInv, SameShape

LEMMA SameResult ==
    ASSUME ResultInv, UNCHANGED <<origin, target, matrix, result>>
    PROVE  ResultInv'
  BY Frame DEF ResultInv

LEMMA ValuesStep ==
    ASSUME ValuesInv, UNCHANGED <<origin, target, matrix>>,
           DOMAIN result'.values = DOMAIN result.values,
           "values" \in HeldTo[stage'] => "values" \in HeldTo[stage]
    PROVE  ValuesInv'
  BY Frame DEF ValuesInv

LEMMA LoopStep ==
    ASSUME LoopInv, UNCHANGED <<origin, target, matrix>>,
           r' \in 0 .. MajorDim, c' \in 0 .. matrix.nnz
    PROVE  LoopInv'
  BY Frame DEF LoopInv

LEMMA StageStep ==
    ASSUME UNCHANGED <<origin, target, matrix>>, stage' \in DOMAIN HeldTo,
           stage' = "sorted_values" => ~matrix.is_iso
    PROVE  StageInv'
  BY Frame DEF StageInv

LEMMA CopyValuesStep == ASSUME ConvertInv, CopyValues PROVE ConvertInv'
<1>0. /\ stage = "values" /\ stage' = "minor" /\ Obtain("values")
      /\ UNCHANGED <<origin, target, matrix, indices, r, c, outcome>>
  BY DEF CopyValues
<1>1. /\ SourceInv /\ ResultInv /\ LoopInv /\ StageInv /\ ValuesInv /\ LiveInv
      /\ IsMatrix(result) /\ matrix.is_iso \in BOOLEAN
  BY <1>0, RunningFacts
<1>2. /\ "minor" \in DOMAIN HeldTo
      /\ HeldTo["minor"] = HeldTo["values"] \cup {"values"}
  BY <1>1, Direction, Holdings
<1> DEFINE v == IF To = "CSC" /\ ~matrix.is_iso
                THEN [k \in DOMAIN matrix.values |-> matrix.values[indices[k]]]
                ELSE matrix.values
<1>2a. result' = [result EXCEPT !["values"] = v]
  BY DEF CopyValues
<1>3. result' = [result EXCEPT !["values"] = v] /\ DOMAIN v = DOMAIN matrix.values
  <2>1. DOMAIN v = DOMAIN matrix.values
    OBVIOUS
  <2>2. QED
    BY <1>2a, <2>1
<1> HIDE DEF v
<1>4. IsMatrix(result') /\ SameShape(result, result') /\ result'.values = v
  <2>1. "values" \in ArrayFields /\ Gives(result, "values", v, result')
    BY <1>3 DEF ArrayFields, Gives
  <2>2. QED
    BY <1>1, <2>1, FieldChanged
<1>5. ResultInv'
  BY <1>0, <1>1, <1>4, ResultStep
<1>6. ValuesInv'
  BY <1>0, <1>3, <1>4 DEF ValuesInv
<1>7. LiveInv'
  BY <1>0, <1>1, <1>2, AllocationStep
<1>8. LoopInv' /\ StageInv'
  BY <1>0, <1>1, <1>2, LoopStep, StageStep DEF LoopInv
<1>9. QED
  BY <1>0, <1>5, <1>6, <1>7, <1>8, RunningStep

\* A step that changes no array of the result.
LEMMA SameResultStep ==
    ASSUME ConvertInv, stage # "done", stage' # "done",
           UNCHANGED <<origin, target, matrix, result, outcome>>,
           LoopInv', StageInv', LiveInv',
           "values" \in HeldTo[stage'] => "values" \in HeldTo[stage]
    PROVE  ConvertInv'
<1>1. ResultInv' /\ ValuesInv'
  BY RunningFacts, SameResult, ValuesStep
<1>2. QED
  BY <1>1, RunningStep

\* A step that changes one array of the result, not its values.
LEMMA OneArrayStep ==
    ASSUME ConvertInv, stage # "done", stage' # "done",
           UNCHANGED <<origin, target, matrix, outcome>>,
           NEW f \in {"indices_0", "indices_1", "pointers_to_1"}, NEW v,
           Gives(result, f, v, result'),
           LoopInv', StageInv', LiveInv',
           "values" \in HeldTo[stage'] => "values" \in HeldTo[stage]
    PROVE  ConvertInv'
<1>1. /\ IsMatrix(result') /\ SameShape(result, result')
      /\ result'.values = result.values
  <2>1. f \in ArrayFields /\ f # "values" /\ IsMatrix(result)
    BY RunningFacts DEF ArrayFields
  <2>2. QED
    BY <2>1, FieldChanged
<1>2. ResultInv'
  BY <1>1, RunningFacts, ResultStep
<1>3. ValuesInv'
  BY <1>1, RunningFacts, ValuesStep
<1>4. QED
  BY <1>2, <1>3, RunningStep

LEMMA CopyMinorStep == ASSUME ConvertInv, CopyMinor PROVE ConvertInv'
<1>0. /\ stage = "minor" /\ stage' = AfterMinor /\ Obtain("minor")
      /\ UNCHANGED <<origin, target, matrix, indices, r, c, outcome>>
      /\ stage' \notin {"done", "sorted_values"}
  BY DEF CopyMinor, AfterMinor
<1>1. /\ SourceInv /\ LoopInv /\ StageInv /\ LiveInv
      /\ matrix.is_iso \in BOOLEAN
  BY <1>0, RunningFacts
<1>2. /\ stage' \in DOMAIN HeldTo
      /\ HeldTo[stage'] = HeldTo[stage] \cup {"minor"}
  BY <1>0, <1>1, Direction, Holdings
<1>3. PICK f \in {"indices_0", "indices_1"} :
             \E v : result' = [result EXCEPT ![f] = v]
  <2>1. To \in Formats3
    BY <1>1, Direction
  <2>2. QED
    BY <2>1 DEF CopyMinor, Minor, Formats3
<1>4. PICK v : Gives(result, f, v, result')
  BY <1>3 DEF Gives
<1>5. LiveInv'
  BY <1>0, <1>1, <1>2, AllocationStep
<1>6. LoopInv' /\ StageInv'
  BY <1>0, <1>1, <1>2, LoopStep, StageStep DEF LoopInv
<1>7. QED
  BY <1>0, <1>2, <1>4, <1>5, <1>6, OneArrayStep

LEMMA AllocateMajorStep == ASSUME ConvertInv, AllocateMajor PROVE ConvertInv'
<1>0. /\ stage = "major" /\ stage' = "expand" /\ Obtain("major") /\ r' = 0
      /\ UNCHANGED <<origin, target, matrix, indices, c, outcome>>
  BY DEF AllocateMajor
<1>1. /\ SourceInv /\ LoopInv /\ StageInv /\ LiveInv
      /\ matrix.is_iso \in BOOLEAN /\ MajorDim \in Nat
  BY <1>0, RunningFacts, Direction
<1>2. /\ stage' \in DOMAIN HeldTo
      /\ HeldTo[stage'] = HeldTo[stage] \cup {"major"}
  BY <1>0, <1>1, Direction, Holdings DEF StageInv
<1>3. PICK f \in {"indices_0", "indices_1"} :
             \E v : result' = [result EXCEPT ![f] = v]
  BY DEF AllocateMajor, Major
<1>4. PICK v : Gives(result, f, v, result')
  BY <1>3 DEF Gives
<1>5. LiveInv'
  BY <1>0, <1>1, <1>2, AllocationStep
<1>6. LoopInv' /\ StageInv'
  BY <1>0, <1>1, <1>2, LoopStep, StageStep DEF LoopInv
<1>7. QED
  BY <1>0, <1>2, <1>4, <1>5, <1>6, OneArrayStep

LEMMA ExpandPointersStep == ASSUME ConvertInv, ExpandPointers PROVE ConvertInv'
<1>0. /\ stage = "expand" /\ stage' = stage /\ r < MajorDim /\ r' = r + 1
      /\ UNCHANGED <<origin, target, matrix, indices, c, live, outcome>>
  BY DEF ExpandPointers
<1>1. /\ SourceInv /\ LoopInv /\ StageInv /\ LiveInv /\ MajorDim \in Nat
  BY <1>0, RunningFacts, Direction
<1>3. PICK f \in {"indices_0", "indices_1"} :
             \E v : result' = [result EXCEPT ![f] = v]
  BY DEF ExpandPointers, Major
<1>4. PICK v : Gives(result, f, v, result')
  BY <1>3 DEF Gives
<1>5. LiveInv' /\ StageInv'
  BY <1>0, <1>1, OtherStep, StageStep DEF StageInv
<1>6. LoopInv'
  BY <1>0, <1>1, LoopStep DEF LoopInv
<1>7. QED
  BY <1>0, <1>4, <1>5, <1>6, OneArrayStep

LEMMA EndExpandStep == ASSUME ConvertInv, EndExpand PROVE ConvertInv'
<1>0. /\ stage = "expand" /\ stage' = AfterExpand
      /\ stage' \notin {"done", "sorted_values"}
      /\ UNCHANGED <<origin, target, matrix, result, indices, r, c, live, outcome>>
  BY DEF EndExpand, AfterExpand
<1>1. /\ SourceInv /\ LoopInv /\ StageInv /\ LiveInv /\ matrix.is_iso \in BOOLEAN
  BY <1>0, RunningFacts
<1>2. stage' \in DOMAIN HeldTo /\ HeldTo[stage'] = HeldTo[stage]
  BY <1>0, <1>1, Direction, Holdings DEF StageInv
<1>3. LiveInv' /\ StageInv' /\ LoopInv'
  BY <1>0, <1>1, <1>2, OtherStep, StageStep, LoopStep DEF LoopInv
<1>4. QED
  BY <1>0, <1>2, <1>3, SameResultStep

LEMMA AllocateIndicesStep == ASSUME ConvertInv, AllocateIndices PROVE ConvertInv'
<1>0. /\ stage = "indices" /\ stage' = "sort" /\ live' = live \cup {<<Owner, "indices">>}
      /\ UNCHANGED <<origin, target, matrix, result, indices, r, c, outcome>>
  BY DEF AllocateIndices
<1>1. /\ SourceInv /\ LoopInv /\ StageInv /\ LiveInv /\ matrix.is_iso \in BOOLEAN
  BY <1>0, RunningFacts
<1>2. /\ stage' \in DOMAIN HeldTo
      /\ HeldTo[stage'] = HeldTo[stage] \cup {"indices"}
  BY <1>0, <1>1, Direction, Holdings DEF StageInv
<1>3. LiveInv' /\ StageInv' /\ LoopInv'
  BY <1>0, <1>1, <1>2, AllocationStep, StageStep, LoopStep DEF LoopInv
<1>4. QED
  BY <1>0, <1>2, <1>3, SameResultStep

LEMMA SortStep == ASSUME ConvertInv, Sort PROVE ConvertInv'
<1>0. /\ stage = "sort" /\ stage' = AfterSort
      /\ stage' \notin {"done", "sorted_values"}
      /\ UNCHANGED <<origin, target, matrix, result, r, c, live, outcome>>
  BY DEF Sort, AfterSort
<1>1. /\ SourceInv /\ LoopInv /\ StageInv /\ LiveInv /\ matrix.is_iso \in BOOLEAN
  BY <1>0, RunningFacts
<1>2. stage' \in DOMAIN HeldTo /\ HeldTo[stage'] = HeldTo[stage]
  BY <1>0, <1>1, Direction, Holdings DEF StageInv
<1>3. LiveInv' /\ StageInv' /\ LoopInv'
  BY <1>0, <1>1, <1>2, OtherStep, StageStep, LoopStep DEF LoopInv
<1>4. QED
  BY <1>0, <1>2, <1>3, SameResultStep

LEMMA AllocateSortedStep == ASSUME ConvertInv, AllocateSorted PROVE ConvertInv'
<1>0. /\ \/ stage = "rowind" /\ stage' = "colind"
         \/ stage = "colind" /\ stage' = AfterColind
         \/ stage = "sorted_values" /\ stage' = "permute"
      /\ stage' # "done" /\ stage \in {"rowind", "colind", "sorted_values"}
      /\ Obtain(stage) /\ (stage' = "sorted_values" => ~matrix.is_iso)
      /\ UNCHANGED <<origin, target, matrix, result, indices, r, c, outcome>>
  BY DEF AllocateSorted, AfterColind
<1>1. /\ SourceInv /\ LoopInv /\ StageInv /\ LiveInv /\ matrix.is_iso \in BOOLEAN
  BY <1>0, RunningFacts
<1>2. stage' \in DOMAIN HeldTo /\ HeldTo[stage'] = HeldTo[stage] \cup {stage}
  BY <1>0, <1>1, Direction, Holdings DEF StageInv
<1>3. LiveInv' /\ StageInv' /\ LoopInv'
  BY <1>0, <1>1, <1>2, AllocationStep, StageStep, LoopStep DEF LoopInv
<1>4. QED
  BY <1>0, <1>2, <1>3, SameResultStep

LEMMA PermuteStep == ASSUME ConvertInv, Permute PROVE ConvertInv'
<1>0. /\ stage = "permute" /\ stage' = "return" /\ live' = live \ ({Owner} \X Replaced)
      /\ UNCHANGED <<origin, target, matrix, indices, r, c, outcome>>
  BY DEF Permute
<1>1. /\ SourceInv /\ ResultInv /\ LoopInv /\ StageInv /\ ValuesInv /\ LiveInv
      /\ IsMatrix(result) /\ matrix.is_iso \in BOOLEAN
  BY <1>0, RunningFacts
<1>2. /\ stage' \in DOMAIN HeldTo
      /\ HeldTo[stage'] = HeldTo[stage] \ Replaced
  BY <1>0, <1>1, Direction, Holdings DEF StageInv
<1> DEFINE w == IF matrix.is_iso THEN result.values ELSE Permuted(result.values)
<1>3. DOMAIN w = DOMAIN result.values
  BY DEF Permuted
<1>4. PICK u, v : Permutes(result, u, v, w, result')
  BY DEF Permute, Permutes
<1> HIDE DEF w
<1>5. IsMatrix(result') /\ SameShape(result, result') /\ result'.values = w
  BY <1>1, <1>4, ArraysChanged
<1>6. ResultInv'
  BY <1>0, <1>1, <1>5, ResultStep
<1>7. ValuesInv'
  BY <1>0, <1>1, <1>2, <1>3, <1>5, ValuesStep
<1>8. LiveInv'
  <2>1. Obtained(HeldTo[stage']) = Obtained(HeldTo[stage]) \ Replaced
    BY <1>2 DEF Obtained
  <2>2. live' = Found \cup ({Owner} \X Obtained(HeldTo[stage']))
    BY <1>0, <1>1, <2>1, FoundOwners DEF LiveInv
  <2>3. QED
    BY <1>0, <2>2, Frame DEF LiveInv
<1>9. LoopInv' /\ StageInv'
  BY <1>0, <1>1, <1>2, LoopStep, StageStep DEF LoopInv
<1>10. QED
  BY <1>0, <1>6, <1>7, <1>8, <1>9, RunningStep

LEMMA AllocatePointersStep == ASSUME ConvertInv, AllocatePointers PROVE ConvertInv'
<1>0. /\ stage = "pointers" /\ stage' = "build" /\ Obtain("pointers") /\ r' = 0 /\ c' = 0
      /\ UNCHANGED <<origin, target, matrix, indices, outcome>>
  BY DEF AllocatePointers
<1>1. /\ SourceInv /\ LoopInv /\ StageInv /\ LiveInv /\ matrix.is_iso \in BOOLEAN
      /\ MajorDim \in Nat /\ matrix.nnz \in Nat
  BY <1>0, RunningFacts, Direction
<1>2. /\ stage' \in DOMAIN HeldTo
      /\ HeldTo[stage'] = HeldTo[stage] \cup {"pointers"}
  BY <1>0, <1>1, Direction, Holdings DEF StageInv
<1>3. PICK v : Gives(result, "pointers_to_1", v, result')
  BY DEF AllocatePointers, Gives
<1>4. LiveInv'
  BY <1>0, <1>1, <1>2, AllocationStep
<1>5. LoopInv' /\ StageInv'
  BY <1>0, <1>1, <1>2, LoopStep, StageStep
<1>6. QED
  BY <1>0, <1>2, <1>3, <1>4, <1>5, OneArrayStep

\* The steps of the loops that build the pointers.
LEMMA SetPointerStep ==
    ASSUME ConvertInv, AdvanceRow \/ FinishRows PROVE ConvertInv'
<1>0. /\ stage = "build" /\ stage' = stage /\ r' = r + 1 /\ r + 1 <= MajorDim
      /\ UNCHANGED <<origin, target, matrix, indices, c, live, outcome>>
      /\ \E x : SetPointer(x)
  <2>1. (MajorDim \in Nat /\ LoopInv) \/ stage # "build"
    BY RunningFacts, Direction
  <2>2. CASE AdvanceRow
    BY <2>2 DEF AdvanceRow
  <2>3. CASE FinishRows
    BY <2>1, <2>3 DEF FinishRows, RowsLeft, LoopInv
  <2>4. QED
    BY <2>2, <2>3
<1>1. /\ SourceInv /\ LoopInv /\ StageInv /\ LiveInv /\ MajorDim \in Nat
  BY <1>0, RunningFacts, Direction
<1>2. PICK v : Gives(result, "pointers_to_1", v, result')
  BY <1>0 DEF SetPointer, Gives
<1>3. LiveInv' /\ StageInv'
  BY <1>0, <1>1, OtherStep, StageStep DEF StageInv
<1>4. LoopInv'
  BY <1>0, <1>1, LoopStep DEF LoopInv
<1>5. QED
  BY <1>0, <1>2, <1>3, <1>4, OneArrayStep

LEMMA NextEntryStep == ASSUME ConvertInv, NextEntry PROVE ConvertInv'
<1>0. /\ stage = "build" /\ stage' = stage /\ c < matrix.nnz /\ c' = c + 1
      /\ UNCHANGED <<origin, target, matrix, result, indices, r, live, outcome>>
  BY DEF NextEntry, RowReached
<1>1. /\ SourceInv /\ LoopInv /\ StageInv /\ LiveInv /\ matrix.nnz \in Nat
  BY <1>0, RunningFacts, Direction
<1>2. LiveInv' /\ StageInv'
  BY <1>0, <1>1, OtherStep, StageStep DEF StageInv
<1>3. LoopInv'
  BY <1>0, <1>1, LoopStep DEF LoopInv
<1>4. QED
  BY <1>0, <1>2, <1>3, SameResultStep

LEMMA EndBuildStep == ASSUME ConvertInv, EndBuild PROVE ConvertInv'
<1>0. /\ stage = "build" /\ stage' = "return" /\ live' = live \ {<<Owner, "indices">>}
      /\ UNCHANGED <<origin, target, matrix, result, indices, r, c, outcome>>
  BY DEF EndBuild
<1>1. /\ SourceInv /\ LoopInv /\ StageInv /\ LiveInv /\ matrix.is_iso \in BOOLEAN
  BY <1>0, RunningFacts
<1>2. /\ stage' \in DOMAIN HeldTo
      /\ HeldTo[stage'] = HeldTo[stage] \ {"indices"}
  BY <1>0, <1>1, Direction, Holdings DEF StageInv
<1>3. LiveInv'
  <2>1. Obtained(HeldTo[stage']) = Obtained(HeldTo[stage]) \ {"indices"}
    BY <1>2 DEF Obtained
  <2>2. live' = Found \cup ({Owner} \X Obtained(HeldTo[stage']))
    BY <1>0, <1>1, <2>1, FoundOwners DEF LiveInv
  <2>3. QED
    BY <1>0, <2>2, Frame DEF LiveInv
<1>4. LoopInv' /\ StageInv'
  BY <1>0, <1>1, <1>2, LoopStep, StageStep DEF LoopInv
<1>5. QED
  BY <1>0, <1>2, <1>3, <1>4, SameResultStep

\* What a conversion returns owns the arrays the conversion holds.
LEMMA ReturnedArrays ==
    ASSUME SourceInv, ResultInv, StageInv, ValuesInv, stage = "return"
    PROVE  Arrays(Owner, result) = {Owner} \X Obtained(HeldTo[stage])
<1>1. To \in Formats3 /\ MajorDim \in Nat
  BY Direction
<1>2. HeldTo[stage] = {"values", "minor"} \cup
                        (IF To = "COOR" THEN {"major"} ELSE {"pointers"})
  BY <1>1 DEF HeldTo, HeldToCOOR, HeldToCSR, HeldToCSC, Formats3
<1>3. Size(result.values) = Size(matrix.values)
  BY <1>2 DEF ValuesInv, Size
<1>4. /\ Elements("values") = Size(matrix.values) /\ Elements("minor") = matrix.nnz
      /\ Elements("major") = matrix.nnz
  BY DEF Elements
<1>5. Elements("pointers") # 0
  BY <1>1 DEF Elements
<1>6. result.nnz = matrix.nnz /\ result.format = To
  BY DEF ResultInv
<1>7. Obtained(HeldTo[stage]) =
        (IF Size(result.values) = 0 THEN {} ELSE {"values"}) \cup
        (IF result.nnz = 0 THEN {} ELSE {"minor"}) \cup
        (IF result.format # "COOR" THEN {"pointers"}
         ELSE IF result.nnz = 0 THEN {} ELSE {"major"})
  BY <1>2, <1>3, <1>4, <1>5, <1>6 DEF Obtained
<1>8. QED
  BY <1>7 DEF Arrays

LEMMA ReturnIntermediateStep == ASSUME ConvertInv, ReturnIntermediate PROVE ConvertInv'
<1>0. /\ stage = "return" /\ stage' = First(target) /\ Owner = "intermediate"
      /\ matrix' = result /\ result' = Blank(result, target) /\ r' = 0 /\ c' = 0
      /\ UNCHANGED <<origin, target, live, outcome>>
      /\ stage' \in {"indices", "values"} /\ (stage' = "indices" <=> target = "CSC")
  BY DEF ReturnIntermediate, First
<1>1. /\ SourceInv /\ ResultInv /\ StageInv /\ ValuesInv /\ LiveInv
      /\ IsMatrix(result)
  BY <1>0, RunningFacts
<1>2. /\ To = "COOR" /\ target \in {"CSR", "CSC"} /\ origin.format # "COOR"
      /\ matrix = origin /\ result.format = "COOR"
  BY <1>0, <1>1, Direction DEF SourceInv, ResultInv
<1>3. SourceInv'
  BY <1>0, <1>1, <1>2 DEF SourceInv
<1>4. To' = target
  BY <1>0, <1>2 DEF To
<1>5. Owner' = "result"
  BY <1>0, <1>4 DEF Owner
<1>6. ResultInv'
  <2>1. /\ IsMatrix(result') /\ result'.format = target
        /\ result'.nrows = result.nrows /\ result'.ncols = result.ncols
        /\ result'.nnz = result.nnz /\ result'.is_iso = result.is_iso
    BY <1>0, <1>1, <1>2, BlankFields
  <2>2. QED
    BY <1>0, <1>4, <2>1 DEF ResultInv
<1>7. LoopInv'
  <2>1. MajorDim' \in Nat /\ matrix'.nnz \in Nat
    BY <1>0, <1>1 DEF MajorDim, IsMatrix
  <2>2. QED
    BY <1>0, <2>1 DEF LoopInv
<1>8. HeldTo'[stage'] = {} /\ stage' \in DOMAIN HeldTo'
  <2>1. CASE target = "CSC"
    <3>1. HeldTo' = HeldToCSC'
      BY <1>4, <2>1 DEF HeldTo
    <3>2. HeldToCSC' = HeldToCSC
      BY DEF HeldToCSC
    <3>3. QED
      BY <1>0, <2>1, <3>1, <3>2 DEF HeldToCSC
  <2>2. CASE target = "CSR"
    <3>1. HeldTo' = HeldToCSR'
      BY <1>4, <2>2 DEF HeldTo
    <3>2. HeldToCSR' = HeldToCSR
      BY DEF HeldToCSR
    <3>3. QED
      BY <1>0, <2>2, <3>1, <3>2 DEF HeldToCSR
  <2>3. QED
    BY <1>2, <2>1, <2>2
<1>9. StageInv' /\ ValuesInv'
  BY <1>0, <1>8 DEF StageInv, ValuesInv
<1>10. LiveInv'
  <2>1. Obtained(HeldTo[stage])' = {}
    BY <1>8 DEF Obtained
  <2>2. live = Arrays("origin", origin) \cup Arrays("intermediate", result)
    BY <1>0, <1>1, <1>2, FoundOwners, ReturnedArrays DEF LiveInv
  <2>3. Found' = Arrays("origin", origin) \cup Arrays("intermediate", result)
    BY <1>0, <1>2 DEF Found
  <2>4. QED
    BY <1>0, <2>1, <2>2, <2>3 DEF LiveInv
<1>11. OutcomeInv'
  BY <1>0 DEF ConvertInv, OutcomeInv, NothingLeaks
<1>12. QED
  BY <1>3, <1>6, <1>7, <1>9, <1>10, <1>11 DEF ConvertInv, RunningInv

LEMMA ReturnStep == ASSUME ConvertInv, Return PROVE ConvertInv'
<1>0. /\ stage = "return" /\ stage' = "done" /\ Owner = "result"
      /\ live' = Final(live) /\ outcome' = "ok"
      /\ UNCHANGED <<origin, target, matrix, result, indices, r, c>>
  BY DEF Return
<1>1. /\ SourceInv /\ ResultInv /\ LoopInv /\ StageInv /\ ValuesInv /\ LiveInv
  BY <1>0, RunningFacts
<1>2. live = Found \cup Arrays("result", result)
  BY <1>0, <1>1, ReturnedArrays DEF LiveInv
<1>3. Final(live) = Arrays("origin", origin) \cup Arrays("result", result)
  <2>1. \A x \in Arrays("result", result) : x[1] = "result"
    BY DEF Arrays
  <2>2. QED
    BY <1>1, <1>2, <2>1, FoundOwners DEF Final
<1>4. NothingLeaks'
  BY <1>0, <1>3 DEF NothingLeaks
<1>5. SourceInv' /\ ResultInv' /\ LoopInv'
  BY <1>0, <1>1, Frame, SameResult, LoopStep DEF LoopInv
<1>6. QED
  BY <1>0, <1>4, <1>5 DEF ConvertInv, RunningInv, OutcomeInv

\* A failed allocation leaves nothing of the conversion under way.
LEMMA CleanupComplete ==
    ASSUME SourceInv, StageInv,
           stage \in {"values", "minor", "major", "indices", "rowind", "colind",
                      "sorted_values", "pointers"}
    PROVE  HeldTo[stage] \subseteq Cleanup(stage)
<1>1. To \in Formats3
  BY Direction
<1>2. CASE To = "COOR"
  BY <1>2 DEF StageInv, HeldTo, HeldToCOOR, Cleanup, CleanupToCOOR
<1>3. CASE To = "CSR"
  BY <1>3 DEF StageInv, HeldTo, HeldToCSR, Cleanup, CleanupToCSR
<1>4. CASE To = "CSC"
  BY <1>4 DEF StageInv, HeldTo, HeldToCSC, Cleanup, CleanupToCSC
<1>5. QED
  BY <1>1, <1>2, <1>3, <1>4 DEF Formats3

LEMMA AllocationFailsStep == ASSUME ConvertInv, AllocationFails PROVE ConvertInv'
<1>0. /\ stage \in {"values", "minor", "major", "indices", "rowind", "colind",
                    "sorted_values", "pointers"}
      /\ live' = Final(live \ ({Owner} \X Cleanup(stage)))
      /\ outcome' = IF Owner = "result" THEN "failed" ELSE "aborted"
      /\ stage # "done" /\ stage' = "done"
      /\ UNCHANGED <<origin, target, matrix, result, indices, r, c>>
  BY DEF AllocationFails
<1>1. /\ SourceInv /\ ResultInv /\ LoopInv /\ StageInv /\ ValuesInv /\ LiveInv
  BY <1>0, RunningFacts
<1>2. live \ ({Owner} \X Cleanup(stage)) = Found
  <2>1. Obtained(HeldTo[stage]) \subseteq Cleanup(stage)
    BY <1>0, <1>1, CleanupComplete DEF Obtained
  <2>2. QED
    BY <1>1, <2>1, FoundOwners DEF LiveInv
<1>3. Final(Found) = Arrays("origin", origin)
  BY <1>1, FoundOwners DEF Final
<1>4. NothingLeaks'
  BY <1>0, <1>2, <1>3 DEF NothingLeaks
<1>5. SourceInv' /\ ResultInv' /\ LoopInv'
  BY <1>0, <1>1, Frame, SameResult, LoopStep DEF LoopInv
<1>6. QED
  BY <1>0, <1>4, <1>5 DEF ConvertInv, RunningInv, OutcomeInv

LEMMA StutterStep == ASSUME ConvertInv, UNCHANGED vars PROVE ConvertInv'
<1>1. UNCHANGED <<origin, target, matrix, result, stage, r, c, live, outcome>>
  BY DEF vars
<1>2. SourceInv' /\ ResultInv' /\ LoopInv'
  BY <1>1, Frame, SameResult, LoopStep DEF ConvertInv, LoopInv
<1>3. OutcomeInv'
  BY <1>1 DEF ConvertInv, OutcomeInv, NothingLeaks
<1>4. RunningInv'
  <2>1. CASE outcome = "running"
    BY <1>1, <2>1, OtherStep, ValuesStep, Frame DEF ConvertInv, RunningInv, StageInv
  <2>2. CASE outcome # "running"
    BY <1>1, <2>2 DEF RunningInv
  <2>3. QED
    BY <2>1, <2>2
<1>5. QED
  BY <1>2, <1>3, <1>4 DEF ConvertInv

LEMMA InitConvertInv == Init => ConvertInv
<1> SUFFICES ASSUME Init PROVE ConvertInv
  OBVIOUS
<1>0. /\ origin \in Matrices /\ target \in Targets \ {origin.format} /\ matrix = origin
      /\ result = Blank(matrix, To) /\ stage = First(To) /\ r = 0 /\ c = 0
      /\ live = Arrays("origin", origin) /\ outcome = "running"
      /\ stage \in {"indices", "values"} /\ (stage = "indices" <=> To = "CSC")
  BY DEF Init, First
<1>1. SourceInv
  BY <1>0, MatricesAssumption, TargetsAssumption DEF SourceInv
<1>2. To \in Formats3 /\ MajorDim \in Nat /\ matrix.nnz \in Nat
  BY <1>1, Direction
<1>3. ResultInv
  BY <1>0, <1>1, <1>2, BlankFields DEF ResultInv, SourceInv, Formats3
<1>4. HeldTo[stage] = {} /\ stage \in DOMAIN HeldTo
  BY <1>0, <1>2 DEF HeldTo, HeldToCOOR, HeldToCSR, HeldToCSC, Formats3
<1>5. StageInv /\ ValuesInv /\ LoopInv
  BY <1>0, <1>2, <1>4 DEF StageInv, ValuesInv, LoopInv
<1>6. LiveInv
  BY <1>0, <1>4 DEF LiveInv, Found, Obtained
<1>7. OutcomeInv
  BY <1>0 DEF OutcomeInv, NothingLeaks
<1>8. QED
  BY <1>1, <1>3, <1>5, <1>6, <1>7 DEF ConvertInv, RunningInv

LEMMA NextConvertInv == ConvertInv /\ [Next]_vars => ConvertInv'
  BY CopyValuesStep, CopyMinorStep, AllocateMajorStep, ExpandPointersStep, EndExpandStep,
     AllocateIndicesStep, SortStep, AllocateSortedStep, PermuteStep, AllocatePointersStep,
     SetPointerStep, NextEntryStep, EndBuildStep, ReturnIntermediateStep, ReturnStep,
     AllocationFailsStep, StutterStep DEF Next, Over

--------------------------------------------------------------------------------
(* The results. *)

\* At each stage of a conversion exactly the arrays that the order of the
\* allocations in bsp_convert_matrix_allocator says are allocated, those of the
\* matrix it reads and of the caller's matrix among them, and its counters are
\* within their loops.
THEOREM ConversionInvariant == Spec => []ConvertInv
<1>1. Init => ConvertInv
  BY InitConvertInv
<1>2. ConvertInv /\ [Next]_vars => ConvertInv'
  BY NextConvertInv
<1>3. QED
  BY <1>1, <1>2, PTL DEF Spec

\* The variables keep their types: no counter of the loops over the pointers or
\* the entries leaves its array, whatever the matrix.
THEOREM ConversionTypeCorrect == Spec => []TypeOK
<1>1. ConvertInv => TypeOK
  <2>1. ASSUME ConvertInv PROVE TypeOK
    <3>1. stage \in {"values", "minor", "major", "expand", "indices", "sort", "rowind",
                     "colind", "sorted_values", "permute", "pointers", "build",
                     "return", "done"}
      BY <2>1, Direction DEF ConvertInv, RunningInv, OutcomeInv, StageInv, Formats3,
         HeldTo, HeldToCOOR, HeldToCSR, HeldToCSC
    <3>2. QED
      BY <2>1, <3>1, Direction DEF TypeOK, ConvertInv, SourceInv, LoopInv, OutcomeInv
  <2>2. QED
    BY <2>1
<1>2. QED
  BY <1>1, ConversionInvariant, PTL

\* Whichever allocation fails, a conversion that returns leaves allocated the
\* arrays of the caller's matrix and, if it succeeded, those of the matrix it
\* returns, and nothing else: the error branches destroy all that was allocated,
\* and only that.
THEOREM ConversionLeaksNothing == Spec => []NothingLeaks
<1>1. ConvertInv => NothingLeaks
  BY DEF ConvertInv, OutcomeInv
<1>2. QED
  BY <1>1, ConversionInvariant, PTL

\* While it runs, the arrays of the caller's matrix and, once there is one, of the
\* intermediate matrix are allocated: no step reads what was freed.
THEOREM ConversionSourcesLive == Spec => []SourcesLive
<1>1. ConvertInv => SourcesLive
  BY FoundOwners DEF ConvertInv, RunningInv, LiveInv, SourcesLive
<1>2. QED
  BY <1>1, ConversionInvariant, PTL

--------------------------------------------------------------------------------
(* A compressed format f is CSR or CSC; its major dimension is the one that it *)
(* has pointers for.                                                          *)

Compressing == {"CSR", "CSC"}

MajorArray(f, m) == IF f = "CSR" THEN m.indices_0 ELSE m.indices_1
MinorArray(f, m) == IF f = "CSR" THEN m.indices_1 ELSE m.indices_0
MajorSize(f, m) == IF f = "CSR" THEN m.nrows ELSE m.ncols
MinorSize(f, m) == IF f = "CSR" THEN m.ncols ELSE m.nrows

Entry(f, q, i, v) == IF f = "CSR" THEN <<q, i, v>> ELSE <<i, q, v>>

Positions(n) == 0 .. n - 1

\* No two entries of a coordinate matrix are in the same place.
Distinct(m) ==
    \A k, l \in Positions(m.nnz) :
        k # l => \/ m.indices_0.data[k] # m.indices_0.data[l]
                 \/ m.indices_1.data[k] # m.indices_1.data[l]

\* Row or column q of m is expanded: each of its entries has it as its index in d.
Expanded(m, q, d) ==
    \A k \in 0 .. Begins(m, q) - 1 :
        d[k] \in 0 .. q - 1 /\ Begins(m, d[k]) <= k /\ k < Begins(m, d[k] + 1)

\* The coordinate matrix n has the entries of m, in some order.
Placed(m, n) ==
    /\ n.indices_0.data \in [Positions(n.nnz) -> Positions(n.nrows)]
    /\ n.indices_1.data \in [Positions(n.nnz) -> Positions(n.ncols)]
    /\ Distinct(n)
    /\ Entries(n) = Entries(m)

\* Taken in the order p, the entries of m are in the order of format f.
Ascending(f, m, p) ==
    \A k, l \in Positions(m.nnz) :
        k < l => LET i == MajorArray(f, m).data
                     j == MinorArray(f, m).data
                 IN  i[p[k]] < i[p[l]] \/ (i[p[k]] = i[p[l]] /\ j[p[k]] < j[p[l]])

\* The values of n are those of m in the order p.
ValuesTaken(m, n, p) ==
    \A k \in Positions(m.nnz) : Value(n, k) = Value(m, p[k])

\* Of the first k pointers b: row or column q begins at the first entry, in the
\* order p, that is not before it.
Built(f, m, p, b, q, k) ==
    /\ b \in [0 .. MajorSize(f, m) -> Int]
    /\ \A s \in 0 .. q :
          /\ b[s] \in 0 .. k
          /\ \A x \in 0 .. b[s] - 1 : MajorArray(f, m).data[p[x]] < s
          /\ \A x \in b[s] .. m.nnz - 1 : s <= MajorArray(f, m).data[p[x]]
    /\ b[0] = 0
    /\ \A x \in 0 .. k - 1 : MajorArray(f, m).data[p[x]] <= q

--------------------------------------------------------------------------------
(* The invariant. *)

TypesFit == PointersFit /\ SameIndexType

\* The matrix that is read denotes the caller's.
FoundInv ==
    /\ WellFormed(matrix)
    /\ Entries(matrix) = Entries(origin)
    /\ matrix.nrows = origin.nrows /\ matrix.ncols = origin.ncols
    /\ matrix.nnz = origin.nnz /\ matrix.is_iso = origin.is_iso
    /\ DOMAIN matrix.values = DOMAIN origin.values
    /\ matrix # origin => matrix.indices_0.type = Pick(MaxDim)

HasOrder == indices \in Orders(matrix.nnz) /\ Sorted(indices)

\* The order in which the entries are taken: as they are, or sorted by columns.
Taken == IF To = "CSR" THEN [k \in Positions(matrix.nnz) |-> k] ELSE indices

ExpandInv ==
    /\ stage \in {"minor", "major", "expand"} => result.values = matrix.values
    /\ stage \in {"major", "expand"} =>
          MinorArray(Compressed, result) = Indexes(IndexType, matrix.indices_1.data)
    /\ stage = "expand" =>
          LET d == MajorArray(Compressed, result).data
          IN  /\ MajorArray(Compressed, result) = Indexes(IndexType, d)
              /\ d = [k \in Positions(matrix.nnz) |-> d[k]]
              /\ Expanded(matrix, r, d)
    /\ stage \in {"indices", "sort", "rowind", "colind", "sorted_values", "permute", "return"} =>
          /\ Placed(matrix, result)
          /\ result.indices_0 = Indexes(IndexType, result.indices_0.data)
          /\ result.indices_1 = Indexes(IndexType, result.indices_1.data)
    /\ stage \in {"rowind", "colind", "sorted_values", "permute"} => HasOrder
    /\ stage = "return" => InOrder(result)

CompressInv ==
    /\ stage \in {"values", "minor", "pointers", "build"} =>
          Taken \in Orders(matrix.nnz) /\ Ascending(To, matrix, Taken)
    /\ stage \in {"minor", "pointers", "build"} => ValuesTaken(matrix, result, Taken)
    /\ stage \in {"pointers", "build"} =>
          result.indices_1.data =
             [k \in Positions(matrix.nnz) |-> MinorArray(To, matrix).data[Taken[k]]]
    /\ stage = "build" =>
          LET b == result.pointers_to_1.data
          IN  /\ result.pointers_to_1 = Indexes(IndexType, b)
              /\ Built(To, matrix, Taken, b, r, c)
    /\ stage = "return" => WellFormed(result) /\ Entries(result) = Entries(matrix)

EntriesInv ==
    TypesFit =>
        /\ FoundInv
        /\ stage # "done" => IF To = "COOR" THEN ExpandInv ELSE CompressInv
        /\ ConversionFaithful

--------------------------------------------------------------------------------
(* Index types. *)

LEMMA WidestCap == Cap("wide") \in Nat /\ NarrowMax \in Nat /\ NarrowMax <= Cap("wide")
<1>1. Base \in Nat /\ Base >= 2
  BY NarrowMaxAssumption DEF Base
<1>2. Base * Base \in Nat /\ Base * Base >= Base
  BY <1>1
<1>3. QED
  BY <1>2, NarrowMaxAssumption DEF Cap, Base

\* What is no larger than the number a type was picked for is stored unchanged.
LEMMA IndexHeld ==
    ASSUME NEW x, NEW v \in Nat, v <= Cap(Pick(x))
    PROVE  Stored(Pick(x), v) = v
<1>1. Cap(Pick(x)) \in Nat
  BY WidestCap DEF Cap, Pick
<1>2. v # Junk
  BY DEF Junk
<1>3. QED
  BY <1>1, <1>2 DEF Stored

\* An injection of a finite set into itself leaves nothing out.
LEMMA OrderReaches ==
    ASSUME NEW n \in Nat, NEW p \in Orders(n), NEW k \in Positions(n)
    PROVE  \E l \in Positions(n) : p[l] = k
<1>1. IsFiniteSet(Positions(n))
  BY FS_Interval DEF Positions
<1>2. p \in Injection(Positions(n), Positions(n))
  BY Fun_IsInj DEF Orders, Positions
<1>3. p \in Surjection(Positions(n), Positions(n))
  BY <1>1, <1>2, FS_Injection
<1>4. QED
  BY <1>3, Fun_SurjectionProperties

LEMMA OrderType ==
    ASSUME NEW n \in Nat, NEW p \in Orders(n)
    PROVE  /\ p \in [Positions(n) -> Positions(n)]
           /\ \A k, l \in Positions(n) : k # l => p[k] # p[l]
  BY DEF Orders, Positions

--------------------------------------------------------------------------------
(* What matrices denote. *)

LEMMA CoorEntries ==
    ASSUME NEW m, m.format = "COOR", DOMAIN m.indices_0.data = Positions(m.nnz),
           NEW f \in Compressing
    PROVE  \A e : e \in Entries(m) <=>
              \E k \in Positions(m.nnz) :
                 e = Entry(f, MajorArray(f, m).data[k], MinorArray(f, m).data[k], Value(m, k))
  BY DEF Entries, Entry, MajorArray, MinorArray, Compressing

LEMMA CompressedEntries ==
    ASSUME NEW m, NEW f \in Compressing, m.format = f, m.nnz \in Nat,
           DOMAIN m.indices_1.data = Positions(m.nnz), MajorSize(f, m) \in Nat,
           m.pointers_to_1.data \in [0 .. MajorSize(f, m) -> Positions(m.nnz + 1)]
    PROVE  \A e : e \in Entries(m) <=>
              \E q \in 0 .. MajorSize(f, m) - 1 : \E k \in Positions(m.nnz) :
                 /\ Begins(m, q) <= k /\ k < Begins(m, q + 1)
                 /\ e = Entry(f, q, m.indices_1.data[k], Value(m, k))
<1>1. ASSUME NEW q \in 0 .. MajorSize(f, m) - 1
      PROVE  Begins(m, q) \in Nat /\ Begins(m, q + 1) \in Nat
  <2>1. q \in 0 .. MajorSize(f, m) /\ q + 1 \in 0 .. MajorSize(f, m)
    OBVIOUS
  <2>2. QED
    BY <2>1 DEF Begins, Positions
<1>2. \A q \in 0 .. MajorSize(f, m) - 1 : \A k \in Positions(m.nnz) :
         k \in Begins(m, q) .. Begins(m, q + 1) - 1
            <=> Begins(m, q) <= k /\ k < Begins(m, q + 1)
  BY <1>1 DEF Positions
<1>3. CASE f = "CSR"
  <2>1. Entries(m) =
          UNION {{<<q, m.indices_1.data[k], Value(m, k)>> :
                    k \in (Begins(m, q) .. Begins(m, q + 1) - 1) \cap Positions(m.nnz)} :
                 q \in 0 .. m.nrows - 1}
    BY <1>3 DEF Entries
  <2>2. QED
    BY <1>2, <1>3, <2>1 DEF Entry, MajorSize
<1>4. CASE f = "CSC"
  <2>1. Entries(m) =
          UNION {{<<m.indices_1.data[k], q, Value(m, k)>> :
                    k \in (Begins(m, q) .. Begins(m, q + 1) - 1) \cap Positions(m.nnz)} :
                 q \in 0 .. m.ncols - 1}
    BY <1>4 DEF Entries
  <2>2. QED
    BY <1>2, <1>4, <2>1 DEF Entry, MajorSize
<1>5. QED
  BY <1>3, <1>4 DEF Compressing

\* What a well-formed matrix of a compressed format is.
LEMMA CompressedFacts ==
    ASSUME NEW m, IsMatrix(m), WellFormed(m), NEW f \in Compressing, m.format = f
    PROVE  /\ m.nnz \in Nat /\ MajorSize(f, m) \in Nat /\ MinorSize(f, m) \in Nat
           /\ m.indices_1.data \in [Positions(m.nnz) -> Positions(MinorSize(f, m))]
           /\ m.pointers_to_1.data \in [0 .. MajorSize(f, m) -> Positions(m.nnz + 1)]
           /\ Begins(m, 0) = 0 /\ Begins(m, MajorSize(f, m)) = m.nnz
           /\ \A q \in 0 .. MajorSize(f, m) : Begins(m, q) \in Nat
           /\ \A q, s \in 0 .. MajorSize(f, m) : q <= s => Begins(m, q) <= Begins(m, s)
           /\ \A q \in 0 .. MajorSize(f, m) - 1 :
                 \A k, l \in Begins(m, q) .. Begins(m, q + 1) - 1 :
                    k < l => m.indices_1.data[k] < m.indices_1.data[l]
<1>1. 0 .. m.nnz = Positions(m.nnz + 1) /\ m.nnz \in Nat
  BY DEF IsMatrix, Positions
<1>2. m.pointers_to_1.data \in [0 .. MajorSize(f, m) -> Positions(m.nnz + 1)]
  BY <1>1 DEF WellFormed, MajorSize, Compressing
<1>3. ASSUME NEW q \in 0 .. MajorSize(f, m) PROVE Begins(m, q) \in Nat
  <2>1. Begins(m, q) \in Positions(m.nnz + 1)
    BY <1>2 DEF Begins
  <2>2. QED
    BY <1>1, <2>1 DEF Positions
<1>4. QED
  BY <1>1, <1>2, <1>3 DEF WellFormed, IsMatrix, MajorSize, MinorSize, Compressing, InOrder,
                          PointersSpan, Positions

LEMMA CoorFacts ==
    ASSUME NEW m, IsMatrix(m), WellFormed(m), m.format = "COOR"
    PROVE  /\ m.nnz \in Nat /\ m.nrows \in Nat /\ m.ncols \in Nat
           /\ m.indices_0.data \in [Positions(m.nnz) -> Positions(m.nrows)]
           /\ m.indices_1.data \in [Positions(m.nnz) -> Positions(m.ncols)]
           /\ InOrder(m) /\ Distinct(m)
<1>1. /\ m.nnz \in Nat /\ m.nrows \in Nat /\ m.ncols \in Nat /\ InOrder(m)
      /\ m.indices_0.data \in [Positions(m.nnz) -> Positions(m.nrows)]
      /\ m.indices_1.data \in [Positions(m.nnz) -> Positions(m.ncols)]
  BY DEF WellFormed, IsMatrix, Positions
<1>2. ASSUME NEW k \in Positions(m.nnz), NEW l \in Positions(m.nnz), k # l
      PROVE  \/ m.indices_0.data[k] # m.indices_0.data[l]
             \/ m.indices_1.data[k] # m.indices_1.data[l]
  <2>1. k < l \/ l < k
    BY <1>1, <1>2 DEF Positions
  <2>2. /\ m.indices_0.data[k] \in Nat /\ m.indices_0.data[l] \in Nat
        /\ m.indices_1.data[k] \in Nat /\ m.indices_1.data[l] \in Nat
    <3>1. /\ m.indices_0.data[k] \in Positions(m.nrows) /\ m.indices_0.data[l] \in Positions(m.nrows)
          /\ m.indices_1.data[k] \in Positions(m.ncols) /\ m.indices_1.data[l] \in Positions(m.ncols)
      BY <1>1, Zenon
    <3>2. Positions(m.nrows) \subseteq Nat /\ Positions(m.ncols) \subseteq Nat
      BY <1>1 DEF Positions
    <3>3. QED
      BY <3>1, <3>2, Zenon
  <2>3. QED
    BY <1>1, <2>1, <2>2 DEF InOrder
<1>3. QED
  BY <1>1, <1>2 DEF Distinct

--------------------------------------------------------------------------------
(* To coordinates: each row or column is expanded over its entries. *)

\* n has the shape of m.
Alike(m, n) ==
    /\ n.nrows = m.nrows /\ n.ncols = m.ncols /\ n.nnz = m.nnz /\ n.is_iso = m.is_iso

\* An entry is in one row or column only.
LEMMA OneOwner ==
    ASSUME NEW m, IsMatrix(m), WellFormed(m), NEW f \in Compressing, m.format = f,
           NEW q \in 0 .. MajorSize(f, m) - 1, NEW s \in 0 .. MajorSize(f, m) - 1,
           NEW k \in Nat, NEW l \in Nat, k <= l,
           Begins(m, q) <= k, k < Begins(m, q + 1),
           Begins(m, s) <= l, l < Begins(m, s + 1)
    PROVE  q <= s
<1>1. MajorSize(f, m) \in Nat /\ m.nnz \in Nat
  BY CompressedFacts
<1>2. /\ q \in 0 .. MajorSize(f, m) /\ s + 1 \in 0 .. MajorSize(f, m)
      /\ q \in Nat /\ s \in Nat
  BY <1>1
<1>3. Begins(m, q) \in Nat /\ Begins(m, s + 1) \in Nat
  BY <1>2, CompressedFacts
<1>4. s + 1 <= q => Begins(m, s + 1) <= Begins(m, q)
  BY <1>2, CompressedFacts
<1>5. QED
  BY <1>2, <1>3, <1>4

LEMMA ExpandedEntries ==
    ASSUME NEW m, IsMatrix(m), WellFormed(m), NEW f \in Compressing, m.format = f,
           NEW n, n.format = "COOR", Alike(m, n), n.values = m.values,
           MinorArray(f, n).data = m.indices_1.data,
           NEW d, d = MajorArray(f, n).data, d = [k \in Positions(m.nnz) |-> d[k]],
           Expanded(m, MajorSize(f, m), d)
    PROVE  Placed(m, n) /\ (f = "CSR" => InOrder(n))
<1>1. /\ m.nnz \in Nat /\ MajorSize(f, m) \in Nat /\ Begins(m, MajorSize(f, m)) = m.nnz
      /\ m.indices_1.data \in [Positions(m.nnz) -> Positions(MinorSize(f, m))]
      /\ m.pointers_to_1.data \in [0 .. MajorSize(f, m) -> Positions(m.nnz + 1)]
      /\ MinorSize(f, m) \in Nat
  BY CompressedFacts
<1>2. ASSUME NEW k \in Positions(m.nnz)
      PROVE  /\ d[k] \in 0 .. MajorSize(f, m) - 1 /\ k \in Nat /\ d[k] \in Nat
             /\ Begins(m, d[k]) <= k /\ k < Begins(m, d[k] + 1)
  <2>1. k \in 0 .. Begins(m, MajorSize(f, m)) - 1 /\ k \in Nat
    BY <1>1 DEF Positions
  <2>2. /\ d[k] \in 0 .. MajorSize(f, m) - 1
        /\ Begins(m, d[k]) <= k /\ k < Begins(m, d[k] + 1)
    BY <2>1 DEF Expanded
  <2>3. QED
    BY <1>1, <2>1, <2>2
<1>3. d \in [Positions(m.nnz) -> Positions(MajorSize(f, m))]
  BY <1>2 DEF Positions
<1>4. /\ n.indices_0.data \in [Positions(n.nnz) -> Positions(n.nrows)]
      /\ n.indices_1.data \in [Positions(n.nnz) -> Positions(n.ncols)]
  BY <1>1, <1>3 DEF Alike, MajorArray, MinorArray, MajorSize, MinorSize, Compressing
<1>5. \A k : Value(n, k) = Value(m, k)
  BY DEF Value, Alike
<1>6. ASSUME NEW e PROVE e \in Entries(n) <=> e \in Entries(m)
  <2>1. e \in Entries(n) <=>
          \E k \in Positions(m.nnz) : e = Entry(f, d[k], m.indices_1.data[k], Value(m, k))
    <3>1. DOMAIN n.indices_0.data = Positions(n.nnz) /\ n.nnz = m.nnz
      BY <1>4 DEF Alike
    <3>2. e \in Entries(n) <=>
            \E k \in Positions(n.nnz) :
              e = Entry(f, MajorArray(f, n).data[k], MinorArray(f, n).data[k], Value(n, k))
      BY <3>1, CoorEntries
    <3>3. QED
      BY <1>5, <3>1, <3>2
  <2>2. e \in Entries(m) <=>
          \E q \in 0 .. MajorSize(f, m) - 1 : \E k \in Positions(m.nnz) :
             /\ Begins(m, q) <= k /\ k < Begins(m, q + 1)
             /\ e = Entry(f, q, m.indices_1.data[k], Value(m, k))
    BY <1>1, CompressedEntries
  <2>3. ASSUME NEW q \in 0 .. MajorSize(f, m) - 1, NEW k \in Positions(m.nnz),
               Begins(m, q) <= k, k < Begins(m, q + 1)
        PROVE  q = d[k]
    <3>1. q <= d[k] /\ d[k] <= q
      BY <1>2, <2>3, OneOwner
    <3>2. QED
      BY <1>1, <1>2, <3>1
  <2>4. QED
    BY <1>2, <2>1, <2>2, <2>3
<1>7. ASSUME NEW k \in Positions(m.nnz), NEW l \in Positions(m.nnz), k < l
      PROVE  /\ d[k] \in Nat /\ d[l] \in Nat
             /\ d[k] < d[l] \/ (d[k] = d[l] /\ m.indices_1.data[k] < m.indices_1.data[l])
  <2>1. d[k] <= d[l] /\ d[k] \in Nat /\ d[l] \in Nat
    BY <1>2, <1>7, OneOwner
  <2>2. ASSUME d[k] = d[l] PROVE m.indices_1.data[k] < m.indices_1.data[l]
    <3>1. /\ d[k] \in 0 .. MajorSize(f, m) - 1 /\ Begins(m, d[k]) \in Nat
          /\ Begins(m, d[k] + 1) \in Nat
      <4>1. d[k] \in 0 .. MajorSize(f, m) /\ d[k] + 1 \in 0 .. MajorSize(f, m)
        BY <1>1, <1>2
      <4>2. QED
        BY <1>2, <4>1, CompressedFacts
    <3>2. /\ k \in Begins(m, d[k]) .. Begins(m, d[k] + 1) - 1
          /\ l \in Begins(m, d[k]) .. Begins(m, d[k] + 1) - 1
      BY <1>2, <2>2, <3>1
    <3>3. QED
      BY <1>7, <3>1, <3>2, CompressedFacts
  <2>3. QED
    BY <2>1, <2>2
<1>8. Distinct(n)
  <2>1. ASSUME NEW k \in Positions(m.nnz), NEW l \in Positions(m.nnz), k # l
        PROVE  d[k] # d[l] \/ m.indices_1.data[k] # m.indices_1.data[l]
    <3>1. k < l \/ l < k
      BY <1>1, <2>1 DEF Positions
    <3>2. m.indices_1.data[k] \in Nat /\ m.indices_1.data[l] \in Nat
      <4>1. /\ m.indices_1.data[k] \in Positions(MinorSize(f, m))
            /\ m.indices_1.data[l] \in Positions(MinorSize(f, m))
        BY <1>1, Zenon
      <4>2. Positions(MinorSize(f, m)) \subseteq Nat
        BY <1>1 DEF Positions
      <4>3. QED
        BY <4>1, <4>2, Zenon
    <3>3. QED
      BY <1>7, <3>1, <3>2
  <2>2. QED
    BY <2>1 DEF Distinct, Alike, MajorArray, MinorArray, Compressing
<1>9. ASSUME f = "CSR" PROVE InOrder(n)
  <2>1. n.indices_0.data = d /\ n.indices_1.data = m.indices_1.data
    BY <1>9 DEF MajorArray, MinorArray
  <2>2. QED
    BY <1>7, <2>1 DEF InOrder
<1>10. QED
  BY <1>4, <1>6, <1>8, <1>9 DEF Placed

\* Sorting the coordinates by rows keeps the entries.
LEMMA PermutedEntries ==
    ASSUME NEW m, NEW n, n.format = "COOR", n.nnz \in Nat, n.nrows \in Nat, n.ncols \in Nat,
           Placed(m, n), NEW p \in Orders(n.nnz),
           \A k, l \in Positions(n.nnz) : k < l =>
              \/ n.indices_0.data[p[k]] < n.indices_0.data[p[l]]
              \/ /\ n.indices_0.data[p[k]] = n.indices_0.data[p[l]]
                 /\ n.indices_1.data[p[k]] <= n.indices_1.data[p[l]],
           NEW o, o.format = "COOR", Alike(n, o), ValuesTaken(n, o, p),
           o.indices_0.data = [k \in Positions(n.nnz) |-> n.indices_0.data[p[k]]],
           o.indices_1.data = [k \in Positions(n.nnz) |-> n.indices_1.data[p[k]]]
    PROVE  Placed(m, o) /\ InOrder(o)
<1>1. /\ p \in [Positions(n.nnz) -> Positions(n.nnz)]
      /\ \A k, l \in Positions(n.nnz) : k # l => p[k] # p[l]
      /\ \A k \in Positions(n.nnz) : \E l \in Positions(n.nnz) : p[l] = k
  BY OrderType, OrderReaches
<1>2. /\ n.indices_0.data \in [Positions(n.nnz) -> Positions(n.nrows)]
      /\ n.indices_1.data \in [Positions(n.nnz) -> Positions(n.ncols)]
      /\ Distinct(n) /\ Entries(n) = Entries(m)
      /\ o.nnz = n.nnz /\ o.nrows = n.nrows /\ o.ncols = n.ncols
  BY DEF Placed, Alike
<1>3. /\ o.indices_0.data \in [Positions(o.nnz) -> Positions(o.nrows)]
      /\ o.indices_1.data \in [Positions(o.nnz) -> Positions(o.ncols)]
  BY <1>1, <1>2
<1>4. Distinct(o)
  BY <1>1, <1>2 DEF Distinct
<1>5. ASSUME NEW e PROVE e \in Entries(o) <=> e \in Entries(n)
  <2>1. e \in Entries(n) <=>
          \E k \in Positions(n.nnz) :
             e = Entry("CSR", n.indices_0.data[k], n.indices_1.data[k], Value(n, k))
    BY <1>2, CoorEntries DEF MajorArray, MinorArray, Compressing
  <2>2. e \in Entries(o) <=>
          \E k \in Positions(n.nnz) :
             e = Entry("CSR", o.indices_0.data[k], o.indices_1.data[k], Value(o, k))
    BY <1>2, <1>3, CoorEntries DEF MajorArray, MinorArray, Compressing
  <2>3. \A k \in Positions(n.nnz) :
           /\ p[k] \in Positions(n.nnz)
           /\ Entry("CSR", o.indices_0.data[k], o.indices_1.data[k], Value(o, k)) =
              Entry("CSR", n.indices_0.data[p[k]], n.indices_1.data[p[k]], Value(n, p[k]))
    BY <1>1 DEF ValuesTaken
  <2>4. QED
    BY <1>1, <2>1, <2>2, <2>3
<1>6. InOrder(o)
  <2>1. ASSUME NEW k \in Positions(n.nnz), NEW l \in Positions(n.nnz), k < l
        PROVE  \/ o.indices_0.data[k] < o.indices_0.data[l]
               \/ /\ o.indices_0.data[k] = o.indices_0.data[l]
                  /\ o.indices_1.data[k] < o.indices_1.data[l]
    <3>1. k # l /\ p[k] # p[l] /\ p[k] \in Positions(n.nnz) /\ p[l] \in Positions(n.nnz)
      BY <1>1, <2>1 DEF Positions
    <3>2. \A y \in Positions(n.ncols) : y \in Nat
      BY DEF Positions
    <3>3. /\ n.indices_1.data[p[k]] \in Nat /\ n.indices_1.data[p[l]] \in Nat
      BY <1>2, <3>1, <3>2
    <3>4. \/ n.indices_0.data[p[k]] # n.indices_0.data[p[l]]
          \/ n.indices_1.data[p[k]] # n.indices_1.data[p[l]]
      BY <1>2, <3>1 DEF Distinct
    <3>5. /\ o.indices_0.data[k] = n.indices_0.data[p[k]]
          /\ o.indices_0.data[l] = n.indices_0.data[p[l]]
          /\ o.indices_1.data[k] = n.indices_1.data[p[k]]
          /\ o.indices_1.data[l] = n.indices_1.data[p[l]]
      OBVIOUS
    <3>6. QED
      BY <2>1, <3>3, <3>4, <3>5
  <2>2. DOMAIN o.indices_0.data = Positions(n.nnz)
    OBVIOUS
  <2>3. QED
    BY <2>1, <2>2 DEF InOrder
<1>7. QED
  BY <1>2, <1>3, <1>4, <1>5, <1>6 DEF Placed

--------------------------------------------------------------------------------
(* From coordinates: entries in the order of the compressed format, and the    *)
(* pointers that delimit its rows or columns.                                 *)

\* What the pointers say when the loops are over.
LEMMA PointersDelimit ==
    ASSUME NEW f, NEW m, NEW p, NEW b, NEW N \in Nat, MajorSize(f, m) \in Nat, m.nnz = N,
           \A x \in 0 .. N - 1 : MajorArray(f, m).data[p[x]] \in Positions(MajorSize(f, m)),
           Built(f, m, p, b, MajorSize(f, m), N)
    PROVE  /\ b \in [0 .. MajorSize(f, m) -> 0 .. N]
           /\ b[0] = 0 /\ b[MajorSize(f, m)] = N
           /\ \A q, s \in 0 .. MajorSize(f, m) : q <= s => b[q] <= b[s]
           /\ \A q \in 0 .. MajorSize(f, m) - 1 : \A x \in 0 .. N - 1 :
                 b[q] <= x /\ x < b[q + 1] <=> MajorArray(f, m).data[p[x]] = q
<1> DEFINE M == MajorSize(f, m)
           J(x) == MajorArray(f, m).data[p[x]]
<1>1. /\ M \in Nat /\ b \in [0 .. M -> Int] /\ b[0] = 0
      /\ \A x \in 0 .. N - 1 : J(x) \in 0 .. M - 1
  BY DEF Built, Positions
<1>2. ASSUME NEW s \in 0 .. M
      PROVE  /\ b[s] \in 0 .. N
             /\ \A x \in 0 .. N - 1 : (x < b[s] <=> J(x) < s)
  <2>1. /\ b[s] \in 0 .. N
        /\ \A x \in 0 .. b[s] - 1 : J(x) < s
        /\ \A x \in b[s] .. N - 1 : s <= J(x)
    BY DEF Built
  <2>2. ASSUME NEW x \in 0 .. N - 1 PROVE x < b[s] <=> J(x) < s
    <3>1. x \in 0 .. b[s] - 1 \/ x \in b[s] .. N - 1
      BY <2>1
    <3>2. J(x) \in Int /\ s \in Int
      BY <1>1
    <3>3. QED
      BY <2>1, <3>1, <3>2
  <2>3. QED
    BY <2>1, <2>2
<1> HIDE DEF M, J
<1>3. b \in [0 .. M -> 0 .. N]
  BY <1>1, <1>2
<1>4. b[M] = N
  <2>1. M \in 0 .. M
    BY <1>1
  <2>2. b[M] \in 0 .. N /\ ~(b[M] < N)
    <3>1. b[M] \in 0 .. N
      BY <1>2, <2>1
    <3>2. ASSUME b[M] < N PROVE FALSE
      <4>1. b[M] \in 0 .. N - 1
        BY <3>1, <3>2
      <4>2. J(b[M]) \in 0 .. M - 1 /\ ~(J(b[M]) < M)
        BY <1>1, <1>2, <2>1, <3>1, <4>1
      <4>3. QED
        BY <1>1, <4>2
    <3>3. QED
      BY <3>1, <3>2
  <2>3. QED
    BY <2>2
<1>5. ASSUME NEW q \in 0 .. M, NEW s \in 0 .. M, q <= s PROVE b[q] <= b[s]
  <2>1. b[q] \in 0 .. N /\ b[s] \in 0 .. N
    BY <1>2
  <2>2. ASSUME b[s] < b[q] PROVE FALSE
    <3>1. b[s] \in 0 .. N - 1
      BY <2>1, <2>2
    <3>2. J(b[s]) < q /\ ~(J(b[s]) < s) /\ J(b[s]) \in Int
      BY <1>1, <1>2, <2>1, <2>2, <3>1
    <3>3. QED
      BY <1>5, <3>2
  <2>3. QED
    BY <2>1, <2>2
<1>6. ASSUME NEW q \in 0 .. M - 1, NEW x \in 0 .. N - 1
      PROVE  b[q] <= x /\ x < b[q + 1] <=> J(x) = q
  <2>1. q \in 0 .. M /\ q + 1 \in 0 .. M
    BY <1>1
  <2>2. (x < b[q] <=> J(x) < q) /\ (x < b[q + 1] <=> J(x) < q + 1)
    BY <1>2, <2>1
  <2>3. b[q] \in Int /\ b[q + 1] \in Int /\ J(x) \in Int
    BY <1>1, <1>2, <2>1
  <2>4. QED
    BY <2>2, <2>3
<1>7. QED
  BY <1>1, <1>3, <1>4, <1>5, <1>6 DEF M, J

LEMMA CoorSides ==
    ASSUME NEW m, IsMatrix(m), WellFormed(m), m.format = "COOR", NEW f \in Compressing
    PROVE  /\ m.nnz \in Nat /\ MajorSize(f, m) \in Nat /\ MinorSize(f, m) \in Nat
           /\ MajorArray(f, m).data \in [Positions(m.nnz) -> Positions(MajorSize(f, m))]
           /\ MinorArray(f, m).data \in [Positions(m.nnz) -> Positions(MinorSize(f, m))]
  BY CoorFacts DEF MajorSize, MinorSize, MajorArray, MinorArray, Compressing

LEMMA CompressedEntriesKept ==
    ASSUME NEW m, IsMatrix(m), WellFormed(m), m.format = "COOR", NEW f \in Compressing,
           NEW p \in Orders(m.nnz), Ascending(f, m, p),
           NEW n, n.format = f, Alike(m, n), ValuesTaken(m, n, p),
           DOMAIN n.values = DOMAIN m.values,
           n.indices_1.data = [k \in Positions(m.nnz) |-> MinorArray(f, m).data[p[k]]],
           Built(f, m, p, n.pointers_to_1.data, MajorSize(f, m), m.nnz)
    PROVE  WellFormed(n) /\ Entries(n) = Entries(m)
<1> DEFINE M == MajorSize(f, m)
           N == m.nnz
           J(x) == MajorArray(f, m).data[p[x]]
           I(x) == MinorArray(f, m).data[p[x]]
           b == n.pointers_to_1.data
<1>1. /\ N \in Nat /\ M \in Nat /\ MinorSize(f, m) \in Nat
      /\ MajorArray(f, m).data \in [Positions(N) -> Positions(M)]
      /\ MinorArray(f, m).data \in [Positions(N) -> Positions(MinorSize(f, m))]
  BY CoorSides
<1>2. /\ p \in [Positions(N) -> Positions(N)]
      /\ \A k \in Positions(N) : \E l \in Positions(N) : p[l] = k
  BY <1>1, OrderType, OrderReaches
<1>3. \A x \in Positions(N) : J(x) \in Positions(M) /\ I(x) \in Positions(MinorSize(f, m))
  BY <1>1, <1>2
<1>4. /\ b \in [0 .. M -> 0 .. N] /\ b[0] = 0 /\ b[M] = N
      /\ \A q, s \in 0 .. M : q <= s => b[q] <= b[s]
      /\ \A q \in 0 .. M - 1 : \A x \in 0 .. N - 1 : b[q] <= x /\ x < b[q + 1] <=> J(x) = q
  <2>1. \A x \in 0 .. N - 1 : MajorArray(f, m).data[p[x]] \in Positions(MajorSize(f, m))
    BY <1>3 DEF Positions
  <2>2. QED
    BY <1>1, <2>1, PointersDelimit, SMTT(30)
<1>5. /\ n.indices_1.data = [k \in Positions(N) |-> I(k)]
      /\ n.indices_1.data \in [Positions(N) -> Positions(MinorSize(f, m))]
  BY <1>3
<1>6. /\ n.nnz = N /\ MajorSize(f, n) = M /\ MinorSize(f, n) = MinorSize(f, m)
      /\ n.is_iso = m.is_iso /\ Larger(n.nrows, n.ncols) = Larger(m.nrows, m.ncols)
  BY DEF Alike, MajorSize, MinorSize
<1>7. \A q : Begins(n, q) = b[q]
  BY DEF Begins
<1>8. \A k, l \in Positions(N) : k < l => J(k) < J(l) \/ (J(k) = J(l) /\ I(k) < I(l))
  BY DEF Ascending
<1> HIDE DEF M, J, I, b
<1>9. ASSUME NEW q \in 0 .. M - 1, NEW k \in b[q] .. b[q + 1] - 1,
             NEW l \in b[q] .. b[q + 1] - 1, k < l
      PROVE  n.indices_1.data[k] < n.indices_1.data[l]
  <2>1. q \in 0 .. M /\ q + 1 \in 0 .. M
    BY <1>1
  <2>2. b[q] \in 0 .. N /\ b[q + 1] \in 0 .. N
    BY <1>4, <2>1
  <2>3. k \in 0 .. N - 1 /\ l \in 0 .. N - 1 /\ b[q] <= k /\ k < b[q + 1]
        /\ b[q] <= l /\ l < b[q + 1]
    BY <1>1, <2>2
  <2>4. J(k) = q /\ J(l) = q
    BY <1>4, <2>3
  <2>5. k \in Positions(N) /\ l \in Positions(N)
    BY <2>3 DEF Positions
  <2>6. I(k) < I(l)
    BY <1>1, <1>8, <1>9, <2>4, <2>5
  <2>7. QED
    BY <1>5, <2>5, <2>6
<1>10. InOrder(n)
  <2>1. PointersSpan(n, M)
    <3>1. \A q \in 0 .. M - 1 : q \in 0 .. M /\ q + 1 \in 0 .. M /\ q <= q + 1
      BY <1>1
    <3>2. QED
      BY <1>4, <1>6, <1>7, <3>1 DEF PointersSpan
  <2>2. (IF n.format = "CSR" THEN n.nrows ELSE n.ncols) = M /\ n.format # "COOR"
    BY <1>6 DEF MajorSize, Compressing
  <2>3. QED
    BY <1>7, <1>9, <2>1, <2>2 DEF InOrder
<1>11. WellFormed(n)
  <2>1. /\ (IF n.format = "CSC" THEN n.ncols ELSE n.nrows) = M /\ n.format # "COOR"
        /\ (IF n.format = "CSC" THEN n.nrows ELSE n.ncols) = MinorSize(f, m)
    BY <1>6 DEF MajorSize, MinorSize, Compressing
  <2>2. /\ Larger(m.nrows, m.ncols) <= Cap("wide")
        /\ DOMAIN m.values = IF m.is_iso THEN {0} ELSE 0 .. N - 1
    BY DEF WellFormed
  <2>3. n.indices_1.data \in [0 .. n.nnz - 1 -> 0 .. MinorSize(f, m) - 1]
    BY <1>5, <1>6 DEF Positions
  <2>4. n.pointers_to_1.data \in [0 .. M -> 0 .. n.nnz]
    BY <1>4, <1>6 DEF b
  <2>5. \A q, s \in 0 .. M : q <= s => Begins(n, q) <= Begins(n, s)
    BY <1>4, <1>7
  <2>6. QED
    BY <1>6, <1>10, <2>1, <2>2, <2>3, <2>4, <2>5 DEF WellFormed
<1>12. ASSUME NEW e PROVE e \in Entries(n) <=> e \in Entries(m)
  <2>1. e \in Entries(m) <=>
          \E k \in Positions(N) :
             e = Entry(f, MajorArray(f, m).data[k], MinorArray(f, m).data[k], Value(m, k))
    BY CoorEntries, CoorFacts
  <2>2. e \in Entries(m) <=> \E x \in Positions(N) : e = Entry(f, J(x), I(x), Value(m, p[x]))
    BY <1>2, <2>1 DEF J, I
  <2>3. e \in Entries(n) <=>
          \E q \in 0 .. M - 1 : \E k \in Positions(N) :
             b[q] <= k /\ k < b[q + 1] /\ e = Entry(f, q, n.indices_1.data[k], Value(n, k))
    <3>1. /\ DOMAIN n.indices_1.data = Positions(n.nnz) /\ MajorSize(f, n) \in Nat
          /\ n.nnz \in Nat
      BY <1>1, <1>5, <1>6
    <3>2. n.pointers_to_1.data \in [0 .. MajorSize(f, n) -> Positions(n.nnz + 1)]
      <4>1. Positions(n.nnz + 1) = 0 .. N
        BY <1>1, <1>6 DEF Positions
      <4>2. QED
        BY <1>4, <1>6, <4>1 DEF b
    <3>3. \A x : x \in Entries(n) <=>
            \E q \in 0 .. MajorSize(f, n) - 1 : \E k \in Positions(n.nnz) :
               /\ Begins(n, q) <= k /\ k < Begins(n, q + 1)
               /\ x = Entry(f, q, n.indices_1.data[k], Value(n, k))
      BY <3>1, <3>2, CompressedEntries, Zenon
    <3>4. QED
      BY <1>6, <1>7, <3>3
  <2>4. \A k \in Positions(N) : Value(n, k) = Value(m, p[k]) /\ n.indices_1.data[k] = I(k)
    BY <1>5 DEF ValuesTaken
  <2>5. e \in Entries(n) <=>
          \E q \in 0 .. M - 1 : \E k \in Positions(N) :
             b[q] <= k /\ k < b[q + 1] /\ e = Entry(f, q, I(k), Value(m, p[k]))
    BY <2>3, <2>4
  <2>6. \A q \in 0 .. M - 1 : \A k \in Positions(N) :
           b[q] <= k /\ k < b[q + 1] <=> J(k) = q
    BY <1>4 DEF Positions
  <2>7. \A k \in Positions(N) : J(k) \in 0 .. M - 1
    BY <1>3 DEF J, M, Positions
  <2>8. QED
    BY <2>2, <2>5, <2>6, <2>7
<1>13. QED
  BY <1>11, <1>12

--------------------------------------------------------------------------------
(* What a step changes. *)

\* The fields of n, which is m with another array f.
LEMMA FieldTaken ==
    ASSUME NEW m, IsMatrix(m), NEW f \in ArrayFields, NEW v, NEW n, Gives(m, f, v, n)
    PROVE  /\ IsMatrix(n) /\ SameShape(m, n)
           /\ n.values = (IF f = "values" THEN v ELSE m.values)
           /\ n.indices_0 = (IF f = "indices_0" THEN v ELSE m.indices_0)
           /\ n.indices_1 = (IF f = "indices_1" THEN v ELSE m.indices_1)
           /\ n.pointers_to_1 = (IF f = "pointers_to_1" THEN v ELSE m.pointers_to_1)
<1>1. n = [format |-> m.format, nrows |-> m.nrows, ncols |-> m.ncols, nnz |-> m.nnz,
           is_iso |-> m.is_iso, values |-> IF f = "values" THEN v ELSE m.values,
           indices_0 |-> IF f = "indices_0" THEN v ELSE m.indices_0,
           indices_1 |-> IF f = "indices_1" THEN v ELSE m.indices_1,
           pointers_to_1 |-> IF f = "pointers_to_1" THEN v ELSE m.pointers_to_1]
  BY DEF IsMatrix, ArrayFields, Gives
<1>2. QED
  BY <1>1 DEF IsMatrix, SameShape

\* Where the array that is replaced belongs to a compressed format.
LEMMA SidesTaken ==
    ASSUME NEW m, IsMatrix(m), NEW f \in Compressing, NEW g \in ArrayFields, NEW v, NEW n,
           Gives(m, g, v, n)
    PROVE  /\ g = (IF f = "CSR" THEN "indices_0" ELSE "indices_1") =>
                 MajorArray(f, n) = v /\ MinorArray(f, n) = MinorArray(f, m)
                 /\ n.values = m.values
           /\ g = (IF f = "CSR" THEN "indices_1" ELSE "indices_0") =>
                 MinorArray(f, n) = v /\ MajorArray(f, n) = MajorArray(f, m)
                 /\ n.values = m.values
  BY FieldTaken DEF MajorArray, MinorArray, Compressing

\* The data of an array of integers are replaced.
LEMMA DataReplaced ==
    ASSUME NEW m, IsMatrix(m), NEW f \in {"indices_0", "indices_1", "pointers_to_1"},
           NEW t, NEW d, m[f] = Indexes(t, d), NEW e, NEW n, n = [m EXCEPT ![f].data = e]
    PROVE  Gives(m, f, Indexes(t, e), n)
<1>1. [m[f] EXCEPT !.data = e] = Indexes(t, e)
  BY DEF Indexes
<1>2. n = [m EXCEPT ![f] = [m[f] EXCEPT !.data = e]]
  OBVIOUS
<1>3. QED
  BY <1>1, <1>2 DEF Gives

\* The matrix that is converted and the one that is built, while a call runs.
LEMMA RunningMatrices ==
    ASSUME ConvertInv, stage # "done"
    PROVE  /\ IsMatrix(matrix) /\ IsMatrix(result) /\ Alike(matrix, result)
           /\ result.format = To /\ To \in Formats3 /\ matrix.format \in Formats3
           /\ matrix.format # To /\ outcome = "running"
           /\ To = "COOR" => Compressed = matrix.format
           /\ To # "COOR" => Compressed = To /\ matrix.format = "COOR" /\ To = target
           /\ Compressed \in Compressing /\ MajorDim = MajorSize(Compressed, matrix)
           /\ matrix.nnz \in Nat /\ MajorDim \in Nat
           /\ r \in 0 .. MajorDim /\ c \in 0 .. matrix.nnz
           /\ stage \in DOMAIN HeldTo
<1>1. /\ SourceInv /\ ResultInv /\ LoopInv /\ StageInv /\ IsMatrix(matrix) /\ IsMatrix(result)
      /\ outcome = "running"
  BY RunningFacts DEF ConvertInv, OutcomeInv
<1>2. /\ To \in Formats3 /\ To # matrix.format /\ matrix.format \in Formats3
      /\ MajorDim \in Nat /\ matrix.nnz \in Nat
  BY <1>1, Direction
<1>3. /\ To = "COOR" => Compressed = matrix.format
      /\ To # "COOR" => Compressed = To /\ matrix.format = "COOR" /\ To = target
  BY <1>2 DEF Compressed, To
<1>4. Compressed \in Compressing
  BY <1>2, <1>3 DEF Formats3, Compressing
<1>5. QED
  BY <1>1, <1>2, <1>3, <1>4 DEF ResultInv, Alike, MajorDim, MajorSize, LoopInv, StageInv

\* What does not change while one conversion is under way.
LEMMA EntriesFrame ==
    ASSUME UNCHANGED <<origin, target, matrix>>
    PROVE  /\ To' = To /\ IndexType' = IndexType /\ Compressed' = Compressed
           /\ MajorDim' = MajorDim /\ TypesFit' = TypesFit /\ FoundInv' = FoundInv
           /\ UNCHANGED indices => Taken' = Taken
<1>1. To' = To /\ MaxDim' = MaxDim
  BY DEF To, MaxDim
<1>2. MaxValue' = MaxValue /\ Compressed' = Compressed
  BY <1>1 DEF MaxValue, Compressed
<1>3. IndexType' = IndexType /\ MajorDim' = MajorDim
  BY <1>1, <1>2 DEF IndexType, MajorDim
<1>4. TypesFit' = TypesFit
  BY <1>1 DEF TypesFit, PointersFit, SameIndexType
<1>5. FoundInv' = FoundInv
  BY <1>1 DEF FoundInv
<1>6. UNCHANGED indices => Taken' = Taken
  BY <1>1 DEF Taken
<1>7. QED
  BY <1>1, <1>2, <1>3, <1>4, <1>5, <1>6

LEMMA EntriesFacts ==
    ASSUME ConvertInv, EntriesInv, TypesFit, stage # "done"
    PROVE  /\ FoundInv /\ WellFormed(matrix)
           /\ To = "COOR" => ExpandInv
           /\ To # "COOR" => CompressInv
  BY DEF EntriesInv, FoundInv

\* A step of a conversion under way.
LEMMA EntriesStep ==
    ASSUME ConvertInv, EntriesInv, stage # "done",
           UNCHANGED <<origin, target, matrix, outcome>>,
           TypesFit => IF To = "COOR" THEN ExpandInv' ELSE CompressInv'
    PROVE  EntriesInv'
<1>1. outcome' # "ok"
  BY RunningMatrices
<1>2. To' = To /\ TypesFit' = TypesFit /\ FoundInv' = FoundInv
  BY EntriesFrame
<1>3. QED
  BY <1>1, <1>2 DEF EntriesInv, ConversionFaithful

\* The index type holds the dimensions and, for pointers, the number of entries.
LEMMA TypeHolds ==
    ASSUME ConvertInv, EntriesInv, TypesFit, stage # "done"
    PROVE  /\ MaxDim \in Nat /\ matrix.nrows <= MaxDim /\ matrix.ncols <= MaxDim
           /\ MajorDim <= MaxDim /\ MinorSize(Compressed, matrix) <= MaxDim
           /\ \A v \in Nat : v <= MaxDim => Stored(IndexType, v) = v
           /\ To # "COOR" => \A v \in Nat : v <= matrix.nnz => Stored(IndexType, v) = v
<1>1. /\ IsMatrix(matrix) /\ WellFormed(matrix) /\ FoundInv
      /\ matrix.nrows \in Nat /\ matrix.ncols \in Nat /\ matrix.nnz \in Nat
  BY RunningMatrices, EntriesFacts DEF IsMatrix
<1>2. /\ MaxDim \in Nat /\ matrix.nrows <= MaxDim /\ matrix.ncols <= MaxDim
      /\ MaxDim <= Cap("wide")
  BY <1>1 DEF MaxDim, Larger, WellFormed
<1>3. MajorDim <= MaxDim /\ MinorSize(Compressed, matrix) <= MaxDim
  BY <1>2 DEF MajorDim, MinorSize
<1>4. Size(matrix.values) \in Nat
  <2>1. IsFiniteSet(DOMAIN matrix.values)
    <3>1. DOMAIN matrix.values = {0} \/ DOMAIN matrix.values = 0 .. matrix.nnz - 1
      BY <1>1 DEF WellFormed
    <3>2. IsFiniteSet({0})
      BY FS_Singleton
    <3>3. IsFiniteSet(0 .. matrix.nnz - 1)
      BY <1>1, FS_Interval
    <3>4. QED
      BY <3>1, <3>2, <3>3
  <2>2. QED
    BY <2>1, FS_CardinalityType DEF Size
<1>5. PICK x \in Nat : IndexType = Pick(x) /\ MaxDim <= x /\ (To # "COOR" => x = MaxValue)
  BY <1>2, <1>4 DEF IndexType, MaxValue, Larger
<1>6. MaxDim <= Cap(IndexType) /\ Cap(IndexType) \in Nat
  BY <1>2, <1>5, WidestCap DEF Pick, Cap
<1>7. \A v \in Nat : v <= Cap(IndexType) => Stored(IndexType, v) = v
  BY <1>5, IndexHeld
<1>8. To # "COOR" => matrix.nnz <= Cap(IndexType)
  <2>1. To # "COOR" => target # "COOR"
    BY RunningMatrices
  <2>2. Size(matrix.values) = Size(origin.values) /\ matrix.nnz = origin.nnz
    BY <1>1 DEF FoundInv, Size
  <2>3. QED
    BY <1>5, <2>1, <2>2 DEF TypesFit, PointersFit, MaxValue
<1>9. \A v \in Nat : v <= MaxDim => v <= Cap(IndexType)
  BY <1>2, <1>6
<1>10. To # "COOR" => \A v \in Nat : v <= matrix.nnz => v <= Cap(IndexType)
  BY <1>1, <1>6, <1>8
<1>11. QED
  BY <1>2, <1>3, <1>7, <1>9, <1>10

\* Indices that are converted to the index type stay the same.
LEMMA ConvertedSame ==
    ASSUME ConvertInv, EntriesInv, TypesFit, stage # "done",
           NEW a, NEW n, NEW d \in Nat, d <= MaxDim, a.data \in [Positions(n) -> Positions(d)]
    PROVE  Converted(a, IndexType) = Indexes(IndexType, a.data)
<1>1. ASSUME NEW k \in Positions(n) PROVE Stored(IndexType, a.data[k]) = a.data[k]
  <2>1. a.data[k] \in Positions(d)
    OBVIOUS
  <2>2. a.data[k] \in Nat /\ a.data[k] <= MaxDim
    BY <2>1, TypeHolds DEF Positions
  <2>3. QED
    BY <2>2, TypeHolds
<1>2. [k \in DOMAIN a.data |-> Stored(IndexType, a.data[k])] = a.data
  BY <1>1
<1>3. QED
  BY <1>2 DEF Converted

--------------------------------------------------------------------------------
(* The steps. *)

\* The values are copied as they are, or in the sorted order.
LEMMA CopyValuesEntries == ASSUME ConvertInv, EntriesInv, CopyValues PROVE EntriesInv'
<1>0. /\ stage = "values" /\ stage' = "minor"
      /\ UNCHANGED <<origin, target, matrix, indices, r, c, outcome>>
  BY DEF CopyValues
<1>1. SUFFICES ASSUME TypesFit PROVE IF To = "COOR" THEN ExpandInv' ELSE CompressInv'
  BY <1>0, EntriesStep
<1>2. /\ To' = To /\ Taken' = Taken /\ IsMatrix(result) /\ Alike(matrix, result)
      /\ To \in Formats3 /\ matrix.nnz \in Nat /\ matrix.is_iso = result.is_iso
  BY <1>0, EntriesFrame, RunningMatrices DEF Alike
<1> DEFINE v == IF To = "CSC" /\ ~matrix.is_iso
                THEN [k \in DOMAIN matrix.values |-> matrix.values[indices[k]]]
                ELSE matrix.values
<1>3. result' = [result EXCEPT !["values"] = v]
  BY DEF CopyValues
<1> HIDE DEF v
<1>4. result'.values = v /\ result'.is_iso = matrix.is_iso
  <2>1. "values" \in ArrayFields /\ Gives(result, "values", v, result')
    BY <1>3 DEF ArrayFields, Gives
  <2>2. QED
    BY <1>2, <2>1, FieldTaken DEF SameShape
<1>5. CASE To = "COOR"
  BY <1>0, <1>4, <1>5 DEF ExpandInv, v
<1>6. CASE To # "COOR"
  <2>1. /\ Taken \in Orders(matrix.nnz) /\ Ascending(To, matrix, Taken)
        /\ WellFormed(matrix)
    BY <1>0, <1>1, <1>6, EntriesFacts DEF CompressInv
  <2>2. ASSUME NEW k \in Positions(matrix.nnz)
        PROVE  Value(result', k) = Value(matrix, Taken[k])
    <3>1. CASE matrix.is_iso
      BY <1>4, <3>1 DEF Value, v
    <3>2. CASE ~matrix.is_iso
      <4>1. Taken[k] = IF To = "CSR" THEN k ELSE indices[k]
        BY DEF Taken
      <4>2. k \in DOMAIN matrix.values
        BY <2>1, <3>2 DEF WellFormed, Positions
      <4>3. v[k] = matrix.values[Taken[k]]
        BY <1>2, <1>6, <3>2, <4>1, <4>2 DEF v, Formats3
      <4>4. QED
        BY <1>4, <3>2, <4>3 DEF Value
    <3>3. QED
      BY <3>1, <3>2
  <2>3. ValuesTaken(matrix', result', Taken')
    BY <1>0, <1>2, <2>2 DEF ValuesTaken
  <2>4. QED
    BY <1>0, <1>2, <1>6, <2>1, <2>3 DEF CompressInv
<1>7. QED
  BY <1>5, <1>6

\* bsp_array_awrite moves elements unchanged between arrays of one type.
LEMMA SameTypeOfRows ==
    ASSUME ConvertInv, EntriesInv, TypesFit, stage # "done", To = "CSC"
    PROVE  matrix.indices_0.type = IndexType
<1>1. target = "CSC" /\ SourceInv /\ FoundInv /\ matrix.format = "COOR"
  BY RunningMatrices, RunningFacts, EntriesFacts
<1>2. IndexType = Pick(Larger(MaxDim, Size(origin.values)))
  BY <1>1 DEF IndexType, MaxValue, FoundInv, Size
<1>3. (IF origin.format = "COOR" THEN origin.indices_0.type ELSE Pick(MaxDim))
        = Pick(Larger(MaxDim, Size(origin.values)))
  BY <1>1 DEF TypesFit, SameIndexType
<1>4. CASE matrix = origin
  BY <1>1, <1>2, <1>3, <1>4
<1>5. CASE matrix # origin
  BY <1>1, <1>2, <1>3, <1>5 DEF SourceInv, FoundInv
<1>6. QED
  BY <1>4, <1>5

LEMMA CopyMinorEntries == ASSUME ConvertInv, EntriesInv, CopyMinor PROVE EntriesInv'
<1>0. /\ stage = "minor" /\ stage' = AfterMinor
      /\ UNCHANGED <<origin, target, matrix, indices, r, c, outcome>>
  BY DEF CopyMinor
<1>1. SUFFICES ASSUME TypesFit PROVE IF To = "COOR" THEN ExpandInv' ELSE CompressInv'
  BY <1>0, EntriesStep
<1>2. /\ To' = To /\ Taken' = Taken /\ IndexType' = IndexType /\ Compressed' = Compressed
      /\ IsMatrix(result) /\ IsMatrix(matrix) /\ WellFormed(matrix)
      /\ To \in Formats3 /\ matrix.nnz \in Nat /\ Compressed \in Compressing
  BY <1>0, <1>1, EntriesFrame, RunningMatrices, EntriesFacts
<1>3. CASE To = "COOR"
  <2>1. /\ stage' = "major" /\ ExpandInv /\ Compressed = matrix.format
        /\ result.values = matrix.values
    BY <1>0, <1>1, <1>3, EntriesFacts, RunningMatrices DEF AfterMinor, ExpandInv
  <2>2. Converted(matrix.indices_1, IndexType) = Indexes(IndexType, matrix.indices_1.data)
    BY <1>0, <1>1, <1>2, <2>1, CompressedFacts, TypeHolds, ConvertedSame
  <2>3. Gives(result, Minor, Indexes(IndexType, matrix.indices_1.data), result')
    BY <1>3, <2>2 DEF CopyMinor, Gives
  <2>4. Minor \in ArrayFields /\ Minor = (IF Compressed = "CSR" THEN "indices_1" ELSE "indices_0")
    BY DEF Minor, ArrayFields
  <2>5. /\ MinorArray(Compressed, result') = Indexes(IndexType, matrix.indices_1.data)
        /\ result'.values = matrix.values
    BY <1>2, <2>1, <2>3, <2>4, SidesTaken
  <2>6. QED
    BY <1>0, <1>2, <1>3, <2>1, <2>5 DEF ExpandInv
<1>4. CASE To # "COOR"
  <2>1. /\ stage' = "pointers" /\ CompressInv /\ matrix.format = "COOR"
        /\ Taken \in Orders(matrix.nnz) /\ Ascending(To, matrix, Taken)
        /\ ValuesTaken(matrix, result, Taken) /\ Compressed = To
    BY <1>0, <1>1, <1>4, EntriesFacts, RunningMatrices DEF AfterMinor, CompressInv
  <2>2. /\ matrix.indices_0.data \in [Positions(matrix.nnz) -> Positions(matrix.nrows)]
        /\ matrix.indices_1.data \in [Positions(matrix.nnz) -> Positions(matrix.ncols)]
    BY <1>2, <2>1, CoorFacts
  <2> DEFINE d == [k \in Positions(matrix.nnz) |-> MinorArray(To, matrix).data[Taken[k]]]
  <2>3. PICK a : Gives(result, "indices_1", a, result') /\ a.data = d
    <3>1. CASE To = "CSR"
      <4>1. d = matrix.indices_1.data
        BY <2>2, <3>1 DEF Taken, MinorArray
      <4>2. Converted(matrix.indices_1, IndexType) = Indexes(IndexType, matrix.indices_1.data)
        <5>1. matrix.ncols \in Nat /\ matrix.ncols <= MaxDim
          BY <1>0, <1>1, <1>2, TypeHolds DEF IsMatrix
        <5>2. QED
          BY <1>0, <1>1, <2>2, <5>1, ConvertedSame
      <4>3. Gives(result, "indices_1", Indexes(IndexType, d), result')
        BY <3>1, <4>1, <4>2 DEF CopyMinor, Gives
      <4>4. QED
        BY <4>3 DEF Indexes
    <3>2. CASE To = "CSC"
      <4>1. matrix.indices_0.type = IndexType
        BY <1>0, <1>1, <3>2, SameTypeOfRows
      <4>2. \A k : Element(matrix.indices_0, IndexType, k) = matrix.indices_0.data[k]
        BY <4>1 DEF Element
      <4>3. d = [k \in 0 .. matrix.nnz - 1 |-> Element(matrix.indices_0, IndexType, indices[k])]
        BY <3>2, <4>2 DEF MinorArray, Taken, Positions
      <4>4. Gives(result, "indices_1", Indexes(IndexType, d), result')
        BY <3>2, <4>3 DEF CopyMinor, Gives
      <4>5. QED
        BY <4>4 DEF Indexes
    <3>3. QED
      BY <1>2, <1>4, <3>1, <3>2 DEF Formats3
  <2>4. /\ result'.indices_1 = a /\ result'.values = result.values
        /\ result'.is_iso = result.is_iso
    BY <1>2, <2>3, FieldTaken DEF ArrayFields, SameShape
  <2>5. ValuesTaken(matrix', result', Taken')
    BY <1>0, <1>2, <2>1, <2>4 DEF ValuesTaken, Value
  <2>6. result'.indices_1.data =
          [k \in Positions(matrix'.nnz) |-> MinorArray(To', matrix').data[Taken'[k]]]
    BY <1>0, <1>2, <2>3, <2>4
  <2>7. QED
    BY <1>0, <1>2, <1>4, <2>1, <2>5, <2>6 DEF CompressInv
<1>5. QED
  BY <1>3, <1>4

LEMMA AllocateMajorEntries == ASSUME ConvertInv, EntriesInv, AllocateMajor PROVE EntriesInv'
<1>0. /\ stage = "major" /\ stage' = "expand" /\ r' = 0
      /\ UNCHANGED <<origin, target, matrix, indices, c, outcome>>
  BY DEF AllocateMajor
<1>1. SUFFICES ASSUME TypesFit PROVE IF To = "COOR" THEN ExpandInv' ELSE CompressInv'
  BY <1>0, EntriesStep
<1>2. /\ IndexType' = IndexType /\ Compressed' = Compressed
      /\ IsMatrix(result) /\ IsMatrix(matrix) /\ WellFormed(matrix)
      /\ matrix.nnz \in Nat /\ Compressed \in Compressing
  BY <1>0, <1>1, EntriesFrame, RunningMatrices, EntriesFacts
<1>3. To = "COOR" /\ Compressed = matrix.format
  <2>1. To \in Formats3 /\ "major" \in DOMAIN HeldTo
    BY <1>0, RunningMatrices
  <2>2. To = "COOR"
    BY <2>1 DEF Formats3, HeldTo, HeldToCSR, HeldToCSC
  <2>3. QED
    BY <1>0, <2>2, RunningMatrices
<1>4. /\ result.values = matrix.values
      /\ MinorArray(Compressed, result) = Indexes(IndexType, matrix.indices_1.data)
  BY <1>0, <1>1, <1>3, EntriesFacts DEF ExpandInv
<1> DEFINE d == [k \in Positions(matrix.nnz) |-> Junk]
<1>5. Gives(result, Major, Indexes(IndexType, d), result')
  BY DEF AllocateMajor, Gives, Uninitialised, Positions
<1>6. Major \in ArrayFields /\ Major = (IF Compressed = "CSR" THEN "indices_0" ELSE "indices_1")
  BY DEF Major, ArrayFields
<1>7. /\ MajorArray(Compressed, result') = Indexes(IndexType, d)
      /\ MinorArray(Compressed, result') = Indexes(IndexType, matrix.indices_1.data)
      /\ result'.values = matrix.values
  BY <1>2, <1>4, <1>5, <1>6, SidesTaken
<1>8. MajorArray(Compressed, result').data = d /\ d = [k \in Positions(matrix.nnz) |-> d[k]]
  BY <1>7 DEF Indexes
<1>9. Expanded(matrix, 0, d)
  <2>1. Begins(matrix, 0) = 0
    BY <1>2, <1>3, CompressedFacts
  <2>2. QED
    BY <2>1 DEF Expanded
<1>10. QED
  <2>1. ExpandInv'
    BY <1>0, <1>2, <1>7, <1>8, <1>9 DEF ExpandInv
  <2>2. QED
    BY <1>3, <2>1

\* One more row or column is expanded.
LEMMA ExpandedNext ==
    ASSUME NEW m, IsMatrix(m), WellFormed(m), NEW f \in Compressing, m.format = f,
           NEW q \in 0 .. MajorSize(f, m) - 1, NEW d, DOMAIN d = Positions(m.nnz),
           Expanded(m, q, d), NEW e,
           e = [k \in DOMAIN d |->
                  IF Begins(m, q) <= k /\ k < Begins(m, q + 1) THEN q ELSE d[k]]
    PROVE  Expanded(m, q + 1, e)
<1>1. /\ MajorSize(f, m) \in Nat /\ m.nnz \in Nat /\ q \in Nat
      /\ q \in 0 .. MajorSize(f, m) /\ q + 1 \in 0 .. MajorSize(f, m)
      /\ MajorSize(f, m) \in 0 .. MajorSize(f, m)
  BY CompressedFacts
<1>2. /\ Begins(m, q) \in Nat /\ Begins(m, q + 1) \in Nat
      /\ Begins(m, q + 1) <= m.nnz
  BY <1>1, CompressedFacts
<1>3. ASSUME NEW k \in 0 .. Begins(m, q + 1) - 1
      PROVE  e[k] \in 0 .. q /\ Begins(m, e[k]) <= k /\ k < Begins(m, e[k] + 1)
  <2>1. k \in DOMAIN d /\ k < Begins(m, q + 1)
    BY <1>1, <1>2 DEF Positions
  <2>2. CASE Begins(m, q) <= k
    BY <1>1, <2>1, <2>2
  <2>3. CASE ~(Begins(m, q) <= k)
    <3>1. k \in 0 .. Begins(m, q) - 1 /\ e[k] = d[k]
      BY <1>2, <2>1, <2>3
    <3>2. d[k] \in 0 .. q - 1 /\ Begins(m, d[k]) <= k /\ k < Begins(m, d[k] + 1)
      BY <3>1 DEF Expanded
    <3>3. QED
      BY <1>1, <3>1, <3>2
  <2>4. QED
    BY <2>2, <2>3
<1>4. QED
  BY <1>1, <1>3 DEF Expanded

LEMMA ExpandPointersEntries == ASSUME ConvertInv, EntriesInv, ExpandPointers PROVE EntriesInv'
<1>0. /\ stage = "expand" /\ stage' = "expand" /\ r < MajorDim /\ r' = r + 1
      /\ UNCHANGED <<origin, target, matrix, indices, c, outcome>>
  BY DEF ExpandPointers
<1>1. SUFFICES ASSUME TypesFit PROVE IF To = "COOR" THEN ExpandInv' ELSE CompressInv'
  BY <1>0, EntriesStep
<1>2. /\ IndexType' = IndexType /\ Compressed' = Compressed
      /\ IsMatrix(result) /\ IsMatrix(matrix) /\ WellFormed(matrix)
      /\ MajorDim = MajorSize(Compressed, matrix) /\ MajorDim \in Nat
      /\ matrix.nnz \in Nat /\ Compressed \in Compressing /\ r \in 0 .. MajorDim
  BY <1>0, <1>1, EntriesFrame, RunningMatrices, EntriesFacts
<1>3. To = "COOR" /\ Compressed = matrix.format
  <2>1. To \in Formats3 /\ "expand" \in DOMAIN HeldTo
    BY <1>0, RunningMatrices
  <2>2. To = "COOR"
    BY <2>1 DEF Formats3, HeldTo, HeldToCSR, HeldToCSC
  <2>3. QED
    BY <1>0, <2>2, RunningMatrices
<1> DEFINE d == MajorArray(Compressed, result).data
           e == [k \in DOMAIN d |->
                   IF Begins(matrix, r) <= k /\ k < Begins(matrix, r + 1)
                   THEN r ELSE d[k]]
<1>4. /\ result.values = matrix.values
      /\ MinorArray(Compressed, result) = Indexes(IndexType, matrix.indices_1.data)
      /\ MajorArray(Compressed, result) = Indexes(IndexType, d)
      /\ d = [k \in Positions(matrix.nnz) |-> d[k]] /\ Expanded(matrix, r, d)
      /\ DOMAIN d = Positions(matrix.nnz)
  BY <1>0, <1>1, <1>3, EntriesFacts DEF ExpandInv
<1>5. Stored(IndexType, r) = r
  <2>1. r \in Nat /\ r <= MaxDim
    BY <1>0, <1>1, <1>2, TypeHolds
  <2>2. QED
    BY <1>0, <1>1, <2>1, TypeHolds
<1>6. Gives(result, Major, Indexes(IndexType, e), result')
  <2>1. /\ Major \in {"indices_0", "indices_1", "pointers_to_1"}
        /\ result[Major] = MajorArray(Compressed, result)
    BY DEF Major, MajorArray
  <2>2. result' = [result EXCEPT ![Major].data = e]
    BY <1>5, <2>1 DEF ExpandPointers, Begins
  <2> HIDE DEF d, e
  <2>3. result[Major] = Indexes(IndexType, d)
    BY <1>4, <2>1
  <2>4. QED
    BY <1>2, <2>1, <2>2, <2>3, DataReplaced
<1>7. Expanded(matrix, r + 1, e) /\ e = [k \in Positions(matrix.nnz) |-> e[k]]
  <2>1. r \in 0 .. MajorSize(Compressed, matrix) - 1
    BY <1>0, <1>2
  <2> HIDE DEF d
  <2>2. Expanded(matrix, r + 1, e)
    BY <1>2, <1>3, <1>4, <2>1, ExpandedNext
  <2>3. QED
    BY <1>4, <2>2
<1> HIDE DEF d, e
<1>8. Major \in ArrayFields /\ Major = (IF Compressed = "CSR" THEN "indices_0" ELSE "indices_1")
  BY DEF Major, ArrayFields
<1>9. /\ MajorArray(Compressed, result') = Indexes(IndexType, e)
      /\ MinorArray(Compressed, result') = Indexes(IndexType, matrix.indices_1.data)
      /\ result'.values = matrix.values
  BY <1>2, <1>4, <1>6, <1>8, SidesTaken
<1>10. MajorArray(Compressed, result').data = e
  BY <1>9 DEF Indexes
<1>11. ExpandInv'
  BY <1>0, <1>2, <1>7, <1>9, <1>10 DEF ExpandInv
<1>12. QED
  BY <1>3, <1>11

\* All rows or columns are expanded: the entries are those of the source.
LEMMA EndExpandEntries == ASSUME ConvertInv, EntriesInv, EndExpand PROVE EntriesInv'
<1>0. /\ stage = "expand" /\ stage' = AfterExpand /\ r = MajorDim
      /\ UNCHANGED <<origin, target, matrix, result, indices, r, c, outcome>>
  BY DEF EndExpand
<1>1. SUFFICES ASSUME TypesFit PROVE IF To = "COOR" THEN ExpandInv' ELSE CompressInv'
  BY <1>0, EntriesStep
<1>2. /\ IndexType' = IndexType /\ Compressed' = Compressed
      /\ IsMatrix(result) /\ IsMatrix(matrix) /\ WellFormed(matrix) /\ Alike(matrix, result)
      /\ MajorDim = MajorSize(Compressed, matrix) /\ result.format = To
      /\ matrix.nnz \in Nat /\ Compressed \in Compressing
  BY <1>0, <1>1, EntriesFrame, RunningMatrices, EntriesFacts
<1>3. To = "COOR" /\ Compressed = matrix.format
  <2>1. To \in Formats3 /\ "expand" \in DOMAIN HeldTo
    BY <1>0, RunningMatrices
  <2>2. To = "COOR"
    BY <2>1 DEF Formats3, HeldTo, HeldToCSR, HeldToCSC
  <2>3. QED
    BY <1>0, <2>2, RunningMatrices
<1> DEFINE d == MajorArray(Compressed, result).data
<1>4. /\ result.values = matrix.values
      /\ MinorArray(Compressed, result) = Indexes(IndexType, matrix.indices_1.data)
      /\ MajorArray(Compressed, result) = Indexes(IndexType, d)
      /\ d = [k \in Positions(matrix.nnz) |-> d[k]] /\ Expanded(matrix, r, d)
  BY <1>0, <1>1, <1>3, EntriesFacts DEF ExpandInv
<1>6. Placed(matrix, result) /\ (Compressed = "CSR" => InOrder(result))
  <2>1. MinorArray(Compressed, result).data = matrix.indices_1.data
    BY <1>4 DEF Indexes
  <2>2. Expanded(matrix, MajorSize(Compressed, matrix), d)
    BY <1>0, <1>2, <1>4
  <2>3. QED
    BY <1>2, <1>3, <1>4, <2>1, <2>2, ExpandedEntries
<1>7. /\ result.indices_0 = Indexes(IndexType, result.indices_0.data)
      /\ result.indices_1 = Indexes(IndexType, result.indices_1.data)
  BY <1>2, <1>4 DEF MajorArray, MinorArray, Indexes, Compressing
<1>8. (stage' = "return" /\ Compressed = "CSR") \/ stage' = "indices"
  BY <1>0, <1>3 DEF AfterExpand
<1>9. ExpandInv'
  BY <1>0, <1>2, <1>6, <1>7, <1>8 DEF ExpandInv
<1>10. QED
  BY <1>3, <1>9

\* Where the stages that only one direction has lead.
LEMMA StageDirection ==
    ASSUME ConvertInv, stage # "done"
    PROVE  /\ stage \in {"major", "expand", "rowind", "colind", "sorted_values", "permute"}
                 => To = "COOR"
           /\ stage \in {"pointers", "build"} => To # "COOR"
           /\ stage \in {"indices", "sort"} => To # "CSR"
<1>1. To \in Formats3 /\ stage \in DOMAIN HeldTo
  BY RunningMatrices
<1>2. To = "COOR" => HeldTo = HeldToCOOR
  BY DEF HeldTo
<1>3. To = "CSR" => HeldTo = HeldToCSR
  BY DEF HeldTo
<1>4. To = "CSC" => HeldTo = HeldToCSC
  BY DEF HeldTo
<1>5. QED
  BY <1>1, <1>2, <1>3, <1>4 DEF Formats3, HeldToCOOR, HeldToCSR, HeldToCSC

LEMMA AllocateIndicesEntries == ASSUME ConvertInv, EntriesInv, AllocateIndices PROVE EntriesInv'
<1>0. /\ stage = "indices" /\ stage' = "sort"
      /\ UNCHANGED <<origin, target, matrix, result, indices, r, c, outcome>>
  BY DEF AllocateIndices
<1>1. SUFFICES ASSUME TypesFit PROVE IF To = "COOR" THEN ExpandInv' ELSE CompressInv'
  BY <1>0, EntriesStep
<1>2. To' = To /\ IndexType' = IndexType /\ Compressed' = Compressed
  BY <1>0, EntriesFrame
<1>3. CASE To = "COOR"
  <2>1. ExpandInv
    BY <1>0, <1>1, <1>3, EntriesFacts
  <2>2. ExpandInv'
    BY <1>0, <1>2, <2>1 DEF ExpandInv
  <2>3. QED
    BY <1>3, <2>2
<1>4. CASE To # "COOR"
  BY <1>0, <1>4 DEF CompressInv
<1>5. QED
  BY <1>3, <1>4

\* A sorted order of the entries of a coordinate matrix puts each once.
LEMMA SortedAscends ==
    ASSUME NEW m, IsMatrix(m), WellFormed(m), m.format = "COOR", NEW p \in Orders(m.nnz),
           \A k, l \in Positions(m.nnz) : k < l =>
              \/ m.indices_1.data[p[k]] < m.indices_1.data[p[l]]
              \/ /\ m.indices_1.data[p[k]] = m.indices_1.data[p[l]]
                 /\ m.indices_0.data[p[k]] <= m.indices_0.data[p[l]]
    PROVE  Ascending("CSC", m, p)
<1>1. /\ m.nnz \in Nat /\ m.nrows \in Nat /\ m.ncols \in Nat
      /\ m.indices_0.data \in [Positions(m.nnz) -> Positions(m.nrows)]
      /\ m.indices_1.data \in [Positions(m.nnz) -> Positions(m.ncols)]
      /\ Distinct(m)
  BY CoorFacts
<1>2. /\ p \in [Positions(m.nnz) -> Positions(m.nnz)]
      /\ \A k, l \in Positions(m.nnz) : k # l => p[k] # p[l]
  BY <1>1, OrderType
<1>3. ASSUME NEW k \in Positions(m.nnz), NEW l \in Positions(m.nnz), k < l
      PROVE  \/ m.indices_1.data[p[k]] < m.indices_1.data[p[l]]
             \/ /\ m.indices_1.data[p[k]] = m.indices_1.data[p[l]]
                /\ m.indices_0.data[p[k]] < m.indices_0.data[p[l]]
  <2>0. k # l
    BY <1>1, <1>3 DEF Positions
  <2>1. p[k] # p[l] /\ p[k] \in Positions(m.nnz) /\ p[l] \in Positions(m.nnz)
    BY <1>2, <2>0
  <2>2. \A y \in Positions(m.nrows) : y \in Nat
    BY DEF Positions
  <2>3. m.indices_0.data[p[k]] \in Nat /\ m.indices_0.data[p[l]] \in Nat
    BY <1>1, <2>1, <2>2
  <2>4. \/ m.indices_0.data[p[k]] # m.indices_0.data[p[l]]
        \/ m.indices_1.data[p[k]] # m.indices_1.data[p[l]]
    BY <1>1, <2>1 DEF Distinct
  <2>5. QED
    BY <1>3, <2>3, <2>4
<1>4. QED
  BY <1>3 DEF Ascending, MajorArray, MinorArray

LEMMA SortEntries == ASSUME ConvertInv, EntriesInv, Sort PROVE EntriesInv'
<1>0. /\ stage = "sort" /\ stage' = AfterSort
      /\ indices' \in Orders(matrix.nnz) /\ Sorted(indices')
      /\ UNCHANGED <<origin, target, matrix, result, r, c, outcome>>
  BY DEF Sort
<1>1. SUFFICES ASSUME TypesFit PROVE IF To = "COOR" THEN ExpandInv' ELSE CompressInv'
  BY <1>0, EntriesStep
<1>2. /\ To' = To /\ IndexType' = IndexType /\ Compressed' = Compressed
      /\ IsMatrix(matrix) /\ WellFormed(matrix) /\ To \in Formats3 /\ To # "CSR"
      /\ To # "COOR" => matrix.format = "COOR"
      /\ DOMAIN indices' = Positions(matrix.nnz)
  BY <1>0, <1>1, EntriesFrame, RunningMatrices, EntriesFacts, StageDirection DEF Orders, Positions
<1>3. CASE To = "COOR"
  <2>1. ExpandInv /\ stage' = "rowind"
    BY <1>0, <1>1, <1>3, EntriesFacts DEF AfterSort
  <2>2. HasOrder'
    <3>1. Coordinates' = Coordinates
      BY <1>0, <1>2 DEF Coordinates
    <3>2. Sorted(indices)'
      BY <1>0, <1>2, <3>1 DEF Sorted, RowBefore, ColumnBefore
    <3>3. QED
      BY <1>0, <3>2 DEF HasOrder
  <2>3. ExpandInv'
    BY <1>0, <1>2, <2>1, <2>2 DEF ExpandInv
  <2>4. QED
    BY <1>3, <2>3
<1>4. CASE To = "CSC"
  <2>1. stage' = "values" /\ Taken' = indices' /\ matrix.format = "COOR"
    BY <1>0, <1>2, <1>4 DEF AfterSort, Taken
  <2>2. \A k, l \in Positions(matrix.nnz) : k < l =>
           \/ matrix.indices_1.data[indices'[k]] < matrix.indices_1.data[indices'[l]]
           \/ /\ matrix.indices_1.data[indices'[k]] = matrix.indices_1.data[indices'[l]]
              /\ matrix.indices_0.data[indices'[k]] <= matrix.indices_0.data[indices'[l]]
    BY <1>0, <1>2, <1>4 DEF Sorted, ColumnBefore, Coordinates
  <2>3. Ascending("CSC", matrix, indices')
    BY <1>0, <1>2, <2>1, <2>2, SortedAscends
  <2>4. CompressInv'
    BY <1>0, <1>2, <1>4, <2>1, <2>3 DEF CompressInv
  <2>5. QED
    BY <1>4, <2>4
<1>5. QED
  BY <1>2, <1>3, <1>4 DEF Formats3

LEMMA AllocateSortedEntries == ASSUME ConvertInv, EntriesInv, AllocateSorted PROVE EntriesInv'
<1>0. /\ stage \in {"rowind", "colind", "sorted_values"}
      /\ stage' \in {"colind", "sorted_values", "permute"}
      /\ UNCHANGED <<origin, target, matrix, result, indices, r, c, outcome>>
  BY DEF AllocateSorted, AfterColind
<1>1. SUFFICES ASSUME TypesFit PROVE IF To = "COOR" THEN ExpandInv' ELSE CompressInv'
  BY <1>0, EntriesStep
<1>2. To' = To /\ IndexType' = IndexType /\ Compressed' = Compressed /\ To = "COOR"
  BY <1>0, EntriesFrame, StageDirection
<1>3. ExpandInv
  BY <1>0, <1>1, <1>2, EntriesFacts
<1>4. HasOrder /\ HasOrder'
  <2>1. HasOrder
    BY <1>0, <1>3 DEF ExpandInv
  <2>2. Coordinates' = Coordinates
    BY <1>0, <1>2 DEF Coordinates
  <2>3. Sorted(indices)' <=> Sorted(indices)
    BY <1>0, <1>2, <2>2 DEF Sorted, RowBefore, ColumnBefore
  <2>4. QED
    BY <1>0, <2>1, <2>3 DEF HasOrder
<1>5. ExpandInv'
  BY <1>0, <1>2, <1>3, <1>4 DEF ExpandInv
<1>6. QED
  BY <1>2, <1>5

\* n has the arrays u and v of indices and the values w.
Rearranges(m, u, v, w, n) ==
    n = [m EXCEPT !.indices_0.data = u, !.indices_1.data = v, !.values = w]

LEMMA Rearranged ==
    ASSUME NEW m, IsMatrix(m), NEW t, m.indices_0 = Indexes(t, m.indices_0.data),
           m.indices_1 = Indexes(t, m.indices_1.data),
           NEW u, NEW v, NEW w, NEW n, Rearranges(m, u, v, w, n)
    PROVE  /\ IsMatrix(n) /\ SameShape(m, n)
           /\ n.indices_0 = Indexes(t, u) /\ n.indices_1 = Indexes(t, v) /\ n.values = w
<1>1. /\ [m.indices_0 EXCEPT !.data = u] = Indexes(t, u)
      /\ [m.indices_1 EXCEPT !.data = v] = Indexes(t, v)
  BY DEF Indexes
<1>2. n = [m EXCEPT !.indices_0 = [m.indices_0 EXCEPT !.data = u],
                    !.indices_1 = [m.indices_1 EXCEPT !.data = v], !.values = w]
  BY DEF Rearranges, IsMatrix
<1>3. n = [format |-> m.format, nrows |-> m.nrows, ncols |-> m.ncols, nnz |-> m.nnz,
           is_iso |-> m.is_iso, values |-> w, indices_0 |-> Indexes(t, u),
           indices_1 |-> Indexes(t, v), pointers_to_1 |-> m.pointers_to_1]
  BY <1>1, <1>2 DEF IsMatrix
<1>4. QED
  BY <1>3 DEF IsMatrix, SameShape

\* The entries are put in the order of their rows.
LEMMA PermuteEntries == ASSUME ConvertInv, EntriesInv, Permute PROVE EntriesInv'
<1>0. /\ stage = "permute" /\ stage' = "return"
      /\ UNCHANGED <<origin, target, matrix, indices, r, c, outcome>>
  BY DEF Permute
<1>1. SUFFICES ASSUME TypesFit PROVE IF To = "COOR" THEN ExpandInv' ELSE CompressInv'
  BY <1>0, EntriesStep
<1>2. /\ To' = To /\ IndexType' = IndexType /\ To = "COOR" /\ ExpandInv
      /\ IsMatrix(result) /\ IsMatrix(matrix) /\ WellFormed(matrix) /\ Alike(matrix, result)
      /\ result.format = "COOR"
  BY <1>0, <1>1, EntriesFrame, RunningMatrices, EntriesFacts, StageDirection
<1>3. /\ Placed(matrix, result) /\ HasOrder
      /\ result.indices_0 = Indexes(IndexType, result.indices_0.data)
      /\ result.indices_1 = Indexes(IndexType, result.indices_1.data)
  BY <1>0, <1>2 DEF ExpandInv
<1>4. /\ result.nnz \in Nat /\ result.nrows \in Nat /\ result.ncols \in Nat
      /\ result.nnz = matrix.nnz /\ result.is_iso = matrix.is_iso
  BY <1>2 DEF IsMatrix, Alike
<1>5. indices \in Orders(result.nnz) /\ indices \in [Positions(result.nnz) -> Positions(result.nnz)]
  BY <1>3, <1>4, OrderType DEF HasOrder
<1>6. DOMAIN result.indices_0.data = Positions(result.nnz)
      /\ DOMAIN result.indices_1.data = Positions(result.nnz)
  BY <1>3 DEF Placed
<1> DEFINE u == [k \in Positions(result.nnz) |-> result.indices_0.data[indices[k]]]
           v == [k \in Positions(result.nnz) |-> result.indices_1.data[indices[k]]]
           w == IF matrix.is_iso THEN result.values ELSE Permuted(result.values)
<1>7. Rearranges(result, u, v, w, result')
  BY <1>6 DEF Permute, Rearranges, Permuted
<1>8. ASSUME NEW k \in Positions(result.nnz), w = result'.values, result'.is_iso = result.is_iso
      PROVE  Value(result', k) = Value(result, indices[k])
  <2>1. CASE matrix.is_iso
    BY <1>4, <1>8, <2>1 DEF Value
  <2>2. CASE ~matrix.is_iso
    <3>1. DOMAIN result.values = Positions(result.nnz)
      <4>1. "values" \in HeldTo[stage]
        BY <1>0, <1>2 DEF HeldTo, HeldToCOOR
      <4>2. ValuesInv
        BY <1>0, RunningFacts
      <4>3. DOMAIN matrix.values = Positions(matrix.nnz)
        BY <1>2, <2>2 DEF WellFormed, Positions
      <4>4. QED
        BY <1>4, <4>1, <4>2, <4>3 DEF ValuesInv
    <3>2. QED
      BY <1>4, <1>8, <2>2, <3>1 DEF Value, Permuted
  <2>3. QED
    BY <2>1, <2>2
<1> HIDE DEF u, v, w
<1>9. /\ SameShape(result, result')
      /\ result'.indices_0 = Indexes(IndexType, u) /\ result'.indices_1 = Indexes(IndexType, v)
      /\ result'.values = w
  BY <1>2, <1>3, <1>7, Rearranged
<1>10. /\ Alike(result, result') /\ result'.format = "COOR"
       /\ result'.indices_0.data = u /\ result'.indices_1.data = v
  BY <1>2, <1>9 DEF Alike, SameShape, Indexes
<1>11. ValuesTaken(result, result', indices)
  BY <1>8, <1>9, <1>10 DEF ValuesTaken, Alike
<1>12. \A k, l \in Positions(result.nnz) : k < l =>
          \/ result.indices_0.data[indices[k]] < result.indices_0.data[indices[l]]
          \/ /\ result.indices_0.data[indices[k]] = result.indices_0.data[indices[l]]
             /\ result.indices_1.data[indices[k]] <= result.indices_1.data[indices[l]]
  BY <1>2, <1>3, <1>5 DEF HasOrder, Sorted, RowBefore, Coordinates
<1>13. Placed(matrix, result') /\ InOrder(result')
  <2>1. /\ result'.indices_0.data =
             [k \in Positions(result.nnz) |-> result.indices_0.data[indices[k]]]
        /\ result'.indices_1.data =
             [k \in Positions(result.nnz) |-> result.indices_1.data[indices[k]]]
    BY <1>10 DEF u, v
  <2>2. QED
    BY <1>2, <1>3, <1>4, <1>5, <1>10, <1>11, <1>12, <2>1, PermutedEntries
<1>14. /\ result'.indices_0 = Indexes(IndexType, result'.indices_0.data)
       /\ result'.indices_1 = Indexes(IndexType, result'.indices_1.data)
  BY <1>9, <1>10
<1>15. ExpandInv'
  BY <1>0, <1>2, <1>13, <1>14 DEF ExpandInv
<1>16. QED
  BY <1>2, <1>15

\* One more row or column begins at the next entry.
LEMMA BuiltRow ==
    ASSUME NEW m, IsMatrix(m), WellFormed(m), m.format = "COOR", NEW f \in Compressing,
           NEW p \in Orders(m.nnz), Ascending(f, m, p),
           NEW q \in 0 .. MajorSize(f, m) - 1, NEW k \in 0 .. m.nnz,
           k # m.nnz => q < MajorArray(f, m).data[p[k]],
           NEW b, Built(f, m, p, b, q, k), NEW e, e = [b EXCEPT ![q + 1] = k]
    PROVE  Built(f, m, p, e, q + 1, k)
<1> DEFINE M == MajorSize(f, m)
           N == m.nnz
           J(x) == MajorArray(f, m).data[p[x]]
<1>1. /\ N \in Nat /\ M \in Nat
      /\ \A x \in 0 .. N - 1 : J(x) \in 0 .. M - 1
  <2>1. /\ N \in Nat /\ M \in Nat
        /\ MajorArray(f, m).data \in [Positions(N) -> Positions(M)]
    BY CoorSides
  <2>2. p \in [Positions(N) -> Positions(N)]
    BY <2>1, OrderType
  <2>3. QED
    BY <2>1, <2>2 DEF Positions
<1>2. /\ b \in [0 .. M -> Int] /\ b[0] = 0
      /\ \A s \in 0 .. q : /\ b[s] \in 0 .. k
                           /\ \A x \in 0 .. b[s] - 1 : J(x) < s
                           /\ \A x \in b[s] .. N - 1 : s <= J(x)
      /\ \A x \in 0 .. k - 1 : J(x) <= q
  BY DEF Built
<1>3. \A x, y \in 0 .. N - 1 : x < y => J(x) <= J(y)
  <2>1. \A x, y \in Positions(N) : x < y => J(x) < J(y) \/ J(x) = J(y)
    BY DEF Ascending
  <2>2. QED
    BY <1>1, <2>1 DEF Positions
<1>4. k # N => q < J(k)
  OBVIOUS
<1> HIDE DEF M, N, J
<1>5. /\ e \in [0 .. M -> Int] /\ e[q + 1] = k /\ e[0] = 0 /\ \A s \in 0 .. q : e[s] = b[s]
  <2>1. q + 1 \in 0 .. M /\ k \in Int /\ q \in Nat /\ 0 \in 0 .. q
    BY <1>1 DEF M, N
  <2>2. \A s \in 0 .. q : s \in 0 .. M /\ s # q + 1
    BY <1>1, <2>1
  <2>3. QED
    BY <1>2, <2>1, <2>2
<1>6. /\ \A x \in 0 .. k - 1 : J(x) < q + 1
      /\ \A x \in k .. N - 1 : q + 1 <= J(x)
  <2>1. k \in 0 .. N /\ q \in Nat
    BY DEF N
  <2>2. ASSUME NEW x \in k .. N - 1 PROVE q + 1 <= J(x)
    <3>1. k \in 0 .. N - 1 /\ x \in 0 .. N - 1
      BY <1>1, <2>1
    <3>2. J(k) \in Nat /\ J(x) \in Nat /\ q < J(k)
      BY <1>1, <1>4, <3>1
    <3>3. J(k) <= J(x)
      BY <1>3, <3>1, <3>2
    <3>4. QED
      BY <2>1, <3>2, <3>3
  <2>3. ASSUME NEW x \in 0 .. k - 1 PROVE J(x) < q + 1
    <3>1. x \in 0 .. N - 1 /\ J(x) <= q
      BY <1>1, <1>2, <2>1
    <3>2. J(x) \in Nat
      BY <1>1, <3>1
    <3>3. QED
      BY <2>1, <3>1, <3>2
  <2>4. QED
    BY <2>2, <2>3
<1>7. \A s \in 0 .. q + 1 :
         /\ e[s] \in 0 .. k
         /\ \A x \in 0 .. e[s] - 1 : J(x) < s
         /\ \A x \in e[s] .. N - 1 : s <= J(x)
  <2>1. ASSUME NEW s \in 0 .. q + 1
        PROVE  /\ e[s] \in 0 .. k
               /\ \A x \in 0 .. e[s] - 1 : J(x) < s
               /\ \A x \in e[s] .. N - 1 : s <= J(x)
    <3>1. CASE s = q + 1
      <4>1. k \in 0 .. k
        BY <1>1 DEF N
      <4>2. QED
        BY <1>5, <1>6, <3>1, <4>1
    <3>2. CASE s # q + 1
      <4>1. s \in 0 .. q
        BY <3>2
      <4>2. QED
        BY <1>2, <1>5, <4>1
    <3>3. QED
      BY <3>1, <3>2
  <2>2. QED
    BY <2>1
<1>8. \A x \in 0 .. k - 1 : J(x) <= q + 1
  <2>1. \A x \in 0 .. k - 1 : x \in 0 .. N - 1
    BY <1>1 DEF N
  <2>2. QED
    BY <1>1, <1>2, <2>1
<1>9. QED
  BY <1>5, <1>7, <1>8 DEF Built, M, N, J

\* The next entry is in a row or column that has begun.
LEMMA BuiltEntry ==
    ASSUME NEW f, NEW m, NEW p, NEW b, NEW q \in Nat, NEW k \in Nat,
           MajorArray(f, m).data[p[k]] <= q, Built(f, m, p, b, q, k)
    PROVE  Built(f, m, p, b, q, k + 1)
<1>1. \A s \in 0 .. q : b[s] \in 0 .. k => b[s] \in 0 .. k + 1
  OBVIOUS
<1>2. \A x \in 0 .. k : x = k \/ x \in 0 .. k - 1
  OBVIOUS
<1>3. (k + 1) - 1 = k
  OBVIOUS
<1>4. QED
  BY <1>1, <1>2, <1>3 DEF Built

LEMMA AllocatePointersEntries ==
    ASSUME ConvertInv, EntriesInv, AllocatePointers PROVE EntriesInv'
<1>0. /\ stage = "pointers" /\ stage' = "build" /\ r' = 0 /\ c' = 0
      /\ UNCHANGED <<origin, target, matrix, indices, outcome>>
  BY DEF AllocatePointers
<1>1. SUFFICES ASSUME TypesFit PROVE IF To = "COOR" THEN ExpandInv' ELSE CompressInv'
  BY <1>0, EntriesStep
<1>2. /\ To' = To /\ IndexType' = IndexType /\ Taken' = Taken /\ To # "COOR" /\ CompressInv
      /\ To \in Compressing /\ IsMatrix(result) /\ IsMatrix(matrix) /\ WellFormed(matrix)
      /\ MajorDim = MajorSize(To, matrix) /\ matrix.format = "COOR"
      /\ MajorDim \in Nat /\ matrix.nnz \in Nat
  BY <1>0, <1>1, EntriesFrame, RunningMatrices, EntriesFacts, StageDirection
<1>3. /\ Taken \in Orders(matrix.nnz) /\ Ascending(To, matrix, Taken)
      /\ ValuesTaken(matrix, result, Taken)
      /\ result.indices_1.data =
           [k \in Positions(matrix.nnz) |-> MinorArray(To, matrix).data[Taken[k]]]
  BY <1>0, <1>2 DEF CompressInv
<1> DEFINE b == [Uninitialised(IndexType, MajorDim + 1).data EXCEPT ![0] = 0]
<1>4. b \in [0 .. MajorDim -> Int] /\ b[0] = 0
  BY <1>2 DEF Uninitialised, Indexes, Junk
<1>5. Gives(result, "pointers_to_1", Indexes(IndexType, b), result')
  BY DEF AllocatePointers, Gives
<1> HIDE DEF b
<1>6. /\ result'.pointers_to_1 = Indexes(IndexType, b) /\ result'.pointers_to_1.data = b
      /\ result'.values = result.values /\ result'.indices_1 = result.indices_1
      /\ result'.is_iso = result.is_iso
  <2>1. result'.pointers_to_1 = Indexes(IndexType, b)
    BY <1>2, <1>5, FieldTaken DEF ArrayFields
  <2>2. /\ result'.values = result.values /\ result'.indices_1 = result.indices_1
        /\ SameShape(result, result')
    BY <1>2, <1>5, FieldTaken DEF ArrayFields
  <2>3. QED
    BY <2>1, <2>2 DEF Indexes, SameShape
<1>7. Built(To, matrix, Taken, b, 0, 0)
  <2>1. /\ MajorArray(To, matrix).data \in [Positions(matrix.nnz) -> Positions(MajorDim)]
        /\ Taken \in [Positions(matrix.nnz) -> Positions(matrix.nnz)]
    BY <1>2, <1>3, CoorSides, OrderType
  <2>2. \A x \in 0 .. matrix.nnz - 1 : 0 <= MajorArray(To, matrix).data[Taken[x]]
    BY <1>2, <2>1 DEF Positions
  <2>3. QED
    BY <1>2, <1>4, <2>2 DEF Built
<1>8. ValuesTaken(matrix, result', Taken)
  BY <1>3, <1>6 DEF ValuesTaken, Value
<1>9. CompressInv'
  BY <1>0, <1>2, <1>3, <1>6, <1>7, <1>8 DEF CompressInv
<1>10. QED
  BY <1>2, <1>9

\* What the loops that build the pointers find.
LEMMA BuildFacts ==
    ASSUME ConvertInv, EntriesInv, TypesFit, stage = "build"
    PROVE  /\ CompressInv /\ To # "COOR" /\ To \in Compressing
           /\ IsMatrix(result) /\ IsMatrix(matrix) /\ WellFormed(matrix)
           /\ Alike(matrix, result) /\ result.format = To /\ matrix.format = "COOR"
           /\ MajorDim = MajorSize(To, matrix) /\ MajorDim \in Nat /\ matrix.nnz \in Nat
           /\ r \in 0 .. MajorDim /\ c \in 0 .. matrix.nnz
           /\ Taken \in Orders(matrix.nnz) /\ Ascending(To, matrix, Taken)
           /\ ValuesTaken(matrix, result, Taken)
           /\ result.indices_1.data =
                [k \in Positions(matrix.nnz) |-> MinorArray(To, matrix).data[Taken[k]]]
           /\ result.pointers_to_1 = Indexes(IndexType, result.pointers_to_1.data)
           /\ Built(To, matrix, Taken, result.pointers_to_1.data, r, c)
           /\ c < matrix.nnz => MajorOfEntry = MajorArray(To, matrix).data[Taken[c]]
<1>1. /\ To # "COOR" /\ To \in Compressing /\ CompressInv
      /\ IsMatrix(result) /\ IsMatrix(matrix) /\ WellFormed(matrix)
      /\ Alike(matrix, result) /\ result.format = To /\ matrix.format = "COOR"
      /\ MajorDim = MajorSize(To, matrix) /\ MajorDim \in Nat /\ matrix.nnz \in Nat
      /\ r \in 0 .. MajorDim /\ c \in 0 .. matrix.nnz
  BY RunningMatrices, EntriesFacts, StageDirection
<1>2. c < matrix.nnz => MajorOfEntry = MajorArray(To, matrix).data[Taken[c]]
  <2>1. c < matrix.nnz => c \in Positions(matrix.nnz)
    BY <1>1 DEF Positions
  <2>2. QED
    BY <1>1, <2>1 DEF MajorOfEntry, MajorArray, Taken, Compressing
<1>3. QED
  BY <1>1, <1>2 DEF CompressInv

LEMMA SetPointerEntries ==
    ASSUME ConvertInv, EntriesInv, TypesFit, stage = "build", stage' = "build", r' = r + 1,
           UNCHANGED <<origin, target, matrix, indices, c, outcome>>,
           r < MajorDim, c < matrix.nnz => r < MajorOfEntry, SetPointer(c)
    PROVE  To # "COOR" /\ CompressInv'
<1> DEFINE b == result.pointers_to_1.data
           e == [b EXCEPT ![r + 1] = c]
<1>1. /\ CompressInv /\ To # "COOR" /\ To \in Compressing
      /\ IsMatrix(result) /\ IsMatrix(matrix) /\ WellFormed(matrix) /\ matrix.format = "COOR"
      /\ MajorDim = MajorSize(To, matrix) /\ MajorDim \in Nat /\ matrix.nnz \in Nat
      /\ r \in 0 .. MajorDim /\ c \in 0 .. matrix.nnz
      /\ Taken \in Orders(matrix.nnz) /\ Ascending(To, matrix, Taken)
      /\ ValuesTaken(matrix, result, Taken)
      /\ result.indices_1.data =
           [k \in Positions(matrix.nnz) |-> MinorArray(To, matrix).data[Taken[k]]]
      /\ result.pointers_to_1 = Indexes(IndexType, b)
      /\ Built(To, matrix, Taken, b, r, c)
      /\ c < matrix.nnz => r < MajorArray(To, matrix).data[Taken[c]]
  BY BuildFacts
<1>2. To' = To /\ IndexType' = IndexType /\ Taken' = Taken
  BY EntriesFrame
<1>3. Stored(IndexType, c) = c
  <2>1. c \in Nat /\ c <= matrix.nnz
    BY <1>1
  <2>2. QED
    BY <1>1, <2>1, TypeHolds
<1>4. result' = [result EXCEPT !["pointers_to_1"].data = e]
  BY <1>3 DEF SetPointer
<1> HIDE DEF b, e
<1>5. Gives(result, "pointers_to_1", Indexes(IndexType, e), result')
  BY <1>1, <1>4, DataReplaced
<1>6. /\ result'.pointers_to_1 = Indexes(IndexType, e) /\ result'.pointers_to_1.data = e
      /\ result'.values = result.values /\ result'.indices_1 = result.indices_1
      /\ result'.is_iso = result.is_iso
  <2>1. result'.pointers_to_1 = Indexes(IndexType, e)
    BY <1>1, <1>5, FieldTaken DEF ArrayFields
  <2>2. /\ result'.values = result.values /\ result'.indices_1 = result.indices_1
        /\ SameShape(result, result')
    BY <1>1, <1>5, FieldTaken DEF ArrayFields
  <2>3. QED
    BY <2>1, <2>2 DEF Indexes, SameShape
<1>7. Built(To, matrix, Taken, e, r + 1, c)
  <2>1. r \in 0 .. MajorSize(To, matrix) - 1
    BY <1>1
  <2>2. c # matrix.nnz => r < MajorArray(To, matrix).data[Taken[c]]
    BY <1>1
  <2>3. e = [b EXCEPT ![r + 1] = c]
    BY DEF e
  <2>4. QED
    BY <1>1, <2>1, <2>2, <2>3, BuiltRow
<1>8. ValuesTaken(matrix, result', Taken)
  BY <1>1, <1>6 DEF ValuesTaken, Value
<1>9. CompressInv'
  BY <1>1, <1>2, <1>6, <1>7, <1>8 DEF CompressInv
<1>10. QED
  BY <1>1, <1>9

LEMMA AdvanceRowEntries == ASSUME ConvertInv, EntriesInv, AdvanceRow PROVE EntriesInv'
<1>0. /\ stage = "build" /\ stage' = "build" /\ r' = r + 1 /\ SetPointer(c)
      /\ r + 1 <= MajorDim /\ r < MajorOfEntry
      /\ UNCHANGED <<origin, target, matrix, indices, c, outcome>>
  BY DEF AdvanceRow
<1>1. SUFFICES ASSUME TypesFit PROVE IF To = "COOR" THEN ExpandInv' ELSE CompressInv'
  BY <1>0, EntriesStep
<1>2. r < MajorDim
  BY <1>0, <1>1, BuildFacts
<1>3. To # "COOR" /\ CompressInv'
  BY <1>0, <1>1, <1>2, SetPointerEntries
<1>4. QED
  BY <1>3

LEMMA FinishRowsEntries == ASSUME ConvertInv, EntriesInv, FinishRows PROVE EntriesInv'
<1>0. /\ stage = "build" /\ stage' = "build" /\ r' = r + 1 /\ SetPointer(c)
      /\ c = matrix.nnz /\ r < MajorDim
      /\ UNCHANGED <<origin, target, matrix, indices, c, outcome>>
  BY DEF FinishRows, RowsLeft
<1>1. SUFFICES ASSUME TypesFit PROVE IF To = "COOR" THEN ExpandInv' ELSE CompressInv'
  BY <1>0, EntriesStep
<1>2. ~(c < matrix.nnz)
  BY <1>0, <1>1, BuildFacts
<1>3. To # "COOR" /\ CompressInv'
  BY <1>0, <1>1, <1>2, SetPointerEntries
<1>4. QED
  BY <1>3

LEMMA NextEntryEntries == ASSUME ConvertInv, EntriesInv, NextEntry PROVE EntriesInv'
<1>0. /\ stage = "build" /\ stage' = "build" /\ c' = c + 1
      /\ c < matrix.nnz /\ MajorOfEntry <= r
      /\ UNCHANGED <<origin, target, matrix, result, indices, r, outcome>>
  BY DEF NextEntry, RowReached
<1>1. SUFFICES ASSUME TypesFit PROVE IF To = "COOR" THEN ExpandInv' ELSE CompressInv'
  BY <1>0, EntriesStep
<1>2. /\ CompressInv /\ To # "COOR" /\ r \in 0 .. MajorDim /\ c \in 0 .. matrix.nnz
      /\ MajorDim \in Nat /\ matrix.nnz \in Nat
      /\ Built(To, matrix, Taken, result.pointers_to_1.data, r, c)
      /\ MajorArray(To, matrix).data[Taken[c]] <= r
  BY <1>0, <1>1, BuildFacts
<1>3. To' = To /\ IndexType' = IndexType /\ Taken' = Taken
  BY <1>0, EntriesFrame
<1>4. Built(To, matrix, Taken, result.pointers_to_1.data, r, c + 1)
  <2>1. r \in Nat /\ c \in Nat
    BY <1>2
  <2>2. QED
    BY <1>2, <2>1, BuiltEntry
<1>5. CompressInv'
  BY <1>0, <1>2, <1>3, <1>4 DEF CompressInv
<1>6. QED
  BY <1>2, <1>5

\* The pointers are complete: the entries are those of the source.
LEMMA EndBuildEntries == ASSUME ConvertInv, EntriesInv, EndBuild PROVE EntriesInv'
<1>0. /\ stage = "build" /\ stage' = "return" /\ c = matrix.nnz /\ r = MajorDim
      /\ UNCHANGED <<origin, target, matrix, result, indices, r, c, outcome>>
  BY DEF EndBuild
<1>1. SUFFICES ASSUME TypesFit PROVE IF To = "COOR" THEN ExpandInv' ELSE CompressInv'
  BY <1>0, EntriesStep
<1>2. /\ To # "COOR" /\ To \in Compressing
      /\ IsMatrix(matrix) /\ WellFormed(matrix)
      /\ Alike(matrix, result) /\ result.format = To /\ matrix.format = "COOR"
      /\ Taken \in Orders(matrix.nnz) /\ Ascending(To, matrix, Taken)
      /\ ValuesTaken(matrix, result, Taken)
      /\ result.indices_1.data =
           [k \in Positions(matrix.nnz) |-> MinorArray(To, matrix).data[Taken[k]]]
      /\ Built(To, matrix, Taken, result.pointers_to_1.data, MajorSize(To, matrix), matrix.nnz)
  BY <1>0, <1>1, BuildFacts
<1>3. DOMAIN result.values = DOMAIN matrix.values
  <2>1. ValuesInv /\ To \in Formats3
    BY <1>0, RunningFacts, RunningMatrices
  <2>2. "values" \in HeldTo["build"]
    BY <1>2, <2>1 DEF HeldTo, HeldToCSR, HeldToCSC, Formats3
  <2>3. QED
    BY <1>0, <2>1, <2>2 DEF ValuesInv
<1>4. WellFormed(result) /\ Entries(result) = Entries(matrix)
  BY <1>2, <1>3, CompressedEntriesKept
<1>5. CompressInv'
  BY <1>0, <1>4 DEF CompressInv
<1>6. QED
  BY <1>2, <1>5

\* A coordinate matrix in its order is ready to be compressed to CSR as it is.
LEMMA InOrderAscends ==
    ASSUME NEW m, m.format = "COOR", m.nnz \in Nat,
           DOMAIN m.indices_0.data = Positions(m.nnz), InOrder(m)
    PROVE  /\ [k \in Positions(m.nnz) |-> k] \in Orders(m.nnz)
           /\ Ascending("CSR", m, [k \in Positions(m.nnz) |-> k])
<1>1. [k \in Positions(m.nnz) |-> k] \in Orders(m.nnz)
  BY DEF Orders, Positions
<1>2. \A k, l \in Positions(m.nnz) : k < l =>
         \/ m.indices_0.data[k] < m.indices_0.data[l]
         \/ /\ m.indices_0.data[k] = m.indices_0.data[l]
            /\ m.indices_1.data[k] < m.indices_1.data[l]
  BY DEF InOrder
<1>3. QED
  BY <1>1, <1>2 DEF Ascending, MajorArray, MinorArray

\* Where a conversion to coordinates begins, nothing is claimed yet; one to a
\* compressed format begins with its entries in their order, or is to sort them.
LEMMA BeginsReady ==
    ASSUME WellFormed(matrix), IsMatrix(matrix), To \in Formats3,
           To # "COOR" => matrix.format = "COOR", stage = First(To)
    PROVE  IF To = "COOR" THEN ExpandInv ELSE CompressInv
<1>1. CASE To = "COOR"
  BY <1>1 DEF First, ExpandInv
<1>2. CASE To = "CSR"
  <2>1. /\ matrix.nnz \in Nat /\ InOrder(matrix)
        /\ DOMAIN matrix.indices_0.data = Positions(matrix.nnz)
    BY <1>2, CoorFacts
  <2>2. Taken \in Orders(matrix.nnz) /\ Ascending("CSR", matrix, Taken)
    BY <1>2, <2>1, InOrderAscends DEF Taken
  <2>3. stage = "values"
    BY <1>2 DEF First
  <2>4. QED
    BY <1>2, <2>2, <2>3 DEF CompressInv
<1>3. CASE To = "CSC"
  BY <1>3 DEF First, CompressInv
<1>4. QED
  BY <1>1, <1>2, <1>3 DEF Formats3

\* A coordinate matrix with the entries of a well-formed one is well-formed.
LEMMA PlacedWellFormed ==
    ASSUME NEW m, WellFormed(m), NEW n, IsMatrix(n), n.format = "COOR", Alike(m, n),
           Placed(m, n), InOrder(n), DOMAIN n.values = DOMAIN m.values
    PROVE  WellFormed(n)
<1>1. /\ n.indices_0.data \in [0 .. n.nnz - 1 -> 0 .. n.nrows - 1]
      /\ n.indices_1.data \in [0 .. n.nnz - 1 -> 0 .. n.ncols - 1]
  BY DEF Placed, Positions
<1>2. /\ Larger(m.nrows, m.ncols) <= Cap("wide")
      /\ DOMAIN m.values = IF m.is_iso THEN {0} ELSE 0 .. m.nnz - 1
  BY DEF WellFormed
<1>3. /\ Larger(n.nrows, n.ncols) <= Cap("wide")
      /\ DOMAIN n.values = IF n.is_iso THEN {0} ELSE 0 .. n.nnz - 1
  BY <1>2 DEF Alike
<1>4. QED
  BY <1>1, <1>3 DEF WellFormed

\* The outer of two conversions starts from a well-formed matrix with the same entries.
LEMMA ReturnIntermediateEntries ==
    ASSUME ConvertInv, EntriesInv, ReturnIntermediate PROVE EntriesInv'
<1>0. /\ stage = "return" /\ stage' = First(target) /\ Owner = "intermediate"
      /\ matrix' = result /\ UNCHANGED <<origin, target, outcome>>
  BY DEF ReturnIntermediate
<1>1. /\ SourceInv /\ ValuesInv /\ IsMatrix(result) /\ IsMatrix(matrix) /\ outcome = "running"
      /\ Alike(matrix, result) /\ result.format = To
  BY <1>0, RunningFacts, RunningMatrices
<1>2. /\ To = "COOR" /\ target \in {"CSR", "CSC"} /\ target # "COOR"
  BY <1>0, <1>1, Direction DEF SourceInv
<1>3. To' = target /\ MaxDim' = MaxDim
  BY <1>0, <1>1, <1>2 DEF To, MaxDim, Alike
<1>4. TypesFit' => TypesFit
  BY <1>0, <1>3 DEF TypesFit, PointersFit, SameIndexType
<1>5. SUFFICES ASSUME TypesFit, TypesFit' PROVE FoundInv' /\ CompressInv'
  BY <1>0, <1>1, <1>2, <1>3, <1>4 DEF EntriesInv, ConversionFaithful
<1>6. /\ FoundInv /\ WellFormed(matrix) /\ Placed(matrix, result) /\ InOrder(result)
      /\ result.indices_0 = Indexes(IndexType, result.indices_0.data)
  BY <1>0, <1>2, <1>5, EntriesFacts DEF ExpandInv
<1>7. DOMAIN result.values = DOMAIN matrix.values
  <2>1. "values" \in HeldTo[stage]
    BY <1>0, <1>2 DEF HeldTo, HeldToCOOR
  <2>2. QED
    BY <1>1, <2>1 DEF ValuesInv
<1>8. WellFormed(result)
  BY <1>1, <1>2, <1>6, <1>7, PlacedWellFormed
<1>9. result.indices_0.type = Pick(MaxDim)
  BY <1>2, <1>6 DEF Indexes, IndexType
<1>10. FoundInv'
  <2>1. Entries(result) = Entries(matrix)
    BY <1>6 DEF Placed
  <2>2. QED
    BY <1>0, <1>1, <1>3, <1>6, <1>7, <1>8, <1>9, <2>1 DEF FoundInv, Alike
<1>11. CompressInv'
  <2>1. (WellFormed(matrix) /\ IsMatrix(matrix) /\ To \in Formats3
           /\ (To # "COOR" => matrix.format = "COOR") /\ stage = First(To))'
    BY <1>0, <1>1, <1>2, <1>3, <1>8 DEF First, Formats3
  <2>2. (IF To = "COOR" THEN ExpandInv ELSE CompressInv)'
    BY <2>1, BeginsReady, PTL
  <2>3. QED
    BY <1>2, <1>3, <2>2
<1>12. QED
  BY <1>10, <1>11

LEMMA ReturnEntries == ASSUME ConvertInv, EntriesInv, Return PROVE EntriesInv'
<1>0. /\ stage = "return" /\ stage' = "done" /\ Owner = "result" /\ outcome' = "ok"
      /\ UNCHANGED <<origin, target, matrix, result, indices, r, c>>
  BY DEF Return
<1>1. TypesFit' = TypesFit /\ FoundInv' = FoundInv
  BY <1>0, EntriesFrame
<1>2. SUFFICES ASSUME TypesFit PROVE FoundInv /\ ConversionFaithful'
  BY <1>0, <1>1 DEF EntriesInv
<1>3. /\ FoundInv /\ Entries(matrix) = Entries(origin)
      /\ To = "COOR" => ExpandInv
      /\ To # "COOR" => CompressInv
  BY <1>0, <1>2, EntriesFacts DEF FoundInv
<1>4. Entries(result) = Entries(matrix) /\ InOrder(result)
  BY <1>0, <1>3 DEF ExpandInv, CompressInv, Placed, WellFormed
<1>5. Entries(result') = Entries(origin') /\ InOrder(result')
  BY <1>0, <1>3, <1>4
<1>6. QED
  BY <1>3, <1>5 DEF ConversionFaithful

LEMMA AllocationFailsEntries == ASSUME ConvertInv, EntriesInv, AllocationFails PROVE EntriesInv'
<1>0. /\ stage # "done" /\ stage' = "done" /\ outcome' # "ok"
      /\ UNCHANGED <<origin, target, matrix>>
  BY DEF AllocationFails
<1>1. TypesFit' = TypesFit /\ FoundInv' = FoundInv
  BY <1>0, EntriesFrame
<1>2. QED
  BY <1>0, <1>1 DEF EntriesInv, ConversionFaithful

LEMMA StutterEntries == ASSUME ConvertInv, EntriesInv, UNCHANGED vars PROVE EntriesInv'
<1>0. UNCHANGED <<origin, target, matrix, result, indices, stage, r, c, outcome>>
  BY DEF vars
<1>1. /\ TypesFit' = TypesFit /\ FoundInv' = FoundInv /\ To' = To /\ Taken' = Taken
      /\ IndexType' = IndexType /\ Compressed' = Compressed
  BY <1>0, EntriesFrame
<1>2. ConversionFaithful' = ConversionFaithful
  BY <1>0 DEF ConversionFaithful
<1>3. HasOrder' = HasOrder
  <2>1. Coordinates' = Coordinates
    BY <1>0, <1>1 DEF Coordinates
  <2>2. QED
    BY <1>0, <1>1, <2>1 DEF HasOrder, Sorted, RowBefore, ColumnBefore
<1>4. ExpandInv' = ExpandInv
  BY <1>0, <1>1, <1>3 DEF ExpandInv
<1>5. CompressInv' = CompressInv
  BY <1>0, <1>1 DEF CompressInv
<1>6. QED
  BY <1>0, <1>1, <1>2, <1>4, <1>5 DEF EntriesInv

LEMMA InitEntriesInv == Init => EntriesInv
<1> SUFFICES ASSUME Init PROVE EntriesInv
  OBVIOUS
<1>0. /\ origin \in Matrices /\ matrix = origin /\ stage = First(To) /\ outcome = "running"
      /\ stage # "done"
  BY DEF Init, First
<1>1. SourceInv /\ IsMatrix(matrix)
  BY InitConvertInv DEF ConvertInv, SourceInv
<1>2. To \in Formats3 /\ (To # "COOR" => matrix.format = "COOR")
  BY <1>1, Direction DEF To
<1>3. WellFormed(matrix)
  BY <1>0, WellFormedAssumption
<1>4. FoundInv
  BY <1>0, <1>3 DEF FoundInv
<1>5. IF To = "COOR" THEN ExpandInv ELSE CompressInv
  BY <1>0, <1>1, <1>2, <1>3, BeginsReady
<1>6. ConversionFaithful
  BY <1>0 DEF ConversionFaithful
<1>7. QED
  BY <1>4, <1>5, <1>6 DEF EntriesInv

LEMMA NextEntriesInv == ConvertInv /\ EntriesInv /\ [Next]_vars => EntriesInv'
  BY CopyValuesEntries, CopyMinorEntries, AllocateMajorEntries, ExpandPointersEntries,
     EndExpandEntries, AllocateIndicesEntries, SortEntries, AllocateSortedEntries,
     PermuteEntries, AllocatePointersEntries, AdvanceRowEntries, NextEntryEntries,
     FinishRowsEntries, EndBuildEntries, ReturnIntermediateEntries, ReturnEntries,
     AllocationFailsEntries, StutterEntries DEF Next, Over

--------------------------------------------------------------------------------
(* The result. *)

\* Between COOR, CSR and CSC, through an intermediate matrix or not, a conversion
\* that returns has the entries of its source, each with its own value, in the
\* order of the format asked for: the loop over the pointers gives each entry its
\* row or column, the sort leaves none out, and the pointers that are built
\* delimit each row's entries -- as long as the index types hold the numbers that
\* are put into them and bsp_array_awrite moves them between arrays of one type.
THEOREM ConversionKeepsEntries == Spec => []FaithfulWhereTypesFit
<1>1. Init => ConvertInv /\ EntriesInv
  BY InitConvertInv, InitEntriesInv
<1>2. (ConvertInv /\ EntriesInv) /\ [Next]_vars => (ConvertInv /\ EntriesInv)'
  BY NextConvertInv, NextEntriesInv
<1>3. EntriesInv => FaithfulWhereTypesFit
  BY DEF EntriesInv, FaithfulWhereTypesFit, TypesFit
<1>4. QED
  BY <1>1, <1>2, <1>3, PTL DEF Spec

================================================================================
