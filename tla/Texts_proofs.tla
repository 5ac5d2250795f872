------------------------------ MODULE Texts_proofs ------------------------------
(******************************************************************************)
(* Proofs about Matrix Market texts and what the programs make of them, in    *)
(* any session of the programs and whatever fails: bsp_mmread returns the     *)
(* matrix of its text; the Binsparse file that mtx2bsp makes of it holds its  *)
(* declamped entries; the text that bsp2mtx makes of that file is read as the *)
(* same matrix again; what check_equivalence says of two files is right; and  *)
(* only texts that nobody promised to read kill a program.                    *)
(******************************************************************************)
EXTENDS Tools_proofs

--------------------------------------------------------------------------------
(* What bsp_mmread has read of a text. *)

IndexType(t) == Pick(Larger(t.nrows, t.ncols))

Header(t) ==
    [DefaultMatrix EXCEPT !.nrows = t.nrows, !.ncols = t.ncols, !.nnz = t.nnz,
                          !.is_iso = (t.type = "pattern")]

\* The arrays that are allocated before step s.
AllocatedBefore(t, s) ==
    CASE s = "indices_0" -> {}
      [] s = "indices_1" -> {"indices_0"}
      [] s = "values" -> IF t.format = "array" THEN {} ELSE {"indices_0", "indices_1"}
      [] OTHER -> {"values"} \cup (IF t.format = "array" THEN {} ELSE {"indices_0", "indices_1"})

\* What bsp_mmread makes of the structure of a text.
TextStructure(t) == IF t.structure \in Structures THEN t.structure ELSE "general"

\* The matrix is the header of t with those arrays.
Prepared(m, t, s) ==
    /\ HasKeys(m)
    /\ \A f \in {"nrows", "ncols", "nnz", "is_iso"} : m[f] = Header(t)[f]
    /\ \A f \in Fields : m[f] = IF f \in AllocatedBefore(t, s) THEN Fresh(t, f) ELSE Absent
    /\ m.format = IF s # "lines" THEN "junk" ELSE IF t.format = "array" THEN "DMATR" ELSE "COO"
    /\ m.structure = IF s = "lines" THEN TextStructure(t) ELSE "general"

Lines == Seq(Int \X Int \X (Int \X Int))

\* An index that has once been stored is not changed by being stored again.
Kept(t, x) == x \in Int /\ Stored(IndexType(t), x) = x

IsFunction(f) == f = [k \in DOMAIN f |-> f[k]]

\* The rows of m are as many as those of t, and its entries in the rows that t's lines
\* have once they are stored.
LineRow(t, j) == (t.lines[j][1] - 1) % (Cap(IndexType(t)) + 1)
RowsOfLines(m, t) ==
    /\ m.nrows = t.nrows
    /\ \A k \in DOMAIN m.indices_0.data :
          \E j \in 1 .. Len(t.lines) : m.indices_0.data[k] = LineRow(t, j)

LEMMA SameRows ==
    ASSUME NEW m, NEW n, NEW t, RowsOfLines(m, t), n.nrows = m.nrows, n.indices_0 = m.indices_0
    PROVE  RowsOfLines(n, t)
  BY DEF RowsOfLines

\* A matrix of the shape of a coordinate text.
Coordinated(m, t) ==
    /\ IsMatrix(m)
    /\ m.format = "COO"
    /\ m.nrows = t.nrows /\ m.ncols = t.ncols /\ m.nnz = t.nnz
    /\ m.is_iso = (t.type = "pattern")
    /\ m.indices_0.type = IndexType(t) /\ m.indices_1.type = IndexType(t)
    /\ DOMAIN m.indices_0.data = 0 .. t.nnz - 1 /\ DOMAIN m.indices_1.data = 0 .. t.nnz - 1
    /\ IsFunction(m.indices_0.data) /\ IsFunction(m.indices_1.data)
    /\ t.lines \in Lines =>
          /\ \A k \in 0 .. t.nnz - 1 : Kept(t, m.indices_0.data[k]) /\ Kept(t, m.indices_1.data[k])
          /\ RowsOfLines(m, t)
    /\ DOMAIN m.values.data = 0 .. Count(t, "values") - 1
    /\ t.type = "pattern" => m.values.data[0] = <<1, 0>>
    /\ m.pointers_to_1 = Absent
    /\ m.structure = TextStructure(t)

\* A matrix of the shape of a dense text.
Filled(m, t) ==
    /\ IsMatrix(m)
    /\ m.format = "DMATR"
    /\ m.nrows = t.nrows /\ m.ncols = t.ncols /\ m.nnz = t.nnz
    /\ m.is_iso = FALSE
    /\ DOMAIN m.values.data = 0 .. t.nnz - 1
    /\ m.indices_0 = Absent /\ m.indices_1 = Absent /\ m.pointers_to_1 = Absent
    /\ m.structure = TextStructure(t)

\* Matrix m has the entries of text t: those of a coordinate text in any order, those of
\* a dense one where bsp_mmread puts them.
Holds(m, t) ==
    IF t.format = "coordinate"
    THEN /\ Coordinated(m, t)
         /\ \A k \in 0 .. t.nnz - 1 :
               m.indices_0.data[k] \in 0 .. t.nrows - 1 /\ m.indices_1.data[k] \in 0 .. t.ncols - 1
         /\ Entries(m) = TextEntries(t)
    ELSE /\ Filled(m, t)
         /\ \A c \in 0 .. t.nnz - 1 : m.values.data[Place(t, c)] = t.lines[c + 1][3]

Sorting == {"sort", "rowind", "colind", "sorted_values", "permute"}

MmreadInv ==
    UnderWay /\ Call = "mmread" /\ step # "start" =>
        /\ Text.valid /\ Readable(Text)
        /\ step \in {"indices_0", "indices_1"} => Text.format # "array"
        /\ step \in {"indices_0", "indices_1", "values", "open", "lines"} =>
              Prepared(matrix, Text, step)
        /\ step \in Sorting =>
              /\ Text.format = "coordinate"
              /\ Coordinated(matrix, Text)
              /\ matrix.values.type = TypeOf[Text.type]
              /\ Complete(Text) => Holds(matrix, Text)
        /\ step \in {"indices_0", "indices_1", "values", "open", "lines"} \cup Sorting

\* The matrix that bsp_mmread has returned.
MmreadResult(m, t) ==
    /\ t.valid /\ Readable(t)
    /\ m.values.type = TypeOf[t.type]
    /\ IF t.format = "coordinate" THEN Coordinated(m, t) /\ (faulted \/ InOrder(m))
                                  ELSE Filled(m, t)
    /\ Complete(t) => Holds(m, t)

ResultInv ==
    UnderWay /\ Call \in {"declamp", "keep"} /\ step = "start" =>
        \/ HasKeys(matrix) /\ matrix.format = "junk" /\ (faulted \/ ~Text.valid)
        \/ MmreadResult(matrix, Text)

--------------------------------------------------------------------------------
(* Where bsp_mmread puts the lines of a dense matrix. *)

\* Division by a positive number, and its rest.
LEMMA Quotient ==
    ASSUME NEW x \in Nat, NEW m \in Nat, m > 0
    PROVE  /\ x \div m \in Nat /\ x % m \in 0 .. m - 1
           /\ x = (x \div m) * m + (x % m)
  BY SMTT(30)

LEMMA QuotientBelow ==
    ASSUME NEW m \in Nat, m > 0, NEW n \in Nat, NEW x \in 0 .. n * m - 1
    PROVE  x \div m \in 0 .. n - 1
<1>1. x \in Nat /\ x \div m \in Nat
  BY Quotient, SMTT(30)
<1>2. x \div m < n
  BY SMTT(30)
<1>3. QED
  BY <1>1, <1>2

\* A multiple of m that is smaller than m is 0.
LEMMA NoMultiple ==
    ASSUME NEW m \in Nat, m > 0, NEW d \in Int, NEW r \in Int, r > -m, r < m, d * m = r
    PROVE  d = 0
  BY SMTT(30)

LEMMA Distributes ==
    ASSUME NEW a \in Int, NEW c \in Int, NEW m \in Int
    PROVE  (a - c) * m = a * m - c * m
  BY SMTT(30)

LEMMA Commutes == ASSUME NEW m \in Int, NEW n \in Int PROVE m * n = n * m
  BY SMTT(30)

\* A number has one quotient and one rest, and two digits make one number.
LEMMA UniqueDigits ==
    ASSUME NEW m \in Nat, m > 0, NEW a \in Nat, NEW b \in 0 .. m - 1,
           NEW c \in Nat, NEW d \in 0 .. m - 1, a * m + b = c * m + d
    PROVE  a = c /\ b = d
<1>1. (a - c) * m = d - b
  <2> DEFINE p == a * m
             q == c * m
  <2>1. p \in Int /\ q \in Int
    OBVIOUS
  <2>2. (a - c) * m = p - q
    BY Distributes
  <2>3. p + b = q + d
    OBVIOUS
  <2> HIDE DEF p, q
  <2>4. p - q = d - b
    BY <2>1, <2>3
  <2>5. QED
    BY <2>2, <2>4
<1>2. a - c = 0
  BY <1>1, NoMultiple
<1>3. a = c
  BY <1>2
<1>4. QED
  BY <1>3

LEMMA DigitsDivide ==
    ASSUME NEW m \in Nat, m > 0, NEW a \in Nat, NEW b \in 0 .. m - 1
    PROVE  (a * m + b) \div m = a /\ (a * m + b) % m = b
<1> DEFINE x == a * m + b
<1>1. x \in Nat
  BY SMTT(30)
<1>2. /\ x \div m \in Nat /\ x % m \in 0 .. m - 1
      /\ (x \div m) * m + (x % m) = a * m + b
  BY <1>1, Quotient
<1>3. x \div m = a /\ x % m = b
  BY <1>2, UniqueDigits
<1>4. QED
  BY <1>3

LEMMA DigitsBelow ==
    ASSUME NEW m \in Nat, NEW n \in Nat, NEW a \in 0 .. n - 1, NEW b \in 0 .. m - 1
    PROVE  a * m + b \in 0 .. n * m - 1
<1>1. a * m \in Nat /\ n * m \in Nat /\ (n - a) * m = n * m - a * m
  BY Distributes, SMTT(30)
<1>2. (n - a) * m >= m
  BY SMTT(30)
<1>3. QED
  BY <1>1, <1>2

\* A dense text with entries.
IsDense(t) ==
    /\ t.nrows \in Nat /\ t.ncols \in Nat /\ t.nrows > 0 /\ t.ncols > 0
    /\ t.nnz = t.nrows * t.ncols

\* The place of line c has the row and the column that the line has not.
LEMMA PlaceFacts ==
    ASSUME NEW t, IsDense(t), NEW c \in 0 .. t.nnz - 1
    PROVE  /\ c \in Nat
           /\ c % t.ncols \in 0 .. t.ncols - 1 /\ c \div t.ncols \in 0 .. t.nrows - 1
           /\ c = (c \div t.ncols) * t.ncols + (c % t.ncols)
           /\ Place(t, c) \in 0 .. t.nnz - 1
           /\ Place(t, c) \div t.nrows = c % t.ncols /\ Place(t, c) % t.nrows = c \div t.ncols
<1> DEFINE m == t.nrows
           n == t.ncols
           q == c \div n
           r == c % n
<1>1. m \in Nat /\ n \in Nat /\ m > 0 /\ n > 0 /\ t.nnz = m * n
  BY DEF IsDense
<1>2. c \in Nat /\ c \in 0 .. m * n - 1
  BY <1>1, SMTT(30)
<1>3. r \in 0 .. n - 1 /\ c = q * n + r
  BY <1>1, <1>2, Quotient
<1>4. q \in 0 .. m - 1
  BY <1>1, <1>2, QuotientBelow
<1>5. Place(t, c) = r * m + q
  BY DEF Place
<1>6. r * m + q \in 0 .. n * m - 1 /\ n * m = m * n
  <2> HIDE DEF m, n, q, r
  <2>1. n * m = m * n
    BY <1>1, Commutes
  <2>2. r * m + q \in 0 .. n * m - 1
    BY <1>1, <1>3, <1>4, DigitsBelow
  <2>3. QED
    BY <2>1, <2>2
<1>7. r \in Nat
  BY <1>1, <1>3
<1> HIDE DEF m, n, q, r
<1>8. (r * m + q) \div m = r /\ (r * m + q) % m = q
  BY <1>1, <1>4, <1>7, DigitsDivide
<1>9. QED
  BY <1>1, <1>2, <1>3, <1>4, <1>5, <1>6, <1>8 DEF m, n, q, r

\* No two lines of a dense matrix get into the same place, and every place gets one.
LEMMA PlaceInjective ==
    ASSUME NEW t, IsDense(t), NEW c \in 0 .. t.nnz - 1, NEW d \in 0 .. t.nnz - 1,
           Place(t, c) = Place(t, d)
    PROVE  c = d
<1>1. c % t.ncols = d % t.ncols /\ c \div t.ncols = d \div t.ncols
  BY PlaceFacts
<1>2. /\ c = (c \div t.ncols) * t.ncols + (c % t.ncols)
      /\ d = (d \div t.ncols) * t.ncols + (d % t.ncols)
  BY PlaceFacts
<1>3. QED
  BY <1>1, <1>2

LEMMA PlaceOnto ==
    ASSUME NEW t, IsDense(t), NEW k \in 0 .. t.nnz - 1
    PROVE  \E c \in 0 .. t.nnz - 1 : Place(t, c) = k
<1> DEFINE m == t.nrows
           n == t.ncols
           q == k \div m
           r == k % m
           c == r * n + q
<1>1. m \in Nat /\ n \in Nat /\ m > 0 /\ n > 0 /\ t.nnz = m * n
  BY DEF IsDense
<1>2. k \in Nat /\ m * n = n * m /\ k \in 0 .. n * m - 1
  BY <1>1, SMTT(30)
<1>3. r \in 0 .. m - 1 /\ k = q * m + r
  BY <1>1, <1>2, Quotient
<1>4. q \in 0 .. n - 1
  BY <1>1, <1>2, QuotientBelow
<1>5. c \in 0 .. m * n - 1
  BY <1>1, <1>3, <1>4, DigitsBelow
<1>6. c \div n = r /\ c % n = q
  <2>1. r \in Nat
    BY <1>1, <1>3
  <2> HIDE DEF r, q, n, m
  <2>2. QED
    BY <1>1, <1>4, <2>1, DigitsDivide
<1> HIDE DEF c
<1>7. Place(t, c) = k
  BY <1>3, <1>6 DEF Place
<1>8. QED
  BY <1>1, <1>5, <1>7

\* A matrix that holds a text is that of the text, unless it is transposed.
LEMMA HoldsReadAs ==
    ASSUME NEW m, NEW t, Complete(t), t.format \in {"coordinate", "array"}, Holds(m, t)
    PROVE  ReadAs(m, t)
<1>1. CASE t.format = "coordinate"
  BY <1>1 DEF Holds, ReadAs, ReadRight
<1>2. CASE t.format = "array"
  <2> DEFINE n == t.nnz
             v == m.values.data
             E == {<<k \div t.ncols, k % t.ncols, v[k]>> : k \in 0 .. n - 1}
             T == {<<(k - 1) % t.nrows, (k - 1) \div t.nrows, t.lines[k][3]>> : k \in 1 .. n}
  <2>1. /\ t.nrows \in Nat /\ t.ncols \in Nat /\ n = t.nrows * t.ncols
        /\ Len(t.lines) = n
    <3>1. Cap("wide") \in Int
      BY NarrowMaxAssumption, SMTT(30) DEF Cap, Base
    <3>2. QED
      BY <1>2, <3>1 DEF Complete
  <2>2. m.format = "DMATR" /\ m.ncols = t.ncols /\ m.nnz = n /\ m.is_iso = FALSE
    BY <1>2 DEF Holds, Filled
  <2>3. Entries(m) = E
    BY <2>2 DEF Entries, ValueOf
  <2>4. TextEntries(t) = T
    BY <1>2 DEF TextEntries
  <2>5. \A c \in 0 .. n - 1 : v[Place(t, c)] = t.lines[c + 1][3]
    BY <1>2 DEF Holds
  <2> HIDE DEF v
  <2>6. ASSUME t.nrows = 0 \/ t.ncols = 0 PROVE ReadAs(m, t)
    <3>1. n = 0
      BY <2>1, <2>6
    <3>2. E = {} /\ T = {}
      BY <3>1
    <3>3. ReadRight(t)
      BY <2>6 DEF ReadRight
    <3>4. QED
      BY <2>3, <2>4, <3>2, <3>3 DEF ReadAs
  <2>7. ASSUME ~(t.nrows = 0 \/ t.ncols = 0) PROVE IsDense(t)
    BY <2>1, <2>7 DEF IsDense
  <2>8. ASSUME IsDense(t), ReadRight(t) PROVE E = T
    <3>1. \A c \in 0 .. n - 1 : /\ Place(t, c) \in 0 .. n - 1
                                /\ Place(t, c) \div t.ncols = c % t.nrows
                                /\ Place(t, c) % t.ncols = c \div t.nrows
      <4>1. CASE t.nrows = t.ncols
        BY <2>8, <4>1, PlaceFacts
      <4>2. CASE t.ncols = 1 \/ t.nrows = 1
        <5> TAKE c \in 0 .. n - 1
        <5>1. c \in Nat /\ Place(t, c) \in 0 .. n - 1
          BY <2>8, PlaceFacts
        <5>2. CASE t.ncols = 1
          <6>1. c % 1 = 0 /\ c \div 1 = c /\ n = t.nrows /\ 0 * t.nrows = 0
            BY <2>1, <5>1, <5>2
          <6>2. Place(t, c) = c
            BY <5>1, <5>2, <6>1 DEF Place
          <6>3. c \div t.nrows = 0 /\ c % t.nrows = c
            <7>1. 0 * t.nrows + c = c /\ c \in 0 .. t.nrows - 1 /\ t.nrows > 0
              BY <2>8, <6>1, <5>1 DEF IsDense
            <7>2. (0 * t.nrows + c) \div t.nrows = 0 /\ (0 * t.nrows + c) % t.nrows = c
              BY <2>1, <7>1, DigitsDivide
            <7>3. QED
              BY <7>1, <7>2
          <6>4. QED
            BY <5>1, <5>2, <6>1, <6>2, <6>3
        <5>3. CASE t.nrows = 1
          <6>1. c % 1 = 0 /\ c \div 1 = c /\ n = t.ncols /\ 0 * t.ncols = 0
            BY <2>1, <5>1, <5>3
          <6>2. c \div t.ncols = 0 /\ c % t.ncols = c
            <7>1. 0 * t.ncols + c = c /\ c \in 0 .. t.ncols - 1 /\ t.ncols > 0
              BY <2>1, <2>8, <6>1, <5>1 DEF IsDense
            <7>2. (0 * t.ncols + c) \div t.ncols = 0 /\ (0 * t.ncols + c) % t.ncols = c
              BY <2>1, <7>1, DigitsDivide
            <7>3. QED
              BY <7>1, <7>2
          <6>3. Place(t, c) = c
            BY <5>1, <5>3, <6>2 DEF Place
          <6>4. QED
            BY <5>1, <5>3, <6>1, <6>2, <6>3
        <5>4. QED
          BY <4>2, <5>2, <5>3
      <4>3. t.nrows = t.ncols \/ t.ncols = 1 \/ t.nrows = 1
        BY <1>2, <2>8 DEF ReadRight, IsDense
      <4>4. QED
        BY <4>1, <4>2, <4>3
    <3>2. \A k \in 0 .. n - 1 : \E c \in 0 .. n - 1 : Place(t, c) = k
      BY <2>8, PlaceOnto
    <3>3. E \subseteq T
      <4>1. ASSUME NEW k \in 0 .. n - 1 PROVE <<k \div t.ncols, k % t.ncols, v[k]>> \in T
        <5>1. PICK c \in 0 .. n - 1 : Place(t, c) = k
          BY <3>2
        <5>2. k \div t.ncols = c % t.nrows /\ k % t.ncols = c \div t.nrows
              /\ v[k] = t.lines[c + 1][3]
          BY <2>5, <3>1, <5>1
        <5>3. c + 1 \in 1 .. n /\ (c + 1) - 1 = c
          BY <2>1, <5>1
        <5>4. QED
          BY <5>2, <5>3
      <4>2. QED
        BY <4>1
    <3>4. T \subseteq E
      <4>1. ASSUME NEW k \in 1 .. n
            PROVE  <<(k - 1) % t.nrows, (k - 1) \div t.nrows, t.lines[k][3]>> \in E
        <5>1. k - 1 \in 0 .. n - 1 /\ (k - 1) + 1 = k
          BY <2>1
        <5>2. /\ Place(t, k - 1) \in 0 .. n - 1
              /\ Place(t, k - 1) \div t.ncols = (k - 1) % t.nrows
              /\ Place(t, k - 1) % t.ncols = (k - 1) \div t.nrows
              /\ v[Place(t, k - 1)] = t.lines[k][3]
          BY <2>5, <3>1, <5>1
        <5>3. QED
          BY <5>2
      <4>2. QED
        BY <4>1
    <3>5. QED
      BY <3>3, <3>4
  <2>9. ASSUME IsDense(t), ~ReadRight(t), Different(t) PROVE E # T
    <3>1. t.nrows >= 2 /\ t.ncols >= 2 /\ t.nrows # t.ncols
      BY <2>1, <2>9 DEF ReadRight
    <3>2. n >= 2 /\ t.ncols \in 0 .. n - 1 /\ t.nrows \in Nat /\ t.ncols \in Nat
      BY <2>1, <3>1, SMTT(30)
    <3>3. <<1, 0, t.lines[2][3]>> \in T
      <4>1. (2 - 1) % t.nrows = 1 /\ (2 - 1) \div t.nrows = 0
        BY <3>1, <3>2
      <4>2. 2 \in 1 .. n
        BY <2>1, <3>2
      <4>3. QED
        BY <4>1, <4>2
    <3>4. ASSUME <<1, 0, t.lines[2][3]>> \in E PROVE FALSE
      <4>1. PICK k \in 0 .. n - 1 : /\ k \div t.ncols = 1 /\ k % t.ncols = 0
                                    /\ v[k] = t.lines[2][3]
        BY <3>4
      <4>2. k \in Nat /\ k = 1 * t.ncols + 0
        <5>1. k \in Nat
          BY <2>1, <4>1
        <5>2. k = (k \div t.ncols) * t.ncols + (k % t.ncols)
          BY <3>1, <3>2, <5>1, Quotient
        <5>3. QED
          BY <4>1, <5>1, <5>2
      <4>3. PICK c \in 0 .. n - 1 : Place(t, c) = k
        BY <2>9, PlaceOnto
      <4>4. t.lines[c + 1][3] = t.lines[2][3]
        BY <2>5, <4>1, <4>3
      <4>5. c + 1 \in 1 .. Len(t.lines) /\ 2 \in 1 .. Len(t.lines)
        BY <2>1, <3>2, <4>3
      <4>6. c + 1 = 2
        BY <2>9, <4>4, <4>5 DEF Different
      <4>7. c = 1
        BY <4>3, <4>6, <2>1
      <4>8. 1 % t.ncols = 1 /\ 1 \div t.ncols = 0
        BY <3>1, <3>2
      <4>9. k = t.nrows
        BY <3>2, <4>3, <4>7, <4>8 DEF Place
      <4>10. QED
        BY <3>1, <3>2, <4>2, <4>9
    <3>5. QED
      BY <3>3, <3>4
  <2> HIDE DEF E, T
  <2>10. QED
    BY <2>3, <2>4, <2>6, <2>7, <2>8, <2>9 DEF ReadAs
<1>3. QED
  BY <1>1, <1>2

--------------------------------------------------------------------------------
(* bsp_mmread. *)

LEMMA TextSame == ASSUME UNCHANGED <<input, copy, todo>> PROVE Text' = Text
  BY DEF Text

\* The end of a program forgets its matrix.
LEMMA DeathForgets ==
    ASSUME IInv, IInv', UnderWay, NEW how \in Ends, NEW failed \in BOOLEAN, End(how, failed)
    PROVE  MmreadInv' /\ ResultInv'
<1>1. step' = "start" /\ (UnderWay' => Call' \in FirstCalls)
  BY AfterEnd
<1>2. QED
  BY <1>1 DEF MmreadInv, ResultInv, FirstCalls

LEMMA MmDeath ==
    ASSUME IInv, IInv', NEW s, Mm(s), NEW how \in {"abort", "crash", "undefined"},
           NEW failed \in BOOLEAN, Dies(how, failed)
    PROVE  MmreadInv' /\ ResultInv'
<1>1. UnderWay /\ End(how, failed) /\ how \in Ends
  BY MmUnderWay DEF Dies, Ends
<1>2. QED
  BY <1>1, DeathForgets

\* A step of bsp_mmread that goes on to step r, and one that returns m.
LEMMA MmStep ==
    ASSUME IInv, NEW s, Mm(s), NEW r, Go(r)
    PROVE  /\ UnderWay' /\ Call' = "mmread" /\ step' = r /\ Text' = Text
           /\ ResultInv'
<1>1. UnderWay /\ Call = "mmread" /\ UNCHANGED <<input, copy, todo, calls>> /\ step' = r
  BY MmUnderWay DEF Go
<1>2. UnderWay' /\ Call' = "mmread"
  BY <1>1 DEF UnderWay, Call
<1>3. QED
  BY <1>1, <1>2, TextSame DEF ResultInv

LEMMA MmResult ==
    ASSUME IInv, NEW s, Mm(s), NEW m, Returned(m),
           \/ HasKeys(m) /\ m.format = "junk" /\ (faulted' \/ ~Text.valid)
           \/ MmreadResult(matrix, Text)'
    PROVE  MmreadInv' /\ ResultInv'
<1>1. UnderWay /\ Call = "mmread"
  BY MmUnderWay
<1>2. /\ matrix' = m /\ step' = "start" /\ calls' = Tail(calls)
      /\ UNCHANGED <<input, copy, todo>>
  BY DEF Returned, Return
<1>3. Text' = Text
  BY <1>2, TextSame
<1>4. QED
  BY <1>2, <1>3 DEF MmreadInv, ResultInv

\* Each step of bsp_mmread keeps MmreadInv and ResultInv.
LEMMA MmHeaderReads ==
    ASSUME IInv, IInv', MmHeader \/ MmHeaderFails PROVE MmreadInv' /\ ResultInv'
<1>1. Mm("start")
  BY DEF MmHeader, MmHeaderFails
<1>2. CASE MmHeader /\ Text.valid
  <2> DEFINE s == IF Text.format = "array" THEN "values" ELSE "indices_0"
  <2>1. Go(s) /\ matrix' = Header(Text) /\ Readable(Text)
    BY <1>2 DEF MmHeader, Header
  <2>2. /\ UnderWay' /\ Call' = "mmread" /\ step' = s /\ Text' = Text
        /\ ResultInv'
    BY <1>1, <2>1, MmStep
  <2>3. Prepared(Header(Text), Text, s)
    BY DEF Prepared, Header, DefaultMatrix, HasKeys, Keys, Fields, AllocatedBefore
  <2>4. QED
    BY <1>2, <2>1, <2>2, <2>3 DEF MmreadInv, Sorting
<1>3. CASE MmHeader /\ ~Text.valid
  <2>1. Returned(DefaultMatrix) /\ DefaultMatrix.format = "junk" /\ HasKeys(DefaultMatrix)
    BY <1>3 DEF MmHeader, DefaultMatrix, HasKeys, Keys
  <2>2. QED
    BY <1>1, <1>3, <2>1, MmResult
<1>4. CASE Returned(DefaultMatrix) /\ faulted' = TRUE
  <2>1. DefaultMatrix.format = "junk" /\ HasKeys(DefaultMatrix)
    BY DEF DefaultMatrix, HasKeys, Keys
  <2>2. QED
    BY <1>1, <1>4, <2>1, MmResult
<1>5. CASE Dies("abort", FALSE) \/ Dies("abort", TRUE)
  BY <1>1, <1>5, MmDeath
<1>6. QED
  BY <1>2, <1>3, <1>4, <1>5 DEF MmHeaderFails

LEMMA MmAllocateReads ==
    ASSUME IInv, MmreadInv, NEW f \in {"indices_0", "indices_1", "values"},
           MmAllocate(f) \/ MmAllocateFails(f)
    PROVE  MmreadInv' /\ ResultInv'
<1>1. Mm(f)
  BY DEF MmAllocate, MmAllocateFails
<1>2. /\ Text.valid /\ Readable(Text) /\ Prepared(matrix, Text, f)
      /\ f # "values" => Text.format # "array"
  BY <1>1, MmUnderWay DEF MmreadInv
<1>3. CASE MmAllocate(f)
  <2>1. Go(After(f)) /\ matrix' = [matrix EXCEPT ![f] = Fresh(Text, f)]
    BY <1>3 DEF MmAllocate
  <2>2. /\ UnderWay' /\ Call' = "mmread" /\ step' = After(f) /\ Text' = Text
        /\ ResultInv'
    BY <1>1, <2>1, MmStep
  <2>3. /\ f = "indices_0" => After(f) = "indices_1"
        /\ f = "indices_1" => After(f) = "values"
        /\ f = "values" => After(f) = "open"
    BY AfterSteps
  <2>4. AllocatedBefore(Text, After(f)) = AllocatedBefore(Text, f) \cup {f}
    BY <1>2, <2>3 DEF AllocatedBefore
  <2>5. Prepared(matrix', Text, After(f))
    <3>1. HasKeys(matrix') /\ \A x \in Keys \ {f} : matrix'[x] = matrix[x]
      BY <1>2, <2>1 DEF Prepared, HasKeys
    <3>2. matrix'[f] = Fresh(Text, f)
      BY <1>2, <2>1 DEF Prepared, HasKeys, Keys
    <3>3. \A g \in Fields :
             matrix'[g] = IF g \in AllocatedBefore(Text, After(f)) THEN Fresh(Text, g) ELSE Absent
      BY <1>2, <2>4, <3>1, <3>2 DEF Prepared, Fields, Keys
    <3>4. After(f) # "lines" /\ f # "lines"
      BY <2>3
    <3>5. /\ \A x \in {"nrows", "ncols", "nnz", "is_iso"} : matrix'[x] = Header(Text)[x]
          /\ matrix'.format = "junk" /\ matrix'.structure = "general"
      BY <1>2, <3>1, <3>4 DEF Prepared, Keys
    <3>6. QED
      BY <3>1, <3>3, <3>4, <3>5 DEF Prepared
  <2>6. QED
    BY <1>2, <2>2, <2>3, <2>5 DEF MmreadInv, Sorting
<1>4. CASE MmAllocateFails(f)
  <2>1. Returned(matrix) /\ faulted' = TRUE /\ matrix.format = "junk" /\ HasKeys(matrix)
    BY <1>2, <1>4 DEF MmAllocateFails, Prepared
  <2>2. QED
    BY <1>1, <2>1, MmResult
<1>5. QED
  BY <1>3, <1>4

LEMMA MmOpenReads ==
    ASSUME IInv, IInv', MmreadInv, MmOpen \/ MmOpenFails PROVE MmreadInv' /\ ResultInv'
<1>1. Mm("open")
  BY DEF MmOpen, MmOpenFails
<1>2. CASE MmOpen
  <2>1. Text.valid /\ Readable(Text) /\ Prepared(matrix, Text, "open")
    BY <1>1, MmUnderWay DEF MmreadInv
  <2>2. Go("lines")
    BY <1>2 DEF MmOpen
  <2>3. /\ UnderWay' /\ Call' = "mmread" /\ step' = "lines" /\ Text' = Text
        /\ ResultInv'
    BY <1>1, <2>2, MmStep
  <2>4. matrix' = [matrix EXCEPT !.format = IF Text.format = "array" THEN "DMATR" ELSE "COO",
                                 !.structure = TextStructure(Text)]
    BY <1>2, <2>1 DEF MmOpen, Prepared, TextStructure
  <2>5. /\ HasKeys(matrix') /\ \A x \in Keys \ {"format", "structure"} : matrix'[x] = matrix[x]
        /\ matrix'.format = IF Text.format = "array" THEN "DMATR" ELSE "COO"
        /\ matrix'.structure = TextStructure(Text)
    BY <2>1, <2>4 DEF Prepared, HasKeys, Keys
  <2>6. AllocatedBefore(Text, "lines") = AllocatedBefore(Text, "open")
    BY DEF AllocatedBefore
  <2>7. Prepared(matrix', Text, "lines")
    BY <2>1, <2>5, <2>6 DEF Prepared, Fields, Keys
  <2>8. QED
    BY <2>1, <2>3, <2>7 DEF MmreadInv, Sorting
<1>3. CASE MmOpenFails
  BY <1>1, <1>3, MmDeath DEF MmOpenFails
<1>4. QED
  BY <1>2, <1>3

\* The index type holds the indices of a matrix whose dimensions the wide type holds.
LEMMA IndexHeld ==
    ASSUME NEW m \in Nat, NEW n \in Nat, m <= Cap("wide"), n <= Cap("wide"), NEW i \in Nat,
           i <= Larger(m, n)
    PROVE  Stored(Pick(Larger(m, n)), i) = i
<1> DEFINE t == Pick(Larger(m, n))
<1>1. Cap("narrow") = NarrowMax /\ Cap("wide") \in Nat
  BY NarrowMaxAssumption, SMTT(30) DEF Cap, Base
<1>2. Larger(m, n) \in Nat /\ Larger(m, n) <= Cap("wide")
  BY <1>1 DEF Larger
<1>3. Larger(m, n) <= Cap(t) /\ Cap(t) \in Nat
  BY <1>1, <1>2, NarrowMaxAssumption DEF Pick
<1> HIDE DEF t
<1>4. i <= Cap(t)
  BY <1>2, <1>3
<1>5. i % (Cap(t) + 1) = i
  BY <1>3, <1>4
<1>6. QED
  BY <1>5 DEF Stored, Junk, t

LEMMA PositionHeld ==
    ASSUME NEW m \in Nat, NEW n \in Nat, NEW i \in 1 .. m
    PROVE  /\ i - 1 \in Nat /\ i - 1 \in 0 .. m - 1
           /\ i - 1 <= Larger(m, n) /\ i - 1 <= Larger(n, m)
  BY DEF Larger

LEMMA PreparedArrays ==
    ASSUME NEW m, NEW t, Prepared(m, t, "lines")
    PROVE  /\ IsMatrix(m)
           /\ m.nrows = t.nrows /\ m.ncols = t.ncols /\ m.nnz = t.nnz
           /\ m.is_iso = (t.type = "pattern")
           /\ m.values = Fresh(t, "values")
           /\ t.format = "array" => m.indices_0 = Absent /\ m.indices_1 = Absent
           /\ t.format # "array" => /\ m.indices_0 = Uninitialised(IndexType(t), t.nnz)
                                    /\ m.indices_1 = Uninitialised(IndexType(t), t.nnz)
           /\ m.pointers_to_1 = Absent
           /\ m.format = IF t.format = "array" THEN "DMATR" ELSE "COO"
           /\ m.structure = TextStructure(t)
<1>1. \A f \in Fields : m[f] = IF f \in AllocatedBefore(t, "lines") THEN Fresh(t, f) ELSE Absent
  BY DEF Prepared
<1>2. /\ AllocatedBefore(t, "lines") = {"values"} \cup
            (IF t.format = "array" THEN {} ELSE {"indices_0", "indices_1"})
      /\ Fields = {"values", "indices_0", "indices_1", "pointers_to_1"}
  BY DEF AllocatedBefore, Fields
<1>3. /\ m.values = Fresh(t, "values") /\ m.pointers_to_1 = Absent
      /\ t.format = "array" => m.indices_0 = Absent /\ m.indices_1 = Absent
      /\ t.format # "array" => /\ m.indices_0 = Fresh(t, "indices_0")
                               /\ m.indices_1 = Fresh(t, "indices_1")
  BY <1>1, <1>2
<1>4. /\ Fresh(t, "indices_0") = Uninitialised(IndexType(t), t.nnz)
      /\ Fresh(t, "indices_1") = Uninitialised(IndexType(t), t.nnz)
  BY DEF Fresh, IndexType
<1>5. \A f : DOMAIN Fresh(t, f) = {"type", "data"}
  BY DEF Fresh, Uninitialised, Indexes
<1>6. DOMAIN Absent = {"type", "data"}
  BY DEF Absent, Indexes
<1>7. IsMatrix(m)
  BY <1>1, <1>5, <1>6 DEF IsMatrix, Prepared
<1>8. /\ m.nrows = t.nrows /\ m.ncols = t.ncols /\ m.nnz = t.nnz
      /\ m.is_iso = (t.type = "pattern")
      /\ m.format = IF t.format = "array" THEN "DMATR" ELSE "COO"
      /\ m.structure = TextStructure(t)
  BY DEF Prepared, Header, DefaultMatrix
<1>9. QED
  BY <1>3, <1>4, <1>7, <1>8

\* What is stored in an index is stored again as it is.
LEMMA StoredTwice ==
    ASSUME NEW t, NEW v \in Int PROVE Kept(t, v % (Cap(IndexType(t)) + 1))
<1> DEFINE c == Cap(IndexType(t))
<1>1. c \in Nat
  <2>1. Cap("wide") \in Nat /\ Cap("narrow") \in Nat
    BY NarrowMaxAssumption, SMTT(30) DEF Cap, Base
  <2>2. QED
    BY <2>1 DEF IndexType, Pick
<1> HIDE DEF c
<1>2. v % (c + 1) \in 0 .. c
  BY <1>1
<1>3. (v % (c + 1)) % (c + 1) = v % (c + 1) /\ v % (c + 1) \in Int /\ v % (c + 1) # -1
  BY <1>1, <1>2
<1>4. QED
  BY <1>3 DEF Kept, Stored, Junk, c

LEMMA MmLinesReads ==
    ASSUME IInv, IInv', MmreadInv, MmLines PROVE MmreadInv' /\ ResultInv'
<1>1. Mm("lines") /\ Text.format = "coordinate"
  BY DEF MmLines
<1>2. Text.valid /\ Readable(Text) /\ Prepared(matrix, Text, "lines")
  BY <1>1, MmUnderWay DEF MmreadInv
<1>3. CASE Dies("undefined", FALSE)
  BY <1>1, <1>3, MmDeath
<1>4. CASE ~Dies("undefined", FALSE)
  <2> DEFINE t == Text
             Of(d) == [k \in 0 .. t.nnz - 1 |->
                         (t.lines[k + 1][d] - 1) % (Cap(matrix.indices_0.type) + 1)]
  <2>1. /\ Go("sort")
        /\ matrix' = [matrix EXCEPT
                        !.indices_0.data = Of(1), !.indices_1.data = Of(2),
                        !.values.data = IF t.type = "pattern" THEN @
                                        ELSE [k \in 0 .. t.nnz - 1 |-> Element(t, k)]]
    BY <1>4 DEF MmLines
  <2>2. /\ UnderWay' /\ Call' = "mmread" /\ step' = "sort" /\ Text' = t
        /\ ResultInv'
    BY <1>1, <2>1, MmStep
  <2>3. /\ IsMatrix(matrix)
        /\ matrix.nrows = t.nrows /\ matrix.ncols = t.ncols /\ matrix.nnz = t.nnz
        /\ matrix.is_iso = (t.type = "pattern")
        /\ matrix.values = Fresh(t, "values")
        /\ matrix.indices_0 = Uninitialised(IndexType(t), t.nnz)
        /\ matrix.indices_1 = Uninitialised(IndexType(t), t.nnz)
        /\ matrix.pointers_to_1 = Absent
        /\ matrix.format = "COO"
        /\ matrix.structure = TextStructure(t)
    BY <1>1, <1>2, PreparedArrays
  <2>11. Len(t.lines) = t.nnz
    BY <1>4 DEF MmLines
  <2> HIDE DEF t
  <2>4. /\ IsMatrix(matrix')
        /\ \A x \in Keys \ {"values", "indices_0", "indices_1"} : matrix'[x] = matrix[x]
        /\ matrix'.indices_0.type = matrix.indices_0.type
        /\ matrix'.indices_1.type = matrix.indices_1.type
        /\ matrix'.values.type = matrix.values.type
        /\ matrix'.indices_0.data = Of(1) /\ matrix'.indices_1.data = Of(2)
        /\ matrix'.values.data = IF t.type = "pattern" THEN matrix.values.data
                                 ELSE [k \in 0 .. t.nnz - 1 |-> Element(t, k)]
    BY <2>1, <2>3 DEF IsMatrix, HasKeys, Keys, Fields
  <2>5. /\ matrix.values.type = TypeOf[t.type]
        /\ t.type = "pattern" => matrix.values.data[0] = <<1, 0>>
        /\ DOMAIN matrix.values.data = 0 .. Count(t, "values") - 1
    BY <2>3 DEF Fresh, Count
  <2>6. matrix.indices_0.type = IndexType(t) /\ matrix.indices_1.type = IndexType(t)
    BY <2>3 DEF Uninitialised, Indexes
  <2>7. DOMAIN matrix'.values.data = 0 .. Count(t, "values") - 1
    BY <2>4, <2>5 DEF Count
  <2>12. ASSUME t.lines \in Lines, NEW k \in 0 .. t.nnz - 1
         PROVE  /\ Kept(t, matrix'.indices_0.data[k]) /\ Kept(t, matrix'.indices_1.data[k])
                /\ \E j \in 1 .. Len(t.lines) : matrix'.indices_0.data[k] = LineRow(t, j)
    <3>1. k + 1 \in 1 .. Len(t.lines)
      BY <2>11, <2>12 DEF Lines
    <3>2. t.lines[k + 1] \in Int \X Int \X (Int \X Int)
      BY <2>12, <3>1 DEF Lines
    <3>3. t.lines[k + 1][1] - 1 \in Int /\ t.lines[k + 1][2] - 1 \in Int
      BY <3>2
    <3>4. matrix'.indices_0.data[k] = LineRow(t, k + 1)
      BY <2>4, <2>6 DEF LineRow
    <3>5. QED
      BY <2>4, <2>6, <3>1, <3>3, <3>4, StoredTwice
  <2>13. IsFunction(matrix'.indices_0.data) /\ IsFunction(matrix'.indices_1.data)
    <3>1. \A d : IsFunction(Of(d))
      BY DEF IsFunction
    <3>2. QED
      BY <2>4, <3>1
  <2>14. DOMAIN matrix'.indices_0.data = 0 .. t.nnz - 1
    BY <2>4
  <2>8. Coordinated(matrix', t)
    BY <2>3, <2>4, <2>5, <2>6, <2>7, <2>12, <2>13, <2>14 DEF Coordinated, Keys, RowsOfLines
  <2>9. ASSUME Complete(t) PROVE Holds(matrix', t)
    <3>1. /\ t.nrows \in Nat /\ t.ncols \in Nat /\ t.nnz \in Nat
          /\ t.nrows <= Cap("wide") /\ t.ncols <= Cap("wide")
          /\ Len(t.lines) = t.nnz
          /\ \A k \in 1 .. t.nnz :
                t.lines[k][1] \in 1 .. t.nrows /\ t.lines[k][2] \in 1 .. t.ncols
      <4>1. Cap("wide") \in Int
        BY NarrowMaxAssumption, SMTT(30) DEF Cap, Base
      <4>2. QED
        BY <1>1, <2>9, <4>1 DEF Complete, t
    <3>2. \A k \in 0 .. t.nnz - 1 :
             /\ k + 1 \in 1 .. t.nnz
             /\ matrix'.indices_0.data[k] = t.lines[k + 1][1] - 1
             /\ matrix'.indices_1.data[k] = t.lines[k + 1][2] - 1
      <4> TAKE k \in 0 .. t.nnz - 1
      <4>1. k + 1 \in 1 .. t.nnz
        BY <3>1
      <4>2. /\ t.lines[k + 1][1] - 1 \in Nat /\ t.lines[k + 1][1] - 1 <= Larger(t.nrows, t.ncols)
            /\ t.lines[k + 1][2] - 1 \in Nat /\ t.lines[k + 1][2] - 1 <= Larger(t.nrows, t.ncols)
        BY <3>1, <4>1, PositionHeld
      <4>3. /\ Stored(IndexType(t), t.lines[k + 1][1] - 1) = t.lines[k + 1][1] - 1
            /\ Stored(IndexType(t), t.lines[k + 1][2] - 1) = t.lines[k + 1][2] - 1
        BY <3>1, <4>2, IndexHeld DEF IndexType
      <4>5. \A x \in Nat : x # Junk
        BY DEF Junk
      <4>6. /\ (t.lines[k + 1][1] - 1) % (Cap(IndexType(t)) + 1) = t.lines[k + 1][1] - 1
            /\ (t.lines[k + 1][2] - 1) % (Cap(IndexType(t)) + 1) = t.lines[k + 1][2] - 1
        BY <4>2, <4>3, <4>5 DEF Stored
      <4>7. (k + 1) - 1 = k
        OBVIOUS
      <4>4. QED
        BY <2>4, <2>6, <4>1, <4>6
    <3>3. \A k \in 0 .. t.nnz - 1 :
             ValueOf(matrix', k) = IF t.type = "pattern" THEN <<1, 0>> ELSE t.lines[k + 1][3]
      <4> TAKE k \in 0 .. t.nnz - 1
      <4>1. matrix'.is_iso = (t.type = "pattern")
        BY <2>3, <2>4 DEF Keys
      <4>2. CASE t.type = "pattern"
        BY <2>4, <2>5, <4>1, <4>2 DEF ValueOf
      <4>3. CASE t.type # "pattern"
        BY <2>4, <4>1, <4>3 DEF ValueOf, Element
      <4>4. QED
        BY <4>2, <4>3
    <3> DEFINE V(k) == IF t.type = "pattern" THEN <<1, 0>> ELSE t.lines[k][3]
    <3>4. Entries(matrix') = {<<t.lines[k + 1][1] - 1, t.lines[k + 1][2] - 1, V(k + 1)>> :
                                k \in 0 .. t.nnz - 1}
      <4>1. matrix'.format = "COO" /\ DOMAIN matrix'.indices_0.data = 0 .. t.nnz - 1
        BY <2>8 DEF Coordinated
      <4>2. Entries(matrix') =
              {<<matrix'.indices_0.data[k], matrix'.indices_1.data[k], ValueOf(matrix', k)>> :
                 k \in 0 .. t.nnz - 1}
        BY <4>1 DEF Entries
      <4>3. QED
        BY <3>2, <3>3, <4>2
    <3>5. TextEntries(t) = {<<t.lines[k][1] - 1, t.lines[k][2] - 1, V(k)>> : k \in 1 .. t.nnz}
      BY <1>1, <3>1 DEF TextEntries, t
    <3> HIDE DEF V
    <3>6. /\ \A k \in 0 .. t.nnz - 1 : k + 1 \in 1 .. t.nnz
          /\ \A k \in 1 .. t.nnz : k - 1 \in 0 .. t.nnz - 1 /\ (k - 1) + 1 = k
      BY <3>1
    <3>7. Entries(matrix') \subseteq TextEntries(t)
      BY <3>4, <3>5, <3>6
    <3>8. TextEntries(t) \subseteq Entries(matrix')
      <4>1. ASSUME NEW k \in 1 .. t.nnz
            PROVE  <<t.lines[k][1] - 1, t.lines[k][2] - 1, V(k)>> \in Entries(matrix')
        <5>1. k - 1 \in 0 .. t.nnz - 1 /\ (k - 1) + 1 = k
          BY <3>6
        <5>2. <<t.lines[(k - 1) + 1][1] - 1, t.lines[(k - 1) + 1][2] - 1, V((k - 1) + 1)>>
                \in Entries(matrix')
          BY <3>4, <5>1
        <5>3. QED
          BY <5>1, <5>2
      <4>2. QED
        BY <3>5, <4>1
    <3>9. \A k \in 0 .. t.nnz - 1 :
             /\ matrix'.indices_0.data[k] \in 0 .. t.nrows - 1
             /\ matrix'.indices_1.data[k] \in 0 .. t.ncols - 1
      <4> TAKE k \in 0 .. t.nnz - 1
      <4>1. /\ t.lines[k + 1][1] - 1 \in 0 .. t.nrows - 1
            /\ t.lines[k + 1][2] - 1 \in 0 .. t.ncols - 1
        BY <3>1, <3>2, PositionHeld
      <4>2. QED
        BY <3>2, <4>1
    <3>10. QED
      BY <1>1, <2>8, <3>7, <3>8, <3>9 DEF Holds, t
  <2>10. QED
    BY <1>1, <1>2, <2>2, <2>4, <2>5, <2>8, <2>9 DEF MmreadInv, Sorting, t
<1>5. QED
  BY <1>3, <1>4

LEMMA MmArrayLinesReads ==
    ASSUME IInv, IInv', MmreadInv, MmArrayLines PROVE MmreadInv' /\ ResultInv'
<1>1. Mm("lines") /\ Text.format = "array"
  BY DEF MmArrayLines
<1>2. Text.valid /\ Readable(Text) /\ Prepared(matrix, Text, "lines")
  BY <1>1, MmUnderWay DEF MmreadInv
<1>3. CASE Dies("crash", FALSE) \/ Dies("undefined", FALSE)
  BY <1>1, <1>3, MmDeath
<1>4. CASE ~(Dies("crash", FALSE) \/ Dies("undefined", FALSE))
  <2> DEFINE t == Text
             written == 0 .. Len(t.lines) - 1
             Latest(k) == CHOOSE c \in written :
                            /\ Place(t, c) = k
                            /\ \A d \in written : Place(t, d) = k => d <= c
             a == [k \in 0 .. t.nnz - 1 |-> Element(t, Latest(k))]
             m == [matrix EXCEPT !.values.data = a]
  <2>1. Returned(m)
    BY <1>4 DEF MmArrayLines
  <2>2. Text' = Text
    BY <2>1, TextSame DEF Returned, Return
  <2>3. /\ IsMatrix(matrix)
        /\ matrix.nrows = t.nrows /\ matrix.ncols = t.ncols /\ matrix.nnz = t.nnz
        /\ matrix.is_iso = (t.type = "pattern")
        /\ matrix.values = Fresh(t, "values")
        /\ matrix.format = "DMATR"
        /\ matrix.indices_0 = Absent /\ matrix.indices_1 = Absent /\ matrix.pointers_to_1 = Absent
        /\ matrix.structure = TextStructure(t)
    BY <1>1, <1>2, PreparedArrays
  <2>4. matrix.values.type = TypeOf[t.type]
    BY <2>3 DEF Fresh
  <2>5. /\ IsMatrix(m)
        /\ \A x \in Keys \ {"values"} : m[x] = matrix[x]
        /\ m.values.type = TypeOf[t.type] /\ m.values.data = a
    <3> HIDE DEF a
    <3>1. QED
      BY <2>3, <2>4 DEF IsMatrix, HasKeys, Keys, Fields
  <2>6. t.type # "pattern"
    BY <1>1, <1>2 DEF Readable
  <2>7. ASSUME Complete(t)
        PROVE  \A c \in 0 .. t.nnz - 1 : a[Place(t, c)] = t.lines[c + 1][3]
    <3>1. /\ t.nrows \in Nat /\ t.ncols \in Nat /\ t.nnz = t.nrows * t.ncols /\ t.nnz \in Nat
          /\ Len(t.lines) = t.nnz
      <4>1. Cap("wide") \in Int
        BY NarrowMaxAssumption, SMTT(30) DEF Cap, Base
      <4>2. QED
        BY <1>1, <2>7, <4>1 DEF Complete
    <3>2. written = 0 .. t.nnz - 1
      BY <3>1
    <3> SUFFICES ASSUME NEW c \in 0 .. t.nnz - 1 PROVE a[Place(t, c)] = t.lines[c + 1][3]
      OBVIOUS
    <3>3. IsDense(t)
      <4>1. t.nnz > 0
        BY <3>1
      <4>2. t.nrows # 0 /\ t.ncols # 0
        BY <3>1, <4>1
      <4>3. QED
        BY <3>1, <4>2 DEF IsDense
    <3>4. Place(t, c) \in 0 .. t.nnz - 1
      BY <3>3, PlaceFacts
    <3>5. \A d \in 0 .. t.nnz - 1 : Place(t, d) = Place(t, c) => d = c
      BY <3>3, PlaceInjective
    <3>6. c <= c
      BY <3>1
    <3> HIDE DEF t, written
    <3>7. Latest(Place(t, c)) = c
      BY <3>2, <3>5, <3>6
    <3>8. a[Place(t, c)] = Element(t, c)
      BY <3>4, <3>7
    <3>9. QED
      BY <3>8 DEF Element
  <2>8. m.format = "DMATR"
    BY <2>3, <2>5 DEF Keys
  <2>12. Filled(m, t)
    <3>1. /\ m.nrows = t.nrows /\ m.ncols = t.ncols /\ m.nnz = t.nnz
          /\ m.is_iso = FALSE
          /\ m.indices_0 = Absent /\ m.indices_1 = Absent /\ m.pointers_to_1 = Absent
          /\ m.structure = TextStructure(t)
      BY <2>3, <2>5, <2>6 DEF Keys
    <3>2. DOMAIN m.values.data = 0 .. t.nnz - 1
      BY <2>5
    <3> HIDE DEF a, m
    <3>3. QED
      BY <2>5, <2>8, <3>1, <3>2 DEF Filled
  <2>9. ASSUME Complete(t) PROVE Holds(m, t)
    <3> HIDE DEF a, m
    <3>1. QED
      BY <1>1, <2>5, <2>7, <2>9, <2>12 DEF Holds
  <2> HIDE DEF m, a, Latest, written
  <2>10. MmreadResult(matrix, Text)'
    <3>1. matrix' = m
      BY <2>1 DEF Returned
    <3>2. QED
      BY <1>1, <1>2, <2>2, <2>5, <2>9, <2>12, <3>1 DEF MmreadResult
  <2>11. QED
    BY <1>1, <2>1, <2>10, MmResult
<1>5. QED
  BY <1>3, <1>4

LEMMA MmSortReads ==
    ASSUME IInv, IInv', MmreadInv,
           MmSort \/ MmSortFails \/ \E s \in Copies : MmCopy(s) \/ MmCopyFails(s)
    PROVE  MmreadInv' /\ ResultInv'
<1>1. ASSUME NEW s \in Sorting, Mm(s)
      PROVE  /\ Text.valid /\ Readable(Text) /\ Text.format = "coordinate"
             /\ Coordinated(matrix, Text) /\ matrix.values.type = TypeOf[Text.type]
             /\ Complete(Text) => Holds(matrix, Text)
  BY <1>1, MmUnderWay DEF MmreadInv, Sorting
<1>2. ASSUME NEW s \in Sorting, Mm(s), NEW r \in Sorting, Go(r), UNCHANGED matrix
      PROVE  MmreadInv' /\ ResultInv'
  <2>1. UnderWay' /\ Call' = "mmread" /\ step' = r /\ Text' = Text /\ ResultInv'
    BY <1>2, MmStep
  <2>2. QED
    BY <1>1, <1>2, <2>1 DEF MmreadInv, Sorting
<1>3. CASE MmSort
  BY <1>2, <1>3 DEF MmSort, Sorting
<1>4. CASE MmSortFails
  BY <1>4, MmDeath DEF MmSortFails
<1>5. ASSUME NEW s \in Copies, MmCopy(s) PROVE MmreadInv' /\ ResultInv'
  <2>1. s \in Sorting /\ After(s) \in Sorting
    BY AfterSteps DEF Copies, Sorting
  <2>2. QED
    BY <1>2, <1>5, <2>1 DEF MmCopy
<1>6. ASSUME NEW s \in Copies, MmCopyFails(s) PROVE MmreadInv' /\ ResultInv'
  <2>1. Mm(s) /\ Returned(matrix) /\ faulted' = TRUE
    BY <1>6 DEF MmCopyFails
  <2>2. Text' = Text /\ matrix' = matrix
    BY <2>1, TextSame DEF Returned, Return
  <2>3. MmreadResult(matrix, Text)'
    BY <1>1, <2>1, <2>2 DEF MmreadResult, Copies, Sorting
  <2>4. QED
    BY <2>1, <2>3, MmResult
<1>7. QED
  BY <1>3, <1>4, <1>5, <1>6

\* Sorting changes the order of the entries only.
LEMMA PermutedHolds ==
    ASSUME NEW m, NEW t, Coordinated(m, t),
           NEW p \in [0 .. m.nnz - 1 -> 0 .. m.nnz - 1], Sorts(m, p)
    PROVE  /\ Coordinated(Permuted(m, p), t)
           /\ Permuted(m, p).values.type = m.values.type
           /\ InOrder(Permuted(m, p))
           /\ t.format = "coordinate" /\ Complete(t) /\ Holds(m, t) => Holds(Permuted(m, p), t)
<1> DEFINE D == 0 .. t.nnz - 1
           n == Permuted(m, p)
<1>1. m.nnz = t.nnz /\ DOMAIN m.indices_0.data = D /\ DOMAIN m.indices_1.data = D
      /\ IsMatrix(m)
  BY DEF Coordinated
<1>2. p \in [D -> D] /\ (\A k, l \in D : p[k] = p[l] => k = l)
      /\ (\A k, l \in D : k < l => RowBefore(m, p[k], p[l]))
  BY <1>1 DEF Sorts
<1>3. /\ HasKeys(n)
      /\ \A x \in Keys \ {"values", "indices_0", "indices_1"} : n[x] = m[x]
      /\ n.indices_0 = [m.indices_0 EXCEPT !.data = [k \in DOMAIN @ |-> @[p[k]]]]
      /\ n.indices_1 = [m.indices_1 EXCEPT !.data = [k \in DOMAIN @ |-> @[p[k]]]]
      /\ n.values = [m.values EXCEPT !.data = IF m.is_iso THEN @ ELSE [k \in DOMAIN @ |-> @[p[k]]]]
  BY <1>1 DEF IsMatrix, HasKeys, Keys, Permuted
<1>4. /\ n.indices_0.type = m.indices_0.type /\ n.indices_1.type = m.indices_1.type
      /\ n.values.type = m.values.type
      /\ n.indices_0.data = [k \in D |-> m.indices_0.data[p[k]]]
      /\ n.indices_1.data = [k \in D |-> m.indices_1.data[p[k]]]
      /\ n.values.data = IF m.is_iso THEN m.values.data
                         ELSE [k \in DOMAIN m.values.data |-> m.values.data[p[k]]]
  BY <1>1, <1>3 DEF IsMatrix, Fields
<1>5. IsMatrix(n)
  BY <1>1, PermutedFacts
<1> HIDE DEF n
<1>6. Coordinated(n, t)
  <2>1. ASSUME t.lines \in Lines, NEW k \in 0 .. t.nnz - 1
        PROVE  /\ Kept(t, n.indices_0.data[k]) /\ Kept(t, n.indices_1.data[k])
               /\ \E j \in 1 .. Len(t.lines) : n.indices_0.data[k] = LineRow(t, j)
    <3>1. p[k] \in 0 .. t.nnz - 1
      BY <1>2
    <3>2. /\ Kept(t, m.indices_0.data[p[k]]) /\ Kept(t, m.indices_1.data[p[k]])
          /\ \E j \in 1 .. Len(t.lines) : m.indices_0.data[p[k]] = LineRow(t, j)
      BY <2>1, <3>1 DEF Coordinated, RowsOfLines
    <3>3. QED
      BY <1>4, <3>2
  <2>2. IsFunction(n.indices_0.data) /\ IsFunction(n.indices_1.data)
    BY <1>4 DEF IsFunction
  <2>3. QED
    BY <1>3, <1>4, <1>5, <2>1, <2>2 DEF Coordinated, Keys, RowsOfLines
<1>7. InOrder(n)
  <2>1. ASSUME NEW k \in D, NEW l \in D, k < l PROVE RowBefore(n, k, l)
    <3>1. RowBefore(m, p[k], p[l])
      BY <1>2, <2>1
    <3>2. /\ n.indices_0.data[k] = m.indices_0.data[p[k]]
          /\ n.indices_0.data[l] = m.indices_0.data[p[l]]
          /\ n.indices_1.data[k] = m.indices_1.data[p[k]]
          /\ n.indices_1.data[l] = m.indices_1.data[p[l]]
      BY <1>4
    <3>3. QED
      BY <3>1, <3>2 DEF RowBefore
  <2>2. DOMAIN n.indices_0.data = D
    BY <1>4
  <2>3. QED
    BY <2>1, <2>2 DEF InOrder
<1>8. ASSUME t.format = "coordinate", Complete(t), Holds(m, t) PROVE Holds(n, t)
  <2>1. t.nnz \in Nat
    <3>1. Cap("wide") \in Int
      BY NarrowMaxAssumption, SMTT(30) DEF Cap, Base
    <3>2. QED
      BY <1>8, <3>1 DEF Complete
  <2>2. \A k \in D : \E l \in D : p[l] = k
    <3>1. IsFiniteSet(D)
      BY <2>1, FS_Interval
    <3>2. p \in Injection(D, D)
      BY <1>2 DEF Injection, IsInjective
    <3>3. p \in Surjection(D, D)
      BY <3>1, <3>2, FS_Injection
    <3>4. QED
      BY <3>3 DEF Surjection
  <2>3. \A k \in D : ValueOf(n, k) = ValueOf(m, p[k])
    <3> TAKE k \in D
    <3>1. n.is_iso = m.is_iso
      BY <1>3 DEF Keys
    <3>2. CASE m.is_iso
      BY <1>4, <3>1, <3>2 DEF ValueOf
    <3>3. CASE ~m.is_iso
      <4>1. DOMAIN m.values.data = D
        BY <3>3 DEF Coordinated, Count
      <4>2. QED
        BY <1>4, <3>1, <3>3, <4>1 DEF ValueOf
    <3>4. QED
      BY <3>2, <3>3
  <2>4. \A k \in D : /\ n.indices_0.data[k] = m.indices_0.data[p[k]]
                     /\ n.indices_1.data[k] = m.indices_1.data[p[k]]
                     /\ p[k] \in D
    BY <1>2, <1>4
  <2>5. /\ Entries(m) = {<<m.indices_0.data[k], m.indices_1.data[k], ValueOf(m, k)>> : k \in D}
        /\ Entries(n) = {<<n.indices_0.data[k], n.indices_1.data[k], ValueOf(n, k)>> : k \in D}
    <3>1. m.format = "COO" /\ n.format = "COO" /\ DOMAIN n.indices_0.data = D
      BY <1>6 DEF Coordinated
    <3>2. QED
      BY <1>1, <3>1 DEF Entries
  <2>6. Entries(n) \subseteq Entries(m)
    BY <2>3, <2>4, <2>5
  <2>7. Entries(m) \subseteq Entries(n)
    <3>1. ASSUME NEW k \in D
          PROVE  <<m.indices_0.data[k], m.indices_1.data[k], ValueOf(m, k)>> \in Entries(n)
      <4>1. PICK l \in D : p[l] = k
        BY <2>2
      <4>2. /\ n.indices_0.data[l] = m.indices_0.data[k]
            /\ n.indices_1.data[l] = m.indices_1.data[k]
            /\ ValueOf(n, l) = ValueOf(m, k)
        BY <2>3, <2>4, <4>1
      <4>3. <<n.indices_0.data[l], n.indices_1.data[l], ValueOf(n, l)>> \in Entries(n)
        BY <2>5
      <4>4. QED
        BY <4>2, <4>3
    <3>2. QED
      BY <2>5, <3>1
  <2>8. \A k \in D : /\ n.indices_0.data[k] \in 0 .. t.nrows - 1
                     /\ n.indices_1.data[k] \in 0 .. t.ncols - 1
    BY <1>8, <2>4 DEF Holds
  <2>9. Entries(n) = TextEntries(t)
    <3>1. Entries(m) = TextEntries(t)
      BY <1>8 DEF Holds
    <3>2. QED
      BY <2>6, <2>7, <3>1
  <2>10. QED
    BY <1>6, <1>8, <2>8, <2>9 DEF Holds
<1>9. QED
  BY <1>4, <1>6, <1>7, <1>8 DEF n

LEMMA MmPermuteReads ==
    ASSUME IInv, MmreadInv, MmPermute PROVE MmreadInv' /\ ResultInv'
<1>1. Mm("permute") /\ UNCHANGED faulted
  BY DEF MmPermute
<1>2. /\ Text.valid /\ Readable(Text) /\ Text.format = "coordinate"
      /\ Coordinated(matrix, Text) /\ matrix.values.type = TypeOf[Text.type]
      /\ Complete(Text) => Holds(matrix, Text)
  BY <1>1, MmUnderWay DEF MmreadInv, Sorting
<1>3. PICK p \in [0 .. matrix.nnz - 1 -> 0 .. matrix.nnz - 1] :
         Sorts(matrix, p) /\ Returned(Permuted(matrix, p))
  BY DEF MmPermute
<1>4. Text' = Text /\ matrix' = Permuted(matrix, p)
  BY <1>3, TextSame DEF Returned, Return
<1>5. MmreadResult(matrix, Text)'
  <2>1. /\ Coordinated(matrix', Text)
        /\ matrix'.values.type = matrix.values.type
        /\ InOrder(matrix')
        /\ Complete(Text) => Holds(matrix', Text)
    BY <1>2, <1>3, <1>4, PermutedHolds
  <2>2. QED
    BY <1>2, <1>4, <2>1 DEF MmreadResult
<1>6. QED
  BY <1>1, <1>3, <1>5, MmResult

LEMMA MmReads == ASSUME IInv, IInv', MmreadInv, MmNext PROVE MmreadInv' /\ ResultInv'
  BY MmHeaderReads, MmAllocateReads, MmOpenReads, MmLinesReads, MmArrayLinesReads, MmSortReads,
     MmPermuteReads
     DEF MmNext

\* No other step is one of bsp_mmread or leads to a program's first use of its matrix.
MmAlone ==
    /\ UnderWay' /\ Call' \in {"mmread", "declamp", "keep"} => step' = "start"
    /\ UnderWay' => Call' \notin {"declamp", "keep"}

LEMMA Alone == ASSUME MmAlone PROVE MmreadInv' /\ ResultInv'
  BY DEF MmAlone, MmreadInv, ResultInv

\* The steps of other calls: a return, a step within a call, the end of a program.
LEMMA AloneReturns ==
    ASSUME IInv, UnderWay, Call \notin {"mmread", "finish", "compare", "tensor_finish"},
           NEW status \in Errors \cup {"SUCCESS"}, Return(status),
           status \in Errors => Call \in {"read", "read_parallel", "write"}
    PROVE  MmAlone
<1>1. CASE status = "SUCCESS"
  <2>1. calls' = Tail(calls) /\ step' = "start" /\ UNCHANGED todo
    BY <1>1 DEF Return
  <2>2. <<Program, Call, Call'>> \in Succession
    BY <2>1, NextCall DEF IInv
  <2>3. QED
    BY <2>1, <2>2 DEF MmAlone, Succession
<1>2. CASE status # "SUCCESS"
  <2>1. calls' = calls /\ UNCHANGED todo
    BY <1>2 DEF Return
  <2>2. Call' = Call
    BY <2>1 DEF Call
  <2>3. QED
    BY <1>2, <2>2 DEF MmAlone
<1>3. QED
  BY <1>1, <1>2

LEMMA AloneGoes ==
    ASSUME UnderWay, Call \notin {"mmread", "declamp", "keep"}, NEW s, Go(s)
    PROVE  MmAlone
  BY DEF Go, MmAlone, Call

LEMMA AloneEnds ==
    ASSUME IInv, IInv', UnderWay, NEW how \in Ends, NEW failed \in BOOLEAN, End(how, failed)
    PROVE  MmAlone
  BY AfterEnd DEF MmAlone, FirstCalls

LEMMA OthersAlone ==
    ASSUME IInv, IInv', MatrixNext, ~MmNext, ~Over PROVE MmAlone
<1>1. CASE \E how \in Ends, failed \in BOOLEAN : UnderWay /\ End(how, failed)
  BY <1>1, AloneEnds
<1>2. CASE CheckArguments \/ DeclampValues \/ MinimizeValues \/ Convert \/ ConvertFails
           \/ WriteFile \/ WriteFileFails \/ ToCoo \/ ToCooFails \/ MmWrite \/ MmWriteFails
  <2>1. UnderWay /\ Call \in {"metadata", "declamp", "minimize", "convert", "write", "to_coo",
                              "mmwrite"}
    BY <1>2 DEF CheckArguments, DeclampValues, MinimizeValues, Convert, ConvertFails, WriteFile,
       WriteFileFails, ToCoo, ToCooFails, MmWrite, MmWriteFails, Calls, At, UnderWay, Call
  <2>2. \/ Return("SUCCESS")
        \/ Return("IO") /\ Call = "write"
        \/ \E how \in Ends, failed \in BOOLEAN : End(how, failed)
    <3>1. CASE CheckArguments \/ DeclampValues \/ MinimizeValues \/ Convert \/ ConvertFails
      BY <3>1 DEF CheckArguments, DeclampValues, MinimizeValues, Convert, ConvertFails, Dies, Ends
    <3>2. CASE WriteFile \/ WriteFileFails
      BY <3>2 DEF WriteFile, WriteFileFails, Dies, Ends, Calls, At, Call
    <3>3. CASE ToCoo \/ ToCooFails \/ MmWrite \/ MmWriteFails
      BY <3>3 DEF ToCoo, ToCooFails, MmWrite, MmWriteFails, Dies, Ends
    <3>4. QED
      BY <1>2, <3>1, <3>2, <3>3
  <2>3. {"SUCCESS", "IO"} \subseteq Errors \cup {"SUCCESS"} /\ "SUCCESS" \notin Errors
    BY DEF Errors
  <2>4. QED
    BY <1>1, <2>1, <2>2, <2>3, AloneReturns
<1>3. CASE Finish \/ Compare \/ BspCheck
  <2>1. Verdict(first, matrix) \in Ends /\ (file.flaw # "nnz_type") \in BOOLEAN
    BY VerdictEnds DEF Ends
  <2>2. UnderWay /\ \E how \in Ends, failed \in BOOLEAN : End(how, failed)
    BY <1>3, <2>1 DEF Finish, Compare, BspCheck, Dies, Ends, Calls, At, UnderWay
  <2>3. QED
    BY <1>1, <2>2
<1>4. CASE KeepFirst
  <2>1. UnderWay /\ Call = "keep" /\ calls' = Tail(calls) /\ UNCHANGED <<todo, step>>
        /\ step = "start"
    BY <1>4 DEF KeepFirst, Calls, At, UnderWay, Call
  <2>2. <<Program, Call, Call'>> \in Succession
    BY <2>1, NextCall DEF IInv
  <2>3. QED
    BY <2>1, <2>2 DEF MmAlone, Succession
<1>5. CASE ReadNext
  <2>1. UnderWay /\ Call \in Reads
    BY <1>5 DEF ReadNext, ReadOpen, ReadOpenFails, ReadDescriptor, ReadAsserts, ReadCrashes,
       ReadReturns, ReadArray, ReadArrayFails, Reading, At, UnderWay, Call, Reads
  <2>2. \/ \E status \in Errors \cup {"SUCCESS"} : Return(status)
        \/ \E s : Go(s)
        \/ \E how \in Ends, failed \in BOOLEAN : End(how, failed)
    <3>1. {"SUCCESS", "IO", "FORMAT", "UNSUPPORTED", "TYPE", "READ"} = Errors \cup {"SUCCESS"}
      BY DEF Errors
    <3>2. DescriptorError(Ignored(Head(calls))) \in Errors \cup {"SUCCESS"}
      BY <3>1 DEF DescriptorError, VersionError
    <3>3. QED
      BY <1>5, <3>1, <3>2 DEF ReadNext, ReadOpen, ReadOpenFails, ReadDescriptor, ReadAsserts,
         ReadCrashes, ReadReturns, ReadArray, ReadArrayFails, Dies, Ends
  <2>3. "SUCCESS" \notin Errors
    BY DEF Errors
  <2>4. QED
    BY <1>1, <2>1, <2>2, <2>3, AloneReturns, AloneGoes DEF Reads
<1>6. QED
  BY <1>2, <1>3, <1>4, <1>5 DEF MatrixNext

\* The steps of tensor_test.
LEMMA TensorSteps ==
    ASSUME TensorNext
    PROVE  /\ UnderWay /\ Call \in TensorCalls /\ UNCHANGED <<input, file, copy>>
           /\ \/ /\ Call # "tensor_finish" /\ Return("SUCCESS")
                 /\ UNCHANGED <<matrix, live, first>>
              \/ /\ step' = "level" /\ UNCHANGED <<todo, calls, ended, matrix, live, first>>
              \/ \E how \in Ends : End(how, FALSE)
<1>1. UnderWay /\ Call \in TensorCalls
  BY DEF TensorNext, TensorOpen, TensorOpenFails, TensorAsserts, TensorLevel, TensorLevelFails,
     TensorReadOverruns, TensorTooDeep, TensorWrite, TensorWrites, TensorWriteFails,
     TensorWriteOverruns, TensorDestroy, AtLevel, At, UnderWay, Call, TensorCalls
<1>2. \/ /\ step' = "level"
         /\ UNCHANGED <<input, file, copy, todo, calls, ended, matrix, live, first>>
      \/ Call # "tensor_finish" /\ TensorReturns
      \/ TensorEnds("abort") \/ TensorEnds("crash") \/ TensorEnds("undefined")
      \/ TensorEnds("exit 0")
      \/ Dies("undefined", FALSE)
  <2>1. CASE TensorOpen \/ TensorOpenFails \/ TensorAsserts
    BY <2>1 DEF TensorOpen, TensorOpenFails, TensorAsserts, At, Call
  <2>2. CASE TensorLevel \/ TensorLevelFails \/ TensorReadOverruns \/ TensorTooDeep
    BY <2>2 DEF TensorLevel, TensorLevelFails, TensorReadOverruns, TensorTooDeep, AtLevel, At,
       Call, TensorGo
  <2>3. CASE TensorWrite \/ TensorWriteFails \/ TensorWriteOverruns \/ TensorDestroy
    BY <2>3 DEF TensorWrite, TensorWrites, TensorWriteFails, TensorWriteOverruns, TensorDestroy,
       At, Call
  <2>4. QED
    BY <2>1, <2>2, <2>3 DEF TensorNext
<1>3. ASSUME TensorReturns
      PROVE  Return("SUCCESS") /\ UNCHANGED <<input, file, copy, matrix, live, first>>
  BY <1>3 DEF TensorReturns, Return
<1>4. ASSUME NEW how \in {"abort", "crash", "undefined", "exit 0"}, TensorEnds(how)
      PROVE  how \in Ends /\ End(how, FALSE) /\ UNCHANGED <<input, file, copy>>
  BY <1>4 DEF TensorEnds, Dies, Ends, End
<1>6. Dies("undefined", FALSE) => /\ "undefined" \in Ends /\ End("undefined", FALSE)
                                 /\ UNCHANGED <<input, file, copy>>
  BY DEF Dies, Ends, End
<1>5. QED
  BY <1>1, <1>2, <1>3, <1>4, <1>6

LEMMA TensorAlone == ASSUME IInv, IInv', TensorNext PROVE MmAlone
<1>1. UnderWay /\ Call \in TensorCalls
  BY TensorSteps
<1>2. CASE Call # "tensor_finish" /\ Return("SUCCESS")
  BY <1>1, <1>2, AloneReturns DEF TensorCalls, Errors
<1>3. CASE step' = "level" /\ UNCHANGED <<todo, calls>>
  <2>1. Call' = Call
    BY <1>3 DEF Call
  <2>2. QED
    BY <1>1, <2>1 DEF MmAlone, TensorCalls
<1>4. CASE \E how \in Ends : End(how, FALSE)
  BY <1>1, <1>4, AloneEnds
<1>5. QED
  BY <1>2, <1>3, <1>4, TensorSteps

\* The Matrix Market reader returns what the text says.
LEMMA NextReads ==
    ASSUME IInv, IInv', MmreadInv /\ ResultInv, [Next]_vars PROVE MmreadInv' /\ ResultInv'
<1>1. CASE UNCHANGED programVars
  <2>1. UNCHANGED <<input, copy, todo, calls, step, matrix, faulted>>
    BY <1>1 DEF programVars
  <2>2. UNCHANGED <<UnderWay, Call, Text>>
    BY <2>1, TextSame DEF UnderWay, Call
  <2>3. QED
    BY <2>1, <2>2 DEF MmreadInv, ResultInv, MmreadResult
<1>2. CASE MatrixNext
  BY <1>1, <1>2, MmReads, OthersAlone, Alone DEF Over
<1>3. CASE TensorNext
  BY <1>3, TensorAlone, Alone
<1>4. CASE UNCHANGED vars
  BY <1>1, <1>4 DEF vars
<1>5. QED
  BY <1>2, <1>3, <1>4 DEF Next

LEMMA InitReads == Init => MmreadInv /\ ResultInv
<1> SUFFICES ASSUME Init PROVE MmreadInv /\ ResultInv
  OBVIOUS
<1>1. IInv /\ step = "start"
  BY InitIInv DEF Init
<1>2. ASSUME UnderWay PROVE Call \in FirstCalls
  <2>1. Program \in DOMAIN Script /\ calls = Script[Program]
    BY <1>1, <1>2, CallUnderWay DEF Init, Program, IInv
  <2>2. Call = Script[Program][1]
    BY <2>1, Scripts DEF Call
  <2>3. QED
    BY <2>1, <2>2, Scripts
<1>3. QED
  BY <1>1, <1>2 DEF MmreadInv, ResultInv, FirstCalls

\* bsp_mmread returns the matrix of the text, a dense one transposed: for every text and
\* whatever fails.
THEOREM MmReadsFaithful == Spec => []MmReadFaithful
<1>1. IInv /\ ResultInv => MmReadFaithful
  <2> SUFFICES ASSUME IInv, ResultInv,
                      todo # <<>>, step = "start", Head(calls) \in {"declamp", "keep"},
                      ~(matrix.format = "junk" /\ (faulted \/ ~Text.valid))
               PROVE  /\ Complete(Text) => ReadAs(matrix, Text)
                      /\ Text.format = "coordinate" => faulted \/ InOrder(matrix)
    BY DEF MmReadFaithful
  <2>1. MmreadResult(matrix, Text)
    BY DEF ResultInv, UnderWay, Call
  <2>2. Text.format \in {"coordinate", "array"}
    BY <2>1 DEF MmreadResult, Readable
  <2>3. QED
    BY <2>1, <2>2, HoldsReadAs DEF MmreadResult
<1>2. IInv /\ MmreadInv /\ ResultInv /\ [Next]_vars => (IInv /\ MmreadInv /\ ResultInv)'
  BY NextIInv, NextReads
<1>3. QED
  BY <1>1, <1>2, InitIInv, InitReads, PTL DEF Spec

--------------------------------------------------------------------------------
(* mtx2bsp: the declamped matrix. *)

LEMMA WideCap == Cap("wide") \in Nat /\ Cap("narrow") = NarrowMax /\ NarrowMax < Cap("wide")
<1>1. NarrowMax \in Nat /\ NarrowMax > 0
  BY NarrowMaxAssumption
<1>2. Cap("narrow") = NarrowMax /\ Cap("wide") = (NarrowMax + 1) * (NarrowMax + 1) - 1
  BY DEF Cap, Base
<1>3. (NarrowMax + 1) * (NarrowMax + 1) >= 2 * (NarrowMax + 1)
  BY <1>1, SMTT(30)
<1>4. QED
  BY <1>1, <1>2, <1>3

\* A complete text has as many lines as it announces; a dense one that has any has
\* rows and columns.
LEMMA CompleteFacts ==
    ASSUME NEW t, Complete(t)
    PROVE  /\ t.nrows \in Nat /\ t.ncols \in Nat /\ t.nnz \in Nat
           /\ t.nrows <= Cap("wide") /\ t.ncols <= Cap("wide") /\ t.nnz <= Cap("wide")
           /\ Len(t.lines) = t.nnz
  BY WideCap DEF Complete

LEMMA DenseEntries ==
    ASSUME NEW t, Complete(t), t.format # "coordinate", t.nnz > 0 PROVE IsDense(t)
<1>1. t.nnz = t.nrows * t.ncols /\ t.nrows \in Nat /\ t.ncols \in Nat
  BY CompleteFacts DEF Complete
<1>2. t.nrows # 0 /\ t.ncols # 0
  BY <1>1
<1>3. QED
  BY <1>1, <1>2 DEF IsDense

LEMMA DeclampedPair ==
    ASSUME NEW t, NEW v \in Int \X Int
    PROVE  Declamp(t, v) \in Int \X Int
<1>1. \A x \in Int : DeclampReal(x) \in Int
  BY NumbersAssumption DEF DeclampReal
<1>2. QED
  BY <1>1 DEF Declamp

LEMMA LineParts ==
    ASSUME NEW l \in Lines, NEW k \in 1 .. Len(l)
    PROVE  k \in DOMAIN l /\ l[k] \in Int \X Int \X (Int \X Int) /\ l[k][3] \in Int \X Int
<1>1. l[k] \in Int \X Int \X (Int \X Int) /\ k \in DOMAIN l
  BY DEF Lines
<1>2. QED
  BY <1>1

\* The declamped text is the text but for its values, and as complete.
LEMMA DeclampedTextFacts ==
    ASSUME NEW t, IsText(t), Complete(t)
    PROVE  LET u == DeclampedText(t)
           IN  /\ u.valid /\ u.format = t.format /\ u.type = t.type
               /\ u.structure = t.structure
               /\ u.nrows = t.nrows /\ u.ncols = t.ncols /\ u.nnz = t.nnz
               /\ t.lines \in Lines /\ u.lines \in Lines
               /\ Len(u.lines) = t.nnz
               /\ \A k \in 1 .. t.nnz :
                     /\ u.lines[k] = <<t.lines[k][1], t.lines[k][2],
                                       Declamp(TypeOf[t.type], t.lines[k][3])>>
                     /\ u.lines[k][1] = t.lines[k][1] /\ u.lines[k][2] = t.lines[k][2]
                     /\ u.lines[k][3] = Declamp(TypeOf[t.type], t.lines[k][3])
               /\ Complete(u)
<1> DEFINE u == DeclampedText(t)
           L == Int \X Int \X (Int \X Int)
           g == [k \in DOMAIN t.lines |->
                   <<t.lines[k][1], t.lines[k][2], Declamp(TypeOf[t.type], t.lines[k][3])>>]
<1>1. t \in [valid : {TRUE}, format : STRING, type : STRING, structure : STRING,
             nrows : 0 .. Cap("wide"), ncols : 0 .. Cap("wide"), nnz : 0 .. Cap("wide"),
             lines : Seq(L)]
  BY DEF IsText, Complete
<1>2. u = [t EXCEPT !.lines = g]
  BY DEF DeclampedText
<1>3. t.lines \in Seq(L) /\ t.nnz \in Nat /\ Len(t.lines) = t.nnz /\ DOMAIN t.lines = 1 .. t.nnz
  BY <1>1, CompleteFacts, LenProperties
<1> HIDE DEF u, g
<1>4. /\ u.valid = t.valid /\ u.format = t.format /\ u.type = t.type
      /\ u.structure = t.structure
      /\ u.nrows = t.nrows /\ u.ncols = t.ncols /\ u.nnz = t.nnz
      /\ u.lines = g
  BY <1>1, <1>2
<1>5. \A k \in 1 .. t.nnz : g[k] \in L
  <2> TAKE k \in 1 .. t.nnz
  <2>1. t.lines[k] \in L
    BY <1>3
  <2>2. t.lines[k][1] \in Int /\ t.lines[k][2] \in Int /\ t.lines[k][3] \in Int \X Int
    BY <2>1
  <2>3. Declamp(TypeOf[t.type], t.lines[k][3]) \in Int \X Int
    BY <2>2, DeclampedPair
  <2>4. g[k] = <<t.lines[k][1], t.lines[k][2], Declamp(TypeOf[t.type], t.lines[k][3])>>
    BY <1>3 DEF g
  <2>5. QED
    BY <2>2, <2>3, <2>4
<1>6. DOMAIN g = 1 .. t.nnz
  BY <1>3 DEF g
<1>7. g \in Seq(L) /\ Len(g) = t.nnz
  <2>1. g \in [1 .. t.nnz -> L]
    BY <1>5, <1>6 DEF g
  <2> HIDE DEF L
  <2>2. g \in Seq(L)
    <3>1. Seq(L) = UNION {[1 .. n -> L] : n \in Nat} /\ t.nnz \in Nat
      BY <1>3, SeqDef
    <3>2. QED
      BY <2>1, <3>1
  <2>3. Len(g) \in Nat /\ DOMAIN g = 1 .. Len(g)
    BY <2>2, LenProperties
  <2>4. QED
    BY <1>3, <1>6, <2>2, <2>3
<1>8. \A k \in 1 .. t.nnz :
         /\ u.lines[k] = <<t.lines[k][1], t.lines[k][2], Declamp(TypeOf[t.type], t.lines[k][3])>>
         /\ u.lines[k][1] = t.lines[k][1] /\ u.lines[k][2] = t.lines[k][2]
         /\ u.lines[k][3] = Declamp(TypeOf[t.type], t.lines[k][3])
  <2> TAKE k \in 1 .. t.nnz
  <2>1. g[k] = <<t.lines[k][1], t.lines[k][2], Declamp(TypeOf[t.type], t.lines[k][3])>>
    BY <1>3 DEF g
  <2>2. QED
    BY <1>4, <2>1
<1>9. Complete(u)
  BY <1>4, <1>7, <1>8 DEF Complete
<1>10. QED
  BY <1>1, <1>3, <1>4, <1>7, <1>8, <1>9 DEF u, Lines, Complete

LEMMA DeclampedValues ==
    ASSUME NEW m, IsMatrix(m)
    PROVE  LET n == Declamped(m)
           IN  /\ IsMatrix(n)
               /\ \A x \in Keys \ {"values"} : n[x] = m[x]
               /\ n.values.type = m.values.type
               /\ n.values.data = [k \in DOMAIN m.values.data |->
                                     Declamp(m.values.type, m.values.data[k])]
<1> DEFINE d == [k \in DOMAIN m.values.data |-> Declamp(m.values.type, m.values.data[k])]
<1>1. Declamped(m) = [m EXCEPT !.values.data = d]
  BY DEF Declamped
<1> HIDE DEF d
<1>2. /\ IsMatrix([m EXCEPT !.values.data = d])
      /\ \A x \in Keys \ {"values"} : [m EXCEPT !.values.data = d][x] = m[x]
      /\ [m EXCEPT !.values.data = d].values.type = m.values.type
      /\ [m EXCEPT !.values.data = d].values.data = d
  BY DEF IsMatrix, HasKeys, Keys, Fields
<1>3. QED
  BY <1>1, <1>2 DEF d

\* Of two coordinate matrices with the same indices, if one is in order the other is.
LEMMA SameOrder ==
    ASSUME NEW m, NEW n, n.indices_0 = m.indices_0, n.indices_1 = m.indices_1, InOrder(m)
    PROVE  InOrder(n)
  BY DEF InOrder, RowBefore

\* The matrix of a text, declamped, is that of the declamped text.
LEMMA DeclampedHolds ==
    ASSUME NEW m, NEW t, IsText(t), Complete(t), Readable(t), Holds(m, t),
           m.values.type = TypeOf[t.type]
    PROVE  /\ Holds(Declamped(m), DeclampedText(t))
           /\ Declamped(m).values.type = m.values.type
           /\ t.format = "coordinate" /\ InOrder(m) => InOrder(Declamped(m))
<1> DEFINE n == Declamped(m)
           u == DeclampedText(t)
           T == TypeOf[t.type]
<1>1. IsMatrix(m)
  BY DEF Holds, Coordinated, Filled
<1>2. /\ IsMatrix(n)
      /\ \A x \in Keys \ {"values"} : n[x] = m[x]
      /\ n.values.type = T
      /\ n.values.data = [k \in DOMAIN m.values.data |-> Declamp(T, m.values.data[k])]
  BY <1>1, DeclampedValues
<1>3. /\ u.format = t.format /\ u.type = t.type /\ u.structure = t.structure
      /\ u.nrows = t.nrows /\ u.ncols = t.ncols /\ u.nnz = t.nnz
      /\ t.lines \in Lines
      /\ Len(u.lines) = t.nnz
      /\ \A k \in 1 .. t.nnz : /\ u.lines[k][1] = t.lines[k][1] /\ u.lines[k][2] = t.lines[k][2]
                               /\ u.lines[k][3] = Declamp(T, t.lines[k][3])
  BY DeclampedTextFacts
<1>4. t.nnz \in Nat /\ Len(t.lines) = t.nnz
  BY CompleteFacts
<1> HIDE DEF n, u, T
<1>5. /\ n.format = m.format /\ n.nrows = m.nrows /\ n.ncols = m.ncols /\ n.nnz = m.nnz
      /\ n.is_iso = m.is_iso /\ n.indices_0 = m.indices_0 /\ n.indices_1 = m.indices_1
      /\ n.pointers_to_1 = m.pointers_to_1 /\ n.structure = m.structure
      /\ DOMAIN n.values.data = DOMAIN m.values.data
  BY <1>2 DEF Keys
<1>6. InOrder(m) => InOrder(n)
  BY <1>5, SameOrder
<1>7. CASE t.format = "coordinate"
  <2> DEFINE D == 0 .. t.nnz - 1
             V(l, k) == IF t.type = "pattern" THEN <<1, 0>> ELSE l[k][3]
  <2>1. Coordinated(m, t) /\ Entries(m) = TextEntries(t)
        /\ \A k \in D : m.indices_0.data[k] \in 0 .. t.nrows - 1
                        /\ m.indices_1.data[k] \in 0 .. t.ncols - 1
    BY <1>7 DEF Holds
  <2>3. Declamp(T, <<1, 0>>) = <<1, 0>> \/ t.type # "pattern"
    BY DEF T, TypeOf, Declamp
  <2>12. t.type = "pattern" => n.values.data[0] = <<1, 0>>
    <3>1. t.type = "pattern" => 0 \in DOMAIN m.values.data /\ m.values.data[0] = <<1, 0>>
      BY <2>1 DEF Coordinated, Count
    <3>2. QED
      BY <1>2, <2>3, <3>1
  <2>13. RowsOfLines(n, u)
    <3>1. RowsOfLines(n, t)
      BY <1>3, <1>5, <2>1, SameRows DEF Coordinated
    <3>2. \A j \in 1 .. t.nnz : LineRow(u, j) = LineRow(t, j)
      BY <1>3 DEF LineRow, IndexType
    <3>3. QED
      BY <1>3, <1>4, <3>1, <3>2 DEF RowsOfLines
  <2>2. Coordinated(n, u)
    BY <1>2, <1>3, <1>5, <2>1, <2>12, <2>13 DEF Coordinated, Count, IndexType, TextStructure, Kept
  <2>4. \A k \in D : ValueOf(n, k) = Declamp(T, ValueOf(m, k))
    <3> TAKE k \in D
    <3>1. DOMAIN m.values.data = 0 .. Count(t, "values") - 1 /\ (m.is_iso <=> t.type = "pattern")
      BY <2>1 DEF Coordinated
    <3>2. (IF m.is_iso THEN 0 ELSE k) \in DOMAIN m.values.data
      BY <3>1, <1>4 DEF Count
    <3>3. QED
      BY <1>2, <1>5, <3>2 DEF ValueOf
  <2>5. /\ Entries(m) = {<<m.indices_0.data[k], m.indices_1.data[k], ValueOf(m, k)>> : k \in D}
        /\ Entries(n) = {<<m.indices_0.data[k], m.indices_1.data[k], Declamp(T, ValueOf(m, k))>> :
                           k \in D}
    <3>1. m.format = "COO" /\ DOMAIN m.indices_0.data = D
      BY <2>1 DEF Coordinated
    <3>2. /\ Entries(m) = {<<m.indices_0.data[k], m.indices_1.data[k], ValueOf(m, k)>> : k \in D}
          /\ Entries(n) = {<<n.indices_0.data[k], n.indices_1.data[k], ValueOf(n, k)>> : k \in D}
      BY <1>5, <3>1 DEF Entries
    <3>3. QED
      BY <1>5, <2>4, <3>2
  <2>6. /\ TextEntries(t) = {<<t.lines[k][1] - 1, t.lines[k][2] - 1, V(t.lines, k)>> :
                               k \in 1 .. t.nnz}
        /\ TextEntries(u) = {<<u.lines[k][1] - 1, u.lines[k][2] - 1, V(u.lines, k)>> :
                               k \in 1 .. t.nnz}
    BY <1>3, <1>4, <1>7 DEF TextEntries
  <2>7. \A k \in 1 .. t.nnz : V(u.lines, k) = Declamp(T, V(t.lines, k))
    BY <1>3, <2>3
  <2> HIDE DEF V
  <2>8. TextEntries(u) = {<<t.lines[k][1] - 1, t.lines[k][2] - 1, Declamp(T, V(t.lines, k))>> :
                            k \in 1 .. t.nnz}
    BY <1>3, <2>6, <2>7
  <2>9. Entries(n) = TextEntries(u)
    <3>1. \A i, j, v : <<i, j, v>> \in Entries(m) <=> <<i, j, v>> \in TextEntries(t)
      BY <2>1
    <3>2. ASSUME NEW k \in D
          PROVE  <<m.indices_0.data[k], m.indices_1.data[k], Declamp(T, ValueOf(m, k))>>
                    \in TextEntries(u)
      <4>1. <<m.indices_0.data[k], m.indices_1.data[k], ValueOf(m, k)>> \in TextEntries(t)
        BY <2>1, <2>5
      <4>2. PICK l \in 1 .. t.nnz : /\ m.indices_0.data[k] = t.lines[l][1] - 1
                                    /\ m.indices_1.data[k] = t.lines[l][2] - 1
                                    /\ ValueOf(m, k) = V(t.lines, l)
        BY <2>6, <4>1
      <4>3. QED
        BY <2>8, <4>2
    <3>3. ASSUME NEW l \in 1 .. t.nnz
          PROVE  <<t.lines[l][1] - 1, t.lines[l][2] - 1, Declamp(T, V(t.lines, l))>> \in Entries(n)
      <4>1. <<t.lines[l][1] - 1, t.lines[l][2] - 1, V(t.lines, l)>> \in Entries(m)
        BY <2>1, <2>6
      <4>2. PICK k \in D : /\ m.indices_0.data[k] = t.lines[l][1] - 1
                           /\ m.indices_1.data[k] = t.lines[l][2] - 1
                           /\ ValueOf(m, k) = V(t.lines, l)
        BY <2>5, <4>1
      <4>3. QED
        BY <2>5, <4>2
    <3>4. QED
      BY <2>5, <2>8, <3>2, <3>3
  <2>10. Holds(n, u)
    BY <1>3, <1>5, <1>7, <2>1, <2>2, <2>9 DEF Holds
  <2>11. QED
    BY <1>2, <1>6, <2>10 DEF n, u, T
<1>8. CASE t.format # "coordinate"
  <2>1. /\ Filled(m, t) /\ DOMAIN m.values.data = 0 .. t.nnz - 1
        /\ \A c \in 0 .. t.nnz - 1 : m.values.data[Place(t, c)] = t.lines[c + 1][3]
    BY <1>8 DEF Holds, Filled
  <2>2. \A c \in 0 .. t.nnz - 1 : n.values.data[Place(u, c)] = u.lines[c + 1][3]
    <3> TAKE c \in 0 .. t.nnz - 1
    <3>1. IsDense(t)
      BY <1>4, <1>8, DenseEntries
    <3>2. Place(t, c) \in DOMAIN m.values.data
      BY <2>1, <3>1, PlaceFacts
    <3>3. Place(u, c) = Place(t, c)
      BY <1>3 DEF Place
    <3>4. c + 1 \in 1 .. t.nnz
      BY <1>4
    <3>5. QED
      BY <1>2, <1>3, <2>1, <3>2, <3>3, <3>4
  <2>5. Filled(n, u)
    BY <1>2, <1>3, <1>5, <2>1 DEF Filled, TextStructure
  <2>3. Holds(n, u)
    BY <1>3, <1>8, <2>2, <2>5 DEF Holds
  <2>4. QED
    BY <1>2, <1>8, <2>3 DEF n, u, T
<1>9. QED
  BY <1>7, <1>8

--------------------------------------------------------------------------------
(* The largest, the smallest and the first element of an array. *)

\* The order of the elements of an array: by value, and equal ones by place; and how
\* many come before the one at place k.
Precedes(f, k, l) == f[k] < f[l] \/ (f[k] = f[l] /\ k < l)
RankOf(f, k) == Cardinality({l \in DOMAIN f : Precedes(f, l, k)})

\* Each place of the order is some entry's, and the order is that of the ranks.
LEMMA Ranks ==
    ASSUME NEW n \in Nat, NEW f \in [0 .. n - 1 -> Int]
    PROVE  /\ \A k \in 0 .. n - 1 : RankOf(f, k) \in 0 .. n - 1
           /\ \A k, l \in 0 .. n - 1 : Precedes(f, k, l) => RankOf(f, k) < RankOf(f, l)
           /\ \A r \in 0 .. n - 1 : \E k \in 0 .. n - 1 : RankOf(f, k) = r
<1> DEFINE D == 0 .. n - 1
           B(k) == {l \in D : Precedes(f, l, k)}
           rank == [k \in D |-> RankOf(f, k)]
<1>1. IsFiniteSet(D) /\ Cardinality(D) = n
  BY FS_Interval
<1>2. \A k : RankOf(f, k) = Cardinality(B(k))
  BY DEF RankOf
<1>3. \A k \in D : f[k] \in Int /\ k \in Int
  OBVIOUS
<1>4. ASSUME NEW k \in D PROVE IsFiniteSet(B(k)) /\ Cardinality(B(k)) \in Nat
  <2>1. B(k) \in SUBSET D
    OBVIOUS
  <2>2. IsFiniteSet(B(k))
    BY <1>1, <2>1, FS_Subset
  <2>3. QED
    BY <2>2, FS_CardinalityType
<1>5. ASSUME NEW k \in D, NEW l \in D, Precedes(f, k, l)
      PROVE  RankOf(f, k) < RankOf(f, l)
  <2>1. k \notin B(k)
    BY <1>3 DEF Precedes
  <2>2. B(k) \cup {k} \in SUBSET B(l)
    <3>1. \A x \in D : Precedes(f, x, k) => Precedes(f, x, l)
      BY <1>3, <1>5 DEF Precedes
    <3>2. QED
      BY <1>5, <3>1
  <2> HIDE DEF B
  <2>3. Cardinality(B(k) \cup {k}) = Cardinality(B(k)) + 1
    BY <1>4, <2>1, FS_AddElement
  <2>4. Cardinality(B(k) \cup {k}) <= Cardinality(B(l))
    BY <1>4, <2>2, FS_Subset
  <2>5. QED
    BY <1>2, <1>4, <2>3, <2>4
<1>6. ASSUME NEW k \in D PROVE RankOf(f, k) \in 0 .. n - 1
  <2>1. k \notin B(k) /\ B(k) \cup {k} \in SUBSET D
    BY <1>3 DEF Precedes
  <2> HIDE DEF B, D
  <2>2. Cardinality(B(k) \cup {k}) = Cardinality(B(k)) + 1
    BY <1>4, <2>1, FS_AddElement
  <2>3. Cardinality(B(k) \cup {k}) <= n
    BY <1>1, <2>1, FS_Subset
  <2>4. QED
    BY <1>2, <1>4, <2>2, <2>3
<1>7. ASSUME NEW k \in D, NEW l \in D, k # l PROVE rank[k] # rank[l]
  <2>1. Precedes(f, k, l) \/ Precedes(f, l, k)
    BY <1>3, <1>7 DEF Precedes
  <2>2. RankOf(f, k) \in Int /\ RankOf(f, l) \in Int
    BY <1>6
  <2>3. QED
    BY <1>5, <2>1, <2>2
<1>8. rank \in Injection(D, D)
  <2>1. rank \in [D -> D]
    BY <1>6
  <2> HIDE DEF rank, D
  <2>2. QED
    BY <1>7, <2>1 DEF Injection, IsInjective
<1>9. rank \in Surjection(D, D)
  BY <1>1, <1>8, FS_Injection
<1>10. \A r \in D : \E k \in D : rank[k] = r
  BY <1>9 DEF Surjection
<1>11. QED
  BY <1>5, <1>6, <1>10

LEMMA LargestPlace ==
    ASSUME NEW n \in Nat, n > 0, NEW f \in [0 .. n - 1 -> Int]
    PROVE  \E k \in 0 .. n - 1 : \A l \in 0 .. n - 1 : f[l] <= f[k]
<1>1. PICK k \in 0 .. n - 1 : RankOf(f, k) = n - 1
  BY Ranks
<1>2. ASSUME NEW l \in 0 .. n - 1 PROVE f[l] <= f[k]
  <2>1. ~Precedes(f, k, l)
    <3>1. RankOf(f, l) \in 0 .. n - 1
      BY Ranks
    <3>2. Precedes(f, k, l) => RankOf(f, k) < RankOf(f, l)
      BY Ranks
    <3>3. QED
      BY <1>1, <3>1, <3>2
  <2>2. f[k] \in Int /\ f[l] \in Int
    OBVIOUS
  <2>3. QED
    BY <2>1, <2>2 DEF Precedes
<1>3. QED
  BY <1>2

LEMMA SmallestPlace ==
    ASSUME NEW n \in Nat, n > 0, NEW f \in [0 .. n - 1 -> Int]
    PROVE  \E k \in 0 .. n - 1 : \A l \in 0 .. n - 1 : f[k] <= f[l]
<1> DEFINE g == [k \in 0 .. n - 1 |-> -f[k]]
<1>1. g \in [0 .. n - 1 -> Int] /\ \A k \in 0 .. n - 1 : g[k] \in Int /\ g[k] = -f[k]
  OBVIOUS
<1> HIDE DEF g
<1>2. PICK k \in 0 .. n - 1 : \A l \in 0 .. n - 1 : g[l] <= g[k]
  BY <1>1, LargestPlace
<1>3. \A l \in 0 .. n - 1 : f[k] <= f[l]
  BY <1>1, <1>2
<1>4. QED
  BY <1>3

\* The first place of a set of them.
LEMMA FirstPlace ==
    ASSUME NEW n \in Nat, NEW S \in SUBSET (0 .. n - 1), S # {}
    PROVE  \E k \in S : \A l \in 0 .. k - 1 : l \notin S
<1> DEFINE f == [k \in 0 .. n - 1 |-> IF k \in S THEN n - k ELSE 0]
<1>1. n > 0 /\ f \in [0 .. n - 1 -> Int]
  <2>1. PICK k \in S : k \in 0 .. n - 1
    OBVIOUS
  <2>2. \A l \in 0 .. n - 1 : n - l \in Int
    OBVIOUS
  <2>3. QED
    BY <2>1, <2>2
<1>2. \A k \in 0 .. n - 1 : f[k] = IF k \in S THEN n - k ELSE 0
  OBVIOUS
<1> HIDE DEF f
<1>3. PICK k \in 0 .. n - 1 : \A l \in 0 .. n - 1 : f[l] <= f[k]
  BY <1>1, LargestPlace
<1>4. k \in S
  <2>1. PICK l \in S : l \in 0 .. n - 1
    OBVIOUS
  <2>2. f[l] > 0 /\ f[l] <= f[k]
    BY <1>2, <1>3, <2>1
  <2>3. QED
    BY <1>2, <2>2
<1>5. ASSUME NEW l \in 0 .. k - 1, l \in S PROVE FALSE
  <2>1. f[l] = n - l /\ f[k] = n - k /\ f[l] <= f[k]
    BY <1>2, <1>3, <1>4, <1>5
  <2>2. QED
    BY <2>1, <1>5
<1>6. QED
  BY <1>4, <1>5

--------------------------------------------------------------------------------
(* mtx2bsp: the minimised matrix. *)

\* A value that fits a type is kept by it.
LEMMA HeldFits ==
    ASSUME NEW v \in Int \X Int, NEW t,
           t \in {"float32", "complex32"} => FitsFloat32(v[1]) /\ FitsFloat32(v[2])
    PROVE  Held(t, v) = v
<1>1. v = <<v[1], v[2]>>
  OBVIOUS
<1>2. \A x : FitsFloat32(x) => Cast(x) = x
  BY DEF FitsFloat32, Cast
<1>3. QED
  BY <1>1, <1>2 DEF Held

\* Integers are int_wide only where the narrow signed type does not hold them all.
LEMMA IntegerTypeIs ==
    ASSUME NEW n \in Nat, n > 0, NEW f, DOMAIN f = 0 .. n - 1,
           \A k \in 0 .. n - 1 : f[k] \in Int \X Int
    PROVE  /\ IntegerType(f) \in {"narrow", "wide", "int_narrow", "int_wide"}
           /\ IntegerType(f) = "int_wide" =>
                 \E k \in DOMAIN f : f[k][1] \notin -(Base \div 2) .. (Base \div 2) - 1
<1> DEFINE g == [k \in 0 .. n - 1 |-> f[k][1]]
<1>1. n \in Nat /\ n > 0 /\ DOMAIN f = 0 .. n - 1 /\ \A k \in 0 .. n - 1 : f[k] \in Int \X Int
  OBVIOUS
<1>2. g \in [0 .. n - 1 -> Int] /\ \A k \in 0 .. n - 1 : g[k] = f[k][1]
  BY <1>1
<1> HIDE DEF g
<1>3. \E k \in 0 .. n - 1 : \A l \in 0 .. n - 1 : g[l] <= g[k]
  BY <1>1, <1>2, LargestPlace
<1>4. \E k \in 0 .. n - 1 : \A l \in 0 .. n - 1 : g[k] <= g[l]
  BY <1>1, <1>2, SmallestPlace
<1>5. Greatest(f) \in DOMAIN f
  <2>1. PICK k \in 0 .. n - 1 : \A l \in 0 .. n - 1 : g[l] <= g[k]
    BY <1>3
  <2>2. \A l \in DOMAIN f : f[l][1] <= f[k][1]
    BY <1>1, <1>2, <2>1
  <2>3. QED
    BY <1>1, <2>2 DEF Greatest
<1>6. Least(f) \in DOMAIN f
  <2>1. PICK k \in 0 .. n - 1 : \A l \in 0 .. n - 1 : g[k] <= g[l]
    BY <1>4
  <2>2. \A l \in DOMAIN f : f[k][1] <= f[l][1]
    BY <1>1, <1>2, <2>1
  <2>3. QED
    BY <1>1, <2>2 DEF Least
<1>7. IntegerType(f) \in {"narrow", "wide", "int_narrow", "int_wide"}
  BY DEF IntegerType, Pick
<1>8. ASSUME IntegerType(f) = "int_wide",
             \A k \in DOMAIN f : f[k][1] \in -(Base \div 2) .. (Base \div 2) - 1
      PROVE  FALSE
  <2> DEFINE h == Base \div 2
             a == f[Least(f)][1]
             b == f[Greatest(f)][1]
  <2>1. a \in -h .. h - 1 /\ b \in -h .. h - 1
    BY <1>5, <1>6, <1>8
  <2>2. h \in Int
    BY NarrowMaxAssumption DEF Base
  <2> HIDE DEF h
  <2>3. b <= h - 1 /\ a >= -h
    BY <2>1, <2>2
  <2>4. IntegerType(f) # "int_wide"
    <3>1. IntegerType(f) = IF a >= 0 THEN Pick(b) ELSE IF b <= h - 1 /\ a >= -h THEN "int_narrow"
                           ELSE "int_wide"
      BY DEF IntegerType, h
    <3>2. QED
      BY <2>3, <3>1 DEF Pick
  <2>5. QED
    BY <1>8, <2>4
<1>9. QED
  BY <1>7, <1>8

\* A matrix that holds a text has its numbers.
LEMMA HoldsNumbers ==
    ASSUME NEW m, NEW t, Complete(t), t.lines \in Lines, Readable(t), Holds(m, t),
           t.type # "pattern"
    PROVE  /\ t.nnz \in Nat /\ DOMAIN m.values.data = 0 .. t.nnz - 1
           /\ \A k \in 0 .. t.nnz - 1 : m.values.data[k] \in Int \X Int
<1>1. t.nnz \in Nat /\ Len(t.lines) = t.nnz
  BY CompleteFacts
<1>2. CASE t.format = "coordinate"
  <2>1. /\ DOMAIN m.values.data = 0 .. t.nnz - 1 /\ DOMAIN m.indices_0.data = 0 .. t.nnz - 1
        /\ m.format = "COO" /\ ~m.is_iso
        /\ Entries(m) = TextEntries(t)
    BY <1>2 DEF Holds, Coordinated, Count
  <2>2. ASSUME NEW k \in 0 .. t.nnz - 1 PROVE m.values.data[k] \in Int \X Int
    <3>1. <<m.indices_0.data[k], m.indices_1.data[k], m.values.data[k]>> \in TextEntries(t)
      BY <2>1 DEF Entries, ValueOf
    <3>2. PICK l \in 1 .. Len(t.lines) : m.values.data[k] = t.lines[l][3]
      BY <3>1, <1>2 DEF TextEntries
    <3>3. QED
      BY <3>2, LineParts
  <2>3. QED
    BY <1>1, <2>1, <2>2
<1>3. CASE t.format # "coordinate"
  <2>1. /\ DOMAIN m.values.data = 0 .. t.nnz - 1
        /\ \A c \in 0 .. t.nnz - 1 : m.values.data[Place(t, c)] = t.lines[c + 1][3]
    BY <1>3 DEF Holds, Filled
  <2>2. ASSUME NEW k \in 0 .. t.nnz - 1 PROVE m.values.data[k] \in Int \X Int
    <3>1. IsDense(t)
      BY <1>1, <1>3, DenseEntries
    <3>2. PICK c \in 0 .. t.nnz - 1 : Place(t, c) = k
      BY <3>1, PlaceOnto
    <3>3. c + 1 \in 1 .. Len(t.lines)
      BY <1>1
    <3>4. QED
      BY <2>1, <3>2, <3>3, LineParts
  <2>3. QED
    BY <1>1, <2>1, <2>2
<1>4. QED
  BY <1>2, <1>3

\* A matrix with the same values in another type holds the same text.
LEMMA HoldsRetyped ==
    ASSUME NEW m, NEW t, Holds(m, t), t.nnz \in Nat, NEW a, DOMAIN a = {"type", "data"},
           DOMAIN a.data = DOMAIN m.values.data,
           \A k \in DOMAIN m.values.data : a.data[k] = m.values.data[k],
           t.format # "coordinate" => \A c \in 0 .. t.nnz - 1 : Place(t, c) \in 0 .. t.nnz - 1
    PROVE  LET n == [m EXCEPT !.values = a]
           IN  /\ Holds(n, t)
               /\ n.values = a
               /\ InOrder(m) => InOrder(n)
<1> DEFINE n == [m EXCEPT !.values = a]
<1>1. IsMatrix(m)
  BY DEF Holds, Coordinated, Filled
<1>2. IsMatrix(n) /\ n.values = a /\ \A x \in Keys \ {"values"} : n[x] = m[x]
  BY <1>1 DEF IsMatrix, HasKeys, Keys, Fields
<1> HIDE DEF n
<1>3. /\ n.format = m.format /\ n.nrows = m.nrows /\ n.ncols = m.ncols /\ n.nnz = m.nnz
      /\ n.is_iso = m.is_iso /\ n.indices_0 = m.indices_0 /\ n.indices_1 = m.indices_1
      /\ n.pointers_to_1 = m.pointers_to_1 /\ n.structure = m.structure
  BY <1>2 DEF Keys
<1>4. InOrder(m) => InOrder(n)
  BY <1>3, SameOrder
<1>5. CASE t.format = "coordinate"
  <2>1. Coordinated(m, t) /\ Entries(m) = TextEntries(t)
    BY <1>5 DEF Holds
  <2>6. t.type = "pattern" => n.values.data[0] = m.values.data[0]
    BY <1>2, <2>1 DEF Coordinated, Count
  <2>2. Coordinated(n, t)
    BY <1>2, <1>3, <2>1, <2>6 DEF Coordinated, RowsOfLines
  <2>3. \A k \in 0 .. t.nnz - 1 : ValueOf(n, k) = ValueOf(m, k)
    <3> TAKE k \in 0 .. t.nnz - 1
    <3>1. (IF m.is_iso THEN 0 ELSE k) \in DOMAIN m.values.data
      <4>1. DOMAIN m.values.data = 0 .. Count(t, "values") - 1 /\ (m.is_iso <=> t.type = "pattern")
        BY <2>1 DEF Coordinated
      <4>2. QED
        BY <4>1 DEF Count
    <3>2. QED
      BY <1>2, <1>3, <3>1 DEF ValueOf
  <2>4. Entries(n) = Entries(m)
    <3>1. m.format = "COO" /\ DOMAIN m.indices_0.data = 0 .. t.nnz - 1
      BY <2>1 DEF Coordinated
    <3>2. QED
      BY <1>3, <2>3, <3>1 DEF Entries
  <2>5. QED
    BY <1>2, <1>3, <1>4, <1>5, <2>1, <2>2, <2>4 DEF Holds, n
<1>6. CASE t.format # "coordinate"
  <2>1. Holds(n, t)
    BY <1>2, <1>3, <1>6 DEF Holds, Filled
  <2>2. QED
    BY <1>2, <1>4, <2>1 DEF n
<1>7. QED
  BY <1>5, <1>6

\* Minimisation keeps the entries, in the narrowest type.
LEMMA MinimizedHolds ==
    ASSUME NEW m, NEW t, Complete(t), t.lines \in Lines, Readable(t), Holds(m, t),
           m.values.type = TypeOf[t.type],
           m.values.type = "int_wide" => Size(m.values.data) # 0
    PROVE  LET n == IF m.values.type = "int_wide" \/ MinimalType(m.values) # m.values.type
                    THEN [m EXCEPT !.values = Minimized(m.values)] ELSE m
           IN  /\ Holds(n, t)
               /\ InOrder(m) => InOrder(n)
               /\ Narrowest(n.values)
               /\ Kind(n.values.type) = Kind(TypeOf[t.type])
<1> DEFINE a == m.values
           T == MinimalType(a)
           b == Minimized(a)
<1>1. t.type \in {"real", "integer", "complex", "pattern"}
  BY DEF Readable, TypeOf
<1>2. t.nnz \in Nat
  BY CompleteFacts
<1>3. CASE t.type = "pattern"
  <2>1. a.type = "bint8" /\ T = "bint8"
    BY <1>3 DEF TypeOf, MinimalType
  <2>2. QED
    BY <1>3, <2>1 DEF Narrowest
<1>4. CASE t.type # "pattern"
  <2>1. DOMAIN a.data = 0 .. t.nnz - 1 /\ \A k \in 0 .. t.nnz - 1 : a.data[k] \in Int \X Int
    BY <1>4, HoldsNumbers
  <2>2. a.type = "int_wide" => t.nnz > 0
    <3>1. t.nnz = 0 => DOMAIN a.data = {}
      BY <2>1
    <3>2. Cardinality({}) = 0
      BY FS_EmptySet
    <3>3. QED
      BY <1>2, <3>1, <3>2 DEF Size
  <2>3. a.type \in {"float64", "complex64", "int_wide"}
    BY <1>1, <1>4 DEF TypeOf
  <2>4. a.type = "int_wide" =>
           /\ T \in {"narrow", "wide", "int_narrow", "int_wide"}
           /\ T = "int_wide" =>
                \E k \in DOMAIN a.data : a.data[k][1] \notin -(Base \div 2) .. (Base \div 2) - 1
    <3>1. ASSUME a.type = "int_wide" PROVE T = IntegerType(a.data)
      BY <3>1 DEF MinimalType
    <3> HIDE DEF a, T
    <3>2. QED
      BY <1>2, <2>1, <2>2, <3>1, IntegerTypeIs
  <2>5. a.type = "float64" => T = IF AllFit(a.data) THEN "float32" ELSE "float64"
    BY DEF MinimalType
  <2>6. a.type = "complex64" => T = IF AllFit(a.data) THEN "complex32" ELSE "complex64"
    BY DEF MinimalType
  <2>7. b.type = T /\ DOMAIN b = {"type", "data"} /\ DOMAIN b.data = DOMAIN a.data
        /\ \A k \in DOMAIN a.data : b.data[k] = Held(T, a.data[k])
    BY DEF Minimized
  <2> HIDE DEF a, T, b
  <2>8. \A k \in DOMAIN a.data : b.data[k] = a.data[k]
    <3>1. ASSUME NEW k \in DOMAIN a.data PROVE Held(T, a.data[k]) = a.data[k]
      <4>1. T \in {"float32", "complex32"} => AllFit(a.data)
        BY <2>3, <2>4, <2>5, <2>6
      <4>2. QED
        BY <2>1, <4>1, HeldFits DEF AllFit
    <3>2. QED
      BY <2>7, <3>1
  <2>9. ASSUME a.type # "int_wide", T = a.type PROVE Narrowest(a)
    BY <2>3, <2>5, <2>6, <2>9 DEF Narrowest
  <2>10. ASSUME a.type = "int_wide" \/ T # a.type PROVE Narrowest(b)
    <3>1. T \notin {"float64", "complex64"}
      BY <2>3, <2>4, <2>5, <2>6, <2>10
    <3>2. T = "int_wide" => a.type = "int_wide"
      BY <2>3, <2>5, <2>6
    <3>3. QED
      BY <2>4, <2>7, <2>8, <3>1, <3>2 DEF Narrowest
  <2>11. t.format # "coordinate" => \A c \in 0 .. t.nnz - 1 : Place(t, c) \in 0 .. t.nnz - 1
    <3>1. t.format # "coordinate" /\ t.nnz > 0 => IsDense(t)
      BY DenseEntries
    <3>2. QED
      BY <1>2, <3>1, PlaceFacts
  <2>12. /\ Holds([m EXCEPT !.values = b], t) /\ [m EXCEPT !.values = b].values = b
         /\ InOrder(m) => InOrder([m EXCEPT !.values = b])
    BY <1>2, <2>7, <2>8, <2>11, HoldsRetyped DEF a
  <2>14. Kind(T) = Kind(a.type)
    BY <2>3, <2>4, <2>5, <2>6 DEF Kind
  <2>15. b.type = T /\ a.type = TypeOf[t.type]
    BY <2>7 DEF a
  <2> HIDE DEF Kind
  <2>13. QED
    BY <2>9, <2>10, <2>12, <2>14, <2>15 DEF a, b, T
<1>5. QED
  BY <1>3, <1>4

--------------------------------------------------------------------------------
(* mtx2bsp: the matrix converted to CSR. *)

\* What an element of type T stores of a number.
LEMMA StoredSmall ==
    ASSUME NEW T, Cap(T) \in Nat, NEW v \in Nat, v <= Cap(T) PROVE Stored(T, v) = v
  BY DEF Stored, Junk

LEMMA StoredBelow ==
    ASSUME NEW T, Cap(T) \in Nat, NEW v \in Nat PROVE Stored(T, v) \in 0 .. Cap(T)
<1>1. v % (Cap(T) + 1) \in 0 .. Cap(T)
  BY SMTT(30)
<1>2. QED
  BY <1>1 DEF Stored, Junk

\* A type holds what it was picked for.
LEMMA PickHolds ==
    ASSUME NEW v \in Nat, v <= Cap("wide") PROVE Cap(Pick(v)) \in Nat /\ v <= Cap(Pick(v))
  BY WideCap, NarrowMaxAssumption DEF Pick

LEMMA LargerIs ==
    ASSUME NEW x \in Nat, NEW y \in Nat
    PROVE  Larger(x, y) \in {x, y} /\ x <= Larger(x, y) /\ y <= Larger(x, y)
  BY DEF Larger

CsrType(m) == Pick(Larger(MaxDim(m), Size(m.values.data)))

\* The type of the indices and pointers holds the indices, and the pointers if they fit.
LEMMA CsrTypeHolds ==
    ASSUME NEW m, NEW t, Complete(t), t.format = "coordinate", Holds(m, t)
    PROVE  LET T == CsrType(m)
           IN  /\ Cap(T) \in Nat /\ t.nrows <= Cap(T) /\ t.ncols <= Cap(T)
               /\ t.nnz <= Cap(T) <=> PointersFit(t, "CSR")
<1> DEFINE T == CsrType(m)
           d == MaxDim(m)
           n == Count(t, "values")
<1>1. Coordinated(m, t)
  BY DEF Holds
<1>2. /\ t.nrows \in Nat /\ t.ncols \in Nat /\ t.nnz \in Nat
      /\ t.nrows <= Cap("wide") /\ t.ncols <= Cap("wide") /\ t.nnz <= Cap("wide")
  BY CompleteFacts
<1>3. d = Larger(t.nrows, t.ncols)
  BY <1>1 DEF MaxDim, Coordinated
<1>4. d \in Nat /\ t.nrows <= d /\ t.ncols <= d /\ d <= Cap("wide")
  BY <1>2, <1>3, LargerIs
<1>5. n \in Nat /\ DOMAIN m.values.data = 0 .. n - 1
  BY <1>1, <1>2 DEF Coordinated, Count
<1>6. Size(m.values.data) = n
  BY <1>5, FS_Interval DEF Size
<1>7. T = Pick(Larger(d, n))
  BY <1>6 DEF CsrType
<1> HIDE DEF T, d
<1>8. CASE t.type # "pattern"
  <2>1. n = t.nnz /\ PointersFit(t, "CSR")
    BY <1>8 DEF Count, PointersFit
  <2>2. Larger(d, n) \in Nat /\ d <= Larger(d, n) /\ n <= Larger(d, n)
        /\ Larger(d, n) <= Cap("wide")
    BY <1>2, <1>4, <2>1, LargerIs
  <2>3. Cap(T) \in Nat /\ Larger(d, n) <= Cap(T)
    BY <1>7, <2>2, PickHolds
  <2>4. QED
    BY <1>2, <1>4, <2>1, <2>2, <2>3 DEF T
<1>9. CASE t.type = "pattern"
  <2>1. n = 1
    BY <1>9 DEF Count
  <2>2. T = Pick(d)
    BY <1>4, <1>7, <2>1, NarrowMaxAssumption DEF Pick, Larger
  <2>3. Cap(T) \in Nat /\ d <= Cap(T)
    BY <1>4, <2>2, PickHolds
  <2>4. t.nnz <= Cap(T) <=> PointersFit(t, "CSR")
    BY <1>3, <1>9, <2>2 DEF PointersFit
  <2>5. QED
    BY <1>2, <1>4, <2>3, <2>4 DEF T
<1>10. QED
  BY <1>8, <1>9

\* An entry comes after the beginning of row r if it is of that row or a later one.
LEMMA Begins ==
    ASSUME NEW m, m.nnz \in Nat, DOMAIN m.indices_0.data = 0 .. m.nnz - 1,
           \A k \in 0 .. m.nnz - 1 : m.indices_0.data[k] \in Int, InOrder(m), NEW r \in Int
    PROVE  /\ Begin(m, r) \in 0 .. m.nnz
           /\ \A k \in 0 .. m.nnz - 1 : Begin(m, r) <= k <=> m.indices_0.data[k] >= r
<1> DEFINE n == m.nnz
           i == m.indices_0.data
           b == Begin(m, r)
           S == {k \in 0 .. n - 1 : i[k] >= r}
           Is(k) == (k = n \/ i[k] >= r) /\ \A l \in 0 .. k - 1 : i[l] < r
<1>1. n \in Nat /\ \A k \in 0 .. n - 1 : i[k] \in Int
  OBVIOUS
<1>2. b = CHOOSE k \in 0 .. n : Is(k)
  BY DEF Begin
<1>3. \A k, l \in 0 .. n - 1 : k < l => i[k] <= i[l]
  <2>1. ASSUME NEW k \in 0 .. n - 1, NEW l \in 0 .. n - 1, k < l PROVE i[k] <= i[l]
    <3>1. RowBefore(m, k, l)
      BY <2>1 DEF InOrder
    <3>2. i[k] < i[l] \/ i[k] = i[l]
      BY <3>1 DEF RowBefore
    <3>3. i[k] \in Int /\ i[l] \in Int
      OBVIOUS
    <3> HIDE DEF i
    <3>4. QED
      BY <3>2, <3>3
  <2>2. QED
    BY <2>1
<1> HIDE DEF n, i, b
<1>4. \E k \in 0 .. n : Is(k)
  <2>1. CASE S = {}
    <3>1. \A l \in 0 .. n - 1 : i[l] < r
      BY <1>1, <2>1
    <3>2. n \in 0 .. n
      BY <1>1
    <3>3. QED
      BY <3>1, <3>2
  <2>2. CASE S # {}
    <3>1. PICK k \in S : \A l \in 0 .. k - 1 : l \notin S
      <4>1. S \in SUBSET (0 .. n - 1)
        OBVIOUS
      <4> HIDE DEF S
      <4>2. QED
        BY <1>1, <2>2, <4>1, FirstPlace
    <3>2. k \in 0 .. n /\ k \in 0 .. n - 1 /\ i[k] >= r
      BY <1>1, <3>1
    <3>3. \A l \in 0 .. k - 1 : l \in 0 .. n - 1 /\ i[l] < r
      BY <1>1, <3>1, <3>2
    <3>4. QED
      BY <3>2, <3>3
  <2>3. QED
    BY <2>1, <2>2
<1>5. b \in 0 .. n /\ Is(b)
  <2> HIDE DEF Is
  <2>1. QED
    BY <1>2, <1>4
<1>6. ASSUME NEW k \in 0 .. n - 1 PROVE b <= k <=> i[k] >= r
  <2>1. i[k] \in Int /\ k \in Int /\ b \in Int
    BY <1>1, <1>5
  <2>2. CASE k < b
    <3>1. k \in 0 .. b - 1
      BY <2>1, <2>2
    <3>2. i[k] < r
      BY <1>5, <3>1
    <3>3. QED
      BY <2>1, <2>2, <3>2
  <2>3. CASE b <= k
    <3>1. b \in 0 .. n - 1 /\ i[b] \in Int
      BY <1>1, <1>5, <2>1, <2>3
    <3>2. i[b] >= r
      BY <1>1, <1>5, <3>1
    <3>3. i[b] <= i[k]
      BY <1>3, <2>1, <2>3, <3>1
    <3>4. QED
      BY <2>1, <2>3, <3>1, <3>2, <3>3
  <2>4. QED
    BY <2>1, <2>2, <2>3
<1>7. QED
  BY <1>5, <1>6 DEF n, i, b

\* What the conversion makes of a matrix that holds a text.
LEMMA CsrFacts ==
    ASSUME NEW m, NEW t, Complete(t), t.format = "coordinate", Holds(m, t), InOrder(m)
    PROVE  LET c == CsrOf(m)
               T == CsrType(m)
           IN  /\ c.format = "CSR" /\ c.nrows = t.nrows /\ c.values = m.values
               /\ c.is_iso = m.is_iso
               /\ \A r \in 0 .. t.nrows : c.pointers_to_1.data[r] = Stored(T, Begin(m, r))
               /\ DOMAIN c.indices_1.data = 0 .. t.nnz - 1
               /\ \A k \in 0 .. t.nnz - 1 : c.indices_1.data[k] = m.indices_1.data[k]
               /\ \A r \in 0 .. t.nrows :
                     /\ Begin(m, r) \in 0 .. t.nnz
                     /\ \A k \in 0 .. t.nnz - 1 : Begin(m, r) <= k <=> m.indices_0.data[k] >= r
<1> DEFINE T == CsrType(m)
           p == [r \in 0 .. m.nrows |-> Stored(T, Begin(m, r))]
           c == CsrOf(m)
<1>1. Coordinated(m, t) /\ IsMatrix(m)
  BY DEF Holds, Coordinated, Filled
<1>2. /\ m.nrows = t.nrows /\ m.nnz = t.nnz
      /\ DOMAIN m.indices_0.data = 0 .. t.nnz - 1 /\ DOMAIN m.indices_1.data = 0 .. t.nnz - 1
      /\ \A k \in 0 .. t.nnz - 1 : /\ m.indices_0.data[k] \in 0 .. t.nrows - 1
                                   /\ m.indices_1.data[k] \in 0 .. t.ncols - 1
  BY DEF Holds, Coordinated, Filled
<1>3. t.nrows \in Nat /\ t.ncols \in Nat /\ t.nnz \in Nat
  BY CompleteFacts
<1>4. c = [m EXCEPT !.format = "CSR", !.indices_0 = Absent,
                    !.indices_1 = Converted(@, T), !.pointers_to_1 = Indexes(T, p)]
  BY DEF CsrOf, CsrType
<1> HIDE DEF c, p, T
<1>5. /\ c.format = "CSR" /\ c.nrows = m.nrows /\ c.values = m.values /\ c.is_iso = m.is_iso
      /\ c.indices_1 = Converted(m.indices_1, T) /\ c.pointers_to_1 = Indexes(T, p)
  BY <1>1, <1>4 DEF IsMatrix, HasKeys, Keys
<1>6. \A r \in 0 .. t.nrows : c.pointers_to_1.data[r] = Stored(T, Begin(m, r))
  BY <1>2, <1>5 DEF Indexes, p
<1>7. DOMAIN c.indices_1.data = 0 .. t.nnz - 1
  BY <1>2, <1>5 DEF Converted, Indexes
<1>8. \A k \in 0 .. t.nnz - 1 : c.indices_1.data[k] = m.indices_1.data[k]
  <2> TAKE k \in 0 .. t.nnz - 1
  <2>1. c.indices_1.data[k] = Stored(T, m.indices_1.data[k])
    BY <1>2, <1>5 DEF Converted, Indexes
  <2>2. m.indices_1.data[k] \in Nat /\ m.indices_1.data[k] <= t.ncols
    BY <1>2, <1>3
  <2>3. Cap(T) \in Nat /\ t.ncols <= Cap(T)
    BY CsrTypeHolds DEF T
  <2>4. m.indices_1.data[k] <= Cap(T)
    BY <1>3, <2>2, <2>3
  <2>5. QED
    BY <2>1, <2>2, <2>3, <2>4, StoredSmall
<1>9. ASSUME NEW r \in 0 .. t.nrows
      PROVE  /\ Begin(m, r) \in 0 .. t.nnz
             /\ \A k \in 0 .. t.nnz - 1 : Begin(m, r) <= k <=> m.indices_0.data[k] >= r
  <2>1. r \in Int /\ \A k \in 0 .. t.nnz - 1 : m.indices_0.data[k] \in Int
    BY <1>2, <1>3
  <2>2. QED
    BY <1>2, <1>3, <2>1, Begins
<1>10. QED
  BY <1>2, <1>5, <1>6, <1>7, <1>8, <1>9 DEF c, T

\* If the pointers fit, every entry is in its row.
LEMMA CsrRows ==
    ASSUME NEW m, NEW t, Complete(t), t.format = "coordinate", Holds(m, t), InOrder(m),
           PointersFit(t, "CSR"), NEW k \in 0 .. t.nnz - 1
    PROVE  RowOf(CsrOf(m), k) = m.indices_0.data[k]
<1> DEFINE c == CsrOf(m)
           p == c.pointers_to_1.data
           i == m.indices_0.data[k]
           rows == {r \in 0 .. t.nrows - 1 : p[r] <= k /\ k < p[r + 1]}
<1>1. t.nrows \in Nat /\ t.nnz \in Nat /\ k \in Int
  BY CompleteFacts
<1>2. i \in 0 .. t.nrows - 1
  BY DEF Holds
<1>3. \A r \in 0 .. t.nrows : p[r] \in 0 .. t.nnz /\ (p[r] <= k <=> i >= r)
  <2> TAKE r \in 0 .. t.nrows
  <2>1. Cap(CsrType(m)) \in Nat /\ t.nnz <= Cap(CsrType(m))
    BY CsrTypeHolds
  <2>2. /\ Begin(m, r) \in 0 .. t.nnz /\ p[r] = Stored(CsrType(m), Begin(m, r))
        /\ Begin(m, r) <= k <=> i >= r
    BY CsrFacts
  <2>3. p[r] = Begin(m, r)
    BY <1>1, <2>1, <2>2, StoredSmall
  <2>4. QED
    BY <2>2, <2>3
<1>4. RowOf(c, k) = IF rows = {} THEN Junk ELSE CHOOSE r \in rows : \A q \in rows : q <= r
  <2>1. c.nrows = t.nrows
    BY CsrFacts
  <2>2. QED
    BY <2>1 DEF RowOf
<1> HIDE DEF c, p, i
<1>5. \A r \in 0 .. t.nrows - 1 : r \in rows <=> r = i
  <2> TAKE r \in 0 .. t.nrows - 1
  <2>1. r \in 0 .. t.nrows /\ r + 1 \in 0 .. t.nrows /\ r \in Int
    BY <1>1
  <2>2. (p[r] <= k <=> i >= r) /\ (p[r + 1] <= k <=> i >= r + 1) /\ p[r + 1] \in Int
    BY <1>1, <1>3, <2>1
  <2>3. QED
    BY <1>1, <1>2, <2>1, <2>2
<1>6. rows = {i}
  BY <1>2, <1>5
<1> HIDE DEF rows
<1>7. (CHOOSE r \in rows : \A q \in rows : q <= r) = i
  <2>1. \E r \in rows : \A q \in rows : q <= r
    BY <1>1, <1>2, <1>6
  <2>2. QED
    BY <1>6, <2>1
<1>8. QED
  BY <1>4, <1>6, <1>7 DEF c, i

\* And no pointer is beyond the entries.
LEMMA CsrEnds ==
    ASSUME NEW m, NEW t, Complete(t), t.format = "coordinate", Holds(m, t), InOrder(m),
           PointersFit(t, "CSR"), NEW r \in 0 .. t.nrows
    PROVE  CsrOf(m).pointers_to_1.data[r] \in 0 .. t.nnz
<1>1. t.nnz \in Nat /\ Cap(CsrType(m)) \in Nat /\ t.nnz <= Cap(CsrType(m))
  BY CompleteFacts, CsrTypeHolds
<1>2. /\ Begin(m, r) \in 0 .. t.nnz
      /\ CsrOf(m).pointers_to_1.data[r] = Stored(CsrType(m), Begin(m, r))
  BY CsrFacts
<1>3. Stored(CsrType(m), Begin(m, r)) = Begin(m, r)
  BY <1>1, <1>2, StoredSmall
<1>4. QED
  BY <1>2, <1>3

\* Thus the conversion keeps every entry.
LEMMA CsrEntries ==
    ASSUME NEW m, NEW t, Complete(t), t.format = "coordinate", Holds(m, t), InOrder(m),
           PointersFit(t, "CSR")
    PROVE  Entries(CsrOf(m)) = TextEntries(t)
<1> DEFINE c == CsrOf(m)
<1>1. /\ c.format = "CSR" /\ c.values = m.values /\ c.is_iso = m.is_iso
      /\ DOMAIN c.indices_1.data = 0 .. t.nnz - 1
      /\ \A k \in 0 .. t.nnz - 1 : c.indices_1.data[k] = m.indices_1.data[k]
  BY CsrFacts
<1>2. \A k \in 0 .. t.nnz - 1 : RowOf(c, k) = m.indices_0.data[k]
  BY CsrRows
<1>3. m.format = "COO" /\ DOMAIN m.indices_0.data = 0 .. t.nnz - 1 /\ Entries(m) = TextEntries(t)
  BY DEF Holds, Coordinated, Filled
<1> HIDE DEF c
<1>4. \A k : ValueOf(c, k) = ValueOf(m, k)
  BY <1>1 DEF ValueOf
<1>5. Entries(c) = {<<RowOf(c, k), c.indices_1.data[k], ValueOf(c, k)>> : k \in 0 .. t.nnz - 1}
  BY <1>1 DEF Entries
<1>6. Entries(m) = {<<m.indices_0.data[k], m.indices_1.data[k], ValueOf(m, k)>> :
                      k \in 0 .. t.nnz - 1}
  BY <1>3 DEF Entries
<1>7. QED
  BY <1>1, <1>2, <1>3, <1>4, <1>5, <1>6 DEF c

\* If they do not, the last entry is in none.
LEMMA CsrLoses ==
    ASSUME NEW m, NEW t, Complete(t), t.format = "coordinate", Holds(m, t), InOrder(m),
           ~PointersFit(t, "CSR")
    PROVE  Entries(CsrOf(m)) # TextEntries(t)
<1> DEFINE c == CsrOf(m)
           p == c.pointers_to_1.data
           T == CsrType(m)
           k == t.nnz - 1
<1>1. /\ t.nrows \in Nat /\ t.nnz \in Nat /\ Cap(T) \in Nat /\ Cap(T) < t.nnz
      /\ Len(t.lines) = t.nnz
  BY CompleteFacts, CsrTypeHolds
<1>2. \A r \in 0 .. t.nrows : p[r] \in 0 .. k
  <2> TAKE r \in 0 .. t.nrows
  <2>1. Begin(m, r) \in 0 .. t.nnz /\ p[r] = Stored(T, Begin(m, r))
    BY CsrFacts
  <2>2. p[r] \in 0 .. Cap(T)
    <3>1. Begin(m, r) \in Nat
      BY <1>1, <2>1
    <3>2. QED
      BY <1>1, <2>1, <3>1, StoredBelow
  <2> HIDE DEF T, p
  <2>3. QED
    BY <1>1, <2>2
<1>3. c.nrows = t.nrows /\ c.format = "CSR" /\ DOMAIN c.indices_1.data = 0 .. k
  BY CsrFacts
<1> HIDE DEF c
<1>4. \A r \in 0 .. t.nrows - 1 : ~(k < p[r + 1])
  <2> TAKE r \in 0 .. t.nrows - 1
  <2>1. r + 1 \in 0 .. t.nrows
    BY <1>1
  <2>2. p[r + 1] \in 0 .. k
    BY <1>2, <2>1
  <2> HIDE DEF p
  <2>3. QED
    BY <1>1, <2>2
<1>5. RowOf(c, k) = Junk
  BY <1>3, <1>4 DEF RowOf
<1>6. k \in 0 .. k
  BY <1>1
<1>7. <<Junk, c.indices_1.data[k], ValueOf(c, k)>> \in Entries(c)
  <2>1. Entries(c) = {<<RowOf(c, l), c.indices_1.data[l], ValueOf(c, l)>> : l \in 0 .. k}
    BY <1>3 DEF Entries
  <2>2. QED
    BY <1>5, <1>6, <2>1
<1>8. \A j, v : <<Junk, j, v>> \notin TextEntries(t)
  <2>1. ASSUME NEW j, NEW v, <<Junk, j, v>> \in TextEntries(t) PROVE FALSE
    <3>1. PICK l \in 1 .. t.nnz : Junk = t.lines[l][1] - 1
      BY <1>1, <2>1 DEF TextEntries
    <3>2. t.lines[l][1] \in 1 .. t.nrows
      BY DEF Complete
    <3>3. QED
      BY <1>1, <3>1, <3>2 DEF Junk
  <2>2. QED
    BY <2>1
<1>9. QED
  BY <1>7, <1>8 DEF c

--------------------------------------------------------------------------------
(* What mtx2bsp has made. *)

\* A matrix that mtx2bsp has made from a text, up to the conversion.
MadeFrom(m, t) ==
    LET u == DeclampedText(t)
    IN  /\ Holds(m, u)
        /\ t.format = "coordinate" => InOrder(m)

\* The matrix of a file made from a text: that of the declamped text, in the narrowest
\* type, or what the conversion to CSR makes of it.
Origin(m, t) ==
    /\ Readable(t)
    /\ \E n : /\ MadeFrom(n, t)
              /\ Narrowest(n.values)
              /\ Kind(n.values.type) = Kind(TypeOf[t.type])
              /\ m = n \/ (n.format = "COO" /\ m = CsrOf(n))

\* The matrix and the file of mtx2bsp, while nothing has failed.
ContentInv ==
    UnderWay /\ Program = "mtx2bsp" /\ ~faulted /\ Complete(input.text) =>
        LET t == input.text IN
        /\ Call \in {"minimize", "convert"} => Readable(t) /\ MadeFrom(matrix, t)
        /\ Call = "minimize" => matrix.values.type = TypeOf[t.type]
        /\ Call = "convert" => /\ Narrowest(matrix.values)
                              /\ Kind(matrix.values.type) = Kind(TypeOf[t.type])
        /\ Call = "write" /\ step = "start" => Origin(matrix, t)
        /\ Call = "finish" => Origin(file.m, t)

\* The file of mtx2bsp, when it has made it without a failure.
MadeInv == (\E k \in DOMAIN ended : Made(k)) /\ Complete(input.text) => Origin(file.m, input.text)

\* What such a file should hold, as FileFaithful has it.
Right(m, t) ==
   /\ IF PointersFit(t, m.format) THEN ReadAs(m, DeclampedText(t))
                                  ELSE Entries(m) # TextEntries(DeclampedText(t))
   /\ m.format = "COO" => InOrder(m)
   /\ Narrowest(m.values)

--------------------------------------------------------------------------------
(* mtx2bsp: the matrix that is written is right. *)

\* A matrix that is written as it was read, or converted to CSR, is right.
LEMMA KeptIsRight ==
    ASSUME NEW t, IsText(t), Complete(t), Readable(t), NEW m, MadeFrom(m, t), Narrowest(m.values)
    PROVE  Right(m, t)
<1> DEFINE u == DeclampedText(t)
<1>1. Complete(u) /\ u.format = t.format
  BY DeclampedTextFacts
<1>2. t.format \in {"coordinate", "array"}
  BY DEF Readable
<1>3. Holds(m, u)
  BY DEF MadeFrom
<1>4. ReadAs(m, u)
  BY <1>1, <1>2, <1>3, HoldsReadAs
<1>5. m.format = IF t.format = "coordinate" THEN "COO" ELSE "DMATR"
  BY <1>1, <1>3 DEF Holds, Coordinated, Filled
<1>6. PointersFit(t, m.format)
  BY <1>5 DEF PointersFit
<1>7. m.format = "COO" => InOrder(m)
  BY <1>5 DEF MadeFrom
<1>8. QED
  BY <1>4, <1>6, <1>7 DEF Right

LEMMA CsrIsRight ==
    ASSUME NEW t, IsText(t), Complete(t), Readable(t), NEW m, MadeFrom(m, t), Narrowest(m.values),
           m.format = "COO"
    PROVE  Right(CsrOf(m), t)
<1> DEFINE u == DeclampedText(t)
<1>1. /\ Complete(u) /\ u.format = t.format /\ u.type = t.type
      /\ u.nrows = t.nrows /\ u.ncols = t.ncols /\ u.nnz = t.nnz
  BY DeclampedTextFacts
<1>2. Holds(m, u)
  BY DEF MadeFrom
<1>3. u.format = "coordinate" /\ InOrder(m)
  BY <1>1, <1>2 DEF MadeFrom, Holds, Filled
<1>4. PointersFit(t, "CSR") <=> PointersFit(u, "CSR")
  BY <1>1 DEF PointersFit
<1>5. ReadRight(u)
  BY <1>3 DEF ReadRight
<1>6. CsrOf(m).format = "CSR" /\ CsrOf(m).values = m.values
  BY <1>1, <1>2, <1>3, CsrFacts
<1>7. PointersFit(u, "CSR") => Entries(CsrOf(m)) = TextEntries(u)
  BY <1>1, <1>2, <1>3, CsrEntries
<1>8. ~PointersFit(u, "CSR") => Entries(CsrOf(m)) # TextEntries(u)
  BY <1>1, <1>2, <1>3, CsrLoses
<1>9. QED
  BY <1>4, <1>5, <1>6, <1>7, <1>8 DEF Right, ReadAs

LEMMA OriginIsRight ==
    ASSUME NEW t, IsText(t), Complete(t), NEW m, Origin(m, t) PROVE Right(m, t)
<1>1. PICK n : /\ MadeFrom(n, t)
               /\ Narrowest(n.values)
               /\ Kind(n.values.type) = Kind(TypeOf[t.type])
               /\ m = n \/ (n.format = "COO" /\ m = CsrOf(n))
  BY DEF Origin
<1>2. Readable(t)
  BY DEF Origin
<1>3. QED
  BY <1>1, <1>2, KeptIsRight, CsrIsRight

--------------------------------------------------------------------------------
(* The steps of mtx2bsp between reading and the end. *)

\* A call of mtx2bsp returns to the next.
LEMMA MakeGoesOn ==
    ASSUME IInv, NEW c \in MakeCalls, Calls(c), Return("SUCCESS")
    PROVE  /\ UnderWay' /\ Program' = "mtx2bsp" /\ <<"mtx2bsp", c, Call'>> \in Succession
           /\ step' = "start" /\ UNCHANGED <<input, ended>> /\ ended = <<>>
<1>1. UnderWay /\ Program = "mtx2bsp" /\ Call = c /\ ended = <<>>
  BY Making
<1>2. step' = "start" /\ calls' = Tail(calls) /\ UNCHANGED <<input, todo, ended>>
  BY DEF Return
<1>3. UnderWay' /\ Program' = Program /\ <<Program, Call, Call'>> \in Succession
  BY <1>1, <1>2, NextCall DEF IInv, MakeCalls
<1>4. QED
  BY <1>1, <1>2, <1>3

LEMMA NoneMade == ASSUME ended = <<>> PROVE MadeInv
<1>1. DOMAIN ended = {}
  OBVIOUS
<1>2. QED
  BY <1>1 DEF MadeInv, Made

\* Each step of mtx2bsp keeps ContentInv, before there is any file to judge.
LEMMA DeclampContent ==
    ASSUME IInv, ResultInv, DeclampValues PROVE ContentInv' /\ MadeInv'
<1>1. /\ Calls("declamp") /\ matrix' = Declamped(matrix) /\ Return("SUCCESS")
      /\ UNCHANGED <<faulted, file>> /\ "declamp" \in MakeCalls
  BY DEF DeclampValues, KeepFiles, MakeCalls
<1>2. /\ UnderWay /\ Program = "mtx2bsp" /\ Call = "declamp" /\ step = "start"
      /\ UnderWay' /\ Program' = "mtx2bsp" /\ Call' = "minimize"
      /\ UNCHANGED <<input, ended>> /\ ended = <<>>
  BY <1>1, Making, MakeGoesOn DEF Succession
<1>3. Text = input.text /\ IsText(input.text)
  BY <1>2, InputsAssumption DEF Text, Program, IInv, SessionInv, IsSession
<1>4. ASSUME ~faulted, Complete(input.text)
      PROVE  /\ Readable(input.text)
             /\ MadeFrom(Declamped(matrix), input.text)
             /\ Declamped(matrix).values.type = TypeOf[input.text.type]
  <2>1. input.text.valid
    BY <1>4 DEF Complete
  <2>2. MmreadResult(matrix, input.text)
    BY <1>2, <1>3, <1>4, <2>1 DEF ResultInv
  <2>3. /\ Readable(input.text) /\ Holds(matrix, input.text)
        /\ matrix.values.type = TypeOf[input.text.type]
        /\ input.text.format = "coordinate" => InOrder(matrix)
    BY <1>4, <2>2 DEF MmreadResult
  <2>4. QED
    BY <1>3, <1>4, <2>3, DeclampedHolds DEF MadeFrom
<1>5. ContentInv'
  BY <1>1, <1>2, <1>4 DEF ContentInv
<1>6. MadeInv'
  <2>1. (ended = <<>>)'
    BY <1>2
  <2>2. QED
    BY <2>1, NoneMade, PTL
<1>7. QED
  BY <1>5, <1>6

LEMMA MinimizeContent ==
    ASSUME IInv, IInv', ContentInv, MadeInv, MinimizeValues, ~Dies("crash", FALSE)
    PROVE  ContentInv' /\ MadeInv'
<1> DEFINE a == matrix.values
<1>1. /\ Calls("minimize") /\ Return("SUCCESS") /\ UNCHANGED file /\ "minimize" \in MakeCalls
      /\ a.type = "int_wide" => Size(a.data) # 0
  BY DEF MinimizeValues, KeepFiles, MakeCalls
<1>2. \/ /\ matrix' = IF a.type = "int_wide" \/ MinimalType(a) # a.type
                      THEN [matrix EXCEPT !.values = Minimized(a)] ELSE matrix
         /\ UNCHANGED faulted
      \/ faulted' = TRUE
  BY DEF MinimizeValues
<1>3. /\ UnderWay /\ Program = "mtx2bsp" /\ Call = "minimize"
      /\ UnderWay' /\ Program' = "mtx2bsp" /\ Call' = "convert"
      /\ UNCHANGED <<input, ended>> /\ ended = <<>>
  BY <1>1, Making, MakeGoesOn DEF Succession
<1>4. IsText(input.text)
  BY InputsAssumption DEF IInv, SessionInv, IsSession
<1>5. ASSUME ~faulted', Complete(input.text)
      PROVE  /\ Readable(input.text) /\ MadeFrom(matrix', input.text) /\ Narrowest(matrix'.values)
             /\ Kind(matrix'.values.type) = Kind(TypeOf[input.text.type])
  <2> DEFINE t == input.text
             u == DeclampedText(t)
  <2>1. ~faulted
    BY <1>2, <1>5
  <2>2. Readable(t) /\ MadeFrom(matrix, t) /\ a.type = TypeOf[t.type]
    BY <1>3, <1>5, <2>1 DEF ContentInv
  <2>3. Complete(u) /\ u.lines \in Lines /\ u.format = t.format /\ u.type = t.type
    BY <1>4, <1>5, DeclampedTextFacts
  <2>4. Readable(u)
    BY <2>2, <2>3 DEF Readable
  <2>5. Holds(matrix, u)
    BY <2>2 DEF MadeFrom
  <2> HIDE DEF u
  <2>6. /\ Holds(matrix', u)
        /\ InOrder(matrix) => InOrder(matrix')
        /\ Narrowest(matrix'.values)
        /\ Kind(matrix'.values.type) = Kind(TypeOf[t.type])
    BY <1>1, <1>2, <1>5, <2>2, <2>3, <2>4, <2>5, MinimizedHolds
  <2>7. QED
    BY <2>2, <2>6 DEF MadeFrom, u
<1>6. ContentInv'
  BY <1>3, <1>5 DEF ContentInv
<1>7. MadeInv'
  <2>1. (ended = <<>>)'
    BY <1>3
  <2>2. QED
    BY <2>1, NoneMade, PTL
<1>8. QED
  BY <1>6, <1>7

LEMMA ConvertContent ==
    ASSUME IInv, ContentInv, Convert PROVE ContentInv' /\ MadeInv'
<1>1. Calls("convert") /\ Return("SUCCESS") /\ UNCHANGED file /\ "convert" \in MakeCalls
  BY DEF Convert, KeepFiles, MakeCalls
<1>2. \/ UNCHANGED <<matrix, faulted>>
      \/ matrix.format = "COO" /\ matrix' = CsrOf(matrix) /\ UNCHANGED faulted
      \/ faulted' = TRUE
  BY DEF Convert
<1>3. /\ UnderWay /\ Program = "mtx2bsp" /\ Call = "convert"
      /\ UnderWay' /\ Program' = "mtx2bsp" /\ Call' = "write"
      /\ UNCHANGED <<input, ended>> /\ ended = <<>>
  BY <1>1, Making, MakeGoesOn DEF Succession
<1>5. ASSUME ~faulted', Complete(input.text) PROVE Origin(matrix', input.text)
  <2>1. ~faulted
    BY <1>2, <1>5
  <2>2. /\ Readable(input.text) /\ MadeFrom(matrix, input.text) /\ Narrowest(matrix.values)
        /\ Kind(matrix.values.type) = Kind(TypeOf[input.text.type])
    BY <1>3, <1>5, <2>1 DEF ContentInv
  <2>3. QED
    BY <1>2, <1>5, <2>2 DEF Origin
<1>6. ContentInv'
  BY <1>3, <1>5 DEF ContentInv
<1>7. MadeInv'
  <2>1. (ended = <<>>)'
    BY <1>3
  <2>2. QED
    BY <2>1, NoneMade, PTL
<1>8. QED
  BY <1>6, <1>7

LEMMA WriteContent ==
    ASSUME IInv, ContentInv, WriteFile PROVE ContentInv' /\ MadeInv'
<1>1. Calls("write") /\ Return("SUCCESS") /\ "write" \in MakeCalls
  BY DEF WriteFile, MakeCalls
<1>2. \/ file' = FileOf(matrix, 4, TRUE) /\ UNCHANGED faulted
      \/ faulted' = TRUE
  BY DEF WriteFile
<1>3. /\ UnderWay /\ Program = "mtx2bsp" /\ Call = "write" /\ step = "start"
      /\ UnderWay' /\ Program' = "mtx2bsp" /\ Call' = "finish"
      /\ UNCHANGED <<input, ended>> /\ ended = <<>>
  BY <1>1, Making, MakeGoesOn DEF Succession
<1>4. FileOf(matrix, 4, TRUE).m = matrix
  BY DEF FileOf
<1>5. ASSUME ~faulted', Complete(input.text) PROVE Origin(file'.m, input.text)
  BY <1>2, <1>3, <1>4, <1>5 DEF ContentInv
<1>6. ContentInv'
  BY <1>3, <1>5 DEF ContentInv
<1>7. MadeInv'
  <2>1. (ended = <<>>)'
    BY <1>3
  <2>2. QED
    BY <2>1, NoneMade, PTL
<1>8. QED
  BY <1>6, <1>7

--------------------------------------------------------------------------------
(* The other steps. *)

MadeCalls == {"minimize", "convert", "write", "finish"}

\* A step that neither makes the file nor ends a program.
LEMMA ContentApart ==
    ASSUME MadeInv, UNCHANGED <<input, file, ended>>,
           UnderWay' /\ Program' = "mtx2bsp" => Call' \notin MadeCalls
    PROVE  ContentInv' /\ MadeInv'
<1>1. ContentInv'
  BY DEF ContentInv, MadeCalls
<1>2. MadeInv'
  BY DEF MadeInv, Made
<1>3. QED
  BY <1>1, <1>2

\* A program ends that has not made the file, or the one that has.
LEMMA EndContent ==
    ASSUME IInv, IInv', ContentInv, MadeInv, UnderWay, NEW how \in Ends,
           NEW failed \in BOOLEAN, End(how, failed), UNCHANGED file,
           how = "exit 0" /\ Program = "mtx2bsp" => Call = "finish"
    PROVE  ContentInv' /\ MadeInv'
<1>1. /\ UNCHANGED input
      /\ UnderWay' => Call' \in FirstCalls
      /\ \A k \in DOMAIN ended' :
            \/ k \in DOMAIN ended /\ ended'[k] = ended[k]
            \/ /\ ended'[k].program = Program /\ ended'[k].how = how
               /\ ended'[k].clean = ~(faulted \/ failed)
  BY AfterEnd
<1>2. ContentInv'
  BY <1>1 DEF ContentInv, FirstCalls
<1>3. MadeInv'
  <2> SUFFICES ASSUME NEW k, Made(k)', Complete(input.text) PROVE Origin(file.m, input.text)
    BY <1>1 DEF MadeInv
  <2>1. k \in DOMAIN ended' /\ ended'[k].program = "mtx2bsp" /\ ended'[k].how = "exit 0"
        /\ ended'[k].clean
    BY DEF Made
  <2>2. CASE k \in DOMAIN ended /\ ended'[k] = ended[k]
    <3>1. Made(k)
      BY <2>1, <2>2 DEF Made
    <3>2. QED
      BY <2>2, <3>1 DEF MadeInv
  <2>3. CASE /\ Program = "mtx2bsp" /\ how = "exit 0" /\ ~(faulted \/ failed)
    <3>1. ~faulted /\ Call = "finish"
      BY <2>3
    <3>2. QED
      BY <2>3, <3>1 DEF ContentInv
  <2>4. QED
    BY <1>1, <2>1, <2>2, <2>3
<1>4. QED
  BY <1>2, <1>3

\* Every other step of the programs is of one of the two kinds above.
LEMMA StepsApart ==
    ASSUME IInv, MatrixNext,
           ~(Over \/ DeclampValues \/ Convert \/ WriteFile \/ Finish),
           MinimizeValues => Dies("crash", FALSE),
           WriteFileFails => Dies("undefined", FALSE)
    PROVE  /\ UnderWay /\ UNCHANGED <<input, file>>
           /\ \/ /\ UNCHANGED <<todo, ended>>
                 /\ Program = "mtx2bsp" => Call' \notin MadeCalls
              \/ \E how \in Ends, failed \in BOOLEAN :
                    /\ End(how, failed)
                    /\ how = "exit 0" => Program # "mtx2bsp"
<1> DEFINE Ended == \E how \in Ends \ {"exit 0"}, failed \in BOOLEAN : Dies(how, failed)
<1>1. ASSUME UnderWay, Ended
      PROVE  /\ UNCHANGED <<input, file>>
             /\ \E how \in Ends, failed \in BOOLEAN :
                   End(how, failed) /\ (how = "exit 0" => Program # "mtx2bsp")
  BY <1>1 DEF Dies, End
<1>2. CASE BspCheck \/ ConvertFails \/ MinimizeValues \/ WriteFileFails
  <2>1. UnderWay
    BY <1>2 DEF BspCheck, ConvertFails, MinimizeValues, WriteFileFails, Calls, At, UnderWay
  <2>2. Ended
    BY <1>2 DEF BspCheck, ConvertFails, Ends
  <2>3. QED
    BY <1>1, <2>1, <2>2
<1>3. CASE CheckArguments
  <2>1. Calls("metadata") /\ "metadata" \in MakeCalls
    BY <1>3 DEF CheckArguments, MakeCalls
  <2>2. UnderWay
    BY <2>1, Making
  <2>3. \/ Return("SUCCESS") /\ UNCHANGED file
        \/ Ended
    BY <1>3 DEF CheckArguments, KeepFiles, Ends
  <2>4. CASE Return("SUCCESS") /\ UNCHANGED file
    <3>1. <<"mtx2bsp", "metadata", Call'>> \in Succession
      BY <2>1, <2>4, MakeGoesOn
    <3>2. Call' = "mmread"
      BY <3>1 DEF Succession
    <3>3. QED
      BY <2>2, <2>4, <3>2 DEF Return, MadeCalls
  <2>5. QED
    BY <1>1, <2>2, <2>3, <2>4
<1>4. CASE KeepFirst \/ Compare \/ ToCoo \/ ToCooFails \/ MmWrite \/ MmWriteFails
  <2>1. UnderWay /\ Call \in {"keep", "compare", "to_coo", "mmwrite"}
    BY <1>4 DEF KeepFirst, Compare, ToCoo, ToCooFails, MmWrite, MmWriteFails, Calls, At, UnderWay,
       Call
  <2>2. Program # "mtx2bsp"
    BY <2>1, CallUnderWay DEF IInv, Succession, Final
  <2>3. /\ UNCHANGED <<input, file>>
        /\ \/ UNCHANGED <<todo, ended>>
           \/ \E how \in Ends, failed \in BOOLEAN : End(how, failed)
    <3>1. CASE Compare
      <4>1. Verdict(first, matrix) \in Ends /\ (file.flaw # "nnz_type") \in BOOLEAN
        BY VerdictEnds DEF Ends
      <4>2. QED
        BY <3>1, <4>1 DEF Compare, Dies, Ends, End
    <3>2. CASE KeepFirst \/ ToCoo \/ ToCooFails
      BY <3>2 DEF KeepFirst, ToCoo, ToCooFails, KeepFiles, Return, Dies, Ends, End
    <3>3. CASE MmWrite \/ MmWriteFails
      BY <3>3 DEF MmWrite, MmWriteFails, Return, Dies, Ends, End
    <3>4. QED
      BY <1>4, <3>1, <3>2, <3>3
  <2>4. QED
    BY <2>1, <2>2, <2>3
<1>5. CASE ReadNext
  <2>1. UnderWay /\ Call \in Reads
    BY <1>5 DEF ReadNext, ReadOpen, ReadOpenFails, ReadDescriptor, ReadAsserts, ReadCrashes,
       ReadReturns, ReadArray, ReadArrayFails, Reading, At, UnderWay, Call, Reads
  <2>2. Program # "mtx2bsp"
    BY <2>1, Readers
  <2>3. /\ UNCHANGED <<input, file>>
        /\ \/ UNCHANGED <<todo, ended>>
           \/ \E how \in Ends, failed \in BOOLEAN : End(how, failed)
    BY <1>5 DEF ReadNext, ReadOpen, ReadOpenFails, ReadDescriptor, ReadAsserts, ReadCrashes,
       ReadReturns, ReadArray, ReadArrayFails, Go, Return, Dies, Ends, End
  <2>4. QED
    BY <2>1, <2>2, <2>3
<1>6. CASE MmNext
  <2>1. UnderWay /\ Call = "mmread"
    BY <1>6 DEF MmNext, MmHeader, MmHeaderFails, MmOpen, MmOpenFails, MmLines, MmArrayLines,
       MmSort, MmSortFails, MmPermute, MmAllocate, MmAllocateFails, MmCopy, MmCopyFails, Mm, At,
       UnderWay, Call
  <2>2. \/ \E s : Go(s)
        \/ \E m : Returned(m)
        \/ Ended
    BY <1>6 DEF MmNext, MmHeader, MmHeaderFails, MmOpen, MmOpenFails, MmLines, MmArrayLines,
       MmSort, MmSortFails, MmPermute, MmAllocate, MmAllocateFails, MmCopy, MmCopyFails, Ends
  <2>3. CASE \E s : Go(s)
    <3>1. UNCHANGED <<input, file, todo, calls, ended>>
      BY <2>3 DEF Go
    <3>2. Call' = "mmread"
      BY <2>1, <3>1 DEF Call
    <3>3. QED
      BY <2>1, <3>1, <3>2 DEF MadeCalls
  <2>4. CASE \E m : Returned(m)
    <3>1. calls' = Tail(calls) /\ UNCHANGED <<input, file, todo, ended>>
      BY <2>4 DEF Returned, Return
    <3>2. <<Program, "mmread", Call'>> \in Succession
      BY <2>1, <3>1, NextCall DEF IInv
    <3>3. Call' \in {"declamp", "keep"}
      BY <3>2 DEF Succession
    <3>4. QED
      BY <2>1, <3>1, <3>3 DEF MadeCalls
  <2>5. QED
    BY <1>1, <2>1, <2>2, <2>3, <2>4
<1>7. QED
  BY <1>2, <1>3, <1>4, <1>5, <1>6 DEF MatrixNext

LEMMA NextContent ==
    ASSUME IInv, IInv', ResultInv, ContentInv, MadeInv, [Next]_vars
    PROVE  ContentInv' /\ MadeInv'
<1>1. CASE UNCHANGED programVars
  <2>1. UNCHANGED <<input, file, todo, calls, step, matrix, faulted, ended>>
    BY <1>1 DEF programVars
  <2>2. UNCHANGED <<UnderWay, Program, Call>>
    BY <2>1 DEF UnderWay, Program, Call
  <2>3. QED
    BY <2>1, <2>2 DEF ContentInv, MadeInv, Made
<1>2. CASE DeclampValues \/ Convert \/ WriteFile \/ (MinimizeValues /\ ~Dies("crash", FALSE))
  BY <1>2, DeclampContent, ConvertContent, WriteContent, MinimizeContent
<1>3. CASE Finish
  <2>1. \E how \in {"exit 0", "undefined"} : Dies(how, FALSE)
    BY <1>3 DEF Finish
  <2>2. UnderWay /\ Call = "finish"
    BY <1>3 DEF Finish, Calls, At, UnderWay, Call
  <2>3. QED
    BY <2>1, <2>2, EndContent DEF Dies, Ends
<1>4. CASE WriteFileFails /\ ~Dies("undefined", FALSE)
  <2>1. Calls("write") /\ "write" \in MakeCalls /\ Return("IO") /\ faulted' = TRUE
    BY <1>4 DEF WriteFileFails, MakeCalls
  <2>2. ended' = <<>>
    BY <2>1, Making DEF Return
  <2>3. ContentInv'
    BY <2>1 DEF ContentInv
  <2>4. MadeInv'
    <3>1. (ended = <<>>)'
      BY <2>2
    <3>2. QED
      BY <3>1, NoneMade, PTL
  <2>5. QED
    BY <2>3, <2>4
<1>5. CASE /\ MatrixNext
           /\ ~(Over \/ DeclampValues \/ Convert \/ WriteFile \/ Finish)
           /\ MinimizeValues => Dies("crash", FALSE)
           /\ WriteFileFails => Dies("undefined", FALSE)
  <2>1. CASE UNCHANGED <<todo, ended>> /\ (Program = "mtx2bsp" => Call' \notin MadeCalls)
    <3>1. Program' = Program
      BY <2>1 DEF Program
    <3>2. QED
      BY <1>5, <2>1, <3>1, StepsApart, ContentApart
  <2>2. ASSUME NEW how \in Ends, NEW failed \in BOOLEAN, End(how, failed),
               how = "exit 0" => Program # "mtx2bsp"
        PROVE  ContentInv' /\ MadeInv'
    BY <1>5, <2>2, StepsApart, EndContent
  <2>3. QED
    BY <1>5, <2>1, <2>2, StepsApart
<1>6. CASE TensorNext
  <2>1. UnderWay /\ Call \in TensorCalls /\ UNCHANGED <<input, file, copy>>
    BY <1>6, TensorSteps
  <2>2. Program # "mtx2bsp"
    BY <2>1, CallUnderWay DEF IInv, Succession, Final, TensorCalls
  <2>3. CASE UNCHANGED <<todo, ended>>
    <3>1. Program' = Program
      BY <2>3 DEF Program
    <3>2. QED
      BY <2>1, <2>2, <2>3, <3>1, ContentApart
  <2>4. CASE \E how \in Ends : End(how, FALSE)
    BY <2>1, <2>2, <2>4, EndContent
  <2>5. QED
    BY <1>6, <2>3, <2>4, TensorSteps DEF Return
<1>7. CASE UNCHANGED vars
  BY <1>1, <1>7 DEF vars
<1>8. QED
  BY <1>1, <1>2, <1>3, <1>4, <1>5, <1>6, <1>7 DEF Next, Over

LEMMA InitContent == Init => ContentInv /\ MadeInv
<1> SUFFICES ASSUME Init PROVE ContentInv /\ MadeInv
  OBVIOUS
<1>1. IInv /\ ended = <<>>
  BY InitIInv DEF Init
<1>2. ASSUME UnderWay PROVE Call \in FirstCalls
  <2>1. Program \in DOMAIN Script /\ calls = Script[Program]
    BY <1>1, <1>2, CallUnderWay DEF Init, Program, IInv
  <2>2. Call = Script[Program][1]
    BY <2>1, Scripts DEF Call
  <2>3. QED
    BY <2>1, <2>2, Scripts
<1>3. ContentInv
  BY <1>2 DEF ContentInv, FirstCalls
<1>4. QED
  BY <1>1, <1>3, NoneMade

\* The file that mtx2bsp makes without a failure is of the declamped text, in the narrowest
\* type; the one exception is a pattern whose pointers overflow, and there it is not.
THEOREM FilesFaithful == Spec => []FileFaithful
<1> DEFINE I == IInv /\ MmreadInv /\ ResultInv /\ ContentInv /\ MadeInv
<1>1. Init => I
  BY InitIInv, InitReads, InitContent
<1>2. I /\ [Next]_vars => I'
  <2> SUFFICES ASSUME I, [Next]_vars PROVE I'
    OBVIOUS
  <2>1. IInv'
    BY NextIInv
  <2>2. (MmreadInv /\ ResultInv)'
    BY <2>1, NextReads
  <2>3. QED
    BY <2>1, <2>2, NextContent
<1>3. I => FileFaithful
  <2> SUFFICES ASSUME I, Complete(input.text), \E k \in DOMAIN ended : Made(k)
               PROVE  LET t == DeclampedText(input.text)
                          m == file.m
                      IN  /\ IF PointersFit(t, m.format) THEN ReadAs(m, t)
                                                         ELSE Entries(m) # TextEntries(t)
                          /\ m.format = "COO" => InOrder(m)
                          /\ Narrowest(m.values)
    BY DEF FileFaithful
  <2>1. IsText(input.text)
    BY InputsAssumption DEF IInv, SessionInv, IsSession
  <2>2. Right(file.m, input.text)
    BY <2>1, OriginIsRight DEF MadeInv
  <2>3. PointersFit(DeclampedText(input.text), file.m.format)
           <=> PointersFit(input.text, file.m.format)
    BY <2>1, DeclampedTextFacts DEF PointersFit
  <2>4. QED
    BY <2>2, <2>3 DEF Right
<1>4. QED
  BY <1>1, <1>2, <1>3, PTL DEF Spec

--------------------------------------------------------------------------------
(* The matrices that Binsparse files hold. *)

\* A matrix that a file may hold: the arrays of its format, with as many elements as it
\* announces, and indices that are not changed by being stored again.
ValueCount(m) == IF m.is_iso THEN 1 ELSE m.nnz
Formed(m) ==
    /\ m.format \in {"COO", "CSR", "DMATR"}
    /\ m.is_iso \in BOOLEAN
    /\ {m.nrows, m.ncols, m.nnz} \subseteq 0 .. Cap("wide")
    /\ m.values.type \in ValueTypes
    /\ DOMAIN m.values.data = 0 .. ValueCount(m) - 1
    /\ \A f \in Fields : m[f].type = "invalid" => m[f] = Absent
    /\ m.format # "DMATR" =>
          /\ DOMAIN m.indices_1.data = 0 .. m.nnz - 1
          /\ \A k \in 0 .. m.nnz - 1 : Kept(m, m.indices_1.data[k])
    /\ m.format = "COO" =>
          /\ DOMAIN m.indices_0.data = 0 .. m.nnz - 1
          /\ \A k \in 0 .. m.nnz - 1 : Kept(m, m.indices_0.data[k])

\* The same matrix, but for the format.
Same(m, n) == \A x \in Keys \ {"format"} : m[x] = n[x]

LEMMA FormedNumbers ==
    ASSUME NEW m, Formed(m)
    PROVE  /\ m.nrows \in Nat /\ m.ncols \in Nat /\ m.nnz \in Nat
           /\ m.nrows <= Cap("wide") /\ m.ncols <= Cap("wide")
  BY WideCap DEF Formed

LEMMA StoredIsFormed ==
    ASSUME NEW m, IsStored(m) PROVE Formed(m)
<1>1. /\ m.format \in {"COO", "CSR", "DMATR"}
      /\ m.is_iso \in BOOLEAN
      /\ {m.nrows, m.ncols, m.nnz} \subseteq 0 .. Cap("wide")
      /\ m.values.type \in ValueTypes
  BY DEF IsStored
<1>8. DOMAIN m.values.data = 0 .. ValueCount(m) - 1
  <2>1. 0 .. 0 = {0} /\ 1 - 1 = 0
    OBVIOUS
  <2>2. QED
    BY <2>1 DEF IsStored, ValueCount
<1>2. /\ m.nrows \in Nat /\ m.ncols \in Nat /\ m.nnz \in Nat
      /\ m.nrows <= Cap("wide") /\ m.ncols <= Cap("wide")
  BY <1>1, WideCap
<1>3. \A f \in Fields : m[f].type = "invalid" => m[f] = Absent
  BY DEF IsStored, Fields, ValueTypes, FloatTypes
<1>4. /\ \A x \in 0 .. m.nrows - 1 : Kept(m, x)
      /\ \A x \in 0 .. m.ncols - 1 : Kept(m, x)
  <2>1. /\ \A x \in 0 .. m.nrows - 1 : x \in Nat /\ x <= Larger(m.nrows, m.ncols)
        /\ \A x \in 0 .. m.ncols - 1 : x \in Nat /\ x <= Larger(m.nrows, m.ncols)
    BY <1>2 DEF Larger
  <2>2. QED
    BY <1>2, <2>1, IndexHeld DEF Kept, IndexType
<1>5. m.format # "DMATR" => m.indices_1.data \in [0 .. m.nnz - 1 -> 0 .. m.ncols - 1]
  BY DEF IsStored
<1>6. m.format = "COO" => m.indices_0.data \in [0 .. m.nnz - 1 -> 0 .. m.nrows - 1]
  BY DEF IsStored
<1>7. QED
  BY <1>1, <1>3, <1>4, <1>5, <1>6, <1>8 DEF Formed

\* The row of an entry, if it has one, is one of the matrix.
LEMMA RowExists ==
    ASSUME NEW m, m.nrows \in Nat, NEW k, RowOf(m, k) # Junk
    PROVE  RowOf(m, k) \in 0 .. m.nrows - 1
<1> DEFINE p == m.pointers_to_1.data
           rows == {r \in 0 .. m.nrows - 1 : p[r] <= k /\ k < p[r + 1]}
           n == m.nrows
           f == [r \in 0 .. n - 1 |-> IF r \in rows THEN r ELSE -1]
<1>1. RowOf(m, k) = IF rows = {} THEN Junk ELSE CHOOSE r \in rows : \A q \in rows : q <= r
  BY DEF RowOf
<1>2. rows # {} /\ rows \subseteq 0 .. n - 1
  BY <1>1
<1> HIDE DEF rows, n
<1>3. n \in Nat /\ n > 0
  <2>1. n \in Nat
    BY DEF n
  <2>2. PICK r \in rows : TRUE
    BY <1>2
  <2>3. r \in 0 .. n - 1
    BY <1>2, <2>2
  <2>4. QED
    BY <2>1, <2>3
<1>4. f \in [0 .. n - 1 -> Int] /\ \A r \in 0 .. n - 1 : f[r] = IF r \in rows THEN r ELSE -1
  OBVIOUS
<1> HIDE DEF f
<1>5. PICK l \in 0 .. n - 1 : \A r \in 0 .. n - 1 : f[r] <= f[l]
  BY <1>3, <1>4, LargestPlace
<1>6. l \in rows /\ \A q \in rows : q <= l
  <2>1. PICK r \in rows : TRUE
    BY <1>2
  <2>2. r \in 0 .. n - 1 /\ f[r] = r /\ f[r] <= f[l]
    BY <1>2, <1>4, <1>5, <2>1
  <2>3. l \in rows
    BY <1>4, <1>5, <2>2
  <2>4. ASSUME NEW q \in rows PROVE q <= l
    <3>1. q \in 0 .. n - 1 /\ f[q] = q /\ f[l] = l /\ f[q] <= f[l]
      BY <1>2, <1>4, <1>5, <2>3
    <3>2. QED
      BY <3>1
  <2>5. QED
    BY <2>3, <2>4
<1>7. (CHOOSE r \in rows : \A q \in rows : q <= r) \in rows
  BY <1>6
<1>8. QED
  BY <1>1, <1>2, <1>7 DEF n

\* A CSR matrix whose rows are all there denotes the same as its conversion.
LEMMA CooFacts ==
    ASSUME NEW m, HasKeys(m), Formed(m), m.format = "CSR", ~RowsMissing(m)
    PROVE  LET c == CooOf(m)
           IN  /\ HasKeys(c) /\ c.format = "COO"
               /\ c.nrows = m.nrows /\ c.ncols = m.ncols /\ c.nnz = m.nnz
               /\ c.is_iso = m.is_iso /\ c.structure = m.structure /\ c.values = m.values
               /\ c.pointers_to_1 = Absent
               /\ DOMAIN c.indices_0.data = 0 .. m.nnz - 1
               /\ DOMAIN c.indices_1.data = 0 .. m.nnz - 1
               /\ \A k \in 0 .. m.nnz - 1 :
                     /\ c.indices_0.data[k] \in Int /\ c.indices_0.data[k] = RowOf(m, k)
                     /\ c.indices_1.data[k] \in Int /\ c.indices_1.data[k] = m.indices_1.data[k]
               /\ Entries(c) = Entries(m)
<1> DEFINE T == Pick(MaxDim(m))
           D == 0 .. m.nnz - 1
           f == [k \in D |-> Stored(T, RowOf(m, k))]
           c == CooOf(m)
<1>1. /\ m.nrows \in Nat /\ m.ncols \in Nat
      /\ m.nrows <= Cap("wide") /\ m.ncols <= Cap("wide")
  BY FormedNumbers
<1>2. T = IndexType(m)
  BY DEF MaxDim, IndexType
<1>3. DOMAIN m.indices_1.data = D /\ \A k \in D : Kept(m, m.indices_1.data[k])
  BY DEF Formed
<1>4. c = [m EXCEPT !.format = "COO", !.indices_0 = Indexes(T, f),
                    !.indices_1 = Converted(@, T), !.pointers_to_1 = Absent]
  BY DEF CooOf
<1>5. \A k \in D : RowOf(m, k) \in 0 .. m.nrows - 1
  BY <1>1, <1>3, RowExists DEF RowsMissing
<1>6. \A k \in D : Stored(T, RowOf(m, k)) = RowOf(m, k)
  <2> TAKE k \in D
  <2>1. RowOf(m, k) \in Nat /\ RowOf(m, k) <= Larger(m.nrows, m.ncols)
    BY <1>1, <1>5 DEF Larger
  <2>2. QED
    BY <1>1, <2>1, IndexHeld DEF MaxDim
<1>7. \A k \in D : f[k] = RowOf(m, k) /\ RowOf(m, k) \in Int
  BY <1>1, <1>5, <1>6
<1>8. DOMAIN f = D
  OBVIOUS
<1> HIDE DEF f, c
<1>9. /\ HasKeys(c) /\ c.format = "COO"
      /\ c.nrows = m.nrows /\ c.ncols = m.ncols /\ c.nnz = m.nnz
      /\ c.is_iso = m.is_iso /\ c.structure = m.structure /\ c.values = m.values
      /\ c.pointers_to_1 = Absent
      /\ c.indices_0 = Indexes(T, f) /\ c.indices_1 = Converted(m.indices_1, T)
  BY <1>4 DEF HasKeys, Keys
<1>10. c.indices_0.data = f /\ c.indices_1.data = [k \in D |-> Stored(T, m.indices_1.data[k])]
  BY <1>3, <1>9 DEF Indexes, Converted
<1>11. \A k \in D : /\ c.indices_0.data[k] \in Int /\ c.indices_0.data[k] = RowOf(m, k)
                    /\ c.indices_1.data[k] \in Int /\ c.indices_1.data[k] = m.indices_1.data[k]
  BY <1>2, <1>3, <1>7, <1>10 DEF Kept
<1>12. \A k \in D : ValueOf(c, k) = ValueOf(m, k)
  BY <1>9 DEF ValueOf
<1>13. Entries(c) = Entries(m)
  <2>1. Entries(c) = {<<c.indices_0.data[k], c.indices_1.data[k], ValueOf(c, k)>> : k \in D}
    BY <1>8, <1>9, <1>10 DEF Entries
  <2>2. Entries(m) = {<<RowOf(m, k), m.indices_1.data[k], ValueOf(m, k)>> : k \in D}
    BY <1>3 DEF Entries
  <2>3. QED
    BY <1>11, <1>12, <2>1, <2>2
<1>14. QED
  BY <1>8, <1>9, <1>10, <1>11, <1>13 DEF c

\* Two matrices with the same fields in the same format denote the same.
LEMMA SameMatrix ==
    ASSUME NEW m, NEW n, Same(m, n), m.format = n.format, Formed(n)
    PROVE  /\ Formed(m) /\ Entries(m) = Entries(n) /\ (BadRows(m) <=> BadRows(n))
           /\ \A k : RowOf(m, k) = RowOf(n, k)
<1>1. /\ m.nrows = n.nrows /\ m.ncols = n.ncols /\ m.nnz = n.nnz /\ m.is_iso = n.is_iso
      /\ m.values = n.values /\ m.indices_0 = n.indices_0 /\ m.indices_1 = n.indices_1
      /\ m.pointers_to_1 = n.pointers_to_1
      /\ \A f \in Fields : m[f] = n[f]
  BY DEF Same, Keys, Fields
<1>2. Formed(m)
  BY <1>1 DEF Formed, Kept, IndexType, ValueCount
<1>3. \A k : ValueOf(m, k) = ValueOf(n, k) /\ RowOf(m, k) = RowOf(n, k)
  BY <1>1 DEF ValueOf, RowOf
<1>4. BadRows(m) <=> BadRows(n)
  BY <1>1, <1>3 DEF BadRows, RowsMissing, RowsBeyond
<1>5. Entries(m) = Entries(n)
  <2>1. n.format \in {"COO", "CSR", "DMATR"} /\ m.format = n.format
    BY DEF Formed
  <2>2. CASE n.format = "COO"
    BY <1>1, <1>3, <2>1, <2>2 DEF Entries
  <2>3. CASE n.format = "CSR"
    BY <1>1, <1>3, <2>1, <2>3 DEF Entries
  <2>4. CASE n.format = "DMATR"
    BY <1>1, <1>3, <2>1, <2>4 DEF Entries
  <2>5. QED
    BY <2>1, <2>2, <2>3, <2>4
<1>6. QED
  BY <1>2, <1>3, <1>4, <1>5

--------------------------------------------------------------------------------
(* The order of entries with different positions. *)

\* Two ascending sequences of the same positions are equal.
Ascends(n, i, j) ==
    \A k, l \in 0 .. n - 1 : k < l => i[k] < i[l] \/ (i[k] = i[l] /\ j[k] < j[l])
Positions(n, i, j) == {<<i[k], j[k]>> : k \in 0 .. n - 1}
ArePositions(n, i, j) == \A k \in 0 .. n - 1 : i[k] \in Int /\ j[k] \in Int

\* If they differ first at place k, the second has that position later.
LEMMA LaterPosition ==
    ASSUME NEW n \in Nat, NEW i, NEW j, NEW p, NEW q,
           ArePositions(n, i, j), ArePositions(n, p, q), Ascends(n, i, j), Ascends(n, p, q),
           Positions(n, i, j) \subseteq Positions(n, p, q),
           NEW k \in 0 .. n - 1, i[k] # p[k] \/ j[k] # q[k],
           \A l \in 0 .. k - 1 : i[l] = p[l] /\ j[l] = q[l]
    PROVE  p[k] < i[k] \/ (p[k] = i[k] /\ q[k] < j[k])
<1>1. PICK l \in 0 .. n - 1 : i[k] = p[l] /\ j[k] = q[l]
  <2>1. <<i[k], j[k]>> \in Positions(n, i, j)
    BY DEF Positions
  <2>2. <<i[k], j[k]>> \in Positions(n, p, q)
    BY <2>1
  <2>3. \E l \in 0 .. n - 1 : <<i[k], j[k]>> = <<p[l], q[l]>>
    BY <2>2 DEF Positions
  <2>4. QED
    BY <2>3
<1>2. l # k
  BY <1>1
<1>3. ~(l < k)
  <2>1. ASSUME l < k PROVE FALSE
    <3>1. l \in 0 .. k - 1
      BY <2>1
    <3>2. i[l] = i[k] /\ j[l] = j[k]
      BY <1>1, <3>1
    <3>3. i[l] < i[k] \/ (i[l] = i[k] /\ j[l] < j[k])
      BY <2>1 DEF Ascends
    <3>4. i[k] \in Int /\ j[k] \in Int
      BY DEF ArePositions
    <3>5. QED
      BY <3>2, <3>3, <3>4
  <2>2. QED
    BY <2>1
<1>4. k < l
  BY <1>2, <1>3
<1>5. QED
  BY <1>1, <1>4 DEF Ascends

LEMMA OneOrder ==
    ASSUME NEW n \in Nat, NEW i, NEW j, NEW p, NEW q,
           ArePositions(n, i, j), ArePositions(n, p, q), Ascends(n, i, j), Ascends(n, p, q),
           Positions(n, i, j) = Positions(n, p, q)
    PROVE  \A k \in 0 .. n - 1 : i[k] = p[k] /\ j[k] = q[k]
<1> DEFINE S == {k \in 0 .. n - 1 : ~(i[k] = p[k] /\ j[k] = q[k])}
<1> SUFFICES ASSUME S # {} PROVE FALSE
  OBVIOUS
<1>1. S \in SUBSET (0 .. n - 1)
  OBVIOUS
<1>2. PICK k \in S : \A l \in 0 .. k - 1 : l \notin S
  <2> HIDE DEF S
  <2>1. QED
    BY <1>1, FirstPlace
<1>3. k \in 0 .. n - 1 /\ (i[k] # p[k] \/ j[k] # q[k])
  OBVIOUS
<1>4. \A l \in 0 .. k - 1 : i[l] = p[l] /\ j[l] = q[l]
  <2> TAKE l \in 0 .. k - 1
  <2>1. l \in 0 .. n - 1 /\ l \notin S
    BY <1>2, <1>3
  <2>2. QED
    BY <2>1
<1> HIDE DEF S
<1>5. p[k] < i[k] \/ (p[k] = i[k] /\ q[k] < j[k])
  BY <1>3, <1>4, LaterPosition
<1>6. i[k] < p[k] \/ (i[k] = p[k] /\ j[k] < q[k])
  <2>1. \A l \in 0 .. k - 1 : p[l] = i[l] /\ q[l] = j[l]
    BY <1>4
  <2>2. p[k] # i[k] \/ q[k] # j[k]
    BY <1>3
  <2>3. QED
    BY <1>3, <2>1, <2>2, LaterPosition
<1>7. i[k] \in Int /\ j[k] \in Int /\ p[k] \in Int /\ q[k] \in Int
  BY <1>3 DEF ArePositions
<1>8. QED
  BY <1>5, <1>6, <1>7

--------------------------------------------------------------------------------
(* What the programs have made of their matrices and files. *)

Checks == {"check", "check_parallel", "check_copy"}

Reader(program) ==
    IF program \in {"check_parallel", "benchmark_read_parallel"} THEN "read_parallel" ELSE "read"

FileFormed == file.exists => Formed(file.m)

\* A whole file of this version.
Sealed == Opens /\ file.flaw = "none" /\ file.version = Supported /\ Names \subseteq file.datasets

\* While nothing has failed, the matrix points to memory of its own.
PointInv ==
    /\ UnderWay
    /\ ~faulted
    /\ \/ Call = "mmread" /\ step # "start"
       \/ Call = "keep"
       \/ Program = "mtx2bsp" /\ Call \notin {"metadata", "mmread"}
    => Pointed(matrix) \subseteq live

\* The matrix of mtx2bsp is none, or one that a file may hold.
ShapeInv ==
    UnderWay /\ Program = "mtx2bsp" =>
       LET t == input.text
       IN  /\ Call # "metadata" => t.valid /\ input.format # "invalid"
           /\ Call \in {"minimize", "convert", "write"} =>
                 \/ HasKeys(matrix) /\ matrix.format = "junk" /\ faulted
                 \/ IsMatrix(matrix) /\ Formed(matrix)
           /\ Call \in {"minimize", "convert"} /\ ~faulted =>
                 /\ Readable(t) /\ (matrix.format = "COO" <=> t.format = "coordinate")
                 /\ t.format = "coordinate" => RowsOfLines(matrix, t)
           /\ Call = "minimize" /\ ~faulted =>
                 /\ matrix.values.type = TypeOf[t.type]
                 /\ DOMAIN matrix.values.data = 0 .. Count(t, "values") - 1
           /\ Call = "finish" /\ ~faulted => Sealed

\* What has been read is the file's, but for arrays that data_types does not name and a
\* number of entries that is none.
NamesNone == file.flaw = "data_types_type"
Header0(m) ==
    /\ m.nrows = file.m.nrows /\ m.ncols = file.m.ncols
    /\ m.nnz \in Nat
    /\ file.flaw # "nnz_type" => m.nnz = file.m.nnz
Read0(f) == IF NamesNone THEN Absent ELSE file.m[f]
Iso0 == IF NamesNone THEN FALSE ELSE file.m.is_iso
AsRead(m) ==
    /\ Header0(m)
    /\ \A f \in Fields : m[f] = Read0(f)
    /\ m.is_iso = Iso0 /\ m.structure = file.m.structure
FillInv ==
    /\ UnderWay /\ Call \in Reads /\ step \in Fields \cup {"structure"} =>
          /\ Header0(matrix)
          /\ \A f \in Got(step) : matrix[f] = Read0(f)
          /\ matrix.is_iso = IF step = "values" THEN FALSE ELSE Iso0
    /\ UnderWay /\ Call \in {"to_coo", "compare"} =>
          Accepts(Reader(Program)) /\ matrix.format = FormatRead /\ AsRead(matrix)

\* What is compared with the file is what bsp_mmread has returned, declamped.
FirstInv ==
    UnderWay /\ Program \in Checks /\ Call \in Reads \cup {"compare"} =>
       \/ first = DefaultMatrix /\ (faulted \/ ~Text.valid)
       \/ \E m : first = Declamped(m) /\ MmreadResult(m, Text)

\* A coordinate matrix with the entries of m.
IsCooOf(c, m) ==
    /\ c.format = "COO"
    /\ c.nnz = m.nnz /\ c.nnz \in Nat /\ c.is_iso = m.is_iso /\ c.is_iso \in BOOLEAN
    /\ c.structure = m.structure /\ c.values = m.values
    /\ DOMAIN c.indices_0.data = 0 .. c.nnz - 1
    /\ \A k \in 0 .. c.nnz - 1 : c.indices_0.data[k] \in Int /\ c.indices_1.data[k] \in Int
    /\ Entries(c) = Entries(m)

\* The text denotes the matrix if no single value other than 1 stands for all entries.
IsTextOf(t, m) ==
    TextEntries(t) = Entries(m) <=> (m.is_iso /\ m.nnz > 0 => ValueOf(m, 0) = <<1, 0>>)

WrittenInv ==
    /\ UnderWay /\ Program = "bsp2mtx" =>
          /\ Call = "mmwrite" =>
                /\ Accepts("read")
                /\ (faulted /\ matrix = DefaultMatrix) \/ IsCooOf(matrix, file.m)
          /\ Call = "finish" => IsTextOf(copy, file.m)
    /\ copy.valid =>
          /\ copy.format = "coordinate" /\ Readable(copy)
          /\ copy.nnz \in Nat /\ Len(copy.lines) = copy.nnz

VInv ==
    FileFormed /\ PointInv /\ ShapeInv /\ FillInv /\ FirstInv /\ WrittenInv

--------------------------------------------------------------------------------
(* The end of a program. *)

LEMMA NextBegins ==
    ASSUME IInv', UnderWay, NEW how, NEW failed, End(how, failed)
    PROVE  UnderWay' => Program' \in DOMAIN Script /\ Call' = Script[Program'][1]
<1>1. todo' = Tail(todo) /\ calls' = IF Len(todo) = 1 THEN <<>> ELSE Script[todo[2]]
  BY DEF End
<1> SUFFICES ASSUME UnderWay' PROVE Program' \in DOMAIN Script /\ Call' = Script[Program'][1]
  OBVIOUS
<1>2. Program' \in DOMAIN Script /\ calls' # <<>> /\ Call' = calls'[1]
  <2>1. (SessionInv /\ CallsInv /\ UnderWay)'
    BY DEF IInv
  <2>2. (Program \in DOMAIN Script /\ calls # <<>> /\ Call = calls[1])'
    BY <2>1, CallUnderWay, PTL
  <2>3. QED
    BY <2>2
<1>3. calls' = Script[todo[2]]
  BY <1>1, <1>2
<1>4. Program' = todo[2]
  BY <1>1, HeadTailProperties DEF UnderWay, Program
<1>5. QED
  BY <1>2, <1>3, <1>4

LEMMA EndValues ==
    ASSUME IInv, IInv', VInv, UnderWay, NEW how \in Ends, NEW failed \in BOOLEAN,
           End(how, failed), UNCHANGED file, UNCHANGED copy \/ ~copy'.valid
    PROVE  VInv'
<1>1. /\ UNCHANGED input /\ step' = "start"
      /\ UnderWay' => Call' \in FirstCalls
  BY AfterEnd
<1>2. UnderWay' => Program' \in DOMAIN Script /\ Call' = Script[Program'][1]
  BY NextBegins
<1>3. UnderWay' /\ Program' \in Checks => Call' = "mmread"
  BY <1>2 DEF Checks, Script
<1>4. UnderWay' /\ Program' = "mtx2bsp" => Call' = "metadata"
  BY <1>2 DEF Script
<1>5. FileFormed' /\ PointInv' /\ ShapeInv'
  BY <1>1, <1>4 DEF VInv, FileFormed, PointInv, ShapeInv, FirstCalls
<1>6. FillInv'
  BY <1>1 DEF FillInv, FirstCalls, Fields
<1>7. FirstInv'
  BY <1>3 DEF FirstInv, Reads
<1>8. WrittenInv'
  BY <1>1 DEF VInv, WrittenInv, FirstCalls, Readable
<1>9. QED
  BY <1>5, <1>6, <1>7, <1>8 DEF VInv

LEMMA DeathValues ==
    ASSUME IInv, IInv', VInv, UnderWay, NEW how \in Ends, NEW failed \in BOOLEAN,
           Dies(how, failed)
    PROVE  VInv'
  BY EndValues DEF Dies

--------------------------------------------------------------------------------
(* bsp_mmread and the memory it allocates. *)

MmArrays == {"indices_0", "indices_1", "values"}

\* Steps of bsp_mmread that go on or return keep what other calls have done.
LEMMA MmValues ==
    ASSUME IInv, IInv', VInv, NEW s, Mm(s), (\E r : Go(r)) \/ (\E m : Returned(m)),
           ~faulted' => Pointed(matrix') \subseteq live'
    PROVE  VInv'
<1>1. UnderWay /\ Call = "mmread" /\ UNCHANGED <<input, file, copy, todo>>
  BY MmUnderWay DEF Go, Returned, Return
<1>2. UnderWay' /\ Program' = Program /\ Call' \in {"mmread", "declamp", "keep"}
  <2>1. CASE \E r : Go(r)
    BY <1>1, <2>1 DEF Go, UnderWay, Program, Call
  <2>2. CASE \E m : Returned(m)
    <3>1. calls' = Tail(calls) /\ UNCHANGED todo
      BY <2>2 DEF Returned, Return
    <3>2. UnderWay' /\ Program' = Program /\ <<Program, Call, Call'>> \in Succession
      BY <1>1, <3>1, NextCall DEF IInv
    <3>3. QED
      BY <1>1, <3>2 DEF Succession
  <2>3. QED
    BY <2>1, <2>2
<1>3. FileFormed' /\ PointInv' /\ ShapeInv'
  BY <1>1, <1>2 DEF VInv, FileFormed, PointInv, ShapeInv
<1>4. FillInv' /\ FirstInv'
  BY <1>2 DEF FillInv, FirstInv, Reads
<1>5. WrittenInv'
  BY <1>1, <1>2 DEF VInv, WrittenInv, Readable
<1>6. QED
  BY <1>3, <1>4, <1>5 DEF VInv

LEMMA AbsentIsEmpty == Size(Absent.data) = 0
  BY FS_EmptySet DEF Size, Absent, Indexes

\* Before an array is allocated, its pointer is NULL.
LEMMA AllocatePoints ==
    ASSUME NEW m, NEW t, NEW f \in MmArrays, NEW n \in Nat, HasKeys(m), NEW a,
           DOMAIN a.data = 0 .. n - 1
    PROVE  Pointed([m EXCEPT ![f] = a]) \subseteq Pointed(m) \cup (IF n = 0 THEN {} ELSE {f})
<1> DEFINE p == [m EXCEPT ![f] = a]
<1>1. p[f] = a /\ \A g \in Fields \ {f} : p[g] = m[g]
  BY DEF HasKeys, Keys, Fields, MmArrays
<1> HIDE DEF p
<1>2. Size(p[f].data) = n
  BY <1>1, FS_Interval DEF Size
<1>3. QED
  BY <1>1, <1>2 DEF Pointed, p

LEMMA MmTextNumbers ==
    ASSUME IInv, VInv, Text.valid PROVE Text.nnz \in Nat
<1>1. CASE Text = input.text
  BY <1>1, TextNumbers, InputsAssumption DEF IInv, SessionInv, IsSession
<1>2. CASE Text = copy
  BY <1>2 DEF VInv, WrittenInv
<1>3. QED
  BY <1>1, <1>2 DEF Text

\* Every step of bsp_mmread that does not end the program.
LEMMA MmAllocateValues ==
    ASSUME IInv, IInv', MmreadInv, VInv, NEW f \in MmArrays, MmAllocate(f) \/ MmAllocateFails(f)
    PROVE  VInv'
<1>1. Mm(f) /\ f # "start" /\ f \in {"indices_0", "indices_1", "values"}
  BY DEF MmAllocate, MmAllocateFails, MmArrays
<1>2. UnderWay /\ Call = "mmread" /\ step = f
  BY <1>1, MmUnderWay
<1>3. Text.valid /\ Prepared(matrix, Text, f)
  BY <1>1, <1>2 DEF MmreadInv
<1>4. CASE MmAllocate(f)
  <2>1. /\ matrix' = [matrix EXCEPT ![f] = Fresh(Text, f)] /\ Go(After(f)) /\ UNCHANGED faulted
        /\ live' = live \cup (IF Count(Text, f) = 0 THEN {} ELSE {f})
    BY <1>4 DEF MmAllocate
  <2>2. Count(Text, f) \in Nat /\ DOMAIN Fresh(Text, f).data = 0 .. Count(Text, f) - 1
    <3>1. Text.nnz \in Nat
      BY <1>3, MmTextNumbers
    <3>2. CASE f = "values"
      BY <3>1, <3>2 DEF Count, Fresh
    <3>3. CASE f # "values"
      BY <3>1, <3>3 DEF Count, Fresh, Uninitialised, Indexes
    <3>4. QED
      BY <3>2, <3>3
  <2>3. Pointed(matrix') \subseteq Pointed(matrix) \cup (IF Count(Text, f) = 0 THEN {} ELSE {f})
    BY <1>3, <2>1, <2>2, AllocatePoints DEF Prepared
  <2>4. ~faulted' => Pointed(matrix') \subseteq live'
    BY <1>1, <1>2, <2>1, <2>3 DEF VInv, PointInv
  <2>5. QED
    BY <1>1, <2>1, <2>4, MmValues
<1>5. CASE MmAllocateFails(f)
  BY <1>1, <1>5, MmValues DEF MmAllocateFails
<1>6. QED
  BY <1>4, <1>5

LEMMA MmHeaderValues ==
    ASSUME IInv, IInv', VInv, MmHeader \/ MmHeaderFails PROVE VInv'
<1>1. Mm("start") /\ UnderWay
  BY MmUnderWay DEF MmHeader, MmHeaderFails
<1>2. CASE MmHeader /\ Text.valid
  <2>1. matrix' = Header(Text) /\ \E s : Go(s)
    BY <1>2 DEF MmHeader, Header
  <2>2. \A f \in Fields : matrix'[f] = Absent
    <3> DEFINE h == Header(Text)
    <3>1. /\ h.values = Absent /\ h.indices_0 = Absent /\ h.indices_1 = Absent
          /\ h.pointers_to_1 = Absent
      BY DEF Header, DefaultMatrix
    <3> HIDE DEF h
    <3>2. QED
      BY <2>1, <3>1 DEF Fields, h
  <2>3. Pointed(matrix') = {}
    BY <2>2, AbsentIsEmpty DEF Pointed
  <2>4. QED
    BY <1>1, <2>1, <2>3, MmValues
<1>3. CASE (MmHeader /\ ~Text.valid) \/ Returned(DefaultMatrix)
  <2>1. Returned(DefaultMatrix)
    BY <1>3 DEF MmHeader
  <2>2. Pointed(matrix') = {}
    BY <2>1, DefaultMatrixFacts DEF Returned
  <2>3. QED
    BY <1>1, <2>1, <2>2, MmValues
<1>4. CASE Dies("abort", FALSE) \/ Dies("abort", TRUE)
  BY <1>1, <1>4, DeathValues DEF Ends
<1>5. QED
  BY <1>2, <1>3, <1>4 DEF MmHeaderFails

LEMMA MmOpenValues ==
    ASSUME IInv, IInv', MmreadInv, VInv, MmOpen \/ MmOpenFails PROVE VInv'
<1>1. Mm("open") /\ UnderWay /\ Call = "mmread" /\ step = "open"
  BY MmUnderWay DEF MmOpen, MmOpenFails
<1>2. CASE MmOpenFails
  BY <1>1, <1>2, DeathValues DEF MmOpenFails, Ends
<1>3. CASE MmOpen
  <2>1. HasKeys(matrix)
    BY <1>1 DEF MmreadInv, Prepared
  <2>2. \A f \in Fields : matrix'[f] = matrix[f]
    BY <1>3, <2>1 DEF MmOpen, HasKeys, Keys, Fields
  <2>3. Pointed(matrix') = Pointed(matrix)
    BY <2>2 DEF Pointed
  <2>4. live \subseteq live' /\ Go("lines") /\ UNCHANGED faulted
    BY <1>3 DEF MmOpen
  <2>5. ~faulted' => Pointed(matrix') \subseteq live'
    BY <1>1, <2>3, <2>4 DEF VInv, PointInv
  <2>6. QED
    BY <1>1, <2>4, <2>5, MmValues
<1>4. QED
  BY <1>2, <1>3

LEMMA MmLinesValues ==
    ASSUME IInv, IInv', MmreadInv, VInv, MmLines \/ MmArrayLines PROVE VInv'
<1>1. Mm("lines") /\ UnderWay /\ Call = "mmread" /\ step = "lines"
  BY MmUnderWay DEF MmLines, MmArrayLines
<1>2. CASE Dies("undefined", FALSE) \/ Dies("crash", FALSE)
  BY <1>1, <1>2, DeathValues DEF Ends
<1>3. Prepared(matrix, Text, "lines")
  BY <1>1 DEF MmreadInv
<1>4. /\ IsMatrix(matrix)
      /\ matrix.values = Fresh(Text, "values")
      /\ Text.format # "array" => /\ matrix.indices_0 = Uninitialised(IndexType(Text), Text.nnz)
                                  /\ matrix.indices_1 = Uninitialised(IndexType(Text), Text.nnz)
  BY <1>3, PreparedArrays
<1>5. DOMAIN matrix.values.data = 0 .. Count(Text, "values") - 1
  BY <1>4 DEF Fresh
<1>6. CASE MmLines /\ ~Dies("undefined", FALSE)
  <2> DEFINE t == Text
             Of(d) == [k \in 0 .. t.nnz - 1 |->
                          (t.lines[k + 1][d] - 1) % (Cap(matrix.indices_0.type) + 1)]
             v == [k \in 0 .. t.nnz - 1 |-> Element(t, k)]
  <2>1. /\ matrix' = [matrix EXCEPT !.indices_0.data = Of(1), !.indices_1.data = Of(2),
                                    !.values.data = IF t.type = "pattern" THEN @ ELSE v]
        /\ t.format = "coordinate" /\ Go("sort") /\ UNCHANGED <<live, faulted>>
    BY <1>6 DEF MmLines
  <2> DEFINE i == Of(1)
             j == Of(2)
             w == IF t.type = "pattern" THEN matrix.values.data ELSE v
  <2>2. DOMAIN i = 0 .. t.nnz - 1 /\ DOMAIN j = 0 .. t.nnz - 1 /\ DOMAIN v = 0 .. t.nnz - 1
    OBVIOUS
  <2>3. matrix' = [matrix EXCEPT !.indices_0.data = i, !.indices_1.data = j, !.values.data = w]
    BY <2>1
  <2> HIDE DEF i, j, v
  <2>4. DOMAIN w = DOMAIN matrix.values.data
    BY <1>5, <2>2 DEF Count
  <2> HIDE DEF w
  <2>5. /\ matrix'.indices_0.data = i /\ matrix'.indices_1.data = j
        /\ matrix'.values.data = w /\ matrix'.pointers_to_1 = matrix.pointers_to_1
    BY <1>4, <2>3 DEF IsMatrix, HasKeys, Keys, Fields
  <2>6. DOMAIN matrix.indices_0.data = DOMAIN i /\ DOMAIN matrix.indices_1.data = DOMAIN j
    BY <1>4, <2>1, <2>2 DEF Uninitialised, Indexes
  <2>7. \A f \in Fields : DOMAIN matrix'[f].data = DOMAIN matrix[f].data
    BY <2>4, <2>5, <2>6 DEF Fields
  <2>8. Pointed(matrix') = Pointed(matrix)
    BY <2>7, PointedSame
  <2>9. ~faulted' => Pointed(matrix') \subseteq live'
    BY <1>1, <2>1, <2>8 DEF VInv, PointInv
  <2>10. QED
    BY <1>1, <2>1, <2>9, MmValues
<1>7. CASE MmArrayLines /\ ~Dies("undefined", FALSE) /\ ~Dies("crash", FALSE)
  <2>1. PICK g : Returned([matrix EXCEPT !.values.data = [k \in 0 .. Text.nnz - 1 |-> g[k]]])
    <3> DEFINE written == 0 .. Len(Text.lines) - 1
               L(k) == CHOOSE c \in written :
                          /\ Place(Text, c) = k
                          /\ \A d \in written : Place(Text, d) = k => d <= c
               g == [k \in 0 .. Text.nnz - 1 |-> Element(Text, L(k))]
    <3>1. Returned([matrix EXCEPT !.values.data = g])
      BY <1>7 DEF MmArrayLines
    <3>2. g = [k \in 0 .. Text.nnz - 1 |-> g[k]]
      OBVIOUS
    <3> HIDE DEF g
    <3>3. QED
      BY <3>1, <3>2
  <2> DEFINE d == [k \in 0 .. Text.nnz - 1 |-> g[k]]
  <2>2. live' = live \ {"metadata", "stream"} /\ UNCHANGED faulted
    BY <1>7 DEF MmArrayLines
  <2>3. Text.type # "pattern"
    BY <1>1, <1>7 DEF MmreadInv, Readable, MmArrayLines
  <2>4. DOMAIN d = DOMAIN matrix.values.data
    BY <1>5, <2>3 DEF Count
  <2> HIDE DEF d
  <2>5. matrix' = [matrix EXCEPT !.values.data = d]
    BY <2>1 DEF Returned, d
  <2>6. \A f \in Fields : DOMAIN matrix'[f].data = DOMAIN matrix[f].data
    BY <1>4, <2>4, <2>5 DEF IsMatrix, HasKeys, Keys, Fields
  <2>7. Pointed(matrix') = Pointed(matrix) /\ Pointed(matrix) \subseteq Fields
    BY <2>6, PointedSame DEF Pointed
  <2>8. ~faulted' => Pointed(matrix') \subseteq live'
    BY <1>1, <2>2, <2>7 DEF VInv, PointInv, Fields
  <2>9. QED
    BY <1>1, <2>1, <2>8, MmValues
<1>8. QED
  BY <1>2, <1>6, <1>7

LEMMA MmSortValues ==
    ASSUME IInv, IInv', MmreadInv, VInv,
           \/ MmSort \/ MmSortFails \/ MmPermute
           \/ \E s \in Copies : MmCopy(s) \/ MmCopyFails(s)
    PROVE  VInv'
<1>1. CASE MmSort
  <2>1. Mm("sort") /\ Go("rowind") /\ UNCHANGED <<matrix, faulted>> /\ live \subseteq live'
    BY <1>1 DEF MmSort
  <2>2. ~faulted' => Pointed(matrix') \subseteq live'
    BY <2>1, MmUnderWay DEF VInv, PointInv
  <2>3. QED
    BY <2>1, <2>2, MmValues
<1>2. CASE MmSortFails
  <2>1. Mm("sort") /\ UnderWay /\ Dies("crash", TRUE)
    BY <1>2, MmUnderWay DEF MmSortFails
  <2>2. QED
    BY <2>1, DeathValues DEF Ends
<1>3. CASE MmPermute
  <2>1. /\ Mm("permute") /\ live' = Pointed(matrix)
        /\ \E p \in [0 .. matrix.nnz - 1 -> 0 .. matrix.nnz - 1] : Returned(Permuted(matrix, p))
    BY <1>3 DEF MmPermute
  <2>2. IsMatrix(matrix)
    BY <2>1, MmUnderWay DEF MmreadInv, Sorting, Coordinated
  <2>3. PICK p : Returned(Permuted(matrix, p))
    BY <2>1
  <2>4. Pointed(matrix') = Pointed(matrix)
    BY <2>2, <2>3, PermutedFacts DEF Returned
  <2>5. QED
    BY <2>1, <2>3, <2>4, MmValues
<1>4. ASSUME NEW s \in Copies, MmCopy(s) PROVE VInv'
  <2>1. /\ Mm(s) /\ Go(After(s)) /\ s # "start"
        /\ UNCHANGED <<matrix, faulted>> /\ live \subseteq live'
    BY <1>4 DEF MmCopy, Copies
  <2>2. ~faulted' => Pointed(matrix') \subseteq live'
    BY <2>1, MmUnderWay DEF VInv, PointInv
  <2>3. QED
    BY <2>1, <2>2, MmValues
<1>5. ASSUME NEW s \in Copies, MmCopyFails(s) PROVE VInv'
  <2>1. Mm(s) /\ Returned(matrix) /\ faulted' = TRUE
    BY <1>5 DEF MmCopyFails
  <2>2. QED
    BY <2>1, MmValues
<1>6. QED
  BY <1>1, <1>2, <1>3, <1>4, <1>5

LEMMA MmNextValues == ASSUME IInv, IInv', MmreadInv, VInv, MmNext PROVE VInv'
  BY MmHeaderValues, MmAllocateValues, MmOpenValues, MmLinesValues, MmSortValues
     DEF MmNext, MmArrays

--------------------------------------------------------------------------------
(* The matrix of mtx2bsp. *)

LEMMA SameShapeFormed ==
    ASSUME NEW m, NEW n, Formed(m), \A x \in Keys \ {"values"} : n[x] = m[x],
           n.values.type \in ValueTypes, DOMAIN n.values.data = DOMAIN m.values.data
    PROVE  Formed(n)
<1>1. /\ n.format = m.format /\ n.is_iso = m.is_iso /\ n.nrows = m.nrows /\ n.ncols = m.ncols
      /\ n.nnz = m.nnz /\ n.indices_0 = m.indices_0 /\ n.indices_1 = m.indices_1
      /\ n.pointers_to_1 = m.pointers_to_1
  BY DEF Keys
<1>2. n.values.type # "invalid"
  BY DEF ValueTypes, FloatTypes
<1>3. \A f \in Fields : n[f].type = "invalid" => n[f] = Absent
  BY <1>1, <1>2 DEF Formed, Fields
<1>4. \A x : Kept(m, x) => Kept(n, x)
  BY <1>1 DEF Kept, IndexType
<1>5. QED
  BY <1>1, <1>3, <1>4 DEF Formed, ValueCount

\* bsp_mmread returns a matrix that a file may hold.
LEMMA ResultFormed ==
    ASSUME NEW m, NEW t, IsText(t), MmreadResult(m, t)
    PROVE  /\ IsMatrix(m) /\ Formed(m)
           /\ m.format = "COO" <=> t.format = "coordinate"
           /\ DOMAIN m.values.data = 0 .. Count(t, "values") - 1
<1>1. /\ t.valid /\ Readable(t) /\ m.values.type = TypeOf[t.type]
      /\ IF t.format = "coordinate" THEN Coordinated(m, t) ELSE Filled(m, t)
  BY DEF MmreadResult
<1>2. /\ {t.nrows, t.ncols, t.nnz} \subseteq 0 .. Cap("wide") /\ t.lines \in Lines
  BY <1>1 DEF IsText, Lines
<1>3. m.values.type \in ValueTypes /\ m.values.type # "invalid"
  BY <1>1 DEF Readable, TypeOf, ValueTypes, FloatTypes
<1>4. CASE t.format = "coordinate"
  <2>1. Coordinated(m, t)
    BY <1>1, <1>4
  <2>2. IsMatrix(m) /\ m.format = "COO" /\ DOMAIN m.values.data = 0 .. Count(t, "values") - 1
    BY <2>1 DEF Coordinated
  <2>3. m.indices_0.type # "invalid" /\ m.indices_1.type # "invalid"
    BY <2>1 DEF Coordinated, IndexType, Pick
  <2>4. \A f \in Fields : m[f].type = "invalid" => m[f] = Absent
    BY <1>3, <2>1, <2>3 DEF Coordinated, Fields
  <2>5. \A x : Kept(t, x) => Kept(m, x)
    BY <2>1 DEF Coordinated, Kept, IndexType
  <2>6. DOMAIN m.values.data = 0 .. ValueCount(m) - 1
    BY <2>1, <2>2 DEF Coordinated, ValueCount, Count
  <2> HIDE DEF Count, ValueCount
  <2>8. Formed(m)
    BY <1>2, <1>3, <2>1, <2>4, <2>5, <2>6 DEF Coordinated, Formed
  <2>7. QED
    BY <1>4, <2>2, <2>8
<1>5. CASE t.format # "coordinate"
  <2>1. Filled(m, t) /\ t.type # "pattern"
    BY <1>1, <1>5 DEF Readable
  <2>2. \A f \in Fields : m[f].type = "invalid" => m[f] = Absent
    BY <1>3, <2>1 DEF Filled, Fields
  <2>3. Formed(m)
    BY <1>2, <1>3, <2>1, <2>2 DEF Filled, Formed, ValueCount
  <2>4. QED
    BY <1>5, <2>1, <2>3 DEF Filled, Count
<1>6. QED
  BY <1>4, <1>5

\* An index that a type holds is held by the wide one, and by any that was picked for more.
LEMMA KeptLarger ==
    ASSUME NEW v \in Nat, NEW w \in Nat, v <= w, NEW x \in Int, Stored(Pick(v), x) = x
    PROVE  Stored(Pick(w), x) = x
<1>1. Cap("wide") \in Nat /\ Cap("narrow") = NarrowMax /\ NarrowMax < Cap("wide")
      /\ NarrowMax \in Nat
  BY WideCap, NarrowMaxAssumption
<1>2. Cap(Pick(v)) \in Nat /\ Cap(Pick(w)) \in Nat /\ Cap(Pick(v)) <= Cap(Pick(w))
  BY <1>1 DEF Pick
<1>3. CASE x = Junk
  BY <1>3 DEF Stored
<1>4. CASE x # Junk
  <2> DEFINE c == Cap(Pick(v))
             d == Cap(Pick(w))
  <2>1. x % (c + 1) = x
    BY <1>4 DEF Stored
  <2> HIDE DEF c, d
  <2>2. c \in Nat /\ d \in Nat /\ c <= d
    BY <1>2 DEF c, d
  <2>3. x \in 0 .. c
    BY <2>1, <2>2
  <2>4. x % (d + 1) = x
    BY <2>2, <2>3
  <2>5. QED
    BY <1>4, <2>4 DEF Stored, d
<1>5. QED
  BY <1>3, <1>4

LEMMA CsrFormed ==
    ASSUME NEW m, IsMatrix(m), Formed(m), m.format = "COO"
    PROVE  Formed(CsrOf(m)) /\ IsMatrix(CsrOf(m))
<1> DEFINE w == Larger(MaxDim(m), Size(m.values.data))
           T == Pick(w)
           p == [r \in 0 .. m.nrows |-> Stored(T, Begin(m, r))]
           c == CsrOf(m)
<1>1. c = [m EXCEPT !.format = "CSR", !.indices_0 = Absent, !.indices_1 = Converted(@, T),
                    !.pointers_to_1 = Indexes(T, p)]
  BY DEF CsrOf
<1> HIDE DEF c, p
<1>2. /\ c.format = "CSR" /\ c.is_iso = m.is_iso /\ c.nrows = m.nrows /\ c.ncols = m.ncols
      /\ c.nnz = m.nnz /\ c.values = m.values /\ c.indices_0 = Absent
      /\ c.indices_1 = Converted(m.indices_1, T) /\ c.pointers_to_1 = Indexes(T, p)
  BY <1>1 DEF IsMatrix, HasKeys, Keys
<1>3. /\ m.nrows \in Nat /\ m.ncols \in Nat /\ MaxDim(m) \in Nat /\ w \in Nat /\ MaxDim(m) <= w
  <2>1. Size(m.values.data) \in Nat
    <3>1. ValueCount(m) - 1 \in Int /\ DOMAIN m.values.data = 0 .. ValueCount(m) - 1
      BY FormedNumbers DEF Formed, ValueCount
    <3>2. IsFiniteSet(DOMAIN m.values.data)
      BY <3>1, FS_Interval
    <3>3. QED
      BY <3>2, FS_CardinalityType DEF Size
  <2>2. QED
    BY <2>1, FormedNumbers DEF MaxDim, Larger
<1>4. IndexType(m) = Pick(MaxDim(m)) /\ IndexType(c) = Pick(MaxDim(m)) /\ T # "invalid"
  BY <1>2 DEF IndexType, MaxDim, Pick
<1>5. DOMAIN m.indices_1.data = 0 .. m.nnz - 1
      /\ \A k \in 0 .. m.nnz - 1 : Kept(m, m.indices_1.data[k])
  BY DEF Formed
<1>6. c.indices_1.type = T
      /\ c.indices_1.data = [k \in 0 .. m.nnz - 1 |-> Stored(T, m.indices_1.data[k])]
  BY <1>2, <1>5 DEF Converted, Indexes
<1>7. \A k \in 0 .. m.nnz - 1 : Kept(c, c.indices_1.data[k])
  <2> TAKE k \in 0 .. m.nnz - 1
  <2>1. Kept(m, m.indices_1.data[k])
    BY <1>5
  <2> HIDE DEF T
  <2>2. m.indices_1.data[k] \in Int /\ Stored(T, m.indices_1.data[k]) = m.indices_1.data[k]
    BY <1>3, <1>4, <2>1, KeptLarger DEF Kept, T
  <2>3. QED
    BY <1>4, <1>6, <2>1, <2>2 DEF Kept
<1>8. \A f \in Fields : c[f].type = "invalid" => c[f] = Absent
  <2>1. m.values.type # "invalid"
    BY DEF Formed, ValueTypes, FloatTypes
  <2>2. c.pointers_to_1.type = T
    BY <1>2 DEF Indexes
  <2>3. QED
    BY <1>2, <1>4, <1>6, <2>1, <2>2 DEF Fields
<1>9. DOMAIN c.indices_1.data = 0 .. c.nnz - 1
  BY <1>2, <1>6
<1> HIDE DEF T
<1>10. Formed(c)
  BY <1>2, <1>7, <1>8, <1>9 DEF Formed, ValueCount
<1>11. QED
  BY <1>10, CsrIsMatrix DEF c

\* A call of mtx2bsp returns to the next.
LEMMA MakeValues ==
    ASSUME IInv, IInv', VInv, NEW c \in MakeCalls, Calls(c), Return("SUCCESS"), UNCHANGED copy,
           FileFormed', PointInv', ShapeInv'
    PROVE  VInv'
<1>1. UnderWay' /\ Program' = "mtx2bsp" /\ <<"mtx2bsp", c, Call'>> \in Succession
  BY MakeGoesOn
<1>2. FillInv' /\ FirstInv'
  BY <1>1 DEF FillInv, FirstInv, Checks, Succession, Reads
<1>3. WrittenInv'
  BY <1>1 DEF VInv, WrittenInv, Readable
<1>4. QED
  BY <1>2, <1>3 DEF VInv

LEMMA CheckArgumentsValues ==
    ASSUME IInv, IInv', VInv, CheckArguments PROVE VInv'
<1>1. Calls("metadata") /\ "metadata" \in MakeCalls /\ UnderWay
  BY Making DEF CheckArguments, MakeCalls
<1>2. CASE Dies("exit 1", FALSE) \/ Dies("exit 1", TRUE)
  BY <1>1, <1>2, DeathValues DEF Ends
<1>3. CASE /\ input.text.valid /\ input.format # "invalid" /\ Return("SUCCESS") /\ KeepFiles
  <2>1. /\ UnderWay' /\ Program' = "mtx2bsp" /\ <<"mtx2bsp", "metadata", Call'>> \in Succession
        /\ step' = "start" /\ UNCHANGED input
    BY <1>1, <1>3, MakeGoesOn
  <2>2. Call' = "mmread"
    BY <2>1 DEF Succession
  <2>3. FileFormed' /\ PointInv' /\ ShapeInv'
    BY <1>3, <2>1, <2>2 DEF VInv, FileFormed, PointInv, ShapeInv, KeepFiles
  <2>4. QED
    BY <1>1, <1>3, <2>3, MakeValues DEF KeepFiles
<1>4. QED
  BY <1>2, <1>3 DEF CheckArguments

LEMMA DeclampAndShape ==
    ASSUME IInv, IInv', ResultInv, VInv, DeclampValues PROVE VInv'
<1>1. /\ Calls("declamp") /\ "declamp" \in MakeCalls /\ matrix' = Declamped(matrix)
      /\ Return("SUCCESS") /\ UNCHANGED <<file, copy, live, faulted>>
  BY DEF DeclampValues, KeepFiles, MakeCalls
<1>2. /\ UnderWay /\ Program = "mtx2bsp" /\ Call = "declamp" /\ step = "start"
      /\ UnderWay' /\ Program' = "mtx2bsp" /\ Call' = "minimize" /\ UNCHANGED input
  BY <1>1, Making, MakeGoesOn DEF Succession
<1>3. /\ Text = input.text /\ IsText(input.text) /\ input.text.valid /\ input.format # "invalid"
      /\ ~faulted => Pointed(matrix) \subseteq live
  BY <1>2, InputsAssumption DEF Text, Program, IInv, SessionInv, IsSession, VInv, ShapeInv,
     PointInv
<1>4. CASE HasKeys(matrix) /\ matrix.format = "junk" /\ faulted
  <2>1. HasKeys(matrix') /\ matrix'.format = "junk"
    BY <1>1, <1>4 DEF Declamped, HasKeys, Keys
  <2>2. FileFormed' /\ PointInv' /\ ShapeInv'
    BY <1>1, <1>2, <1>3, <1>4, <2>1 DEF VInv, FileFormed, PointInv, ShapeInv
  <2>3. QED
    BY <1>1, <2>2, MakeValues
<1>5. CASE MmreadResult(matrix, input.text)
  <2>7. input.text.format = "coordinate" => RowsOfLines(matrix, input.text)
    BY <1>3, <1>5 DEF MmreadResult, Coordinated, IsText, Lines
  <2>1. /\ IsMatrix(matrix) /\ Formed(matrix)
        /\ matrix.format = "COO" <=> input.text.format = "coordinate"
        /\ DOMAIN matrix.values.data = 0 .. Count(input.text, "values") - 1
        /\ Readable(input.text) /\ matrix.values.type = TypeOf[input.text.type]
    BY <1>3, <1>5, ResultFormed DEF MmreadResult
  <2>2. /\ IsMatrix(matrix') /\ \A x \in Keys \ {"values"} : matrix'[x] = matrix[x]
        /\ matrix'.values.type = matrix.values.type
        /\ DOMAIN matrix'.values.data = DOMAIN matrix.values.data
    BY <1>1, <2>1, DeclampedValues
  <2>3. Formed(matrix') /\ matrix'.format = matrix.format
    <3>1. matrix'.values.type \in ValueTypes
      BY <2>1, <2>2 DEF Formed
    <3>2. QED
      BY <2>1, <2>2, <3>1, SameShapeFormed DEF Keys
  <2>4. Pointed(matrix') = Pointed(matrix)
    BY <1>1, <2>1, DeclampedFacts
  <2>8. input.text.format = "coordinate" => RowsOfLines(matrix', input.text)
    BY <2>2, <2>7, SameRows DEF Keys
  <2>5. FileFormed' /\ PointInv' /\ ShapeInv'
    <3>1. FileFormed'
      BY <1>1 DEF VInv, FileFormed
    <3>2. PointInv'
      BY <1>1, <1>3, <2>4 DEF PointInv
    <3>3. ShapeInv'
      BY <1>2, <1>3, <2>1, <2>2, <2>3, <2>8 DEF ShapeInv
    <3>4. QED
      BY <3>1, <3>2, <3>3
  <2>6. QED
    BY <1>1, <2>5, MakeValues
<1>6. QED
  BY <1>2, <1>3, <1>4, <1>5 DEF ResultInv

LEMMA MinimalTypes ==
    ASSUME NEW a, a.type \in ValueTypes PROVE MinimalType(a) \in ValueTypes
  BY DEF MinimalType, ValueTypes, FloatTypes, IntegerType, Pick

LEMMA MinimizeAndShape ==
    ASSUME IInv, IInv', VInv, MinimizeValues PROVE VInv'
<1> DEFINE a == matrix.values
           n == [matrix EXCEPT !.values = Minimized(a)]
<1>1. Calls("minimize") /\ "minimize" \in MakeCalls
  BY DEF MinimizeValues, MakeCalls
<1>2. UnderWay /\ Program = "mtx2bsp" /\ Call = "minimize" /\ step = "start"
  BY <1>1, Making
<1>3. CASE Dies("crash", FALSE)
  BY <1>2, <1>3, DeathValues DEF Ends
<1>4. CASE ~Dies("crash", FALSE)
  <2>1. /\ Return("SUCCESS") /\ UNCHANGED <<file, copy, live>>
        /\ \/ matrix' = n /\ UNCHANGED faulted
           \/ UNCHANGED <<matrix, faulted>>
           \/ UNCHANGED matrix /\ faulted' = TRUE
    BY <1>4 DEF MinimizeValues, KeepFiles
  <2>2. /\ UnderWay' /\ Program' = "mtx2bsp" /\ Call' = "convert" /\ UNCHANGED input
    BY <1>1, <2>1, MakeGoesOn DEF Succession
  <2>3. /\ input.text.valid /\ input.format # "invalid"
        /\ ~faulted => /\ Pointed(matrix) \subseteq live /\ Readable(input.text)
                       /\ matrix.format = "COO" <=> input.text.format = "coordinate"
                       /\ input.text.format = "coordinate" => RowsOfLines(matrix, input.text)
        /\ \/ HasKeys(matrix) /\ matrix.format = "junk" /\ faulted
           \/ IsMatrix(matrix) /\ Formed(matrix)
    BY <1>2 DEF VInv, ShapeInv, PointInv
  <2>4. HasKeys(matrix) => HasKeys(n) /\ n.format = matrix.format
    BY DEF HasKeys, Keys
  <2>10. ASSUME HasKeys(matrix), RowsOfLines(matrix, input.text)
         PROVE  RowsOfLines(n, input.text)
    <3>1. n.nrows = matrix.nrows /\ n.indices_0 = matrix.indices_0
      BY <2>10 DEF HasKeys, Keys
    <3> HIDE DEF n
    <3>2. QED
      BY <2>10, <3>1, SameRows
  <2>5. IsMatrix(matrix) /\ Formed(matrix) =>
           IsMatrix(n) /\ Formed(n) /\ Pointed(n) = Pointed(matrix)
    <3> SUFFICES ASSUME IsMatrix(matrix), Formed(matrix)
                 PROVE  IsMatrix(n) /\ Formed(n) /\ Pointed(n) = Pointed(matrix)
      OBVIOUS
    <3>1. IsMatrix(n) /\ Pointed(n) = Pointed(matrix)
      BY MinimizedFacts
    <3>2. n.values = Minimized(a) /\ \A x \in Keys \ {"values"} : n[x] = matrix[x]
      BY DEF IsMatrix, HasKeys, Keys
    <3>3. n.values.type = MinimalType(a) /\ DOMAIN n.values.data = DOMAIN matrix.values.data
      BY <3>2 DEF Minimized
    <3>4. n.values.type \in ValueTypes
      BY <3>3, MinimalTypes DEF Formed
    <3> HIDE DEF n
    <3>5. QED
      BY <3>1, <3>2, <3>3, <3>4, SameShapeFormed
  <2>6. FileFormed'
    BY <2>1 DEF VInv, FileFormed, Formed, ValueTypes, Kept
  <2> HIDE DEF n
  <2>7. IsMatrix(matrix) => HasKeys(matrix)
    BY DEF IsMatrix
  <2>11. faulted' \in BOOLEAN /\ (~faulted' => ~faulted)
    BY <2>1 DEF IInv, StateInv
  <2>8. PointInv' /\ ShapeInv'
    <3>1. PointInv'
      BY <2>1, <2>3, <2>4, <2>5, <2>11 DEF PointInv
    <3>2. ShapeInv'
      BY <2>1, <2>2, <2>3, <2>4, <2>5, <2>7, <2>10, <2>11 DEF ShapeInv
    <3>3. QED
      BY <3>1, <3>2
  <2>9. QED
    BY <1>1, <2>1, <2>6, <2>8, MakeValues
<1>5. QED
  BY <1>3, <1>4

\* bsp_convert_matrix makes a matrix that a file may hold.
LEMMA ConvertAndShape ==
    ASSUME IInv, IInv', VInv, Convert PROVE VInv'
<1>1. Calls("convert") /\ Return("SUCCESS") /\ UNCHANGED <<file, copy>> /\ "convert" \in MakeCalls
  BY DEF Convert, KeepFiles, MakeCalls
<1>2. /\ UnderWay /\ Program = "mtx2bsp" /\ Call = "convert"
      /\ UnderWay' /\ Program' = "mtx2bsp" /\ Call' = "write" /\ UNCHANGED input
  BY <1>1, Making, MakeGoesOn DEF Succession
<1>3. \/ UNCHANGED <<matrix, live, faulted>>
      \/ /\ Sound /\ matrix.format = "COO" /\ matrix' = CsrOf(matrix)
         /\ live' = (live \ Pointed(matrix)) \cup Pointed(CsrOf(matrix)) /\ UNCHANGED faulted
      \/ matrix' = DefaultMatrix /\ faulted' = TRUE
  BY DEF Convert
<1>4. /\ input.text.valid /\ input.format # "invalid"
      /\ ~faulted => Pointed(matrix) \subseteq live
      /\ \/ HasKeys(matrix) /\ matrix.format = "junk" /\ faulted
         \/ IsMatrix(matrix) /\ Formed(matrix)
  BY <1>2 DEF VInv, ShapeInv, PointInv
<1>5. matrix.format = "COO" => Formed(CsrOf(matrix)) /\ IsMatrix(CsrOf(matrix))
  BY <1>4, CsrFormed
<1>6. HasKeys(DefaultMatrix) /\ DefaultMatrix.format = "junk"
  BY DefaultMatrixFacts DEF IsMatrix, DefaultMatrix
<1>7. FileFormed'
  BY <1>1 DEF VInv, FileFormed, Formed, ValueTypes, Kept, ValueCount
<1>8. ShapeInv'
  BY <1>1, <1>2, <1>3, <1>4, <1>5, <1>6 DEF ShapeInv
<1>9. PointInv'
  BY <1>2, <1>3, <1>4 DEF PointInv
<1>10. QED
  BY <1>1, <1>7, <1>8, <1>9, MakeValues

\* The file that mtx2bsp writes.
LEMMA FileOfIsSealed ==
    ASSUME NEW m, file' = FileOf(m, 4, TRUE) PROVE Sealed'
<1>1. /\ file'.exists /\ file'.attribute /\ file'.flaw = "none" /\ file'.version = Supported
      /\ file'.m = m
      /\ file'.datasets = {ReadOrder[k] : k \in 1 .. 4} \cap {f \in Fields : m[f].type # "invalid"}
  BY DEF FileOf
<1>2. {ReadOrder[k] : k \in 1 .. 4} = Fields
  <2>1. 1 .. 4 = {1, 2, 3, 4}
    OBVIOUS
  <2>2. QED
    BY <2>1 DEF ReadOrder, Fields
<1>3. QED
  BY <1>1, <1>2 DEF Sealed, Opens, Names

LEMMA WriteAndShape ==
    ASSUME IInv, IInv', VInv, WriteFile PROVE VInv'
<1>1. /\ Calls("write") /\ Return("SUCCESS") /\ "write" \in MakeCalls /\ Sound
      /\ UNCHANGED <<copy, matrix, live>>
  BY DEF WriteFile, MakeCalls
<1>2. \/ file' = FileOf(matrix, 4, TRUE) /\ UNCHANGED faulted
      \/ file' = FileOf(matrix, 4, FALSE) /\ faulted' = TRUE
  BY DEF WriteFile
<1>3. /\ UnderWay /\ Program = "mtx2bsp" /\ Call = "write" /\ step = "start"
      /\ UnderWay' /\ Program' = "mtx2bsp" /\ Call' = "finish" /\ UNCHANGED input
  BY <1>1, Making, MakeGoesOn DEF Succession
<1>4. /\ input.text.valid /\ input.format # "invalid" /\ Formed(matrix)
      /\ ~faulted => Pointed(matrix) \subseteq live
  BY <1>1, <1>3 DEF VInv, ShapeInv, PointInv, Sound
<1>5. file'.m = matrix
  BY <1>2 DEF FileOf
<1>6. FileFormed'
  BY <1>4, <1>5 DEF FileFormed, Formed, ValueTypes, Kept, ValueCount
<1>7. ~faulted' => Sealed'
  BY <1>2, FileOfIsSealed
<1>8. ShapeInv' /\ PointInv'
  BY <1>1, <1>2, <1>3, <1>4, <1>7 DEF ShapeInv, PointInv
<1>9. QED
  BY <1>1, <1>6, <1>8, MakeValues

LEMMA WriteFailsAndShape ==
    ASSUME IInv, IInv', VInv, WriteFileFails PROVE VInv'
<1>1. Calls("write") /\ "write" \in MakeCalls
  BY DEF WriteFileFails, MakeCalls
<1>2. UnderWay /\ Program = "mtx2bsp" /\ Call = "write" /\ step = "start"
  BY <1>1, Making
<1>3. CASE Dies("undefined", FALSE)
  BY <1>2, <1>3, DeathValues DEF Ends
<1>4. CASE ~Dies("undefined", FALSE)
  <2>1. /\ Sound /\ faulted' = TRUE /\ UNCHANGED <<input, todo, calls, copy, matrix>>
        /\ UNCHANGED file \/ \E n \in 0 .. 3 : file' = FileOf(matrix, n, FALSE)
    BY <1>4 DEF WriteFileFails, Return
  <2>2. UnderWay' /\ Program' = "mtx2bsp" /\ Call' = "write"
    BY <1>2, <2>1 DEF UnderWay, Program, Call
  <2>3. /\ input.text.valid /\ input.format # "invalid"
        /\ Formed(matrix) /\ IsMatrix(matrix)
    BY <1>2, <2>1 DEF VInv, ShapeInv, Sound
  <2>4. UNCHANGED file \/ file'.m = matrix
    BY <2>1 DEF FileOf
  <2>5. FileFormed'
    <3>1. FileFormed /\ Formed(matrix)
      BY <2>3 DEF VInv
    <3>2. CASE UNCHANGED file
      BY <3>1, <3>2 DEF FileFormed, Formed, ValueTypes, Kept, ValueCount
    <3>3. CASE file'.m = matrix
      BY <3>1, <3>3 DEF FileFormed, Formed, ValueTypes, Kept, ValueCount
    <3>4. QED
      BY <2>4, <3>2, <3>3
  <2>6. ShapeInv' /\ PointInv' /\ FillInv' /\ FirstInv' /\ WrittenInv'
    BY <2>1, <2>2, <2>3 DEF VInv, ShapeInv, PointInv, FillInv, FirstInv, WrittenInv, Checks,
       Reads, Readable
  <2>7. QED
    BY <2>5, <2>6 DEF VInv
<1>5. QED
  BY <1>3, <1>4

--------------------------------------------------------------------------------
(* The steps that only end a program. *)
Ending ==
    \/ ConvertFails \/ Finish \/ Compare \/ ToCooFails \/ BspCheck
    \/ ReadAsserts \/ ReadCrashes
LEMMA EndingDies ==
    ASSUME Ending
    PROVE  UnderWay /\ \E how \in Ends, failed \in BOOLEAN : Dies(how, failed)
<1>1. UnderWay
  BY DEF Ending, ConvertFails, Finish, Compare, ToCooFails, BspCheck, ReadAsserts, ReadCrashes,
     Calls, At, Reading, UnderWay
<1>2. Compare => \E how \in Ends, failed \in BOOLEAN : Dies(how, failed)
  <2>1. Verdict(first, matrix) \in Ends /\ (file.flaw # "nnz_type") \in BOOLEAN
    BY VerdictEnds DEF Ends
  <2>2. QED
    BY <2>1 DEF Compare, Ends
<1>3. QED
  BY <1>1, <1>2 DEF Ending, ConvertFails, Finish, ToCooFails, BspCheck, ReadAsserts, ReadCrashes,
     Ends

LEMMA EndingValues ==
    ASSUME IInv, IInv', VInv, Ending PROVE VInv'
  BY EndingDies, DeathValues

--------------------------------------------------------------------------------
(* The matrix that is kept for the comparison, and the one it is compared with. *)

LEMMA KeepFirstValues ==
    ASSUME IInv, IInv', ResultInv, VInv, KeepFirst PROVE VInv'
<1>1. /\ UnderWay /\ Call = "keep" /\ step = "start" /\ calls' = Tail(calls)
      /\ first' = (IF Sound THEN Declamped(matrix) ELSE DefaultMatrix)
      /\ UNCHANGED <<input, file, copy, todo, step, faulted, ended>>
  BY DEF KeepFirst, Calls, At, UnderWay, Call
<1>2. /\ UnderWay' /\ Program' = Program /\ Program \in Checks /\ Call' \in Reads
  <2>1. UnderWay' /\ Program' = Program /\ <<Program, Call, Call'>> \in Succession
    BY <1>1, NextCall DEF IInv
  <2>2. QED
    BY <1>1, <2>1 DEF Succession, Checks, Reads
<1>3. Text' = Text
  BY <1>1 DEF Text
<1>4. ~faulted => Pointed(matrix) \subseteq live
  BY <1>1 DEF VInv, PointInv
<1>5. FirstInv'
  <2>1. CASE matrix.format = "junk" /\ (faulted \/ ~Text.valid)
    BY <1>1, <1>2, <1>3, <2>1 DEF FirstInv, Sound
  <2>2. CASE MmreadResult(matrix, Text) /\ Sound
    <3>1. first' = Declamped(matrix) /\ MmreadResult(matrix, Text')
      BY <1>1, <1>3, <2>2
    <3>2. \E m : first' = Declamped(m) /\ MmreadResult(m, Text)'
      BY <1>1, <3>1 DEF MmreadResult
    <3>3. QED
      BY <3>2 DEF FirstInv
  <2>3. CASE MmreadResult(matrix, Text) /\ ~Sound
    <3>1. matrix.format # "junk"
      BY <2>3 DEF MmreadResult, Coordinated, Filled
    <3>2. faulted /\ first' = DefaultMatrix
      BY <1>1, <1>4, <2>3, <3>1 DEF Sound
    <3>3. QED
      BY <1>1, <3>2 DEF FirstInv
  <2>4. QED
    BY <1>1, <2>1, <2>2, <2>3 DEF ResultInv
<1>6. FileFormed' /\ PointInv' /\ ShapeInv'
  BY <1>1, <1>2 DEF VInv, FileFormed, Formed, ValueTypes, Kept, ValueCount, PointInv, ShapeInv,
     Checks, Reads
<1>7. FillInv' /\ WrittenInv'
  BY <1>1, <1>2 DEF VInv, FillInv, WrittenInv, Checks, Reads, Fields, Readable
<1>8. QED
  BY <1>5, <1>6, <1>7 DEF VInv

\* Steps of a read that go on or return.
LEMMA ReadValues ==
    ASSUME IInv, IInv', VInv, NEW s, Reading(s),
           (\E r : Go(r)) \/ (\E status : Return(status) /\ UNCHANGED <<file, copy>>),
           faulted => faulted', FillInv'
    PROVE  VInv'
<1>1. UnderWay /\ Call \in Reads /\ UNCHANGED <<input, file, copy, todo, first>>
  BY ReadUnderWay DEF Go, Return
<1>2. UnderWay' /\ Program' = Program /\ Call' \in Reads \cup {"compare", "to_coo", "finish"}
      /\ Program # "mtx2bsp"
      /\ (Call' = "finish" => Program # "bsp2mtx")
  <2>1. CASE UNCHANGED calls
    BY <1>1, <2>1, Readers DEF UnderWay, Program, Call, Reads
  <2>2. CASE calls' = Tail(calls)
    <3>1. UnderWay' /\ Program' = Program /\ <<Program, Call, Call'>> \in Succession
      BY <1>1, <2>2, NextCall DEF IInv, Reads
    <3>2. QED
      BY <1>1, <3>1 DEF Succession, Reads
  <2>3. QED
    BY <2>1, <2>2 DEF Go, Return
<1>3. FileFormed' /\ PointInv' /\ ShapeInv'
  BY <1>1, <1>2 DEF VInv, FileFormed, Formed, ValueTypes, Kept, ValueCount, PointInv, ShapeInv,
     Reads
<1>4. Text' = Text
  BY <1>1 DEF Text
<1>5. FirstInv'
  <2>1. \A m : MmreadResult(m, Text) => MmreadResult(m, Text)'
    BY <1>4 DEF MmreadResult
  <2>2. \/ first = DefaultMatrix /\ (faulted \/ ~Text.valid)
        \/ \E m : first = Declamped(m) /\ MmreadResult(m, Text)
        \/ Program \notin Checks
    BY <1>1 DEF VInv, FirstInv
  <2>3. QED
    BY <1>1, <1>2, <1>4, <2>1, <2>2 DEF FirstInv
<1>6. WrittenInv'
  BY <1>1, <1>2 DEF VInv, WrittenInv, Reads, Readable
<1>7. QED
  BY <1>3, <1>5, <1>6 DEF VInv

\* An error is not a step of a read that has read anything.
LEMMA ErrorFill ==
    ASSUME IInv, NEW s, Reading(s), NEW e \in Errors, Return(e)
    PROVE  FillInv'
<1>1. Call \in Reads /\ Call' = Call /\ step' = e
  BY ReadUnderWay DEF Return, Errors, Call
<1>2. QED
  BY <1>1 DEF FillInv, Errors, Fields, Reads

LEMMA ReadBegins ==
    ASSUME IInv, IInv', VInv, ReadOpen \/ ReadOpenFails \/ ReadDescriptor PROVE VInv'
<1>1. CASE ReadOpen
  <2>1. Reading("start") /\ UNCHANGED faulted
        /\ (Go("descriptor") \/ (Return("FORMAT") /\ UNCHANGED <<file, copy>>))
    BY <1>1 DEF ReadOpen
  <2>2. FillInv'
    <3>1. CASE Go("descriptor")
      <4>1. Call' = Call /\ Call \in Reads /\ step' = "descriptor"
        BY <2>1, <3>1, ReadUnderWay DEF Go, Call
      <4>2. QED
        BY <4>1 DEF FillInv, Fields, Reads
    <3>2. QED
      BY <2>1, <3>1, ErrorFill DEF Errors
  <2>3. QED
    BY <2>1, <2>2, ReadValues
<1>2. CASE ReadOpenFails
  <2>1. /\ Reading("start") /\ (faulted => faulted') /\ Return("IO")
        /\ UNCHANGED <<file, copy>>
    BY <1>2 DEF ReadOpenFails
  <2>2. QED
    BY <2>1, ErrorFill, ReadValues DEF Errors
<1>3. CASE ReadDescriptor
  <2> DEFINE m == file.m
             format == IF file.flaw = "unknown_format" THEN "unknown" ELSE m.format
             error == DescriptorError(Ignored(Head(calls)))
  <2>1. Reading("descriptor") /\ UNCHANGED faulted
    BY <1>3 DEF ReadDescriptor
  <2>2. CASE error # "SUCCESS"
    <3>1. Return(error) /\ UNCHANGED <<file, copy>> /\ error \in Errors
      BY <1>3, <2>2 DEF ReadDescriptor, DescriptorError, VersionError, Errors
    <3>2. QED
      BY <2>1, <3>1, ErrorFill, ReadValues
  <2>3. CASE error = "SUCCESS"
    <3>1. PICK n \in Numbers :
             /\ Go("values")
             /\ matrix' = [matrix EXCEPT !.format = format, !.nrows = m.nrows, !.ncols = m.ncols,
                                         !.nnz = n]
      BY <1>3, <2>3 DEF ReadDescriptor
    <3>2. Call' = Call /\ Call \in Reads /\ step' = "values" /\ UNCHANGED file
          /\ matrix = DefaultMatrix /\ Opens
      BY <2>1, <3>1, ReadUnderWay DEF Go, Call
    <3>3. /\ matrix'.nrows = m.nrows /\ matrix'.ncols = m.ncols /\ matrix'.nnz = n
          /\ matrix'.is_iso = FALSE
      BY <3>1, <3>2 DEF DefaultMatrix
    <3>4. Got("values") = {}
      BY DEF Got
    <3>7. n \in Nat /\ (file.flaw # "nnz_type" => n = m.nnz)
      <4>1. Formed(file.m)
        BY <3>2 DEF VInv, FileFormed, Opens
      <4>2. file.m.nnz \in Nat /\ Cap("wide") \in Nat
        BY <4>1, FormedNumbers, WideCap
      <4>3. QED
        BY <4>2 DEF Numbers
    <3>5. FillInv'
      BY <3>2, <3>3, <3>4, <3>7 DEF FillInv, Reads, Header0
    <3>6. QED
      BY <2>1, <3>1, <3>5, ReadValues
  <2>4. QED
    BY <2>2, <2>3
<1>4. QED
  BY <1>1, <1>2, <1>3

\* An array that the file has is read from it; one that it has not is the default one.
LEMMA ReadArrayValues ==
    ASSUME IInv, IInv', VInv, NEW f \in Fields, ReadArray(f) \/ ReadArrayFails(f) PROVE VInv'
<1>1. CASE ReadArrayFails(f)
  <2>1. Reading(f) /\ Return("READ") /\ UNCHANGED <<file, copy>> /\ (faulted => faulted')
    BY <1>1 DEF ReadArrayFails
  <2>2. QED
    BY <2>1, ErrorFill, ReadValues DEF Errors
<1>2. CASE ReadArray(f)
  <2>1. Reading(f) /\ UNCHANGED faulted
        /\ (Go(Following(f)) \/ (Return("TYPE") /\ UNCHANGED <<file, copy>>))
    BY <1>2 DEF ReadArray
  <2>2. CASE Return("TYPE") /\ UNCHANGED <<file, copy>>
    BY <2>1, <2>2, ErrorFill, ReadValues DEF Errors
  <2>3. CASE Go(Following(f))
    <3>1. /\ UnderWay /\ Call \in Reads /\ step = f /\ ReadingInv
          /\ UNCHANGED file /\ HasKeys(matrix)
          /\ \A g \in Fields \ {f} : matrix'[g] = matrix[g]
          /\ f \in Names => matrix'[f] = file.m[f]
      BY <1>2, ReadArrayFacts DEF ReadingInv
    <3>2. Call' = Call /\ step' = Following(f)
      BY <2>3 DEF Go, Call
    <3>3. /\ Header0(matrix)
          /\ \A g \in Got(f) : matrix[g] = Read0(g)
          /\ matrix.is_iso = IF f = "values" THEN FALSE ELSE Iso0
      BY <3>1 DEF VInv, FillInv
    <3>4. Formed(file.m)
      BY <3>1 DEF VInv, FileFormed, ReadingInv, Opens
    <3>5. f \notin Names => UNCHANGED matrix /\ Read0(f) = Absent /\ matrix[f] = Absent
      <4>1. ASSUME f \notin Names
            PROVE  UNCHANGED matrix /\ (NamesNone \/ file.m[f].type = "invalid")
        BY <1>2, <4>1 DEF ReadArray, Names, NamesNone
      <4>2. matrix[f] = Absent
        BY <3>1, GotFollowing DEF ReadingInv
      <4>3. file.m[f].type = "invalid" => file.m[f] = Absent
        BY <3>4 DEF Formed
      <4>4. QED
        BY <4>1, <4>2, <4>3 DEF Read0
    <3>6. /\ "values" \in Names <=> ~NamesNone
          /\ NamesNone => Names = {}
      BY <3>4 DEF Formed, Names, NamesNone, Fields, ValueTypes, FloatTypes
    <3>7. \/ /\ f \in Names
             /\ matrix' = [matrix EXCEPT ![f] = file.m[f],
                                         !.is_iso = IF f = "values" THEN file.m.is_iso ELSE @]
          \/ UNCHANGED matrix /\ (f = "values" => NamesNone)
      BY <1>2, <3>6 DEF ReadArray
    <3>13. file.m.is_iso \in BOOLEAN
      BY <3>4 DEF Formed
    <3>8. /\ matrix'.nrows = matrix.nrows /\ matrix'.ncols = matrix.ncols
          /\ matrix'.nnz = matrix.nnz /\ matrix'.is_iso = Iso0
      <4>1. CASE f = "values"
        BY <3>1, <3>3, <3>6, <3>7, <3>13, <4>1 DEF HasKeys, Keys, Fields, Iso0
      <4>2. CASE f # "values"
        BY <3>1, <3>3, <3>7, <4>2 DEF HasKeys, Keys, Fields
      <4>3. QED
        BY <4>1, <4>2
    <3>9. matrix'[f] = Read0(f)
      BY <3>1, <3>5, <3>6 DEF Read0
    <3>10. \A g \in Got(Following(f)) : matrix'[g] = Read0(g)
      BY <3>1, <3>3, <3>9, GotFollowing
    <3>14. \A g : Read0(g)' = Read0(g) /\ Iso0' = Iso0
      BY <3>1 DEF Read0, Iso0, NamesNone
    <3>15. Header0(matrix)'
      BY <3>1, <3>3, <3>8 DEF Header0
    <3>16. Following(f) # "values"
      BY GotFollowing
    <3>11. FillInv'
      BY <3>1, <3>2, <3>8, <3>10, <3>14, <3>15, <3>16 DEF FillInv, Reads
    <3>12. QED
      BY <2>1, <2>3, <3>11, ReadValues
  <2>4. QED
    BY <2>1, <2>2, <2>3
<1>3. QED
  BY <1>1, <1>2

\* What a read returns is what the file says.
LEMMA ReadReturnsValues ==
    ASSUME IInv, IInv', VInv, ReadReturns PROVE VInv'
<1>1. /\ Reading("structure") /\ Return("SUCCESS") /\ UNCHANGED <<file, copy, faulted>>
      /\ matrix' = [matrix EXCEPT !.structure = file.m.structure]
  BY DEF ReadReturns
<1>2. UnderWay /\ Call \in Reads /\ step = "structure" /\ ReadingInv
  BY <1>1, ReadUnderWay
<1>3. Got("structure") = Fields
  BY DEF Got
<1>4. Header0(matrix) /\ matrix.is_iso = Iso0 /\ \A g \in Fields : matrix[g] = Read0(g)
  BY <1>2, <1>3 DEF VInv, FillInv
<1>5. /\ \A x \in Keys \ {"structure"} : matrix'[x] = matrix[x]
      /\ matrix'.structure = file.m.structure
  BY <1>1, <1>2 DEF ReadingInv, HasKeys, Keys
<1>6. AsRead(matrix') /\ matrix'.format = FormatRead
  BY <1>2, <1>4, <1>5 DEF AsRead, Header0, Keys, Fields, ReadingInv
<1>7. Accepts(Call)
  BY <1>1, <1>2, <1>3 DEF ReadReturns, Accepts, ReadingInv, Names
<1>8. UnderWay' /\ Program' = Program /\ Call' \notin Reads
      /\ (Call' \in {"to_coo", "compare"} => Call = Reader(Program))
  <2>1. calls' = Tail(calls) /\ UNCHANGED todo
    BY <1>1 DEF Return
  <2>2. UnderWay' /\ Program' = Program /\ <<Program, Call, Call'>> \in Succession
    BY <1>2, <2>1, NextCall DEF IInv, Reads
  <2>3. QED
    BY <1>2, <2>2 DEF Succession, Reads, Reader
<1>9. FillInv'
  <2>1. \A c \in Reads : Accepts(c) => Accepts(c)'
    BY <1>1 DEF Accepts, Opens, Describes, Asserts, DescriptorError, Names
  <2>2. AsRead(matrix)' /\ FormatRead' = FormatRead
    BY <1>1, <1>6 DEF AsRead, Header0, Read0, Iso0, NamesNone, FormatRead
  <2>3. QED
    BY <1>1, <1>2, <1>6, <1>7, <1>8, <2>1, <2>2 DEF FillInv
<1>10. QED
  BY <1>1, <1>9, ReadValues

LEMMA ReadNextValues == ASSUME IInv, IInv', VInv, ReadNext PROVE VInv'
  BY ReadBegins, ReadArrayValues, ReadReturnsValues, EndingValues DEF ReadNext, Ending

--------------------------------------------------------------------------------
(* bsp2mtx. *)

\* The serial reader accepts only formats it knows, and refuses what is not of its type.
LEMMA ReadFormat ==
    ASSUME Accepts("read")
    PROVE  /\ FormatRead = file.m.format
           /\ file.flaw \notin {"unknown_format", "nnz_type", "data_types_type"}
  BY DEF Accepts, Describes, DescriptorError, Ignored, FormatRead, Early, Refused

\* If it accepts it, the matrix is the file's.
LEMMA AsReadIsSame ==
    ASSUME NEW m, AsRead(m), file.flaw \notin {"nnz_type", "data_types_type"}
    PROVE  Same(m, file.m)
<1>1. m.is_iso = Iso0 /\ m.structure = file.m.structure /\ \A f \in Fields : m[f] = file.m[f]
  BY DEF AsRead, Read0, NamesNone
<1>2. m.is_iso = file.m.is_iso
  BY <1>1 DEF Iso0, NamesNone
<1>3. m.nrows = file.m.nrows /\ m.ncols = file.m.ncols /\ m.nnz = file.m.nnz
  BY DEF AsRead, Header0
<1>4. QED
  BY <1>1, <1>2, <1>3 DEF Same, Keys, Fields

\* A call of bsp2mtx returns to the next.
LEMMA CopyingValues ==
    ASSUME IInv, IInv', VInv, UnderWay, Call \in {"to_coo", "mmwrite"}, step = "start",
           Return("SUCCESS"), UNCHANGED file, WrittenInv'
    PROVE  VInv'
<1>1. UnderWay' /\ Program' = Program /\ <<Program, Call, Call'>> \in Succession
  BY NextCall DEF IInv, Return
<1>2. Program = "bsp2mtx" /\ Call' \in {"mmwrite", "finish"}
  BY <1>1 DEF Succession
<1>3. FileFormed' /\ PointInv' /\ ShapeInv'
  BY <1>1, <1>2 DEF VInv, FileFormed, Formed, ValueTypes, Kept, ValueCount, PointInv, ShapeInv
<1>4. FillInv' /\ FirstInv'
  BY <1>1, <1>2 DEF FillInv, FirstInv, Checks, Reads
<1>5. QED
  BY <1>3, <1>4 DEF VInv

\* A coordinate matrix that was read, and what a CSR matrix is converted to.
LEMMA ReadIsCoo ==
    ASSUME NEW m, NEW n, HasKeys(m), Same(m, n), m.format = n.format, Formed(n)
    PROVE  /\ m.format = "COO" => IsCooOf(m, n)
           /\ m.format = "CSR" /\ ~BadRows(m) => IsCooOf(CooOf(m), n)
<1>1. Formed(m) /\ Entries(m) = Entries(n)
  BY SameMatrix
<1>2. /\ m.nnz = n.nnz /\ m.is_iso = n.is_iso /\ m.structure = n.structure
      /\ m.values = n.values
  BY DEF Same, Keys
<1>3. m.nnz \in Nat /\ m.is_iso \in BOOLEAN
  BY <1>1, FormedNumbers DEF Formed
<1>4. CASE m.format = "COO"
  <2>1. /\ DOMAIN m.indices_0.data = 0 .. m.nnz - 1
        /\ \A k \in 0 .. m.nnz - 1 : m.indices_0.data[k] \in Int /\ m.indices_1.data[k] \in Int
    BY <1>1, <1>4 DEF Formed, Kept
  <2>2. QED
    BY <1>1, <1>2, <1>3, <1>4, <2>1 DEF IsCooOf
<1>5. CASE m.format = "CSR" /\ ~BadRows(m)
  <2> DEFINE c == CooOf(m)
  <2>4. ~RowsMissing(m)
    BY <1>5 DEF BadRows
  <2>1. /\ c.format = "COO" /\ c.nnz = m.nnz
        /\ c.is_iso = m.is_iso /\ c.structure = m.structure /\ c.values = m.values
        /\ DOMAIN c.indices_0.data = 0 .. m.nnz - 1
        /\ \A k \in 0 .. m.nnz - 1 : c.indices_0.data[k] \in Int /\ c.indices_1.data[k] \in Int
        /\ Entries(c) = Entries(m)
    BY <1>1, <1>5, <2>4, CooFacts
  <2> HIDE DEF c
  <2>2. IsCooOf(c, n)
    BY <1>1, <1>2, <1>3, <2>1 DEF IsCooOf
  <2>3. QED
    BY <1>5, <2>2 DEF c
<1>6. QED
  BY <1>4, <1>5

LEMMA ToCooValues ==
    ASSUME IInv, IInv', VInv, ToCoo PROVE VInv'
<1>1. /\ UnderWay /\ Call = "to_coo" /\ step = "start" /\ Return("SUCCESS")
      /\ UNCHANGED <<file, copy>>
  BY DEF ToCoo, Calls, At, UnderWay, Call, KeepFiles
<1>2. UnderWay' /\ Program' = Program /\ <<Program, Call, Call'>> \in Succession
  BY <1>1, NextCall DEF IInv, Return
<1>3. Program = "bsp2mtx" /\ Call' = "mmwrite"
  BY <1>1, <1>2 DEF Succession
<1>4. /\ Accepts("read") /\ matrix.format = FormatRead /\ AsRead(matrix) /\ HasKeys(matrix)
      /\ Same(matrix, file.m)
  <2>1. Accepts("read") /\ matrix.format = FormatRead /\ AsRead(matrix) /\ HasKeys(matrix)
    BY <1>1, <1>3 DEF VInv, FillInv, Reader, IInv, HoldInv
  <2>2. QED
    BY <2>1, ReadFormat, AsReadIsSame DEF Ignored
<1>5. matrix.format = file.m.format /\ Formed(file.m)
  BY <1>4, ReadFormat DEF Accepts, Opens, VInv, FileFormed
<1>6. \/ faulted' /\ matrix' = DefaultMatrix
      \/ IsCooOf(matrix', file.m)
  <2>1. \/ matrix.format = "COO" /\ UNCHANGED matrix
        \/ matrix.format = "CSR" /\ ~BadRows(matrix) /\ matrix' = CooOf(matrix)
        \/ faulted' = TRUE /\ matrix' = DefaultMatrix
    BY DEF ToCoo
  <2>2. QED
    BY <1>4, <1>5, <2>1, ReadIsCoo
<1>7. Accepts("read")'
  BY <1>1, <1>4 DEF Accepts, Opens, Describes, Asserts, DescriptorError, Names
<1>8. WrittenInv'
  BY <1>1, <1>2, <1>3, <1>6, <1>7 DEF VInv, WrittenInv, Readable
<1>9. QED
  BY <1>1, <1>8, CopyingValues

\* What bsp_mmwrite writes denotes the matrix, if the one value it leaves out is 1.
LEMMA TextTypes ==
    ASSUME NEW m, TextType(m) # "none"
    PROVE  /\ TextType(m) \in {"pattern", "real", "complex", "integer"}
           /\ TextType(m) = "pattern" <=> m.is_iso
  BY DEF TextType

LEMMA WrittenIsText ==
    ASSUME NEW c, NEW m, IsCooOf(c, m), TextType(c) # "none"
    PROVE  IsTextOf(Written(c), m)
<1> DEFINE t == Written(c)
           n == c.nnz
           x(k) == IF c.is_iso THEN <<1, 0>> ELSE c.values.data[k]
<1>1. /\ t.format = "coordinate" /\ t.type = TextType(c) /\ n \in Nat
      /\ t.lines = [k \in 1 .. n |->
                      <<c.indices_0.data[k - 1] + 1, c.indices_1.data[k - 1] + 1,
                        IF c.is_iso THEN Unset ELSE c.values.data[k - 1]>>]
  BY DEF Written, IsCooOf
<1>2. Len(t.lines) = n
  BY <1>1
<1>3. TextType(c) = "pattern" <=> c.is_iso
  BY TextTypes
<1>4. \A k \in 1 .. n :
         <<t.lines[k][1] - 1, t.lines[k][2] - 1,
           IF t.type = "pattern" THEN <<1, 0>> ELSE t.lines[k][3]>>
         = <<c.indices_0.data[k - 1], c.indices_1.data[k - 1], x(k - 1)>>
  <2> TAKE k \in 1 .. n
  <2>1. k - 1 \in 0 .. n - 1
    BY <1>1
  <2>2. c.indices_0.data[k - 1] \in Int /\ c.indices_1.data[k - 1] \in Int
    BY <2>1 DEF IsCooOf
  <2>3. /\ t.lines[k][1] = c.indices_0.data[k - 1] + 1
        /\ t.lines[k][2] = c.indices_1.data[k - 1] + 1
        /\ t.lines[k][3] = IF c.is_iso THEN Unset ELSE c.values.data[k - 1]
    BY <1>1
  <2>4. t.lines[k][1] - 1 = c.indices_0.data[k - 1] /\ t.lines[k][2] - 1 = c.indices_1.data[k - 1]
    BY <2>2, <2>3
  <2>5. (IF t.type = "pattern" THEN <<1, 0>> ELSE t.lines[k][3]) = x(k - 1)
    BY <1>1, <1>3, <2>3
  <2>6. QED
    BY <2>4, <2>5
<1> HIDE DEF t
<1>5. TextEntries(t) = {<<c.indices_0.data[k - 1], c.indices_1.data[k - 1], x(k - 1)>> : k \in 1 .. n}
  <2>1. TextEntries(t) = {<<t.lines[k][1] - 1, t.lines[k][2] - 1,
                            IF t.type = "pattern" THEN <<1, 0>> ELSE t.lines[k][3]>> : k \in 1 .. n}
    BY <1>1, <1>2 DEF TextEntries
  <2> HIDE DEF x
  <2>2. QED
    BY <1>4, <2>1
<1>6. TextEntries(t) = {<<c.indices_0.data[k], c.indices_1.data[k], x(k)>> : k \in 0 .. n - 1}
  <2> DEFINE L == {<<c.indices_0.data[k - 1], c.indices_1.data[k - 1], x(k - 1)>> : k \in 1 .. n}
             R == {<<c.indices_0.data[k], c.indices_1.data[k], x(k)>> : k \in 0 .. n - 1}
  <2>1. ASSUME NEW e \in L PROVE e \in R
    <3>1. PICK k \in 1 .. n :
             e = <<c.indices_0.data[k - 1], c.indices_1.data[k - 1], x(k - 1)>>
      BY <2>1
    <3>2. k - 1 \in 0 .. n - 1
      BY <1>1
    <3>3. QED
      BY <3>1, <3>2
  <2>2. ASSUME NEW e \in R PROVE e \in L
    <3>1. PICK k \in 0 .. n - 1 : e = <<c.indices_0.data[k], c.indices_1.data[k], x(k)>>
      BY <2>2
    <3>2. k + 1 \in 1 .. n /\ (k + 1) - 1 = k
      BY <1>1
    <3>3. e = <<c.indices_0.data[(k + 1) - 1], c.indices_1.data[(k + 1) - 1], x((k + 1) - 1)>>
      BY <3>1, <3>2
    <3>4. QED
      BY <3>2, <3>3
  <2>3. QED
    BY <1>5, <2>1, <2>2
<1>7. Entries(m) = {<<c.indices_0.data[k], c.indices_1.data[k], ValueOf(c, k)>> : k \in 0 .. n - 1}
  BY DEF IsCooOf, Entries
<1>8. /\ ValueOf(m, 0) = ValueOf(c, 0) /\ m.nnz = n /\ m.is_iso = c.is_iso
      /\ c.is_iso \in BOOLEAN
  BY DEF IsCooOf, ValueOf
<1>9. CASE ~c.is_iso
  <2>1. \A k : x(k) = ValueOf(c, k)
    BY <1>9 DEF ValueOf
  <2>2. TextEntries(t) = Entries(m)
    BY <1>6, <1>7, <2>1
  <2>3. QED
    BY <1>8, <1>9, <2>2 DEF IsTextOf, t
<1>10. CASE c.is_iso
  <2>1. \A k : x(k) = <<1, 0>> /\ ValueOf(c, k) = ValueOf(c, 0)
    BY <1>10 DEF ValueOf
  <2>2. CASE n = 0
    <3>1. 0 .. n - 1 = {}
      BY <2>2
    <3>2. TextEntries(t) = Entries(m)
      BY <1>6, <1>7, <3>1
    <3>3. QED
      BY <1>8, <2>2, <3>2 DEF IsTextOf, t
  <2>3. CASE n > 0 /\ ValueOf(c, 0) = <<1, 0>>
    <3>1. TextEntries(t) = Entries(m)
      BY <1>6, <1>7, <2>1, <2>3
    <3>2. QED
      BY <1>8, <2>3, <3>1 DEF IsTextOf, t
  <2>4. CASE n > 0 /\ ValueOf(c, 0) # <<1, 0>>
    <3> DEFINE e == <<c.indices_0.data[0], c.indices_1.data[0], <<1, 0>>>>
    <3>1. e \in TextEntries(t)
      BY <1>1, <1>6, <2>1, <2>4
    <3>2. e \notin Entries(m)
      <4>1. ASSUME NEW k \in 0 .. n - 1
            PROVE  e # <<c.indices_0.data[k], c.indices_1.data[k], ValueOf(c, k)>>
        BY <2>1, <2>4
      <4>2. QED
        BY <1>7, <4>1
    <3>3. QED
      BY <1>8, <1>10, <2>4, <3>1, <3>2 DEF IsTextOf, t
  <2>5. QED
    BY <1>1, <2>2, <2>3, <2>4
<1>11. QED
  BY <1>8, <1>9, <1>10

LEMMA MmWriteValues ==
    ASSUME IInv, IInv', VInv, MmWrite PROVE VInv'
<1>1. /\ UnderWay /\ Call = "mmwrite" /\ step = "start" /\ Return("SUCCESS")
      /\ UNCHANGED file /\ copy' = Written(matrix) /\ TextType(matrix) # "none"
  BY DEF MmWrite, MmWrites, At, UnderWay, Call
<1>2. UnderWay' /\ Program' = Program /\ <<Program, Call, Call'>> \in Succession
  BY <1>1, NextCall DEF IInv, Return
<1>3. Program = "bsp2mtx" /\ Call' = "finish"
  BY <1>1, <1>2 DEF Succession
<1>4. IsCooOf(matrix, file.m)
  <2>1. TextType(DefaultMatrix) = "none"
    BY DEF TextType, DefaultMatrix, Absent, Indexes
  <2>2. QED
    BY <1>1, <1>3, <2>1 DEF VInv, WrittenInv
<1>5. IsTextOf(copy', file'.m)
  BY <1>1, <1>4, WrittenIsText
<1>6. matrix.nnz \in Nat
  BY <1>4 DEF IsCooOf
<1>7. /\ copy'.format = "coordinate" /\ copy'.type = TextType(matrix)
      /\ copy'.nnz = matrix.nnz /\ Len(copy'.lines) = matrix.nnz
  BY <1>1, <1>6 DEF Written
<1>8. Readable(copy)'
  BY <1>1, <1>7, TextTypes DEF Readable, TypeOf
<1>9. WrittenInv'
  BY <1>2, <1>3, <1>5, <1>6, <1>7, <1>8 DEF WrittenInv, IsTextOf, TextEntries, Entries
<1>10. QED
  BY <1>1, <1>9, CopyingValues

LEMMA MmWriteFailsValues ==
    ASSUME IInv, IInv', VInv, MmWriteFails PROVE VInv'
<1>1. UnderWay
  BY DEF MmWriteFails, At, UnderWay
<1>2. \/ Dies("abort", TRUE)
      \/ copy' = NoText /\ End("abort", FALSE) /\ UNCHANGED file
  BY DEF MmWriteFails
<1>3. ~NoText.valid
  BY DEF NoText
<1>4. QED
  BY <1>1, <1>2, <1>3, DeathValues, EndValues DEF Ends

--------------------------------------------------------------------------------
(* The session. *)

LEMMA TensorValues ==
    ASSUME IInv, IInv', VInv, TensorNext PROVE VInv'
<1>1. /\ UnderWay /\ Call \in TensorCalls /\ UNCHANGED <<input, file, copy>>
      /\ \/ Call # "tensor_finish" /\ Return("SUCCESS")
         \/ UNCHANGED <<todo, calls>>
         \/ \E how \in Ends : End(how, FALSE)
  BY TensorSteps
<1>2. Program = "tensor_test"
  BY <1>1, TensorUnderWay
<1>3. CASE \E how \in Ends : End(how, FALSE)
  BY <1>1, <1>3, EndValues
<1>4. ASSUME UnderWay', Program' = "tensor_test", Call' \in TensorCalls PROVE VInv'
  <2>1. FileFormed' /\ PointInv' /\ ShapeInv'
    BY <1>1, <1>4 DEF VInv, FileFormed, Formed, ValueTypes, Kept, ValueCount, PointInv,
       ShapeInv, TensorCalls
  <2>2. FillInv' /\ FirstInv' /\ WrittenInv'
    BY <1>1, <1>4 DEF VInv, FillInv, FirstInv, WrittenInv, Checks, Reads, TensorCalls, Readable
  <2>3. QED
    BY <2>1, <2>2 DEF VInv
<1>5. CASE Call # "tensor_finish" /\ Return("SUCCESS")
  <2>1. UnderWay' /\ Program' = Program /\ <<Program, Call, Call'>> \in Succession
    BY <1>1, <1>5, NextCall DEF IInv, Return, TensorCalls
  <2>2. Call' \in TensorCalls
    BY <1>2, <2>1 DEF Succession, TensorCalls
  <2>3. QED
    BY <1>2, <1>4, <2>1, <2>2
<1>6. CASE UNCHANGED <<todo, calls>>
  <2>1. UnderWay' /\ Program' = Program /\ Call' = Call
    BY <1>1, <1>6 DEF UnderWay, Program, Call
  <2>2. QED
    BY <1>1, <1>2, <1>4, <2>1
<1>7. QED
  BY <1>1, <1>3, <1>5, <1>6

LEMMA ValuesStay ==
    ASSUME VInv, UNCHANGED programVars PROVE VInv'
<1>1. UNCHANGED <<input, file, copy, todo, calls, step, matrix, first, live, faulted>>
  BY DEF programVars
<1>2. UNCHANGED <<UnderWay, Program, Call, Text>>
  BY <1>1 DEF UnderWay, Program, Call, Text
<1>3. FileFormed' /\ PointInv' /\ ShapeInv'
  BY <1>1, <1>2 DEF VInv, FileFormed, PointInv, ShapeInv, Sealed, Opens, Names, Readable, Formed,
     IsMatrix, HasKeys, Count, ValueTypes, Kept, ValueCount, RowsOfLines, LineRow
<1>4. \A c : Accepts(c) => Accepts(c)'
  BY <1>1 DEF Accepts, Opens, Describes, Asserts, DescriptorError, Names
<1>5. FillInv'
  BY <1>1, <1>2, <1>4 DEF VInv, FillInv, FormatRead, AsRead, Header0, Read0, Iso0, NamesNone
<1>6. \A m : MmreadResult(m, Text) => MmreadResult(m, Text)'
  BY <1>1, <1>2 DEF MmreadResult
<1>7. FirstInv'
  BY <1>1, <1>2, <1>6 DEF VInv, FirstInv
<1>8. WrittenInv'
  <2>1. UnderWay /\ Program = "bsp2mtx" /\ Call = "mmwrite" =>
           Accepts("read")' /\ ((faulted' /\ matrix' = DefaultMatrix) \/ IsCooOf(matrix', file'.m))
    BY <1>1, <1>4 DEF VInv, WrittenInv
  <2>2. UnderWay /\ Program = "bsp2mtx" /\ Call = "finish" => IsTextOf(copy', file'.m)
    BY <1>1 DEF VInv, WrittenInv
  <2>3. copy'.valid => /\ copy'.format = "coordinate" /\ Readable(copy')
                       /\ copy'.nnz \in Nat /\ Len(copy'.lines) = copy'.nnz
    BY <1>1 DEF VInv, WrittenInv
  <2>4. QED
    BY <1>2, <2>1, <2>2, <2>3 DEF WrittenInv
<1>9. QED
  BY <1>3, <1>5, <1>7, <1>8 DEF VInv

LEMMA NextValues ==
    ASSUME IInv, IInv', MmreadInv, ResultInv, VInv, [Next]_vars PROVE VInv'
<1>1. CASE MatrixNext
  <2>1. CASE Over
    BY <2>1, ValuesStay DEF Over
  <2>2. CASE CheckArguments \/ DeclampValues \/ MinimizeValues \/ Convert \/ WriteFile
             \/ WriteFileFails
    BY <2>2, CheckArgumentsValues, DeclampAndShape, MinimizeAndShape, ConvertAndShape,
       WriteAndShape, WriteFailsAndShape
  <2>3. CASE ConvertFails \/ Finish \/ Compare \/ ToCooFails \/ BspCheck
    BY <2>3, EndingValues DEF Ending
  <2>4. CASE KeepFirst \/ ToCoo \/ MmWrite \/ MmWriteFails \/ ReadNext \/ MmNext
    BY <2>4, KeepFirstValues, ToCooValues, MmWriteValues, MmWriteFailsValues, ReadNextValues,
       MmNextValues
  <2>5. QED
    BY <1>1, <2>1, <2>2, <2>3, <2>4 DEF MatrixNext
<1>2. CASE TensorNext
  BY <1>2, TensorValues
<1>3. CASE UNCHANGED vars
  BY <1>3, ValuesStay DEF vars
<1>4. QED
  BY <1>1, <1>2, <1>3 DEF Next

LEMMA InitValues == Init => VInv
<1> SUFFICES ASSUME Init PROVE VInv
  OBVIOUS
<1>1. IInv /\ step = "start" /\ file = input.file /\ copy = NoText
  BY InitIInv DEF Init
<1>2. ASSUME UnderWay
      PROVE  Program \in DOMAIN Script /\ Call = Script[Program][1] /\ Call \in FirstCalls
  <2>1. Program \in DOMAIN Script /\ calls = Script[Program]
    BY <1>1, <1>2, CallUnderWay DEF Init, Program, IInv
  <2>2. Call = Script[Program][1]
    BY <2>1, Scripts DEF Call
  <2>3. QED
    BY <2>1, <2>2, Scripts
<1>3. UnderWay /\ Program = "mtx2bsp" => Call = "metadata"
  BY <1>2 DEF Script
<1>4. UnderWay /\ Program \in Checks => Call = "mmread"
  BY <1>2 DEF Script, Checks
<1>5. FileFormed
  BY <1>1, StoredIsFormed, InputsAssumption DEF FileFormed, IInv, SessionInv, IsSession
<1>6. PointInv /\ ShapeInv
  BY <1>1, <1>2, <1>3 DEF PointInv, ShapeInv, FirstCalls
<1>7. FillInv /\ FirstInv /\ WrittenInv
  BY <1>1, <1>2, <1>4 DEF FillInv, FirstInv, WrittenInv, FirstCalls, Fields, Reads, NoText
<1>8. QED
  BY <1>5, <1>6, <1>7 DEF VInv

--------------------------------------------------------------------------------
(* What is said of the programs that have ended. *)

Deaths == {"abort", "crash", "undefined"}

\* The inputs that excuse the death of a program in which nothing else has failed.
Excused(program) ==
    LET t == input.text
    IN  CASE program = "mtx2bsp" ->
               UnreadableText(t) \/ EmptyIntegers(t) \/ Unconvertible(t, input.format)
          [] program \in {"check", "check_parallel"} ->
               \/ ~t.valid \/ UnreadableText(t)
               \/ t.format = "array" /\ file.exists /\ file.m.format # "DMATR"
               \/ DeadlyFile(program = "check_parallel")
          [] program = "bsp2mtx" ->
               DeadlyFile(FALSE) \/ (file.exists /\ file.m.structure \notin Structures)
          [] program = "check_copy" -> ~copy.valid \/ DeadlyFile(FALSE)
          [] program = "benchmark_read" -> DeadlyRead(FALSE)
          [] program = "benchmark_read_parallel" -> DeadlyRead(TRUE)
          [] OTHER -> FALSE

\* A verdict on the file, and on the one that mtx2bsp has made.
Accurate(how) ==
    how = "exit 0" /\ Complete(input.text) =>
        ReadAs(file.m, DeclampedText(input.text)) /\ ~HasNaN(input.text)
Recognised(how, clean) ==
    clean /\ Complete(input.text) /\ Comparable(input.text, file.m.format) => how = "exit 0"

\* What a program says as it ends.
Fair(program, how, clean) ==
    /\ clean /\ how \in Deaths /\ program # "tensor_test" => Excused(program)
    /\ program = "bsp2mtx" /\ how = "exit 0" => IsTextOf(copy, file.m)
    /\ program \in {"check", "check_parallel"} =>
          Accurate(how) /\ (Made(1) => Recognised(how, clean))
    /\ program = "mtx2bsp" /\ how = "exit 0" /\ clean => Sealed

JudgedInv ==
    \A k \in DOMAIN ended : Fair(ended[k].program, ended[k].how, ended[k].clean)

\* Only bsp2mtx changes what is said of a Matrix Market file made by it, and only
\* mtx2bsp what is said of the Binsparse file.
LEMMA FairStays ==
    ASSUME UNCHANGED <<input, file>>, NEW program, NEW how, NEW clean,
           Fair(program, how, clean), Made(1)' => Made(1) \/ program \notin {"check", "check_parallel"},
           UNCHANGED copy \/ program \notin {"bsp2mtx", "check_copy"}
    PROVE  Fair(program, how, clean)'
<1>1. DeadlyFile(TRUE)' = DeadlyFile(TRUE) /\ DeadlyFile(FALSE)' = DeadlyFile(FALSE)
  <2>1. \A parallel \in BOOLEAN : DeadlyFile(parallel)' = DeadlyFile(parallel)
    BY DEF DeadlyFile, DeadlyRead
  <2>2. QED
    BY <2>1
<1>2. (program \in {"check_copy"} => UNCHANGED copy) => Excused(program)' = Excused(program)
  <2>1. \A p : /\ DeadlyFile(p = "check_parallel")' = DeadlyFile(p = "check_parallel")
              /\ DeadlyRead(TRUE)' = DeadlyRead(TRUE) /\ DeadlyRead(FALSE)' = DeadlyRead(FALSE)
    BY DEF DeadlyFile, DeadlyRead
  <2>2. QED
    BY <1>1, <2>1 DEF Excused
<1>3. Sealed' = Sealed
  BY DEF Sealed, Opens, Names
<1>4. Accurate(how)' = Accurate(how) /\ Recognised(how, clean)' = Recognised(how, clean)
  BY DEF Accurate, Recognised
<1>5. program = "bsp2mtx" => IsTextOf(copy, file.m)' = IsTextOf(copy, file.m)
  BY DEF IsTextOf
<1>6. QED
  BY <1>2, <1>3, <1>4, <1>5 DEF Fair

\* While bsp2mtx runs, nothing has been said of its copy.
LEMMA CopiedOnce ==
    ASSUME SessionInv, UnderWay, Program = "bsp2mtx"
    PROVE  \A k \in DOMAIN ended : ended[k].program \notin {"bsp2mtx", "check_copy"}
<1> DEFINE m == Len(ended)
           n == Len(todo)
<1>1. /\ todo \in Seq(DOMAIN Script) /\ todo # <<>> /\ ended \in Seq(Endings)
      /\ m \in Nat /\ n \in Nat /\ n >= 1 /\ DOMAIN todo = 1 .. n /\ DOMAIN ended = 1 .. m
  BY EmptySeq, LenProperties DEF SessionInv, UnderWay
<1>2. todo[1] = "bsp2mtx"
  BY <1>1 DEF Program
<1>3. m + n = Len(input.programs)
  BY DEF SessionInv
<1>4. input.programs[m + 1] = "bsp2mtx" /\ m + 1 \in 1 .. Len(input.programs)
  BY <1>1, <1>2, <1>3 DEF SessionInv
<1>5. \A k \in DOMAIN ended : ended[k].program = input.programs[k]
  BY DEF SessionInv
<1>6. \A j, k \in 1 .. Len(input.programs) :
         j < k /\ input.programs[k] = "bsp2mtx" =>
            input.programs[j] \notin {"bsp2mtx", "check_copy"}
  BY InputsAssumption DEF SessionInv, IsSession
<1> HIDE DEF m, n
<1>7. ASSUME NEW k \in DOMAIN ended PROVE ended[k].program \notin {"bsp2mtx", "check_copy"}
  <2>1. k \in 1 .. Len(input.programs) /\ k < m + 1
    BY <1>1, <1>3
  <2>2. QED
    BY <1>4, <1>5, <1>6, <2>1
<1>8. QED
  BY <1>7

\* A program goes on.
LEMMA JudgedStays ==
    ASSUME IInv, JudgedInv, UNCHANGED <<input, ended>>,
           UNCHANGED file \/ ended = <<>>,
           UNCHANGED copy \/ (UnderWay /\ Program = "bsp2mtx")
    PROVE  JudgedInv'
<1>1. CASE ended = <<>>
  <2>1. DOMAIN ended' = {}
    BY <1>1
  <2>2. QED
    BY <2>1 DEF JudgedInv
<1>2. CASE UNCHANGED file
  <2>1. Made(1)' => Made(1)
    BY DEF Made
  <2>2. ASSUME NEW k \in DOMAIN ended'
        PROVE  Fair(ended[k].program, ended[k].how, ended[k].clean)'
    <3>1. k \in DOMAIN ended /\ ended'[k] = ended[k]
      BY <2>2
    <3>2. Fair(ended[k].program, ended[k].how, ended[k].clean)
      BY <3>1 DEF JudgedInv
    <3>3. UNCHANGED copy \/ ended[k].program \notin {"bsp2mtx", "check_copy"}
      BY <3>1, CopiedOnce DEF IInv
    <3> DEFINE p == ended[k].program
               h == ended[k].how
               c == ended[k].clean
    <3>4. p' = p /\ h' = h /\ c' = c
      BY <2>2
    <3>5. \A q, g, d : Fair(q, g, d) /\ (UNCHANGED copy \/ q \notin {"bsp2mtx", "check_copy"})
                       => Fair(q, g, d)'
      BY <1>2, <2>1, FairStays
    <3>6. QED
      BY <3>2, <3>3, <3>4, <3>5
  <2>3. QED
    BY <2>2 DEF JudgedInv
<1>3. QED
  BY <1>1, <1>2

LEMMA FirstEnded ==
    ASSUME SessionInv PROVE \A k \in DOMAIN ended : 1 \in DOMAIN ended
<1> DEFINE n == Len(ended)
<1>1. n \in Nat /\ DOMAIN ended = 1 .. n
  BY LenProperties DEF SessionInv
<1> HIDE DEF n
<1>2. QED
  BY <1>1

\* What excuses bsp2mtx is the file.
LEMMA CopyExcused ==
    ASSUME UNCHANGED <<input, file>>, NEW how, how # "exit 0", NEW clean,
           Fair("bsp2mtx", how, clean)
    PROVE  Fair("bsp2mtx", how, clean)'
<1>1. DeadlyFile(FALSE) => DeadlyFile(FALSE)'
  BY DEF DeadlyFile, DeadlyRead
<1>2. Excused("bsp2mtx") => Excused("bsp2mtx")'
  BY <1>1 DEF Excused
<1>3. QED
  BY <1>2 DEF Fair

\* A program ends as it should.
LEMMA EndJudged ==
    ASSUME IInv, IInv', JudgedInv, UnderWay, NEW how \in Ends, NEW failed \in BOOLEAN,
           End(how, failed), UNCHANGED file,
           UNCHANGED copy \/ (Program = "bsp2mtx" /\ how # "exit 0"),
           NEW clean \in BOOLEAN, clean = ~(faulted \/ failed), Fair(Program, how, clean)
    PROVE  JudgedInv'
<1>1. /\ UNCHANGED input
      /\ \A k \in DOMAIN ended' :
            \/ k \in DOMAIN ended /\ ended'[k] = ended[k]
            \/ ended'[k].program = Program /\ ended'[k].how = how /\ ended'[k].clean = clean
      /\ \A k \in DOMAIN ended : k \in DOMAIN ended' /\ ended'[k] = ended[k]
  <2> DEFINE c == ~(faulted \/ failed)
  <2>1. /\ UNCHANGED input
        /\ \A k \in DOMAIN ended' :
              \/ k \in DOMAIN ended /\ ended'[k] = ended[k]
              \/ /\ ended'[k].program = Program /\ ended'[k].how = how
                 /\ ended'[k].clean = c
        /\ \A k \in DOMAIN ended : k \in DOMAIN ended' /\ ended'[k] = ended[k]
    BY AfterEnd, Zenon
  <2>2. c = clean
    OBVIOUS
  <2> HIDE DEF c
  <2>3. QED
    BY <2>1, <2>2
<1>2. Made(1)' => Made(1) \/ Program = "mtx2bsp"
  BY <1>1 DEF Made
<1>3. \A k \in DOMAIN ended : 1 \in DOMAIN ended
  BY FirstEnded DEF IInv
<1>4. \A k \in DOMAIN ended : Made(1)' => Made(1)
  BY <1>1, <1>3 DEF Made
<1>5. \A q, g, d : /\ Fair(q, g, d)
                   /\ Made(1)' => Made(1) \/ q \notin {"check", "check_parallel"}
                   /\ UNCHANGED copy \/ q \notin {"bsp2mtx", "check_copy"}
                   => Fair(q, g, d)'
  BY <1>1, FairStays
<1>6. \A k \in DOMAIN ended : UNCHANGED copy \/ ended[k].program \notin {"bsp2mtx", "check_copy"}
  BY CopiedOnce DEF IInv
<1>7. Program = "bsp2mtx" /\ how # "exit 0" /\ Fair(Program, how, clean) =>
         Fair("bsp2mtx", how, clean)'
  BY <1>1, CopyExcused
<1>8. \A k \in DOMAIN ended' :
         \E q, g, d : /\ q = ended'[k].program /\ g = ended'[k].how /\ d = ended'[k].clean
                     /\ Fair(q, g, d)'
  <2> TAKE k \in DOMAIN ended'
  <2>1. CASE k \in DOMAIN ended /\ ended'[k] = ended[k]
    <3>1. Fair(ended[k].program, ended[k].how, ended[k].clean)
      BY <2>1 DEF JudgedInv
    <3>2. QED
      BY <1>4, <1>5, <1>6, <2>1, <3>1
  <2>2. CASE ended'[k].program = Program /\ ended'[k].how = how /\ ended'[k].clean = clean
    <3>1. CASE UNCHANGED copy
      BY <1>2, <1>5, <2>2, <3>1
    <3>2. CASE Program = "bsp2mtx" /\ how # "exit 0"
      BY <1>7, <2>2, <3>2
    <3>3. QED
      BY <3>1, <3>2
  <2>3. QED
    BY <1>1, <2>1, <2>2
<1>9. QED
  BY <1>8 DEF JudgedInv

--------------------------------------------------------------------------------
(* The deaths of programs. *)

\* A program that does not exit with 0.
LEMMA DeathJudged ==
    ASSUME IInv, IInv', JudgedInv, UnderWay, NEW how \in Ends \ {"exit 0"},
           NEW failed \in BOOLEAN, End(how, failed), UNCHANGED file,
           UNCHANGED copy \/ Program = "bsp2mtx",
           ~faulted /\ ~failed /\ how \in Deaths /\ Program # "tensor_test" => Excused(Program),
           ~(/\ ~faulted /\ ~failed /\ Program \in {"check", "check_parallel"} /\ Made(1)
             /\ Complete(input.text) /\ Comparable(input.text, file.m.format))
    PROVE  JudgedInv'
<1>1. ASSUME NEW clean \in BOOLEAN, clean => ~faulted /\ ~failed
      PROVE  Fair(Program, how, clean)
  BY <1>1 DEF Fair, Accurate, Recognised
<1>2. PICK clean \in BOOLEAN : clean = ~(faulted \/ failed)
  OBVIOUS
<1>3. Fair(Program, how, clean)
  BY <1>1, <1>2
<1>4. QED
  BY <1>2, <1>3, EndJudged

\* A program that does.
LEMMA ExitJudged ==
    ASSUME IInv, IInv', JudgedInv, UnderWay, NEW failed \in BOOLEAN, Dies("exit 0", failed),
           Program = "bsp2mtx" => IsTextOf(copy, file.m),
           Program \in {"check", "check_parallel"} => Accurate("exit 0"),
           Program = "mtx2bsp" /\ ~faulted /\ ~failed => Sealed
    PROVE  JudgedInv'
<1>1. ASSUME NEW clean \in BOOLEAN, clean => ~faulted /\ ~failed
      PROVE  Fair(Program, "exit 0", clean)
  BY <1>1 DEF Fair, Deaths, Recognised
<1>2. PICK clean \in BOOLEAN : clean = ~(faulted \/ failed)
  OBVIOUS
<1>3. Fair(Program, "exit 0", clean)
  BY <1>1, <1>2
<1>4. "exit 0" \in Ends /\ End("exit 0", failed) /\ UNCHANGED <<file, copy>>
  BY DEF Ends, Dies
<1>5. QED
  BY <1>2, <1>3, <1>4, EndJudged

\* What bsp_mmread dies of by itself is not a complete text.
MmDeadly(t) == t.valid /\ UnreadableText(t) /\ ~(Complete(t) /\ Readable(t))

LEMMA MmDeathJudged ==
    ASSUME IInv, IInv', VInv, MadeInv, JudgedInv, UnderWay, Call = "mmread",
           NEW how \in Deaths, NEW failed \in BOOLEAN, Dies(how, failed),
           failed \/ MmDeadly(Text)
    PROVE  JudgedInv'
<1>1. Program \in {"mtx2bsp", "check", "check_parallel", "check_copy"}
  BY CallUnderWay DEF IInv, Succession, Final
<1>2. how \in Ends \ {"exit 0"} /\ End(how, failed) /\ UNCHANGED <<file, copy>>
  BY DEF Deaths, Ends, Dies
<1>3. CASE Program = "check_copy"
  <2>1. Text = copy
    BY <1>3 DEF Text, Program
  <2>2. copy.valid => Readable(copy) /\ copy.format = "coordinate" /\ Len(copy.lines) = copy.nnz
    BY DEF VInv, WrittenInv
  <2>3. failed
    BY <2>1, <2>2 DEF MmDeadly, UnreadableText
  <2>4. QED
    BY <1>2, <1>3, <2>3, DeathJudged
<1>4. CASE Program # "check_copy"
  <2>1. Text = input.text
    BY <1>4 DEF Text, Program
  <2>2. ~failed => UnreadableText(input.text) /\ ~(Complete(input.text) /\ Readable(input.text))
    BY <2>1 DEF MmDeadly
  <2>3. Made(1) /\ Complete(input.text) => Readable(input.text)
    BY DEF MadeInv, Made, Origin
  <2>4. ~failed => Excused(Program)
    BY <1>1, <1>4, <2>2 DEF Excused
  <2>5. QED
    BY <1>2, <2>2, <2>3, <2>4, DeathJudged
<1>5. QED
  BY <1>3, <1>4

\* A step of bsp_mmread that goes on or returns.
LEMMA MmGoesJudged ==
    ASSUME IInv, JudgedInv, (\E r : Go(r)) \/ (\E m : Returned(m)) PROVE JudgedInv'
<1>1. UNCHANGED <<input, ended, file, copy>>
  BY DEF Go, Returned, Return
<1>2. QED
  BY <1>1, JudgedStays

\* The lines of a dense text fill its array, if they are as many as announced.
LEMMA LinesFill ==
    ASSUME NEW t, t.nrows \in Nat, t.ncols \in Nat, t.nnz \in Nat, Len(t.lines) = t.nnz,
           t.nnz = t.nrows * t.ncols
    PROVE  {Place(t, c) : c \in 0 .. Len(t.lines) - 1} = 0 .. t.nnz - 1
<1>1. CASE t.nnz = 0
  BY <1>1
<1>2. CASE t.nnz # 0
  <2>1. t.nrows # 0 /\ t.ncols # 0
    <3>1. \A x \in Nat : 0 * x = 0 /\ x * 0 = 0
      OBVIOUS
    <3>2. QED
      BY <1>2, <3>1
  <2>2. IsDense(t)
    BY <2>1 DEF IsDense
  <2>3. \A c \in 0 .. t.nnz - 1 : Place(t, c) \in 0 .. t.nnz - 1
    BY <2>2, PlaceFacts
  <2>4. \A k \in 0 .. t.nnz - 1 : \E c \in 0 .. t.nnz - 1 : Place(t, c) = k
    BY <2>2, PlaceOnto
  <2>5. QED
    BY <2>3, <2>4
<1>3. QED
  BY <1>1, <1>2

LEMMA MmHeaderJudged ==
    ASSUME IInv, IInv', VInv, MadeInv, JudgedInv, MmHeader \/ MmHeaderFails PROVE JudgedInv'
<1>1. UnderWay /\ Call = "mmread"
  BY MmUnderWay DEF MmHeader, MmHeaderFails
<1>2. CASE Text.valid /\ ~Readable(Text) /\ Dies("abort", FALSE)
  BY <1>1, <1>2, MmDeathJudged DEF MmDeadly, UnreadableText, Deaths
<1>3. CASE Dies("abort", TRUE)
  BY <1>1, <1>3, MmDeathJudged DEF Deaths
<1>4. CASE (\E r : Go(r)) \/ (\E m : Returned(m))
  BY <1>4, MmGoesJudged
<1>5. QED
  BY <1>2, <1>3, <1>4 DEF MmHeader, MmHeaderFails

LEMMA MmLinesJudged ==
    ASSUME IInv, IInv', MmreadInv, VInv, MadeInv, JudgedInv, MmLines PROVE JudgedInv'
<1>1. Mm("lines") /\ UnderWay /\ Call = "mmread"
  BY MmUnderWay DEF MmLines
<1>2. Text.valid
  BY <1>1 DEF MmreadInv, Mm, At
<1>3. CASE Len(Text.lines) # Text.nnz /\ Dies("undefined", FALSE)
  <2>1. MmDeadly(Text)
    BY <1>2, <1>3 DEF MmDeadly, UnreadableText, Complete
  <2>2. QED
    BY <1>1, <1>3, <2>1, MmDeathJudged DEF Deaths
<1>4. CASE Go("sort")
  BY <1>4, MmGoesJudged
<1>5. QED
  BY <1>3, <1>4 DEF MmLines

LEMMA MmArrayLinesJudged ==
    ASSUME IInv, IInv', MmreadInv, VInv, MadeInv, JudgedInv, MmArrayLines PROVE JudgedInv'
<1> DEFINE t == Text
           places == {Place(t, c) : c \in 0 .. Len(t.lines) - 1}
<1>1. Mm("lines") /\ UnderWay /\ Call = "mmread" /\ t.format = "array"
  BY MmUnderWay DEF MmArrayLines
<1>2. t.valid
  BY <1>1 DEF MmreadInv, Mm, At
<1>3. t = input.text /\ t.lines \in Lines /\ t.nrows \in Nat /\ t.ncols \in Nat /\ t.nnz \in Nat
  <2>1. t = copy \/ t = input.text
    BY DEF Text
  <2>2. copy.valid => copy.format = "coordinate"
    BY DEF VInv, WrittenInv
  <2>3. t = input.text
    BY <1>1, <1>2, <2>1, <2>2
  <2>4. IsText(input.text)
    BY InputsAssumption DEF IInv, SessionInv, IsSession
  <2>5. QED
    BY <1>2, <2>3, <2>4, TextNumbers DEF IsText, Lines
<1>4. CASE t.lines # <<>> /\ t.ncols = 0 /\ Dies("crash", FALSE)
  <2>1. Len(t.lines) # 0
    BY <1>3, <1>4, EmptySeq DEF Lines
  <2>2. t.nrows * t.ncols = 0
    <3>1. \A x \in Nat : x * 0 = 0
      OBVIOUS
    <3>2. QED
      BY <1>3, <1>4, <3>1
  <2>3. MmDeadly(t)
    BY <1>1, <1>2, <1>4, <2>1, <2>2 DEF MmDeadly, UnreadableText, Complete
  <2>4. QED
    BY <1>1, <1>4, <2>3, MmDeathJudged DEF Deaths
<1>5. CASE places # 0 .. t.nnz - 1 /\ Dies("undefined", FALSE)
  <2>1. ~(Len(t.lines) = t.nnz /\ t.nnz = t.nrows * t.ncols)
    BY <1>3, <1>5, LinesFill
  <2>2. MmDeadly(t)
    BY <1>1, <1>2, <2>1 DEF MmDeadly, UnreadableText, Complete
  <2>3. QED
    BY <1>1, <1>5, <2>2, MmDeathJudged DEF Deaths
<1>6. CASE \E m : Returned(m)
  BY <1>6, MmGoesJudged
<1>7. QED
  <2>1. \/ t.lines # <<>> /\ t.ncols = 0 /\ Dies("crash", FALSE)
        \/ places # 0 .. t.nnz - 1 /\ Dies("undefined", FALSE)
        \/ \E m : Returned(m)
    BY DEF MmArrayLines
  <2>2. QED
    BY <1>4, <1>5, <1>6, <2>1

LEMMA MmNextJudged ==
    ASSUME IInv, IInv', MmreadInv, VInv, MadeInv, JudgedInv, MmNext PROVE JudgedInv'
<1>1. CASE MmHeader \/ MmHeaderFails
  BY <1>1, MmHeaderJudged
<1>2. CASE MmLines
  BY <1>2, MmLinesJudged
<1>3. CASE MmArrayLines
  BY <1>3, MmArrayLinesJudged
<1>4. CASE MmOpenFails
  <2>1. UnderWay /\ Call = "mmread"
    BY <1>4, MmUnderWay DEF MmOpenFails
  <2>2. QED
    BY <1>4, <2>1, MmDeathJudged DEF MmOpenFails, Deaths
<1>5. CASE MmSortFails
  <2>1. UnderWay /\ Call = "mmread"
    BY <1>5, MmUnderWay DEF MmSortFails
  <2>2. QED
    BY <1>5, <2>1, MmDeathJudged DEF MmSortFails, Deaths
<1>6. CASE (\E r : Go(r)) \/ (\E m : Returned(m))
  BY <1>6, MmGoesJudged
<1>7. CASE MmOpen \/ MmSort
  BY <1>6, <1>7 DEF MmOpen, MmSort
<1>8. CASE MmPermute
  BY <1>6, <1>8 DEF MmPermute
<1>9. CASE \E f \in {"indices_0", "indices_1", "values"} : MmAllocate(f) \/ MmAllocateFails(f)
  BY <1>6, <1>9 DEF MmAllocate, MmAllocateFails
<1>10. CASE \E s \in Copies : MmCopy(s) \/ MmCopyFails(s)
  BY <1>6, <1>10 DEF MmCopy, MmCopyFails
<1>11. QED
  BY <1>1, <1>2, <1>3, <1>4, <1>5, <1>7, <1>8, <1>9, <1>10 DEF MmNext

--------------------------------------------------------------------------------
(* The ends of mtx2bsp. *)

LEMMA MakeDeathJudged ==
    ASSUME IInv, IInv', JudgedInv, NEW c \in MakeCalls, Calls(c), NEW how \in Ends \ {"exit 0"},
           NEW failed \in BOOLEAN, Dies(how, failed),
           ~faulted /\ ~failed /\ how \in Deaths => Excused("mtx2bsp")
    PROVE  JudgedInv'
<1>1. UnderWay /\ Program = "mtx2bsp"
  BY Making
<1>2. End(how, failed) /\ UNCHANGED <<file, copy>>
  BY DEF Dies
<1>3. QED
  BY <1>1, <1>2, DeathJudged

LEMMA MakeReturnsJudged ==
    ASSUME IInv, JudgedInv, NEW c \in MakeCalls, Calls(c), UNCHANGED <<input, ended, copy>>
    PROVE  JudgedInv'
  BY Making, JudgedStays

LEMMA CheckArgumentsJudged ==
    ASSUME IInv, IInv', JudgedInv, CheckArguments PROVE JudgedInv'
<1>1. "metadata" \in MakeCalls /\ Calls("metadata")
  BY DEF MakeCalls, CheckArguments
<1>2. CASE \E failed \in BOOLEAN : Dies("exit 1", failed)
  BY <1>1, <1>2, MakeDeathJudged DEF Ends, Deaths
<1>3. CASE Return("SUCCESS") /\ KeepFiles
  BY <1>1, <1>3, MakeReturnsJudged DEF Return, KeepFiles
<1>4. QED
  BY <1>2, <1>3 DEF CheckArguments

\* The first of no integers is read.
LEMMA MinimizeJudged ==
    ASSUME IInv, IInv', VInv, JudgedInv, MinimizeValues PROVE JudgedInv'
<1>1. "minimize" \in MakeCalls /\ Calls("minimize")
  BY DEF MakeCalls, MinimizeValues
<1>2. UnderWay /\ Program = "mtx2bsp" /\ Call = "minimize"
  BY <1>1, Making
<1>3. CASE matrix.values.type = "int_wide" /\ Size(matrix.values.data) = 0 /\ Dies("crash", FALSE)
  <2>1. ~faulted => Excused("mtx2bsp")
    <3>1. SUFFICES ASSUME ~faulted PROVE EmptyIntegers(input.text)
      BY DEF Excused
    <3>2. /\ input.text.valid
          /\ TypeOf[input.text.type] = "int_wide"
          /\ DOMAIN matrix.values.data = 0 .. Count(input.text, "values") - 1
          /\ Readable(input.text)
      BY <1>2, <1>3, <3>1 DEF VInv, ShapeInv
    <3>3. input.text.type = "integer"
      BY <3>2 DEF TypeOf, Readable
    <3>4. input.text.nnz \in Nat
      <4>1. IsText(input.text)
        BY InputsAssumption DEF IInv, SessionInv, IsSession
      <4>2. QED
        BY <3>2, <4>1, TextNumbers
    <3>5. DOMAIN matrix.values.data = 0 .. input.text.nnz - 1
      BY <3>2, <3>3 DEF Count
    <3>6. input.text.nnz = 0
      <4>1. Size(matrix.values.data) = input.text.nnz
        BY <3>4, <3>5, FS_Interval DEF Size
      <4>2. QED
        BY <1>3, <4>1
    <3>7. QED
      BY <3>2, <3>3, <3>6 DEF EmptyIntegers
  <2>2. QED
    BY <1>1, <1>3, <2>1, MakeDeathJudged DEF Ends, Deaths
<1>4. CASE Return("SUCCESS") /\ KeepFiles
  BY <1>1, <1>4, MakeReturnsJudged DEF Return, KeepFiles
<1>5. QED
  BY <1>3, <1>4 DEF MinimizeValues

\* What mtx2bsp converts, writes or destroys is whole, while nothing has failed.
LEMMA MakesSound ==
    ASSUME IInv, VInv, NEW c \in {"convert", "write", "finish"}, Calls(c), UnderWay,
           Program = "mtx2bsp", ~faulted
    PROVE  Pointed(matrix) \subseteq live /\ (c # "finish" => Sound /\ Formed(matrix))
<1>1. Call = c
  BY DEF Calls, At, Call
<1>2. Pointed(matrix) \subseteq live
  BY <1>1 DEF VInv, PointInv
<1>3. c # "finish" => Formed(matrix)
  BY <1>1 DEF VInv, ShapeInv
<1>4. QED
  BY <1>2, <1>3 DEF Sound, Formed

LEMMA ConvertFailsJudged ==
    ASSUME IInv, IInv', VInv, JudgedInv, ConvertFails PROVE JudgedInv'
<1>1. "convert" \in MakeCalls /\ Calls("convert") /\ input.format # "COOR"
  BY DEF MakeCalls, ConvertFails
<1>2. UnderWay /\ Program = "mtx2bsp" /\ Call = "convert"
  BY <1>1, Making
<1>3. CASE ~Sound /\ Dies("undefined", FALSE)
  <2>1. faulted
    BY <1>1, <1>2, <1>3, MakesSound DEF IInv, StateInv
  <2>2. QED
    BY <1>1, <1>3, <2>1, MakeDeathJudged DEF Ends
<1>4. CASE /\ Sound /\ Dies("abort", FALSE)
           /\ input.format = "CSR" /\ matrix.format = "COO" => RowBeyond(matrix)
  <2>1. ~faulted => Excused("mtx2bsp")
    <3>1. SUFFICES ASSUME ~faulted PROVE Unconvertible(input.text, input.format)
      BY DEF Excused
    <3>2. /\ input.text.valid /\ input.format # "invalid"
          /\ Readable(input.text)
          /\ matrix.format = "COO" <=> input.text.format = "coordinate"
          /\ input.text.format = "coordinate" => RowsOfLines(matrix, input.text)
      BY <1>2, <3>1 DEF VInv, ShapeInv
    <3>3. input.format \in {"COOR", "CSR", "DMATR", "invalid"}
      BY InputsAssumption DEF IInv, SessionInv, IsSession
    <3>5. ASSUME matrix.format = "COO", RowBeyond(matrix) PROVE RowOutside(input.text)
      <4>1. matrix.nrows = input.text.nrows
        BY <3>2, <3>5 DEF RowsOfLines
      <4>2. QED
        BY <3>2, <3>5, <4>1 DEF RowBeyond, RowOutside, RowsOfLines, LineRow, IndexType
    <3>4. QED
      BY <1>1, <1>4, <3>2, <3>3, <3>5 DEF Unconvertible, Readable
  <2>2. QED
    BY <1>1, <1>4, <2>1, MakeDeathJudged DEF Ends
<1>5. QED
  BY <1>3, <1>4 DEF ConvertFails

LEMMA WriteFileFailsJudged ==
    ASSUME IInv, IInv', VInv, JudgedInv, WriteFileFails PROVE JudgedInv'
<1>1. "write" \in MakeCalls /\ Calls("write")
  BY DEF MakeCalls, WriteFileFails
<1>2. UnderWay /\ Program = "mtx2bsp"
  BY <1>1, Making
<1>3. CASE ~Sound /\ Dies("undefined", FALSE)
  <2>1. faulted
    BY <1>1, <1>2, <1>3, MakesSound DEF IInv, StateInv
  <2>2. QED
    BY <1>1, <1>3, <2>1, MakeDeathJudged DEF Ends
<1>4. CASE Return("IO") /\ UNCHANGED copy
  BY <1>1, <1>4, MakeReturnsJudged DEF Return
<1>5. QED
  BY <1>3, <1>4 DEF WriteFileFails

--------------------------------------------------------------------------------
(* The ends of the other programs. *)

\* A whole file of this version both readers accept.
LEMMA SealedAccepted ==
    ASSUME Sealed PROVE \A call : Accepts(call) /\ ~Asserts(call) /\ ~Crashes(call)
<1>1. file.flaw = "none" /\ Opens /\ Names \subseteq file.datasets /\ file.version = Supported
  BY DEF Sealed
<1>2. VersionError(file.version) = "SUCCESS"
  BY <1>1 DEF VersionError, Compatible, Supported
<1>3. \A call : ~Asserts(call) /\ DescriptorError(Ignored(call)) = "SUCCESS"
  BY <1>1, <1>2 DEF Asserts, Asserted, DescriptorError, Early, Refused
<1>5. \A call : Accepts(call)
  BY <1>1, <1>3 DEF Accepts, Describes
<1>4. QED
  BY <1>3, <1>5, Accepted

LEMMA MadeIsSealed ==
    ASSUME JudgedInv, Made(1) PROVE Sealed
<1>1. 1 \in DOMAIN ended /\ ended[1].program = "mtx2bsp" /\ ended[1].how = "exit 0" /\ ended[1].clean
  BY DEF Made
<1>2. Fair(ended[1].program, ended[1].how, ended[1].clean)
  BY <1>1 DEF JudgedInv
<1>3. QED
  BY <1>1, <1>2 DEF Fair

LEMMA FinishJudged ==
    ASSUME IInv, IInv', VInv, JudgedInv, Finish PROVE JudgedInv'
<1>1. UnderWay /\ Call = "finish" /\ Calls("finish")
  BY DEF Finish, Calls, At, UnderWay, Call
<1>2. Program \in {"mtx2bsp", "bsp2mtx"} \cup Benchmarks
  BY <1>1, CallUnderWay DEF IInv, Succession, Final, Benchmarks
<1>3. ~faulted => Pointed(matrix) \subseteq live
  <2>1. Program = "mtx2bsp" /\ ~faulted => Pointed(matrix) \subseteq live
    BY <1>1, MakesSound
  <2>2. Program # "mtx2bsp" /\ ~faulted => Pointed(matrix) \subseteq live
    BY <1>1, <1>2 DEF IInv, HoldInv
  <2>3. QED
    BY <2>1, <2>2
<1>4. CASE Pointed(matrix) \subseteq live
  <2>1. Dies("exit 0", FALSE)
    BY <1>4 DEF Finish
  <2>2. Program = "bsp2mtx" => IsTextOf(copy, file.m)
    BY <1>1 DEF VInv, WrittenInv
  <2>3. Program = "mtx2bsp" /\ ~faulted => Sealed
    BY <1>1 DEF VInv, ShapeInv
  <2>4. Program \notin {"check", "check_parallel"}
    BY <1>2 DEF Benchmarks
  <2>5. QED
    BY <1>1, <2>1, <2>2, <2>3, <2>4, ExitJudged
<1>5. CASE ~(Pointed(matrix) \subseteq live)
  <2>1. Dies("undefined", FALSE)
    BY <1>5 DEF Finish
  <2>2. faulted
    BY <1>3, <1>5 DEF IInv, StateInv
  <2>3. "undefined" \in Ends \ {"exit 0"} /\ End("undefined", FALSE) /\ UNCHANGED <<file, copy>>
    BY <2>1 DEF Ends, Dies
  <2>4. QED
    BY <1>1, <2>2, <2>3, DeathJudged
<1>6. QED
  BY <1>4, <1>5

\* What is known of a read that has returned.
LEMMA FileRead ==
    ASSUME IInv, VInv, UnderWay, Call \in {"to_coo", "compare"}
    PROVE  /\ Accepts(Reader(Program)) /\ Opens
           /\ matrix.format = FormatRead /\ AsRead(matrix) /\ HasKeys(matrix)
           /\ Formed(file.m)
           /\ file.flaw \notin {"unknown_format", "nnz_type", "data_types_type"} =>
                 /\ matrix.format = file.m.format /\ Same(matrix, file.m)
                 /\ Formed(matrix) /\ (BadRows(matrix) <=> BadRows(file.m))
<1>1. /\ Accepts(Reader(Program)) /\ Opens
      /\ matrix.format = FormatRead /\ AsRead(matrix) /\ HasKeys(matrix)
  BY DEF VInv, FillInv, IInv, HoldInv, Accepts
<1>2. Formed(file.m)
  BY <1>1 DEF VInv, FileFormed, Opens
<1>3. ASSUME file.flaw \notin {"unknown_format", "nnz_type", "data_types_type"}
      PROVE  /\ matrix.format = file.m.format /\ Same(matrix, file.m)
             /\ Formed(matrix) /\ (BadRows(matrix) <=> BadRows(file.m))
  <2>1. matrix.format = file.m.format /\ Same(matrix, file.m)
    BY <1>1, <1>3, AsReadIsSame DEF FormatRead
  <2>2. QED
    BY <1>2, <2>1, SameMatrix
<1>4. QED
  BY <1>1, <1>2, <1>3

LEMMA ToCooFailsJudged ==
    ASSUME IInv, IInv', VInv, JudgedInv, ToCooFails PROVE JudgedInv'
<1>1. UnderWay /\ Call = "to_coo" /\ UNCHANGED <<file, copy>>
  BY DEF ToCooFails, Calls, At, UnderWay, Call, Dies
<1>2. Program = "bsp2mtx"
  BY <1>1, CallUnderWay DEF IInv, Succession, Final
<1>3. /\ Opens /\ matrix.format = file.m.format /\ Formed(file.m)
      /\ BadRows(matrix) <=> BadRows(file.m)
  <2>1. Reader(Program) = "read"
    BY <1>2 DEF Reader
  <2>2. file.flaw \notin {"unknown_format", "nnz_type", "data_types_type"}
    BY <1>1, <2>1, FileRead, ReadFormat
  <2>3. QED
    BY <1>1, <2>2, FileRead
<1>4. file.m.format \in {"COO", "CSR", "DMATR"}
  BY <1>3 DEF Formed
<1>5. DeadlyFile(FALSE)
  BY <1>3, <1>4 DEF DeadlyFile, ToCooFails, Opens
<1>6. Excused(Program)
  BY <1>2, <1>5 DEF Excused
<1>7. PICK how \in {"abort", "undefined"} : Dies(how, FALSE)
  BY DEF ToCooFails
<1>8. how \in Ends \ {"exit 0"} /\ End(how, FALSE)
  BY <1>7 DEF Ends, Dies
<1>9. QED
  BY <1>1, <1>2, <1>6, <1>8, DeathJudged

LEMMA MmWriteFailsJudged ==
    ASSUME IInv, IInv', VInv, JudgedInv, MmWriteFails PROVE JudgedInv'
<1>1. UnderWay /\ Call = "mmwrite"
  BY DEF MmWriteFails, At, UnderWay, Call
<1>2. Program = "bsp2mtx"
  BY <1>1, CallUnderWay DEF IInv, Succession, Final
<1>3. CASE Dies("abort", TRUE)
  <2>1. "abort" \in Ends \ {"exit 0"} /\ End("abort", TRUE) /\ UNCHANGED <<file, copy>>
    BY <1>3 DEF Ends, Dies
  <2>2. QED
    BY <1>1, <1>2, <2>1, DeathJudged
<1>4. CASE ~MmWrites /\ End("abort", FALSE) /\ UNCHANGED file
  <2>1. ~faulted => file.exists /\ file.m.structure \notin Structures
    <3>1. SUFFICES ASSUME ~faulted PROVE file.exists /\ file.m.structure \notin Structures
      OBVIOUS
    <3>2. Accepts("read") /\ IsCooOf(matrix, file.m)
      BY <1>1, <1>2, <3>1 DEF VInv, WrittenInv
    <3>3. Opens /\ Formed(file.m)
      BY <3>2 DEF Accepts, VInv, FileFormed, Opens
    <3>4. matrix.structure = file.m.structure /\ matrix.values.type \in ValueTypes
      BY <3>2, <3>3 DEF IsCooOf, Formed
    <3>5. TextType(matrix) # "none"
      BY <3>4 DEF TextType, ValueTypes, FloatTypes
    <3>6. file.m.structure \notin Structures
      BY <1>4, <3>4, <3>5 DEF MmWrites
    <3>7. QED
      BY <3>3, <3>6 DEF Opens
  <2>2. ~faulted => Excused(Program)
    BY <1>2, <2>1 DEF Excused
  <2>3. "abort" \in Ends \ {"exit 0"}
    BY DEF Ends
  <2>4. QED
    BY <1>1, <1>2, <1>4, <2>2, <2>3, DeathJudged
<1>5. QED
  BY <1>3, <1>4 DEF MmWriteFails

\* No reader refuses a file that mtx2bsp has made.
LEMMA BspCheckJudged ==
    ASSUME IInv, IInv', JudgedInv, BspCheck PROVE JudgedInv'
<1>1. UnderWay /\ step \in Errors /\ Dies("BSP_CHECK", FALSE)
  BY DEF BspCheck, UnderWay
<1>2. Call \in {"read", "read_parallel", "write"}
  BY <1>1 DEF IInv, StateInv
<1>3. Program \in {"check", "check_parallel"} => Call \in Reads
  BY <1>1, <1>2, CallUnderWay DEF IInv, Succession, Final, Reads
<1>4. ~(~faulted /\ Program \in {"check", "check_parallel"} /\ Made(1))
  <2>1. SUFFICES ASSUME ~faulted, Program \in {"check", "check_parallel"}, Made(1) PROVE FALSE
    OBVIOUS
  <2>2. ~Accepts(Call)
    BY <1>1, <1>3, <2>1 DEF IInv, ReadInv, ErrorInv, Refuses
  <2>3. QED
    BY <2>1, <2>2, MadeIsSealed, SealedAccepted
<1>5. "BSP_CHECK" \in Ends \ {"exit 0"} /\ "BSP_CHECK" \notin Deaths
  BY DEF Ends, Deaths
<1>6. End("BSP_CHECK", FALSE) /\ UNCHANGED <<file, copy>>
  BY <1>1 DEF Dies
<1>7. QED
  BY <1>1, <1>4, <1>5, <1>6, DeathJudged

LEMMA ReadAssertsJudged ==
    ASSUME IInv, IInv', JudgedInv, ReadAsserts PROVE JudgedInv'
<1>1. UnderWay /\ Call \in Reads /\ Opens /\ Asserts(Call)
  BY ReadUnderWay, Assertions DEF ReadAsserts
<1>2. Call = "read_parallel" /\ file.flaw \in Asserted
  BY <1>1 DEF Asserts
<1>3. Program \in {"check_parallel", "benchmark_read_parallel"}
  BY <1>1, <1>2, CallUnderWay DEF IInv, Succession, Final
<1>4. DeadlyRead(TRUE)
  BY <1>1, <1>2 DEF DeadlyRead, Opens
<1>5. Excused(Program)
  BY <1>3, <1>4 DEF Excused, DeadlyFile
<1>6. ~Made(1)
  BY <1>1, MadeIsSealed, SealedAccepted
<1>7. "abort" \in Ends \ {"exit 0"} /\ End("abort", FALSE) /\ UNCHANGED <<file, copy>>
  BY DEF Ends, Dies, ReadAsserts
<1>8. QED
  BY <1>1, <1>5, <1>6, <1>7, DeathJudged

\* Every program that reads may crash on a string that is none.
LEMMA ReadCrashesJudged ==
    ASSUME IInv, IInv', JudgedInv, ReadCrashes PROVE JudgedInv'
<1>1. /\ UnderWay /\ Call \in Reads /\ Opens
      /\ file.flaw \in {"format_type", "values_type", "structure_type"}
      /\ file.flaw = "format_type" => Call = "read_parallel"
  <2>1. CASE Reading("descriptor") /\ FormatCrashes
    BY <2>1, ReadUnderWay, Assertions
  <2>2. CASE Reading("values") /\ file.flaw = "values_type"
    <3>1. "values" \in Fields
      BY DEF Fields
    <3>2. QED
      BY <2>2, <3>1, ReadUnderWay DEF ReadingInv
  <2>3. CASE Reading("structure") /\ file.flaw = "structure_type"
    BY <2>3, ReadUnderWay DEF ReadingInv
  <2>4. QED
    BY <2>1, <2>2, <2>3 DEF ReadCrashes
<1>2. /\ Call = "read" => Program \in {"check", "check_copy", "bsp2mtx", "benchmark_read"}
      /\ Call = "read_parallel" => Program \in {"check_parallel", "benchmark_read_parallel"}
  BY <1>1, CallUnderWay DEF IInv, Succession, Final, Reads
<1>3. Call = "read" => DeadlyRead(FALSE)
  BY <1>1 DEF DeadlyRead, Opens
<1>4. Call = "read_parallel" => DeadlyRead(TRUE)
  BY <1>1 DEF DeadlyRead, Opens
<1>5. Excused(Program)
  BY <1>1, <1>2, <1>3, <1>4 DEF Excused, DeadlyFile, Reads
<1>6. ~Made(1)
  BY <1>1, MadeIsSealed DEF Sealed
<1>7. "crash" \in Ends \ {"exit 0"} /\ End("crash", FALSE) /\ UNCHANGED <<file, copy>>
  BY DEF Ends, Dies, ReadCrashes
<1>8. QED
  BY <1>1, <1>5, <1>6, <1>7, DeathJudged

LEMMA TensorJudged ==
    ASSUME IInv, IInv', JudgedInv, TensorNext PROVE JudgedInv'
<1>1. /\ UnderWay /\ Call \in TensorCalls /\ UNCHANGED <<input, file, copy>>
      /\ \/ UNCHANGED ended
         \/ \E how \in Ends : End(how, FALSE)
  BY TensorSteps DEF Return
<1>2. Program = "tensor_test"
  BY <1>1, TensorUnderWay
<1>3. CASE UNCHANGED ended
  BY <1>1, <1>3, JudgedStays
<1>4. CASE \E how \in Ends : End(how, FALSE)
  <2>1. PICK how \in Ends : End(how, FALSE)
    BY <1>4
  <2>2. \A clean \in BOOLEAN : Fair(Program, how, clean)
    BY <1>2 DEF Fair
  <2>3. PICK clean \in BOOLEAN : clean = ~(faulted \/ FALSE)
    OBVIOUS
  <2>4. QED
    BY <1>1, <2>1, <2>2, <2>3, EndJudged
<1>5. QED
  BY <1>1, <1>3, <1>4

--------------------------------------------------------------------------------
(* The comparison. *)

Verdicts == {"undefined", "abort", "exit 0", "exit 1"}

Comparing == UnderWay /\ Call = "compare"

\* The programs that compare, and what they do.
LEMMA Comparers ==
    ASSUME IInv, VInv, Comparing
    PROVE  /\ Program \in Checks
           /\ Text = IF Program = "check_copy" THEN copy ELSE input.text
           /\ Program # "check_parallel" =>
                 file.flaw \notin {"unknown_format", "nnz_type", "data_types_type"}
           /\ FormatRead # file.m.format => file.flaw = "unknown_format" /\ FormatRead = "unknown"
           /\ \/ first.format = "junk" /\ (faulted \/ ~Text.valid)
              \/ \E m : first = Declamped(m) /\ MmreadResult(m, Text)
<1>1. Program \in Checks
  BY CallUnderWay DEF IInv, Succession, Final, Comparing, Checks
<1>2. Text = IF Program = "check_copy" THEN copy ELSE input.text
  BY DEF Text, Program
<1>3. Program # "check_parallel" =>
         file.flaw \notin {"unknown_format", "nnz_type", "data_types_type"}
  <2>1. Program # "check_parallel" => Reader(Program) = "read"
    BY <1>1 DEF Reader, Checks
  <2>2. QED
    BY <2>1, FileRead, ReadFormat DEF Comparing
<1>4. FormatRead # file.m.format => file.flaw = "unknown_format" /\ FormatRead = "unknown"
  BY DEF FormatRead
<1>5. \/ first = DefaultMatrix /\ (faulted \/ ~Text.valid)
      \/ \E m : first = Declamped(m) /\ MmreadResult(m, Text)
  BY <1>1 DEF VInv, FirstInv, Comparing
<1>6. DefaultMatrix.format = "junk"
  BY DEF DefaultMatrix
<1>7. QED
  BY <1>1, <1>2, <1>3, <1>4, <1>5, <1>6

\* The first matrix has the format of its text.
LEMMA FirstFormat ==
    ASSUME NEW m, NEW t, MmreadResult(m, t)
    PROVE  /\ t.valid /\ Readable(t) /\ t.format \in {"coordinate", "array"}
           /\ IsMatrix(m) /\ IsMatrix(Declamped(m))
           /\ \A x \in Keys \ {"values"} : Declamped(m)[x] = m[x]
           /\ Declamped(m).format = IF t.format = "coordinate" THEN "COO" ELSE "DMATR"
<1>1. t.valid /\ Readable(t) /\ t.format \in {"coordinate", "array"}
  BY DEF MmreadResult, Readable
<1>2. IsMatrix(m) /\ m.format = IF t.format = "coordinate" THEN "COO" ELSE "DMATR"
  BY DEF MmreadResult, Coordinated, Filled
<1>3. IsMatrix(Declamped(m)) /\ \A x \in Keys \ {"values"} : Declamped(m)[x] = m[x]
  BY <1>2, DeclampedValues
<1>4. Declamped(m).format = m.format
  BY <1>3 DEF Keys
<1>5. QED
  BY <1>1, <1>2, <1>3, <1>4

\* What the comparison may die of.
LEMMA VerdictDeaths ==
    ASSUME NEW a, NEW b, a.format # "junk", Verdict(a, b) \in Deaths
    PROVE  /\ a.format # b.format
           /\ \/ {a.format, b.format} \ {"COO", "CSR"} # {}
              \/ NoArrays(b)
              \/ RowsBeyond(b)
              \/ ComparesUnwritten(AsCoo(a), AsCoo(b))
<1>1. CASE a.format = b.format
  <2>1. Verdict(a, b) \in {"exit 0", "exit 1"}
    BY <1>1 DEF Verdict
  <2>2. QED
    BY <2>1 DEF Deaths
<1>2. CASE a.format # b.format
  <2> DEFINE c == AsCoo(a)
             d == AsCoo(b)
  <2>1. Verdict(a, b) = IF {a.format, b.format} \ {"COO", "CSR"} # {} THEN "abort"
                        ELSE IF NoArrays(b) THEN "abort"
                        ELSE IF RowsBeyond(b) \/ ComparesUnwritten(c, d) THEN "undefined"
                        ELSE IF Equivalent(c, d) THEN "exit 0" ELSE "exit 1"
    BY <1>2 DEF Verdict
  <2> HIDE DEF c, d
  <2>2. QED
    BY <1>2, <2>1 DEF Deaths, c, d
<1>3. QED
  BY <1>1, <1>2

LEMMA VerdictIs ==
    ASSUME NEW a, NEW b PROVE Verdict(a, b) \in Verdicts
  BY VerdictEnds DEF Verdicts

\* A row of the conversion that was never written is one that no pointers reach.
LEMMA UnwrittenRow ==
    ASSUME NEW m, HasKeys(m), m.nrows \in Nat
    PROVE  /\ DOMAIN CooOf(m).indices_0.data = 0 .. m.nnz - 1
           /\ \A k \in 0 .. m.nnz - 1 : CooOf(m).indices_0.data[k] = Junk <=> RowOf(m, k) = Junk
<1> DEFINE T == Pick(MaxDim(m))
           f == [k \in 0 .. m.nnz - 1 |-> Stored(T, RowOf(m, k))]
<1>1. CooOf(m).indices_0.data = f
  BY DEF CooOf, HasKeys, Keys, Indexes
<1>2. ASSUME NEW k \in 0 .. m.nnz - 1 PROVE f[k] = Junk <=> RowOf(m, k) = Junk
  <2>1. f[k] = Stored(T, RowOf(m, k))
    OBVIOUS
  <2>2. CASE RowOf(m, k) = Junk
    BY <2>1, <2>2 DEF Stored
  <2>3. CASE RowOf(m, k) # Junk
    <3>1. RowOf(m, k) \in Nat
      BY <2>3, RowExists
    <3>2. Cap(T) \in Nat
      BY WideCap, NarrowMaxAssumption DEF Pick
    <3>3. Stored(T, RowOf(m, k)) \in Nat
      BY <3>1, <3>2, StoredBelow
    <3> HIDE DEF f
    <3>4. QED
      BY <2>1, <2>3, <3>3 DEF Junk
  <2>4. QED
    BY <2>2, <2>3
<1>3. QED
  BY <1>1, <1>2

LEMMA CompareExcused ==
    ASSUME IInv, VInv, Comparing, ~faulted, Verdict(first, matrix) \in Deaths
    PROVE  Excused(Program)
<1>1. Opens /\ HasKeys(matrix) /\ Formed(file.m)
  BY FileRead DEF Comparing
<1>2. Program \in Checks
  BY Comparers
<1>3. Text.valid => \E m : first = Declamped(m) /\ MmreadResult(m, Text)
  BY Comparers
<1>4. CASE ~Text.valid
  <2>1. (Program = "check_copy" /\ ~copy.valid) \/ (Program # "check_copy" /\ ~input.text.valid)
    BY <1>4, Comparers
  <2>2. QED
    BY <1>2, <2>1 DEF Excused, Checks
<1>5. CASE Text.valid
  <2>1. PICK m : first = Declamped(m) /\ MmreadResult(m, Text)
    BY <1>3, <1>5
  <2>2. /\ first.format = IF Text.format = "coordinate" THEN "COO" ELSE "DMATR"
        /\ Text.format \in {"coordinate", "array"}
    BY <2>1, FirstFormat
  <2>3. /\ first.format # matrix.format
        /\ \/ {first.format, matrix.format} \ {"COO", "CSR"} # {}
           \/ NoArrays(matrix) \/ RowsBeyond(matrix)
           \/ ComparesUnwritten(AsCoo(first), AsCoo(matrix))
    BY <2>2, VerdictDeaths
  <2>4. CASE file.flaw \in {"unknown_format", "nnz_type", "data_types_type"}
    <3>1. Program = "check_parallel"
      BY <2>4, Comparers
    <3>2. DeadlyFile(TRUE)
      BY <1>1, <2>4 DEF DeadlyFile, Opens, Ignored
    <3>3. QED
      BY <3>1, <3>2 DEF Excused
  <2>8. ASSUME file.flaw \notin {"unknown_format", "nnz_type", "data_types_type"}
        PROVE  /\ matrix.format = file.m.format /\ Formed(matrix)
               /\ BadRows(matrix) <=> BadRows(file.m)
    BY <2>8, FileRead DEF Comparing
  <2>5. CASE /\ file.flaw \notin {"unknown_format", "nnz_type", "data_types_type"}
             /\ file.m.format = "DMATR" \/ BadRows(matrix)
    <3>1. \A parallel \in BOOLEAN : DeadlyFile(parallel)
      BY <1>1, <2>5, <2>8 DEF DeadlyFile, Opens
    <3>2. QED
      BY <1>2, <3>1 DEF Excused, Checks
  <2>6. CASE /\ file.flaw \notin {"unknown_format", "nnz_type", "data_types_type"}
             /\ file.m.format # "DMATR" /\ ~BadRows(matrix)
    <3>1. matrix.format \in {"COO", "CSR"}
      BY <2>6, <2>8 DEF Formed
    <3>2. Text.format = "array"
      <4>1. SUFFICES ASSUME Text.format = "coordinate" PROVE FALSE
        BY <2>2
      <4>2. first.format = "COO" /\ matrix.format = "CSR"
        BY <2>2, <2>3, <3>1, <4>1
      <4>3. ~NoArrays(matrix)
        BY <2>6, <2>8 DEF NoArrays, Formed, ValueTypes, FloatTypes
      <4>4. ~RowsBeyond(matrix) /\ ~RowsMissing(matrix)
        BY <2>6, <4>2 DEF BadRows
      <4>5. AsCoo(matrix) = CooOf(matrix) /\ matrix.nrows \in Nat
        BY <2>6, <2>8, <4>2, FormedNumbers DEF AsCoo
      <4>6. \E k \in DOMAIN CooOf(matrix).indices_0.data : CooOf(matrix).indices_0.data[k] = Junk
        BY <2>3, <4>2, <4>3, <4>4, <4>5 DEF ComparesUnwritten
      <4>7. QED
        BY <1>1, <4>4, <4>5, <4>6, UnwrittenRow DEF RowsMissing
    <3>3. Program # "check_copy"
      <4>1. copy.valid => copy.format = "coordinate"
        BY DEF VInv, WrittenInv
      <4>2. QED
        BY <1>5, <3>2, <4>1, Comparers
    <3>4. input.text.format = "array" /\ file.exists
      BY <1>1, <3>2, <3>3, Comparers DEF Opens
    <3>5. QED
      BY <1>2, <2>6, <3>3, <3>4 DEF Excused, Checks
  <2>7. QED
    BY <2>4, <2>5, <2>6
<1>6. QED
  BY <1>4, <1>5

\* The comparison that runs out of memory for a number that is none.
LEMMA NumberExcused ==
    ASSUME IInv, VInv, Comparing, JudgedInv, file.flaw = "nnz_type"
    PROVE  Excused(Program) /\ ~Made(1)
<1>1. Program = "check_parallel"
  BY Comparers
<1>2. Opens
  BY FileRead DEF Comparing
<1>3. DeadlyFile(TRUE)
  BY <1>2 DEF DeadlyFile, Opens, Ignored
<1>4. QED
  BY <1>1, <1>3, MadeIsSealed DEF Excused, Sealed

\* Two matrices of the same format that are equivalent have the same entries.
LEMMA EquivalentEntries ==
    ASSUME NEW a, NEW b, a.format = b.format, a.format \in {"COO", "DMATR"}, Equivalent(a, b),
           a.nnz \in Nat, a.is_iso \in BOOLEAN,
           DOMAIN a.values.data = 0 .. ValueCount(a) - 1,
           a.format = "COO" => DOMAIN a.indices_0.data = 0 .. a.nnz - 1
    PROVE  /\ Entries(a) = Entries(b)
           /\ \A k \in DOMAIN a.values.data : Equal(a.values.data[k], b.values.data[k])
<1>1. /\ a.nrows = b.nrows /\ a.ncols = b.ncols /\ a.nnz = b.nnz /\ a.is_iso = b.is_iso
      /\ a.indices_0.data = b.indices_0.data /\ a.indices_1.data = b.indices_1.data
      /\ \A k \in DOMAIN a.values.data : Equal(a.values.data[k], b.values.data[k])
  BY DEF Equivalent, SameUpToValues, SameIndices, SameValues
<1>2. ASSUME NEW k \in 0 .. a.nnz - 1 PROVE ValueOf(a, k) = ValueOf(b, k)
  <2>1. (IF a.is_iso THEN 0 ELSE k) \in DOMAIN a.values.data
    BY <1>2 DEF ValueCount
  <2>2. QED
    BY <1>1, <2>1 DEF ValueOf, Equal
<1>3. CASE a.format = "COO"
  <2>1. /\ Entries(a) = {<<a.indices_0.data[k], a.indices_1.data[k], ValueOf(a, k)>> :
                            k \in 0 .. a.nnz - 1}
        /\ Entries(b) = {<<a.indices_0.data[k], a.indices_1.data[k], ValueOf(b, k)>> :
                            k \in 0 .. a.nnz - 1}
    BY <1>1, <1>3 DEF Entries
  <2>2. Entries(a) = Entries(b)
    BY <1>2, <2>1
  <2>3. QED
    BY <1>1, <2>2
<1>4. CASE a.format = "DMATR"
  <2>1. /\ Entries(a) = {<<k \div a.ncols, k % a.ncols, ValueOf(a, k)>> : k \in 0 .. a.nnz - 1}
        /\ Entries(b) = {<<k \div a.ncols, k % a.ncols, ValueOf(b, k)>> : k \in 0 .. a.nnz - 1}
    BY <1>1, <1>4 DEF Entries
  <2>2. Entries(a) = Entries(b)
    BY <1>2, <2>1
  <2>3. QED
    BY <1>1, <2>2
<1>5. QED
  BY <1>3, <1>4

\* The matrix of a text has the value of each of its lines.
HasValue(n, v) == \E l \in DOMAIN n.values.data : n.values.data[l] = v

LEMMA HoldsValues ==
    ASSUME NEW n, NEW u, Complete(u), Holds(n, u), u.format \in {"coordinate", "array"},
           u.type # "pattern", NEW k \in 1 .. u.nnz
    PROVE  HasValue(n, u.lines[k][3])
<1>1. u.nnz \in Nat /\ Len(u.lines) = u.nnz
  BY CompleteFacts
<1>2. CASE u.format = "coordinate"
  <2>1. /\ n.format = "COO" /\ n.is_iso = FALSE
        /\ DOMAIN n.indices_0.data = 0 .. u.nnz - 1 /\ Entries(n) = TextEntries(u)
        /\ DOMAIN n.values.data = 0 .. u.nnz - 1
    BY <1>2 DEF Holds, Coordinated, Count
  <2>2. <<u.lines[k][1] - 1, u.lines[k][2] - 1, u.lines[k][3]>> \in TextEntries(u)
    BY <1>1, <1>2 DEF TextEntries
  <2>3. PICK l \in 0 .. u.nnz - 1 :
           <<u.lines[k][1] - 1, u.lines[k][2] - 1, u.lines[k][3]>>
              = <<n.indices_0.data[l], n.indices_1.data[l], n.values.data[l]>>
    BY <2>1, <2>2 DEF Entries, ValueOf
  <2>4. QED
    BY <2>1, <2>3 DEF HasValue
<1>3. CASE u.format # "coordinate"
  <2>1. IsDense(u)
    BY <1>1, <1>3, DenseEntries
  <2>2. k - 1 \in 0 .. u.nnz - 1 /\ (k - 1) + 1 = k
    BY <1>1
  <2>3. Place(u, k - 1) \in 0 .. u.nnz - 1
    BY <2>1, <2>2, PlaceFacts
  <2>4. n.values.data[Place(u, k - 1)] = u.lines[k][3] /\ DOMAIN n.values.data = 0 .. u.nnz - 1
    BY <1>3, <2>2 DEF Holds, Filled
  <2>5. QED
    BY <2>3, <2>4 DEF HasValue
<1>4. QED
  BY <1>2, <1>3

\* A value that is not a number stays one.
LEMMA DeclampNaN ==
    ASSUME NEW T, NEW v \in Int \X Int, NaN \in {v[1], v[2]}
    PROVE  NaN \in {Declamp(T, v)[1], Declamp(T, v)[2]}
<1>1. NaN \in Int /\ NaN < Huge /\ NaN > -Huge /\ Huge \in Int
  BY NumbersAssumption
<1>2. DeclampReal(NaN) = NaN
  BY <1>1 DEF DeclampReal
<1>3. QED
  BY <1>2 DEF Declamp

\* The first matrix of the comparison with a complete text.
LEMMA FirstHolds ==
    ASSUME NEW m, NEW t, IsText(t), Complete(t), MmreadResult(m, t)
    PROVE  LET n == Declamped(m)
               u == DeclampedText(t)
           IN  /\ Holds(n, u) /\ Complete(u) /\ u.format = t.format /\ u.type = t.type
               /\ t.format \in {"coordinate", "array"}
               /\ IsMatrix(n) /\ Formed(n)
               /\ n.values.type = TypeOf[t.type]
               /\ t.format = "coordinate" => faulted \/ InOrder(n)
<1> DEFINE n == Declamped(m)
           u == DeclampedText(t)
<1>1. Holds(m, t) /\ Readable(t) /\ m.values.type = TypeOf[t.type]
      /\ t.format \in {"coordinate", "array"}
  BY DEF MmreadResult, Readable
<1>2. Holds(n, u) /\ n.values.type = m.values.type
      /\ (t.format = "coordinate" /\ InOrder(m) => InOrder(n))
  BY <1>1, DeclampedHolds
<1>3. Complete(u) /\ u.format = t.format /\ u.type = t.type
  BY DeclampedTextFacts
<1>4. IsMatrix(m) /\ Formed(m)
  BY ResultFormed
<1>5. /\ IsMatrix(n) /\ \A x \in Keys \ {"values"} : n[x] = m[x]
      /\ DOMAIN n.values.data = DOMAIN m.values.data
  BY <1>4, DeclampedValues
<1>6. n.values.type \in ValueTypes
  BY <1>2, <1>4 DEF Formed
<1> HIDE DEF n, u
<1>7. Formed(n)
  BY <1>4, <1>5, <1>6, SameShapeFormed
<1>8. t.format = "coordinate" => faulted \/ InOrder(m)
  BY DEF MmreadResult
<1>9. QED
  BY <1>1, <1>2, <1>3, <1>5, <1>7, <1>8 DEF n, u

LEMMA IntervalSize == \A n \in Nat : Cardinality(0 .. n - 1) = n
  BY FS_Interval

LEMMA IntervalEnds == \A x, y \in Nat : 0 .. x - 1 = 0 .. y - 1 => x = y
<1>1. ASSUME NEW x \in Nat, NEW y \in Nat, 0 .. x - 1 = 0 .. y - 1 PROVE x = y
  <2>1. Cardinality(0 .. x - 1) = x /\ Cardinality(0 .. y - 1) = y
    BY IntervalSize
  <2>2. QED
    BY <1>1, <2>1
<1>2. QED
  BY <1>1

\* What is equivalent denotes the same, and is all numbers.
LEMMA EmptyInterval == 0 .. 0 - 1 = {}
OBVIOUS

LEMMA BelowNat == \A n \in Nat : \A x \in 0 .. n - 1 : x \in Nat
OBVIOUS

LEMMA JunkIsNoNumber == \A x \in Nat : x # Junk
BY DEF Junk

LEMMA VerdictAccurate ==
    ASSUME IInv, VInv, Comparing, Program \in {"check", "check_parallel"},
           Verdict(first, matrix) = "exit 0"
    PROVE  Accurate("exit 0")
<1> DEFINE t == input.text
           u == DeclampedText(t)
<1>1. SUFFICES ASSUME Complete(t) PROVE ReadAs(file.m, u) /\ ~HasNaN(t)
  BY DEF Accurate
<1>2. IsText(t) /\ Text = t
  BY Comparers, InputsAssumption DEF IInv, SessionInv, IsSession
<1>3. first.format # "junk"
  BY DEF Verdict
<1>4. PICK m : first = Declamped(m) /\ MmreadResult(m, t)
  BY <1>2, <1>3, Comparers
<1>5. /\ Holds(first, u) /\ Complete(u) /\ u.format = t.format /\ u.type = t.type
      /\ t.format \in {"coordinate", "array"} /\ Formed(first)
  BY <1>1, <1>2, <1>4, FirstHolds
<1>6. first.format \in {"COO", "DMATR"}
  BY <1>4, FirstFormat
<1> DEFINE differ == first.format # matrix.format
           b == IF differ THEN AsCoo(matrix) ELSE matrix
<1>7. /\ differ => /\ {first.format, matrix.format} \ {"COO", "CSR"} = {}
                    /\ ~NoArrays(matrix) /\ ~ComparesUnwritten(first, b)
      /\ Equivalent(first, b)
  <2>1. AsCoo(first) = first
    BY <1>6 DEF AsCoo
  <2>2. CASE differ
    BY <1>3, <2>1, <2>2 DEF Verdict
  <2>3. CASE ~differ
    BY <1>3, <2>3 DEF Verdict
  <2>4. QED
    BY <2>2, <2>3
<1>8. /\ Opens /\ matrix.format = file.m.format /\ AsRead(matrix) /\ HasKeys(matrix)
      /\ Formed(file.m)
  <2>1. FormatRead # "unknown" \/ FormatRead = file.m.format
    BY <1>6, <1>7, FileRead DEF Comparing
  <2>2. FormatRead = file.m.format
    BY <2>1, Comparers
  <2>3. QED
    BY <2>2, FileRead DEF Comparing
<1>15. IsMatrix(first) /\ first.nnz \in Nat /\ first.is_iso \in BOOLEAN
       /\ (first.format = "DMATR" => first.is_iso = FALSE)
  <2>1. first.nnz \in Nat
    BY <1>5, FormedNumbers
  <2>2. IsMatrix(first)
    BY <1>4, FirstFormat
  <2>3. QED
    BY <1>5, <2>1, <2>2 DEF Holds, Coordinated, Filled, Formed
<1> DEFINE Goal == /\ Entries(first) = Entries(file.m)
                   /\ \A k \in DOMAIN first.values.data :
                         NaN \notin {first.values.data[k][1], first.values.data[k][2]}
<1>16. ASSUME ~NamesNone PROVE Goal
  <2>1. /\ matrix.nnz \in Nat
        /\ \A x \in Keys \ {"format", "nnz"} : matrix[x] = file.m[x]
    <3>1. matrix.is_iso = Iso0 /\ Iso0 = file.m.is_iso
      BY <1>8, <1>16 DEF AsRead, Iso0, Formed
    <3>2. QED
      BY <1>8, <1>16, <3>1 DEF AsRead, Header0, Read0, Keys, Fields
  <2>2. matrix.nnz = first.nnz /\ first.is_iso = file.m.is_iso
    <3>1. b.nnz = first.nnz /\ b.is_iso = first.is_iso
      BY <1>7 DEF Equivalent, SameUpToValues
    <3>2. b.nnz = matrix.nnz /\ b.is_iso = matrix.is_iso
      BY <1>8 DEF AsCoo, CooOf, HasKeys, Keys
    <3>3. matrix.is_iso = file.m.is_iso
      BY <2>1 DEF Keys
    <3>4. QED
      BY <3>1, <3>2, <3>3
  <2>3. matrix.nnz = file.m.nnz
    <3>1. file.m.nnz \in Nat
      BY <1>8, FormedNumbers
    <3>2. \A x, y \in Nat : 0 .. x - 1 = 0 .. y - 1 => x = y
      BY IntervalEnds
    <3>3. CASE first.format = "DMATR"
      <4>1. ~differ /\ matrix.format = "DMATR"
        BY <1>6, <1>7, <3>3
      <4>2. Size(first.values.data) = Size(file.m.values.data)
        BY <1>7, <2>1, <4>1 DEF Equivalent, SameUpToValues, SameValues, Keys
      <4>3. /\ DOMAIN first.values.data = 0 .. first.nnz - 1
            /\ DOMAIN file.m.values.data = 0 .. file.m.nnz - 1
        BY <1>5, <1>8, <1>15, <2>2, <3>3 DEF Formed, ValueCount
      <4>4. Size(first.values.data) = first.nnz /\ Size(file.m.values.data) = file.m.nnz
        BY <1>15, <3>1, <4>3, IntervalSize DEF Size
      <4>5. QED
        BY <2>2, <4>2, <4>4
    <3>4. CASE first.format = "COO"
      <4>1. matrix.format \in {"COO", "CSR"}
        BY <1>7, <3>4
      <4>2. DOMAIN first.indices_1.data = 0 .. first.nnz - 1
        BY <1>5, <3>4 DEF Formed
      <4>3. DOMAIN matrix.indices_1.data = 0 .. file.m.nnz - 1
        BY <1>8, <2>1, <4>1 DEF Formed, Keys
      <4>4. DOMAIN b.indices_1.data = DOMAIN matrix.indices_1.data
        BY <1>8 DEF AsCoo, CooOf, HasKeys, Keys, Converted, Indexes
      <4>5. first.indices_1.data = b.indices_1.data
        BY <1>7 DEF Equivalent, SameIndices
      <4> HIDE DEF b
      <4>6. 0 .. first.nnz - 1 = 0 .. file.m.nnz - 1
        BY <4>2, <4>3, <4>4, <4>5
      <4>7. QED
        BY <1>15, <2>2, <3>1, <3>2, <4>6
    <3>5. QED
      BY <1>6, <3>3, <3>4
  <2>4. Same(matrix, file.m)
    BY <2>1, <2>3 DEF Same, Keys
  <2>5. Formed(matrix) /\ Entries(matrix) = Entries(file.m)
    BY <1>8, <2>4, SameMatrix
  <2>6. first.format = b.format /\ Entries(b) = Entries(file.m)
    <3>1. CASE ~differ
      BY <2>5, <3>1
    <3>2. CASE differ
      <4>1. first.format = "COO" /\ matrix.format = "CSR"
        BY <1>6, <1>7, <3>2
      <4>2. b = CooOf(matrix)
        BY <3>2, <4>1 DEF AsCoo
      <4>3. ~RowsMissing(matrix)
        <5>1. SUFFICES ASSUME NEW k \in 0 .. matrix.nnz - 1, RowOf(matrix, k) = Junk
                       PROVE  FALSE
          BY DEF RowsMissing
        <5>2. matrix.nrows \in Nat
          BY <2>5, FormedNumbers
        <5>3. b.indices_0.data[k] = Junk
          BY <1>8, <4>2, <5>1, <5>2, UnwrittenRow
        <5>4. first.indices_0.data = b.indices_0.data
          BY <1>7 DEF Equivalent, SameIndices
        <5>5. first.indices_0.data[k] \in Nat
          <6>1. first.nnz = u.nnz /\ u.format = "coordinate"
            BY <1>5, <4>1 DEF Holds, Coordinated, Filled
          <6>2. first.indices_0.data[k] \in 0 .. u.nrows - 1
            BY <1>5, <2>2, <5>1, <6>1 DEF Holds
          <6>3. u.nrows \in Nat
            BY <1>5, CompleteFacts
          <6>4. QED
            BY <6>2, <6>3, BelowNat
        <5> HIDE DEF b
        <5>6. first.indices_0.data[k] = Junk
          BY <5>3, <5>4
        <5>7. QED
          BY <5>5, <5>6, JunkIsNoNumber
      <4>4. b.format = "COO" /\ Entries(b) = Entries(matrix)
        BY <1>8, <2>5, <4>1, <4>2, <4>3, CooFacts
      <4>5. QED
        BY <2>5, <4>1, <4>4
    <3>3. QED
      BY <3>1, <3>2
  <2> HIDE DEF b, differ
  <2>7. /\ Entries(first) = Entries(b)
        /\ \A k \in DOMAIN first.values.data : Equal(first.values.data[k], b.values.data[k])
    BY <1>5, <1>6, <1>7, <1>15, <2>6, EquivalentEntries DEF Formed
  <2>8. Entries(first) = Entries(file.m)
    BY <2>6, <2>7
  <2>9. \A k \in DOMAIN first.values.data : NaN \notin {first.values.data[k][1], first.values.data[k][2]}
    BY <2>7 DEF Equal
  <2>10. QED
    BY <2>8, <2>9
<1>17. ASSUME NamesNone PROVE Goal
  <2>1. matrix.values = Absent /\ matrix.is_iso = FALSE /\ matrix.nnz = file.m.nnz
    BY <1>8, <1>17 DEF AsRead, Header0, Read0, Iso0, NamesNone, Fields
  <2>2. NoArrays(matrix)
    <3>1. Absent.type = "invalid"
      BY DEF Absent, Indexes
    <3>2. QED
      BY <2>1, <3>1 DEF NoArrays
  <2>3. ~differ /\ b = matrix /\ first.format = file.m.format
    BY <1>7, <1>8, <2>2
  <2>4. /\ Size(first.values.data) = Size(Absent.data) /\ first.is_iso = FALSE
        /\ first.nnz = file.m.nnz
    BY <1>7, <2>1, <2>3 DEF Equivalent, SameUpToValues, SameValues
  <2>5. DOMAIN first.values.data = 0 .. first.nnz - 1
    BY <1>5, <2>4 DEF Formed, ValueCount
  <2>6. first.nnz = 0
    <3>1. Size(first.values.data) = first.nnz
      BY <1>15, <2>5, IntervalSize DEF Size
    <3>2. QED
      BY <2>4, <3>1, AbsentIsEmpty
  <2>7. DOMAIN first.values.data = {}
    BY <2>5, <2>6, EmptyInterval
  <2>8. Entries(first) = {} /\ Entries(file.m) = {}
    <3>1. ASSUME NEW n, Formed(n), n.nnz = 0, n.format \in {"COO", "DMATR"} PROVE Entries(n) = {}
      <4>1. CASE n.format = "COO"
        <5>1. DOMAIN n.indices_0.data = {}
          BY EmptyInterval, <3>1, <4>1 DEF Formed
        <5>2. QED
          BY <4>1, <5>1 DEF Entries
      <4>2. CASE n.format = "DMATR"
        BY EmptyInterval, <3>1, <4>2 DEF Entries
      <4>3. QED
        BY <3>1, <4>1, <4>2
    <3>2. file.m.nnz = 0 /\ file.m.format \in {"COO", "DMATR"}
      BY <1>6, <2>3, <2>4, <2>6
    <3>3. QED
      BY <1>5, <1>6, <1>8, <2>6, <3>1, <3>2
  <2>9. QED
    BY <2>7, <2>8
<1>18. /\ Entries(first) = Entries(file.m)
       /\ \A k \in DOMAIN first.values.data :
              NaN \notin {first.values.data[k][1], first.values.data[k][2]}
  BY <1>16, <1>17
<1>12. ReadAs(file.m, u)
  <2>1. ReadAs(first, u)
    BY <1>5, HoldsReadAs
  <2>2. QED
    BY <1>18, <2>1 DEF ReadAs
<1>13. ~HasNaN(t)
  <2>1. SUFFICES ASSUME HasNaN(t) PROVE FALSE
    OBVIOUS
  <2>2. t.type # "pattern" /\ Len(t.lines) = t.nnz /\ u.nnz = t.nnz /\ t.lines \in Lines
    BY <1>1, <1>2, <2>1, CompleteFacts, DeclampedTextFacts DEF HasNaN
  <2>3. PICK k \in 1 .. t.nnz : NaN \in {t.lines[k][3][1], t.lines[k][3][2]}
    BY <2>1, <2>2 DEF HasNaN
  <2>4. t.lines[k][3] \in Int \X Int
    BY <2>2, LineParts
  <2>5. u.lines[k][3] = Declamp(TypeOf[t.type], t.lines[k][3])
    BY <1>1, <1>2, DeclampedTextFacts
  <2>6. NaN \in {u.lines[k][3][1], u.lines[k][3][2]}
    BY <2>3, <2>4, <2>5, DeclampNaN
  <2> HIDE DEF u
  <2>9. /\ Complete(u) /\ Holds(first, u)
        /\ k \in 1 .. u.nnz /\ u.type # "pattern" /\ u.format \in {"coordinate", "array"}
    BY <1>5, <2>2
  <2>10. HasValue(first, u.lines[k][3])
    BY <2>9, HoldsValues
  <2>7. PICK l \in DOMAIN first.values.data : first.values.data[l] = u.lines[k][3]
    BY <2>10 DEF HasValue
  <2>8. QED
    BY <1>18, <2>6, <2>7
<1>14. QED
  BY <1>12, <1>13

--------------------------------------------------------------------------------
(* Two matrices of a text without duplicates are the same. *)

\* The position of entry k.
At2(m, k) == <<m.indices_0.data[k], m.indices_1.data[k]>>
LineAt(u, r) == <<u.lines[r][1] - 1, u.lines[r][2] - 1>>
LineValue(u, r) == IF u.type = "pattern" THEN <<1, 0>> ELSE u.lines[r][3]

\* Every entry of the matrix is a line, and every line an entry.
LEMMA EntriesAreLines ==
    ASSUME NEW m, NEW u, Complete(u), u.format = "coordinate", Holds(m, u)
    PROVE  /\ \A k \in 0 .. u.nnz - 1 :
                 \E r \in 1 .. u.nnz : At2(m, k) = LineAt(u, r) /\ ValueOf(m, k) = LineValue(u, r)
           /\ \A r \in 1 .. u.nnz : \E k \in 0 .. u.nnz - 1 : At2(m, k) = LineAt(u, r)
<1>1. Len(u.lines) = u.nnz
  BY CompleteFacts
<1>2. Entries(m) = TextEntries(u) /\ m.format = "COO" /\ DOMAIN m.indices_0.data = 0 .. u.nnz - 1
  BY DEF Holds, Coordinated
<1>3. Entries(m) = {<<m.indices_0.data[k], m.indices_1.data[k], ValueOf(m, k)>> :
                      k \in 0 .. u.nnz - 1}
  BY <1>2 DEF Entries
<1>4. TextEntries(u) = {<<u.lines[r][1] - 1, u.lines[r][2] - 1, LineValue(u, r)>> :
                          r \in 1 .. u.nnz}
  BY <1>1 DEF TextEntries, LineValue
<1>5. ASSUME NEW k \in 0 .. u.nnz - 1
      PROVE  \E r \in 1 .. u.nnz : At2(m, k) = LineAt(u, r) /\ ValueOf(m, k) = LineValue(u, r)
  <2>1. <<m.indices_0.data[k], m.indices_1.data[k], ValueOf(m, k)>> \in TextEntries(u)
    BY <1>2, <1>3
  <2>2. PICK r \in 1 .. u.nnz :
           <<m.indices_0.data[k], m.indices_1.data[k], ValueOf(m, k)>>
              = <<u.lines[r][1] - 1, u.lines[r][2] - 1, LineValue(u, r)>>
    BY <1>4, <2>1
  <2>3. QED
    BY <2>2 DEF At2, LineAt
<1>6. ASSUME NEW r \in 1 .. u.nnz
      PROVE  \E k \in 0 .. u.nnz - 1 : At2(m, k) = LineAt(u, r)
  <2>1. <<u.lines[r][1] - 1, u.lines[r][2] - 1, LineValue(u, r)>> \in Entries(m)
    BY <1>2, <1>4
  <2>2. PICK k \in 0 .. u.nnz - 1 :
           <<u.lines[r][1] - 1, u.lines[r][2] - 1, LineValue(u, r)>>
              = <<m.indices_0.data[k], m.indices_1.data[k], ValueOf(m, k)>>
    BY <1>3, <2>1
  <2>3. QED
    BY <2>2 DEF At2, LineAt
<1>7. QED
  BY <1>5, <1>6

\* The lines of a text without duplicates are at different positions.
LEMMA LinesApart ==
    ASSUME NEW u, Complete(u), u.format = "coordinate", Distinct(u),
           NEW r \in 1 .. u.nnz, NEW s \in 1 .. u.nnz, LineAt(u, r) = LineAt(u, s)
    PROVE  r = s
<1>1. Len(u.lines) = u.nnz
  BY CompleteFacts
<1>2. \A q \in 1 .. u.nnz : u.lines[q][1] \in Int /\ u.lines[q][2] \in Int
  BY CompleteFacts DEF Complete
<1>3. u.lines[r][1] - 1 = u.lines[s][1] - 1 /\ u.lines[r][2] - 1 = u.lines[s][2] - 1
  BY DEF LineAt
<1>4. u.lines[r][1] = u.lines[s][1] /\ u.lines[r][2] = u.lines[s][2]
  BY <1>2, <1>3
<1>5. QED
  BY <1>1, <1>4 DEF Distinct

\* As there are as many entries as lines, they are at different positions as well.
LEMMA EntriesApart ==
    ASSUME NEW m, NEW u, Complete(u), u.format = "coordinate", Distinct(u), Holds(m, u),
           NEW k \in 0 .. u.nnz - 1, NEW l \in 0 .. u.nnz - 1, At2(m, k) = At2(m, l)
    PROVE  k = l
<1> DEFINE D == 0 .. u.nnz - 1
           R == 1 .. u.nnz
           f == [e \in D |-> CHOOSE r \in R : LineAt(u, r) = At2(m, e)]
<1>1. u.nnz \in Nat
  BY CompleteFacts
<1>2. \A e \in D : f[e] \in R /\ LineAt(u, f[e]) = At2(m, e)
  <2> TAKE e \in D
  <2>1. \E r \in R : LineAt(u, r) = At2(m, e)
    BY EntriesAreLines
  <2>2. QED
    BY <2>1
<1>3. f \in [D -> R]
  BY <1>2
<1>4. ASSUME NEW r \in R PROVE \E e \in D : f[e] = r
  <2>1. PICK e \in D : At2(m, e) = LineAt(u, r)
    BY EntriesAreLines
  <2>2. f[e] \in R /\ LineAt(u, f[e]) = LineAt(u, r)
    BY <1>2, <2>1
  <2>3. QED
    BY <2>2, LinesApart
<1>5. f[k] = f[l]
  OBVIOUS
<1> HIDE DEF f
<1>6. f \in Surjection(D, R)
  BY <1>3, <1>4 DEF Surjection
<1>7. IsFiniteSet(D) /\ IsFiniteSet(R) /\ Cardinality(D) = Cardinality(R)
  <2>1. \A n \in Nat : /\ IsFiniteSet(0 .. n - 1) /\ Cardinality(0 .. n - 1) = n
                      /\ IsFiniteSet(1 .. n) /\ Cardinality(1 .. n) = n
    BY FS_Interval
  <2>2. QED
    BY <1>1, <2>1
<1>8. f \in Injection(D, R)
  BY <1>6, <1>7, FS_SurjSameCardinalityImpliesInj
<1>9. QED
  BY <1>5, <1>8 DEF Injection, IsInjective

\* The entries of a matrix in order without duplicates ascend.
LEMMA OrderAscends ==
    ASSUME NEW m, NEW u, Complete(u), u.format = "coordinate", Distinct(u), Holds(m, u), InOrder(m)
    PROVE  /\ ArePositions(u.nnz, m.indices_0.data, m.indices_1.data)
           /\ Ascends(u.nnz, m.indices_0.data, m.indices_1.data)
           /\ Positions(u.nnz, m.indices_0.data, m.indices_1.data)
                 = {LineAt(u, r) : r \in 1 .. u.nnz}
<1> DEFINE i == m.indices_0.data
           j == m.indices_1.data
           D == 0 .. u.nnz - 1
<1>1. /\ u.nnz \in Nat /\ u.nrows \in Nat /\ u.ncols \in Nat
  BY CompleteFacts
<1>2. /\ \A k \in D : i[k] \in 0 .. u.nrows - 1 /\ j[k] \in 0 .. u.ncols - 1
      /\ DOMAIN i = D
  BY DEF Holds, Coordinated
<1>3. \A k \in D : i[k] \in Int /\ j[k] \in Int
  BY <1>1, <1>2
<1>4. \A k, l \in D : k < l => i[k] < i[l] \/ (i[k] = i[l] /\ j[k] <= j[l])
  BY <1>2 DEF InOrder, RowBefore
<1>5. \A k, l \in D : i[k] = i[l] /\ j[k] = j[l] => k = l
  <2>1. ASSUME NEW k \in D, NEW l \in D, i[k] = i[l], j[k] = j[l] PROVE k = l
    <3>1. At2(m, k) = At2(m, l)
      BY <2>1 DEF At2
    <3>2. QED
      BY <3>1, EntriesApart
  <2>2. QED
    BY <2>1
<1>6. \A k \in D : \E r \in 1 .. u.nnz : At2(m, k) = LineAt(u, r)
  BY EntriesAreLines
<1>7. \A r \in 1 .. u.nnz : \E k \in D : At2(m, k) = LineAt(u, r)
  BY EntriesAreLines
<1> HIDE DEF i, j
<1>8. ASSUME NEW k \in D, NEW l \in D, k < l
      PROVE  i[k] < i[l] \/ (i[k] = i[l] /\ j[k] < j[l])
  <2>1. k # l
    BY <1>1, <1>8
  <2>2. ~(i[k] = i[l] /\ j[k] = j[l])
    BY <1>5, <2>1
  <2>3. j[k] \in Int /\ j[l] \in Int
    BY <1>3
  <2>4. QED
    BY <1>4, <1>8, <2>2, <2>3
<1>9. Positions(u.nnz, i, j) = {LineAt(u, r) : r \in 1 .. u.nnz}
  <2>1. Positions(u.nnz, i, j) = {At2(m, k) : k \in D}
    BY DEF Positions, At2, i, j
  <2>2. QED
    BY <1>6, <1>7, <2>1
<1>10. QED
  BY <1>3, <1>8, <1>9 DEF ArePositions, Ascends, i, j

LEMMA SameArray ==
    ASSUME NEW f, NEW g, IsFunction(f), IsFunction(g), DOMAIN f = DOMAIN g,
           \A k \in DOMAIN f : f[k] = g[k]
    PROVE  f = g
<1>1. [k \in DOMAIN f |-> f[k]] = [k \in DOMAIN g |-> g[k]]
  OBVIOUS
<1>2. QED
  BY <1>1 DEF IsFunction

\* Two matrices in order that hold the same text have the same arrays.
LEMMA OneCoordinate ==
    ASSUME NEW a, NEW b, NEW u, Complete(u), u.format = "coordinate", Distinct(u),
           Holds(a, u), InOrder(a), Holds(b, u), InOrder(b)
    PROVE  /\ a.indices_0.data = b.indices_0.data /\ a.indices_1.data = b.indices_1.data
           /\ DOMAIN a.values.data = DOMAIN b.values.data
           /\ \A k \in DOMAIN a.values.data : a.values.data[k] = b.values.data[k]
<1> DEFINE D == 0 .. u.nnz - 1
<1>1. u.nnz \in Nat
  BY CompleteFacts
<1>2. /\ IsFunction(a.indices_0.data) /\ IsFunction(a.indices_1.data)
      /\ DOMAIN a.indices_0.data = D /\ DOMAIN a.indices_1.data = D
      /\ a.is_iso = (u.type = "pattern") /\ DOMAIN a.values.data = 0 .. Count(u, "values") - 1
      /\ u.type = "pattern" => a.values.data[0] = <<1, 0>>
  BY DEF Holds, Coordinated
<1>3. /\ IsFunction(b.indices_0.data) /\ IsFunction(b.indices_1.data)
      /\ DOMAIN b.indices_0.data = D /\ DOMAIN b.indices_1.data = D
      /\ b.is_iso = (u.type = "pattern") /\ DOMAIN b.values.data = 0 .. Count(u, "values") - 1
      /\ u.type = "pattern" => b.values.data[0] = <<1, 0>>
  BY DEF Holds, Coordinated
<1>4. \A k \in D : /\ a.indices_0.data[k] = b.indices_0.data[k]
                  /\ a.indices_1.data[k] = b.indices_1.data[k]
  <2> DEFINE i == a.indices_0.data
             j == a.indices_1.data
             p == b.indices_0.data
             q == b.indices_1.data
             n == u.nnz
  <2>1. ArePositions(n, i, j) /\ Ascends(n, i, j)
        /\ Positions(n, i, j) = {LineAt(u, r) : r \in 1 .. n}
    BY OrderAscends
  <2>2. ArePositions(n, p, q) /\ Ascends(n, p, q)
        /\ Positions(n, p, q) = {LineAt(u, r) : r \in 1 .. n}
    BY OrderAscends
  <2>3. n \in Nat /\ Positions(n, i, j) = Positions(n, p, q)
    BY <1>1, <2>1, <2>2
  <2> HIDE DEF i, j, p, q, n
  <2>4. \A k \in 0 .. n - 1 : i[k] = p[k] /\ j[k] = q[k]
    BY <2>1, <2>2, <2>3, OneOrder
  <2>5. QED
    BY <2>4 DEF i, j, p, q, n
<1>5. a.indices_0.data = b.indices_0.data /\ a.indices_1.data = b.indices_1.data
  <2> DEFINE i == a.indices_0.data
             j == a.indices_1.data
             p == b.indices_0.data
             q == b.indices_1.data
  <2>1. /\ IsFunction(i) /\ IsFunction(p) /\ DOMAIN i = D /\ DOMAIN p = D
        /\ IsFunction(j) /\ IsFunction(q) /\ DOMAIN j = D /\ DOMAIN q = D
    BY <1>2, <1>3
  <2>2. \A k \in D : i[k] = p[k] /\ j[k] = q[k]
    BY <1>4
  <2> HIDE DEF i, j, p, q, D
  <2>3. i = p
    BY <2>1, <2>2, SameArray
  <2>4. j = q
    BY <2>1, <2>2, SameArray
  <2>5. QED
    BY <2>3, <2>4 DEF i, j, p, q
<1>6. ASSUME u.type # "pattern", NEW k \in D PROVE a.values.data[k] = b.values.data[k]
  <2>1. PICK r \in 1 .. u.nnz : At2(a, k) = LineAt(u, r) /\ ValueOf(a, k) = LineValue(u, r)
    BY EntriesAreLines
  <2>2. PICK s \in 1 .. u.nnz : At2(b, k) = LineAt(u, s) /\ ValueOf(b, k) = LineValue(u, s)
    BY EntriesAreLines
  <2>3. At2(a, k) = At2(b, k)
    BY <1>5 DEF At2
  <2>4. r = s
    BY <2>1, <2>2, <2>3, LinesApart
  <2>5. ValueOf(a, k) = ValueOf(b, k)
    BY <2>1, <2>2, <2>4
  <2>6. QED
    BY <1>2, <1>3, <1>6, <2>5 DEF ValueOf
<1>7. CASE u.type = "pattern"
  <2>1. DOMAIN a.values.data = {0}
    BY <1>2, <1>7 DEF Count
  <2>2. QED
    BY <1>2, <1>3, <1>5, <1>7, <2>1
<1>8. CASE u.type # "pattern"
  <2>1. DOMAIN a.values.data = D
    BY <1>2, <1>8 DEF Count
  <2>2. QED
    BY <1>2, <1>3, <1>5, <1>6, <1>8, <2>1
<1>9. QED
  BY <1>7, <1>8

\* And two dense ones.
LEMMA OneDense ==
    ASSUME NEW a, NEW b, NEW u, Complete(u), u.format # "coordinate", Holds(a, u), Holds(b, u)
    PROVE  /\ a.indices_0 = Absent /\ a.indices_1 = Absent
           /\ b.indices_0 = Absent /\ b.indices_1 = Absent
           /\ DOMAIN a.values.data = DOMAIN b.values.data
           /\ \A k \in DOMAIN a.values.data : a.values.data[k] = b.values.data[k]
<1>1. /\ a.indices_0 = Absent /\ a.indices_1 = Absent
      /\ DOMAIN a.values.data = 0 .. u.nnz - 1
      /\ \A c \in 0 .. u.nnz - 1 : a.values.data[Place(u, c)] = u.lines[c + 1][3]
  BY DEF Holds, Filled
<1>2. /\ b.indices_0 = Absent /\ b.indices_1 = Absent
      /\ DOMAIN b.values.data = 0 .. u.nnz - 1
      /\ \A c \in 0 .. u.nnz - 1 : b.values.data[Place(u, c)] = u.lines[c + 1][3]
  BY DEF Holds, Filled
<1>3. ASSUME NEW k \in 0 .. u.nnz - 1 PROVE a.values.data[k] = b.values.data[k]
  <2>1. u.nnz \in Nat /\ u.nnz > 0
    BY CompleteFacts
  <2>2. IsDense(u)
    BY <2>1, DenseEntries
  <2>3. PICK c \in 0 .. u.nnz - 1 : Place(u, c) = k
    BY <2>2, PlaceOnto
  <2>4. QED
    BY <1>1, <1>2, <2>3
<1>4. QED
  BY <1>1, <1>2, <1>3

--------------------------------------------------------------------------------
(* What mtx2bsp has made of a text is recognised. *)

LEMMA DeclampNumber ==
    ASSUME NEW T, NEW v \in Int \X Int, NaN \notin {v[1], v[2]}
    PROVE  NaN \notin {Declamp(T, v)[1], Declamp(T, v)[2]}
<1>1. NaN \in Int /\ NaN < Huge /\ NaN >= 2 /\ Huge \in Int /\ Infinity \in Int /\ Huge < Infinity
  BY NumbersAssumption
<1>2. \A x \in Int : x # NaN => DeclampReal(x) # NaN
  BY <1>1 DEF DeclampReal
<1>3. v[1] \in Int /\ v[2] \in Int
  OBVIOUS
<1>4. DeclampReal(v[1]) # NaN /\ DeclampReal(v[2]) # NaN
  BY <1>2, <1>3
<1>5. QED
  BY <1>4 DEF Declamp

\* The matrix of a text without a NaN has none.
LEMMA AllNumbers ==
    ASSUME NEW n, NEW t, IsText(t), Complete(t), Readable(t), Holds(n, DeclampedText(t)),
           ~HasNaN(t), NEW k \in DOMAIN n.values.data
    PROVE  n.values.data[k][1] # NaN /\ n.values.data[k][2] # NaN
<1> DEFINE u == DeclampedText(t)
<1>1. /\ Complete(u) /\ u.format = t.format /\ u.type = t.type /\ u.nnz = t.nnz
      /\ t.lines \in Lines /\ Len(t.lines) = t.nnz /\ t.nnz \in Nat
      /\ \A r \in 1 .. t.nnz : u.lines[r][3] = Declamp(TypeOf[t.type], t.lines[r][3])
  BY DeclampedTextFacts, CompleteFacts
<1>2. ASSUME t.type # "pattern", NEW r \in 1 .. t.nnz
      PROVE  NaN \notin {u.lines[r][3][1], u.lines[r][3][2]}
  <2>1. NaN \notin {t.lines[r][3][1], t.lines[r][3][2]}
    BY <1>1, <1>2 DEF HasNaN
  <2>2. t.lines[r][3] \in Int \X Int
    BY <1>1, LineParts
  <2>3. QED
    BY <1>1, <2>1, <2>2, DeclampNumber
<1>3. t.type = "pattern" => t.format = "coordinate"
  BY DEF Readable
<1> HIDE DEF u
<1>4. Holds(n, u)
  BY DEF u
<1>5. CASE t.type = "pattern"
  <2>1. DOMAIN n.values.data = {0} /\ n.values.data[0] = <<1, 0>>
    BY <1>1, <1>3, <1>4, <1>5 DEF Holds, Coordinated, Count
  <2>2. NaN >= 2 /\ NaN \in Int
    BY NumbersAssumption
  <2>3. QED
    BY <2>1, <2>2
<1>6. CASE t.type # "pattern" /\ t.format = "coordinate"
  <2>1. k \in 0 .. u.nnz - 1 /\ n.is_iso = FALSE
    BY <1>1, <1>4, <1>6 DEF Holds, Coordinated, Count
  <2>2. PICK r \in 1 .. u.nnz : ValueOf(n, k) = LineValue(u, r)
    BY <1>1, <1>4, <1>6, <2>1, EntriesAreLines
  <2>3. n.values.data[k] = u.lines[r][3]
    BY <1>1, <1>6, <2>1, <2>2 DEF ValueOf, LineValue
  <2>4. QED
    BY <1>1, <1>2, <1>6, <2>3
<1>7. CASE t.type # "pattern" /\ t.format # "coordinate"
  <2>1. /\ k \in 0 .. u.nnz - 1
        /\ \A c \in 0 .. u.nnz - 1 : n.values.data[Place(u, c)] = u.lines[c + 1][3]
    BY <1>1, <1>4, <1>7 DEF Holds, Filled
  <2>2. IsDense(u)
    <3>1. u.nnz > 0
      BY <1>1, <2>1
    <3>2. QED
      BY <1>1, <1>7, <3>1, DenseEntries
  <2>3. PICK c \in 0 .. u.nnz - 1 : Place(u, c) = k
    BY <2>1, <2>2, PlaceOnto
  <2>4. c + 1 \in 1 .. t.nnz /\ n.values.data[k] = u.lines[c + 1][3]
    BY <1>1, <2>1, <2>3
  <2>5. QED
    BY <1>2, <1>7, <2>4
<1>8. QED
  BY <1>5, <1>6, <1>7

\* Two matrices of the same text, of values of the same kind, are equivalent.
LEMMA HeldEquivalent ==
    ASSUME NEW a, NEW b, NEW t, IsText(t), Complete(t), Readable(t), ~HasNaN(t), Distinct(t),
           Holds(a, DeclampedText(t)), Holds(b, DeclampedText(t)),
           t.format = "coordinate" => InOrder(a) /\ InOrder(b),
           Kind(a.values.type) = Kind(b.values.type)
    PROVE  a.format = b.format /\ Equivalent(a, b)
<1> DEFINE u == DeclampedText(t)
<1>1. /\ Complete(u) /\ u.format = t.format /\ u.type = t.type /\ u.nnz = t.nnz
      /\ Len(u.lines) = t.nnz /\ Len(t.lines) = t.nnz
      /\ \A r \in 1 .. t.nnz : u.lines[r][1] = t.lines[r][1] /\ u.lines[r][2] = t.lines[r][2]
  BY DeclampedTextFacts, CompleteFacts
<1>2. Distinct(u)
  BY <1>1 DEF Distinct
<1>3. \A k \in DOMAIN a.values.data : a.values.data[k][1] # NaN /\ a.values.data[k][2] # NaN
  BY AllNumbers
<1> HIDE DEF u
<1>4. Holds(a, u) /\ Holds(b, u)
  BY DEF u
<1>5. /\ a.format = b.format /\ a.structure = b.structure
      /\ a.nrows = b.nrows /\ a.ncols = b.ncols /\ a.nnz = b.nnz /\ a.is_iso = b.is_iso
      /\ a.pointers_to_1 = b.pointers_to_1
  BY <1>4 DEF Holds, Coordinated, Filled
<1>6. /\ DOMAIN a.values.data = DOMAIN b.values.data
      /\ \A k \in DOMAIN a.values.data : a.values.data[k] = b.values.data[k]
      /\ a.indices_0.data = b.indices_0.data /\ a.indices_1.data = b.indices_1.data
  <2>1. CASE t.format = "coordinate"
    BY <1>1, <1>2, <1>4, <2>1, OneCoordinate
  <2>2. CASE t.format # "coordinate"
    BY <1>1, <1>4, <2>2, OneDense
  <2>3. QED
    BY <2>1, <2>2
<1>7. SameValues(a.values, b.values)
  BY <1>3, <1>6 DEF SameValues, Size, Equal
<1>8. QED
  BY <1>5, <1>6, <1>7 DEF Equivalent, SameUpToValues, SameIndices

\* A matrix converted to CSR and back is the same, if its pointers fit.
LEMMA BackAgain ==
    ASSUME NEW n, NEW u, NEW m, Complete(u), u.format = "coordinate", Holds(n, u), InOrder(n),
           PointersFit(u, "CSR"), HasKeys(m), m.format = "CSR", Same(m, CsrOf(n)),
           Formed(m)
    PROVE  /\ ~RowsMissing(m) /\ ~RowsBeyond(m)
           /\ LET c == CooOf(m)
              IN  /\ \A x \in {"nrows", "ncols", "nnz", "is_iso", "structure", "values"} : c[x] = n[x]
                  /\ c.indices_0.data = n.indices_0.data /\ c.indices_1.data = n.indices_1.data
                  /\ c.pointers_to_1 = n.pointers_to_1
<1> DEFINE D == 0 .. u.nnz - 1
           r == CsrOf(n)
           c == CooOf(m)
<1>1. /\ IsMatrix(n) /\ n.format = "COO" /\ n.nnz = u.nnz /\ n.nrows = u.nrows
      /\ DOMAIN n.indices_0.data = D /\ DOMAIN n.indices_1.data = D
      /\ IsFunction(n.indices_0.data) /\ IsFunction(n.indices_1.data)
      /\ \A k \in D : n.indices_0.data[k] \in 0 .. u.nrows - 1
      /\ n.pointers_to_1 = Absent
  BY DEF Holds, Coordinated
<1>2. u.nrows \in Nat /\ u.nnz \in Nat
  BY CompleteFacts
<1>3. \A x \in {"nrows", "ncols", "nnz", "is_iso", "structure", "values"} : r[x] = n[x]
  BY <1>1 DEF CsrOf, IsMatrix, HasKeys, Keys
<1>4. /\ DOMAIN r.indices_1.data = D
      /\ \A k \in D : r.indices_1.data[k] = n.indices_1.data[k]
  BY CsrFacts
<1>5. \A k \in D : RowOf(r, k) = n.indices_0.data[k]
  BY CsrRows
<1>6. \A x \in {"nrows", "ncols", "nnz", "is_iso", "structure", "values", "indices_1",
                "pointers_to_1"} : m[x] = r[x]
  BY DEF Same, Keys
<1> HIDE DEF r
<1>7. \A k : RowOf(m, k) = RowOf(r, k)
  <2>1. m.nrows = r.nrows /\ m.pointers_to_1 = r.pointers_to_1
    BY <1>6
  <2>2. QED
    BY <2>1 DEF RowOf
<1>8. ~RowsMissing(m)
  <2>1. m.nnz = u.nnz
    BY <1>1, <1>3, <1>6
  <2>2. \A k \in D : RowOf(m, k) # Junk
    BY <1>1, <1>2, <1>5, <1>7 DEF Junk
  <2>3. QED
    BY <2>1, <2>2 DEF RowsMissing
<1>15. ~RowsBeyond(m)
  <2>1. m.nnz = u.nnz /\ m.nrows = u.nrows /\ m.pointers_to_1 = r.pointers_to_1
    BY <1>1, <1>3, <1>6
  <2>2. \A q \in 0 .. u.nrows : r.pointers_to_1.data[q] \in 0 .. u.nnz
    BY CsrEnds DEF r
  <2>3. \A q \in 0 .. u.nrows - 1 : q + 1 \in 0 .. u.nrows
    BY <1>2
  <2>4. \A q \in 0 .. u.nrows - 1 : ~(m.nnz < m.pointers_to_1.data[q + 1])
    BY <1>2, <2>1, <2>2, <2>3
  <2>5. QED
    BY <2>1, <2>4 DEF RowsBeyond
<1>9. /\ c.nrows = m.nrows /\ c.ncols = m.ncols /\ c.nnz = m.nnz
      /\ c.is_iso = m.is_iso /\ c.structure = m.structure /\ c.values = m.values
      /\ c.pointers_to_1 = Absent
      /\ DOMAIN c.indices_0.data = 0 .. m.nnz - 1 /\ DOMAIN c.indices_1.data = 0 .. m.nnz - 1
      /\ \A k \in 0 .. m.nnz - 1 :
            /\ c.indices_0.data[k] = RowOf(m, k)
            /\ c.indices_1.data[k] = m.indices_1.data[k]
  BY <1>8, CooFacts
<1>10. IsFunction(c.indices_0.data) /\ IsFunction(c.indices_1.data)
  <2>1. \E T : /\ c.indices_0 = Indexes(T, [k \in 0 .. m.nnz - 1 |-> Stored(T, RowOf(m, k))])
               /\ c.indices_1 = Converted(m.indices_1, T)
    BY DEF CooOf, HasKeys, Keys
  <2>2. PICK T : /\ c.indices_0 = Indexes(T, [k \in 0 .. m.nnz - 1 |-> Stored(T, RowOf(m, k))])
                 /\ c.indices_1 = Converted(m.indices_1, T)
    BY <2>1
  <2> HIDE DEF c
  <2>3. c.indices_0.data = [k \in 0 .. m.nnz - 1 |-> Stored(T, RowOf(m, k))]
    BY <2>2 DEF Indexes
  <2>4. c.indices_1.data = [k \in DOMAIN m.indices_1.data |-> Stored(T, m.indices_1.data[k])]
    BY <2>2 DEF Converted, Indexes
  <2>5. QED
    BY <2>3, <2>4 DEF IsFunction
<1> HIDE DEF c
<1>11. m.nnz = u.nnz
  BY <1>1, <1>3, <1>6
<1>12. c.indices_0.data = n.indices_0.data
  <2>1. \A k \in D : c.indices_0.data[k] = n.indices_0.data[k]
    BY <1>5, <1>7, <1>9, <1>11
  <2>2. DOMAIN c.indices_0.data = D /\ DOMAIN n.indices_0.data = D
    BY <1>1, <1>9, <1>11
  <2>3. QED
    BY <1>1, <1>10, <2>1, <2>2, SameArray
<1>13. c.indices_1.data = n.indices_1.data
  <2>1. \A k \in D : c.indices_1.data[k] = n.indices_1.data[k]
    BY <1>4, <1>6, <1>9, <1>11
  <2>2. DOMAIN c.indices_1.data = D /\ DOMAIN n.indices_1.data = D
    BY <1>1, <1>9, <1>11
  <2>3. QED
    BY <1>1, <1>10, <2>1, <2>2, SameArray
<1>14. QED
  BY <1>1, <1>3, <1>6, <1>8, <1>9, <1>12, <1>13, <1>15 DEF c

LEMMA EquivalentSame ==
    ASSUME NEW a, NEW n, NEW c, Equivalent(a, n),
           \A x \in {"nrows", "ncols", "nnz", "is_iso", "structure", "values"} : c[x] = n[x],
           c.indices_0.data = n.indices_0.data, c.indices_1.data = n.indices_1.data,
           c.pointers_to_1 = n.pointers_to_1
    PROVE  Equivalent(a, c)
<1>1. /\ c.nrows = n.nrows /\ c.ncols = n.ncols /\ c.nnz = n.nnz /\ c.is_iso = n.is_iso
      /\ c.structure = n.structure /\ c.values = n.values
  OBVIOUS
<1>2. QED
  BY <1>1 DEF Equivalent, SameUpToValues, SameIndices

\* The file that mtx2bsp has made is equivalent to what it was made from.
LEMMA VerdictRecognises ==
    ASSUME IInv, VInv, MadeInv, JudgedInv, Comparing, Program \in {"check", "check_parallel"},
           ~faulted, Made(1), Complete(input.text), Comparable(input.text, file.m.format)
    PROVE  Verdict(first, matrix) = "exit 0"
<1> DEFINE t == input.text
           u == DeclampedText(t)
<1>1. IsText(t) /\ Text = t /\ t.valid
  BY Comparers, InputsAssumption DEF IInv, SessionInv, IsSession, Complete
<1>2. file.flaw = "none"
  BY MadeIsSealed DEF Sealed
<1>3. /\ matrix.format = file.m.format /\ Same(matrix, file.m) /\ HasKeys(matrix)
      /\ Formed(matrix)
  BY <1>2, FileRead DEF Comparing
<1>4. PICK m : first = Declamped(m) /\ MmreadResult(m, t)
  BY <1>1, Comparers
<1>5. /\ Holds(first, u) /\ Complete(u) /\ u.format = t.format /\ u.type = t.type
      /\ first.values.type = TypeOf[t.type]
      /\ t.format = "coordinate" => InOrder(first)
  BY <1>1, <1>4, FirstHolds
<1>6. Origin(file.m, t)
  BY DEF MadeInv, Made
<1>7. PICK n : /\ MadeFrom(n, t)
               /\ Kind(n.values.type) = Kind(TypeOf[t.type])
               /\ file.m = n \/ (n.format = "COO" /\ file.m = CsrOf(n))
  BY <1>6 DEF Origin
<1>8. Readable(t) /\ Holds(n, u) /\ (t.format = "coordinate" => InOrder(n))
  BY <1>6, <1>7 DEF Origin, MadeFrom
<1>9. ~HasNaN(t) /\ Distinct(t) /\ PointersFit(t, file.m.format)
  BY DEF Comparable
<1>10. first.format = n.format /\ Equivalent(first, n)
  BY <1>1, <1>5, <1>7, <1>8, <1>9, HeldEquivalent
<1>11. first.format \in {"COO", "DMATR"}
  BY <1>4, FirstFormat
<1>12. CASE file.m = n
  <2>1. /\ \A x \in {"nrows", "ncols", "nnz", "is_iso", "structure", "values"} : matrix[x] = n[x]
        /\ matrix.indices_0 = n.indices_0 /\ matrix.indices_1 = n.indices_1
        /\ matrix.pointers_to_1 = n.pointers_to_1
    BY <1>3, <1>12 DEF Same, Keys
  <2>2. Equivalent(first, matrix)
    BY <1>10, <2>1, EquivalentSame
  <2>3. first.format = matrix.format
    BY <1>3, <1>10, <1>12
  <2>4. QED
    BY <1>11, <2>2, <2>3 DEF Verdict
<1>13. CASE n.format = "COO" /\ file.m = CsrOf(n)
  <2>1. u.format = "coordinate"
    BY <1>8, <1>13 DEF Holds, Filled
  <2>2. CsrOf(n).format = "CSR"
    BY <1>5, <1>8, <2>1, CsrFacts
  <2>3. PointersFit(u, "CSR")
    <3>1. PointersFit(t, "CSR")
      BY <1>9, <1>13, <2>2
    <3>2. u.nnz = t.nnz /\ u.nrows = t.nrows /\ u.ncols = t.ncols /\ u.type = t.type
      BY <1>1, DeclampedTextFacts
    <3>3. QED
      BY <3>1, <3>2 DEF PointersFit
  <2>4. matrix.format = "CSR" /\ Same(matrix, CsrOf(n)) /\ InOrder(n)
    BY <1>3, <1>5, <1>8, <1>13, <2>1, <2>2
  <2> DEFINE c == CooOf(matrix)
  <2>5. /\ ~RowsMissing(matrix) /\ ~RowsBeyond(matrix)
        /\ \A x \in {"nrows", "ncols", "nnz", "is_iso", "structure", "values"} : c[x] = n[x]
        /\ c.indices_0.data = n.indices_0.data /\ c.indices_1.data = n.indices_1.data
        /\ c.pointers_to_1 = n.pointers_to_1
    BY <1>3, <1>5, <1>8, <2>1, <2>3, <2>4, BackAgain
  <2>6. first.format = "COO" /\ AsCoo(first) = first /\ AsCoo(matrix) = c
    BY <1>10, <1>13, <2>4 DEF AsCoo
  <2>7. ~NoArrays(matrix)
    BY <1>3 DEF NoArrays, Formed, ValueTypes, FloatTypes
  <2>10. ~ComparesUnwritten(first, c)
    <3>1. matrix.nrows \in Nat
      BY <1>3, FormedNumbers
    <3>2. \A k \in DOMAIN c.indices_0.data : c.indices_0.data[k] # Junk
      BY <1>3, <2>5, <3>1, UnwrittenRow DEF RowsMissing
    <3> HIDE DEF c
    <3>3. QED
      BY <3>2 DEF ComparesUnwritten
  <2> HIDE DEF c
  <2>8. Equivalent(first, c)
    BY <1>10, <2>5, EquivalentSame
  <2>9. QED
    BY <2>4, <2>5, <2>6, <2>7, <2>8, <2>10 DEF Verdict
<1>14. QED
  BY <1>7, <1>12, <1>13

LEMMA CompareJudged ==
    ASSUME IInv, IInv', VInv, MadeInv, JudgedInv, Compare PROVE JudgedInv'
<1>1. UnderWay /\ Call = "compare" /\ Comparing
  BY DEF Compare, Calls, At, UnderWay, Call, Comparing
<1>2. Program \in Checks
  BY <1>1, Comparers
<1>3. CASE Dies("undefined", TRUE)
  <2>1. "undefined" \in Ends \ {"exit 0"} /\ End("undefined", TRUE) /\ UNCHANGED <<file, copy>>
    BY <1>3 DEF Ends, Dies
  <2>2. QED
    BY <1>1, <2>1, DeathJudged
<1>4. CASE Dies(Verdict(first, matrix), FALSE)
  <2>1. CASE Verdict(first, matrix) = "exit 0"
    <3>1. Dies("exit 0", FALSE)
      BY <1>4, <2>1
    <3>2. Program \in {"check", "check_parallel"} => Accurate("exit 0")
      BY <1>1, <2>1, VerdictAccurate
    <3>3. Program # "bsp2mtx" /\ Program # "mtx2bsp"
      BY <1>2 DEF Checks
    <3>4. QED
      BY <1>1, <3>1, <3>2, <3>3, ExitJudged
  <2>2. CASE Verdict(first, matrix) # "exit 0"
    <3>1. PICK how \in Ends \ {"exit 0"} : how = Verdict(first, matrix)
      BY <2>2, VerdictIs DEF Verdicts, Ends
    <3>2. End(how, FALSE) /\ UNCHANGED <<file, copy>>
      BY <1>4, <3>1 DEF Dies
    <3>3. ~faulted /\ how \in Deaths => Excused(Program)
      BY <1>1, <3>1, CompareExcused
    <3>4. ~(/\ ~faulted /\ Program \in {"check", "check_parallel"} /\ Made(1)
            /\ Complete(input.text) /\ Comparable(input.text, file.m.format))
      BY <1>1, <2>2, VerdictRecognises
    <3>5. QED
      BY <1>1, <3>2, <3>3, <3>4, DeathJudged
  <2>3. QED
    BY <2>1, <2>2
<1>6. CASE Dies("undefined", FALSE) /\ file.flaw = "nnz_type"
  <2>1. "undefined" \in Ends \ {"exit 0"} /\ End("undefined", FALSE) /\ UNCHANGED <<file, copy>>
    BY <1>6 DEF Ends, Dies
  <2>2. Excused(Program) /\ ~Made(1)
    BY <1>1, <1>6, NumberExcused
  <2>3. QED
    BY <1>1, <2>1, <2>2, DeathJudged
<1>5. QED
  BY <1>3, <1>4, <1>6 DEF Compare

--------------------------------------------------------------------------------
(* All programs and sessions. *)

LEMMA ReadNextJudged ==
    ASSUME IInv, IInv', JudgedInv, ReadNext PROVE JudgedInv'
<1>1. CASE ReadAsserts
  BY <1>1, ReadAssertsJudged
<1>4. CASE ReadCrashes
  BY <1>4, ReadCrashesJudged
<1>2. CASE ~ReadAsserts /\ ~ReadCrashes
  <2>1. UNCHANGED <<input, ended, file, copy>>
    BY <1>2 DEF ReadNext, ReadOpen, ReadOpenFails, ReadDescriptor, ReadReturns, ReadArray,
       ReadArrayFails, Go, Return
  <2>2. QED
    BY <2>1, JudgedStays
<1>3. QED
  BY <1>1, <1>2, <1>4

\* The calls that always return.
LEMMA ReturnsJudged ==
    ASSUME IInv, JudgedInv,
           DeclampValues \/ Convert \/ WriteFile \/ KeepFirst \/ ToCoo \/ MmWrite \/ Over
    PROVE  JudgedInv'
<1>1. CASE DeclampValues \/ Convert \/ WriteFile
  <2>1. PICK c \in MakeCalls : Calls(c)
    BY <1>1 DEF DeclampValues, Convert, WriteFile, MakeCalls
  <2>2. UNCHANGED <<input, ended, copy>>
    BY <1>1 DEF DeclampValues, Convert, WriteFile, Return, KeepFiles
  <2>3. QED
    BY <2>1, <2>2, MakeReturnsJudged
<1>2. CASE KeepFirst \/ ToCoo \/ Over
  <2>1. UNCHANGED <<input, ended, file, copy>>
    BY <1>2 DEF KeepFirst, ToCoo, Over, Return, KeepFiles, programVars
  <2>2. QED
    BY <2>1, JudgedStays
<1>3. CASE MmWrite
  <2>1. UnderWay /\ Call = "mmwrite" /\ UNCHANGED <<input, ended, file>>
    BY <1>3 DEF MmWrite, At, UnderWay, Call, Return
  <2>2. Program = "bsp2mtx"
    BY <2>1, CallUnderWay DEF IInv, Succession, Final
  <2>3. QED
    BY <2>1, <2>2, JudgedStays
<1>4. QED
  BY <1>1, <1>2, <1>3

LEMMA NextJudged ==
    ASSUME IInv, IInv', MmreadInv, VInv, MadeInv, JudgedInv, [Next]_vars PROVE JudgedInv'
<1>1. CASE MatrixNext
  <2>1. CASE DeclampValues \/ Convert \/ WriteFile \/ KeepFirst \/ ToCoo \/ MmWrite \/ Over
    BY <2>1, ReturnsJudged
  <2>2. CASE CheckArguments \/ MinimizeValues \/ ConvertFails \/ WriteFileFails \/ Finish
    BY <2>2, CheckArgumentsJudged, MinimizeJudged, ConvertFailsJudged, WriteFileFailsJudged,
       FinishJudged
  <2>3. CASE Compare \/ ToCooFails \/ MmWriteFails \/ BspCheck
    BY <2>3, CompareJudged, ToCooFailsJudged, MmWriteFailsJudged, BspCheckJudged
  <2>4. CASE ReadNext \/ MmNext
    BY <2>4, ReadNextJudged, MmNextJudged
  <2>5. QED
    BY <1>1, <2>1, <2>2, <2>3, <2>4 DEF MatrixNext
<1>2. CASE TensorNext
  BY <1>2, TensorJudged
<1>3. CASE UNCHANGED vars
  BY <1>3, JudgedStays DEF vars, programVars
<1>4. QED
  BY <1>1, <1>2, <1>3 DEF Next

LEMMA InitJudged == Init => JudgedInv
<1> SUFFICES ASSUME Init PROVE JudgedInv
  OBVIOUS
<1>1. DOMAIN ended = {}
  BY EmptySeq DEF Init
<1>2. QED
  BY <1>1 DEF JudgedInv

\* The invariant of the sessions: what the programs hold, and what is said of the ended.
SessionsInv ==
    /\ IInv /\ TensorInv
    /\ MmreadInv /\ ResultInv /\ ContentInv /\ MadeInv
    /\ VInv /\ JudgedInv

LEMMA SessionsKeep == Spec => []SessionsInv
<1>1. Init => SessionsInv
  BY InitIInv, InitTensor, InitReads, InitContent, InitValues, InitJudged DEF SessionsInv
<1>2. SessionsInv /\ [Next]_vars => SessionsInv'
  <2> SUFFICES ASSUME SessionsInv, [Next]_vars PROVE SessionsInv'
    OBVIOUS
  <2>1. IInv /\ TensorInv /\ MmreadInv /\ ResultInv /\ ContentInv /\ MadeInv /\ VInv /\ JudgedInv
    BY DEF SessionsInv
  <2>2. IInv' /\ TensorInv'
    BY <2>1, NextIInv, NextTensor
  <2>3. MmreadInv' /\ ResultInv'
    BY <2>1, <2>2, NextReads
  <2>4. ContentInv' /\ MadeInv'
    BY <2>1, <2>2, NextContent
  <2>5. VInv'
    BY <2>1, <2>2, NextValues
  <2>6. JudgedInv'
    BY <2>1, <2>2, NextJudged
  <2>7. QED
    BY <2>2, <2>3, <2>4, <2>5, <2>6 DEF SessionsInv
<1>3. QED
  BY <1>1, <1>2, PTL DEF Spec

\* What check_equivalence says of the Binsparse file and the Matrix Market file: that it
\* finds equivalent what mtx2bsp has made, but for NaNs, duplicates and overflows, and
\* nothing that does not denote the same matrix, in every session.
THEOREM VerdictsRight == Spec => []VerdictRight
<1>1. SessionsInv => VerdictRight
  <2> SUFFICES ASSUME SessionsInv, NEW k \in DOMAIN ended,
                      ended[k].program \in {"check", "check_parallel"}
               PROVE  LET t == input.text
                      IN  /\ ended[k].how = "exit 0" /\ Complete(t) =>
                                ReadAs(file.m, DeclampedText(t)) /\ ~HasNaN(t)
                          /\ Made(1) /\ ended[k].clean /\ Complete(t)
                                /\ Comparable(t, file.m.format) =>
                                ended[k].how = "exit 0"
    BY DEF VerdictRight
  <2>1. Fair(ended[k].program, ended[k].how, ended[k].clean)
    BY DEF SessionsInv, JudgedInv
  <2>2. QED
    BY <2>1 DEF Fair, Accurate, Recognised
<1>2. QED
  BY <1>1, SessionsKeep, PTL

\* The Matrix Market file that bsp2mtx makes denotes the matrix of the Binsparse file, if
\* and only if no single value other than 1 stands for all of its entries.
THEOREM CopiesFaithful == Spec => []CopyFaithful
<1>1. SessionsInv => CopyFaithful
  <2> SUFFICES ASSUME SessionsInv, NEW k \in DOMAIN ended,
                      ended[k].program = "bsp2mtx", ended[k].how = "exit 0"
               PROVE  TextEntries(copy) = Entries(file.m)
                         <=> (file.m.is_iso /\ file.m.nnz > 0 => ValueOf(file.m, 0) = <<1, 0>>)
    BY DEF CopyFaithful
  <2>1. Fair(ended[k].program, ended[k].how, ended[k].clean)
    BY DEF SessionsInv, JudgedInv
  <2>2. QED
    BY <2>1 DEF Fair, IsTextOf
<1>2. QED
  BY <1>1, SessionsKeep, PTL

\* A program in which no call has failed dies only of the inputs that DeathsExplained
\* lists.
THEOREM DeathsAlwaysExplained == Spec => []DeathsExplained
<1>1. SessionsInv => DeathsExplained
  <2> SUFFICES ASSUME SessionsInv, NEW k \in DOMAIN ended, ended[k].clean,
                      ended[k].how \in {"abort", "crash", "undefined"}
               PROVE  LET e == ended[k]
                          t == input.text
                      IN  CASE e.program = "mtx2bsp" ->
                                  \/ UnreadableText(t) \/ EmptyIntegers(t)
                                  \/ Unconvertible(t, input.format)
                            [] e.program \in {"check", "check_parallel"} ->
                                  \/ ~t.valid \/ UnreadableText(t)
                                  \/ t.format = "array" /\ file.exists /\ file.m.format # "DMATR"
                                  \/ DeadlyFile(e.program = "check_parallel")
                            [] e.program = "bsp2mtx" ->
                                  \/ DeadlyFile(FALSE)
                                  \/ file.exists /\ file.m.structure \notin Structures
                            [] e.program = "check_copy" -> ~copy.valid \/ DeadlyFile(FALSE)
                            [] e.program = "benchmark_read" -> DeadlyRead(FALSE)
                            [] e.program = "benchmark_read_parallel" -> DeadlyRead(TRUE)
                            [] e.program = "tensor_test" -> ~SourceWhole \/ KeysNamed
    BY DEF DeathsExplained
  <2>1. Fair(ended[k].program, ended[k].how, ended[k].clean)
    BY DEF SessionsInv, JudgedInv
  <2>2. CASE ended[k].program = "tensor_test"
    <3>1. SourceWhole => ended[k].how = "exit 0" \/ (ended[k].how = "undefined" /\ KeysNamed)
      BY <2>2 DEF SessionsInv, TensorInv, TensorAccepted
    <3>2. ~SourceWhole \/ KeysNamed
      BY <3>1
    <3>3. QED
      BY <2>2, <3>2
  <2>3. CASE ended[k].program # "tensor_test"
    <3>1. Excused(ended[k].program)
      BY <2>1, <2>3 DEF Fair, Deaths
    <3>2. QED
      BY <2>3, <3>1 DEF Excused
  <2>4. QED
    BY <2>2, <2>3
<1>2. QED
  BY <1>1, SessionsKeep, PTL

================================================================================
