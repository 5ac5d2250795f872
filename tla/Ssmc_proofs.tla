------------------------------- MODULE Ssmc_proofs -------------------------------
(******************************************************************************)
(* Proofs about the conversions of A and Zeros in a session: the counting     *)
(* sort of the coordinate writer and the generator of its row indices, the    *)
(* merge of the in-memory converter, and with them the types of a session;    *)
(* and what the coordinate writer scatters and writes, for all chunk sizes    *)
(* and any number of failed and repeated calls.                               *)
(******************************************************************************)
EXTENDS Mex_proofs, FiniteSetTheorems

--------------------------------------------------------------------------------
(* Counting the entries of a matrix. *)

\* The entries of m before the n-th that are in row r, and those of the rows before r.
EntriesIn(m, n, r) == {p \in 0 .. n - 1 : m.rowind[p] = r}
EntriesBefore(m, r) == {p \in DOMAIN m.rowind : m.rowind[p] < r}

CountIn(m, n, r) == Cardinality(EntriesIn(m, n, r))
CountBefore(m, r) == Cardinality(EntriesBefore(m, r))

LEMMA WideCap == Base * Base \in Nat /\ NarrowMax < Base * Base
<1>1. NarrowMax * NarrowMax \in Nat
  BY NarrowMaxAssumption
<1>2. Base * Base = NarrowMax * NarrowMax + 2 * NarrowMax + 1
  BY NarrowMaxAssumption DEF Base
<1>3. QED
  BY <1>1, <1>2, NarrowMaxAssumption

LEMMA MatrixFacts ==
    ASSUME NEW m, IsMatlabMatrix(m)
    PROVE  /\ m.nrows \in Nat /\ m.nrows <= Base * Base
           /\ m.ncols \in Nat /\ m.ncols <= Base * Base
           /\ \A c \in 0 .. m.ncols : m.colptr[c] \in Nat /\ m.colptr[c] <= Nnz(m)
           /\ Nnz(m) \in Nat
           /\ DOMAIN m.rowind = 0 .. Nnz(m) - 1
           /\ \A p \in 0 .. Nnz(m) - 1 : m.rowind[p] \in 0 .. m.nrows - 1
<1>1. m.nrows \in Nat /\ m.ncols \in Nat /\ m.nrows <= Base * Base /\ m.ncols <= Base * Base
  BY WideCap DEF IsMatlabMatrix
<1>2. \A c \in 0 .. m.ncols : m.colptr[c] \in Nat
  BY DEF IsMatlabMatrix
<1>3. m.ncols \in 0 .. m.ncols
  BY <1>1
<1>4. \A c \in 0 .. m.ncols : m.colptr[c] <= Nnz(m)
  BY <1>1, <1>3 DEF IsMatlabMatrix, Nnz
<1>5. Nnz(m) \in Nat
  BY <1>2, <1>3 DEF Nnz
<1>6. QED
  BY <1>1, <1>2, <1>4, <1>5 DEF IsMatlabMatrix

LEMMA CountInType ==
    ASSUME NEW m, NEW n \in Nat, NEW r
    PROVE  IsFiniteSet(EntriesIn(m, n, r)) /\ CountIn(m, n, r) \in Nat
<1>1. IsFiniteSet(0 .. n - 1)
  BY FS_Interval
<1>2. EntriesIn(m, n, r) \in SUBSET (0 .. n - 1)
  BY DEF EntriesIn
<1>3. IsFiniteSet(EntriesIn(m, n, r))
  BY <1>1, <1>2, FS_Subset
<1>4. QED
  BY <1>3, FS_CardinalityType DEF CountIn

LEMMA CountZero == ASSUME NEW m, NEW r PROVE CountIn(m, 0, r) = 0
<1>1. EntriesIn(m, 0, r) = {}
  BY DEF EntriesIn
<1>2. QED
  BY <1>1, FS_EmptySet DEF CountIn

LEMMA CountNext ==
    ASSUME NEW m, NEW n \in Nat, NEW r
    PROVE  CountIn(m, n + 1, r) = IF m.rowind[n] = r THEN CountIn(m, n, r) + 1
                                                      ELSE CountIn(m, n, r)
<1>1. IsFiniteSet(EntriesIn(m, n, r))
  BY CountInType
<1>2. CASE m.rowind[n] = r
  <2>1. EntriesIn(m, n + 1, r) = EntriesIn(m, n, r) \cup {n} /\ n \notin EntriesIn(m, n, r)
    BY <1>2 DEF EntriesIn
  <2>2. QED
    BY <1>1, <1>2, <2>1, FS_AddElement DEF CountIn
<1>3. CASE m.rowind[n] # r
  <2>1. EntriesIn(m, n + 1, r) = EntriesIn(m, n, r)
    BY <1>3 DEF EntriesIn
  <2>2. QED
    BY <2>1, <1>3 DEF CountIn
<1>4. QED
  BY <1>2, <1>3

LEMMA CountMonotone ==
    ASSUME NEW m, NEW n \in Nat, NEW l \in Nat, n <= l, NEW r
    PROVE  CountIn(m, n, r) <= CountIn(m, l, r)
<1>1. EntriesIn(m, n, r) \in SUBSET EntriesIn(m, l, r)
  BY DEF EntriesIn
<1>2. QED
  BY <1>1, CountInType, FS_Subset DEF CountIn

LEMMA CountBeforeType ==
    ASSUME NEW m, IsMatlabMatrix(m), NEW r
    PROVE  IsFiniteSet(EntriesBefore(m, r)) /\ CountBefore(m, r) \in Nat
<1>1. IsFiniteSet(0 .. Nnz(m) - 1)
  BY FS_Interval, MatrixFacts
<1>2. EntriesBefore(m, r) \in SUBSET (0 .. Nnz(m) - 1)
  BY MatrixFacts DEF EntriesBefore
<1>3. IsFiniteSet(EntriesBefore(m, r))
  BY <1>1, <1>2, FS_Subset
<1>4. QED
  BY <1>3, FS_CardinalityType DEF CountBefore

LEMMA CountBeforeMonotone ==
    ASSUME NEW m, IsMatlabMatrix(m), NEW r \in Int, NEW s \in Int, r <= s
    PROVE  CountBefore(m, r) <= CountBefore(m, s)
<1>1. EntriesBefore(m, r) \in SUBSET EntriesBefore(m, s)
  BY MatrixFacts DEF EntriesBefore
<1>2. QED
  BY <1>1, CountBeforeType, FS_Subset DEF CountBefore

LEMMA CountBeforeEnds ==
    ASSUME NEW m, IsMatlabMatrix(m)
    PROVE  CountBefore(m, 0) = 0 /\ CountBefore(m, m.nrows) = Nnz(m)
<1>1. EntriesBefore(m, 0) = {}
  BY MatrixFacts DEF EntriesBefore
<1>2. EntriesBefore(m, m.nrows) = 0 .. Nnz(m) - 1
  BY MatrixFacts DEF EntriesBefore
<1>3. Cardinality(0 .. Nnz(m) - 1) = Nnz(m)
  BY FS_Interval, MatrixFacts
<1>4. QED
  BY <1>1, <1>2, <1>3, FS_EmptySet DEF CountBefore

LEMMA CountBeforeNext ==
    ASSUME NEW m, IsMatlabMatrix(m), NEW r \in Nat
    PROVE  CountBefore(m, r + 1) = CountBefore(m, r) + CountIn(m, Nnz(m), r)
<1> DEFINE S == EntriesBefore(m, r)
           T == EntriesIn(m, Nnz(m), r)
<1>1. EntriesBefore(m, r + 1) = S \cup T /\ S \cap T = {}
  BY MatrixFacts DEF EntriesBefore, EntriesIn
<1>2. IsFiniteSet(S) /\ Cardinality(S) \in Nat
  BY CountBeforeType DEF CountBefore
<1>3. IsFiniteSet(T) /\ Cardinality(T) \in Nat
  BY CountInType, MatrixFacts DEF CountIn
<1>4. Cardinality(S \cup T) = Cardinality(S) + Cardinality(T) - Cardinality(S \cap T)
  BY <1>2, <1>3, FS_Union
<1>5. Cardinality(S \cap T) = 0
  BY <1>1, FS_EmptySet
<1>6. Cardinality(S \cup T) = Cardinality(S) + Cardinality(T)
  BY <1>2, <1>3, <1>4, <1>5
<1>7. QED
  BY <1>1, <1>6 DEF CountBefore, CountIn

--------------------------------------------------------------------------------
(* The counting sort. *)

\* Two matrices of one shape.
SameShape(m, n) ==
    /\ IsMatlabMatrix(m) /\ IsMatlabMatrix(n)
    /\ m.nrows = n.nrows /\ m.ncols = n.ncols

\* Where row r of both begins.
Start(m, n, r) == CountBefore(m, r) + CountBefore(n, r)

LEMMA StartFacts ==
    ASSUME NEW m, NEW n, SameShape(m, n)
    PROVE  /\ Start(m, n, 0) = 0
           /\ Start(m, n, m.nrows) = Nnz(m) + Nnz(n)
           /\ \A r \in Nat : Start(m, n, r) \in Nat
           /\ \A r, s \in Nat : r <= s => Start(m, n, r) <= Start(m, n, s)
           /\ \A r \in Nat : Start(m, n, r + 1) =
                 Start(m, n, r) + CountIn(m, Nnz(m), r) + CountIn(n, Nnz(n), r)
<1>1. Start(m, n, 0) = 0 /\ Start(m, n, m.nrows) = Nnz(m) + Nnz(n)
  BY CountBeforeEnds, MatrixFacts DEF SameShape, Start
<1>2. \A r \in Nat : Start(m, n, r) \in Nat
  BY CountBeforeType DEF SameShape, Start
<1>3. ASSUME NEW r \in Nat, NEW s \in Nat, r <= s
      PROVE  Start(m, n, r) <= Start(m, n, s)
  BY <1>3, CountBeforeType, CountBeforeMonotone DEF SameShape, Start
<1>4. ASSUME NEW r \in Nat
      PROVE  Start(m, n, r + 1) =
                 Start(m, n, r) + CountIn(m, Nnz(m), r) + CountIn(n, Nnz(n), r)
  <2>1. Nnz(m) \in Nat /\ Nnz(n) \in Nat
    BY MatrixFacts DEF SameShape
  <2>2. /\ CountBefore(m, r) \in Nat /\ CountIn(m, Nnz(m), r) \in Nat
        /\ CountBefore(n, r) \in Nat /\ CountIn(n, Nnz(n), r) \in Nat
    BY <2>1, CountBeforeType, CountInType DEF SameShape
  <2>3. QED
    BY <2>2, CountBeforeNext DEF SameShape, Start
<1>5. QED
  BY <1>1, <1>2, <1>3, <1>4

\* The next entry p of m is in column c, or behind it if the column is finished.
CursorIn(m, p, c) ==
    /\ c \in 0 .. m.ncols /\ p \in Nat
    /\ m.colptr[c] <= p
    /\ p <= IF c < m.ncols THEN m.colptr[c + 1] ELSE Nnz(m)

\* The place k of row r holds in d a column that was finished before, or c, of
\* which the entries that are left come in later rows.
PlaceInOrder(m, p, n, q, c, d, r, k) ==
    /\ d[k] \in 0 .. c
    /\ d[k] = c => /\ Left(m, p, c) => r < m.rowind[p]
                   /\ Left(n, q, c) => r < n.rowind[q]

\* The entries of m before p and those of n before q are scattered, column c
\* being next: pos has the next place of each row, and d the columns in place.
InRowOrder(m, p, n, q, c, pos, d) ==
    /\ CursorIn(m, p, c) /\ CursorIn(n, q, c)
    /\ pos = [r \in 0 .. m.nrows - 1 |->
                Start(m, n, r) + CountIn(m, p, r) + CountIn(n, q, r)]
    /\ \A r \in 0 .. m.nrows - 1 : \A k \in Start(m, n, r) .. pos[r] - 1 :
          /\ PlaceInOrder(m, p, n, q, c, d, r, k)
          /\ \A l \in Start(m, n, r) .. k - 1 : d[l] < d[k]

LEMMA CursorFacts ==
    ASSUME NEW m, IsMatlabMatrix(m), NEW p, NEW c, CursorIn(m, p, c)
    PROVE  /\ p \in 0 .. Nnz(m)
           /\ c < m.ncols => c + 1 \in 0 .. m.ncols /\ m.colptr[c + 1] \in Nat
                             /\ m.colptr[c + 1] <= Nnz(m)
           /\ c = m.ncols => p = Nnz(m)
           /\ c < m.ncols /\ Left(m, p, c) =>
                 /\ CursorIn(m, p + 1, c)
                 /\ p \in 0 .. Nnz(m) - 1
                 /\ Left(m, p + 1, c) => m.rowind[p] < m.rowind[p + 1]
           /\ c < m.ncols /\ ~Left(m, p, c) => CursorIn(m, p, c + 1)
<1>1. m.ncols \in Nat /\ Nnz(m) \in Nat /\ p \in Nat /\ c \in 0 .. m.ncols
  BY MatrixFacts DEF CursorIn
<1>2. c < m.ncols => c + 1 \in 0 .. m.ncols /\ m.colptr[c + 1] \in Nat
                     /\ m.colptr[c + 1] <= Nnz(m)
  BY <1>1, MatrixFacts
<1>3. m.colptr[c] \in Nat
  BY <1>1, MatrixFacts
<1>4. p \in 0 .. Nnz(m) /\ (c = m.ncols => p = Nnz(m))
  BY <1>1, <1>2, <1>3 DEF CursorIn, Nnz
<1>5. ASSUME c < m.ncols, Left(m, p, c)
      PROVE  /\ CursorIn(m, p + 1, c)
             /\ p \in 0 .. Nnz(m) - 1
             /\ Left(m, p + 1, c) => m.rowind[p] < m.rowind[p + 1]
  <2>1. CursorIn(m, p + 1, c) /\ p \in 0 .. Nnz(m) - 1
    BY <1>1, <1>2, <1>3, <1>5 DEF CursorIn, Left
  <2>2. ASSUME Left(m, p + 1, c) PROVE m.rowind[p] < m.rowind[p + 1]
    <3>1. c \in 0 .. m.ncols - 1
      BY <1>1, <1>5
    <3>2. p \in m.colptr[c] .. m.colptr[c + 1] - 1 /\ p + 1 \in m.colptr[c] .. m.colptr[c + 1] - 1
      BY <1>1, <1>2, <1>3, <1>5, <2>2 DEF CursorIn, Left
    <3>3. QED
      BY <3>1, <3>2, <1>1 DEF IsMatlabMatrix
  <2>3. QED
    BY <2>1, <2>2
<1>6. ASSUME c < m.ncols, ~Left(m, p, c) PROVE CursorIn(m, p, c + 1)
  <2>1. p = m.colptr[c + 1]
    BY <1>1, <1>2, <1>6 DEF CursorIn, Left
  <2>2. c + 1 < m.ncols => m.colptr[c + 1] <= m.colptr[(c + 1) + 1]
    BY <1>1, <1>2 DEF IsMatlabMatrix
  <2>3. p <= IF c + 1 < m.ncols THEN m.colptr[(c + 1) + 1] ELSE Nnz(m)
    BY <1>2, <1>6, <2>1, <2>2
  <2>4. m.colptr[c + 1] <= p /\ c + 1 \in 0 .. m.ncols
    BY <1>1, <1>2, <1>6, <2>1
  <2>5. QED
    BY <1>1, <2>3, <2>4 DEF CursorIn
<1>7. QED
  BY <1>2, <1>4, <1>5, <1>6

\* The rows of a place: what scattered rows look like.
LEMMA PositionFacts ==
    ASSUME NEW m, NEW n, SameShape(m, n), NEW p, NEW q, NEW c, NEW pos, NEW d,
           InRowOrder(m, p, n, q, c, pos, d), NEW r \in 0 .. m.nrows - 1
    PROVE  /\ pos[r] = Start(m, n, r) + CountIn(m, p, r) + CountIn(n, q, r)
           /\ CountIn(m, p, r) \in Nat /\ CountIn(n, q, r) \in Nat /\ Start(m, n, r) \in Nat
           /\ pos[r] \in Nat /\ pos[r] <= Start(m, n, r + 1)
<1>1. p \in 0 .. Nnz(m) /\ q \in 0 .. Nnz(n) /\ Nnz(m) \in Nat /\ Nnz(n) \in Nat
  BY CursorFacts, MatrixFacts DEF InRowOrder, SameShape
<1>2. pos[r] = Start(m, n, r) + CountIn(m, p, r) + CountIn(n, q, r)
  BY DEF InRowOrder
<1>3. /\ CountIn(m, p, r) \in Nat /\ CountIn(m, Nnz(m), r) \in Nat
      /\ CountIn(n, q, r) \in Nat /\ CountIn(n, Nnz(n), r) \in Nat
  BY <1>1, CountInType
<1>4. CountIn(m, p, r) <= CountIn(m, Nnz(m), r) /\ CountIn(n, q, r) <= CountIn(n, Nnz(n), r)
  BY <1>1, CountMonotone
<1>5. r \in Nat
  BY MatrixFacts DEF SameShape
<1>6. Start(m, n, r) \in Nat /\ Start(m, n, r + 1) =
                 Start(m, n, r) + CountIn(m, Nnz(m), r) + CountIn(n, Nnz(n), r)
  BY <1>5, StartFacts
<1>7. QED
  BY <1>2, <1>3, <1>4, <1>6

\* The two matrices may be exchanged.
LEMMA Exchanged ==
    ASSUME NEW m, NEW n, SameShape(m, n), NEW p, NEW q, NEW c, NEW pos, NEW d,
           InRowOrder(m, p, n, q, c, pos, d)
    PROVE  SameShape(n, m) /\ InRowOrder(n, q, m, p, c, pos, d)
<1>1. SameShape(n, m)
  BY DEF SameShape
<1>2. ASSUME NEW r \in 0 .. m.nrows - 1
      PROVE  /\ Start(n, m, r) = Start(m, n, r)
             /\ Start(m, n, r) + CountIn(m, p, r) + CountIn(n, q, r)
                   = Start(n, m, r) + CountIn(n, q, r) + CountIn(m, p, r)
  <2>1. r \in Nat
    BY MatrixFacts DEF SameShape
  <2>2. Start(n, m, r) = Start(m, n, r)
    BY <2>1, CountBeforeType DEF Start, SameShape
  <2>3. QED
    BY <2>2, PositionFacts
<1>3. pos = [r \in 0 .. n.nrows - 1 |->
                Start(n, m, r) + CountIn(n, q, r) + CountIn(m, p, r)]
  BY <1>2 DEF InRowOrder, SameShape
<1>4. ASSUME NEW r \in 0 .. n.nrows - 1, NEW k \in Start(n, m, r) .. pos[r] - 1
      PROVE  /\ PlaceInOrder(n, q, m, p, c, d, r, k)
             /\ \A l \in Start(n, m, r) .. k - 1 : d[l] < d[k]
  <2>1. r \in 0 .. m.nrows - 1 /\ Start(n, m, r) = Start(m, n, r)
    BY <1>2 DEF SameShape
  <2>2. PlaceInOrder(m, p, n, q, c, d, r, k) /\ \A l \in Start(n, m, r) .. k - 1 : d[l] < d[k]
    BY <2>1, <1>4 DEF InRowOrder
  <2>3. QED
    BY <2>2 DEF PlaceInOrder
<1>5. QED
  BY <1>1, <1>3, <1>4 DEF InRowOrder

\* The function f with the value v at x.
Puts(f, x, v, g) == g = [f EXCEPT ![x] = v]

\* The places of the rows, after a column was put into the next place of row s.
OnePlaceMore(m, n, s, pos, posn, d, dn, c) ==
    /\ s \in 0 .. m.nrows - 1
    /\ pos[s] \in Start(m, n, s) .. posn[s] - 1 /\ dn[pos[s]] = c
    /\ \A r \in 0 .. m.nrows - 1 : \A k \in Start(m, n, r) .. pos[r] - 1 :
          /\ k \in Start(m, n, r) .. posn[r] - 1
          /\ k # pos[s] /\ k \in DOMAIN d /\ dn[k] = d[k]
    /\ \A r \in 0 .. m.nrows - 1 : \A k \in Start(m, n, r) .. posn[r] - 1 :
          (r = s /\ k = pos[s]) \/ k \in Start(m, n, r) .. pos[r] - 1

\* One entry goes to its row's next place.
LEMMA Takes ==
    ASSUME NEW m, NEW n, SameShape(m, n), NEW p, NEW q, NEW c, NEW pos, NEW d,
           InRowOrder(m, p, n, q, c, pos, d), c < m.ncols, Precedes(m, p, n, q, c),
           DOMAIN d = 0 .. Nnz(m) + Nnz(n) - 1,
           NEW posn, Puts(pos, m.rowind[p], pos[m.rowind[p]] + 1, posn),
           NEW dn, Puts(d, pos[m.rowind[p]], c, dn)
    PROVE  /\ InRowOrder(m, p + 1, n, q, c, posn, dn)
           /\ pos[m.rowind[p]] \in 0 .. Nnz(m) + Nnz(n) - 1
           /\ OnePlaceMore(m, n, m.rowind[p], pos, posn, d, dn, c)
<1> DEFINE s == m.rowind[p]
           x == pos[s]
<1>1. CursorIn(m, p, c) /\ CursorIn(n, q, c) /\ IsMatlabMatrix(m) /\ IsMatlabMatrix(n)
  BY DEF InRowOrder, SameShape
<1>2. Left(m, p, c) /\ (Left(n, q, c) => m.rowind[p] < n.rowind[q])
  BY DEF Precedes
<1>3. /\ CursorIn(m, p + 1, c) /\ p \in 0 .. Nnz(m) - 1
      /\ Left(m, p + 1, c) => m.rowind[p] < m.rowind[p + 1]
      /\ p + 1 \in 0 .. Nnz(m) /\ p + 1 \in Nat /\ p \in Nat
  <2>1. CursorIn(m, p + 1, c) /\ p \in 0 .. Nnz(m) - 1
        /\ (Left(m, p + 1, c) => m.rowind[p] < m.rowind[p + 1])
    BY <1>1, <1>2, CursorFacts
  <2>2. QED
    BY <2>1, <1>1, MatrixFacts
<1>4. s \in 0 .. m.nrows - 1 /\ s \in Nat
  BY <1>1, <1>3, MatrixFacts
<1>5. c \in 0 .. m.ncols /\ c \in Nat
  BY <1>1, MatrixFacts DEF CursorIn
<1>6. \A r \in 0 .. m.nrows - 1 :
          CountIn(m, p + 1, r) = IF r = s THEN CountIn(m, p, r) + 1 ELSE CountIn(m, p, r)
  BY <1>3, CountNext
<1>7. posn = [r \in 0 .. m.nrows - 1 |->
                Start(m, n, r) + CountIn(m, p + 1, r) + CountIn(n, q, r)]
  <2>1. DOMAIN pos = 0 .. m.nrows - 1
    BY DEF InRowOrder
  <2>2. ASSUME NEW r \in 0 .. m.nrows - 1
        PROVE  posn[r] = Start(m, n, r) + CountIn(m, p + 1, r) + CountIn(n, q, r)
    <3>1. /\ pos[r] = Start(m, n, r) + CountIn(m, p, r) + CountIn(n, q, r)
          /\ CountIn(m, p, r) \in Nat /\ CountIn(n, q, r) \in Nat /\ Start(m, n, r) \in Nat
      BY PositionFacts
    <3>2. posn[r] = IF r = s THEN pos[r] + 1 ELSE pos[r]
      BY <2>1 DEF Puts
    <3>3. CountIn(m, p + 1, r) = IF r = s THEN CountIn(m, p, r) + 1 ELSE CountIn(m, p, r)
      BY <1>6
    <3>4. QED
      BY <3>1, <3>2, <3>3
  <2>3. posn = [r \in 0 .. m.nrows - 1 |-> posn[r]]
    BY <2>1 DEF Puts
  <2>4. QED
    BY <2>2, <2>3
<1>8. x \in Nat /\ Start(m, n, s) \in Nat /\ Start(m, n, s) <= x /\ x < Start(m, n, s + 1)
  <2>1. Nnz(m) \in Nat /\ q \in 0 .. Nnz(n) /\ Nnz(n) \in Nat
    BY <1>1, MatrixFacts, CursorFacts
  <2>2. CountIn(m, p + 1, s) <= CountIn(m, Nnz(m), s)
    BY <1>3, <2>1, CountMonotone
  <2>3. CountIn(n, q, s) <= CountIn(n, Nnz(n), s)
    BY <2>1, CountMonotone
  <2>4. /\ CountIn(m, Nnz(m), s) \in Nat /\ CountIn(n, Nnz(n), s) \in Nat
        /\ CountIn(m, p, s) \in Nat /\ CountIn(n, q, s) \in Nat
    BY <1>3, <2>1, CountInType
  <2>5. x = Start(m, n, s) + CountIn(m, p, s) + CountIn(n, q, s)
    BY <1>4, PositionFacts
  <2>6. CountIn(m, p + 1, s) = CountIn(m, p, s) + 1
    BY <1>4, <1>6
  <2>7. Start(m, n, s) \in Nat /\ Start(m, n, s + 1) =
              Start(m, n, s) + CountIn(m, Nnz(m), s) + CountIn(n, Nnz(n), s)
    BY <1>4, StartFacts
  <2>8. QED
    BY <2>2, <2>3, <2>4, <2>5, <2>6, <2>7
<1>9. x \in 0 .. Nnz(m) + Nnz(n) - 1
  <2>1. s + 1 \in Nat /\ m.nrows \in Nat /\ s + 1 <= m.nrows
    BY <1>1, <1>4, MatrixFacts
  <2>2. Start(m, n, s + 1) <= Nnz(m) + Nnz(n) /\ Start(m, n, s + 1) \in Nat
    BY <2>1, StartFacts
  <2>3. Nnz(m) \in Nat /\ Nnz(n) \in Nat
    BY <1>1, MatrixFacts
  <2>4. QED
    BY <1>8, <2>2, <2>3, SMT
<1>10. dn[x] = c /\ \A k \in DOMAIN d \ {x} : dn[k] = d[k]
  BY <1>9 DEF Puts
<1>11. ASSUME NEW r \in 0 .. m.nrows - 1
       PROVE  /\ r \in Nat /\ Start(m, n, r) \in Nat /\ pos[r] \in Nat
              /\ pos[r] <= Nnz(m) + Nnz(n)
              /\ r # s => x \notin Start(m, n, r) .. pos[r] - 1
              /\ posn[r] = IF r = s THEN x + 1 ELSE pos[r]
  <2>1. r \in Nat /\ Start(m, n, r) \in Nat /\ pos[r] \in Nat /\ pos[r] <= Start(m, n, r + 1)
    BY <1>1, PositionFacts, MatrixFacts
  <2>2. Start(m, n, r + 1) \in Nat /\ Start(m, n, r + 1) <= Nnz(m) + Nnz(n)
    <3>1. r + 1 \in Nat /\ m.nrows \in Nat /\ r + 1 <= m.nrows
      BY <1>1, <2>1, MatrixFacts
    <3>2. QED
      BY <3>1, StartFacts
  <2>3. r < s => Start(m, n, r + 1) <= Start(m, n, s)
    <3>1. r + 1 \in Nat /\ (r < s => r + 1 <= s)
      BY <1>4, <2>1
    <3>2. QED
      BY <3>1, <1>4, StartFacts
  <2>4. s < r => Start(m, n, s + 1) <= Start(m, n, r) /\ Start(m, n, s + 1) \in Nat
    <3>1. s + 1 \in Nat /\ (s < r => s + 1 <= r)
      BY <1>4, <2>1
    <3>2. QED
      BY <3>1, <2>1, StartFacts
  <2>5. r # s => x \notin Start(m, n, r) .. pos[r] - 1
    BY <1>4, <1>8, <2>1, <2>2, <2>3, <2>4
  <2>6. posn[r] = IF r = s THEN x + 1 ELSE pos[r]
    BY DEF InRowOrder, Puts
  <2>7. Nnz(m) + Nnz(n) \in Nat
    BY <1>1, MatrixFacts
  <2>8. QED
    BY <2>1, <2>2, <2>5, <2>6, <2>7
<1>12. ASSUME NEW r \in 0 .. m.nrows - 1, NEW k \in Start(m, n, r) .. pos[r] - 1
       PROVE  k \in DOMAIN d \ {x} /\ dn[k] = d[k] /\ d[k] \in 0 .. c
              /\ PlaceInOrder(m, p, n, q, c, d, r, k)
  <2>1. k \in DOMAIN d \ {x}
    <3>1. Start(m, n, r) \in Nat /\ pos[r] \in Nat /\ pos[r] <= Nnz(m) + Nnz(n)
      BY <1>11
    <3>2. k # x
      <4>1. CASE r = s
        BY <4>1, <3>1, <1>8
      <4>2. CASE r # s
        BY <4>2, <1>11
      <4>3. QED
        BY <4>1, <4>2
    <3>3. Nnz(m) \in Nat /\ Nnz(n) \in Nat
      BY <1>1, MatrixFacts
    <3>4. k \in 0 .. Nnz(m) + Nnz(n) - 1
      BY <3>1, <3>3
    <3>5. QED
      BY <3>2, <3>4
  <2>2. PlaceInOrder(m, p, n, q, c, d, r, k)
    BY DEF InRowOrder
  <2>3. QED
    BY <2>1, <2>2, <1>10 DEF PlaceInOrder
<1>13. ASSUME NEW r \in 0 .. m.nrows - 1, NEW k \in Start(m, n, r) .. posn[r] - 1
       PROVE  /\ PlaceInOrder(m, p + 1, n, q, c, dn, r, k)
              /\ \A l \in Start(m, n, r) .. k - 1 : dn[l] < dn[k]
  <2>1. CASE r = s /\ k = x
    <3>1. dn[k] \in 0 .. c /\ dn[k] = c
      BY <2>1, <1>10, <1>5
    <3>2. PlaceInOrder(m, p + 1, n, q, c, dn, r, k)
      BY <2>1, <3>1, <1>2, <1>3 DEF PlaceInOrder
    <3>3. ASSUME NEW l \in Start(m, n, r) .. k - 1 PROVE dn[l] < dn[k]
      <4>1. l \in Start(m, n, r) .. pos[r] - 1
        BY <2>1
      <4>2. d[l] # c
        BY <4>1, <1>12, <1>2, <1>4, <2>1 DEF PlaceInOrder
      <4>3. QED
        BY <4>1, <4>2, <3>1, <1>12, <1>5
    <3>4. QED
      BY <3>2, <3>3
  <2>2. CASE ~(r = s /\ k = x)
    <3>1. k \in Start(m, n, r) .. pos[r] - 1
      BY <2>2, <1>11, <1>8
    <3>2. PlaceInOrder(m, p + 1, n, q, c, dn, r, k)
      <4>1. d[k] = c => r < m.rowind[p] /\ (Left(n, q, c) => r < n.rowind[q])
        BY <3>1, <1>12, <1>2 DEF PlaceInOrder
      <4>2. ASSUME Left(m, p + 1, c), r < m.rowind[p] PROVE r < m.rowind[p + 1]
        <5>1. p + 1 \in 0 .. Nnz(m) - 1
          BY <4>2, <1>1, <1>3, <1>5, CursorFacts, MatrixFacts DEF Left
        <5>2. m.rowind[p + 1] \in Nat /\ r \in Nat
          BY <5>1, <1>1, <1>11, MatrixFacts
        <5>3. QED
          BY <5>2, <4>2, <1>3, <1>4
      <4>3. QED
        BY <4>1, <4>2, <3>1, <1>12 DEF PlaceInOrder
    <3>3. ASSUME NEW l \in Start(m, n, r) .. k - 1 PROVE dn[l] < dn[k]
      <4>1. l \in Start(m, n, r) .. pos[r] - 1
        BY <3>1, <1>11
      <4>2. d[l] < d[k]
        BY <3>1 DEF InRowOrder
      <4>3. QED
        BY <4>1, <4>2, <3>1, <1>12
    <3>4. QED
      BY <3>2, <3>3
  <2>3. QED
    BY <2>1, <2>2
<1>14. OnePlaceMore(m, n, s, pos, posn, d, dn, c)
  <2>1. s \in 0 .. m.nrows - 1 /\ x \in Start(m, n, s) .. posn[s] - 1 /\ dn[x] = c
    BY <1>4, <1>8, <1>10, <1>11
  <2>2. ASSUME NEW r \in 0 .. m.nrows - 1, NEW k \in Start(m, n, r) .. pos[r] - 1
        PROVE  /\ k \in Start(m, n, r) .. posn[r] - 1
               /\ k # x /\ k \in DOMAIN d /\ dn[k] = d[k]
    <3>1. k \in DOMAIN d \ {x} /\ dn[k] = d[k]
      BY <1>12
    <3>2. QED
      BY <3>1, <1>11
  <2>3. ASSUME NEW r \in 0 .. m.nrows - 1, NEW k \in Start(m, n, r) .. posn[r] - 1
        PROVE  (r = s /\ k = x) \/ k \in Start(m, n, r) .. pos[r] - 1
    BY <1>11, <1>8
  <2>4. QED
    BY <2>1, <2>2, <2>3 DEF OnePlaceMore
<1>15. QED
  BY <1>1, <1>3, <1>7, <1>9, <1>13, <1>14 DEF InRowOrder

\* Nothing is scattered yet; a column is finished; everything is scattered.
LEMMA NothingScattered ==
    ASSUME NEW m, NEW n, SameShape(m, n), NEW pos, NEW d,
           pos = [r \in 0 .. m.nrows - 1 |-> Start(m, n, r)]
    PROVE  InRowOrder(m, 0, n, 0, 0, pos, d)
<1>1. ASSUME NEW x, IsMatlabMatrix(x) PROVE CursorIn(x, 0, 0)
  <2>1. x.ncols \in Nat /\ Nnz(x) \in Nat
    BY <1>1, MatrixFacts
  <2>2. 0 \in 0 .. x.ncols /\ (0 < x.ncols => 0 + 1 \in 0 .. x.ncols)
    BY <2>1
  <2>3. x.colptr[0] = 0 /\ (0 < x.ncols => x.colptr[0 + 1] \in Nat)
    BY <1>1, <2>2, MatrixFacts DEF IsMatlabMatrix
  <2>4. QED
    BY <2>1, <2>2, <2>3 DEF CursorIn
<1>2. ASSUME NEW r \in 0 .. m.nrows - 1
      PROVE  /\ pos[r] = Start(m, n, r) /\ Start(m, n, r) \in Nat
             /\ Start(m, n, r) = Start(m, n, r) + CountIn(m, 0, r) + CountIn(n, 0, r)
  <2>1. r \in Nat
    BY MatrixFacts DEF SameShape
  <2>2. Start(m, n, r) \in Nat
    BY <2>1, StartFacts
  <2>3. QED
    BY <2>2, CountZero
<1>3. pos = [r \in 0 .. m.nrows - 1 |->
                Start(m, n, r) + CountIn(m, 0, r) + CountIn(n, 0, r)]
  BY <1>2
<1>4. ASSUME NEW r \in 0 .. m.nrows - 1, NEW k \in Start(m, n, r) .. pos[r] - 1
      PROVE  FALSE
  BY <1>2
<1>5. QED
  BY <1>1, <1>3, <1>4 DEF InRowOrder, SameShape

LEMMA ColumnScattered ==
    ASSUME NEW m, NEW n, SameShape(m, n), NEW p, NEW q, NEW c, NEW pos, NEW d,
           InRowOrder(m, p, n, q, c, pos, d), c < m.ncols, ~Left(m, p, c), ~Left(n, q, c)
    PROVE  InRowOrder(m, p, n, q, c + 1, pos, d)
<1>1. CursorIn(m, p, c + 1) /\ CursorIn(n, q, c + 1) /\ c \in Nat
  <2>1. CursorIn(m, p, c) /\ CursorIn(n, q, c)
    BY DEF InRowOrder
  <2>2. CursorIn(m, p, c + 1) /\ CursorIn(n, q, c + 1)
    BY <2>1, CursorFacts DEF SameShape
  <2>3. QED
    BY <2>1, <2>2, MatrixFacts DEF SameShape, CursorIn
<1>2. ASSUME NEW r \in 0 .. m.nrows - 1, NEW k \in Start(m, n, r) .. pos[r] - 1
      PROVE  /\ PlaceInOrder(m, p, n, q, c + 1, d, r, k)
             /\ \A l \in Start(m, n, r) .. k - 1 : d[l] < d[k]
  <2>1. PlaceInOrder(m, p, n, q, c, d, r, k) /\ \A l \in Start(m, n, r) .. k - 1 : d[l] < d[k]
    BY DEF InRowOrder
  <2>2. d[k] \in 0 .. c + 1 /\ d[k] # c + 1
    BY <1>1, <2>1 DEF PlaceInOrder
  <2>3. QED
    BY <2>1, <2>2 DEF PlaceInOrder
<1>3. QED
  BY <1>1, <1>2 DEF InRowOrder

LEMMA AllScattered ==
    ASSUME NEW m, NEW n, SameShape(m, n), NEW p, NEW q, NEW c, NEW pos, NEW d,
           InRowOrder(m, p, n, q, c, pos, d), c = m.ncols
    PROVE  pos = [r \in 0 .. m.nrows - 1 |-> Start(m, n, r + 1)]
<1>1. p = Nnz(m) /\ q = Nnz(n)
  BY CursorFacts DEF InRowOrder, SameShape
<1>2. ASSUME NEW r \in 0 .. m.nrows - 1 PROVE pos[r] = Start(m, n, r + 1)
  <2>1. r \in Nat
    BY MatrixFacts DEF SameShape
  <2>2. QED
    BY <1>1, <2>1, StartFacts, PositionFacts
<1>3. QED
  BY <1>2 DEF InRowOrder

--------------------------------------------------------------------------------
(* The coordinate writer. *)

\* What the in-memory converter asks of Zeros.
ZerosFit == HasZeros => ZerosFault = "none"

\* Z is a matrix of A's shape, the argument or one without entries.
LEMMA SessionMatrices ==
    ASSUME problem \in Problems
    PROVE  /\ IsMatlabMatrix(A) /\ IsMatlabMatrix(Z)
           /\ ZerosRefused = "none" => SameShape(A, Z)
           /\ ZerosFit => SameShape(A, Z)
           /\ Nnz(A) + Nnz(Z) < Base * Base
           /\ ~HasZeros => Nnz(Z) = 0
<1>1. IsMatlabMatrix(A) /\ IsMatlabMatrix(problem.z) /\ Nnz(A) + Nnz(problem.z) < Base * Base
  BY ProblemsAssumption DEF A
<1>2. Nnz(NoZeros) = 0 /\ SameShape(A, NoZeros)
  <2>1. /\ NoZeros.nrows = A.nrows /\ NoZeros.ncols = A.ncols /\ NoZeros.is_sparse
        /\ NoZeros.colptr = [c \in 0 .. A.ncols |-> 0]
        /\ NoZeros.rowind = [p \in {} |-> 0] /\ NoZeros.values = [p \in {} |-> Zero]
    BY DEF NoZeros
  <2>2. A.nrows \in 0 .. Base * Base /\ A.ncols \in 0 .. Base * Base
    BY <1>1 DEF IsMatlabMatrix
  <2>3. A.ncols \in Nat
    BY <2>2, WideCap
  <2>4. \A c \in 0 .. A.ncols : NoZeros.colptr[c] = 0
    BY <2>1
  <2>5. Nnz(NoZeros) = 0
    BY <2>1, <2>3 DEF Nnz
  <2>6. 0 .. Nnz(NoZeros) - 1 = {}
    BY <2>5
  <2>7. /\ NoZeros.rowind \in [0 .. Nnz(NoZeros) - 1 -> 0 .. NoZeros.nrows - 1]
        /\ NoZeros.values \in [0 .. Nnz(NoZeros) - 1 -> Int \X Int]
    BY <2>1, <2>6
  <2>8. NoZeros.colptr \in [0 .. NoZeros.ncols -> Nat] /\ NoZeros.colptr[0] = 0
    BY <2>1, <2>3
  <2>9. \A c \in 0 .. NoZeros.ncols - 1 :
           NoZeros.colptr[c] .. NoZeros.colptr[c + 1] - 1 = {}
    BY <2>1, <2>3, <2>4
  <2>10. IsMatlabMatrix(NoZeros)
    BY <2>1, <2>2, <2>4, <2>7, <2>8, <2>9 DEF IsMatlabMatrix
  <2>11. QED
    BY <1>1, <2>1, <2>5, <2>10 DEF SameShape
<1>3. Z = problem.z \/ Z = NoZeros
  BY DEF Z
<1>4. Nnz(A) \in Nat /\ Nnz(problem.z) \in Nat
  BY <1>1, MatrixFacts
<1>5. IsMatlabMatrix(Z) /\ Nnz(A) + Nnz(Z) < Base * Base
  BY <1>1, <1>2, <1>3, <1>4, WideCap DEF SameShape
<1>6. (ZerosRefused = "none" \/ ZerosFit) /\ Z # NoZeros => SameShape(A, problem.z)
  BY <1>1 DEF Z, ZerosRefused, ZerosFit, HasZeros, ZerosFault, SameShape
<1>7. ~HasZeros => Z = NoZeros
  BY DEF HasZeros, Z
<1>8. QED
  BY <1>1, <1>2, <1>3, <1>5, <1>6, <1>7

LEMMA ProblemStays == ASSUME [Next]_vars PROVE UNCHANGED problem
  BY DEF Next, Aborted, vars, mexVars, CooNext, CooCall, CooRefuse, CooCount, TakeA, TakeZ,
     NextColumn, CooDuplicate, CooScattered, CooOpen, CooOpenFails, CooValues, CooValuesFail,
     CooRowsDataset, CooRowsDatasetFails, SkipRow, FillRun, FlushChunk, FlushFails, CooColumns,
     CooColumnsFail, CooDescriptor, CooFail, CooWriteArray, CooWriteArrayFails,
     SsmcNext, SsmcCall, SsmcDense, SsmcRefuse, SsmcAllocate, SsmcCopy, MergeA, MergeZ,
     MergeDuplicate, MergeColumn, MergeEnd, SsmcReturn, SsmcAborts, SsmcRaise,
     MinNext, MinCall, MinimizeValues, MinimizeIndices, MinimizeIndicesFails, MinimizeIso,
     KeepMatrix, MinReturn, CreateStruct, WriteStruct,
     WriteStructRefused, ReadStruct, ReadStructFails,
     TextNext, WriteCall, ReadCall, EncodeText, EncodeTextFails, OpenForText,
     NameIsFree, DatasetExists, CreateType, CreateSpace, CreateDataset, WriteDataset,
     WriteDatasetFails, WriteTextFails, OpenToRead, NoFile, OpenDataset, MissingDataset,
     OpenType, OpenSpace, ReadTextFails, ReadMalformed, ReadText, TextFails, Open,
     CleanupAndRaise, Enter, Raise, Leave, Proceed

LEMMA RowStartIs == ASSUME NEW r PROVE RowStart(r) = Start(A, Z, r)
  BY DEF RowStart, Start, CountBefore, EntriesBefore

\* An index below an extent fits into the type chosen for it.
LEMMA IndexFits ==
    ASSUME NEW n \in Nat, n <= Base * Base, NEW v \in Nat, v < n
    PROVE  Stored(ExtentType(n), v) = v
<1>1. v <= Cap(ExtentType(n)) /\ Cap(ExtentType(n)) \in Nat
  <2>1. Base * Base \in Nat /\ NarrowMax \in Nat /\ NarrowMax < Base * Base
    BY WideCap, NarrowMaxAssumption
  <2>2. QED
    BY <2>1 DEF Cap, ExtentType, Pick
<1>2. v # Junk
  BY DEF Junk
<1>3. QED
  BY <1>1, <1>2 DEF Stored

\* The function f is its values on D.
IsFunctionOn(f, D) == f = [x \in D |-> f[x]]

LEMMA FunctionChanged ==
    ASSUME NEW f, NEW D, IsFunctionOn(f, D), NEW x, NEW v
    PROVE  IsFunctionOn([f EXCEPT ![x] = v], D)
  BY DEF IsFunctionOn

\* The shape of the matrix under construction.
OutputShape ==
    \E i, t, v, d :
        /\ output = [is_iso |-> i, value_type |-> t, values |-> v,
                     indices_1 |-> [type |-> ExtentType(A.ncols), data |-> d]]
        /\ DOMAIN d = 0 .. NnzOut - 1 /\ IsFunctionOn(d, 0 .. NnzOut - 1)

ScatterInv ==
    /\ InRowOrder(A, ap, Z, zp, column, positions, output.indices_1.data)
    /\ OutputShape

\* Every row is full.
Scattered ==
    /\ column = A.ncols
    /\ positions = [r \in 0 .. A.nrows - 1 |-> Start(A, Z, r + 1)]

NothingGenerated == row = 0 /\ written = 0 /\ buffer = <<>>

RowInRange == row \in 0 .. A.nrows /\ written \in 0 .. NnzOut

\* The rows before the generator's are generated, and no more than there is.
GeneratorInv ==
    /\ RowInRange
    /\ buffer \in Seq(Int) /\ Len(buffer) <= Capacity
    /\ Generated <= NnzOut
    /\ Start(A, Z, row) <= Generated

CooBegun == call = "write_ssmc_coo" /\ stage # "arguments"

CooInv ==
    /\ ~CooBegun => column = 0 /\ ap = 0 /\ zp = 0 /\ NothingGenerated
    /\ CooBegun =>
          /\ Refused = "none"
          /\ stage \in {"scatter", "open", "values", "dataset", "fill", "columns", "descriptor"}
          /\ stage = "scatter" => ScatterInv
          /\ stage # "scatter" => Scattered
          /\ stage \in {"scatter", "open", "values", "dataset"} => NothingGenerated
          /\ stage = "fill" => GeneratorInv
          /\ stage \in {"columns", "descriptor"} => RowInRange /\ buffer = <<>>

LEMMA CooMatrices ==
    ASSUME problem \in Problems, CooInv, CooBegun
    PROVE  /\ SameShape(A, Z)
           /\ A.nrows \in Nat /\ A.ncols \in Nat /\ A.ncols <= Base * Base
           /\ Nnz(A) \in Nat /\ Nnz(Z) \in Nat /\ NnzOut \in Nat
<1>1. ZerosRefused = "none"
  BY DEF CooInv, Refused
<1>2. SameShape(A, Z)
  BY <1>1, SessionMatrices
<1>3. QED
  BY <1>2, MatrixFacts DEF SameShape, NnzOut

\* What an unchanged problem leaves unchanged.
LEMMA SameProblem ==
    ASSUME UNCHANGED problem
    PROVE  /\ A' = A /\ Z' = Z /\ NnzOut' = NnzOut /\ Refused' = Refused
           /\ ZerosRefused' = ZerosRefused /\ ZerosFit' = ZerosFit /\ HasZeros' = HasZeros
           /\ Capacity' = Capacity
           /\ \A r : Start(A, Z, r)' = Start(A, Z, r)
  BY DEF A, Z, NoZeros, NnzOut, Nnz, Refused, ZerosRefused, ZerosFit, HasZeros, ZerosFault,
     Capacity, RowType

\* The call has ended, or has not begun.
LEMMA CooIdleInv ==
    ASSUME ~CooBegun', CooForgotten
    PROVE  CooInv'
  BY DEF CooInv, CooForgotten, NothingGenerated

LEMMA CooKept ==
    ASSUME CooInv, ~CooBegun, ~CooBegun', UNCHANGED cooVars
    PROVE  CooInv'
  BY DEF CooInv, cooVars, NothingGenerated

LEMMA ScatterEffect ==
    ASSUME OutputShape, UNCHANGED problem, NEW r, NEW v, Scatter(r, v)
    PROVE  /\ OutputShape'
           /\ Puts(output.indices_1.data, positions[r], Stored(ExtentType(A.ncols), column),
                   output'.indices_1.data)
           /\ DOMAIN output.indices_1.data = 0 .. NnzOut - 1
           /\ Puts(positions, r, positions[r] + 1, positions')
<1>1. PICK i, t, w, d :
        /\ output = [is_iso |-> i, value_type |-> t, values |-> w,
                     indices_1 |-> [type |-> ExtentType(A.ncols), data |-> d]]
        /\ DOMAIN d = 0 .. NnzOut - 1 /\ IsFunctionOn(d, 0 .. NnzOut - 1)
  BY DEF OutputShape
<1> DEFINE dn == [d EXCEPT ![positions[r]] = Stored(ExtentType(A.ncols), column)]
<1>2. PICK wn : output' = [output EXCEPT
                    !.indices_1.data[positions[r]] = Stored(output.indices_1.type, column),
                    !.values = wn]
  BY DEF Scatter
<1>3. output' = [is_iso |-> i, value_type |-> t, values |-> wn,
                 indices_1 |-> [type |-> ExtentType(A.ncols), data |-> dn]]
  BY <1>1, <1>2
<1>4. DOMAIN dn = 0 .. NnzOut - 1 /\ IsFunctionOn(dn, 0 .. NnzOut - 1)
  BY <1>1, FunctionChanged
<1>5. OutputShape'
  BY <1>3, <1>4, SameProblem DEF OutputShape
<1>6. QED
  BY <1>1, <1>3, <1>5 DEF Scatter, Puts

LEMMA TakeAInv == ASSUME problem \in Problems, CooInv, TakeA PROVE CooInv'
<1>1. /\ CooBegun /\ stage = "scatter" /\ UNCHANGED <<problem, call, stage>>
      /\ column < A.ncols /\ Precedes(A, ap, Z, zp, column) /\ ScatterInv
      /\ column' = column /\ zp' = zp /\ ap' = ap + 1 /\ UNCHANGED generatorVars
  BY DEF TakeA, Coo, At, CooBegun, CooInv, mexVars
<1>2. Scatter(A.rowind[ap], A.values[ap])
  BY DEF TakeA
<1>3. SameShape(A, Z) /\ A.ncols \in Nat /\ A.ncols <= Base * Base
      /\ Nnz(A) \in Nat /\ Nnz(Z) \in Nat
  BY <1>1, CooMatrices
<1>4. column \in Nat
  BY <1>1, <1>3 DEF ScatterInv, InRowOrder, CursorIn
<1>5. Stored(ExtentType(A.ncols), column) = column
  BY <1>1, <1>3, <1>4, IndexFits
<1>6. /\ OutputShape'
      /\ Puts(output.indices_1.data, positions[A.rowind[ap]], column,
              output'.indices_1.data)
      /\ DOMAIN output.indices_1.data = 0 .. Nnz(A) + Nnz(Z) - 1
      /\ Puts(positions, A.rowind[ap], positions[A.rowind[ap]] + 1, positions')
  <2>1. /\ OutputShape'
        /\ Puts(output.indices_1.data, positions[A.rowind[ap]],
                Stored(ExtentType(A.ncols), column), output'.indices_1.data)
        /\ DOMAIN output.indices_1.data = 0 .. NnzOut - 1
        /\ Puts(positions, A.rowind[ap], positions[A.rowind[ap]] + 1, positions')
    <3>1. OutputShape /\ UNCHANGED problem
      BY <1>1 DEF ScatterInv
    <3>2. QED
      BY <3>1, <1>2, ScatterEffect
  <2>2. QED
    BY <2>1, <1>3, <1>5 DEF NnzOut
<1>7. InRowOrder(A, ap + 1, Z, zp, column, positions', output'.indices_1.data)
  BY <1>1, <1>3, <1>6, Takes DEF ScatterInv
<1>8. ScatterInv'
  BY <1>1, <1>6, <1>7, SameProblem DEF ScatterInv
<1>9. QED
  BY <1>1, <1>8, SameProblem DEF CooInv, CooBegun, NothingGenerated, generatorVars

LEMMA TakeZInv == ASSUME problem \in Problems, CooInv, TakeZ PROVE CooInv'
<1>1. /\ CooBegun /\ stage = "scatter" /\ UNCHANGED <<problem, call, stage>>
      /\ column < A.ncols /\ Precedes(Z, zp, A, ap, column) /\ ScatterInv
      /\ column' = column /\ ap' = ap /\ zp' = zp + 1 /\ UNCHANGED generatorVars
  BY DEF TakeZ, Coo, At, CooBegun, CooInv, mexVars
<1>2. Scatter(Z.rowind[zp], Zero)
  BY DEF TakeZ
<1>3. SameShape(A, Z) /\ A.ncols \in Nat /\ A.ncols <= Base * Base /\ Z.ncols = A.ncols
      /\ Nnz(A) \in Nat /\ Nnz(Z) \in Nat
  BY <1>1, CooMatrices DEF SameShape
<1>4. column \in Nat
  BY <1>1, <1>3 DEF ScatterInv, InRowOrder, CursorIn
<1>5. Stored(ExtentType(A.ncols), column) = column
  BY <1>1, <1>3, <1>4, IndexFits
<1>6. /\ OutputShape'
      /\ Puts(output.indices_1.data, positions[Z.rowind[zp]], column,
              output'.indices_1.data)
      /\ DOMAIN output.indices_1.data = 0 .. Nnz(Z) + Nnz(A) - 1
      /\ Puts(positions, Z.rowind[zp], positions[Z.rowind[zp]] + 1, positions')
  <2>1. /\ OutputShape'
        /\ Puts(output.indices_1.data, positions[Z.rowind[zp]],
                Stored(ExtentType(A.ncols), column), output'.indices_1.data)
        /\ DOMAIN output.indices_1.data = 0 .. NnzOut - 1
        /\ Puts(positions, Z.rowind[zp], positions[Z.rowind[zp]] + 1, positions')
    <3>1. OutputShape /\ UNCHANGED problem
      BY <1>1 DEF ScatterInv
    <3>2. QED
      BY <3>1, <1>2, ScatterEffect
  <2>2. QED
    BY <2>1, <1>3, <1>5 DEF NnzOut
<1>7. SameShape(Z, A) /\ InRowOrder(Z, zp, A, ap, column, positions, output.indices_1.data)
  BY <1>1, <1>3, Exchanged DEF ScatterInv
<1>8. InRowOrder(Z, zp + 1, A, ap, column, positions', output'.indices_1.data)
  BY <1>1, <1>3, <1>6, <1>7, Takes
<1>9. InRowOrder(A, ap, Z, zp + 1, column, positions', output'.indices_1.data)
  BY <1>7, <1>8, Exchanged
<1>10. ScatterInv'
  BY <1>1, <1>6, <1>9, SameProblem DEF ScatterInv
<1>11. QED
  BY <1>1, <1>10, SameProblem DEF CooInv, CooBegun, NothingGenerated, generatorVars

LEMMA NextColumnInv == ASSUME problem \in Problems, CooInv, NextColumn PROVE CooInv'
<1>1. /\ CooBegun /\ stage = "scatter" /\ UNCHANGED <<problem, call, stage>>
      /\ column < A.ncols /\ ~Left(A, ap, column) /\ ~Left(Z, zp, column) /\ ScatterInv
      /\ column' = column + 1 /\ UNCHANGED <<positions, ap, zp, output>>
      /\ UNCHANGED generatorVars
  BY DEF NextColumn, Coo, At, CooBegun, CooInv, mexVars
<1>2. SameShape(A, Z)
  BY <1>1, CooMatrices
<1>3. InRowOrder(A, ap, Z, zp, column + 1, positions, output.indices_1.data)
  BY <1>1, <1>2, ColumnScattered DEF ScatterInv
<1>4. OutputShape'
  BY <1>1, SameProblem DEF ScatterInv, OutputShape
<1>5. ScatterInv'
  BY <1>1, <1>3, <1>4, SameProblem DEF ScatterInv
<1>6. QED
  BY <1>1, <1>5, SameProblem DEF CooInv, CooBegun, NothingGenerated, generatorVars

LEMMA CooCountInv == ASSUME problem \in Problems, CooInv, CooCount PROVE CooInv'
<1>1. /\ call = "write_ssmc_coo" /\ ~CooBegun /\ Refused = "none" /\ UNCHANGED <<problem, call>>
      /\ stage' = "scatter" /\ UNCHANGED <<column, ap, zp, generatorVars>>
      /\ column = 0 /\ ap = 0 /\ zp = 0 /\ NothingGenerated
  BY DEF CooCount, Coo, At, CooBegun, CooInv, Proceed
<1>2. SameShape(A, Z)
  BY <1>1, SessionMatrices DEF Refused
<1>3. positions' = [r \in 0 .. A.nrows - 1 |-> Start(A, Z, r)]
  BY RowStartIs DEF CooCount
<1>4. InRowOrder(A, 0, Z, 0, 0, positions', output'.indices_1.data)
  BY <1>2, <1>3, NothingScattered
<1>5. OutputShape'
  <2>1. PICK i, t, v : output' = [is_iso |-> i, value_type |-> t, values |-> v,
                     indices_1 |-> Uninitialised(ExtentType(A.ncols), NnzOut)]
    BY DEF CooCount
  <2>2. PICK d : d = [k \in 0 .. NnzOut - 1 |-> Junk]
    OBVIOUS
  <2>3. output' = [is_iso |-> i, value_type |-> t, values |-> v,
                   indices_1 |-> [type |-> ExtentType(A.ncols), data |-> d]]
    BY <2>1, <2>2 DEF Uninitialised, Indexes
  <2>4. DOMAIN d = 0 .. NnzOut - 1 /\ IsFunctionOn(d, 0 .. NnzOut - 1)
    BY <2>2 DEF IsFunctionOn
  <2>5. A' = A /\ NnzOut' = NnzOut
    BY <1>1, SameProblem
  <2>6. QED
    BY <2>3, <2>4, <2>5 DEF OutputShape
<1>6. ScatterInv'
  BY <1>1, <1>4, <1>5, SameProblem DEF ScatterInv
<1>7. QED
  BY <1>1, <1>6, SameProblem DEF CooInv, CooBegun, NothingGenerated, generatorVars

LEMMA CooScatteredInv == ASSUME problem \in Problems, CooInv, CooScattered PROVE CooInv'
<1>1. /\ CooBegun /\ stage = "scatter" /\ UNCHANGED <<problem, call, cooVars>>
      /\ column = A.ncols /\ ScatterInv /\ stage' = "open" /\ NothingGenerated
  BY DEF CooScattered, Coo, At, CooBegun, CooInv, Proceed
<1>2. SameShape(A, Z)
  BY <1>1, CooMatrices
<1>3. positions = [r \in 0 .. A.nrows - 1 |-> Start(A, Z, r + 1)]
  BY <1>1, <1>2, AllScattered DEF ScatterInv
<1>4. Scattered'
  BY <1>1, <1>3, SameProblem DEF Scattered, cooVars
<1>5. QED
  BY <1>1, <1>4, SameProblem DEF CooInv, CooBegun, NothingGenerated, cooVars

\* The steps of the file that leave the call's variables alone.
LEMMA CooFileStepInv ==
    ASSUME CooInv, CooBegun, UNCHANGED <<problem, call, cooVars>>,
           <<stage, stage'>> \in {<<"open", "values">>, <<"values", "dataset">>,
                                  <<"columns", "descriptor">>}
    PROVE  CooInv'
<1>1. stage # "scatter" /\ stage' \notin {"scatter", "fill", "arguments"}
  OBVIOUS
<1>2. Scattered' /\ CooBegun' /\ Refused' = "none"
  BY <1>1, SameProblem DEF CooInv, CooBegun, Scattered, cooVars
<1>3. /\ stage' \in {"values", "dataset"} => NothingGenerated'
      /\ stage' = "descriptor" => RowInRange' /\ buffer' = <<>>
  BY SameProblem DEF CooInv, NothingGenerated, RowInRange, cooVars
<1>4. QED
  BY <1>1, <1>2, <1>3 DEF CooInv

LEMMA CapacityFacts ==
    ASSUME NnzOut \in Nat
    PROVE  Capacity \in Nat /\ (NnzOut > 0 => Capacity > 0)
<1>1. \A b \in {1, 2} : ChunkBytes \div b \in Nat
  BY ChunkAssumption
<1>2. QED
  BY <1>1 DEF Capacity

LEMMA RowsDatasetInv == ASSUME problem \in Problems, CooInv, CooRowsDataset PROVE CooInv'
<1>1. /\ CooBegun /\ stage = "dataset" /\ UNCHANGED <<problem, call, cooVars>>
      /\ stage' \in {"columns", "fill"} /\ Scattered /\ NothingGenerated
  BY DEF CooRowsDataset, Coo, At, CooBegun, CooInv, Proceed
<1>2. SameShape(A, Z) /\ A.nrows \in Nat /\ NnzOut \in Nat
  BY <1>1, CooMatrices
<1>3. Scattered' /\ CooBegun' /\ Refused' = "none"
  BY <1>1, SameProblem DEF CooInv, CooBegun, Scattered, cooVars
<1>4. RowInRange /\ buffer = <<>> /\ buffer \in Seq(Int) /\ Len(buffer) = 0 /\ Generated = 0
  BY <1>1, <1>2 DEF NothingGenerated, RowInRange, Generated
<1>5. GeneratorInv
  BY <1>1, <1>2, <1>4, CapacityFacts, StartFacts DEF GeneratorInv, NothingGenerated
<1>6. GeneratorInv' /\ RowInRange' /\ buffer' = <<>>
  BY <1>1, <1>4, <1>5, SameProblem DEF GeneratorInv, RowInRange, Generated, cooVars
<1>7. QED
  BY <1>1, <1>3, <1>6 DEF CooInv

\* In the generator: the row's end is where the next row begins.
LEMMA RowEnd ==
    ASSUME problem \in Problems, CooInv, CooBegun, stage = "fill", Generated < NnzOut
    PROVE  /\ row \in 0 .. A.nrows - 1 /\ positions[row] = Start(A, Z, row + 1)
           /\ Start(A, Z, row + 1) \in Nat /\ Start(A, Z, row + 1) <= NnzOut
<1>1. GeneratorInv /\ Scattered
  BY DEF CooInv
<1>2. SameShape(A, Z) /\ A.nrows \in Nat /\ NnzOut \in Nat
  BY CooMatrices
<1>3. row \in 0 .. A.nrows /\ Start(A, Z, row) <= Generated /\ Generated \in Nat
  BY <1>1 DEF GeneratorInv, RowInRange, Generated
<1>4. row # A.nrows
  BY <1>2, <1>3, StartFacts DEF NnzOut
<1>5. row \in 0 .. A.nrows - 1 /\ row + 1 \in Nat /\ row + 1 <= A.nrows
  BY <1>2, <1>3, <1>4
<1>6. Start(A, Z, row + 1) \in Nat /\ Start(A, Z, row + 1) <= NnzOut
  BY <1>2, <1>5, StartFacts DEF NnzOut
<1>7. QED
  BY <1>1, <1>5, <1>6 DEF Scattered

LEMMA SkipRowInv == ASSUME problem \in Problems, CooInv, SkipRow PROVE CooInv'
<1>1. /\ CooBegun /\ stage = "fill" /\ UNCHANGED <<problem, call, stage, scatterVars, written, buffer>>
      /\ Generated < NnzOut /\ Generated >= positions[row] /\ row' = row + 1
      /\ Scattered /\ GeneratorInv
  BY DEF SkipRow, Coo, At, CooBegun, CooInv, mexVars
<1>2. /\ row \in 0 .. A.nrows - 1 /\ positions[row] = Start(A, Z, row + 1)
      /\ A.nrows \in Nat /\ row' \in 0 .. A.nrows
  BY <1>1, RowEnd, CooMatrices
<1>3. GeneratorInv'
  BY <1>1, <1>2, SameProblem DEF GeneratorInv, RowInRange, Generated
<1>4. Scattered' /\ CooBegun' /\ Refused' = "none"
  BY <1>1, SameProblem DEF CooInv, CooBegun, Scattered, scatterVars
<1>5. QED
  BY <1>1, <1>3, <1>4 DEF CooInv

LEMMA Appended ==
    ASSUME NEW s \in Seq(Int), NEW t \in Seq(Int)
    PROVE  s \o t \in Seq(Int) /\ Len(s \o t) = Len(s) + Len(t)
  OBVIOUS

\* A run ends with the row or with the chunk.
LEMMA RunFits ==
    ASSUME positions[row] \in Nat, Generated \in Nat, Generated < positions[row],
           Capacity \in Nat, Len(buffer) \in Nat, Len(buffer) < Capacity
    PROVE  /\ Run \in Nat /\ Len(buffer) + Run <= Capacity
           /\ Generated + Run <= positions[row]
<1> DEFINE p == positions[row]
           g == Generated
           c == Capacity
           l == Len(buffer)
<1>1. Run = IF p - g < c - l THEN p - g ELSE c - l
  BY DEF Run
<1>2. p \in Nat /\ g \in Nat /\ g < p /\ c \in Nat /\ l \in Nat /\ l < c
  OBVIOUS
<1> HIDE DEF p, g, c, l
<1>3. Run \in Nat /\ l + Run <= c /\ g + Run <= p
  BY <1>1, <1>2
<1>4. QED
  BY <1>3 DEF p, g, c, l

LEMMA FillRunInv == ASSUME problem \in Problems, CooInv, FillRun PROVE CooInv'
<1>1. /\ CooBegun /\ stage = "fill" /\ UNCHANGED <<problem, call, stage, scatterVars, row, written>>
      /\ Generated < NnzOut /\ Generated < positions[row] /\ Len(buffer) < Capacity
      /\ buffer' = buffer \o Filled(Run)
      /\ Scattered /\ GeneratorInv
  BY DEF FillRun, Coo, At, CooBegun, CooInv, mexVars
<1>2. /\ row \in 0 .. A.nrows - 1 /\ positions[row] = Start(A, Z, row + 1)
      /\ Start(A, Z, row + 1) \in Nat /\ Start(A, Z, row + 1) <= NnzOut
      /\ A.nrows \in Nat /\ NnzOut \in Nat
  BY <1>1, RowEnd, CooMatrices
<1>3. Capacity \in Nat /\ buffer \in Seq(Int) /\ Len(buffer) \in Nat /\ written \in Nat
  BY <1>1, <1>2, CapacityFacts DEF GeneratorInv, RowInRange
<1>4. Generated \in Nat /\ Generated = written + Len(buffer)
  BY <1>3 DEF Generated
<1>5. /\ Run \in Nat /\ Len(buffer) + Run <= Capacity
      /\ Generated + Run <= Start(A, Z, row + 1)
  BY <1>1, <1>2, <1>3, <1>4, RunFits
<1>6. Filled(Run) \in Seq(Int) /\ Len(Filled(Run)) = Run
  <2>1. Stored(RowType, row) \in Int
    <3>1. Cap(RowType) + 1 \in Nat \ {0}
      BY WideCap, NarrowMaxAssumption DEF Cap
    <3>2. QED
      BY <3>1, <1>2 DEF Stored, Junk
  <2>2. QED
    BY <2>1, <1>5 DEF Filled
<1>7. buffer' \in Seq(Int) /\ Len(buffer') = Len(buffer) + Run
  BY <1>1, <1>3, <1>6, Appended
<1>8. Generated' = Generated + Run
  BY <1>1, <1>3, <1>4, <1>5, <1>7 DEF Generated
<1>9. Start(A, Z, row) \in Nat
  BY <1>1, <1>2, StartFacts, CooMatrices
<1>10. GeneratorInv'
  BY <1>1, <1>2, <1>3, <1>4, <1>5, <1>7, <1>8, <1>9, SameProblem DEF GeneratorInv, RowInRange
<1>11. Scattered' /\ CooBegun' /\ Refused' = "none"
  BY <1>1, SameProblem DEF CooInv, CooBegun, Scattered, scatterVars
<1>12. QED
  BY <1>1, <1>10, <1>11 DEF CooInv

LEMMA FlushChunkInv == ASSUME problem \in Problems, CooInv, FlushChunk PROVE CooInv'
<1>1. /\ CooBegun /\ stage = "fill" /\ UNCHANGED <<problem, call, scatterVars, row>>
      /\ stage' \in {"columns", "fill"} /\ written' = Generated /\ buffer' = <<>>
      /\ Scattered /\ GeneratorInv
  BY DEF FlushChunk, ChunkReady, Coo, At, CooBegun, CooInv, Proceed
<1>2. Generated \in 0 .. NnzOut /\ NnzOut \in Nat
  BY <1>1, CooMatrices DEF GeneratorInv, RowInRange, Generated
<1>3. Capacity \in Nat
  BY <1>2, CapacityFacts
<1>4. buffer' \in Seq(Int) /\ Len(buffer') = 0 /\ Generated' = Generated
  BY <1>1, <1>2 DEF Generated
<1>5. GeneratorInv' /\ RowInRange'
  BY <1>1, <1>2, <1>3, <1>4, SameProblem DEF GeneratorInv, RowInRange
<1>6. Scattered' /\ CooBegun' /\ Refused' = "none"
  BY <1>1, SameProblem DEF CooInv, CooBegun, Scattered, scatterVars
<1>7. QED
  BY <1>1, <1>5, <1>6 DEF CooInv

\* The steps that end the call.
LEMMA CooEndInv ==
    ASSUME CooFail({}) \/ CooFail(ClosedByRows) \/ CooRefuse \/ CooDuplicate \/ CooOpenFails
           \/ CooDescriptor
    PROVE  CooInv'
<1>1. CooForgotten /\ call' = "none"
  BY DEF CooFail, CooRefuse, CooDuplicate, CooOpenFails, CooDescriptor, Raise, Leave
<1>2. QED
  BY <1>1, CooIdleInv DEF CooBegun

LEMMA CooNextInv == ASSUME problem \in Problems, CooInv, CooNext PROVE CooInv'
<1>1. ASSUME NEW g, CooCall(g) PROVE CooInv'
  <2>1. ~CooBegun /\ ~CooBegun'
    BY <1>1 DEF CooCall, Enter, CooBegun
  <2>2. QED
    BY <2>1, <1>1 DEF CooInv, CooCall, scatterVars, generatorVars, NothingGenerated
<1>2. CASE CooValuesFail \/ CooRowsDatasetFails \/ FlushFails \/ CooColumnsFail
  BY <1>2, CooEndInv
     DEF CooValuesFail, CooRowsDatasetFails, FlushFails, CooColumnsFail, CooWriteArrayFails
<1>3. CASE CooOpen \/ CooValues \/ CooColumns
  <2>1. CooBegun /\ UNCHANGED <<problem, call, cooVars>>
        /\ <<stage, stage'>> \in {<<"open", "values">>, <<"values", "dataset">>,
                                  <<"columns", "descriptor">>}
    BY <1>3 DEF CooOpen, CooValues, CooColumns, CooWriteArray, Coo, At, Proceed, CooBegun
  <2>2. QED
    BY <2>1, CooFileStepInv
<1>4. QED
  BY <1>1, <1>2, <1>3, CooEndInv, CooCountInv, TakeAInv, TakeZInv, NextColumnInv,
     CooScatteredInv, RowsDatasetInv, SkipRowInv, FillRunInv, FlushChunkInv DEF CooNext

\* What the other functions of a session do to the coordinate writer: nothing.
LEMMA NotTheWriter ==
    ASSUME SsmcNext \/ MinNext \/ TextNext
    PROVE  ~CooBegun /\ ~CooBegun'
<1>1. CASE SsmcNext
  BY <1>1 DEF SsmcNext, SsmcCall, SsmcDense, SsmcRefuse, SsmcAllocate, SsmcCopy, MergeA,
     MergeZ, MergeDuplicate, MergeColumn, MergeEnd, SsmcReturn, SsmcAborts, SsmcRaise, Ssmc,
     At, Enter, Raise, Leave, Proceed, mexVars, CooBegun
<1>2. CASE MinNext
  BY <1>2 DEF MinNext, MinCall, MinimizeValues, MinimizeIndices, MinimizeIndicesFails,
     MinimizeIso, MinReturn, CreateStruct, WriteStruct, WriteStructRefused, ReadStruct,
     ReadStructFails, Minimizing, At, Enter, Raise, Leave, Proceed, mexVars, CooBegun
<1>3. CASE TextNext
  BY <1>3 DEF TextNext, WriteCall, ReadCall, EncodeText, EncodeTextFails, OpenForText,
     NameIsFree, DatasetExists, CreateType, CreateSpace, CreateDataset, WriteDataset,
     WriteDatasetFails, WriteTextFails, OpenToRead, NoFile, OpenDataset, MissingDataset,
     OpenType, OpenSpace, ReadTextFails, ReadMalformed, ReadText, TextFails, Open,
     CleanupAndRaise, Writing, Reading, At, Enter, Raise, Leave, Proceed, CooBegun
<1>4. QED
  BY <1>1, <1>2, <1>3

LEMMA OtherCallsInv ==
    ASSUME CooInv, UNCHANGED cooVars, SsmcNext \/ MinNext \/ TextNext
    PROVE  CooInv'
  BY NotTheWriter, CooKept

SessionInv == problem \in Problems /\ CallInv /\ CooInv

LEMMA InitSessionInv == Init => SessionInv
<1>1. Init => CooInv
  BY DEF Init, SessionBegins, CooIdle, CooInv, CooBegun, NothingGenerated
<1>2. QED
  BY <1>1, InitCallInv DEF Init, SessionInv

LEMMA NextSessionInv == SessionInv /\ [Next]_vars => SessionInv'
<1> SUFFICES ASSUME SessionInv, [Next]_vars PROVE SessionInv'
  OBVIOUS
<1>1. problem' \in Problems /\ CallInv'
  BY ProblemStays, NextCallInv DEF SessionInv
<1>2. CooInv'
  <2>1. CASE CooNext
    BY <2>1, CooNextInv DEF SessionInv
  <2>2. CASE (SsmcNext \/ MinNext \/ TextNext) /\ UNCHANGED cooVars
    BY <2>2, OtherCallsInv DEF SessionInv
  <2>3. CASE UNCHANGED vars
    <3>1. UNCHANGED <<problem, call, stage, cooVars>>
      BY <2>3 DEF vars, mexVars
    <3>2. UNCHANGED <<positions, column, ap, zp, output, row, written, buffer>>
      BY <3>1 DEF cooVars
    <3>3. /\ CooBegun' = CooBegun /\ Refused' = Refused /\ RowInRange' = RowInRange
          /\ NothingGenerated' = NothingGenerated /\ Scattered' = Scattered
          /\ ScatterInv' = ScatterInv /\ GeneratorInv' = GeneratorInv
      BY <3>1, <3>2, SameProblem
         DEF CooBegun, RowInRange, NothingGenerated, Scattered, ScatterInv, OutputShape,
             GeneratorInv, Generated
    <3>4. QED
      BY <3>1, <3>2, <3>3 DEF CooInv, SessionInv
  <2>4. QED
    BY <2>1, <2>2, <2>3 DEF Next, Aborted
<1>3. QED
  BY <1>1, <1>2 DEF SessionInv

\* While the coordinate writer scatters: the next place of each row is behind
\* exactly those of its entries that were taken so far, these stand in column
\* order, and no row runs into the next one.
THEOREM RowsFillUpInOrder == Spec => []RowsFillUp
<1>1. SessionInv => RowsFillUp
  <2> SUFFICES ASSUME SessionInv, Coo("scatter"), NEW r \in 0 .. A.nrows - 1
        PROVE  /\ positions[r] = RowStart(r) + Cardinality({p \in 0 .. ap - 1 : A.rowind[p] = r})
                                             + Cardinality({p \in 0 .. zp - 1 : Z.rowind[p] = r})
               /\ positions[r] <= RowStart(r + 1)
               /\ \A k, l \in RowStart(r) .. positions[r] - 1 :
                     k < l => output.indices_1.data[k] < output.indices_1.data[l]
    BY DEF RowsFillUp
  <2>1. CooBegun /\ ScatterInv /\ problem \in Problems /\ CooInv
    BY DEF SessionInv, CooInv, CooBegun, Coo, At
  <2>2. SameShape(A, Z)
    BY <2>1, CooMatrices
  <2>3. InRowOrder(A, ap, Z, zp, column, positions, output.indices_1.data)
    BY <2>1 DEF ScatterInv
  <2>4. /\ positions[r] = Start(A, Z, r) + CountIn(A, ap, r) + CountIn(Z, zp, r)
        /\ Start(A, Z, r) \in Nat /\ positions[r] \in Nat
        /\ positions[r] <= Start(A, Z, r + 1)
    BY <2>2, <2>3, PositionFacts
  <2>5. RowStart(r) = Start(A, Z, r) /\ RowStart(r + 1) = Start(A, Z, r + 1)
    BY RowStartIs
  <2>6. ASSUME NEW k \in Start(A, Z, r) .. positions[r] - 1,
               NEW l \in Start(A, Z, r) .. positions[r] - 1, k < l
        PROVE  output.indices_1.data[k] < output.indices_1.data[l]
    <3>1. k \in Start(A, Z, r) .. l - 1
      BY <2>4, <2>6
    <3>2. QED
      BY <3>1, <2>3 DEF InRowOrder
  <2>7. /\ CountIn(A, ap, r) = Cardinality({p \in 0 .. ap - 1 : A.rowind[p] = r})
        /\ CountIn(Z, zp, r) = Cardinality({p \in 0 .. zp - 1 : Z.rowind[p] = r})
    BY DEF CountIn, EntriesIn
  <2>8. QED
    BY <2>4, <2>5, <2>6, <2>7
<1>2. QED
  BY <1>1, InitSessionInv, NextSessionInv, PTL DEF Spec

--------------------------------------------------------------------------------
(* The in-memory converter's merge. *)

MergeInv ==
    /\ out_ptr \in 0 .. NnzOut
    /\ call # "from_ssmc" \/ stage = "arguments" =>
          j = 0 /\ a_ptr = 0 /\ z_ptr = 0 /\ out_ptr = 0
    /\ Ssmc("merge") =>
          /\ ZerosFit
          /\ CursorIn(A, a_ptr, j) /\ CursorIn(Z, z_ptr, j)
          /\ out_ptr = a_ptr + z_ptr

LEMMA SizeType ==
    ASSUME problem \in Problems
    PROVE  Nnz(A) \in Nat /\ Nnz(Z) \in Nat /\ NnzOut \in Nat
  BY SessionMatrices, MatrixFacts DEF NnzOut

\* The merge's steps, for the two cursors.
LEMMA MergeStep ==
    ASSUME problem \in Problems, UNCHANGED problem, ZerosFit,
           CursorIn(A, a_ptr', j'), CursorIn(Z, z_ptr', j'), out_ptr' = a_ptr' + z_ptr',
           call' = "from_ssmc", stage' = "merge"
    PROVE  MergeInv'
<1>1. a_ptr' \in 0 .. Nnz(A) /\ z_ptr' \in 0 .. Nnz(Z)
  BY SessionMatrices, CursorFacts
<1>2. out_ptr' \in 0 .. NnzOut
  <2>1. Nnz(A) \in Nat /\ Nnz(Z) \in Nat
    BY SizeType
  <2>2. \A m, n \in Nat : \A p \in 0 .. m : \A q \in 0 .. n : p + q \in 0 .. m + n
    OBVIOUS
  <2>3. out_ptr' \in 0 .. Nnz(A) + Nnz(Z)
    BY <1>1, <2>1, <2>2
  <2>4. QED
    BY <2>3 DEF NnzOut
<1>3. CursorIn(A, a_ptr, j)' /\ CursorIn(Z, z_ptr, j)'
  BY SameProblem DEF CursorIn, Nnz
<1>4. QED
  BY <1>2, <1>3, SameProblem DEF MergeInv

LEMMA MergeForgotten ==
    ASSUME problem \in Problems, UNCHANGED problem, SsmcForgotten, call' = "none"
    PROVE  MergeInv'
<1>1. NnzOut' \in Nat /\ out_ptr' = 0
  BY SizeType, SameProblem DEF SsmcForgotten
<1>2. QED
  BY <1>1 DEF MergeInv, SsmcForgotten, Ssmc, At

\* The steps outside the loop, which leave its counters alone.
LEMMA MergeKept ==
    ASSUME problem \in Problems, MergeInv, UNCHANGED <<problem, mergeVars>>,
           \/ call' = "from_ssmc" /\ stage' \notin {"arguments", "merge"}
           \/ /\ j = 0 /\ a_ptr = 0 /\ z_ptr = 0 /\ out_ptr = 0
              /\ call' # "from_ssmc" \/ stage' # "merge"
    PROVE  MergeInv'
<1>1. out_ptr' \in 0 .. NnzOut'
  BY SameProblem DEF MergeInv, mergeVars
<1>2. QED
  BY <1>1 DEF MergeInv, mergeVars, Ssmc, At

LEMMA SsmcNextMerge == ASSUME problem \in Problems, MergeInv, SsmcNext PROVE MergeInv'
<1> USE DEF Ssmc, At
<1>1. ASSUME NEW f, SsmcCall(f) PROVE MergeInv'
  BY <1>1, MergeKept DEF SsmcCall, Enter, MergeInv
<1>2. CASE SsmcDense \/ SsmcRefuse \/ MergeDuplicate \/ SsmcReturn
  BY <1>2, MergeForgotten
     DEF SsmcDense, SsmcRefuse, MergeDuplicate, SsmcReturn, SsmcRaise, Raise, Leave
<1>3. CASE SsmcAllocate
  <2>1. /\ UNCHANGED <<problem, mergeVars>> /\ ZerosFit /\ call' = "from_ssmc"
        /\ stage' \in {"merge", "copy"}
        /\ j = 0 /\ a_ptr = 0 /\ z_ptr = 0 /\ out_ptr = 0
    BY <1>3 DEF SsmcAllocate, Proceed, MergeInv, ZerosFit
  <2>2. CASE stage' = "copy"
    BY <2>1, <2>2, MergeKept
  <2>3. CASE stage' = "merge"
    <3>1. SameShape(A, Z)
      BY <2>1, SessionMatrices
    <3>2. InRowOrder(A, 0, Z, 0, 0, [r \in 0 .. A.nrows - 1 |-> Start(A, Z, r)], Absent)
      BY <3>1, NothingScattered
    <3>3. QED
      BY <2>1, <2>3, <3>2, MergeStep DEF InRowOrder, mergeVars
  <2>4. QED
    BY <2>1, <2>2, <2>3
<1>4. CASE SsmcCopy \/ MergeEnd \/ SsmcAborts
  <2>1. UNCHANGED <<problem, mergeVars>> /\ call' = "from_ssmc"
        /\ stage' \in {"convert", "aborted"}
    BY <1>4 DEF SsmcCopy, MergeEnd, SsmcAborts, Proceed, ssmcVars, mergeVars
  <2>2. QED
    BY <2>1, MergeKept
<1>5. ASSUME MergeA \/ MergeZ \/ MergeColumn
      PROVE  /\ UNCHANGED <<problem, call, stage>> /\ call = "from_ssmc" /\ stage = "merge"
             /\ ZerosFit /\ j < A.ncols /\ Z.ncols = A.ncols
             /\ CursorIn(A, a_ptr, j) /\ CursorIn(Z, z_ptr, j) /\ out_ptr = a_ptr + z_ptr
             /\ a_ptr \in Nat /\ z_ptr \in Nat
             /\ IsMatlabMatrix(A) /\ IsMatlabMatrix(Z)
  <2>1. /\ UNCHANGED <<problem, call, stage>> /\ call = "from_ssmc" /\ stage = "merge"
        /\ ZerosFit /\ j < A.ncols
        /\ CursorIn(A, a_ptr, j) /\ CursorIn(Z, z_ptr, j) /\ out_ptr = a_ptr + z_ptr
    BY <1>5 DEF MergeA, MergeZ, MergeColumn, mexVars, MergeInv
  <2>2. QED
    BY <2>1, SessionMatrices DEF SameShape, CursorIn
<1>6. CASE MergeA
  <2>1. Left(A, a_ptr, j) /\ a_ptr' = a_ptr + 1 /\ UNCHANGED <<j, z_ptr>> /\ out_ptr' = out_ptr + 1
    BY <1>6 DEF MergeA, Merge, Precedes
  <2>2. CursorIn(A, a_ptr', j') /\ CursorIn(Z, z_ptr', j')
    BY <1>5, <1>6, <2>1, CursorFacts
  <2>3. out_ptr' = a_ptr' + z_ptr'
    BY <1>5, <1>6, <2>1
  <2>4. QED
    BY <1>5, <1>6, <2>2, <2>3, MergeStep
<1>7. CASE MergeZ
  <2>1. Left(Z, z_ptr, j) /\ z_ptr' = z_ptr + 1 /\ UNCHANGED <<j, a_ptr>> /\ out_ptr' = out_ptr + 1
    BY <1>7 DEF MergeZ, Merge, Precedes
  <2>2. CursorIn(A, a_ptr', j') /\ CursorIn(Z, z_ptr', j')
    BY <1>5, <1>7, <2>1, CursorFacts
  <2>3. out_ptr' = a_ptr' + z_ptr'
    BY <1>5, <1>7, <2>1
  <2>4. QED
    BY <1>5, <1>7, <2>2, <2>3, MergeStep
<1>8. CASE MergeColumn
  <2>1. /\ ~Left(A, a_ptr, j) /\ ~Left(Z, z_ptr, j) /\ j' = j + 1
        /\ UNCHANGED <<a_ptr, z_ptr, out_ptr>>
    BY <1>8 DEF MergeColumn
  <2>2. CursorIn(A, a_ptr', j') /\ CursorIn(Z, z_ptr', j')
    BY <1>5, <1>8, <2>1, CursorFacts
  <2>3. QED
    BY <1>5, <1>8, <2>1, <2>2, MergeStep
<1>9. QED
  BY <1>1, <1>2, <1>3, <1>4, <1>6, <1>7, <1>8 DEF SsmcNext

LEMMA InitMergeInv == Init => MergeInv
<1> SUFFICES ASSUME Init PROVE MergeInv
  OBVIOUS
<1>1. problem \in Problems /\ out_ptr = 0 /\ j = 0 /\ a_ptr = 0 /\ z_ptr = 0 /\ call = "none"
  BY DEF Init, SsmcIdle, SessionBegins
<1>2. QED
  BY <1>1, SizeType DEF MergeInv, Ssmc, At

LEMMA OtherMergeInv ==
    ASSUME problem \in Problems, CallInv, MergeInv, UNCHANGED problem,
           \/ CooNext /\ UNCHANGED ssmcVars
           \/ MinNext
           \/ TextNext /\ UNCHANGED ssmcVars
    PROVE  MergeInv'
<1>1. call # "from_ssmc" /\ call' # "from_ssmc"
  <2>1. CASE CooNext
    BY <2>1 DEF CooNext, CooCall, CooRefuse, CooCount, TakeA, TakeZ, NextColumn, CooDuplicate,
       CooScattered, CooOpen, CooOpenFails, CooValues, CooValuesFail, CooRowsDataset,
       CooRowsDatasetFails, SkipRow, FillRun, FlushChunk, FlushFails, CooColumns,
       CooColumnsFail, CooDescriptor, CooFail, CooWriteArray, CooWriteArrayFails, ChunkReady,
       Coo, At, Enter, Raise, Leave, Proceed, mexVars
  <2>2. CASE MinNext
    BY <2>2 DEF MinNext, MinCall, MinimizeValues, MinimizeIndices, MinimizeIndicesFails,
       MinimizeIso, MinReturn, CreateStruct, WriteStruct, WriteStructRefused, ReadStruct,
       ReadStructFails, Minimizing, At, Enter, Raise, Leave, Proceed, mexVars
  <2>3. CASE TextNext
    BY <2>3 DEF TextNext, WriteCall, ReadCall, EncodeText, EncodeTextFails, OpenForText,
       NameIsFree, DatasetExists, CreateType, CreateSpace, CreateDataset, WriteDataset,
       WriteDatasetFails, WriteTextFails, OpenToRead, NoFile, OpenDataset, MissingDataset,
       OpenType, OpenSpace, ReadTextFails, ReadMalformed, ReadText, TextFails, Open,
       CleanupAndRaise, Writing, Reading, At, Enter, Raise, Leave, Proceed
  <2>4. QED
    BY <2>1, <2>2, <2>3
<1>2. UNCHANGED mergeVars
  BY DEF ssmcVars, mergeVars, MinNext, MinCall, MinimizeValues, MinimizeIndices,
     MinimizeIndicesFails, MinimizeIso, MinReturn, CreateStruct, WriteStruct,
     WriteStructRefused, ReadStruct, ReadStructFails
<1>3. QED
  BY <1>1, <1>2, MergeKept DEF MergeInv, Ssmc, At

LEMMA NextMergeInv == SessionInv /\ MergeInv /\ [Next]_vars => MergeInv'
<1> SUFFICES ASSUME SessionInv, MergeInv, [Next]_vars PROVE MergeInv'
  OBVIOUS
<1>1. UNCHANGED problem /\ problem \in Problems /\ CallInv
  BY ProblemStays DEF SessionInv
<1>2. CASE UNCHANGED vars
  <2>1. UNCHANGED <<call, stage, j, a_ptr, z_ptr, out_ptr>>
    BY <1>2 DEF vars, mexVars, ssmcVars
  <2>2. CursorIn(A, a_ptr, j)' = CursorIn(A, a_ptr, j)
        /\ CursorIn(Z, z_ptr, j)' = CursorIn(Z, z_ptr, j)
    BY <1>1, <2>1, SameProblem DEF CursorIn, Nnz
  <2>3. NnzOut' = NnzOut /\ ZerosFit' = ZerosFit
    BY <1>1, SameProblem
  <2>4. QED
    BY <2>1, <2>2, <2>3 DEF MergeInv, Ssmc, At
<1>3. QED
  BY <1>1, <1>2, SsmcNextMerge, OtherMergeInv DEF Next, Aborted

--------------------------------------------------------------------------------
(* The types of a session. *)

\* Every variable of a session has its type; the scatter, the generator and the
\* merge stay inside their arrays; the chunk is never longer than its buffer.
THEOREM SessionTypeCorrect == Spec => []TypeOK
<1>1. SessionInv /\ MergeInv => TypeOK
  <2> SUFFICES ASSUME SessionInv, MergeInv PROVE TypeOK
    OBVIOUS
  <2>1. problem \in Problems /\ CallInv /\ CooInv
    BY DEF SessionInv
  <2>2. A.ncols \in Nat /\ A.nrows \in Nat /\ NnzOut \in Nat
    BY <2>1, SessionMatrices, MatrixFacts, SizeType
  <2>3. Capacity \in Nat
    BY <2>2, CapacityFacts
  <2>4. handles \subseteq {"file", "group", "space", "dataset", "dset", "type"}
    BY <2>1 DEF CallInv, OpenNow, OpenInCoo, OpenInWrite, OpenInRead, FileHandles
  <2>5. column \in 0 .. A.ncols /\ RowInRange
        /\ Len(buffer) \in 0 .. (IF Coo("fill") THEN Capacity ELSE 0)
    <3>1. CASE ~CooBegun
      BY <2>1, <2>2, <3>1 DEF CooInv, NothingGenerated, RowInRange, CooBegun, Coo, At
    <3>2. CASE CooBegun
      <4>1. column \in 0 .. A.ncols
        BY <2>1, <2>2, <3>2 DEF CooInv, ScatterInv, InRowOrder, CursorIn, Scattered
      <4>2. CASE stage = "fill"
        BY <2>1, <2>3, <3>2, <4>1, <4>2 DEF CooInv, GeneratorInv, CooBegun, Coo, At
      <4>3. CASE stage # "fill"
        <5>1. RowInRange /\ buffer = <<>>
          BY <2>1, <2>2, <3>2, <4>3 DEF CooInv, NothingGenerated, RowInRange
        <5>2. QED
          BY <4>1, <4>3, <5>1 DEF Coo, At
      <4>4. QED
        BY <4>2, <4>3
    <3>3. QED
      BY <3>1, <3>2
  <2>6. QED
    BY <2>1, <2>4, <2>5 DEF TypeOK, CallInv, Calls, RowInRange, MergeInv
<1>2. QED
  BY <1>1, InitSessionInv, NextSessionInv, InitMergeInv, NextMergeInv, PTL DEF Spec

--------------------------------------------------------------------------------
(* What the scatter puts into the places of the rows. *)

IsColumn(m, x, c) ==
    c \in 0 .. m.ncols - 1 /\ m.colptr[c] <= x /\ x < m.colptr[c + 1]

\* The place k has entry x of m: its column in d and its value v[x] in w, unless
\* no value is kept for the place.
HoldsEntry(m, v, x, d, w, free, k) ==
    IsColumn(m, x, d[k]) /\ (k \in free \/ w[k] = v[x])

\* Each place of a row that is taken has an entry of that row, and each entry that
\* was taken is in a place of its row: those of m before p, with the values u, and
\* those of n before q, with the values v.
Members(m, p, u, n, q, v, pos, d, w, free) ==
    /\ \A r \in 0 .. m.nrows - 1 : \A k \in Start(m, n, r) .. pos[r] - 1 :
          \/ \E x \in 0 .. p - 1 : m.rowind[x] = r /\ HoldsEntry(m, u, x, d, w, free, k)
          \/ \E y \in 0 .. q - 1 : n.rowind[y] = r /\ HoldsEntry(n, v, y, d, w, free, k)
    /\ \A x \in 0 .. p - 1 : \E k \in Start(m, n, m.rowind[x]) .. pos[m.rowind[x]] - 1 :
          HoldsEntry(m, u, x, d, w, free, k)
    /\ \A y \in 0 .. q - 1 : \E k \in Start(m, n, n.rowind[y]) .. pos[n.rowind[y]] - 1 :
          HoldsEntry(n, v, y, d, w, free, k)

LEMMA MembersExchanged ==
    ASSUME NEW m, NEW n, SameShape(m, n), NEW p, NEW q, NEW u, NEW v, NEW pos, NEW d,
           NEW w, NEW free, Members(m, p, u, n, q, v, pos, d, w, free),
           p \in 0 .. Nnz(m), q \in 0 .. Nnz(n)
    PROVE  Members(n, q, v, m, p, u, pos, d, w, free)
<1>1. \A r \in Nat : Start(m, n, r) = Start(n, m, r)
  BY CountBeforeType DEF SameShape, Start
<1>2. /\ m.nrows = n.nrows /\ m.nrows \in Nat /\ Nnz(m) \in Nat /\ Nnz(n) \in Nat
      /\ \A x \in 0 .. p - 1 : m.rowind[x] \in Nat
      /\ \A y \in 0 .. q - 1 : n.rowind[y] \in Nat
  <2>1. /\ m.nrows = n.nrows /\ m.nrows \in Nat /\ Nnz(m) \in Nat /\ Nnz(n) \in Nat
        /\ \A x \in 0 .. Nnz(m) - 1 : m.rowind[x] \in 0 .. m.nrows - 1
        /\ \A y \in 0 .. Nnz(n) - 1 : n.rowind[y] \in 0 .. n.nrows - 1
    BY MatrixFacts DEF SameShape
  <2>2. QED
    BY <2>1
<1>3. ASSUME NEW r \in 0 .. n.nrows - 1, NEW k \in Start(n, m, r) .. pos[r] - 1
      PROVE  \/ \E y \in 0 .. q - 1 : n.rowind[y] = r /\ HoldsEntry(n, v, y, d, w, free, k)
             \/ \E x \in 0 .. p - 1 : m.rowind[x] = r /\ HoldsEntry(m, u, x, d, w, free, k)
  BY <1>1, <1>2 DEF Members
<1>4. ASSUME NEW x \in 0 .. p - 1
      PROVE  \E k \in Start(n, m, m.rowind[x]) .. pos[m.rowind[x]] - 1 :
                 HoldsEntry(m, u, x, d, w, free, k)
  BY <1>1, <1>2 DEF Members
<1>5. ASSUME NEW y \in 0 .. q - 1
      PROVE  \E k \in Start(n, m, n.rowind[y]) .. pos[n.rowind[y]] - 1 :
                 HoldsEntry(n, v, y, d, w, free, k)
  BY <1>1, <1>2 DEF Members
<1>6. QED
  BY <1>3, <1>4, <1>5 DEF Members

\* One entry more.
LEMMA MemberTaken ==
    ASSUME NEW m, NEW n, SameShape(m, n), NEW p \in 0 .. Nnz(m) - 1, NEW q \in 0 .. Nnz(n),
           NEW u, NEW v, NEW pos, NEW d, NEW w, NEW free,
           Members(m, p, u, n, q, v, pos, d, w, free),
           NEW c, IsColumn(m, p, c), NEW posn, NEW dn, NEW wn,
           OnePlaceMore(m, n, m.rowind[p], pos, posn, d, dn, c),
           \/ DOMAIN d \subseteq free /\ pos[m.rowind[p]] \in DOMAIN d
           \/ DOMAIN d \subseteq DOMAIN w /\ pos[m.rowind[p]] \in DOMAIN d
              /\ Puts(w, pos[m.rowind[p]], u[p], wn)
    PROVE  Members(m, p + 1, u, n, q, v, posn, dn, wn, free)
<1> DEFINE s == m.rowind[p]
           z == pos[s]
<1>1. p \in Nat /\ q \in Nat /\ Nnz(m) \in Nat /\ Nnz(n) \in Nat
      /\ (\A x \in 0 .. p : m.rowind[x] \in 0 .. m.nrows - 1)
      /\ (\A y \in 0 .. q - 1 : n.rowind[y] \in 0 .. m.nrows - 1)
  <2>1. /\ m.nrows = n.nrows /\ m.nrows \in Nat /\ Nnz(m) \in Nat /\ Nnz(n) \in Nat
        /\ \A x \in 0 .. Nnz(m) - 1 : m.rowind[x] \in 0 .. m.nrows - 1
        /\ \A y \in 0 .. Nnz(n) - 1 : n.rowind[y] \in 0 .. n.nrows - 1
    BY MatrixFacts DEF SameShape
  <2>2. QED
    BY <2>1
<1>2. HoldsEntry(m, u, p, dn, wn, free, z)
  <2>1. dn[z] = c
    BY DEF OnePlaceMore
  <2>2. z \in free \/ wn[z] = u[p]
    BY DEF Puts
  <2>3. QED
    BY <2>1, <2>2 DEF HoldsEntry
<1>3. ASSUME NEW k \in DOMAIN d, k # z, dn[k] = d[k], NEW o, NEW t, NEW x,
             HoldsEntry(o, t, x, d, w, free, k)
      PROVE  HoldsEntry(o, t, x, dn, wn, free, k)
  <2>1. k \in free \/ wn[k] = w[k]
    BY <1>3 DEF Puts
  <2>2. QED
    BY <1>3, <2>1 DEF HoldsEntry
<1>4. ASSUME NEW r \in 0 .. m.nrows - 1, NEW k \in Start(m, n, r) .. pos[r] - 1
      PROVE  k \in DOMAIN d /\ k # z /\ dn[k] = d[k] /\ k \in Start(m, n, r) .. posn[r] - 1
  BY DEF OnePlaceMore
<1>5. ASSUME NEW r \in 0 .. m.nrows - 1, NEW k \in Start(m, n, r) .. posn[r] - 1
      PROVE  \/ \E x \in 0 .. (p + 1) - 1 : m.rowind[x] = r /\ HoldsEntry(m, u, x, dn, wn, free, k)
             \/ \E y \in 0 .. q - 1 : n.rowind[y] = r /\ HoldsEntry(n, v, y, dn, wn, free, k)
  <2>1. CASE r = s /\ k = z
    <3>1. p \in 0 .. (p + 1) - 1
      BY <1>1
    <3>2. QED
      BY <2>1, <3>1, <1>2
  <2>2. CASE k \in Start(m, n, r) .. pos[r] - 1
    <3>1. CASE \E x \in 0 .. p - 1 : m.rowind[x] = r /\ HoldsEntry(m, u, x, d, w, free, k)
      <4>1. PICK x \in 0 .. p - 1 : m.rowind[x] = r /\ HoldsEntry(m, u, x, d, w, free, k)
        BY <3>1
      <4>2. HoldsEntry(m, u, x, dn, wn, free, k) /\ x \in 0 .. (p + 1) - 1
        BY <4>1, <2>2, <1>1, <1>3, <1>4
      <4>3. QED
        BY <4>1, <4>2
    <3>2. CASE \E y \in 0 .. q - 1 : n.rowind[y] = r /\ HoldsEntry(n, v, y, d, w, free, k)
      BY <3>2, <2>2, <1>3, <1>4
    <3>3. QED
      BY <2>2, <3>1, <3>2 DEF Members
  <2>3. QED
    BY <2>1, <2>2 DEF OnePlaceMore
<1>6. ASSUME NEW x \in 0 .. (p + 1) - 1
      PROVE  \E k \in Start(m, n, m.rowind[x]) .. posn[m.rowind[x]] - 1 :
                 HoldsEntry(m, u, x, dn, wn, free, k)
  <2>1. CASE x = p
    <3>1. z \in Start(m, n, s) .. posn[s] - 1
      BY DEF OnePlaceMore
    <3>2. QED
      BY <2>1, <3>1, <1>2
  <2>2. CASE x # p
    <3>1. x \in 0 .. p - 1 /\ m.rowind[x] \in 0 .. m.nrows - 1
      BY <2>2, <1>1
    <3>2. PICK k \in Start(m, n, m.rowind[x]) .. pos[m.rowind[x]] - 1 :
              HoldsEntry(m, u, x, d, w, free, k)
      BY <3>1 DEF Members
    <3>3. QED
      BY <3>1, <3>2, <1>3, <1>4
  <2>3. QED
    BY <2>1, <2>2
<1>7. ASSUME NEW y \in 0 .. q - 1
      PROVE  \E k \in Start(m, n, n.rowind[y]) .. posn[n.rowind[y]] - 1 :
                 HoldsEntry(n, v, y, dn, wn, free, k)
  <2>1. n.rowind[y] \in 0 .. m.nrows - 1
    BY <1>1
  <2>2. PICK k \in Start(m, n, n.rowind[y]) .. pos[n.rowind[y]] - 1 :
            HoldsEntry(n, v, y, d, w, free, k)
    BY DEF Members
  <2>3. QED
    BY <2>1, <2>2, <1>3, <1>4
<1>8. QED
  BY <1>5, <1>6, <1>7 DEF Members

--------------------------------------------------------------------------------
(* The scatter. *)

\* What the file is to hold of the values, and the places that keep none.
ValuesOfA == [x \in 0 .. Nnz(A) - 1 |-> Held(OutputType, A.values[x])]
ValuesOfZ == [y \in 0 .. Nnz(Z) - 1 |-> Held(OutputType, Zero)]
ValueFree == {k \in 0 .. NnzOut - 1 : IsIso}

OutputInv ==
    /\ output.is_iso = IsIso /\ output.value_type = OutputType
    /\ IsIso => output.values = [k \in {0} |-> Held(OutputType, IsoValueOfA)]
    /\ ~IsIso => /\ DOMAIN output.values = 0 .. NnzOut - 1
                 /\ IsFunctionOn(output.values, 0 .. NnzOut - 1)

\* The entries that were scattered are in place, in order and with their values.
Placed ==
    /\ OutputInv
    /\ ScatterInv
    /\ Members(A, ap, ValuesOfA, Z, zp, ValuesOfZ, positions, output.indices_1.data,
               output.values, ValueFree)

PlacedInv == CooBegun => Placed

LEMMA SameValues ==
    ASSUME UNCHANGED problem
    PROVE  /\ ValuesOfA' = ValuesOfA /\ ValuesOfZ' = ValuesOfZ /\ ValueFree' = ValueFree
           /\ IsIso' = IsIso /\ OutputType' = OutputType /\ IsoValueOfA' = IsoValueOfA
<1>1. IsIso' = IsIso /\ OutputType' = OutputType /\ IsoValueOfA' = IsoValueOfA
  BY DEF IsIso, OutputType, IsoValueOfA, A, Z, NoZeros, Nnz
<1>2. ValuesOfA' = ValuesOfA /\ ValuesOfZ' = ValuesOfZ /\ ValueFree' = ValueFree
  BY <1>1, SameProblem DEF ValuesOfA, ValuesOfZ, ValueFree, Nnz
<1>3. QED
  BY <1>1, <1>2

LEMMA PlacedSame ==
    ASSUME Placed, UNCHANGED <<problem, scatterVars>>
    PROVE  Placed'
<1>1. UNCHANGED <<positions, column, ap, zp, output>>
  BY DEF scatterVars
<1>2. OutputInv' /\ OutputShape'
  <2>1. OutputInv'
    BY <1>1, SameProblem, SameValues DEF Placed, OutputInv
  <2>2. OutputShape'
    BY <1>1, SameProblem DEF Placed, ScatterInv, OutputShape
  <2>3. QED
    BY <2>1, <2>2
<1>3. ScatterInv'
  BY <1>1, <1>2, SameProblem DEF Placed, ScatterInv
<1>4. Members(A, ap, ValuesOfA, Z, zp, ValuesOfZ, positions, output.indices_1.data,
              output.values, ValueFree)'
  BY <1>1, SameProblem, SameValues DEF Placed
<1>5. QED
  BY <1>2, <1>3, <1>4 DEF Placed

\* What an entry in a column's part of a matrix is in.
LEMMA CursorColumn ==
    ASSUME NEW m, IsMatlabMatrix(m), NEW p, NEW c, CursorIn(m, p, c), c < m.ncols,
           Left(m, p, c)
    PROVE  IsColumn(m, p, c)
  BY MatrixFacts DEF CursorIn, Left, IsColumn

\* What Scatter does to the values.
LEMMA ScatterValues ==
    ASSUME OutputShape, OutputInv, UNCHANGED problem, NEW r, NEW v, Scatter(r, v)
    PROVE  /\ OutputInv'
           /\ \/ ValueFree = 0 .. NnzOut - 1
              \/ /\ DOMAIN output.values = 0 .. NnzOut - 1
                 /\ Puts(output.values, positions[r], Held(OutputType, v), output'.values)
<1>1. PICK i, t, w, d :
        output = [is_iso |-> i, value_type |-> t, values |-> w,
                  indices_1 |-> [type |-> ExtentType(A.ncols), data |-> d]]
  BY DEF OutputShape
<1> DEFINE wn == IF i THEN w ELSE [w EXCEPT ![positions[r]] = Held(t, v)]
<1>2. output' = [output EXCEPT
                    !.indices_1.data[positions[r]] = Stored(output.indices_1.type, column),
                    !.values = IF output.is_iso THEN @
                               ELSE [@ EXCEPT ![positions[r]] = Held(output.value_type, v)]]
  BY DEF Scatter
<1>3. /\ output'.is_iso = i /\ output'.value_type = t
      /\ output'.values = IF i THEN w ELSE [w EXCEPT ![positions[r]] = Held(t, v)]
  BY <1>1, <1>2
<1>4. i = IsIso /\ t = OutputType
  BY <1>1 DEF OutputInv
<1>5. CASE IsIso
  <2>1. output'.values = output.values
    BY <1>1, <1>3, <1>4, <1>5
  <2>2. OutputInv'
    BY <1>3, <1>4, <1>5, <2>1, SameValues DEF OutputInv
  <2>3. QED
    BY <1>5, <2>2 DEF ValueFree
<1>6. CASE ~IsIso
  <2>1. /\ Puts(output.values, positions[r], Held(OutputType, v), output'.values)
        /\ DOMAIN output.values = 0 .. NnzOut - 1
    BY <1>1, <1>3, <1>4, <1>6 DEF Puts, OutputInv
  <2>2. DOMAIN output'.values = 0 .. NnzOut - 1 /\ IsFunctionOn(output'.values, 0 .. NnzOut - 1)
    <3>1. IsFunctionOn(output.values, 0 .. NnzOut - 1)
      BY <1>6 DEF OutputInv
    <3>2. PICK u, x : u = [output.values EXCEPT ![positions[r]] = x] /\ u = output'.values
      BY <2>1 DEF Puts
    <3>3. DOMAIN u = 0 .. NnzOut - 1
      BY <2>1, <3>2
    <3>4. IsFunctionOn(u, 0 .. NnzOut - 1)
      BY <2>1, <3>1, <3>2 DEF IsFunctionOn
    <3>5. QED
      BY <3>2, <3>3, <3>4
  <2>3. OutputInv'
    BY <1>3, <1>4, <1>6, <2>2, SameValues, SameProblem DEF OutputInv
  <2>4. QED
    BY <2>1, <2>3
<1>7. QED
  BY <1>5, <1>6

LEMMA CooCountPlaced == ASSUME problem \in Problems, CooInv, CooCount PROVE Placed'
<1>1. /\ call = "write_ssmc_coo" /\ Refused = "none" /\ UNCHANGED <<problem, call>>
      /\ stage' = "scatter" /\ ap' = 0 /\ zp' = 0 /\ CooBegun'
  BY DEF CooCount, Coo, At, CooBegun, CooInv, Proceed
<1>2. ScatterInv'
  BY <1>1, CooCountInv DEF CooInv
<1>3. OutputInv'
  <2>1. PICK v : v = IF IsIso THEN [k \in {0} |-> Held(OutputType, IsoValueOfA)]
                     ELSE [k \in 0 .. NnzOut - 1 |-> Unset]
    OBVIOUS
  <2>2. output'.is_iso = IsIso /\ output'.value_type = OutputType /\ output'.values = v
    BY <2>1 DEF CooCount
  <2>3. ~IsIso => DOMAIN v = 0 .. NnzOut - 1 /\ IsFunctionOn(v, 0 .. NnzOut - 1)
    BY <2>1 DEF IsFunctionOn
  <2>4. QED
    BY <1>1, <2>1, <2>2, <2>3, SameProblem, SameValues DEF OutputInv
<1>4. SameShape(A, Z)
  BY <1>1, SessionMatrices DEF Refused
<1>5. \A r \in 0 .. A.nrows - 1 : positions'[r] = Start(A, Z, r) /\ Start(A, Z, r) \in Nat
  BY <1>4, RowStartIs, StartFacts, MatrixFacts DEF CooCount, SameShape
<1>6. Members(A, 0, ValuesOfA, Z, 0, ValuesOfZ, positions', output'.indices_1.data,
              output'.values, ValueFree)
  BY <1>5 DEF Members
<1>7. QED
  BY <1>1, <1>2, <1>3, <1>6, SameProblem, SameValues DEF Placed

LEMMA TakeAPlaced == ASSUME problem \in Problems, CooInv, Placed, TakeA PROVE Placed'
<1>1. /\ CooBegun /\ stage = "scatter" /\ UNCHANGED <<problem, call, stage>>
      /\ column < A.ncols /\ Precedes(A, ap, Z, zp, column)
      /\ zp' = zp /\ ap' = ap + 1
  BY DEF TakeA, Coo, At, CooBegun, mexVars
<1>2. Scatter(A.rowind[ap], A.values[ap])
  BY DEF TakeA
<1>3. ScatterInv'
  BY <1>1, TakeAInv DEF CooInv, CooBegun
<1>4. SameShape(A, Z) /\ A.ncols \in Nat /\ A.ncols <= Base * Base
      /\ Nnz(A) \in Nat /\ Nnz(Z) \in Nat
  BY <1>1, CooMatrices
<1>5. /\ InRowOrder(A, ap, Z, zp, column, positions, output.indices_1.data)
      /\ OutputShape /\ OutputInv
      /\ Members(A, ap, ValuesOfA, Z, zp, ValuesOfZ, positions, output.indices_1.data,
                 output.values, ValueFree)
  BY DEF Placed, ScatterInv
<1>6. /\ CursorIn(A, ap, column) /\ CursorIn(Z, zp, column) /\ Left(A, ap, column)
      /\ column \in Nat
  BY <1>1, <1>4, <1>5 DEF InRowOrder, CursorIn, Precedes
<1>7. IsColumn(A, ap, column) /\ ap \in 0 .. Nnz(A) - 1 /\ zp \in 0 .. Nnz(Z)
  BY <1>1, <1>4, <1>6, CursorColumn, CursorFacts DEF SameShape
<1>8. Stored(ExtentType(A.ncols), column) = column
  BY <1>1, <1>4, <1>6, IndexFits
<1>9. /\ Puts(output.indices_1.data, positions[A.rowind[ap]], column,
              output'.indices_1.data)
      /\ DOMAIN output.indices_1.data = 0 .. Nnz(A) + Nnz(Z) - 1
      /\ Puts(positions, A.rowind[ap], positions[A.rowind[ap]] + 1, positions')
  <2>1. /\ Puts(output.indices_1.data, positions[A.rowind[ap]],
                Stored(ExtentType(A.ncols), column), output'.indices_1.data)
        /\ DOMAIN output.indices_1.data = 0 .. NnzOut - 1
        /\ Puts(positions, A.rowind[ap], positions[A.rowind[ap]] + 1, positions')
    BY <1>1, <1>2, <1>5, ScatterEffect
  <2>2. QED
    BY <2>1, <1>4, <1>8 DEF NnzOut
<1>10. /\ positions[A.rowind[ap]] \in DOMAIN output.indices_1.data
       /\ OnePlaceMore(A, Z, A.rowind[ap], positions, positions', output.indices_1.data,
                       output'.indices_1.data, column)
  BY <1>1, <1>4, <1>5, <1>9, Takes
<1>11. /\ OutputInv'
       /\ \/ DOMAIN output.indices_1.data \subseteq ValueFree
          \/ /\ DOMAIN output.indices_1.data \subseteq DOMAIN output.values
             /\ Puts(output.values, positions[A.rowind[ap]], ValuesOfA[ap], output'.values)
  <2>1. /\ OutputInv'
        /\ \/ ValueFree = 0 .. NnzOut - 1
           \/ /\ DOMAIN output.values = 0 .. NnzOut - 1
              /\ Puts(output.values, positions[A.rowind[ap]], Held(OutputType, A.values[ap]),
                      output'.values)
    BY <1>1, <1>2, <1>5, ScatterValues
  <2>2. ValuesOfA[ap] = Held(OutputType, A.values[ap])
    BY <1>7 DEF ValuesOfA
  <2>3. 0 .. NnzOut - 1 = DOMAIN output.indices_1.data
    BY <1>4, <1>9 DEF NnzOut
  <2>4. QED
    BY <2>1, <2>2, <2>3
<1>12. Members(A, ap + 1, ValuesOfA, Z, zp, ValuesOfZ, positions', output'.indices_1.data,
               output'.values, ValueFree)
  BY <1>4, <1>5, <1>7, <1>10, <1>11, MemberTaken
<1>13. QED
  BY <1>1, <1>3, <1>11, <1>12, SameProblem, SameValues DEF Placed

LEMMA TakeZPlaced == ASSUME problem \in Problems, CooInv, Placed, TakeZ PROVE Placed'
<1>1. /\ CooBegun /\ stage = "scatter" /\ UNCHANGED <<problem, call, stage>>
      /\ column < A.ncols /\ Precedes(Z, zp, A, ap, column)
      /\ ap' = ap /\ zp' = zp + 1
  BY DEF TakeZ, Coo, At, CooBegun, mexVars
<1>2. Scatter(Z.rowind[zp], Zero)
  BY DEF TakeZ
<1>3. ScatterInv'
  BY <1>1, TakeZInv DEF CooInv, CooBegun
<1>4. SameShape(A, Z) /\ A.ncols \in Nat /\ A.ncols <= Base * Base /\ Z.ncols = A.ncols
      /\ Nnz(A) \in Nat /\ Nnz(Z) \in Nat
  BY <1>1, CooMatrices DEF SameShape
<1>5. /\ InRowOrder(A, ap, Z, zp, column, positions, output.indices_1.data)
      /\ OutputShape /\ OutputInv
      /\ Members(A, ap, ValuesOfA, Z, zp, ValuesOfZ, positions, output.indices_1.data,
                 output.values, ValueFree)
  BY DEF Placed, ScatterInv
<1>6. /\ CursorIn(A, ap, column) /\ CursorIn(Z, zp, column) /\ Left(Z, zp, column)
      /\ column \in Nat
  BY <1>1, <1>4, <1>5 DEF InRowOrder, CursorIn, Precedes
<1>7. IsColumn(Z, zp, column) /\ zp \in 0 .. Nnz(Z) - 1 /\ ap \in 0 .. Nnz(A)
  BY <1>1, <1>4, <1>6, CursorColumn, CursorFacts DEF SameShape
<1>8. Stored(ExtentType(A.ncols), column) = column
  BY <1>1, <1>4, <1>6, IndexFits
<1>9. /\ Puts(output.indices_1.data, positions[Z.rowind[zp]], column,
              output'.indices_1.data)
      /\ DOMAIN output.indices_1.data = 0 .. Nnz(Z) + Nnz(A) - 1
      /\ Puts(positions, Z.rowind[zp], positions[Z.rowind[zp]] + 1, positions')
  <2>1. /\ Puts(output.indices_1.data, positions[Z.rowind[zp]],
                Stored(ExtentType(A.ncols), column), output'.indices_1.data)
        /\ DOMAIN output.indices_1.data = 0 .. NnzOut - 1
        /\ Puts(positions, Z.rowind[zp], positions[Z.rowind[zp]] + 1, positions')
    BY <1>1, <1>2, <1>5, ScatterEffect
  <2>2. QED
    BY <2>1, <1>4, <1>8 DEF NnzOut
\* The other way round, as a step of Zeros.
<1>10. /\ SameShape(Z, A)
       /\ InRowOrder(Z, zp, A, ap, column, positions, output.indices_1.data)
       /\ Members(Z, zp, ValuesOfZ, A, ap, ValuesOfA, positions, output.indices_1.data,
                  output.values, ValueFree)
  <2>1. zp \in 0 .. Nnz(Z)
    BY <1>4, <1>7
  <2>2. QED
    BY <1>4, <1>5, <1>7, <2>1, Exchanged, MembersExchanged
<1>11. /\ positions[Z.rowind[zp]] \in DOMAIN output.indices_1.data
       /\ OnePlaceMore(Z, A, Z.rowind[zp], positions, positions', output.indices_1.data,
                       output'.indices_1.data, column)
  BY <1>1, <1>4, <1>9, <1>10, Takes
<1>12. /\ OutputInv'
       /\ \/ DOMAIN output.indices_1.data \subseteq ValueFree
          \/ /\ DOMAIN output.indices_1.data \subseteq DOMAIN output.values
             /\ Puts(output.values, positions[Z.rowind[zp]], ValuesOfZ[zp], output'.values)
  <2>1. /\ OutputInv'
        /\ \/ ValueFree = 0 .. NnzOut - 1
           \/ /\ DOMAIN output.values = 0 .. NnzOut - 1
              /\ Puts(output.values, positions[Z.rowind[zp]], Held(OutputType, Zero),
                      output'.values)
    BY <1>1, <1>2, <1>5, ScatterValues
  <2>2. ValuesOfZ[zp] = Held(OutputType, Zero)
    BY <1>7 DEF ValuesOfZ
  <2>3. 0 .. NnzOut - 1 = DOMAIN output.indices_1.data
    BY <1>4, <1>9 DEF NnzOut
  <2>4. QED
    BY <2>1, <2>2, <2>3
<1>13. Members(Z, zp + 1, ValuesOfZ, A, ap, ValuesOfA, positions', output'.indices_1.data,
               output'.values, ValueFree)
  BY <1>7, <1>10, <1>11, <1>12, MemberTaken
<1>14. Members(A, ap, ValuesOfA, Z, zp + 1, ValuesOfZ, positions', output'.indices_1.data,
               output'.values, ValueFree)
  <2>1. zp + 1 \in 0 .. Nnz(Z)
    BY <1>4, <1>7
  <2>2. QED
    BY <1>7, <1>10, <1>13, <2>1, MembersExchanged
<1>15. QED
  BY <1>1, <1>3, <1>12, <1>14, SameProblem, SameValues DEF Placed

LEMMA NextColumnPlaced == ASSUME problem \in Problems, CooInv, Placed, NextColumn PROVE Placed'
<1>1. /\ CooBegun /\ stage = "scatter" /\ UNCHANGED <<problem, call, stage, positions, ap, zp, output>>
  BY DEF NextColumn, Coo, At, CooBegun, mexVars
<1>2. ScatterInv'
  BY <1>1, NextColumnInv DEF CooInv, CooBegun
<1>3. OutputInv'
  BY <1>1, SameProblem, SameValues DEF Placed, OutputInv
<1>4. QED
  BY <1>1, <1>2, <1>3, SameProblem, SameValues DEF Placed

\* Every step of the writer, and every other step of a session.
LEMMA NextPlaced == ASSUME SessionInv, PlacedInv, [Next]_vars PROVE PlacedInv'
<1>1. problem \in Problems /\ CooInv /\ UNCHANGED problem
  BY ProblemStays DEF SessionInv
<1>2. ASSUME CooBegun' => CooBegun /\ UNCHANGED scatterVars PROVE PlacedInv'
  BY <1>1, <1>2, PlacedSame DEF PlacedInv
<1>3. CASE CooNext
  <2>1. CASE \E g \in problem.names : CooCall(g)
    BY <1>2, <2>1 DEF CooCall, Enter, CooBegun
  <2>2. CASE CooRefuse \/ CooDuplicate \/ CooOpenFails \/ CooValuesFail \/ CooRowsDatasetFails
             \/ FlushFails \/ CooColumnsFail \/ CooDescriptor
    <3>1. call' = "none"
      BY <2>2 DEF CooRefuse, CooDuplicate, CooOpenFails, CooValuesFail, CooRowsDatasetFails,
         FlushFails, CooColumnsFail, CooWriteArrayFails, CooFail, CooDescriptor, Raise, Leave
    <3>2. QED
      BY <1>2, <3>1 DEF CooBegun
  <2>3. CASE CooScattered \/ CooOpen \/ CooValues \/ CooRowsDataset \/ SkipRow \/ FillRun
             \/ FlushChunk \/ CooColumns
    <3>1. CooBegun /\ UNCHANGED scatterVars
      BY <2>3 DEF CooScattered, CooOpen, CooValues, CooRowsDataset, SkipRow, FillRun,
         FlushChunk, ChunkReady, CooColumns, CooWriteArray, Coo, At, CooBegun, cooVars,
         scatterVars
    <3>2. QED
      BY <1>2, <3>1
  <2>4. CASE CooCount
    BY <1>1, <2>4, CooCountPlaced DEF PlacedInv
  <2>5. CASE TakeA \/ TakeZ \/ NextColumn
    <3>1. Placed
      BY <2>5 DEF TakeA, TakeZ, NextColumn, Coo, At, CooBegun, PlacedInv
    <3>2. QED
      BY <1>1, <2>5, <3>1, TakeAPlaced, TakeZPlaced, NextColumnPlaced DEF PlacedInv
  <2>6. QED
    BY <1>3, <2>1, <2>2, <2>3, <2>4, <2>5 DEF CooNext
<1>4. CASE (SsmcNext \/ MinNext \/ TextNext) /\ UNCHANGED cooVars
  <2>1. ~CooBegun'
    BY <1>4, NotTheWriter
  <2>2. QED
    BY <1>2, <2>1
<1>5. CASE UNCHANGED vars
  <2>1. CooBegun' = CooBegun /\ UNCHANGED scatterVars
    BY <1>5 DEF vars, mexVars, cooVars, scatterVars, CooBegun
  <2>2. QED
    BY <1>2, <2>1
<1>6. QED
  BY <1>3, <1>4, <1>5 DEF Next, Aborted

--------------------------------------------------------------------------------
(* The file under construction. *)

\* v is the row of the place k.
RowAt(m, n, k, v) ==
    v \in 0 .. m.nrows - 1 /\ Start(m, n, v) <= k /\ k < Start(m, n, v + 1)

\* Of the row indices a of both matrices the first c are written.
RowsWritten(m, n, a, c) ==
    /\ a = [type |-> a.type, data |-> a.data]
    /\ DOMAIN a.data = 0 .. Nnz(m) + Nnz(n) - 1
    /\ IsFunctionOn(a.data, DOMAIN a.data)
    /\ \A k \in 0 .. c - 1 : RowAt(m, n, k, a.data[k])

\* Those in the chunk b come next.
RowsBuffered(m, n, c, b) == \A x \in 1 .. Len(b) : RowAt(m, n, c + x - 1, b[x])

\* What the object o holds of the matrix at a stage of the call.
HoldsSoFar(o) ==
    /\ stage \in {"dataset", "fill", "columns", "descriptor"} => o.values = ValuesArray
    /\ stage = "fill" => RowsWritten(A, Z, o.indices_0, written) /\ RowsBuffered(A, Z, written, buffer)
    /\ stage \in {"columns", "descriptor"} => RowsWritten(A, Z, o.indices_0, NnzOut)
    /\ stage = "descriptor" => o.indices_1 = output.indices_1

WrittenInv == CooBegun => HoldsSoFar(file.objects[group])

\* The object g is o with the part f replaced by a.
PartReplaced(o, f, a, g) ==
    /\ f = "values" => g.values = a
    /\ f = "indices_0" => g.indices_0 = a /\ g.values = o.values
    /\ f = "indices_1" => g.indices_1 = a /\ g.values = o.values /\ g.indices_0 = o.indices_0
    /\ f = "descriptor" =>
          /\ g.kind = "group" /\ g.descriptor = a /\ g.values = o.values
          /\ g.indices_0 = o.indices_0 /\ g.indices_1 = o.indices_1

LEMMA PartPut ==
    ASSUME NEW o, GroupShape(o), NEW f, NEW a
    PROVE  PartReplaced(o, f, a, [o EXCEPT ![f] = a])
  BY DEF GroupShape, PartReplaced

LEMMA PutIs ==
    ASSUME FileInv, call = "write_ssmc_coo", stage \in WritingStages, NEW f, NEW a, Put(f, a)
    PROVE  PartReplaced(file.objects[group], f, a, file'.objects[group])
<1>1. BeingWritten /\ group \in Names /\ FileShape
  BY DEF FileInv, WritingStages, Coo, At
<1> DEFINE o == file.objects[group]
           g == [o EXCEPT ![f] = a]
<1>2. file' = WithObject(file, group, g)
  BY DEF Put, WithObject
<1>3. PartReplaced(o, f, a, g)
  BY <1>1, PartPut DEF BeingWritten
<1> HIDE DEF g
<1>4. file'.objects[group] = g
  BY <1>1, <1>2, ObjectChanged DEF FileShape
<1>5. QED
  BY <1>3, <1>4

LEMMA ValuesWritten ==
    ASSUME FileInv, CooBegun, WrittenInv, CooValues
    PROVE  WrittenInv'
<1>1. /\ call = "write_ssmc_coo" /\ stage = "values" /\ stage' = "dataset"
      /\ UNCHANGED <<group, output>> /\ Put("values", ValuesArray)
  BY DEF CooValues, CooWriteArray, Coo, At, Proceed, cooVars
<1>2. stage \in WritingStages
  BY <1>1 DEF WritingStages
<1>3. file'.objects[group].values = ValuesArray
  BY <1>1, <1>2, PutIs DEF PartReplaced
<1>4. QED
  BY <1>1, <1>3 DEF WrittenInv, HoldsSoFar, ValuesArray

LEMMA RowsDatasetWritten ==
    ASSUME problem \in Problems, FileInv, CooInv, CooBegun, WrittenInv, CooRowsDataset
    PROVE  WrittenInv'
<1>1. /\ call = "write_ssmc_coo" /\ stage = "dataset" /\ UNCHANGED <<problem, cooVars>>
      /\ Put("indices_0", Uninitialised(RowType, NnzOut))
      /\ stage' = IF NnzOut = 0 THEN "columns" ELSE "fill"
      /\ UNCHANGED <<group, output, written, buffer>>
  BY DEF CooRowsDataset, Coo, At, Proceed, cooVars
<1>2. NnzOut \in Nat /\ written = 0 /\ buffer = <<>>
  BY <1>1, CooMatrices DEF CooInv, NothingGenerated
<1>3. stage \in WritingStages /\ file.objects[group].values = ValuesArray
  BY <1>1 DEF WritingStages, WrittenInv, HoldsSoFar
<1>4. /\ file'.objects[group].values = ValuesArray
      /\ file'.objects[group].indices_0 = Uninitialised(RowType, NnzOut)
  BY <1>1, <1>3, PutIs DEF PartReplaced
<1>5. RowsWritten(A, Z, file'.objects[group].indices_0, 0)
  <2>1. /\ Uninitialised(RowType, NnzOut) =
              [type |-> RowType, data |-> [k \in 0 .. NnzOut - 1 |-> Junk]]
    BY DEF Uninitialised, Indexes
  <2>2. PICK d : d = [k \in 0 .. NnzOut - 1 |-> Junk]
    OBVIOUS
  <2>3. file'.objects[group].indices_0 = [type |-> RowType, data |-> d]
    BY <1>4, <2>1, <2>2
  <2>4. DOMAIN d = 0 .. Nnz(A) + Nnz(Z) - 1
    <3>1. NnzOut = Nnz(A) + Nnz(Z) /\ NnzOut \in Nat /\ Nnz(A) \in Nat /\ Nnz(Z) \in Nat
      BY <1>1, CooMatrices DEF NnzOut
    <3>2. DOMAIN d = 0 .. NnzOut - 1
      BY <2>2
    <3>3. QED
      BY <3>1, <3>2
  <2>5. \A k \in 0 .. 0 - 1 : FALSE
    OBVIOUS
  <2>6. IsFunctionOn(d, DOMAIN d)
    BY <2>2 DEF IsFunctionOn
  <2>7. QED
    BY <2>3, <2>4, <2>5, <2>6 DEF RowsWritten
<1>6. RowsBuffered(A, Z, written, buffer)
  BY <1>2 DEF RowsBuffered
<1>7. A' = A /\ Z' = Z /\ NnzOut' = NnzOut
  BY <1>1, SameProblem
<1>8. QED
  BY <1>1, <1>2, <1>4, <1>5, <1>6, <1>7 DEF WrittenInv, HoldsSoFar, ValuesArray

LEMMA SkipRowWritten ==
    ASSUME CooBegun, WrittenInv, SkipRow PROVE WrittenInv'
<1>1. UNCHANGED <<problem, file, stage, group, output, written, buffer>> /\ stage = "fill"
  BY DEF SkipRow, mexVars, scatterVars, Coo, At
<1>2. A' = A /\ Z' = Z
  BY <1>1, SameProblem
<1>3. QED
  BY <1>1, <1>2 DEF WrittenInv, HoldsSoFar, ValuesArray

LEMMA FillRunWritten ==
    ASSUME problem \in Problems, CooInv, CooBegun, WrittenInv, FillRun PROVE WrittenInv'
<1>1. /\ UNCHANGED <<problem, file, stage, group, output, written>> /\ stage = "fill"
      /\ Generated < NnzOut /\ Generated < positions[row] /\ Len(buffer) < Capacity
      /\ buffer' = buffer \o Filled(Run)
      /\ GeneratorInv /\ RowsBuffered(A, Z, written, buffer)
  BY DEF FillRun, mexVars, scatterVars, Coo, At, CooInv, WrittenInv, HoldsSoFar
<1>2. /\ row \in 0 .. A.nrows - 1 /\ positions[row] = Start(A, Z, row + 1)
      /\ Start(A, Z, row + 1) \in Nat
      /\ A.nrows \in Nat /\ A.nrows <= Base * Base /\ NnzOut \in Nat
  BY <1>1, RowEnd, CooMatrices, MatrixFacts DEF SameShape
<1>3. Capacity \in Nat /\ buffer \in Seq(Int) /\ Len(buffer) \in Nat /\ written \in Nat
  BY <1>1, <1>2, CapacityFacts DEF GeneratorInv, RowInRange
<1>4. Generated \in Nat /\ Generated = written + Len(buffer)
  BY <1>3 DEF Generated
<1>5. Run \in Nat /\ Generated + Run <= Start(A, Z, row + 1)
  BY <1>1, <1>2, <1>3, <1>4, RunFits
<1>6. Start(A, Z, row) \in Nat /\ Start(A, Z, row) <= Generated
  BY <1>1, <1>2, StartFacts, CooMatrices DEF GeneratorInv
<1>7. Stored(RowType, row) = row
  BY <1>2, IndexFits DEF RowType
<1>8. Filled(Run) = [k \in 1 .. Run |-> row] /\ Filled(Run) \in Seq(Int) /\ Len(Filled(Run)) = Run
  BY <1>2, <1>5, <1>7 DEF Filled
<1>9. ASSUME NEW x \in 1 .. Len(buffer')
      PROVE  RowAt(A, Z, written + x - 1, buffer'[x])
  <2>1. x \in Nat /\ x >= 1 /\ x <= Len(buffer) + Run
    BY <1>1, <1>3, <1>5, <1>8, Appended
  <2>2. CASE x <= Len(buffer)
    <3>1. buffer'[x] = buffer[x]
      BY <1>1, <1>3, <1>8, <2>1, <2>2
    <3>2. x \in 1 .. Len(buffer)
      BY <1>3, <2>1, <2>2
    <3>3. QED
      BY <1>1, <3>1, <3>2 DEF RowsBuffered
  <2>3. CASE x > Len(buffer)
    <3>1. buffer'[x] = Filled(Run)[x - Len(buffer)]
      BY <1>1, <1>3, <1>5, <1>8, <2>1, <2>3
    <3>2. x - Len(buffer) \in 1 .. Run
      BY <1>3, <1>5, <2>1, <2>3
    <3>3. buffer'[x] = row
      BY <1>8, <3>1, <3>2
    <3>4. Start(A, Z, row) <= written + x - 1 /\ written + x - 1 < Start(A, Z, row + 1)
      BY <1>2, <1>3, <1>4, <1>5, <1>6, <2>1, <2>3
    <3>5. QED
      BY <1>2, <3>3, <3>4 DEF RowAt
  <2>4. QED
    BY <1>3, <2>1, <2>2, <2>3
<1>10. RowsBuffered(A, Z, written, buffer')
  BY <1>9 DEF RowsBuffered
<1>11. A' = A /\ Z' = Z
  BY <1>1, SameProblem
<1>12. QED
  BY <1>1, <1>10, <1>11 DEF WrittenInv, HoldsSoFar, ValuesArray

\* A chunk that is written.
LEMMA ChunkWritten ==
    ASSUME NEW m, NEW n, NEW a, NEW c \in Nat, NEW b, Len(b) \in Nat,
           RowsWritten(m, n, a, c), RowsBuffered(m, n, c, b),
           Nnz(m) \in Nat, Nnz(n) \in Nat, c + Len(b) <= Nnz(m) + Nnz(n),
           NEW f, f = [k \in DOMAIN a.data |-> IF k \in c .. (c + Len(b)) - 1
                                               THEN b[k - c + 1] ELSE a.data[k]]
    PROVE  RowsWritten(m, n, [a EXCEPT !.data = f], c + Len(b))
<1>1. /\ a = [type |-> a.type, data |-> a.data]
      /\ DOMAIN a.data = 0 .. Nnz(m) + Nnz(n) - 1
      /\ \A k \in 0 .. c - 1 : RowAt(m, n, k, a.data[k])
  BY DEF RowsWritten
<1>2. [a EXCEPT !.data = f] = [type |-> a.type, data |-> f]
  <2>1. \A t, d, g : [[type |-> t, data |-> d] EXCEPT !.data = g] = [type |-> t, data |-> g]
    OBVIOUS
  <2>2. PICK t, d : a = [type |-> t, data |-> d]
    BY <1>1
  <2>3. a.type = t
    BY <2>2
  <2>4. QED
    BY <2>1, <2>2, <2>3
<1>3. ASSUME NEW k \in 0 .. (c + Len(b)) - 1 PROVE RowAt(m, n, k, f[k])
  <2>1. k \in DOMAIN a.data /\ k \in Nat /\ k < c + Len(b)
    <3>1. \A l \in Nat : \A x \in 0 .. (c + l) - 1 :
              c + l <= Nnz(m) + Nnz(n) =>
                 x \in 0 .. Nnz(m) + Nnz(n) - 1 /\ x \in Nat /\ x < c + l
      OBVIOUS
    <3>2. QED
      BY <1>1, <3>1
  <2>2. CASE k < c
    <3>1. f[k] = a.data[k] /\ k \in 0 .. c - 1
      BY <2>1, <2>2
    <3>2. QED
      BY <1>1, <3>1
  <2>3. CASE k >= c
    <3>1. k \in c .. (c + Len(b)) - 1 /\ k - c + 1 \in 1 .. Len(b) /\ c + (k - c + 1) - 1 = k
      BY <2>1, <2>3
    <3>2. f[k] = b[k - c + 1]
      BY <2>1, <3>1
    <3>3. QED
      BY <3>1, <3>2 DEF RowsBuffered
  <2>4. QED
    BY <2>1, <2>2, <2>3
<1>4. DOMAIN f = 0 .. Nnz(m) + Nnz(n) - 1 /\ IsFunctionOn(f, DOMAIN f)
  BY <1>1 DEF IsFunctionOn
<1>5. QED
  BY <1>2, <1>3, <1>4 DEF RowsWritten

LEMMA FlushWritten ==
    ASSUME problem \in Problems, FileInv, CooInv, CooBegun, WrittenInv, FlushChunk
    PROVE  WrittenInv'
<1> DEFINE a == file.objects[group].indices_0
           f == [k \in DOMAIN a.data |-> IF k \in written .. (written + Len(buffer)) - 1
                                         THEN buffer[k - written + 1] ELSE a.data[k]]
<1>1. /\ call = "write_ssmc_coo" /\ stage = "fill"
      /\ UNCHANGED <<problem, group, output>>
      /\ stage' = IF Generated = NnzOut THEN "columns" ELSE "fill"
      /\ written' = Generated /\ buffer' = <<>>
      /\ Put("indices_0", [a EXCEPT !.data = f])
      /\ GeneratorInv /\ RowsBuffered(A, Z, written, buffer)
      /\ RowsWritten(A, Z, a, written) /\ file.objects[group].values = ValuesArray
  BY DEF FlushChunk, ChunkReady, Coo, At, Proceed, scatterVars, CooInv, WrittenInv, HoldsSoFar,
     Generated
<1>2. NnzOut \in Nat /\ written \in Nat /\ Len(buffer) \in Nat /\ Nnz(A) \in Nat /\ Nnz(Z) \in Nat
      /\ Generated = written + Len(buffer) /\ written + Len(buffer) <= NnzOut
  BY <1>1, CooMatrices DEF GeneratorInv, RowInRange, Generated
<1>3. RowsWritten(A, Z, [a EXCEPT !.data = f], written + Len(buffer))
  <2>1. written + Len(buffer) <= Nnz(A) + Nnz(Z)
    BY <1>2 DEF NnzOut
  <2>2. QED
    BY <1>1, <1>2, <2>1, ChunkWritten
<1> HIDE DEF f, a
<1>4. stage \in WritingStages
  BY <1>1 DEF WritingStages
<1>5. /\ file'.objects[group].values = ValuesArray
      /\ file'.objects[group].indices_0 = [a EXCEPT !.data = f]
  BY <1>1, <1>4, PutIs DEF PartReplaced
<1>6. RowsWritten(A, Z, file'.objects[group].indices_0, written')
  BY <1>1, <1>2, <1>3, <1>5
<1>7. RowsBuffered(A, Z, written', buffer')
  BY <1>1 DEF RowsBuffered
<1>8. A' = A /\ Z' = Z /\ NnzOut' = NnzOut
  BY <1>1, SameProblem
<1>9. QED
  BY <1>1, <1>5, <1>6, <1>7, <1>8 DEF WrittenInv, HoldsSoFar, ValuesArray

LEMMA ColumnsWritten ==
    ASSUME FileInv, CooBegun, WrittenInv, CooColumns PROVE WrittenInv'
<1>1. /\ call = "write_ssmc_coo" /\ stage = "columns" /\ stage' = "descriptor"
      /\ UNCHANGED <<problem, group, output>> /\ Put("indices_1", output.indices_1)
  BY DEF CooColumns, CooWriteArray, Coo, At, Proceed, cooVars
<1>2. stage \in WritingStages
  BY <1>1 DEF WritingStages
<1>3. /\ file'.objects[group].values = file.objects[group].values
      /\ file'.objects[group].indices_0 = file.objects[group].indices_0
      /\ file'.objects[group].indices_1 = output.indices_1
  BY <1>1, <1>2, PutIs DEF PartReplaced
<1>4. A' = A /\ Z' = Z /\ NnzOut' = NnzOut
  BY <1>1, SameProblem
<1>5. QED
  BY <1>1, <1>3, <1>4 DEF WrittenInv, HoldsSoFar, ValuesArray

\* A step after which the call is not at a stage that has written anything.
LEMMA NothingWritten ==
    ASSUME CooBegun' => stage' \notin {"dataset", "fill", "columns", "descriptor"}
    PROVE  WrittenInv'
  BY DEF WrittenInv, HoldsSoFar

LEMMA NextWritten ==
    ASSUME SessionInv, FileInv, WrittenInv, [Next]_vars
    PROVE  WrittenInv'
<1>1. problem \in Problems /\ CooInv
  BY DEF SessionInv
<1>2. CASE CooNext
  <2>1. CASE \E g \in problem.names : CooCall(g)
    BY <2>1, NothingWritten DEF CooCall, Enter
  <2>2. CASE CooRefuse \/ CooDuplicate \/ CooOpenFails \/ CooValuesFail \/ CooRowsDatasetFails
             \/ FlushFails \/ CooColumnsFail \/ CooDescriptor
    <3>1. stage' = "none"
      BY <2>2 DEF CooRefuse, CooDuplicate, CooOpenFails, CooValuesFail, CooRowsDatasetFails,
         FlushFails, CooColumnsFail, CooWriteArrayFails, CooFail, CooDescriptor, Raise, Leave
    <3>2. QED
      BY <3>1, NothingWritten
  <2>3. CASE CooCount \/ TakeA \/ TakeZ \/ NextColumn \/ CooScattered \/ CooOpen
    <3>1. stage' \in {"scatter", "open", "values"}
      BY <2>3 DEF CooCount, TakeA, TakeZ, NextColumn, CooScattered, CooOpen, Coo, At, Proceed,
         mexVars
    <3>2. QED
      BY <3>1, NothingWritten
  <2>4. CASE CooValues \/ CooRowsDataset \/ SkipRow \/ FillRun \/ FlushChunk \/ CooColumns
    <3>1. CooBegun
      BY <2>4 DEF CooValues, CooRowsDataset, SkipRow, FillRun, FlushChunk, ChunkReady,
         CooColumns, CooWriteArray, Coo, At, CooBegun
    <3>2. QED
      BY <1>1, <2>4, <3>1, ValuesWritten, RowsDatasetWritten, SkipRowWritten, FillRunWritten,
         FlushWritten, ColumnsWritten
  <2>5. QED
    BY <1>2, <2>1, <2>2, <2>3, <2>4 DEF CooNext
<1>3. CASE (SsmcNext \/ MinNext \/ TextNext) /\ UNCHANGED cooVars
  BY <1>3, NotTheWriter, NothingWritten
<1>4. CASE UNCHANGED vars
  <2>1. UNCHANGED <<problem, file, call, stage, group, output, written, buffer>>
    BY <1>4 DEF vars, mexVars, cooVars
  <2>2. A' = A /\ Z' = Z /\ NnzOut' = NnzOut
    BY <2>1, SameProblem
  <2>3. QED
    BY <2>1, <2>2 DEF WrittenInv, HoldsSoFar, ValuesArray, CooBegun
<1>5. QED
  BY <1>2, <1>3, <1>4 DEF Next, Aborted

--------------------------------------------------------------------------------
(* The matrix that a finished group holds. *)

LEMMA ColumnUnique ==
    ASSUME NEW m, IsMatlabMatrix(m), NEW x, NEW c, IsColumn(m, x, c), x \in Nat
    PROVE  c = ColumnOf(m, x)
<1> DEFINE e == ColumnOf(m, x)
<1>1. c \in 0 .. m.ncols - 1 /\ m.colptr[c] <= x /\ x < m.colptr[c + 1]
  BY DEF IsColumn
<1>2. e \in 0 .. m.ncols - 1 /\ m.colptr[e] <= x /\ x < m.colptr[e + 1]
  BY <1>1 DEF ColumnOf
<1> HIDE DEF e
<1>3. m.ncols \in Nat
  BY MatrixFacts
<1>4. /\ c \in 0 .. m.ncols /\ c + 1 \in 0 .. m.ncols
      /\ e \in 0 .. m.ncols /\ e + 1 \in 0 .. m.ncols
  BY <1>1, <1>2, <1>3
<1>5. /\ m.colptr[c] \in Nat /\ m.colptr[c + 1] \in Nat
      /\ m.colptr[e] \in Nat /\ m.colptr[e + 1] \in Nat
  BY <1>4, MatrixFacts
<1>6. ~(c < e)
  <2>1. c + 1 <= e => m.colptr[c + 1] <= m.colptr[e]
    BY <1>4 DEF IsMatlabMatrix
  <2>2. QED
    BY <1>1, <1>2, <1>3, <1>5, <2>1
<1>7. ~(e < c)
  <2>1. e + 1 <= c => m.colptr[e + 1] <= m.colptr[c]
    BY <1>4 DEF IsMatlabMatrix
  <2>2. QED
    BY <1>1, <1>2, <1>3, <1>5, <2>1
<1>8. c = e
  BY <1>1, <1>2, <1>3, <1>6, <1>7
<1>9. QED
  BY <1>8 DEF e

\* A place is in one row; the rows of the places ascend.
LEMMA RowsAscend ==
    ASSUME NEW m, NEW n, SameShape(m, n), NEW k \in Nat, NEW l \in Nat, k <= l,
           NEW r, RowAt(m, n, k, r), NEW s, RowAt(m, n, l, s)
    PROVE  r <= s /\ r \in Nat /\ s \in Nat
<1>1. r \in Nat /\ s \in Nat /\ s + 1 \in Nat
  BY MatrixFacts DEF RowAt, SameShape
<1>2. Start(m, n, r) \in Nat /\ Start(m, n, s + 1) \in Nat
  BY <1>1, StartFacts
<1>3. s + 1 <= r => Start(m, n, s + 1) <= Start(m, n, r)
  BY <1>1, StartFacts
<1>4. Start(m, n, r) <= k /\ l < Start(m, n, s + 1)
  BY DEF RowAt
<1>5. QED
  BY <1>1, <1>2, <1>3, <1>4

\* The type that was chosen holds the values.
LEMMA HeldExactly ==
    ASSUME IsMatlabMatrix(A), A.is_sparse
    PROVE  /\ Held(OutputType, Zero) = Zero
           /\ \A x \in 0 .. Nnz(A) - 1 : Held(OutputType, A.values[x]) = A.values[x]
<1>1. ASSUME NEW v \in Int \X Int,
             OutputType \in {"float32", "complex32"} =>
                FitsFloat32(v[1]) /\ FitsFloat32(v[2])
      PROVE  Held(OutputType, v) = v
  <2>1. v = <<v[1], v[2]>>
    OBVIOUS
  <2>2. \A x : FitsFloat32(x) => Cast(x) = x
    BY DEF FitsFloat32, Cast
  <2>3. QED
    BY <1>1, <2>1, <2>2 DEF Held
<1>2. FitsFloat32(0)
  BY NumbersAssumption DEF FitsFloat32
<1>3. Held(OutputType, Zero) = Zero
  <2>1. Zero \in Int \X Int /\ Zero[1] = 0 /\ Zero[2] = 0
    BY DEF Zero
  <2>2. QED
    BY <1>1, <1>2, <2>1
<1>4. ASSUME NEW x \in 0 .. Nnz(A) - 1 PROVE Held(OutputType, A.values[x]) = A.values[x]
  <2>1. A.values[x] \in Int \X Int /\ x \in DOMAIN A.values
    BY DEF IsMatlabMatrix
  <2>2. OutputType \in {"float32", "complex32"} => AllFit(A.values)
    BY DEF OutputType
  <2>3. QED
    BY <1>1, <2>1, <2>2 DEF AllFit
<1>5. QED
  BY <1>3, <1>4

\* The value in the file of an entry in place k.
LEMMA ValueInFile ==
    ASSUME IsMatlabMatrix(A), IsMatlabMatrix(Z), A.is_sparse, OutputInv,
           NEW k \in 0 .. NnzOut - 1, NEW d, NEW m, NEW u, NEW x,
           HoldsEntry(m, u, x, d, output.values, ValueFree, k)
    PROVE  LET w == output.values[IF output.is_iso THEN 0 ELSE k]
           IN  /\ u = ValuesOfA /\ x \in 0 .. Nnz(A) - 1 => w = A.values[x]
               /\ u = ValuesOfZ /\ x \in 0 .. Nnz(Z) - 1 => w = Zero
<1> DEFINE w == output.values[IF output.is_iso THEN 0 ELSE k]
<1>1. CASE ~IsIso
  <2>1. w = u[x]
    BY <1>1 DEF HoldsEntry, OutputInv, ValueFree
  <2>2. QED
    BY <2>1, HeldExactly DEF ValuesOfA, ValuesOfZ
<1>2. CASE IsIso
  <2>1. w = Held(OutputType, IsoValueOfA)
    BY <1>2 DEF OutputInv
  <2>2. Nnz(A) \in Nat /\ Nnz(Z) \in Nat
    BY MatrixFacts
  <2>3. ASSUME x \in 0 .. Nnz(A) - 1 PROVE w = A.values[x]
    <3>1. Nnz(A) > 0 /\ 0 \in 0 .. Nnz(A) - 1
      BY <2>2, <2>3
    <3>2. IsoValueOfA = A.values[0] /\ Held(OutputType, A.values[0]) = A.values[0]
      BY <3>1, HeldExactly DEF IsoValueOfA
    <3>3. x \in DOMAIN A.values
      BY <2>3 DEF IsMatlabMatrix
    <3>4. A.values[x] = A.values[0]
      BY <1>2, <3>3 DEF IsIso, AllEqual, Equal
    <3>5. QED
      BY <2>1, <3>2, <3>4
  <2>4. ASSUME x \in 0 .. Nnz(Z) - 1 PROVE w = Zero
    <3>1. Nnz(Z) > 0
      BY <2>2, <2>4
    <3>2. IsoValueOfA = Zero
      BY <1>2, <3>1 DEF IsIso, Equal
    <3>3. QED
      BY <2>1, <3>2, HeldExactly
  <2>5. QED
    BY <2>3, <2>4
<1>3. QED
  BY <1>1, <1>2

LEMMA FinishedHolds ==
    ASSUME problem \in Problems, CooInv, Placed, CooBegun, stage # "scatter", NEW o,
           RowsWritten(A, Z, o.indices_0, NnzOut), o.values = ValuesArray,
           o.indices_1 = output.indices_1, o.descriptor = Descriptor
    PROVE  CooHolds(o)
<1> DEFINE i == o.indices_0.data
           d == output.indices_1.data
           w(k) == output.values[IF output.is_iso THEN 0 ELSE k]
<1>1. /\ SameShape(A, Z) /\ IsMatlabMatrix(A) /\ IsMatlabMatrix(Z) /\ A.is_sparse
      /\ A.nrows \in Nat /\ Nnz(A) \in Nat /\ Nnz(Z) \in Nat /\ NnzOut \in Nat
      /\ NnzOut = Nnz(A) + Nnz(Z) /\ A.nrows = Z.nrows
      /\ DOMAIN A.rowind = 0 .. Nnz(A) - 1 /\ DOMAIN Z.rowind = 0 .. Nnz(Z) - 1
  <2>1. SameShape(A, Z) /\ A.nrows \in Nat /\ Nnz(A) \in Nat /\ Nnz(Z) \in Nat /\ NnzOut \in Nat
    BY CooMatrices
  <2>2. Refused = "none"
    BY DEF CooInv
  <2>3. A.is_sparse
    BY <2>2 DEF Refused
  <2>4. QED
    BY <2>1, <2>3, MatrixFacts DEF SameShape, NnzOut
<1>2. Scattered /\ OutputInv /\ OutputShape
      /\ InRowOrder(A, ap, Z, zp, column, positions, d)
      /\ Members(A, ap, ValuesOfA, Z, zp, ValuesOfZ, positions, d, output.values, ValueFree)
  BY DEF CooInv, Placed, ScatterInv
<1>3. ap = Nnz(A) /\ zp = Nnz(Z)
  BY <1>1, <1>2, CursorFacts DEF Scattered, InRowOrder, SameShape
<1>4. \A r \in 0 .. A.nrows - 1 :
          positions[r] = Start(A, Z, r + 1) /\ Start(A, Z, r) \in Nat /\ Start(A, Z, r + 1) \in Nat
          /\ Start(A, Z, r + 1) <= NnzOut
  <2>1. ASSUME NEW r \in 0 .. A.nrows - 1
        PROVE  Start(A, Z, r) \in Nat /\ Start(A, Z, r + 1) \in Nat
               /\ Start(A, Z, r + 1) <= NnzOut
    <3>1. r \in Nat /\ r + 1 \in Nat /\ r + 1 <= A.nrows
      BY <1>1
    <3>2. QED
      BY <1>1, <3>1, StartFacts
  <2>2. QED
    BY <1>2, <2>1 DEF Scattered
<1>5. DOMAIN i = 0 .. NnzOut - 1 /\ \A k \in 0 .. NnzOut - 1 : RowAt(A, Z, k, i[k])
  BY <1>1 DEF RowsWritten
<1>6. DOMAIN d = 0 .. NnzOut - 1
  BY <1>2 DEF OutputShape
<1>7. o.values.data = output.values /\ o.indices_1.data = d
      /\ o.descriptor.is_iso = output.is_iso /\ o.descriptor.nnz = NnzOut
  BY DEF ValuesArray, Descriptor
<1> HIDE DEF i, d
\* Each place holds an entry,
<1>8. ASSUME NEW k \in 0 .. NnzOut - 1
      PROVE  <<i[k], d[k], w(k)>> \in ProblemEntries
  <2>1. /\ i[k] \in 0 .. A.nrows - 1 /\ k \in Start(A, Z, i[k]) .. positions[i[k]] - 1
    <3>1. /\ i[k] \in 0 .. A.nrows - 1 /\ Start(A, Z, i[k]) <= k /\ k < Start(A, Z, i[k] + 1)
      BY <1>5 DEF RowAt
    <3>2. QED
      BY <1>4, <3>1
  <2>2. CASE \E x \in 0 .. ap - 1 : A.rowind[x] = i[k]
                 /\ HoldsEntry(A, ValuesOfA, x, d, output.values, ValueFree, k)
    <3>1. PICK x \in 0 .. Nnz(A) - 1 : A.rowind[x] = i[k]
                 /\ HoldsEntry(A, ValuesOfA, x, d, output.values, ValueFree, k)
      BY <1>3, <2>2
    <3>2. IsColumn(A, x, d[k]) /\ x \in Nat
      BY <3>1 DEF HoldsEntry
    <3>3. d[k] = ColumnOf(A, x) /\ w(k) = A.values[x]
      BY <1>1, <1>2, <3>1, <3>2, ColumnUnique, ValueInFile
    <3>4. QED
      BY <1>1, <3>1, <3>3 DEF ProblemEntries
  <2>3. CASE \E y \in 0 .. zp - 1 : Z.rowind[y] = i[k]
                 /\ HoldsEntry(Z, ValuesOfZ, y, d, output.values, ValueFree, k)
    <3>1. PICK y \in 0 .. Nnz(Z) - 1 : Z.rowind[y] = i[k]
                 /\ HoldsEntry(Z, ValuesOfZ, y, d, output.values, ValueFree, k)
      BY <1>3, <2>3
    <3>2. IsColumn(Z, y, d[k]) /\ y \in Nat
      BY <3>1 DEF HoldsEntry
    <3>3. d[k] = ColumnOf(Z, y) /\ w(k) = Zero
      BY <1>1, <1>2, <3>1, <3>2, ColumnUnique, ValueInFile
    <3>4. <<i[k], d[k]>> \in PositionsOf(Z)
      BY <1>1, <3>1, <3>3 DEF PositionsOf
    <3>5. QED
      BY <3>3, <3>4 DEF ProblemEntries
  <2>4. QED
    BY <1>2, <2>1, <2>2, <2>3 DEF Members
\* and each entry is in a place.
<1>9. ASSUME NEW r \in 0 .. A.nrows - 1, NEW k \in Start(A, Z, r) .. positions[r] - 1
      PROVE  k \in 0 .. NnzOut - 1 /\ i[k] = r
  <2>1. k \in Nat /\ k \in 0 .. NnzOut - 1 /\ RowAt(A, Z, k, r)
    BY <1>1, <1>4 DEF RowAt
  <2>2. RowAt(A, Z, k, i[k])
    BY <1>5, <2>1
  <2>3. i[k] <= r /\ r <= i[k] /\ i[k] \in Nat /\ r \in Nat
    BY <1>1, <2>1, <2>2, RowsAscend
  <2>4. QED
    BY <2>1, <2>3
<1>10. ASSUME NEW x \in DOMAIN A.rowind
       PROVE  \E k \in 0 .. NnzOut - 1 :
                 <<A.rowind[x], ColumnOf(A, x), A.values[x]>> = <<i[k], d[k], w(k)>>
  <2>1. x \in 0 .. Nnz(A) - 1 /\ x \in 0 .. ap - 1 /\ x \in Nat /\ A.rowind[x] \in 0 .. A.nrows - 1
    BY <1>1, <1>3, MatrixFacts
  <2>2. PICK k \in Start(A, Z, A.rowind[x]) .. positions[A.rowind[x]] - 1 :
            HoldsEntry(A, ValuesOfA, x, d, output.values, ValueFree, k)
    BY <1>2, <2>1 DEF Members
  <2>3. k \in 0 .. NnzOut - 1 /\ i[k] = A.rowind[x]
    BY <1>9, <2>1
  <2>4. IsColumn(A, x, d[k])
    BY <2>2 DEF HoldsEntry
  <2>5. d[k] = ColumnOf(A, x) /\ w(k) = A.values[x]
    BY <1>1, <1>2, <2>1, <2>2, <2>3, <2>4, ColumnUnique, ValueInFile
  <2>6. QED
    BY <2>3, <2>5
<1>11. ASSUME NEW y \in DOMAIN Z.rowind
       PROVE  \E k \in 0 .. NnzOut - 1 :
                 <<Z.rowind[y], ColumnOf(Z, y), Zero>> = <<i[k], d[k], w(k)>>
  <2>1. y \in 0 .. Nnz(Z) - 1 /\ y \in 0 .. zp - 1 /\ y \in Nat /\ Z.rowind[y] \in 0 .. A.nrows - 1
    BY <1>1, <1>3, MatrixFacts
  <2>2. PICK k \in Start(A, Z, Z.rowind[y]) .. positions[Z.rowind[y]] - 1 :
            HoldsEntry(Z, ValuesOfZ, y, d, output.values, ValueFree, k)
    BY <1>2, <2>1 DEF Members
  <2>3. k \in 0 .. NnzOut - 1 /\ i[k] = Z.rowind[y]
    BY <1>9, <2>1
  <2>4. IsColumn(Z, y, d[k])
    BY <2>2 DEF HoldsEntry
  <2>5. d[k] = ColumnOf(Z, y) /\ w(k) = Zero
    BY <1>1, <1>2, <2>1, <2>2, <2>3, <2>4, ColumnUnique, ValueInFile
  <2>6. QED
    BY <2>3, <2>5
<1>12. CooEntries(i, d, output.values, output.is_iso) = ProblemEntries
  <2>1. CooEntries(i, d, output.values, output.is_iso) =
           {<<i[k], d[k], w(k)>> : k \in 0 .. NnzOut - 1}
    BY <1>5 DEF CooEntries
  <2>2. ASSUME NEW e \in ProblemEntries PROVE \E k \in 0 .. NnzOut - 1 : e = <<i[k], d[k], w(k)>>
    <3>1. CASE \E x \in DOMAIN A.rowind : e = <<A.rowind[x], ColumnOf(A, x), A.values[x]>>
      BY <1>10, <3>1
    <3>2. CASE \E y \in DOMAIN Z.rowind : e = <<Z.rowind[y], ColumnOf(Z, y), Zero>>
      BY <1>11, <3>2
    <3>3. QED
      BY <3>1, <3>2 DEF ProblemEntries, PositionsOf
  <2>3. QED
    BY <1>8, <2>1, <2>2
\* The rows ascend, and the columns in a row.
<1>13. RowOrdered(i, d)
  <2> SUFFICES ASSUME NEW k \in 0 .. NnzOut - 1, NEW l \in 0 .. NnzOut - 1, k < l
        PROVE  i[k] < i[l] \/ (i[k] = i[l] /\ d[k] < d[l])
    BY <1>5 DEF RowOrdered
  <2>1. k \in Nat /\ l \in Nat /\ RowAt(A, Z, k, i[k]) /\ RowAt(A, Z, l, i[l])
    BY <1>5
  <2>2. i[k] <= i[l] /\ i[k] \in Nat /\ i[l] \in Nat
    BY <1>1, <2>1, RowsAscend
  <2>3. ASSUME i[k] = i[l] PROVE d[k] < d[l]
    <3>1. i[k] \in 0 .. A.nrows - 1 /\ Start(A, Z, i[k]) <= k /\ l < Start(A, Z, i[k] + 1)
      BY <2>1, <2>3 DEF RowAt
    <3>2. l \in Start(A, Z, i[k]) .. positions[i[k]] - 1 /\ k \in Start(A, Z, i[k]) .. l - 1
      BY <1>4, <2>1, <3>1
    <3>3. QED
      BY <1>2, <3>1, <3>2 DEF InRowOrder
  <2>4. QED
    BY <2>2, <2>3
<1>14. Size(i) = NnzOut /\ Size(d) = NnzOut
  <2>1. Cardinality(0 .. NnzOut - 1) = NnzOut
    BY <1>1, FS_Interval
  <2>2. QED
    BY <1>5, <1>6, <2>1 DEF Size
<1>15. QED
  BY <1>7, <1>12, <1>13, <1>14 DEF CooHolds, i

--------------------------------------------------------------------------------
(* Where finished matrices come from: the writer's last step, and structs.    *)

NothingNew ==
    \A n \in Names : IsFinished(file'.objects[n]) => file'.objects[n] = file.objects[n]

LEMMA NotFinished ==
    /\ ~IsFinished(NoObject) /\ ~IsFinished(EmptyGroup)
    /\ \A o : o.kind = "text" \/ o.descriptor = NoDescriptor => ~IsFinished(o)
  BY DEF IsFinished, NoObject, EmptyGroup, NoDescriptor

LEMMA NewSame == ASSUME UNCHANGED file PROVE NothingNew
  BY DEF NothingNew

LEMMA NewFileHasNone == \A n \in Names : ~IsFinished(NewFile.objects[n])
  BY NotFinished DEF NewFile

LEMMA NewOpened == ASSUME file' = OpenedFile PROVE NothingNew
  BY NewFileHasNone DEF OpenedFile, NothingNew

LEMMA NewMade ==
    ASSUME FileInv, NEW g \in Names, NEW o, ~IsFinished(o), file' = WithObject(OpenedFile, g, o)
    PROVE  NothingNew
<1>1. CASE file.exists
  <2>1. /\ file'.objects[g] = o
        /\ \A n \in Names \ {g} : file'.objects[n] = file.objects[n]
    BY <1>1, ObjectChanged DEF OpenedFile, FileInv, FileShape
  <2>2. QED
    BY <2>1 DEF NothingNew
<1>2. CASE ~file.exists
  <2>1. /\ file'.objects[g] = o
        /\ \A n \in Names \ {g} : file'.objects[n] = NewFile.objects[n]
    BY <1>2, NewFileShape, ObjectChanged DEF OpenedFile
  <2>2. QED
    BY <2>1, NewFileHasNone DEF NothingNew
<1>3. QED
  BY <1>1, <1>2

\* Writing a part of the group under construction, the descriptor apart.
LEMMA NewPart ==
    ASSUME FileInv, call = "write_ssmc_coo", stage \in {"values", "dataset", "fill", "columns"},
           NEW f \in {"values", "indices_0", "indices_1"}, NEW a, Put(f, a)
    PROVE  NothingNew
<1>1. BeingWritten /\ group \in Names /\ FileShape
  BY DEF FileInv, Coo, At
<1>2. file'.objects[group].descriptor = NoDescriptor
  BY CooPut
<1>3. \A n \in Names \ {group} : file'.objects[n] = file.objects[n]
  BY <1>1, PutEffect DEF BeingWritten
<1>4. QED
  BY <1>2, <1>3, NotFinished DEF NothingNew

LEMMA CooNothingNew == ASSUME FileInv, CooNext PROVE NothingNew \/ CooDescriptor
<1> USE DEF Coo, At
<1>0. group \in Names
  BY DEF FileInv
<1>1. CASE \/ \E g \in problem.names : CooCall(g)
           \/ CooRefuse \/ CooDuplicate \/ CooCount \/ TakeA \/ TakeZ \/ NextColumn
           \/ CooScattered \/ SkipRow \/ FillRun
  BY <1>1, NewSame DEF CooCall, CooRefuse, CooDuplicate, CooCount, TakeA, TakeZ, NextColumn,
     CooScattered, SkipRow, FillRun, mexVars
<1>2. CASE CooOpen
  <2>1. CASE group = Root
    <3>1. file' = NewFile
      BY <1>2, <2>1 DEF CooOpen
    <3>2. QED
      BY <3>1, NewFileHasNone DEF NothingNew
  <2>2. CASE group # Root
    <3>1. file' = WithObject(OpenedFile, group, EmptyGroup)
      BY <1>2, <2>2 DEF CooOpen
    <3>2. QED
      BY <1>0, <3>1, NotFinished, NewMade
  <2>3. QED
    BY <2>1, <2>2
<1>3. CASE CooOpenFails
  BY <1>3, NewSame, NewOpened DEF CooOpenFails
<1>4. CASE \/ CooValuesFail \/ CooRowsDatasetFails \/ FlushFails \/ CooColumnsFail
           \/ CooValues \/ CooColumns \/ CooRowsDataset \/ FlushChunk
  <2>1. /\ call = "write_ssmc_coo" /\ stage \in {"values", "dataset", "fill", "columns"}
        /\ \/ UNCHANGED file
           \/ \E f \in {"values", "indices_0", "indices_1"} : \E a : Put(f, a)
    BY <1>4 DEF CooValuesFail, CooRowsDatasetFails, FlushFails, CooColumnsFail,
       CooWriteArrayFails, CooValues, CooColumns, CooRowsDataset, FlushChunk, CooWriteArray,
       ChunkReady
  <2>2. QED
    BY <2>1, NewSame, NewPart
<1>5. QED
  BY <1>1, <1>2, <1>3, <1>4 DEF CooNext

LEMMA TextNothingNew == ASSUME FileInv, TextNext PROVE NothingNew
<1> USE DEF Writing, Reading, At
<1>0. name \in Names
  BY DEF FileInv
<1>1. CASE OpenForText
  BY <1>1, NewOpened DEF OpenForText
<1>2. ASSUME CreateDataset \/ WriteDataset PROVE NothingNew
  <2>1. /\ call = "write_string" /\ stage \in {"create", "write"}
        /\ \E t : t.kind = "text" /\ file' = WithObject(file, name, t)
    <3>1. call = "write_string" /\ stage \in {"create", "write"}
      BY <1>2 DEF CreateDataset, WriteDataset
    <3>2. encoded = Strings(problem.text)
      BY <3>1 DEF FileInv, TextBeingWritten
    <3>3. encoded.kind = "text" /\ Blanked(encoded).kind = "text"
      BY <3>2, TextKind
    <3>4. QED
      BY <1>2, <3>1, <3>3 DEF CreateDataset, WriteDataset
  <2>2. file.exists
    BY <2>1 DEF FileInv, TextBeingWritten
  <2>3. PICK t : t.kind = "text" /\ file' = WithObject(OpenedFile, name, t)
    BY <2>1, <2>2 DEF OpenedFile
  <2>4. QED
    BY <1>0, <2>3, NotFinished, NewMade
<1>3. CASE ~(OpenForText \/ CreateDataset \/ WriteDataset)
  <2>1. UNCHANGED file
    BY <1>3 DEF TextNext, WriteCall, ReadCall, EncodeText, EncodeTextFails,
       NameIsFree, DatasetExists, CreateType, CreateSpace,
       WriteDatasetFails, WriteTextFails, OpenToRead, NoFile, OpenDataset, MissingDataset,
       OpenType, OpenSpace, ReadTextFails, ReadMalformed, ReadText, TextFails
  <2>2. QED
    BY <2>1, NewSame
<1>4. QED
  BY <1>1, <1>2, <1>3

LEMMA SsmcNothingNew == ASSUME SsmcNext PROVE NothingNew
<1>1. UNCHANGED file
  BY DEF SsmcNext, SsmcCall, SsmcDense, SsmcRefuse, SsmcAllocate, SsmcCopy, MergeA, MergeZ,
     MergeDuplicate, MergeColumn, MergeEnd, SsmcReturn, SsmcAborts, SsmcRaise, mexVars
<1>2. QED
  BY <1>1, NewSame

--------------------------------------------------------------------------------
(* The file. *)

IsCoo(o) == o.kind = "group" /\ o.descriptor.format = "COO"

LEMMA CooIsFinished == ASSUME NEW o, IsCoo(o) PROVE IsFinished(o)
  BY DEF IsCoo, IsFinished

LEMMA InitPlaced == Init => PlacedInv /\ WrittenInv
  BY DEF Init, SessionBegins, PlacedInv, WrittenInv, CooBegun

================================================================================
