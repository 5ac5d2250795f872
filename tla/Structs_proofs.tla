----------------------------- MODULE Structs_proofs -----------------------------
(******************************************************************************)
(* Proof that every sparse struct of a session holds exactly the entries of A *)
(* and the explicit zeros: as the in-memory converter merges them, as the     *)
(* minimiser narrows them, and as either path writes them to the file and a   *)
(* reader gets them back; and that both paths agree on the narrowest types.   *)
(******************************************************************************)
EXTENDS Ssmc_proofs

--------------------------------------------------------------------------------
(* The largest and the smallest element of an array.                          *)

\* The order of the rows' entries: by row, and in a row by place; and how many
\* come before the one at place k.
RowBefore(f, k, l) == f[k] < f[l] \/ (f[k] = f[l] /\ k < l)
RowRank(f, k) == Cardinality({l \in DOMAIN f : RowBefore(f, l, k)})

\* Each place of the order is some entry's, and the order is that of the ranks.
LEMMA RowRanks ==
    ASSUME NEW n \in Nat, NEW f \in [0 .. n - 1 -> Int]
    PROVE  /\ \A k \in 0 .. n - 1 : RowRank(f, k) \in 0 .. n - 1
           /\ \A k, l \in 0 .. n - 1 : RowBefore(f, k, l) => RowRank(f, k) < RowRank(f, l)
           /\ \A r \in 0 .. n - 1 : \E k \in 0 .. n - 1 : RowRank(f, k) = r
<1> DEFINE D == 0 .. n - 1
           B(k) == {l \in D : RowBefore(f, l, k)}
           rank == [k \in D |-> RowRank(f, k)]
<1>1. IsFiniteSet(D) /\ Cardinality(D) = n
  BY FS_Interval
<1>2. \A k : RowRank(f, k) = Cardinality(B(k))
  BY DEF RowRank
<1>3. \A k \in D : f[k] \in Int /\ k \in Int
  OBVIOUS
<1>4. ASSUME NEW k \in D PROVE IsFiniteSet(B(k)) /\ Cardinality(B(k)) \in Nat
  <2>1. B(k) \in SUBSET D
    OBVIOUS
  <2>2. IsFiniteSet(B(k))
    BY <1>1, <2>1, FS_Subset
  <2>3. QED
    BY <2>2, FS_CardinalityType
<1>5. ASSUME NEW k \in D, NEW l \in D, RowBefore(f, k, l)
      PROVE  RowRank(f, k) < RowRank(f, l)
  <2>1. k \notin B(k)
    BY <1>3 DEF RowBefore
  <2>2. B(k) \cup {k} \in SUBSET B(l)
    <3>1. \A x \in D : RowBefore(f, x, k) => RowBefore(f, x, l)
      BY <1>3, <1>5 DEF RowBefore
    <3>2. QED
      BY <1>5, <3>1
  <2> HIDE DEF B
  <2>3. Cardinality(B(k) \cup {k}) = Cardinality(B(k)) + 1
    BY <1>4, <2>1, FS_AddElement
  <2>4. Cardinality(B(k) \cup {k}) <= Cardinality(B(l))
    BY <1>4, <2>2, FS_Subset
  <2>5. QED
    BY <1>2, <1>4, <2>3, <2>4
<1>6. ASSUME NEW k \in D PROVE RowRank(f, k) \in 0 .. n - 1
  <2>1. k \notin B(k) /\ B(k) \cup {k} \in SUBSET D
    BY <1>3 DEF RowBefore
  <2> HIDE DEF B, D
  <2>2. Cardinality(B(k) \cup {k}) = Cardinality(B(k)) + 1
    BY <1>4, <2>1, FS_AddElement
  <2>3. Cardinality(B(k) \cup {k}) <= n
    BY <1>1, <2>1, FS_Subset
  <2>4. QED
    BY <1>2, <1>4, <2>2, <2>3
<1>7. ASSUME NEW k \in D, NEW l \in D, k # l PROVE rank[k] # rank[l]
  <2>1. RowBefore(f, k, l) \/ RowBefore(f, l, k)
    BY <1>3, <1>7 DEF RowBefore
  <2>2. RowRank(f, k) \in Int /\ RowRank(f, l) \in Int
    BY <1>6
  <2>3. QED
    BY <1>5, <2>1, <2>2
<1>8. rank \in Injection(D, D)
  <2>1. rank \in [D -> D]
    BY <1>6
  <2> HIDE DEF rank, D
  <2>2. QED
    BY <1>7, <2>1 DEF Injection, IsInjective
<1>9. rank \in Surjection(D, D)
  BY <1>1, <1>8, FS_Injection
<1>10. \A r \in D : \E k \in D : rank[k] = r
  BY <1>9 DEF Surjection
<1>11. QED
  BY <1>5, <1>6, <1>10

LEMMA LargestPlace ==
    ASSUME NEW n \in Nat, n > 0, NEW f \in [0 .. n - 1 -> Int]
    PROVE  \E k \in 0 .. n - 1 : \A l \in 0 .. n - 1 : f[l] <= f[k]
<1>1. PICK k \in 0 .. n - 1 : RowRank(f, k) = n - 1
  BY RowRanks
<1>2. ASSUME NEW l \in 0 .. n - 1 PROVE f[l] <= f[k]
  <2>1. ~RowBefore(f, k, l)
    <3>1. RowRank(f, l) \in 0 .. n - 1
      BY RowRanks
    <3>2. RowBefore(f, k, l) => RowRank(f, k) < RowRank(f, l)
      BY RowRanks
    <3>3. QED
      BY <1>1, <3>1, <3>2
  <2>2. f[k] \in Int /\ f[l] \in Int
    OBVIOUS
  <2>3. QED
    BY <2>1, <2>2 DEF RowBefore
<1>3. QED
  BY <1>2

LEMMA SmallestPlace ==
    ASSUME NEW n \in Nat, n > 0, NEW f \in [0 .. n - 1 -> Int]
    PROVE  \E k \in 0 .. n - 1 : \A l \in 0 .. n - 1 : f[k] <= f[l]
<1> DEFINE g == [k \in 0 .. n - 1 |-> -f[k]]
<1>1. g \in [0 .. n - 1 -> Int] /\ \A k \in 0 .. n - 1 : g[k] \in Int /\ g[k] = -f[k]
  OBVIOUS
<1> HIDE DEF g
<1>2. PICK k \in 0 .. n - 1 : \A l \in 0 .. n - 1 : g[l] <= g[k]
  BY <1>1, LargestPlace
<1>3. \A l \in 0 .. n - 1 : f[k] <= f[l]
  BY <1>1, <1>2
<1>4. QED
  BY <1>3

LEMMA ArrayFacts ==
    ASSUME NEW S, NEW f, IsArrayOf(S, f)
    PROVE  /\ Size(f) \in Nat /\ DOMAIN f = 0 .. Size(f) - 1
           /\ \A k \in DOMAIN f : f[k] \in S
           /\ Size(f) > 0 => 0 \in DOMAIN f
  BY DEF IsArrayOf

LEMMA LargestIs ==
    ASSUME NEW f, IsArrayOf(Int, f), Size(f) > 0
    PROVE  /\ \A k \in DOMAIN f : f[k] <= LargestOf(f)
           /\ \E k \in DOMAIN f : LargestOf(f) = f[k]
<1> DEFINE V == {f[k] : k \in DOMAIN f}
<1>1. \E k \in DOMAIN f : \A l \in DOMAIN f : f[l] <= f[k]
  BY ArrayFacts, LargestPlace DEF IsArrayOf
<1>2. \E x \in V : \A k \in DOMAIN f : f[k] <= x
  BY <1>1
<1>3. LargestOf(f) \in V /\ \A k \in DOMAIN f : f[k] <= LargestOf(f)
  BY <1>2 DEF LargestOf
<1>4. QED
  BY <1>3

\* The narrowest type holds every index that it was picked for.
LEMMA IndicesKept ==
    ASSUME NEW f, IsArrayOf(Int, f), Size(f) > 0, \A k \in DOMAIN f : f[k] >= 0,
           \A k \in DOMAIN f : f[k] < Base * Base
    PROVE  \A k \in DOMAIN f : Stored(Pick(LargestOf(f)), f[k]) = f[k]
<1> DEFINE B == Base * Base
<1>1. /\ \A k \in DOMAIN f : f[k] <= LargestOf(f) /\ f[k] \in Int /\ f[k] \in 0 .. B - 1
      /\ LargestOf(f) \in 0 .. B - 1 /\ B \in Nat
  <2>1. B \in Nat
    BY NarrowMaxAssumption DEF Base
  <2>2. QED
    BY <2>1, ArrayFacts, LargestIs
<1>2. NarrowMax \in Nat /\ Base = NarrowMax + 1
  BY NarrowMaxAssumption DEF Base
<1>3. CASE LargestOf(f) <= NarrowMax
  <2>1. Pick(LargestOf(f)) = "narrow" /\ Cap("narrow") = NarrowMax
    BY <1>3 DEF Pick, Cap
  <2>2. ASSUME NEW k \in DOMAIN f PROVE Stored(Pick(LargestOf(f)), f[k]) = f[k]
    <3>1. f[k] \in 0 .. NarrowMax /\ f[k] # Junk
      BY <1>1, <1>2, <1>3 DEF Junk
    <3>2. f[k] % (NarrowMax + 1) = f[k]
      BY <1>2, <3>1
    <3>3. QED
      BY <2>1, <3>1, <3>2 DEF Stored
  <2>3. QED
    BY <2>2
<1>4. CASE ~(LargestOf(f) <= NarrowMax)
  <2>1. Pick(LargestOf(f)) = "wide" /\ Cap("wide") + 1 = B
    BY <1>1, <1>4 DEF Pick, Cap
  <2>2. ASSUME NEW k \in DOMAIN f PROVE Stored(Pick(LargestOf(f)), f[k]) = f[k]
    <3>1. f[k] \in 0 .. B - 1 /\ f[k] # Junk
      BY <1>1 DEF Junk
    <3> HIDE DEF B
    <3>2. f[k] % B = f[k]
      BY <1>1, <3>1
    <3>3. QED
      BY <2>1, <3>1, <3>2 DEF Stored
  <2>3. QED
    BY <2>2
<1>5. QED
  BY <1>3, <1>4

--------------------------------------------------------------------------------
(* The values of a minimised array.                                           *)

LEMMA HeldFits ==
    ASSUME NEW v \in Int \X Int, NEW t,
           t \in {"float32", "complex32"} => FitsFloat32(v[1]) /\ FitsFloat32(v[2])
    PROVE  Held(t, v) = v
<1>1. v = <<v[1], v[2]>>
  OBVIOUS
<1>2. \A x : FitsFloat32(x) => Cast(x) = x
  BY DEF FitsFloat32, Cast
<1>3. QED
  BY <1>1, <1>2 DEF Held

LEMMA IntegerTypeIs ==
    ASSUME NEW f, IsArrayOf(Int \X Int, f), Size(f) > 0
    PROVE  /\ IntegerType(f) \in {"narrow", "wide", "int_narrow", "int_wide"}
           /\ IntegerType(f) = "int_wide" =>
                 \E k \in DOMAIN f : f[k][1] \notin -(Base \div 2) .. (Base \div 2) - 1
<1> DEFINE n == Size(f)
           g == [k \in 0 .. n - 1 |-> f[k][1]]
<1>1. n \in Nat /\ n > 0 /\ DOMAIN f = 0 .. n - 1 /\ \A k \in 0 .. n - 1 : f[k] \in Int \X Int
  BY ArrayFacts
<1>2. g \in [0 .. n - 1 -> Int] /\ \A k \in 0 .. n - 1 : g[k] = f[k][1]
  BY <1>1
<1> HIDE DEF n, g
<1>3. \E k \in 0 .. n - 1 : \A l \in 0 .. n - 1 : g[l] <= g[k]
  BY <1>1, <1>2, LargestPlace
<1>4. \E k \in 0 .. n - 1 : \A l \in 0 .. n - 1 : g[k] <= g[l]
  BY <1>1, <1>2, SmallestPlace
<1>5. Greatest(f) \in DOMAIN f
  <2>1. PICK k \in 0 .. n - 1 : \A l \in 0 .. n - 1 : g[l] <= g[k]
    BY <1>3
  <2>2. \A l \in DOMAIN f : f[l][1] <= f[k][1]
    BY <1>1, <1>2, <2>1
  <2>3. QED
    BY <1>1, <2>2 DEF Greatest
<1>6. Least(f) \in DOMAIN f
  <2>1. PICK k \in 0 .. n - 1 : \A l \in 0 .. n - 1 : g[k] <= g[l]
    BY <1>4
  <2>2. \A l \in DOMAIN f : f[k][1] <= f[l][1]
    BY <1>1, <1>2, <2>1
  <2>3. QED
    BY <1>1, <2>2 DEF Least
<1>7. IntegerType(f) \in {"narrow", "wide", "int_narrow", "int_wide"}
  BY DEF IntegerType, Pick
<1>8. ASSUME IntegerType(f) = "int_wide",
             \A k \in DOMAIN f : f[k][1] \in -(Base \div 2) .. (Base \div 2) - 1
      PROVE  FALSE
  <2> DEFINE h == Base \div 2
             a == f[Least(f)][1]
             b == f[Greatest(f)][1]
  <2>1. a \in -h .. h - 1 /\ b \in -h .. h - 1
    BY <1>5, <1>6, <1>8
  <2>2. h \in Int
    BY NarrowMaxAssumption DEF Base
  <2> HIDE DEF h
  <2>3. b <= h - 1 /\ a >= -h
    BY <2>1, <2>2
  <2>4. IntegerType(f) # "int_wide"
    <3>1. IntegerType(f) = IF a >= 0 THEN Pick(b) ELSE IF b <= h - 1 /\ a >= -h THEN "int_narrow"
                           ELSE "int_wide"
      BY DEF IntegerType, h
    <3>2. QED
      BY <2>3, <3>1 DEF Pick
  <2>5. QED
    BY <1>8, <2>4
<1>9. QED
  BY <1>7, <1>8

\* The type t of the values is that of the array, or a narrower one for its data.
TypeKept(t, a) ==
    \/ t = a.type
    \/ a.type = "float64" /\ AllFit(a.data) /\ t = "float32"
    \/ a.type = "complex64" /\ AllFit(a.data) /\ t = "complex32"
    \/ a.type \in IntegerTypes /\ t \in IntegerTypes

LEMMA MinimizedIs ==
    ASSUME NEW a, IsArrayOf(Int \X Int, a.data), Size(a.data) > 0
    PROVE  /\ Narrowest(Minimized(a))
           /\ MinimalType(a) # a.type => Minimized(a).data = a.data
           /\ Minimized(a).type = MinimalType(a)
           /\ MinimalType(a) = a.type => Narrowest(a)
           /\ TypeKept(MinimalType(a), a)
           /\ ClassOf(a.type) = a.type => ClassOf(MinimalType(a)) = MinimalType(a)
<1> DEFINE t == MinimalType(a)
<1>1. IntegerType(a.data) \in {"narrow", "wide", "int_narrow", "int_wide"}
  BY IntegerTypeIs
<1>2. \/ a.type = "float64" /\ AllFit(a.data) /\ t = "float32"
      \/ a.type = "complex64" /\ AllFit(a.data) /\ t = "complex32"
      \/ a.type = "int_wide" /\ t = IntegerType(a.data)
      \/ t = a.type /\ a.type # "int_wide"
         /\ (a.type \in {"float64", "complex64"} => ~AllFit(a.data))
  BY DEF MinimalType
<1>3. TypeKept(t, a)
  BY <1>1, <1>2 DEF TypeKept, IntegerTypes
<1>4. ASSUME NEW b, b.type = t, b.data = a.data PROVE Narrowest(b)
  BY <1>1, <1>2, <1>4, IntegerTypeIs DEF Narrowest
<1>5. ASSUME t # a.type PROVE Minimized(a).data = a.data
  <2>1. ASSUME NEW k \in DOMAIN a.data PROVE Held(t, a.data[k]) = a.data[k]
    <3>1. a.data[k] \in Int \X Int
      BY ArrayFacts
    <3>2. t \in {"float32", "complex32"} => AllFit(a.data)
      BY <1>1, <1>2, <1>5
    <3>3. t \in {"float32", "complex32"} =>
             FitsFloat32(a.data[k][1]) /\ FitsFloat32(a.data[k][2])
      BY <3>2 DEF AllFit
    <3> HIDE DEF t
    <3>4. QED
      BY <3>1, <3>3, HeldFits
  <2>2. a.data = [k \in DOMAIN a.data |-> a.data[k]]
    BY DEF IsArrayOf
  <2>3. Minimized(a).data = [k \in DOMAIN a.data |-> Held(t, a.data[k])]
    BY DEF Minimized
  <2> HIDE DEF t
  <2>4. QED
    BY <2>1, <2>2, <2>3
<1>6. Minimized(a).type = t /\ DOMAIN Minimized(a).data = DOMAIN a.data
  BY DEF Minimized
<1>7. Narrowest(Minimized(a))
  <2>1. CASE t # a.type
    BY <1>4, <1>5, <1>6, <2>1
  <2>2. CASE t = a.type
    <3>1. t \notin {"float64", "complex64"} \/ ~AllFit(a.data)
      BY <1>1, <1>2, <2>2
    <3>2. \A k \in DOMAIN a.data :
             t \in {"float64", "complex64", "int_wide"} => Minimized(a).data[k] = a.data[k]
      BY DEF Minimized, Held
    <3>3. t \in {"float64", "complex64"} => ~AllFit(Minimized(a).data)
      BY <1>6, <3>1, <3>2 DEF AllFit
    <3>4. t = "int_wide" =>
             \E k \in DOMAIN a.data : a.data[k][1] \notin -(Base \div 2) .. (Base \div 2) - 1
      BY <1>1, <1>2, IntegerTypeIs
    <3> HIDE DEF t
    <3>5. QED
      BY <1>6, <3>2, <3>3, <3>4 DEF Narrowest
  <2>3. QED
    BY <2>1, <2>2
<1>8. t = a.type => Narrowest(a)
  BY <1>4
<1>9. ClassOf(a.type) = a.type => ClassOf(t) = t
  BY <1>1, <1>2 DEF ClassOf
<1>10. QED
  BY <1>3, <1>5, <1>6, <1>7, <1>8, <1>9

--------------------------------------------------------------------------------
(* The merge.                                                                 *)

\* The place k is in column c of the matrix that holds both m and n.
InColumn(m, n, k, c) ==
    /\ c \in 0 .. m.ncols - 1
    /\ m.colptr[c] + n.colptr[c] <= k /\ k < m.colptr[c + 1] + n.colptr[c + 1]

\* The place k has entry x of m, with its value u[x] unless no value is kept.
EntryAt(m, n, u, x, i, w, free, k) ==
    /\ i[k] = m.rowind[x]
    /\ free \/ w[k] = u[x]
    /\ \E c \in 0 .. m.ncols - 1 : IsColumn(m, x, c) /\ InColumn(m, n, k, c)

\* The entries of m before p and of n before q are merged, in their columns and
\* there by row.
MergedUpTo(m, p, u, n, q, v, i, w, free) ==
    /\ \A k \in 0 .. p + q - 1 :
          \/ \E x \in 0 .. p - 1 : EntryAt(m, n, u, x, i, w, free, k)
          \/ \E y \in 0 .. q - 1 : EntryAt(n, m, v, y, i, w, free, k)
    /\ \A x \in 0 .. p - 1 : \E k \in 0 .. p + q - 1 : EntryAt(m, n, u, x, i, w, free, k)
    /\ \A y \in 0 .. q - 1 : \E k \in 0 .. p + q - 1 : EntryAt(n, m, v, y, i, w, free, k)
    /\ \A k, l \in 0 .. p + q - 1 : \A c \in 0 .. m.ncols - 1 :
          k < l /\ InColumn(m, n, k, c) /\ InColumn(m, n, l, c) => i[k] < i[l]

\* What is merged of column c is in rows before those of the entries that are left.
MergedBehind(m, p, n, q, i, c) ==
    \A k \in 0 .. p + q - 1 : InColumn(m, n, k, c) =>
        /\ Left(m, p, c) => i[k] < m.rowind[p]
        /\ Left(n, q, c) => i[k] < n.rowind[q]

LEMMA ColumnEnds ==
    ASSUME NEW m, NEW n, SameShape(m, n)
    PROVE  /\ m.ncols \in Nat /\ n.ncols = m.ncols
           /\ \A c \in 0 .. m.ncols : m.colptr[c] \in Nat /\ n.colptr[c] \in Nat
           /\ \A c, d \in 0 .. m.ncols : c <= d =>
                 m.colptr[c] <= m.colptr[d] /\ n.colptr[c] <= n.colptr[d]
           /\ m.colptr[0] = 0 /\ n.colptr[0] = 0
           /\ m.colptr[m.ncols] = Nnz(m) /\ n.colptr[n.ncols] = Nnz(n)
  BY MatrixFacts DEF SameShape, IsMatlabMatrix, Nnz

LEMMA InColumnExchanged ==
    ASSUME NEW m, NEW n, SameShape(m, n), NEW k, NEW c
    PROVE  InColumn(m, n, k, c) <=> InColumn(n, m, k, c)
<1>1. ASSUME c \in 0 .. m.ncols - 1
      PROVE  /\ m.colptr[c] + n.colptr[c] = n.colptr[c] + m.colptr[c]
             /\ m.colptr[c + 1] + n.colptr[c + 1] = n.colptr[c + 1] + m.colptr[c + 1]
  <2>1. c \in 0 .. m.ncols /\ c + 1 \in 0 .. m.ncols
    BY <1>1, ColumnEnds
  <2>2. /\ m.colptr[c] \in Nat /\ n.colptr[c] \in Nat
        /\ m.colptr[c + 1] \in Nat /\ n.colptr[c + 1] \in Nat
    BY <2>1, ColumnEnds
  <2>3. QED
    BY <2>2
<1>2. QED
  BY <1>1, ColumnEnds DEF InColumn

\* The columns of the places ascend.
LEMMA ColumnsAscend ==
    ASSUME NEW m, NEW n, SameShape(m, n), NEW k \in Nat, NEW l \in Nat, k <= l,
           NEW c, InColumn(m, n, k, c), NEW d, InColumn(m, n, l, d)
    PROVE  c <= d /\ c \in Nat /\ d \in Nat
<1>1. c \in Nat /\ d \in Nat /\ c \in 0 .. m.ncols /\ d \in 0 .. m.ncols /\ d + 1 \in 0 .. m.ncols
  BY ColumnEnds DEF InColumn
<1>2. /\ m.colptr[c] \in Nat /\ n.colptr[c] \in Nat
      /\ m.colptr[d + 1] \in Nat /\ n.colptr[d + 1] \in Nat
  BY <1>1, ColumnEnds
<1>3. ASSUME d + 1 <= c PROVE FALSE
  <2>1. m.colptr[d + 1] <= m.colptr[c] /\ n.colptr[d + 1] <= n.colptr[c]
    BY <1>1, <1>3, ColumnEnds
  <2>2. m.colptr[c] + n.colptr[c] <= k /\ l < m.colptr[d + 1] + n.colptr[d + 1]
    BY DEF InColumn
  <2>3. QED
    BY <1>2, <2>1, <2>2
<1>4. QED
  BY <1>1, <1>3

LEMMA MergedExchanged ==
    ASSUME NEW m, NEW n, SameShape(m, n), NEW p \in Nat, NEW q \in Nat, NEW u, NEW v, NEW i,
           NEW w, NEW free, NEW c
    PROVE  /\ MergedUpTo(m, p, u, n, q, v, i, w, free) => MergedUpTo(n, q, v, m, p, u, i, w, free)
           /\ MergedBehind(m, p, n, q, i, c) => MergedBehind(n, q, m, p, i, c)
<1>1. p + q = q + p /\ n.ncols = m.ncols
  BY ColumnEnds
<1>2. \A k, d : InColumn(m, n, k, d) <=> InColumn(n, m, k, d)
  BY InColumnExchanged
<1>3. QED
  BY <1>1, <1>2 DEF MergedUpTo, MergedBehind

\* The next entry of column c is taken from m.
LEMMA MergeTakes ==
    ASSUME NEW m, NEW n, SameShape(m, n), NEW c, c < m.ncols, NEW p, CursorIn(m, p, c),
           NEW q, CursorIn(n, q, c), Precedes(m, p, n, q, c),
           NEW u, NEW v, NEW i, NEW w, NEW free, NEW in, NEW wn,
           MergedUpTo(m, p, u, n, q, v, i, w, free), MergedBehind(m, p, n, q, i, c),
           NEW N \in Nat, p + q < N, DOMAIN i = 0 .. N - 1, Puts(i, p + q, m.rowind[p], in),
           free \/ (DOMAIN w = 0 .. N - 1 /\ Puts(w, p + q, u[p], wn))
    PROVE  MergedUpTo(m, p + 1, u, n, q, v, in, wn, free) /\ MergedBehind(m, p + 1, n, q, in, c)
<1> DEFINE z == p + q
<1>1. /\ p \in Nat /\ q \in Nat /\ c \in 0 .. m.ncols - 1 /\ z \in Nat
      /\ (p + 1) + q - 1 = z /\ p + q - 1 = z - 1
  BY ColumnEnds DEF CursorIn
<1>2. /\ in[z] = m.rowind[p] /\ (free \/ wn[z] = u[p])
      /\ \A k \in 0 .. z - 1 : in[k] = i[k] /\ (free \/ wn[k] = w[k])
  <2>1. z \in 0 .. N - 1 /\ \A k \in 0 .. z - 1 : k \in 0 .. N - 1 /\ k # z
    BY <1>1
  <2>2. in[z] = m.rowind[p] /\ (free \/ wn[z] = u[p])
    BY <2>1 DEF Puts
  <2>3. \A k \in 0 .. N - 1 : k # z => in[k] = i[k] /\ (free \/ wn[k] = w[k])
    BY DEF Puts
  <2>4. QED
    BY <2>1, <2>2, <2>3
<1>3. IsColumn(m, p, c) /\ InColumn(m, n, z, c)
  <2>1. c \in 0 .. m.ncols /\ c + 1 \in 0 .. m.ncols
    BY <1>1, ColumnEnds
  <2>2. /\ m.colptr[c] \in Nat /\ n.colptr[c] \in Nat
        /\ m.colptr[c + 1] \in Nat /\ n.colptr[c + 1] \in Nat
    BY <2>1, ColumnEnds
  <2>3. /\ m.colptr[c] <= p /\ p < m.colptr[c + 1]
        /\ n.colptr[c] <= q /\ q <= n.colptr[c + 1]
    BY ColumnEnds DEF CursorIn, Precedes, Left
  <2>4. QED
    BY <1>1, <2>2, <2>3, SMTT(30) DEF IsColumn, InColumn
<1>4. ASSUME NEW o1, NEW o2, NEW t, NEW x, NEW k \in 0 .. z - 1,
             EntryAt(o1, o2, t, x, i, w, free, k)
      PROVE  EntryAt(o1, o2, t, x, in, wn, free, k)
  BY <1>2, <1>4 DEF EntryAt
<1>5. EntryAt(m, n, u, p, in, wn, free, z)
  BY <1>1, <1>2, <1>3 DEF EntryAt
<1>6. ASSUME NEW k \in 0 .. z
      PROVE  \/ \E x \in 0 .. (p + 1) - 1 : EntryAt(m, n, u, x, in, wn, free, k)
             \/ \E y \in 0 .. q - 1 : EntryAt(n, m, v, y, in, wn, free, k)
  <2>1. CASE k = z
    <3>1. p \in 0 .. (p + 1) - 1
      BY <1>1
    <3>2. QED
      BY <1>5, <2>1, <3>1
  <2>2. CASE k # z
    <3>1. k \in 0 .. z - 1
      BY <1>1, <2>2
    <3>2. \/ \E x \in 0 .. p - 1 : EntryAt(m, n, u, x, i, w, free, k)
          \/ \E y \in 0 .. q - 1 : EntryAt(n, m, v, y, i, w, free, k)
      BY <1>1, <3>1 DEF MergedUpTo
    <3>3. 0 .. p - 1 \subseteq 0 .. (p + 1) - 1
      BY <1>1
    <3>4. QED
      BY <1>4, <3>1, <3>2, <3>3
  <2>3. QED
    BY <2>1, <2>2
<1>7. ASSUME NEW x \in 0 .. (p + 1) - 1
      PROVE  \E k \in 0 .. z : EntryAt(m, n, u, x, in, wn, free, k)
  <2>1. CASE x = p
    BY <1>1, <1>5, <2>1
  <2>2. CASE x # p
    <3>1. x \in 0 .. p - 1
      BY <1>1, <2>2
    <3>2. PICK k \in 0 .. z - 1 : EntryAt(m, n, u, x, i, w, free, k)
      BY <1>1, <3>1 DEF MergedUpTo
    <3>3. k \in 0 .. z
      BY <1>1
    <3>4. QED
      BY <1>4, <3>2, <3>3
  <2>3. QED
    BY <2>1, <2>2
<1>8. ASSUME NEW y \in 0 .. q - 1
      PROVE  \E k \in 0 .. z : EntryAt(n, m, v, y, in, wn, free, k)
  <2>1. PICK k \in 0 .. z - 1 : EntryAt(n, m, v, y, i, w, free, k)
    BY <1>1 DEF MergedUpTo
  <2>2. k \in 0 .. z
    BY <1>1
  <2>3. QED
    BY <1>4, <2>1, <2>2
<1>9. ASSUME NEW k \in 0 .. z, NEW l \in 0 .. z, NEW d \in 0 .. m.ncols - 1, k < l,
             InColumn(m, n, k, d), InColumn(m, n, l, d)
      PROVE  in[k] < in[l]
  <2>1. k \in 0 .. z - 1 /\ in[k] = i[k]
    BY <1>1, <1>2, <1>9
  <2>2. CASE l = z
    <3>1. d = c
      <4>1. z \in Nat /\ InColumn(m, n, z, d)
        BY <1>1, <1>9, <2>2
      <4>2. c <= d /\ d <= c /\ c \in Nat /\ d \in Nat
        BY <1>3, <4>1, ColumnsAscend
      <4>3. QED
        BY <4>2
    <3>2. QED
      BY <1>1, <1>2, <1>9, <2>1, <2>2, <3>1 DEF MergedBehind, Precedes
  <2>3. CASE l # z
    <3>1. l \in 0 .. z - 1
      BY <1>1, <2>3
    <3>2. QED
      BY <1>1, <1>2, <1>9, <2>1, <3>1 DEF MergedUpTo
  <2>4. QED
    BY <2>2, <2>3
<1>10. ASSUME NEW k \in 0 .. z, InColumn(m, n, k, c)
       PROVE  /\ Left(m, p + 1, c) => in[k] < m.rowind[p + 1]
              /\ Left(n, q, c) => in[k] < n.rowind[q]
  <2>1. Left(m, p, c) /\ p \in 0 .. Nnz(m) - 1 /\ CursorIn(m, p + 1, c)
        /\ (Left(m, p + 1, c) => m.rowind[p] < m.rowind[p + 1])
    BY CursorFacts DEF SameShape, Precedes
  <2>2. m.rowind[p] \in Nat /\ (Left(m, p + 1, c) => m.rowind[p + 1] \in Nat)
        /\ (Left(n, q, c) => n.rowind[q] \in Nat)
    <3>1. Left(m, p + 1, c) => p + 1 \in 0 .. Nnz(m) - 1
      BY <2>1, CursorFacts DEF SameShape
    <3>2. Left(n, q, c) => q \in 0 .. Nnz(n) - 1
      BY ColumnEnds, CursorFacts DEF SameShape
    <3>3. /\ \A x \in 0 .. Nnz(m) - 1 : m.rowind[x] \in Nat
          /\ \A x \in 0 .. Nnz(n) - 1 : n.rowind[x] \in Nat
      <4>1. /\ \A x \in 0 .. Nnz(m) - 1 : m.rowind[x] \in 0 .. m.nrows - 1
            /\ \A x \in 0 .. Nnz(n) - 1 : n.rowind[x] \in 0 .. n.nrows - 1
        BY MatrixFacts DEF SameShape
      <4>2. QED
        BY <4>1
    <3>4. QED
      BY <2>1, <3>1, <3>2, <3>3
  <2>3. CASE k = z
    BY <1>2, <2>1, <2>3 DEF Precedes
  <2>4. CASE k # z
    <3>1. k \in 0 .. z - 1 /\ in[k] = i[k]
      BY <1>1, <1>2, <2>4
    <3>2. (Left(m, p, c) => i[k] < m.rowind[p]) /\ (Left(n, q, c) => i[k] < n.rowind[q])
      BY <1>1, <1>10, <3>1 DEF MergedBehind
    <3>3. i[k] \in Int
      <4>1. \/ \E x \in 0 .. p - 1 : EntryAt(m, n, u, x, i, w, free, k)
            \/ \E y \in 0 .. q - 1 : EntryAt(n, m, v, y, i, w, free, k)
        BY <1>1, <3>1 DEF MergedUpTo
      <4>2. /\ \A x \in 0 .. p - 1 : m.rowind[x] \in 0 .. m.nrows - 1
            /\ \A y \in 0 .. q - 1 : n.rowind[y] \in 0 .. n.nrows - 1
        <5>1. p \in 0 .. Nnz(m) /\ q \in 0 .. Nnz(n) /\ Nnz(m) \in Nat /\ Nnz(n) \in Nat
          <6>1. IsMatlabMatrix(m) /\ IsMatlabMatrix(n)
            BY DEF SameShape
          <6>2. p \in 0 .. Nnz(m)
            BY <6>1, CursorFacts
          <6>3. q \in 0 .. Nnz(n)
            BY <6>1, CursorFacts
          <6>4. QED
            BY <6>1, <6>2, <6>3, MatrixFacts
        <5>2. 0 .. p - 1 \subseteq 0 .. Nnz(m) - 1 /\ 0 .. q - 1 \subseteq 0 .. Nnz(n) - 1
          BY <1>1, <5>1
        <5>3. QED
          BY <5>2, MatrixFacts DEF SameShape
      <4>3. QED
        BY <4>1, <4>2 DEF EntryAt
    <3>4. QED
      BY <2>1, <2>2, <3>1, <3>2, <3>3
  <2>5. QED
    BY <2>3, <2>4
<1>11. QED
  BY <1>1, <1>6, <1>7, <1>8, <1>9, <1>10 DEF MergedUpTo, MergedBehind

--------------------------------------------------------------------------------
(* The matrix that the merge makes.                                           *)

LEMMA ColumnExists ==
    ASSUME NEW m, IsMatlabMatrix(m), NEW x \in 0 .. Nnz(m) - 1
    PROVE  \E c \in 0 .. m.ncols - 1 : IsColumn(m, x, c)
<1> DEFINE n == m.ncols
           f == [c \in 0 .. n - 1 |-> IF m.colptr[c] <= x THEN c ELSE -1]
<1>1. /\ n \in Nat /\ x \in Nat /\ x < Nnz(m) /\ Nnz(m) \in Nat /\ Nnz(m) = m.colptr[n]
      /\ m.colptr[0] = 0 /\ \A c \in 0 .. n : m.colptr[c] \in Nat
  BY MatrixFacts DEF IsMatlabMatrix, Nnz
<1>2. n > 0
  BY <1>1
<1>3. f \in [0 .. n - 1 -> Int] /\ \A c \in 0 .. n - 1 : f[c] = IF m.colptr[c] <= x THEN c ELSE -1
  BY <1>1
<1> HIDE DEF f
<1>4. PICK c \in 0 .. n - 1 : \A d \in 0 .. n - 1 : f[d] <= f[c]
  BY <1>1, <1>2, <1>3, LargestPlace
<1>5. m.colptr[c] <= x /\ f[c] = c
  <2>1. 0 \in 0 .. n - 1 /\ f[0] = 0
    BY <1>1, <1>2, <1>3
  <2>2. f[c] >= 0
    BY <1>3, <1>4, <2>1
  <2>3. QED
    BY <1>3, <2>2
<1>6. x < m.colptr[c + 1]
  <2>1. CASE c + 1 = n
    BY <1>1, <2>1
  <2>2. CASE c + 1 # n
    <3>1. c + 1 \in 0 .. n - 1 /\ c + 1 \in 0 .. n /\ c \in Nat
      BY <1>1, <2>2
    <3>2. f[c + 1] <= c
      BY <1>4, <1>5, <3>1
    <3>3. ~(m.colptr[c + 1] <= x)
      BY <1>3, <3>1, <3>2
    <3>4. QED
      BY <1>1, <3>1, <3>3
  <2>3. QED
    BY <2>1, <2>2
<1>7. QED
  BY <1>5, <1>6 DEF IsColumn

\* What the explicit zeros are worth.
ZeroValues == [y \in 0 .. Nnz(Z) - 1 |-> Zero]

\* The type of the values before they are minimised
FullType == IF A.is_complex THEN "complex64" ELSE "float64"

\* The matrix under construction has the row indices i and the values w.
CscHas(m, i, w) ==
    m = [format |-> "CSC", nrows |-> A.nrows, ncols |-> A.ncols, nnz |-> NnzOut,
         is_iso |-> IsIso, values |-> [type |-> FullType, data |-> w],
         indices_0 |-> Absent,
         indices_1 |-> [type |-> ExtentType(A.nrows), data |-> i],
         pointers_to_1 |-> MergedPointers]

\* A row index that is not yet written is -1; and one value stands for all of an iso
\* matrix.
CscRows(i) == i \in [0 .. NnzOut - 1 -> -1 .. Base * Base - 1]

CscValues(w) ==
    IF IsIso THEN w = [k \in {0} |-> IsoValueOfA] ELSE w \in [0 .. NnzOut - 1 -> Int \X Int]

\* What the merge has made has its arrays, whatever is in them.
CscShape == \E i, w : CscHas(csc, i, w) /\ CscRows(i) /\ CscValues(w)

\* The first p entries of A and q of the explicit zeros are in the matrix.
Merged(p, q) ==
    MergedUpTo(A, p, A.values, Z, q, ZeroValues, csc.indices_1.data, csc.values.data, IsIso)

\* The converter is at work on a sparse matrix, and what it has done so far.
CscBegun == call = "from_ssmc" /\ stage \in {"merge", "copy", "convert"}

CscInv ==
    CscBegun =>
       /\ A.is_sparse /\ ZerosFit /\ CscShape
       /\ stage = "merge" => /\ Merged(a_ptr, z_ptr)
                             /\ MergedBehind(A, a_ptr, Z, z_ptr, csc.indices_1.data, j)
       /\ stage = "copy" => ~HasZeros
       /\ stage = "convert" => Merged(Nnz(A), Nnz(Z))

LEMMA CscShapeFacts ==
    ASSUME CscShape
    PROVE  /\ CscHas(csc, csc.indices_1.data, csc.values.data)
           /\ CscRows(csc.indices_1.data) /\ CscValues(csc.values.data)
           /\ csc.is_iso = IsIso /\ csc.indices_1.type = ExtentType(A.nrows)
<1>1. PICK i, w : CscHas(csc, i, w) /\ CscRows(i) /\ CscValues(w)
  BY DEF CscShape
<1>2. i = csc.indices_1.data /\ w = csc.values.data
      /\ csc.is_iso = IsIso /\ csc.indices_1.type = ExtentType(A.nrows)
  BY <1>1 DEF CscHas
<1>3. QED
  BY <1>1, <1>2

LEMMA CscSame ==
    ASSUME UNCHANGED problem
    PROVE  /\ \A m, i, w : CscHas(m, i, w)' = CscHas(m, i, w)
           /\ \A i : CscRows(i)' = CscRows(i) /\ CscValues(i)' = CscValues(i)
           /\ ZeroValues' = ZeroValues
<1>1. /\ A' = A /\ Z' = Z /\ NnzOut' = NnzOut /\ IsIso' = IsIso /\ IsoValueOfA' = IsoValueOfA
  BY SameProblem, SameValues
<1>2. MergedPointers' = MergedPointers /\ FullType' = FullType /\ ZeroValues' = ZeroValues
  BY <1>1 DEF MergedPointers, FullType, ZeroValues, Nnz
<1>3. QED
  BY <1>1, <1>2 DEF CscHas, CscRows, CscValues

LEMMA CscKept ==
    ASSUME UNCHANGED problem, NEW i, NEW w, CscHas(csc', i, w), CscRows(i), CscValues(w)
    PROVE  CscShape' /\ csc'.indices_1.data = i /\ csc'.values.data = w
<1>1. CscHas(csc, i, w)' /\ CscRows(i)' /\ CscValues(w)'
  BY CscSame
<1>2. QED
  BY <1>1 DEF CscShape, CscHas

LEMMA NothingMerged ==
    ASSUME NEW m, NEW n, NEW u, NEW v, NEW i, NEW w, NEW free, NEW c
    PROVE  MergedUpTo(m, 0, u, n, 0, v, i, w, free) /\ MergedBehind(m, 0, n, 0, i, c)
<1>1. 0 + 0 - 1 = -1 /\ 0 - 1 = -1 /\ 0 .. -1 = {}
  OBVIOUS
<1>2. QED
  BY <1>1 DEF MergedUpTo, MergedBehind

LEMMA AllocateCsc == ASSUME problem \in Problems, MergeInv, SsmcAllocate PROVE CscInv'
<1>1. /\ UNCHANGED problem /\ A.is_sparse /\ ZerosFit
      /\ a_ptr' = 0 /\ z_ptr' = 0 /\ call' = "from_ssmc"
      /\ stage' = IF HasZeros THEN "merge" ELSE "copy"
  BY DEF SsmcAllocate, Proceed, MergeInv, mergeVars, Ssmc, At, ZerosFit
<1>2. NnzOut = Nnz(A) + Nnz(Z) /\ 0 .. Nnz(A) + Nnz(Z) - 1 = 0 .. NnzOut - 1
  BY SizeType DEF NnzOut
<1>3. PICK i : i = [k \in 0 .. NnzOut - 1 |-> Junk]
  OBVIOUS
<1>4. PICK w : w = IF IsIso THEN [k \in {0} |-> IsoValueOfA]
                   ELSE [k \in 0 .. Nnz(A) + Nnz(Z) - 1 |-> Unset]
  OBVIOUS
<1>5. CscHas(csc', i, w)
  <2>1. Uninitialised(ExtentType(A.nrows), NnzOut) = [type |-> ExtentType(A.nrows), data |-> i]
    BY <1>3 DEF Uninitialised, Indexes
  <2>2. csc' = [format |-> "CSC", nrows |-> A.nrows, ncols |-> A.ncols,
                nnz |-> Nnz(A) + Nnz(Z), is_iso |-> IsIso,
                values |-> [type |-> FullType,
                            data |-> IF IsIso THEN [k \in {0} |-> IsoValueOfA]
                                     ELSE [k \in 0 .. Nnz(A) + Nnz(Z) - 1 |-> Unset]],
                indices_0 |-> Absent,
                indices_1 |-> Uninitialised(ExtentType(A.nrows), Nnz(A) + Nnz(Z)),
                pointers_to_1 |-> MergedPointers]
    BY DEF SsmcAllocate, FullType
  <2>3. csc' = [format |-> "CSC", nrows |-> A.nrows, ncols |-> A.ncols,
                nnz |-> Nnz(A) + Nnz(Z), is_iso |-> IsIso,
                values |-> [type |-> FullType, data |-> w], indices_0 |-> Absent,
                indices_1 |-> Uninitialised(ExtentType(A.nrows), Nnz(A) + Nnz(Z)),
                pointers_to_1 |-> MergedPointers]
    BY <1>4, <2>2, Zenon
  <2>4. QED
    BY <1>2, <2>1, <2>3 DEF CscHas
<1>6. CscRows(i)
  <2>1. Junk \in -1 .. Base * Base - 1
    BY WideCap DEF Junk
  <2>2. QED
    BY <1>3, <2>1 DEF CscRows
<1>7. CscValues(w)
  <2>1. Unset \in Int \X Int
    BY DEF Unset, Junk
  <2>2. QED
    BY <1>2, <1>4, <2>1 DEF CscValues
<1>8. CscShape'
  <2>1. \E f, v : CscHas(csc', f, v) /\ CscRows(f) /\ CscValues(v)
    BY <1>5, <1>6, <1>7
  <2>2. QED
    BY <1>1, <2>1, CscKept
<1>9. Merged(a_ptr, z_ptr)' /\ MergedBehind(A, a_ptr, Z, z_ptr, csc.indices_1.data, j)'
  BY <1>1, NothingMerged DEF Merged
<1>10. QED
  BY <1>1, <1>8, <1>9, SameProblem DEF CscInv

\* What a step of the merge does to the arrays.
LEMMA MergeEffect ==
    ASSUME problem \in Problems, UNCHANGED problem, CscShape, NEW r \in 0 .. A.nrows - 1,
           NEW v \in Int \X Int, Merge(r, v)
    PROVE  /\ CscShape'
           /\ DOMAIN csc.indices_1.data = 0 .. NnzOut - 1
           /\ Puts(csc.indices_1.data, out_ptr, r, csc'.indices_1.data)
           /\ \/ IsIso
              \/ /\ DOMAIN csc.values.data = 0 .. NnzOut - 1
                 /\ Puts(csc.values.data, out_ptr, v, csc'.values.data)
<1>1. PICK i, w : CscHas(csc, i, w) /\ CscRows(i) /\ CscValues(w)
  BY DEF CscShape
<1>2. /\ csc.indices_1.data = i /\ csc.values.data = w /\ csc.is_iso = IsIso
      /\ csc.indices_1.type = ExtentType(A.nrows)
  BY <1>1 DEF CscHas
<1>3. r \in Nat /\ r < Base * Base /\ Stored(ExtentType(A.nrows), r) = r
      /\ Base * Base \in Nat
  <2>1. A.nrows \in Nat /\ A.nrows <= Base * Base /\ Base * Base \in Nat
    BY SessionMatrices, MatrixFacts, WideCap
  <2>2. r \in Nat /\ r < A.nrows
    BY <2>1
  <2>3. QED
    BY <2>1, <2>2, IndexFits
<1>4. PICK in : in = [i EXCEPT ![out_ptr] = r]
  OBVIOUS
<1>5. PICK wn : wn = IF IsIso THEN w ELSE [w EXCEPT ![out_ptr] = v]
  OBVIOUS
<1>6. csc' = [csc EXCEPT !.indices_1.data = in, !.values.data = wn]
  <2>1. csc' = [csc EXCEPT
                 !.indices_1.data[out_ptr] = Stored(csc.indices_1.type, r),
                 !.values.data = IF csc.is_iso THEN @ ELSE [@ EXCEPT ![out_ptr] = v]]
    BY DEF Merge
  <2>2. csc' = [csc EXCEPT
                 !.indices_1.data[out_ptr] = r,
                 !.values.data = wn]
    BY <1>1, <1>2, <1>3, <1>5, <2>1 DEF CscHas
  <2>3. QED
    BY <1>1, <1>2, <1>4, <2>2 DEF CscHas
<1>7. CscHas(csc', in, wn)
  BY <1>1, <1>6 DEF CscHas
<1>8. CscRows(in)
  <2>1. r \in -1 .. Base * Base - 1
    BY <1>3
  <2>2. QED
    BY <1>1, <1>4, <2>1 DEF CscRows
<1>9. CscValues(wn)
  BY <1>1, <1>5 DEF CscValues
<1>10. CscShape' /\ csc'.indices_1.data = in /\ csc'.values.data = wn
  BY <1>7, <1>8, <1>9, CscKept
<1>11. DOMAIN i = 0 .. NnzOut - 1 /\ (IsIso \/ DOMAIN w = 0 .. NnzOut - 1)
  BY <1>1 DEF CscRows, CscValues
<1>12. QED
  BY <1>2, <1>4, <1>5, <1>10, <1>11 DEF Puts

\* The matrices and cursors of a step of the merge.
LEMMA MergeFacts ==
    ASSUME problem \in Problems, MergeInv, CscInv, Ssmc("merge")
    PROVE  /\ SameShape(A, Z) /\ SameShape(Z, A) /\ CscShape /\ A.is_sparse
           /\ ZerosFit
           /\ CursorIn(A, a_ptr, j) /\ CursorIn(Z, z_ptr, j) /\ out_ptr = a_ptr + z_ptr
           /\ a_ptr \in 0 .. Nnz(A) /\ z_ptr \in 0 .. Nnz(Z)
           /\ Nnz(A) \in Nat /\ Nnz(Z) \in Nat /\ NnzOut = Nnz(A) + Nnz(Z)
           /\ Merged(a_ptr, z_ptr)
           /\ MergedBehind(A, a_ptr, Z, z_ptr, csc.indices_1.data, j)
<1>1. /\ SameShape(A, Z) /\ CscShape /\ A.is_sparse /\ ZerosFit
      /\ CursorIn(A, a_ptr, j) /\ CursorIn(Z, z_ptr, j) /\ out_ptr = a_ptr + z_ptr
      /\ Merged(a_ptr, z_ptr)
      /\ MergedBehind(A, a_ptr, Z, z_ptr, csc.indices_1.data, j)
  BY SessionMatrices DEF MergeInv, CscInv, CscBegun, Ssmc, At
<1>2. SameShape(Z, A) /\ IsMatlabMatrix(A) /\ IsMatlabMatrix(Z)
  BY <1>1 DEF SameShape
<1>3. a_ptr \in 0 .. Nnz(A)
  BY <1>1, <1>2, CursorFacts
<1>4. z_ptr \in 0 .. Nnz(Z)
  BY <1>1, <1>2, CursorFacts
<1>5. QED
  BY <1>1, <1>2, <1>3, <1>4, SizeType DEF NnzOut

LEMMA MergeACsc == ASSUME problem \in Problems, MergeInv, CscInv, MergeA PROVE CscInv'
<1>1. /\ Ssmc("merge") /\ j < A.ncols /\ Precedes(A, a_ptr, Z, z_ptr, j)
      /\ Merge(A.rowind[a_ptr], A.values[a_ptr]) /\ a_ptr' = a_ptr + 1
      /\ UNCHANGED <<problem, call, stage, j, z_ptr>>
  BY DEF MergeA, mexVars
<1>2. /\ SameShape(A, Z) /\ CscShape /\ A.is_sparse /\ ZerosFit
      /\ CursorIn(A, a_ptr, j) /\ CursorIn(Z, z_ptr, j) /\ out_ptr = a_ptr + z_ptr
      /\ a_ptr \in 0 .. Nnz(A) /\ z_ptr \in 0 .. Nnz(Z)
      /\ Nnz(A) \in Nat /\ Nnz(Z) \in Nat /\ NnzOut = Nnz(A) + Nnz(Z)
      /\ MergedUpTo(A, a_ptr, A.values, Z, z_ptr, ZeroValues, csc.indices_1.data,
                    csc.values.data, IsIso)
      /\ MergedBehind(A, a_ptr, Z, z_ptr, csc.indices_1.data, j)
  BY <1>1, MergeFacts DEF Merged
<1>3. a_ptr \in 0 .. Nnz(A) - 1 /\ IsMatlabMatrix(A)
  BY <1>1, <1>2, CursorFacts DEF SameShape, Precedes
<1>4. A.rowind[a_ptr] \in 0 .. A.nrows - 1 /\ A.values[a_ptr] \in Int \X Int
  BY <1>2, <1>3 DEF IsMatlabMatrix
<1>5. /\ CscShape'
      /\ DOMAIN csc.indices_1.data = 0 .. NnzOut - 1
      /\ Puts(csc.indices_1.data, a_ptr + z_ptr, A.rowind[a_ptr], csc'.indices_1.data)
      /\ \/ IsIso
         \/ /\ DOMAIN csc.values.data = 0 .. NnzOut - 1
            /\ Puts(csc.values.data, a_ptr + z_ptr, A.values[a_ptr], csc'.values.data)
  BY <1>1, <1>2, <1>4, MergeEffect
<1>6. NnzOut \in Nat /\ a_ptr + z_ptr < NnzOut
  BY <1>2, <1>3
<1>7. /\ MergedUpTo(A, a_ptr + 1, A.values, Z, z_ptr, ZeroValues, csc'.indices_1.data,
                    csc'.values.data, IsIso)
      /\ MergedBehind(A, a_ptr + 1, Z, z_ptr, csc'.indices_1.data, j)
  BY <1>1, <1>2, <1>5, <1>6, MergeTakes
<1>8. Merged(a_ptr, z_ptr)' /\ MergedBehind(A, a_ptr, Z, z_ptr, csc.indices_1.data, j)'
  BY <1>1, <1>7, SameProblem, SameValues, CscSame DEF Merged
<1>9. QED
  BY <1>1, <1>2, <1>5, <1>8, SameProblem DEF CscInv, Ssmc, At

LEMMA MergeZCsc == ASSUME problem \in Problems, MergeInv, CscInv, MergeZ PROVE CscInv'
<1>1. /\ Ssmc("merge") /\ j < A.ncols /\ Precedes(Z, z_ptr, A, a_ptr, j)
      /\ Merge(Z.rowind[z_ptr], Zero) /\ z_ptr' = z_ptr + 1
      /\ UNCHANGED <<problem, call, stage, j, a_ptr>>
  BY DEF MergeZ, mexVars
<1>2. /\ SameShape(A, Z) /\ SameShape(Z, A) /\ CscShape /\ A.is_sparse /\ ZerosFit
      /\ CursorIn(A, a_ptr, j) /\ CursorIn(Z, z_ptr, j) /\ out_ptr = a_ptr + z_ptr
      /\ a_ptr \in 0 .. Nnz(A) /\ z_ptr \in 0 .. Nnz(Z)
      /\ Nnz(A) \in Nat /\ Nnz(Z) \in Nat /\ NnzOut = Nnz(A) + Nnz(Z)
      /\ MergedUpTo(A, a_ptr, A.values, Z, z_ptr, ZeroValues, csc.indices_1.data,
                    csc.values.data, IsIso)
      /\ MergedBehind(A, a_ptr, Z, z_ptr, csc.indices_1.data, j)
  BY <1>1, MergeFacts DEF Merged
<1>3. z_ptr \in 0 .. Nnz(Z) - 1 /\ IsMatlabMatrix(Z) /\ j < Z.ncols
  BY <1>1, <1>2, CursorFacts DEF SameShape, Precedes
<1>4. Z.rowind[z_ptr] \in 0 .. A.nrows - 1 /\ Zero \in Int \X Int
      /\ ZeroValues[z_ptr] = Zero
  <2>1. Z.rowind[z_ptr] \in 0 .. A.nrows - 1
    BY <1>2, <1>3, MatrixFacts DEF SameShape
  <2>2. ZeroValues[z_ptr] = Zero
    BY <1>3 DEF ZeroValues
  <2>3. QED
    BY <2>1, <2>2 DEF Zero
<1>5. /\ CscShape'
      /\ DOMAIN csc.indices_1.data = 0 .. NnzOut - 1
      /\ Puts(csc.indices_1.data, out_ptr, Z.rowind[z_ptr], csc'.indices_1.data)
      /\ \/ IsIso
         \/ /\ DOMAIN csc.values.data = 0 .. NnzOut - 1
            /\ Puts(csc.values.data, out_ptr, Zero, csc'.values.data)
  BY <1>1, <1>2, <1>4, MergeEffect
<1>6. NnzOut \in Nat /\ z_ptr + a_ptr < NnzOut /\ out_ptr = z_ptr + a_ptr
      /\ a_ptr \in Nat /\ z_ptr \in Nat /\ z_ptr + 1 \in Nat
  BY <1>2, <1>3
<1>7. /\ MergedUpTo(Z, z_ptr, ZeroValues, A, a_ptr, A.values, csc.indices_1.data,
                    csc.values.data, IsIso)
      /\ MergedBehind(Z, z_ptr, A, a_ptr, csc.indices_1.data, j)
  BY <1>2, <1>6, MergedExchanged
<1>8. /\ MergedUpTo(Z, z_ptr + 1, ZeroValues, A, a_ptr, A.values, csc'.indices_1.data,
                    csc'.values.data, IsIso)
      /\ MergedBehind(Z, z_ptr + 1, A, a_ptr, csc'.indices_1.data, j)
  <2>1. /\ Puts(csc.indices_1.data, z_ptr + a_ptr, Z.rowind[z_ptr], csc'.indices_1.data)
        /\ \/ IsIso
           \/ /\ DOMAIN csc.values.data = 0 .. NnzOut - 1
              /\ Puts(csc.values.data, z_ptr + a_ptr, ZeroValues[z_ptr], csc'.values.data)
    BY <1>4, <1>5, <1>6
  <2>2. QED
    BY <1>1, <1>2, <1>3, <1>5, <1>6, <1>7, <2>1, MergeTakes
<1>9. /\ MergedUpTo(A, a_ptr, A.values, Z, z_ptr + 1, ZeroValues, csc'.indices_1.data,
                    csc'.values.data, IsIso)
      /\ MergedBehind(A, a_ptr, Z, z_ptr + 1, csc'.indices_1.data, j)
  BY <1>2, <1>6, <1>8, MergedExchanged
<1>10. Merged(a_ptr, z_ptr)' /\ MergedBehind(A, a_ptr, Z, z_ptr, csc.indices_1.data, j)'
  BY <1>1, <1>9, SameProblem, SameValues, CscSame DEF Merged
<1>11. QED
  BY <1>1, <1>2, <1>5, <1>10, SameProblem DEF CscInv, Ssmc, At

LEMMA MergeColumnCsc ==
    ASSUME problem \in Problems, MergeInv, CscInv, MergeColumn PROVE CscInv'
<1>1. /\ Ssmc("merge") /\ j < A.ncols /\ j' = j + 1
      /\ out_ptr = A.colptr[j + 1] + Z.colptr[j + 1]
      /\ UNCHANGED <<problem, call, stage, csc, a_ptr, z_ptr>>
  BY DEF MergeColumn, mexVars
<1>2. /\ SameShape(A, Z) /\ CscShape /\ A.is_sparse /\ ZerosFit
      /\ CursorIn(A, a_ptr, j) /\ out_ptr = a_ptr + z_ptr
      /\ a_ptr \in 0 .. Nnz(A) /\ z_ptr \in 0 .. Nnz(Z) /\ Nnz(A) \in Nat /\ Nnz(Z) \in Nat
      /\ Merged(a_ptr, z_ptr)
  BY <1>1, MergeFacts
<1>3. MergedBehind(A, a_ptr, Z, z_ptr, csc.indices_1.data, j + 1)
  <2>1. ASSUME NEW k \in 0 .. a_ptr + z_ptr - 1 PROVE ~InColumn(A, Z, k, j + 1)
    <3>1. k < out_ptr /\ out_ptr \in Nat /\ k \in Nat
      BY <1>2
    <3>2. QED
      BY <1>1, <3>1 DEF InColumn
  <2>2. QED
    BY <2>1 DEF MergedBehind
<1>4. CscShape' /\ Merged(a_ptr, z_ptr)'
      /\ MergedBehind(A, a_ptr, Z, z_ptr, csc.indices_1.data, j)'
  <2>1. CscHas(csc', csc.indices_1.data, csc.values.data) /\ CscRows(csc.indices_1.data)
        /\ CscValues(csc.values.data)
    BY <1>1, <1>2, CscShapeFacts
  <2>2. CscShape'
    BY <1>1, <2>1, CscKept
  <2>3. QED
    BY <1>1, <1>2, <1>3, <2>2, SameProblem, SameValues, CscSame DEF Merged
<1>5. QED
  BY <1>1, <1>2, <1>4, SameProblem DEF CscInv, Ssmc, At

LEMMA MergeEndCsc ==
    ASSUME problem \in Problems, MergeInv, CscInv, MergeEnd PROVE CscInv'
<1>1. /\ Ssmc("merge") /\ j = A.ncols /\ stage' = "convert"
      /\ UNCHANGED <<problem, call, csc>>
  BY DEF MergeEnd, Proceed
<1>2. /\ SameShape(A, Z) /\ CscShape /\ A.is_sparse /\ ZerosFit
      /\ CursorIn(A, a_ptr, j) /\ CursorIn(Z, z_ptr, j)
      /\ Merged(a_ptr, z_ptr)
  BY <1>1, MergeFacts
<1>3. a_ptr = Nnz(A)
  BY <1>1, <1>2, CursorFacts DEF SameShape
<1>4. z_ptr = Nnz(Z)
  BY <1>1, <1>2, CursorFacts DEF SameShape
<1>5. CscShape' /\ Merged(Nnz(A), Nnz(Z))'
  <2>1. CscHas(csc', csc.indices_1.data, csc.values.data) /\ CscRows(csc.indices_1.data)
        /\ CscValues(csc.values.data)
    BY <1>1, <1>2, CscShapeFacts
  <2>2. CscShape'
    BY <1>1, <2>1, CscKept
  <2>3. Nnz(A)' = Nnz(A) /\ Nnz(Z)' = Nnz(Z)
    BY <1>1, SameProblem DEF Nnz
  <2>4. QED
    BY <1>1, <1>2, <1>3, <1>4, <2>2, <2>3, SameProblem, SameValues, CscSame DEF Merged
<1>6. QED
  BY <1>1, <1>2, <1>5, SameProblem DEF CscInv

\* Without Zeros the arrays of A are the merged ones.
LEMMA MergedAlone ==
    ASSUME NEW m, NEW n, SameShape(m, n), Nnz(n) = 0, NEW v, NEW w, NEW free, NEW u,
           free \/ w = u
    PROVE  MergedUpTo(m, Nnz(m), u, n, 0, v, m.rowind, w, free)
<1>1. /\ IsMatlabMatrix(m) /\ IsMatlabMatrix(n) /\ m.ncols = n.ncols /\ m.ncols \in Nat
      /\ Nnz(m) \in Nat /\ Nnz(m) + 0 - 1 = Nnz(m) - 1
      /\ \A c \in 0 .. m.ncols : m.colptr[c] \in Nat
  BY MatrixFacts DEF SameShape
<1>2. \A c \in 0 .. m.ncols : n.colptr[c] = 0
  <2>1. \A c \in 0 .. n.ncols : n.colptr[c] \in Nat /\ n.colptr[c] <= Nnz(n)
    BY <1>1, MatrixFacts
  <2>2. QED
    BY <1>1, <2>1
<1>3. ASSUME NEW k, NEW c PROVE InColumn(m, n, k, c) <=> IsColumn(m, k, c)
  <2>1. ASSUME c \in 0 .. m.ncols - 1
        PROVE  /\ m.colptr[c] + n.colptr[c] = m.colptr[c]
               /\ m.colptr[c + 1] + n.colptr[c + 1] = m.colptr[c + 1]
    <3>1. c \in 0 .. m.ncols /\ c + 1 \in 0 .. m.ncols
      BY <1>1, <2>1
    <3>2. n.colptr[c] = 0 /\ n.colptr[c + 1] = 0 /\ m.colptr[c] \in Nat /\ m.colptr[c + 1] \in Nat
      BY <1>1, <1>2, <3>1
    <3>3. QED
      BY <3>2
  <2>2. QED
    BY <2>1 DEF InColumn, IsColumn
<1>4. ASSUME NEW x \in 0 .. Nnz(m) - 1 PROVE EntryAt(m, n, u, x, m.rowind, w, free, x)
  <2>1. PICK c \in 0 .. m.ncols - 1 : IsColumn(m, x, c)
    BY <1>1, ColumnExists
  <2>2. QED
    BY <1>3, <2>1 DEF EntryAt
<1>5. ASSUME NEW k \in 0 .. Nnz(m) - 1, NEW l \in 0 .. Nnz(m) - 1, k < l,
             NEW c \in 0 .. m.ncols - 1, InColumn(m, n, k, c), InColumn(m, n, l, c)
      PROVE  m.rowind[k] < m.rowind[l]
  <2>1. IsColumn(m, k, c) /\ IsColumn(m, l, c)
    BY <1>3, <1>5
  <2>2. m.colptr[c] \in Nat /\ m.colptr[c + 1] \in Nat
    BY <1>1
  <2>3. k \in m.colptr[c] .. m.colptr[c + 1] - 1 /\ l \in m.colptr[c] .. m.colptr[c + 1] - 1
    BY <2>1, <2>2 DEF IsColumn
  <2>4. QED
    BY <1>1, <1>5, <2>3 DEF IsMatlabMatrix
<1>6. 0 .. 0 - 1 = {}
  OBVIOUS
<1>7. QED
  BY <1>1, <1>4, <1>5, <1>6 DEF MergedUpTo

LEMMA CopyCsc ==
    ASSUME problem \in Problems, CscInv, SsmcCopy PROVE CscInv'
<1>1. /\ CscBegun /\ stage = "copy" /\ stage' = "convert" /\ UNCHANGED <<problem, call>>
      /\ A.is_sparse /\ ZerosFit /\ CscShape /\ ~HasZeros
  BY DEF SsmcCopy, Proceed, Ssmc, At, CscInv, CscBegun
<1>2. SameShape(A, Z) /\ Nnz(Z) = 0 /\ NnzOut = Nnz(A) /\ Nnz(A) \in Nat /\ IsMatlabMatrix(A)
      /\ A.nrows \in Nat /\ A.nrows <= Base * Base /\ Base * Base \in Nat
  <2>1. Nnz(Z) = 0
    BY <1>1, SessionMatrices
  <2>2. QED
    BY <1>1, <2>1, SessionMatrices, SizeType, MatrixFacts, WideCap DEF NnzOut
<1>3. PICK w : w = IF IsIso THEN csc.values.data ELSE A.values
  OBVIOUS
<1>4. Converted(Indexes("wide", A.rowind), ExtentType(A.nrows))
         = [type |-> ExtentType(A.nrows), data |-> A.rowind]
  <2>1. \A k \in DOMAIN A.rowind : Stored(ExtentType(A.nrows), A.rowind[k]) = A.rowind[k]
    <3> SUFFICES ASSUME NEW k \in DOMAIN A.rowind
                 PROVE  Stored(ExtentType(A.nrows), A.rowind[k]) = A.rowind[k]
      OBVIOUS
    <3>1. A.rowind[k] \in 0 .. A.nrows - 1
      BY <1>2, MatrixFacts
    <3>2. A.rowind[k] \in Nat /\ A.rowind[k] < A.nrows
      BY <1>2, <3>1
    <3>3. QED
      BY <1>2, <3>2, IndexFits
  <2>2. A.rowind = [k \in DOMAIN A.rowind |-> A.rowind[k]]
    BY <1>2 DEF IsMatlabMatrix
  <2>3. [k \in DOMAIN A.rowind |-> Stored(ExtentType(A.nrows), A.rowind[k])] = A.rowind
    BY <2>1, <2>2
  <2>4. QED
    BY <2>3 DEF Converted, Indexes
<1>5. CscHas(csc', A.rowind, w)
  <2>1. /\ CscHas(csc, csc.indices_1.data, csc.values.data) /\ csc.is_iso = IsIso
        /\ csc.indices_1.type = ExtentType(A.nrows)
    BY <1>1, CscShapeFacts
  <2>2. csc' = [csc EXCEPT !.indices_1 = [type |-> ExtentType(A.nrows), data |-> A.rowind],
                           !.values.data = w]
    BY <1>3, <1>4, <2>1 DEF SsmcCopy, CscHas
  <2>3. PICK i, v : CscHas(csc, i, v)
    BY <2>1
  <2>4. QED
    BY <2>2, <2>3 DEF CscHas
<1>6. CscRows(A.rowind)
  <2>1. A.rowind \in [0 .. NnzOut - 1 -> 0 .. A.nrows - 1]
    BY <1>2 DEF IsMatlabMatrix
  <2>2. 0 .. A.nrows - 1 \subseteq -1 .. Base * Base - 1
    BY <1>2
  <2>3. QED
    BY <2>1, <2>2 DEF CscRows
<1>7. CscValues(w)
  <2>1. CASE IsIso
    BY <1>1, <1>3, <2>1, CscShapeFacts DEF CscValues
  <2>2. CASE ~IsIso
    BY <1>1, <1>2, <1>3, <2>2 DEF CscValues, IsMatlabMatrix
  <2>3. QED
    BY <2>1, <2>2
<1>8. CscShape' /\ csc'.indices_1.data = A.rowind /\ csc'.values.data = w
  BY <1>1, <1>5, <1>6, <1>7, CscKept
<1>9. MergedUpTo(A, Nnz(A), A.values, Z, 0, ZeroValues, A.rowind, w, IsIso)
  BY <1>2, <1>3, MergedAlone
<1>10. Merged(Nnz(A), Nnz(Z))'
  <2>1. Nnz(A)' = Nnz(A) /\ Nnz(Z)' = Nnz(Z)
    BY <1>1, SameProblem DEF Nnz
  <2>2. QED
    BY <1>1, <1>2, <1>8, <1>9, <2>1, SameProblem, SameValues, CscSame DEF Merged
<1>11. QED
  BY <1>1, <1>8, <1>10, SameProblem DEF CscInv, CscBegun

\* A step after which the merge is not under way.
LEMMA CscOver == ASSUME ~CscBegun' PROVE CscInv'
  BY DEF CscInv

LEMMA SsmcCsc == ASSUME problem \in Problems, MergeInv, CscInv, SsmcNext PROVE CscInv'
<1>1. ASSUME NEW f, SsmcCall(f) PROVE CscInv'
  BY <1>1, CscOver DEF SsmcCall, Enter, CscBegun
<1>2. CASE SsmcDense \/ SsmcRefuse \/ MergeDuplicate \/ SsmcReturn \/ SsmcAborts
  BY <1>2, CscOver DEF SsmcDense, SsmcRefuse, MergeDuplicate, SsmcReturn, SsmcAborts, SsmcRaise,
     Raise, Leave, Proceed, CscBegun
<1>3. QED
  BY <1>1, <1>2, AllocateCsc, CopyCsc, MergeACsc, MergeZCsc, MergeColumnCsc, MergeEndCsc
     DEF SsmcNext

\* The steps of other calls.
LEMMA NotTheConverter ==
    ASSUME CallInv, CooNext \/ MinNext \/ TextNext
    PROVE  call # "from_ssmc" /\ call' # "from_ssmc"
<1>1. CASE CooNext
  BY <1>1 DEF CooNext, CooCall, CooRefuse, CooCount, TakeA, TakeZ, NextColumn, CooDuplicate,
     CooScattered, CooOpen, CooOpenFails, CooValues, CooValuesFail, CooRowsDataset,
     CooRowsDatasetFails, SkipRow, FillRun, FlushChunk, FlushFails, CooColumns,
     CooColumnsFail, CooDescriptor, CooFail, CooWriteArray, CooWriteArrayFails, ChunkReady,
     Coo, At, Enter, Raise, Leave, Proceed, mexVars
<1>2. CASE MinNext
  BY <1>2 DEF MinNext, MinCall, MinimizeValues, MinimizeIndices, MinimizeIndicesFails,
     MinimizeIso, MinReturn, CreateStruct, WriteStruct, WriteStructRefused, ReadStruct,
     ReadStructFails, Minimizing, At, Enter, Raise, Leave, Proceed, mexVars
<1>3. CASE TextNext
  BY <1>3 DEF TextNext, WriteCall, ReadCall, EncodeText, EncodeTextFails, OpenForText,
     NameIsFree, DatasetExists, CreateType, CreateSpace, CreateDataset, WriteDataset,
     WriteDatasetFails, WriteTextFails, OpenToRead, NoFile, OpenDataset, MissingDataset,
     OpenType, OpenSpace, ReadTextFails, ReadMalformed, ReadText, TextFails, Open,
     CleanupAndRaise, Writing, Reading, At, Enter, Raise, Leave, Proceed
<1>4. QED
  BY <1>1, <1>2, <1>3

LEMMA NextCsc == ASSUME SessionInv, MergeInv, CscInv, [Next]_vars PROVE CscInv'
<1>1. problem \in Problems /\ CallInv
  BY DEF SessionInv
<1>2. CASE SsmcNext
  BY <1>1, <1>2, SsmcCsc
<1>3. CASE CooNext \/ MinNext \/ TextNext
  BY <1>1, <1>3, NotTheConverter, CscOver DEF CscBegun
<1>4. CASE UNCHANGED vars
  <2>1. UNCHANGED <<problem, call, stage, csc, j, a_ptr, z_ptr>>
    BY <1>4 DEF vars, mexVars, ssmcVars
  <2>2. CASE ~CscBegun
    BY <2>1, <2>2, CscOver DEF CscBegun
  <2>3. CASE CscBegun
    <3>1. CscShape
      BY <2>3 DEF CscInv
    <3>2. CscHas(csc', csc.indices_1.data, csc.values.data) /\ CscRows(csc.indices_1.data)
          /\ CscValues(csc.values.data)
      BY <2>1, <3>1, CscShapeFacts
    <3>3. CscShape'
      BY <2>1, <3>2, CscKept
    <3>4. Nnz(A)' = Nnz(A) /\ Nnz(Z)' = Nnz(Z)
      BY <2>1, SameProblem DEF Nnz
    <3>5. QED
      BY <2>1, <2>3, <3>3, <3>4, SameProblem, SameValues, CscSame DEF CscInv, CscBegun, Merged
  <2>4. QED
    BY <2>2, <2>3
<1>5. QED
  BY <1>2, <1>3, <1>4 DEF Next, Aborted

LEMMA InitCsc == Init => CscInv
  BY DEF Init, SessionBegins, CscInv, CscBegun

--------------------------------------------------------------------------------
(* What a struct denotes.                                                     *)

SparseFormats == {"COO", "CSC", "CSR"}

\* The row and the column of an entry, as the arrays of the format give them.
RowIn(m, k) ==
    IF m.format = "COO" THEN m.indices_0.data[k]
    ELSE IF m.format = "CSC" THEN m.indices_1.data[k] ELSE RowOf(m, k)
ColumnIn(m, k) == IF m.format = "CSC" THEN CscColumn(m, k) ELSE m.indices_1.data[k]

\* The entries of the struct if its rows are x and its columns y.
EntriesAt(m, x, y) ==
    {<<x[k], y[k], m.values.data[IF m.is_iso THEN 0 ELSE k]>> : k \in 0 .. NnzOut - 1}

\* The struct holds the values of A and the explicit zeros, has room for no more, and
\* keeps one value only where there is only one.  It has the entries, too, unless its
\* pointers wrapped.
Denotes(m) ==
    /\ m.format \in SparseFormats /\ m.nnz = NnzOut
    /\ DOMAIN m.indices_1.data = 0 .. NnzOut - 1
    /\ DOMAIN m.values.data = IF m.is_iso THEN {0} ELSE 0 .. NnzOut - 1
    /\ \E x, y : EntriesAt(m, x, y) = ProblemEntries
    /\ StructEntries(m) = ProblemEntries <=> ~(m.format = "CSR" /\ PointersWrap)
    /\ m.format = "COO" => /\ DOMAIN m.indices_0.data = 0 .. NnzOut - 1
                           /\ RowOrdered(m.indices_0.data, m.indices_1.data)
    /\ m.is_iso => IsIso
    /\ m.values.type \in {OutputType, FullType}

LEMMA EntriesOf ==
    ASSUME NEW m, m.format \in SparseFormats
    PROVE  StructEntries(m) =
             {<<RowIn(m, k), ColumnIn(m, k), m.values.data[IF m.is_iso THEN 0 ELSE k]>> :
                 k \in DOMAIN m.indices_1.data}
<1> DEFINE v(k) == m.values.data[IF m.is_iso THEN 0 ELSE k]
<1> HIDE DEF v
<1>1. CASE m.format = "COO"
  <2>1. StructEntries(m) = {<<m.indices_0.data[k], m.indices_1.data[k], v(k)>> :
                               k \in DOMAIN m.indices_1.data}
    BY <1>1 DEF StructEntries, v
  <2>2. \A k : RowIn(m, k) = m.indices_0.data[k] /\ ColumnIn(m, k) = m.indices_1.data[k]
    BY <1>1 DEF RowIn, ColumnIn
  <2>3. QED
    BY <2>1, <2>2 DEF v
<1>2. CASE m.format = "CSC"
  <2>1. StructEntries(m) = {<<m.indices_1.data[k], CscColumn(m, k), v(k)>> :
                               k \in DOMAIN m.indices_1.data}
    BY <1>2 DEF StructEntries, v
  <2>2. \A k : RowIn(m, k) = m.indices_1.data[k] /\ ColumnIn(m, k) = CscColumn(m, k)
    BY <1>2 DEF RowIn, ColumnIn
  <2>3. QED
    BY <2>1, <2>2 DEF v
<1>3. CASE m.format = "CSR"
  <2>1. StructEntries(m) = {<<RowOf(m, k), m.indices_1.data[k], v(k)>> :
                               k \in DOMAIN m.indices_1.data}
    BY <1>3 DEF StructEntries, v
  <2>2. \A k : RowIn(m, k) = RowOf(m, k) /\ ColumnIn(m, k) = m.indices_1.data[k]
    BY <1>3 DEF RowIn, ColumnIn
  <2>3. QED
    BY <2>1, <2>2 DEF v
<1>4. QED
  BY <1>1, <1>2, <1>3 DEF SparseFormats

\* The entries as they are read are those at its rows and columns.
LEMMA EntriesRead ==
    ASSUME NEW m, m.format \in SparseFormats, DOMAIN m.indices_1.data = 0 .. NnzOut - 1,
           NEW x, NEW y,
           \A k \in 0 .. NnzOut - 1 : x[k] = RowIn(m, k) /\ y[k] = ColumnIn(m, k)
    PROVE  StructEntries(m) = EntriesAt(m, x, y)
<1> DEFINE h(k) == <<RowIn(m, k), ColumnIn(m, k), m.values.data[IF m.is_iso THEN 0 ELSE k]>>
           g(k) == <<x[k], y[k], m.values.data[IF m.is_iso THEN 0 ELSE k]>>
<1>1. StructEntries(m) = {h(k) : k \in 0 .. NnzOut - 1}
  BY EntriesOf
<1>2. EntriesAt(m, x, y) = {g(k) : k \in 0 .. NnzOut - 1}
  BY DEF EntriesAt
<1>3. \A k \in 0 .. NnzOut - 1 : h(k) = g(k)
  OBVIOUS
<1> HIDE DEF h, g
<1>4. QED
  BY <1>1, <1>2, <1>3

\* A struct that is read right is one that holds the entries.
LEMMA EntriesHeld ==
    ASSUME NEW m, m.format \in SparseFormats, DOMAIN m.indices_1.data = 0 .. NnzOut - 1,
           StructEntries(m) = ProblemEntries
    PROVE  \E x, y : EntriesAt(m, x, y) = ProblemEntries
<1> DEFINE x == [k \in 0 .. NnzOut - 1 |-> RowIn(m, k)]
           y == [k \in 0 .. NnzOut - 1 |-> ColumnIn(m, k)]
<1>1. \A k \in 0 .. NnzOut - 1 : x[k] = RowIn(m, k) /\ y[k] = ColumnIn(m, k)
  OBVIOUS
<1> HIDE DEF x, y
<1>2. QED
  BY <1>1, EntriesRead

\* Only the data of a struct's arrays and the order of its indices count.
LEMMA EntriesSame ==
    ASSUME NEW m, m.format \in SparseFormats, NEW o, o.format = m.format,
           o.nrows = m.nrows, o.ncols = m.ncols,
           \A f \in IndexFields : o[f].data = m[f].data,
           \A k \in DOMAIN m.indices_1.data :
              o.values.data[IF o.is_iso THEN 0 ELSE k] = m.values.data[IF m.is_iso THEN 0 ELSE k]
    PROVE  StructEntries(o) = StructEntries(m)
<1>1. /\ o.indices_0.data = m.indices_0.data /\ o.indices_1.data = m.indices_1.data
      /\ o.pointers_to_1.data = m.pointers_to_1.data
  BY DEF IndexFields
<1>2. \A k : RowIn(o, k) = RowIn(m, k) /\ ColumnIn(o, k) = ColumnIn(m, k)
  BY <1>1 DEF RowIn, ColumnIn, CscColumn, RowOf
<1> DEFINE e(x, k) == <<RowIn(x, k), ColumnIn(x, k), x.values.data[IF x.is_iso THEN 0 ELSE k]>>
<1>3. \A k \in DOMAIN m.indices_1.data : e(o, k) = e(m, k)
  BY <1>2
<1>4. StructEntries(m) = {e(m, k) : k \in DOMAIN m.indices_1.data}
  BY EntriesOf
<1>5. StructEntries(o) = {e(o, k) : k \in DOMAIN m.indices_1.data}
  BY <1>1, EntriesOf
<1> HIDE DEF e
<1>6. QED
  BY <1>3, <1>4, <1>5

LEMMA DenotesSame ==
    ASSUME NEW m, NEW o, o.format = m.format, o.nrows = m.nrows, o.ncols = m.ncols,
           o.is_iso = m.is_iso, o.nnz = m.nnz, \A f \in Fields : o[f].data = m[f].data,
           o.values.type \in {OutputType, FullType}, Denotes(m)
    PROVE  Denotes(o)
<1>1. /\ o.indices_0.data = m.indices_0.data /\ o.indices_1.data = m.indices_1.data
      /\ o.values.data = m.values.data /\ \A f \in IndexFields : o[f].data = m[f].data
  BY DEF Fields, IndexFields
<1>2. StructEntries(o) = StructEntries(m)
  BY <1>1, EntriesSame DEF Denotes
<1>3. \A x, y : EntriesAt(o, x, y) = EntriesAt(m, x, y)
  BY <1>1 DEF EntriesAt
<1>4. QED
  BY <1>1, <1>2, <1>3 DEF Denotes

LEMMA ValueTypes ==
    /\ OutputType \in {"float32", "float64", "complex32", "complex64"}
    /\ FullType \in {"float64", "complex64"}
    /\ ClassOf(OutputType) = OutputType /\ ClassOf(FullType) = FullType
  BY DEF OutputType, FullType, ClassOf

--------------------------------------------------------------------------------
(* The matrix that was merged. *)

\* Its values, and its columns.
CscValue(k) == csc.values.data[IF IsIso THEN 0 ELSE k]

LEMMA PointersAre ==
    ASSUME problem \in Problems, A.is_sparse, ZerosFit
    PROVE  /\ \A d \in 0 .. A.ncols : MergedPointers.data[d] = A.colptr[d] + Z.colptr[d]
           /\ MergedPointers.data \in [0 .. A.ncols -> 0 .. NnzOut]
           /\ SameShape(A, Z) /\ A.ncols \in Nat /\ Nnz(A) + Nnz(Z) = NnzOut /\ NnzOut \in Nat
           /\ NnzOut < Base * Base
<1>1. SameShape(A, Z) /\ A.ncols \in Nat /\ Nnz(A) + Nnz(Z) = NnzOut /\ NnzOut \in Nat
      /\ NnzOut < Base * Base
  BY SessionMatrices, SizeType, MatrixFacts DEF SameShape, NnzOut
<1>2. DOMAIN MergedPointers.data = 0 .. A.ncols
  BY DEF MergedPointers, Indexes
<1>3. ASSUME NEW d \in 0 .. A.ncols
      PROVE  MergedPointers.data[d] = A.colptr[d] + Z.colptr[d]
             /\ MergedPointers.data[d] \in 0 .. NnzOut
  <2>1. A.colptr[d] \in Nat /\ Z.colptr[d] \in Nat
        /\ A.colptr[d] <= Nnz(A) /\ Z.colptr[d] <= Nnz(Z) /\ Nnz(A) \in Nat /\ Nnz(Z) \in Nat
    BY <1>1, MatrixFacts DEF SameShape
  <2> DEFINE s == A.colptr[d] + Z.colptr[d]
  <2>2. s \in Nat /\ s <= NnzOut
    BY <1>1, <2>1
  <2>3. MergedPointers.data[d] = Stored(Pick(NnzOut), s)
    BY <1>1 DEF MergedPointers, Indexes
  <2>4. Stored(Pick(NnzOut), s) = s
    <3> HIDE DEF s
    <3>1. CASE NnzOut <= NarrowMax
      <4>1. Cap(Pick(NnzOut)) + 1 = NarrowMax + 1 /\ s < NarrowMax + 1 /\ NarrowMax + 1 \in Nat
        BY <1>1, <2>2, <3>1, NarrowMaxAssumption DEF Pick, Cap
      <4>2. s % (NarrowMax + 1) = s
        BY <2>2, <4>1
      <4>3. QED
        BY <2>2, <4>1, <4>2 DEF Stored, Junk
    <3>2. CASE ~(NnzOut <= NarrowMax)
      <4> DEFINE b == Base * Base
      <4>1. Cap(Pick(NnzOut)) = b - 1 /\ b \in Nat
        BY <3>2, WideCap DEF Pick, Cap
      <4>2. s < b
        BY <1>1, <2>2, WideCap
      <4> HIDE DEF b
      <4>3. Cap(Pick(NnzOut)) + 1 = b /\ s % b = s
        BY <2>2, <4>1, <4>2
      <4>4. QED
        BY <2>2, <4>3 DEF Stored, Junk
    <3>3. QED
      BY <3>1, <3>2
  <2>5. QED
    BY <1>1, <2>2, <2>3, <2>4
<1>4. MergedPointers.data = [d \in 0 .. A.ncols |-> MergedPointers.data[d]]
  BY <1>2 DEF MergedPointers, Indexes
<1>5. QED
  BY <1>1, <1>3, <1>4

LEMMA CscPlaces ==
    ASSUME problem \in Problems, A.is_sparse, ZerosFit, CscShape,
           Merged(Nnz(A), Nnz(Z)), NEW k \in 0 .. NnzOut - 1, NEW c, InColumn(A, Z, k, c)
    PROVE  CscColumn(csc, k) = c
<1>1. SameShape(A, Z) /\ A.ncols \in Nat /\ Nnz(A) + Nnz(Z) = NnzOut /\ NnzOut \in Nat
      /\ NnzOut < Base * Base
  BY SessionMatrices, SizeType, MatrixFacts DEF SameShape, NnzOut
<1>2. csc.ncols = A.ncols /\ csc.pointers_to_1 = MergedPointers
  BY CscShapeFacts DEF CscHas
<1>3. \A d \in 0 .. A.ncols : csc.pointers_to_1.data[d] = A.colptr[d] + Z.colptr[d]
  BY <1>2, PointersAre
<1>4. ASSUME NEW d
      PROVE  d \in 0 .. csc.ncols - 1 /\ csc.pointers_to_1.data[d] <= k
                /\ k < csc.pointers_to_1.data[d + 1] <=> InColumn(A, Z, k, d)
  <2>1. CASE d \in 0 .. A.ncols - 1
    <3>1. d \in 0 .. A.ncols /\ d + 1 \in 0 .. A.ncols
      BY <1>1, <2>1
    <3>2. /\ csc.pointers_to_1.data[d] = A.colptr[d] + Z.colptr[d]
          /\ csc.pointers_to_1.data[d + 1] = A.colptr[d + 1] + Z.colptr[d + 1]
      BY <1>3, <3>1
    <3>3. QED
      BY <1>2, <2>1, <3>2 DEF InColumn
  <2>2. CASE d \notin 0 .. A.ncols - 1
    BY <1>2, <2>2 DEF InColumn
  <2>3. QED
    BY <2>1, <2>2
<1>5. CscColumn(csc, k) \in 0 .. csc.ncols - 1 /\ InColumn(A, Z, k, CscColumn(csc, k))
  <2>1. c \in 0 .. csc.ncols - 1 /\ csc.pointers_to_1.data[c] <= k
                /\ k < csc.pointers_to_1.data[c + 1]
    BY <1>4
  <2> DEFINE e == CscColumn(csc, k)
  <2>2. e \in 0 .. csc.ncols - 1 /\ csc.pointers_to_1.data[e] <= k
                /\ k < csc.pointers_to_1.data[e + 1]
    BY <2>1 DEF CscColumn
  <2> HIDE DEF e
  <2>3. InColumn(A, Z, k, e) /\ e \in 0 .. csc.ncols - 1
    BY <1>4, <2>2
  <2>4. QED
    BY <2>3 DEF e
<1>6. k \in Nat /\ k <= k
  BY <1>1
<1>7. CscColumn(csc, k) <= c /\ c <= CscColumn(csc, k) /\ c \in Nat /\ CscColumn(csc, k) \in Nat
  BY <1>1, <1>5, <1>6, ColumnsAscend
<1>8. QED
  BY <1>7

\* Each place holds an entry, and each entry is in a place.
LEMMA CscEntries ==
    ASSUME problem \in Problems, A.is_sparse, ZerosFit, CscShape,
           Merged(Nnz(A), Nnz(Z))
    PROVE  /\ \A k \in 0 .. NnzOut - 1 :
                 /\ InColumn(A, Z, k, CscColumn(csc, k))
                 /\ <<csc.indices_1.data[k], CscColumn(csc, k), CscValue(k)>> \in ProblemEntries
           /\ \A e \in ProblemEntries : \E k \in 0 .. NnzOut - 1 :
                 e = <<csc.indices_1.data[k], CscColumn(csc, k), CscValue(k)>>
           /\ \A k, l \in 0 .. NnzOut - 1 : \A c \in 0 .. A.ncols - 1 :
                 k < l /\ InColumn(A, Z, k, c) /\ InColumn(A, Z, l, c) =>
                    csc.indices_1.data[k] < csc.indices_1.data[l]
<1> DEFINE i == csc.indices_1.data
           w == csc.values.data
           N == NnzOut - 1
<1>1. /\ SameShape(A, Z) /\ SameShape(Z, A) /\ IsMatlabMatrix(A) /\ IsMatlabMatrix(Z)
      /\ Nnz(A) \in Nat /\ Nnz(Z) \in Nat /\ Nnz(A) + Nnz(Z) = NnzOut
      /\ Nnz(A) + Nnz(Z) - 1 = N
      /\ DOMAIN A.rowind = 0 .. Nnz(A) - 1 /\ DOMAIN Z.rowind = 0 .. Nnz(Z) - 1
  BY SessionMatrices, SizeType, MatrixFacts DEF SameShape, NnzOut
<1>2. MergedUpTo(A, Nnz(A), A.values, Z, Nnz(Z), ZeroValues, i, w, IsIso)
  BY DEF Merged
<1>3. IsIso => w = [k \in {0} |-> IsoValueOfA]
  BY CscShapeFacts DEF CscValues
<1> HIDE DEF i, w, N
<1>4. ASSUME NEW k \in 0 .. N, NEW x \in 0 .. Nnz(A) - 1,
             EntryAt(A, Z, A.values, x, i, w, IsIso, k)
      PROVE  /\ InColumn(A, Z, k, CscColumn(csc, k))
             /\ <<i[k], CscColumn(csc, k), CscValue(k)>> =
                   <<A.rowind[x], ColumnOf(A, x), A.values[x]>>
  <2>1. PICK c \in 0 .. A.ncols - 1 : IsColumn(A, x, c) /\ InColumn(A, Z, k, c)
    BY <1>4 DEF EntryAt
  <2>2. c = ColumnOf(A, x) /\ CscColumn(csc, k) = c
    BY <1>1, <2>1, ColumnUnique, CscPlaces DEF N
  <2>3. CscValue(k) = A.values[x]
    <3>1. CASE ~IsIso
      BY <1>4, <3>1 DEF EntryAt, CscValue, w
    <3>2. CASE IsIso
      <4>1. Nnz(A) > 0 /\ x \in DOMAIN A.values
        <5>1. A.values \in [0 .. Nnz(A) - 1 -> Int \X Int]
          BY <1>1 DEF IsMatlabMatrix
        <5>2. Nnz(A) \in Nat /\ x \in 0 .. Nnz(A) - 1
          BY <1>1, <1>4
        <5>3. QED
          BY <5>1, <5>2
      <4>2. A.values[x] = A.values[0]
        BY <3>2, <4>1 DEF IsIso, AllEqual, Equal
      <4>3. CscValue(k) = A.values[0]
        BY <1>3, <3>2, <4>1 DEF CscValue, IsoValueOfA, w
      <4>4. QED
        BY <4>2, <4>3
    <3>3. QED
      BY <3>1, <3>2
  <2>4. QED
    BY <1>4, <2>1, <2>2, <2>3 DEF EntryAt
<1>5. ASSUME NEW k \in 0 .. N, NEW y \in 0 .. Nnz(Z) - 1,
             EntryAt(Z, A, ZeroValues, y, i, w, IsIso, k)
      PROVE  /\ InColumn(A, Z, k, CscColumn(csc, k))
             /\ <<i[k], CscColumn(csc, k), CscValue(k)>> = <<Z.rowind[y], ColumnOf(Z, y), Zero>>
  <2>1. PICK c \in 0 .. Z.ncols - 1 : IsColumn(Z, y, c) /\ InColumn(Z, A, k, c)
    BY <1>5 DEF EntryAt
  <2>2. InColumn(A, Z, k, c)
    BY <1>1, <2>1, InColumnExchanged
  <2>3. c = ColumnOf(Z, y)
    BY <1>1, <2>1, ColumnUnique
  <2>4. CscColumn(csc, k) = c
    BY <1>1, <2>2, CscPlaces DEF N
  <2>5. CscValue(k) = Zero
    <3>1. CASE ~IsIso
      BY <1>5, <3>1 DEF EntryAt, CscValue, w, ZeroValues
    <3>2. CASE IsIso
      <4>1. IsoValueOfA = Zero
        BY <1>1, <3>2 DEF IsIso, Equal
      <4>2. QED
        BY <1>3, <3>2, <4>1 DEF CscValue, w
    <3>3. QED
      BY <3>1, <3>2
  <2>6. QED
    BY <1>5, <2>2, <2>3, <2>4, <2>5 DEF EntryAt
<1>6. ASSUME NEW k \in 0 .. N
      PROVE  /\ InColumn(A, Z, k, CscColumn(csc, k))
             /\ <<i[k], CscColumn(csc, k), CscValue(k)>> \in ProblemEntries
  <2>1. CASE \E x \in 0 .. Nnz(A) - 1 : EntryAt(A, Z, A.values, x, i, w, IsIso, k)
    <3>1. PICK x \in 0 .. Nnz(A) - 1 : EntryAt(A, Z, A.values, x, i, w, IsIso, k)
      BY <2>1
    <3>2. /\ InColumn(A, Z, k, CscColumn(csc, k))
          /\ <<i[k], CscColumn(csc, k), CscValue(k)>> =
                <<A.rowind[x], ColumnOf(A, x), A.values[x]>>
      BY <1>4, <3>1
    <3>3. <<A.rowind[x], ColumnOf(A, x), A.values[x]>> \in ProblemEntries
      BY <1>1 DEF ProblemEntries
    <3>4. QED
      BY <3>2, <3>3
  <2>2. CASE \E y \in 0 .. Nnz(Z) - 1 : EntryAt(Z, A, ZeroValues, y, i, w, IsIso, k)
    <3>1. PICK y \in 0 .. Nnz(Z) - 1 : EntryAt(Z, A, ZeroValues, y, i, w, IsIso, k)
      BY <2>2
    <3>2. /\ InColumn(A, Z, k, CscColumn(csc, k))
          /\ <<i[k], CscColumn(csc, k), CscValue(k)>> = <<Z.rowind[y], ColumnOf(Z, y), Zero>>
      BY <1>5, <3>1
    <3>3. <<Z.rowind[y], ColumnOf(Z, y)>> \in PositionsOf(Z)
      BY <1>1 DEF PositionsOf
    <3>4. <<Z.rowind[y], ColumnOf(Z, y), Zero>> \in ProblemEntries
      BY <3>3 DEF ProblemEntries
    <3>5. QED
      BY <3>2, <3>4
  <2>3. QED
    BY <1>1, <1>2, <2>1, <2>2 DEF MergedUpTo
<1>7. ASSUME NEW e \in ProblemEntries
      PROVE  \E k \in 0 .. N : e = <<i[k], CscColumn(csc, k), CscValue(k)>>
  <2>1. CASE \E x \in DOMAIN A.rowind : e = <<A.rowind[x], ColumnOf(A, x), A.values[x]>>
    <3>1. PICK x \in 0 .. Nnz(A) - 1 : e = <<A.rowind[x], ColumnOf(A, x), A.values[x]>>
      BY <1>1, <2>1
    <3>2. PICK k \in 0 .. N : EntryAt(A, Z, A.values, x, i, w, IsIso, k)
      BY <1>1, <1>2 DEF MergedUpTo
    <3>3. QED
      BY <1>4, <3>1, <3>2
  <2>2. CASE \E y \in DOMAIN Z.rowind : e = <<Z.rowind[y], ColumnOf(Z, y), Zero>>
    <3>1. PICK y \in 0 .. Nnz(Z) - 1 : e = <<Z.rowind[y], ColumnOf(Z, y), Zero>>
      BY <1>1, <2>2
    <3>2. PICK k \in 0 .. N : EntryAt(Z, A, ZeroValues, y, i, w, IsIso, k)
      BY <1>1, <1>2 DEF MergedUpTo
    <3>3. QED
      BY <1>5, <3>1, <3>2
  <2>3. QED
    BY <2>1, <2>2 DEF ProblemEntries, PositionsOf
<1>8. QED
  BY <1>1, <1>2, <1>6, <1>7 DEF MergedUpTo, N, i

LEMMA AbsentArrays == IsArrayOf(Int, Absent.data) /\ Size(Absent.data) = 0
                      /\ DOMAIN Absent.data = {} /\ ClassOf(Absent.type) = "float64"
<1>1. DOMAIN Absent.data = {} /\ Absent.type = "invalid"
      /\ Absent.data = [k \in {} |-> Junk]
  BY DEF Absent, Indexes
<1>2. Size(Absent.data) = 0
  BY <1>1, FS_EmptySet DEF Size
<1>3. 0 .. 0 - 1 = {}
  OBVIOUS
<1>4. QED
  BY <1>1, <1>2, <1>3 DEF IsArrayOf, ClassOf

\* An array with n elements.
LEMMA ArrayHas ==
    ASSUME NEW n \in Nat, NEW S, NEW f \in [0 .. n - 1 -> S]
    PROVE  IsArrayOf(S, f) /\ Size(f) = n
<1>1. Size(f) = n
  BY FS_Interval DEF Size
<1>2. QED
  BY <1>1 DEF IsArrayOf

LEMMA StructIs ==
    ASSUME NEW a, NEW b, NEW c, NEW d, NEW e, NEW v, NEW x, NEW y, NEW z, NEW m,
           m = [format |-> a, nrows |-> b, ncols |-> c, nnz |-> d, is_iso |-> e, values |-> v,
                indices_0 |-> x, indices_1 |-> y, pointers_to_1 |-> z]
    PROVE  /\ m = [f \in StructFields |-> m[f]] /\ DOMAIN m = StructFields
           /\ m.format = a /\ m.nrows = b /\ m.ncols = c /\ m.nnz = d /\ m.is_iso = e
           /\ m.values = v /\ m.indices_0 = x /\ m.indices_1 = y /\ m.pointers_to_1 = z
<1>1. DOMAIN m = StructFields
  BY DEF StructFields, Fields
<1>2. m = [f \in DOMAIN m |-> m[f]]
  OBVIOUS
<1>3. QED
  BY <1>1, <1>2

LEMMA BelowTheTop ==
    ASSUME NEW S, NEW b \in Nat, NEW g \in [S -> -1 .. b - 1]
    PROVE  \A k \in DOMAIN g : g[k] < b
  OBVIOUS

LEMMA HasArraysIs ==
    ASSUME NEW m, m = [f \in StructFields |-> m[f]], m.format # "none", NEW n \in Nat, m.nnz = n,
           m.is_iso \in BOOLEAN, NEW s \in Nat, m.values.data \in [0 .. s - 1 -> Int \X Int],
           m.is_iso \/ n <= s,
           \A f \in {"indices_0", "indices_1", "pointers_to_1"} :
              \E l \in Nat : m[f].data \in [0 .. l - 1 -> -1 .. Base * Base - 1]
    PROVE  HasItsArrays(m)
<1>1. IsArrayOf(Int \X Int, m.values.data) /\ Size(m.values.data) = s
  BY ArrayHas
<1>2. ASSUME NEW f \in Fields \ {"values"}
      PROVE  /\ IsArrayOf(Int, m[f].data)
             /\ \A k \in DOMAIN m[f].data : m[f].data[k] < Base * Base
  <2>1. PICK l \in Nat : m[f].data \in [0 .. l - 1 -> -1 .. Base * Base - 1]
    BY DEF Fields
  <2>2. m[f].data \in [0 .. l - 1 -> Int]
    BY <2>1, WideCap
  <2> DEFINE b == Base * Base
  <2>3. b \in Nat /\ m[f].data \in [0 .. l - 1 -> -1 .. b - 1]
    BY <2>1, WideCap
  <2> HIDE DEF b
  <2>5. \A k \in DOMAIN m[f].data : m[f].data[k] < b
    BY <2>3, BelowTheTop
  <2>6. QED
    BY <2>2, <2>5, ArrayHas DEF b
<1>3. QED
  BY <1>1, <1>2 DEF HasItsArrays

LEMMA CscHasItsArrays ==
    ASSUME problem \in Problems, A.is_sparse, ZerosFit, CscShape
    PROVE  HasItsArrays(csc)
<1>1. PICK i, w : CscHas(csc, i, w) /\ CscRows(i) /\ CscValues(w)
  BY DEF CscShape
<1>2. /\ csc = [f \in StructFields |-> csc[f]] /\ csc.format = "CSC" /\ csc.nnz = NnzOut
      /\ csc.is_iso = IsIso /\ csc.values.data = w /\ csc.indices_0 = Absent
      /\ csc.indices_1.data = i /\ csc.pointers_to_1 = MergedPointers
  BY <1>1, StructIs DEF CscHas
<1>3. NnzOut \in Nat /\ IsIso \in BOOLEAN
  BY SizeType DEF IsIso
<1>4. \E s \in Nat : w \in [0 .. s - 1 -> Int \X Int] /\ (IsIso \/ NnzOut <= s)
  <2>1. CASE IsIso
    <3>1. IsoValueOfA \in Int \X Int
      <4>1. IsMatlabMatrix(A) /\ Nnz(A) \in Nat
        BY SessionMatrices, SizeType
      <4>2. CASE Nnz(A) > 0
        <5>1. 0 \in 0 .. Nnz(A) - 1
          BY <4>1, <4>2
        <5>2. A.values[0] \in Int \X Int
          BY <4>1, <5>1 DEF IsMatlabMatrix
        <5>3. QED
          BY <4>2, <5>2 DEF IsoValueOfA
      <4>3. QED
        BY <4>1, <4>2 DEF IsoValueOfA, Zero
    <3>2. w \in [0 .. 1 - 1 -> Int \X Int]
      BY <1>1, <2>1, <3>1 DEF CscValues
    <3>3. QED
      BY <2>1, <3>2
  <2>2. CASE ~IsIso
    BY <1>1, <1>3, <2>2 DEF CscValues
  <2>3. QED
    BY <2>1, <2>2
<1>5. ASSUME NEW f \in {"indices_0", "indices_1", "pointers_to_1"}
      PROVE  \E l \in Nat : csc[f].data \in [0 .. l - 1 -> -1 .. Base * Base - 1]
  <2>1. CASE f = "indices_0"
    <3> DEFINE b == -1 .. Base * Base - 1
    <3>1. csc[f].data = [k \in {} |-> Junk] /\ 0 .. 0 - 1 = {}
      BY <1>2, <2>1 DEF Absent, Indexes
    <3> HIDE DEF b
    <3>2. csc[f].data \in [0 .. 0 - 1 -> b]
      BY <3>1
    <3>3. QED
      BY <3>2 DEF b
  <2>2. CASE f = "indices_1"
    <3>1. csc[f].data \in [0 .. NnzOut - 1 -> -1 .. Base * Base - 1]
      BY <1>1, <1>2, <2>2 DEF CscRows
    <3>2. QED
      BY <1>3, <3>1
  <2>3. CASE f = "pointers_to_1"
    <3>1. MergedPointers.data \in [0 .. A.ncols -> 0 .. NnzOut] /\ A.ncols \in Nat
          /\ NnzOut < Base * Base
      BY PointersAre
    <3>2. PICK l \in Nat : l = A.ncols + 1 /\ 0 .. A.ncols = 0 .. l - 1
      BY <3>1
    <3>3. 0 .. NnzOut \subseteq -1 .. Base * Base - 1
      <4> DEFINE b == Base * Base
      <4>1. b \in Nat /\ NnzOut < b
        BY <3>1, WideCap
      <4> HIDE DEF b
      <4>2. 0 .. NnzOut \subseteq -1 .. b - 1
        BY <1>3, <4>1
      <4>3. QED
        BY <4>2 DEF b
    <3>4. csc[f].data \in [0 .. l - 1 -> -1 .. Base * Base - 1]
      BY <1>2, <2>3, <3>1, <3>2, <3>3
    <3>5. QED
      BY <3>4
  <2>4. QED
    BY <2>1, <2>2, <2>3
<1>6. PICK s \in Nat : w \in [0 .. s - 1 -> Int \X Int] /\ (IsIso \/ NnzOut <= s)
  BY <1>4
<1>7. QED
  BY <1>2, <1>3, <1>5, <1>6, HasArraysIs

--------------------------------------------------------------------------------
(* The matrix that was merged, by columns and converted.                      *)

LEMMA CscDenotes ==
    ASSUME problem \in Problems, A.is_sparse, ZerosFit, CscShape,
           Merged(Nnz(A), Nnz(Z))
    PROVE  Denotes(csc)
<1>1. /\ CscHas(csc, csc.indices_1.data, csc.values.data)
      /\ CscRows(csc.indices_1.data) /\ CscValues(csc.values.data)
  BY CscShapeFacts
<1>2. /\ csc.format = "CSC" /\ csc.nnz = NnzOut /\ csc.is_iso = IsIso
      /\ csc.values.type = FullType
  BY <1>1, StructIs DEF CscHas
<1>3. DOMAIN csc.indices_1.data = 0 .. NnzOut - 1
  BY <1>1 DEF CscRows
<1>4. DOMAIN csc.values.data = IF csc.is_iso THEN {0} ELSE 0 .. NnzOut - 1
  BY <1>1, <1>2 DEF CscValues
<1> DEFINE e(k) == <<csc.indices_1.data[k], CscColumn(csc, k), CscValue(k)>>
<1>0. csc.format \in SparseFormats
  BY <1>2 DEF SparseFormats
<1>5. StructEntries(csc) = {e(k) : k \in 0 .. NnzOut - 1}
  <2>1. \A k : RowIn(csc, k) = csc.indices_1.data[k] /\ ColumnIn(csc, k) = CscColumn(csc, k)
    BY <1>2 DEF RowIn, ColumnIn
  <2> DEFINE h(k) == <<RowIn(csc, k), ColumnIn(csc, k),
                       csc.values.data[IF csc.is_iso THEN 0 ELSE k]>>
  <2>2. StructEntries(csc) = {h(k) : k \in 0 .. NnzOut - 1}
    BY <1>0, <1>3, EntriesOf
  <2>3. \A k : h(k) = e(k)
    BY <1>2, <2>1 DEF CscValue
  <2> HIDE DEF h, e
  <2>4. QED
    BY <2>2, <2>3
<1>6. /\ \A k \in 0 .. NnzOut - 1 : e(k) \in ProblemEntries
      /\ \A x \in ProblemEntries : \E k \in 0 .. NnzOut - 1 : x = e(k)
  BY CscEntries
<1> HIDE DEF e
<1>7. StructEntries(csc) = ProblemEntries
  BY <1>5, <1>6
<1>8. \E x, y : EntriesAt(csc, x, y) = ProblemEntries
  BY <1>0, <1>3, <1>7, EntriesHeld
<1>9. QED
  BY <1>0, <1>2, <1>3, <1>4, <1>7, <1>8 DEF Denotes

\* The places of the entries in the order of the rows.
Ordered(m) ==
    [n \in DOMAIN m.indices_1.data |->
        CHOOSE k \in DOMAIN m.indices_1.data : RowRank(m.indices_1.data, k) = n]

LEMMA OrderedIs ==
    ASSUME NEW m, NEW n \in Nat, m.indices_1.data \in [0 .. n - 1 -> Int]
    PROVE  /\ Ordered(m) \in [0 .. n - 1 -> 0 .. n - 1]
           /\ \A k \in 0 .. n - 1 : \E r \in 0 .. n - 1 : Ordered(m)[r] = k
           /\ \A r, s \in 0 .. n - 1 :
                 r < s => RowBefore(m.indices_1.data, Ordered(m)[r], Ordered(m)[s])
<1> DEFINE i == m.indices_1.data
           o == Ordered(m)
           D == 0 .. n - 1
<1>1. /\ \A k \in D : RowRank(i, k) \in D
      /\ \A k, l \in D : RowBefore(i, k, l) => RowRank(i, k) < RowRank(i, l)
      /\ \A r \in D : \E k \in D : RowRank(i, k) = r
  BY RowRanks
<1>2. DOMAIN i = D /\ \A k \in D : i[k] \in Int
  OBVIOUS
<1>3. o = [r \in D |-> CHOOSE k \in D : RowRank(i, k) = r]
  BY <1>2 DEF Ordered
<1> HIDE DEF o, i
<1>4. \A r \in D : o[r] \in D /\ RowRank(i, o[r]) = r
  BY <1>1, <1>3
<1>5. ASSUME NEW k \in D, NEW l \in D PROVE k = l \/ RowBefore(i, k, l) \/ RowBefore(i, l, k)
  BY <1>2, <1>5 DEF RowBefore
<1>6. o \in [D -> D]
  BY <1>3, <1>4
<1>7. ASSUME NEW k \in D PROVE \E r \in D : o[r] = k
  <2>1. RowRank(i, k) \in D /\ RowRank(i, o[RowRank(i, k)]) = RowRank(i, k)
        /\ o[RowRank(i, k)] \in D
    BY <1>1, <1>4
  <2>2. RowRank(i, k) \in Int
    BY <2>1
  <2>3. o[RowRank(i, k)] = k
    <3> DEFINE q == o[RowRank(i, k)]
    <3>1. q \in D /\ RowRank(i, q) = RowRank(i, k)
      BY <2>1
    <3> HIDE DEF q
    <3>2. ~RowBefore(i, q, k) /\ ~RowBefore(i, k, q)
      <4>1. ~(RowRank(i, k) < RowRank(i, q)) /\ ~(RowRank(i, q) < RowRank(i, k))
        BY <2>2, <3>1
      <4>2. QED
        BY <1>1, <3>1, <4>1
    <3>3. q = k
      BY <1>5, <3>1, <3>2
    <3>4. QED
      BY <3>3 DEF q
  <2>4. QED
    BY <2>1, <2>3
<1>8. ASSUME NEW r \in D, NEW s \in D, r < s PROVE RowBefore(i, o[r], o[s])
  <2>1. o[r] \in D /\ o[s] \in D /\ RowRank(i, o[r]) = r /\ RowRank(i, o[s]) = s
    BY <1>4
  <2>2. o[r] # o[s] /\ ~RowBefore(i, o[s], o[r])
    <3>1. ~(s < r) /\ r # s
      BY <1>8
    <3>2. ~(RowRank(i, o[s]) < RowRank(i, o[r]))
      BY <2>1, <3>1
    <3>3. QED
      BY <1>1, <2>1, <3>1, <3>2
  <2>3. QED
    BY <1>5, <2>1, <2>2
<1>9. QED
  BY <1>6, <1>7, <1>8 DEF i, o

LEMMA CooOfIs ==
    ASSUME NEW m, NEW i, NEW w, CscHas(m, i, w)
    PROVE  LET t == Pick(Larger(A.nrows, A.ncols))
           IN  CooOf(m) =
                 [format |-> "COO", nrows |-> A.nrows, ncols |-> A.ncols, nnz |-> NnzOut,
                  is_iso |-> IsIso,
                  values |-> [type |-> FullType,
                              data |-> IF IsIso THEN w
                                       ELSE [n \in DOMAIN i |-> w[Ordered(m)[n]]]],
                  indices_0 |-> [type |-> t, data |-> [n \in DOMAIN i |-> i[Ordered(m)[n]]]],
                  indices_1 |-> [type |-> t, data |-> [n \in DOMAIN i |->
                                                        CscColumn(m, Ordered(m)[n])]],
                  pointers_to_1 |-> Absent]

<1> DEFINE t == Pick(Larger(A.nrows, A.ncols))
<1>1. /\ m.format = "CSC" /\ m.nrows = A.nrows /\ m.ncols = A.ncols /\ m.nnz = NnzOut
      /\ m.is_iso = IsIso /\ m.values = [type |-> FullType, data |-> w]
      /\ m.indices_1.data = i
  BY DEF CscHas
<1>3. Ordered(m) = [n \in DOMAIN i |->
         CHOOSE k \in DOMAIN i : Cardinality({l \in DOMAIN i : RowBefore(i, l, k)}) = n]
  BY <1>1 DEF Ordered, RowRank
<1>4. PICK o : o = [n \in DOMAIN i |->
         CHOOSE k \in DOMAIN i : Cardinality({l \in DOMAIN i : RowBefore(i, l, k)}) = n]
  OBVIOUS
<1>5. o = [n \in DOMAIN i |->
         CHOOSE k \in DOMAIN i :
            Cardinality({l \in DOMAIN i : i[l] < i[k] \/ (i[l] = i[k] /\ l < k)}) = n]
  BY <1>4 DEF RowBefore
<1>6. CooOf(m) =
        [m EXCEPT !.format = "COO",
                  !.indices_0 = Indexes(t, [n \in DOMAIN i |-> i[o[n]]]),
                  !.indices_1 = Indexes(t, [n \in DOMAIN i |-> CscColumn(m, o[n])]),
                  !.pointers_to_1 = Absent,
                  !.values.data = IF m.is_iso THEN @ ELSE [n \in DOMAIN i |-> @[o[n]]]]
  BY <1>1, <1>5 DEF CooOf
<1>7. QED
  <2>1. DOMAIN m = StructFields
    BY StructIs DEF CscHas
  <2>2. o = Ordered(m)
    BY <1>3, <1>4
  <2>3. m.values.data = w
    BY <1>1
  <2>4. PICK d : d = IF IsIso THEN w ELSE [n \in DOMAIN i |-> w[o[n]]]
    OBVIOUS
  <2>5. PICK x : x = [n \in DOMAIN i |-> i[o[n]]]
    OBVIOUS
  <2>6. PICK y : y = [n \in DOMAIN i |-> CscColumn(m, o[n])]
    OBVIOUS
  <2>7. (IF m.is_iso THEN w ELSE [n \in DOMAIN i |-> w[o[n]]]) = d
    BY <1>1, <2>4
  <2>8. CooOf(m) =
        [m EXCEPT !.format = "COO", !.indices_0 = Indexes(t, x), !.indices_1 = Indexes(t, y),
                  !.pointers_to_1 = Absent, !.values.data = d]
    <3>1. CooOf(m) =
        [m EXCEPT !.format = "COO", !.indices_0 = Indexes(t, x), !.indices_1 = Indexes(t, y),
                  !.pointers_to_1 = Absent,
                  !.values.data = IF m.is_iso THEN @ ELSE [n \in DOMAIN i |-> @[o[n]]]]
      BY <1>6, <2>5, <2>6, Zenon
    <3> DEFINE r == [m EXCEPT !.format = "COO", !.indices_0 = Indexes(t, x),
                              !.indices_1 = Indexes(t, y), !.pointers_to_1 = Absent]
    <3>2. r.values = m.values
      OBVIOUS
    <3>3. r.values.data = w
      BY <2>3, <3>2
    <3>4. CooOf(m) = [r EXCEPT !.values.data =
                        IF m.is_iso THEN r.values.data
                        ELSE [n \in DOMAIN i |-> r.values.data[o[n]]]]
      BY <3>1
    <3> HIDE DEF r
    <3>5. CooOf(m) = [r EXCEPT !.values.data = d]
      BY <2>7, <3>3, <3>4
    <3>6. QED
      BY <3>5 DEF r
  <2>9. QED
    <3> HIDE DEF t
    <3>1. CooOf(m) =
            [format |-> "COO", nrows |-> A.nrows, ncols |-> A.ncols, nnz |-> NnzOut,
             is_iso |-> IsIso, values |-> [type |-> FullType, data |-> d],
             indices_0 |-> [type |-> t, data |-> x],
             indices_1 |-> [type |-> t, data |-> y],
             pointers_to_1 |-> Absent]
      <4>0. PICK b, r, c, e, g, h, l, k :
               /\ b = IsIso /\ r = A.nrows /\ c = A.ncols /\ e = FullType
               /\ g = Absent /\ h = [type |-> ExtentType(A.nrows), data |-> i]
               /\ l = MergedPointers /\ k = NnzOut
        OBVIOUS
      <4>1. m = [format |-> "CSC", nrows |-> r, ncols |-> c, nnz |-> k, is_iso |-> b,
                 values |-> [type |-> e, data |-> w], indices_0 |-> g, indices_1 |-> h,
                 pointers_to_1 |-> l]
        BY <4>0, Zenon DEF CscHas
      <4>2. PICK n, y0, y1 :
               n = CooOf(m) /\ y0 = [type |-> t, data |-> x] /\ y1 = [type |-> t, data |-> y]
        OBVIOUS
      <4>3. n = [m EXCEPT !.format = "COO", !.indices_0 = y0, !.indices_1 = y1,
                          !.pointers_to_1 = g, !.values.data = d]
        BY <2>8, <4>0, <4>2, Zenon DEF Indexes
      <4>4. n = [format |-> "COO", nrows |-> r, ncols |-> c, nnz |-> k, is_iso |-> b,
                 values |-> [type |-> e, data |-> d], indices_0 |-> y0, indices_1 |-> y1,
                 pointers_to_1 |-> g]
        BY <4>1, <4>3
      <4>5. QED
        BY <4>0, <4>2, <4>4, Zenon
    <3>2. QED
      BY <2>2, <2>4, <2>5, <2>6, <3>1 DEF t

LEMMA MergedRows ==
    ASSUME problem \in Problems, A.is_sparse, ZerosFit, CscShape,
           Merged(Nnz(A), Nnz(Z))
    PROVE  /\ Ordered(csc) \in [0 .. NnzOut - 1 -> 0 .. NnzOut - 1]
           /\ \A k \in 0 .. NnzOut - 1 : \E n \in 0 .. NnzOut - 1 : Ordered(csc)[n] = k
           /\ csc.indices_1.data \in [0 .. NnzOut - 1 -> Int]
           /\ \A k \in 0 .. NnzOut - 1 : CscColumn(csc, k) \in 0 .. A.ncols - 1
           /\ \A k, l \in 0 .. NnzOut - 1 :
                 k < l =>
                    LET p == Ordered(csc)[k]
                        q == Ordered(csc)[l]
                        i == csc.indices_1.data
                    IN  \/ i[p] < i[q]
                        \/ i[p] = i[q] /\ CscColumn(csc, p) < CscColumn(csc, q)
<1> DEFINE i == csc.indices_1.data
           o == Ordered(csc)
           D == 0 .. NnzOut - 1
<1>1. /\ SameShape(A, Z) /\ A.ncols \in Nat /\ NnzOut \in Nat /\ NnzOut < Base * Base
  BY PointersAre
<1>2. i \in [D -> Int]
  BY CscShapeFacts, WideCap DEF CscRows
<1>3. /\ o \in [D -> D]
      /\ \A k \in D : \E r \in D : o[r] = k
      /\ \A r, s \in D : r < s => RowBefore(i, o[r], o[s])
  BY <1>1, <1>2, OrderedIs
<1>4. /\ \A k \in D : InColumn(A, Z, k, CscColumn(csc, k))
      /\ \A k, l \in D : \A c \in 0 .. A.ncols - 1 :
            k < l /\ InColumn(A, Z, k, c) /\ InColumn(A, Z, l, c) => i[k] < i[l]
  BY CscEntries
<1>5. \A k \in D : CscColumn(csc, k) \in 0 .. A.ncols - 1
  BY <1>4 DEF InColumn
<1> HIDE DEF i, o
<1>6. ASSUME NEW k \in D, NEW l \in D, k < l
      PROVE  \/ i[o[k]] < i[o[l]]
             \/ i[o[k]] = i[o[l]] /\ CscColumn(csc, o[k]) < CscColumn(csc, o[l])
  <2> DEFINE p == o[k]
             q == o[l]
  <2>1. p \in D /\ q \in D /\ RowBefore(i, p, q) /\ p \in Nat /\ q \in Nat
    BY <1>1, <1>3, <1>6
  <2> HIDE DEF p, q
  <2>2. SUFFICES ASSUME i[p] = i[q], p < q PROVE CscColumn(csc, p) < CscColumn(csc, q)
    BY <2>1 DEF RowBefore, p, q
  <2>3. /\ CscColumn(csc, p) \in Nat /\ CscColumn(csc, q) \in Nat
        /\ CscColumn(csc, p) <= CscColumn(csc, q)
    BY <1>1, <1>4, <2>1, <2>2, ColumnsAscend
  <2>4. ASSUME CscColumn(csc, p) = CscColumn(csc, q) PROVE FALSE
    <3>1. i[p] < i[q]
      BY <1>4, <1>5, <2>1, <2>2, <2>4
    <3>2. i[p] \in Int
      BY <1>2, <2>1
    <3>3. QED
      BY <2>2, <3>1, <3>2
  <2>5. QED
    BY <2>3, <2>4
<1>7. QED
  BY <1>2, <1>3, <1>5, <1>6 DEF i, o

LEMMA CooDenotes ==
    ASSUME problem \in Problems, A.is_sparse, ZerosFit, CscShape,
           Merged(Nnz(A), Nnz(Z))
    PROVE  /\ Denotes(CooOf(csc)) /\ HasItsArrays(CooOf(csc)) /\ CooOf(csc).format = "COO"
           /\ CooOf(csc).nrows = A.nrows /\ CooOf(csc).ncols = A.ncols
           /\ CooOf(csc).is_iso = IsIso
<1> DEFINE i == csc.indices_1.data
           w == csc.values.data
           o == Ordered(csc)
           D == 0 .. NnzOut - 1
           t == Pick(Larger(A.nrows, A.ncols))
<1>1. CscHas(csc, i, w) /\ CscRows(i) /\ CscValues(w) /\ csc.is_iso = IsIso
  BY CscShapeFacts
<1>2. /\ o \in [D -> D] /\ i \in [D -> Int] /\ DOMAIN i = D
      /\ \A k \in D : \E n \in D : o[n] = k
      /\ \A k \in D : CscColumn(csc, k) \in 0 .. A.ncols - 1
      /\ \A k, l \in D :
            k < l =>
               \/ i[o[k]] < i[o[l]]
               \/ i[o[k]] = i[o[l]] /\ CscColumn(csc, o[k]) < CscColumn(csc, o[l])
  BY MergedRows
<1>3. /\ NnzOut \in Nat /\ IsIso \in BOOLEAN /\ A.ncols \in Nat /\ A.ncols <= Base * Base
      /\ IsMatlabMatrix(A)
  BY PointersAre, SessionMatrices DEF IsIso, IsMatlabMatrix
<1>4. PICK x : x = [n \in D |-> i[o[n]]]
  OBVIOUS
<1>5. PICK y : y = [n \in D |-> CscColumn(csc, o[n])]
  OBVIOUS
<1>6. PICK v : v = IF IsIso THEN w ELSE [n \in D |-> w[o[n]]]
  OBVIOUS
<1>7. PICK m : m = CooOf(csc)
  OBVIOUS
<1>8. m = [format |-> "COO", nrows |-> A.nrows, ncols |-> A.ncols, nnz |-> NnzOut,
           is_iso |-> IsIso, values |-> [type |-> FullType, data |-> v],
           indices_0 |-> [type |-> t, data |-> x],
           indices_1 |-> [type |-> t, data |-> y], pointers_to_1 |-> Absent]
  <2>1. CooOf(csc) =
           [format |-> "COO", nrows |-> A.nrows, ncols |-> A.ncols, nnz |-> NnzOut,
            is_iso |-> IsIso,
            values |-> [type |-> FullType,
                        data |-> IF IsIso THEN w ELSE [n \in DOMAIN i |-> w[o[n]]]],
            indices_0 |-> [type |-> t, data |-> [n \in DOMAIN i |-> i[o[n]]]],
            indices_1 |-> [type |-> t, data |-> [n \in DOMAIN i |-> CscColumn(csc, o[n])]],
            pointers_to_1 |-> Absent]
    BY <1>1, CooOfIs
  <2> HIDE DEF i, w, o, t, D
  <2>2. QED
    BY <1>2, <1>4, <1>5, <1>6, <1>7, <2>1, Zenon
<1> HIDE DEF i, w, o, t
<1>9. /\ m = [f \in StructFields |-> m[f]] /\ DOMAIN m = StructFields
      /\ m.format = "COO" /\ m.nrows = A.nrows /\ m.ncols = A.ncols /\ m.nnz = NnzOut
      /\ m.is_iso = IsIso /\ m.values.type = FullType /\ m.values.data = v
      /\ m.indices_0.data = x /\ m.indices_1.data = y /\ m.pointers_to_1 = Absent
  <2>1. /\ m = [f \in StructFields |-> m[f]] /\ DOMAIN m = StructFields
      /\ m.format = "COO" /\ m.nrows = A.nrows /\ m.ncols = A.ncols /\ m.nnz = NnzOut
      /\ m.is_iso = IsIso /\ m.values = [type |-> FullType, data |-> v]
      /\ m.indices_0 = [type |-> t, data |-> x]
      /\ m.indices_1 = [type |-> t, data |-> y] /\ m.pointers_to_1 = Absent
    BY <1>8, StructIs
  <2>2. QED
    BY <2>1
<1>10. StructEntries(m) = ProblemEntries
  <2> DEFINE e(k) == <<i[k], CscColumn(csc, k), CscValue(k)>>
             g(n) == <<x[n], y[n], m.values.data[IF m.is_iso THEN 0 ELSE n]>>
  <2>1. StructEntries(m) = {g(n) : n \in D}
    <3>1. DOMAIN m.indices_1.data = D /\ m.format \in SparseFormats
      BY <1>5, <1>9 DEF SparseFormats
    <3>2. \A n : x[n] = RowIn(m, n) /\ y[n] = ColumnIn(m, n)
      BY <1>9 DEF RowIn, ColumnIn
    <3>3. StructEntries(m) = EntriesAt(m, x, y)
      BY <3>1, <3>2, EntriesRead
    <3>4. QED
      BY <3>3 DEF EntriesAt
  <2>2. \A n \in D : g(n) = e(o[n]) /\ o[n] \in D
    <3>1. ASSUME NEW n \in D PROVE g(n) = e(o[n]) /\ o[n] \in D
      <4>1. o[n] \in D /\ x[n] = i[o[n]] /\ y[n] = CscColumn(csc, o[n])
        BY <1>2, <1>4, <1>5
      <4>2. m.values.data[IF m.is_iso THEN 0 ELSE n] = CscValue(o[n])
        BY <1>3, <1>6, <1>9 DEF CscValue, w
      <4>3. QED
        BY <4>1, <4>2
    <3>2. QED
      BY <3>1
  <2>3. /\ \A k \in D : e(k) \in ProblemEntries
        /\ \A z \in ProblemEntries : \E k \in D : z = e(k)
    BY CscEntries DEF i
  <2> HIDE DEF e, g
  <2>4. \A z \in ProblemEntries : \E n \in D : z = g(n)
    BY <1>2, <2>2, <2>3
  <2>5. \A n \in D : g(n) \in ProblemEntries
    BY <2>2, <2>3
  <2>6. QED
    BY <2>1, <2>4, <2>5
<1>11. DOMAIN x = D /\ DOMAIN y = D /\ RowOrdered(x, y)
  <2>1. DOMAIN x = D /\ DOMAIN y = D
    BY <1>4, <1>5
  <2>2. \A n \in D : x[n] = i[o[n]] /\ y[n] = CscColumn(csc, o[n])
    BY <1>4, <1>5
  <2>3. \A k, l \in D : k < l => x[k] < x[l] \/ (x[k] = x[l] /\ y[k] < y[l])
    <3>1. ASSUME NEW k \in D, NEW l \in D, k < l
          PROVE  x[k] < x[l] \/ (x[k] = x[l] /\ y[k] < y[l])
      <4>1. \/ i[o[k]] < i[o[l]]
            \/ i[o[k]] = i[o[l]] /\ CscColumn(csc, o[k]) < CscColumn(csc, o[l])
        BY <1>2, <3>1
      <4>2. /\ x[k] = i[o[k]] /\ y[k] = CscColumn(csc, o[k])
            /\ x[l] = i[o[l]] /\ y[l] = CscColumn(csc, o[l])
        BY <2>2
      <4>3. QED
        BY <4>1, <4>2
    <3>2. QED
      BY <3>1
  <2> HIDE DEF D
  <2>4. QED
    BY <2>1, <2>3 DEF RowOrdered
<1>12. DOMAIN v = IF IsIso THEN {0} ELSE D
  BY <1>1, <1>6 DEF CscValues
<1>13. Denotes(m)
  <2>1. m.format \in SparseFormats /\ \E p, q : EntriesAt(m, p, q) = ProblemEntries
    <3>1. m.format \in SparseFormats
      BY <1>9 DEF SparseFormats
    <3>2. DOMAIN m.indices_1.data = 0 .. NnzOut - 1
      BY <1>9, <1>11
    <3>3. QED
      BY <1>10, <3>1, <3>2, EntriesHeld
  <2>2. QED
    BY <1>9, <1>10, <1>11, <1>12, <2>1 DEF Denotes
<1>14. HasItsArrays(m)
  <2>1. PICK s \in Nat : v \in [0 .. s - 1 -> Int \X Int] /\ (IsIso \/ NnzOut <= s)
    <3>1. HasItsArrays(csc)
      BY CscHasItsArrays
    <3>2. csc.nnz = NnzOut
      BY <1>1 DEF CscHas
    <3> DEFINE s == Size(w)
    <3>3. s \in Nat /\ w \in [0 .. s - 1 -> Int \X Int] /\ (IsIso \/ NnzOut <= s)
      BY <1>1, <3>1, <3>2 DEF HasItsArrays, IsArrayOf, w
    <3> HIDE DEF s
    <3>4. CASE IsIso
      BY <1>6, <3>3, <3>4, Zenon
    <3>5. CASE ~IsIso
      <4>1. w \in [D -> Int \X Int]
        BY <1>1, <3>5 DEF CscValues
      <4>2. v \in [D -> Int \X Int]
        BY <1>2, <1>6, <3>5, <4>1
      <4>3. NnzOut <= NnzOut
        BY <1>3
      <4>4. QED
        BY <1>3, <4>2, <4>3
    <3>6. QED
      BY <3>4, <3>5
  <2>2. ASSUME NEW f \in {"indices_0", "indices_1", "pointers_to_1"}
        PROVE  \E l \in Nat : m[f].data \in [0 .. l - 1 -> -1 .. Base * Base - 1]
    <3>1. CASE f = "indices_0"
      <4>1. i \in [D -> -1 .. Base * Base - 1]
        BY <1>1 DEF CscRows
      <4> DEFINE b == -1 .. Base * Base - 1
      <4> HIDE DEF b, D
      <4>4. x \in [D -> b]
        BY <1>2, <1>4, <4>1 DEF b
      <4>2. m[f].data \in [D -> -1 .. Base * Base - 1]
        BY <1>9, <3>1, <4>4 DEF b
      <4>3. QED
        BY <1>3, <4>2 DEF D
    <3>2. CASE f = "indices_1"
      <4>1. 0 .. A.ncols - 1 \subseteq -1 .. Base * Base - 1
        <5> DEFINE b == Base * Base
        <5>1. b \in Nat /\ A.ncols <= b
          BY <1>3, WideCap
        <5> HIDE DEF b
        <5>2. 0 .. A.ncols - 1 \subseteq -1 .. b - 1
          BY <1>3, <5>1
        <5>3. QED
          BY <5>2 DEF b
      <4> DEFINE b == -1 .. Base * Base - 1
      <4> HIDE DEF b, D
      <4>4. y \in [D -> b]
        BY <1>2, <1>5, <4>1 DEF b
      <4>2. m[f].data \in [D -> -1 .. Base * Base - 1]
        BY <1>9, <3>2, <4>4 DEF b
      <4>3. QED
        BY <1>3, <4>2 DEF D
    <3>3. CASE f = "pointers_to_1"
      <4> DEFINE b == -1 .. Base * Base - 1
      <4>1. m[f].data = [k \in {} |-> Junk] /\ 0 .. 0 - 1 = {}
        BY <1>9, <3>3 DEF Absent, Indexes
      <4> HIDE DEF b
      <4>2. m[f].data \in [0 .. 0 - 1 -> b]
        BY <4>1
      <4>3. QED
        BY <4>2 DEF b
    <3>4. QED
      BY <3>1, <3>2, <3>3
  <2>3. QED
    BY <1>3, <1>9, <2>1, <2>2, HasArraysIs
<1>15. QED
  BY <1>7, <1>9, <1>13, <1>14

--------------------------------------------------------------------------------
(* The matrix that was merged, by rows.                                       *)

\* Every entry lies in the matrix.
LEMMA EntriesWithin ==
    ASSUME A.is_sparse, SameShape(A, Z), NEW e \in ProblemEntries
    PROVE  e[1] \in 0 .. A.nrows - 1 /\ e[2] \in 0 .. A.ncols - 1 /\ e[3] \in Int \X Int
<1>1. /\ IsMatlabMatrix(A) /\ IsMatlabMatrix(Z) /\ A.nrows = Z.nrows /\ A.ncols = Z.ncols
      /\ Nnz(A) \in Nat /\ Nnz(Z) \in Nat /\ A.ncols \in Nat
      /\ DOMAIN A.rowind = 0 .. Nnz(A) - 1 /\ DOMAIN Z.rowind = 0 .. Nnz(Z) - 1
      /\ \A p \in 0 .. Nnz(A) - 1 : A.rowind[p] \in 0 .. A.nrows - 1
      /\ \A p \in 0 .. Nnz(Z) - 1 : Z.rowind[p] \in 0 .. A.nrows - 1
  BY MatrixFacts DEF SameShape
<1>2. ASSUME NEW p \in DOMAIN A.rowind
      PROVE  ColumnOf(A, p) \in 0 .. A.ncols - 1 /\ A.values[p] \in Int \X Int
  <2>1. p \in 0 .. Nnz(A) - 1 /\ p \in Nat
    BY <1>1
  <2>2. PICK c \in 0 .. A.ncols - 1 : IsColumn(A, p, c)
    BY <1>1, <2>1, ColumnExists
  <2>3. c = ColumnOf(A, p)
    BY <1>1, <2>1, <2>2, ColumnUnique
  <2>4. QED
    BY <1>1, <2>1, <2>3 DEF IsMatlabMatrix
<1>3. ASSUME NEW p \in DOMAIN Z.rowind PROVE ColumnOf(Z, p) \in 0 .. A.ncols - 1
  <2>1. p \in 0 .. Nnz(Z) - 1 /\ p \in Nat
    BY <1>1
  <2>2. PICK c \in 0 .. Z.ncols - 1 : IsColumn(Z, p, c)
    BY <1>1, <2>1, ColumnExists
  <2>3. c = ColumnOf(Z, p)
    BY <1>1, <2>1, <2>2, ColumnUnique
  <2>4. QED
    BY <1>1, <2>3
<1>4. Zero \in Int \X Int
  BY DEF Zero
<1>5. CASE \E p \in DOMAIN A.rowind : e = <<A.rowind[p], ColumnOf(A, p), A.values[p]>>
  BY <1>1, <1>2, <1>5
<1>6. CASE \E p \in DOMAIN Z.rowind : e = <<Z.rowind[p], ColumnOf(Z, p), Zero>>
  BY <1>1, <1>3, <1>4, <1>6
<1>7. QED
  BY <1>5, <1>6 DEF ProblemEntries, PositionsOf

\* What an element of type t stores of a number.
LEMMA StoredSmall ==
    ASSUME NEW t, Cap(t) \in Nat, NEW v \in Nat, v <= Cap(t) PROVE Stored(t, v) = v
  BY DEF Stored, Junk

LEMMA StoredBelow ==
    ASSUME NEW t, Cap(t) \in Nat, NEW v \in Nat PROVE Stored(t, v) \in 0 .. Cap(t)
<1>1. v % (Cap(t) + 1) \in 0 .. Cap(t)
  BY SMTT(30)
<1>2. QED
  BY <1>1 DEF Stored, Junk

\* The type of the pointers of a CSR matrix has room for the dimensions, and for the
\* entries unless they are too many for a matrix with one value.
PointerType ==
    Pick(Larger(Larger(A.nrows, A.ncols), IF IsIso THEN 1 ELSE NnzOut))

LEMMA PointerTypeIs ==
    ASSUME problem \in Problems
    PROVE  /\ Cap(PointerType) \in Nat /\ Cap(PointerType) < Base * Base
           /\ A.ncols <= Cap(PointerType) + 1
           /\ NnzOut > Cap(PointerType) <=> PointersWrap
<1> DEFINE B == Base * Base
           d == Larger(A.nrows, A.ncols)
           s == IF IsIso THEN 1 ELSE NnzOut
<1>1. /\ A.nrows \in Nat /\ A.ncols \in Nat /\ A.nrows <= B /\ A.ncols <= B
      /\ NnzOut \in Nat /\ NnzOut < B /\ NnzOut = Nnz(A) + Nnz(Z)
      /\ B \in Nat /\ NarrowMax \in Nat /\ NarrowMax >= 1 /\ NarrowMax < B
  BY SessionMatrices, MatrixFacts, SizeType, WideCap, NarrowMaxAssumption DEF NnzOut
<1>2. Cap("narrow") = NarrowMax /\ Cap("wide") = B - 1
  BY DEF Cap
<1> HIDE DEF B
<1>3. /\ d \in Nat /\ A.ncols <= d /\ d <= B /\ s \in Nat
      /\ s = IF IsIso THEN 1 ELSE NnzOut
  BY <1>1 DEF Larger
<1>4. PointersWrap <=> IsIso /\ NnzOut > Cap(Pick(d))
  BY <1>1 DEF PointersWrap
<1>5. PointerType = Pick(Larger(d, s))
  BY DEF PointerType
<1> HIDE DEF d, s
<1>6. CASE IsIso
  <2>1. PointerType = Pick(d)
    BY <1>1, <1>3, <1>5, <1>6 DEF Pick, Larger
  <2>2. QED
    BY <1>1, <1>2, <1>3, <1>4, <1>6, <2>1 DEF Pick, B
<1>7. CASE ~IsIso
  <2>1. Larger(d, s) \in Nat /\ d <= Larger(d, s) /\ NnzOut <= Larger(d, s)
    BY <1>1, <1>3, <1>7 DEF Larger
  <2>2. NnzOut <= Cap(PointerType)
    BY <1>1, <1>2, <1>5, <2>1 DEF Pick
  <2>3. Cap(PointerType) \in Nat /\ Cap(PointerType) < B /\ A.ncols <= Cap(PointerType) + 1
    BY <1>1, <1>2, <1>3, <1>5, <2>1 DEF Pick
  <2>4. QED
    BY <1>1, <1>4, <1>7, <2>2, <2>3 DEF B
<1>8. QED
  BY <1>6, <1>7

\* An entry comes after the beginning of row r if it is of that row or a later one.
LEMMA Begins ==
    ASSUME NEW m, m.nnz \in Nat, \A k \in 0 .. m.nnz - 1 : m.indices_0.data[k] \in Int,
           \A k, l \in 0 .. m.nnz - 1 : k < l => m.indices_0.data[k] <= m.indices_0.data[l],
           NEW r \in Int
    PROVE  /\ Begin(m, r) \in 0 .. m.nnz
           /\ \A k \in 0 .. m.nnz - 1 : Begin(m, r) <= k <=> m.indices_0.data[k] >= r
<1> DEFINE n == m.nnz
           i == m.indices_0.data
           b == Begin(m, r)
           Late(k) == i[k] >= r
           Is(k) == (k = n \/ Late(k)) /\ \A l \in 0 .. k - 1 : i[l] < r
           f == [k \in 0 .. n - 1 |-> IF Late(k) THEN k ELSE n]
<1>1. n \in Nat /\ \A k \in 0 .. n - 1 : i[k] \in Int
  OBVIOUS
<1>2. b = CHOOSE k \in 0 .. n : Is(k)
  BY DEF Begin
<1>3. \A k, l \in 0 .. n - 1 : k < l => i[k] <= i[l]
  OBVIOUS
<1>4. n > 0 => \E k \in 0 .. n - 1 : \A l \in 0 .. n - 1 : f[k] <= f[l]
  <2>1. f \in [0 .. n - 1 -> Int]
    BY <1>1
  <2> HIDE DEF f, n
  <2>2. QED
    BY <1>1, <2>1, SmallestPlace
<1>5. \A k \in 0 .. n - 1 : f[k] = IF Late(k) THEN k ELSE n
  OBVIOUS
<1> HIDE DEF n, i, b, f
<1>6. \E k \in 0 .. n : Is(k)
  <2>1. CASE \A l \in 0 .. n - 1 : ~Late(l)
    <3>1. n \in 0 .. n /\ \A l \in 0 .. n - 1 : i[l] < r
      BY <1>1, <2>1
    <3>2. QED
      BY <3>1
  <2>2. CASE \E l \in 0 .. n - 1 : Late(l)
    <3>1. PICK l \in 0 .. n - 1 : Late(l)
      BY <2>2
    <3>2. PICK k \in 0 .. n - 1 : \A q \in 0 .. n - 1 : f[k] <= f[q]
      BY <1>1, <1>4, <3>1
    <3>3. Late(k) /\ f[k] = k
      <4>1. f[k] <= f[l] /\ f[l] = l /\ l < n
        BY <1>1, <1>5, <3>1, <3>2
      <4>2. QED
        BY <1>1, <1>5, <4>1
    <3>4. \A q \in 0 .. k - 1 : i[q] < r
      <4> SUFFICES ASSUME NEW q \in 0 .. k - 1 PROVE i[q] < r
        OBVIOUS
      <4>1. q \in 0 .. n - 1 /\ q < k
        BY <1>1
      <4>2. ~Late(q)
        BY <1>5, <3>2, <3>3, <4>1
      <4>3. QED
        BY <1>1, <4>1, <4>2
    <3>5. k \in 0 .. n
      BY <1>1
    <3>6. QED
      BY <3>3, <3>4, <3>5
  <2>3. QED
    BY <2>1, <2>2
<1>7. b \in 0 .. n /\ Is(b)
  <2> HIDE DEF Is
  <2>1. QED
    BY <1>2, <1>6
<1>8. ASSUME NEW k \in 0 .. n - 1 PROVE b <= k <=> i[k] >= r
  <2>1. i[k] \in Int /\ k \in Int /\ b \in Int
    BY <1>1, <1>7
  <2>2. CASE k < b
    <3>1. k \in 0 .. b - 1
      BY <2>1, <2>2
    <3>2. i[k] < r
      BY <1>7, <3>1
    <3>3. QED
      BY <2>1, <2>2, <3>2
  <2>3. CASE b <= k
    <3>1. b \in 0 .. n - 1 /\ i[b] \in Int
      BY <1>1, <1>7, <2>1, <2>3
    <3>2. i[b] >= r
      BY <1>1, <1>7, <3>1
    <3>3. i[b] <= i[k]
      BY <1>3, <2>1, <2>3, <3>1
    <3>4. QED
      BY <2>1, <2>3, <3>1, <3>2, <3>3
  <2>4. QED
    BY <2>1, <2>2, <2>3
<1>9. QED
  BY <1>7, <1>8 DEF n, i, b

\* Where the pointers do not wrap, every entry is in its row.
LEMMA RowsKept ==
    ASSUME NEW c, NEW n \in Nat, c.nrows \in Nat, NEW k \in 0 .. n - 1,
           NEW i \in 0 .. c.nrows - 1,
           \A r \in 0 .. c.nrows : /\ c.pointers_to_1.data[r] \in 0 .. n
                                   /\ c.pointers_to_1.data[r] <= k <=> i >= r
    PROVE  RowOf(c, k) = i
<1> DEFINE p == c.pointers_to_1.data
           rows == {r \in 0 .. c.nrows - 1 : p[r] <= k /\ k < p[r + 1]}
<1>1. RowOf(c, k) = IF rows = {} THEN Junk ELSE CHOOSE r \in rows : \A q \in rows : q <= r
  BY DEF RowOf
<1> HIDE DEF p
<1>2. \A r \in 0 .. c.nrows - 1 : r \in rows <=> r = i
  <2> TAKE r \in 0 .. c.nrows - 1
  <2>1. r \in 0 .. c.nrows /\ r + 1 \in 0 .. c.nrows /\ r \in Int
    OBVIOUS
  <2>2. (p[r] <= k <=> i >= r) /\ (p[r + 1] <= k <=> i >= r + 1) /\ p[r + 1] \in Int
    BY <2>1 DEF p
  <2>3. QED
    BY <2>1, <2>2
<1>3. rows = {i}
  BY <1>2
<1> HIDE DEF rows
<1>4. (CHOOSE r \in rows : \A q \in rows : q <= r) = i
  <2>1. \E r \in rows : \A q \in rows : q <= r
    BY <1>3
  <2>2. QED
    BY <1>3, <2>1
<1>5. QED
  BY <1>1, <1>3, <1>4

LEMMA CsrDenotes ==
    ASSUME problem \in Problems, A.is_sparse, SameShape(A, Z), NEW m, HasItsArrays(m),
           Denotes(m), m.format = "COO", m.nrows = A.nrows, m.ncols = A.ncols, m.is_iso = IsIso
    PROVE  Denotes(CsrOf(m)) /\ HasItsArrays(CsrOf(m))
<1> DEFINE D == 0 .. NnzOut - 1
           x == m.indices_0.data
           y == m.indices_1.data
           T == PointerType
           q == [r \in 0 .. m.nrows |-> Stored(T, Begin(m, r))]
           c == CsrOf(m)
           p == c.pointers_to_1.data
           k0 == NnzOut - 1
<1>1. /\ m.nnz = NnzOut /\ NnzOut \in Nat /\ A.nrows \in Nat /\ A.ncols \in Nat
      /\ DOMAIN x = D /\ DOMAIN y = D /\ RowOrdered(x, y)
      /\ DOMAIN m.values.data = IF IsIso THEN {0} ELSE D
      /\ m.values.type \in {OutputType, FullType}
      /\ StructEntries(m) = ProblemEntries /\ m.format \in SparseFormats
  BY SizeType, SessionMatrices, MatrixFacts DEF Denotes
<1>2. Size(m.values.data) = IF IsIso THEN 1 ELSE NnzOut
  <2>1. CASE IsIso
    BY <1>1, <2>1, FS_Singleton DEF Size
  <2>2. CASE ~IsIso
    BY <1>1, <2>2, FS_Interval DEF Size
  <2>3. QED
    BY <2>1, <2>2
<1>3. EntriesAt(m, x, y) = ProblemEntries
  <2>1. \A k : x[k] = RowIn(m, k) /\ y[k] = ColumnIn(m, k)
    BY DEF RowIn, ColumnIn
  <2>2. QED
    BY <1>1, <2>1, EntriesRead
<1>4. \A k \in D : /\ x[k] \in 0 .. A.nrows - 1 /\ y[k] \in 0 .. A.ncols - 1
                   /\ x[k] \in Int /\ y[k] \in Nat
  <2> SUFFICES ASSUME NEW k \in D
      PROVE  x[k] \in 0 .. A.nrows - 1 /\ y[k] \in 0 .. A.ncols - 1
    BY <1>1
  <2>1. PICK v : v = m.values.data[IF m.is_iso THEN 0 ELSE k]
    OBVIOUS
  <2>2. <<x[k], y[k], v>> \in ProblemEntries
    BY <1>3, <2>1 DEF EntriesAt
  <2>3. <<x[k], y[k], v>>[1] \in 0 .. A.nrows - 1 /\ <<x[k], y[k], v>>[2] \in 0 .. A.ncols - 1
    BY <2>2, EntriesWithin
  <2>4. QED
    BY <2>3
<1>5. /\ Cap(T) \in Nat /\ Cap(T) < Base * Base /\ A.ncols <= Cap(T) + 1
      /\ NnzOut > Cap(T) <=> PointersWrap
  BY PointerTypeIs
<1>6. DOMAIN m = StructFields /\ m = [f \in StructFields |-> m[f]]
  BY DEF HasItsArrays
<1>7. c = [m EXCEPT !.format = "CSR", !.indices_0 = Absent,
                    !.indices_1 = Converted(@, T), !.pointers_to_1 = Indexes(T, q)]
  BY <1>2 DEF CsrOf, MaxDim, PointerType
<1> HIDE DEF c, q, T
<1>8. /\ c = [f \in StructFields |-> c[f]] /\ c.format = "CSR" /\ c.nrows = A.nrows
      /\ c.ncols = A.ncols /\ c.nnz = NnzOut /\ c.is_iso = IsIso /\ c.values = m.values
      /\ c.indices_0 = Absent /\ c.indices_1 = Converted(m.indices_1, T)
      /\ c.pointers_to_1 = Indexes(T, q)
  BY <1>1, <1>6, <1>7 DEF StructFields, Fields
<1>9. DOMAIN c.indices_1.data = D /\ \A k \in D : c.indices_1.data[k] = y[k]
  <2>1. c.indices_1.data = [k \in D |-> Stored(T, y[k])]
    BY <1>1, <1>8 DEF Converted, Indexes
  <2>2. \A k \in D : Stored(T, y[k]) = y[k]
    <3> SUFFICES ASSUME NEW k \in D PROVE Stored(T, y[k]) = y[k]
      OBVIOUS
    <3>1. y[k] \in Nat /\ y[k] <= Cap(T)
      BY <1>1, <1>4, <1>5
    <3>2. QED
      BY <1>5, <3>1, StoredSmall
  <2>3. QED
    BY <2>1, <2>2
<1>10. \A r \in 0 .. A.nrows :
          /\ p[r] = Stored(T, Begin(m, r)) /\ p[r] \in 0 .. Cap(T)
          /\ Begin(m, r) \in 0 .. NnzOut
          /\ \A k \in D : Begin(m, r) <= k <=> x[k] >= r
  <2> TAKE r \in 0 .. A.nrows
  <2>1. p[r] = Stored(T, Begin(m, r))
    <3>1. p = q
      BY <1>8 DEF Indexes
    <3>2. q[r] = Stored(T, Begin(m, r))
      BY DEF q
    <3>3. QED
      BY <3>1, <3>2
  <2>2. \A k, l \in D : k < l => x[k] <= x[l]
    <3> SUFFICES ASSUME NEW k \in D, NEW l \in D, k < l PROVE x[k] <= x[l]
      OBVIOUS
    <3>1. x[k] < x[l] \/ x[k] = x[l]
      BY <1>1 DEF RowOrdered
    <3>2. x[k] \in Int /\ x[l] \in Int
      BY <1>4
    <3> HIDE DEF x
    <3>3. QED
      BY <3>1, <3>2
  <2>3. /\ Begin(m, r) \in 0 .. NnzOut
        /\ \A k \in D : Begin(m, r) <= k <=> x[k] >= r
    <3>1. \A k \in 0 .. m.nnz - 1 : m.indices_0.data[k] \in Int
      BY <1>1, <1>4
    <3>2. r \in Int
      BY <1>1
    <3>3. QED
      BY <1>1, <2>2, <3>1, <3>2, Begins
  <2>4. Stored(T, Begin(m, r)) \in 0 .. Cap(T)
    BY <1>1, <1>5, <2>3, StoredBelow
  <2>5. QED
    BY <2>1, <2>3, <2>4
<1>11. c.format \in SparseFormats
  BY <1>8 DEF SparseFormats
<1>12. EntriesAt(c, x, y) = ProblemEntries
  BY <1>3, <1>8 DEF EntriesAt
<1>13. StructEntries(c) = {<<RowOf(c, k), y[k], m.values.data[IF m.is_iso THEN 0 ELSE k]>> : k \in D}
  <2> DEFINE h(k) == <<RowIn(c, k), ColumnIn(c, k), c.values.data[IF c.is_iso THEN 0 ELSE k]>>
             g(k) == <<RowOf(c, k), y[k], m.values.data[IF m.is_iso THEN 0 ELSE k]>>
  <2>1. StructEntries(c) = {h(k) : k \in D}
    BY <1>9, <1>11, EntriesOf
  <2>2. \A k \in D : h(k) = g(k)
    BY <1>8, <1>9 DEF RowIn, ColumnIn
  <2> HIDE DEF h, g
  <2>3. StructEntries(c) = {g(k) : k \in D}
    BY <2>1, <2>2
  <2>4. QED
    BY <2>3 DEF g
<1>14. ASSUME ~PointersWrap PROVE StructEntries(c) = ProblemEntries
  <2>1. NnzOut <= Cap(T)
    BY <1>1, <1>5, <1>14
  <2>2. \A r \in 0 .. A.nrows : p[r] = Begin(m, r)
    <3> TAKE r \in 0 .. A.nrows
    <3>1. Begin(m, r) \in Nat /\ Begin(m, r) <= Cap(T)
      BY <1>1, <1>5, <1>10, <2>1
    <3>2. QED
      BY <1>5, <1>10, <3>1, StoredSmall
  <2>3. \A k \in D : RowOf(c, k) = x[k]
    <3> TAKE k \in D
    <3>1. \A r \in 0 .. A.nrows : p[r] \in 0 .. NnzOut /\ (p[r] <= k <=> x[k] >= r)
      BY <1>10, <2>2
    <3>2. c.nrows \in Nat /\ x[k] \in 0 .. c.nrows - 1 /\ c.nrows = A.nrows
      BY <1>1, <1>4, <1>8
    <3>3. \A r \in 0 .. c.nrows : /\ c.pointers_to_1.data[r] \in 0 .. NnzOut
                                  /\ c.pointers_to_1.data[r] <= k <=> x[k] >= r
      BY <3>1, <3>2
    <3>4. NnzOut \in Nat /\ k \in 0 .. NnzOut - 1
      BY <1>1
    <3> HIDE DEF x, D, p
    <3>5. PICK i0 \in 0 .. c.nrows - 1 : i0 = x[k]
      BY <3>2
    <3>6. \A r \in 0 .. c.nrows : /\ c.pointers_to_1.data[r] \in 0 .. NnzOut
                                  /\ c.pointers_to_1.data[r] <= k <=> i0 >= r
      BY <3>3, <3>5
    <3>7. RowOf(c, k) = i0
      BY <3>2, <3>4, <3>6, RowsKept
    <3>8. QED
      BY <3>5, <3>7
  <2>4. StructEntries(c) = {<<x[k], y[k], m.values.data[IF m.is_iso THEN 0 ELSE k]>> : k \in D}
    BY <1>13, <2>3
  <2>5. QED
    BY <1>3, <2>4 DEF EntriesAt
<1>15. ASSUME PointersWrap PROVE StructEntries(c) # ProblemEntries
  <2>1. Cap(T) < NnzOut /\ k0 \in D
    BY <1>1, <1>5, <1>15
  <2>2. \A r \in 0 .. A.nrows - 1 : ~(k0 < p[r + 1])
    <3> TAKE r \in 0 .. A.nrows - 1
    <3>1. r + 1 \in 0 .. A.nrows
      BY <1>1
    <3>2. p[r + 1] \in 0 .. Cap(T)
      BY <1>10, <3>1
    <3> HIDE DEF p
    <3>3. QED
      BY <1>1, <1>5, <2>1, <3>2
  <2>3. RowOf(c, k0) = Junk
    BY <1>8, <2>2 DEF RowOf
  <2>4. PICK v : v = m.values.data[IF m.is_iso THEN 0 ELSE k0]
    OBVIOUS
  <2>5. <<Junk, y[k0], v>> \in StructEntries(c)
    BY <1>13, <2>1, <2>3, <2>4
  <2>6. ASSUME <<Junk, y[k0], v>> \in ProblemEntries PROVE FALSE
    <3>1. <<Junk, y[k0], v>>[1] \in 0 .. A.nrows - 1
      BY <2>6, EntriesWithin
    <3>2. QED
      BY <3>1 DEF Junk
  <2>7. QED
    BY <2>5, <2>6
<1>16. Denotes(c)
  BY <1>1, <1>8, <1>9, <1>11, <1>12, <1>14, <1>15 DEF Denotes
<1>17. HasItsArrays(c)
  <2> DEFINE b == Base * Base
             S == -1 .. b - 1
             s == Size(m.values.data)
  <2>1. b \in Nat /\ A.ncols <= b
    BY SessionMatrices, MatrixFacts, WideCap
  <2>2. s \in Nat /\ c.values.data \in [0 .. s - 1 -> Int \X Int] /\ (IsIso \/ NnzOut <= s)
    BY <1>1, <1>8 DEF HasItsArrays, IsArrayOf
  <2> HIDE DEF b, s
  <2>3. 0 .. A.ncols - 1 \subseteq S /\ 0 .. Cap(T) \subseteq S
    BY <1>1, <1>5, <2>1 DEF b
  <2> HIDE DEF S
  <2>4. ASSUME NEW f \in {"indices_0", "indices_1", "pointers_to_1"}
        PROVE  \E l \in Nat : c[f].data \in [0 .. l - 1 -> S]
    <3>1. CASE f = "indices_0"
      <4>1. c[f].data = [k \in {} |-> Junk] /\ 0 .. 0 - 1 = {}
        BY <1>8, <3>1 DEF Absent, Indexes
      <4>2. c[f].data \in [0 .. 0 - 1 -> S]
        BY <4>1
      <4>3. QED
        BY <4>2
    <3>2. CASE f = "indices_1"
      <4>1. c.indices_1.data = [k \in D |-> c.indices_1.data[k]]
        <5>1. c.indices_1 = Converted(m.indices_1, T)
          BY <1>8
        <5>2. DOMAIN y = D
          BY <1>1
        <5>3. c.indices_1.data = [k \in DOMAIN y |-> Stored(T, y[k])]
          BY <5>1 DEF Converted, Indexes
        <5>4. QED
          BY <5>2, <5>3
      <4>2. \A k \in D : c.indices_1.data[k] \in S
        BY <1>4, <1>9, <2>3
      <4>3. c[f].data \in [D -> S]
        BY <3>2, <4>1, <4>2
      <4>4. QED
        BY <1>1, <4>3
    <3>3. CASE f = "pointers_to_1"
      <4>1. p = [r \in 0 .. A.nrows |-> p[r]]
        <5>1. p = q
          BY <1>8 DEF Indexes
        <5>2. q = [r \in 0 .. A.nrows |-> q[r]]
          BY DEF q
        <5>3. QED
          BY <5>1, <5>2
      <4>2. \A r \in 0 .. A.nrows : p[r] \in S
        BY <1>10, <2>3
      <4>3. c[f].data \in [0 .. A.nrows -> S]
        BY <3>3, <4>1, <4>2
      <4>4. PICK l \in Nat : l = A.nrows + 1 /\ 0 .. A.nrows = 0 .. l - 1
        BY <1>1
      <4>5. QED
        BY <4>3, <4>4
    <3>4. QED
      BY <3>1, <3>2, <3>3
  <2>5. c.format # "none" /\ IsIso \in BOOLEAN
    BY <1>8 DEF IsIso
  <2>6. QED
    BY <1>1, <1>8, <2>2, <2>4, <2>5, HasArraysIs DEF S, b
<1>18. QED
  BY <1>16, <1>17 DEF c

--------------------------------------------------------------------------------
(* The matrix as a struct.                                                    *)

LEMMA MatlabStructIs ==
    ASSUME NEW m, HasItsArrays(m)
    PROVE  /\ IsStruct(MatlabStruct(m))
           /\ MatlabStruct(m).format = m.format /\ MatlabStruct(m).ncols = m.ncols
           /\ MatlabStruct(m).nnz = m.nnz /\ MatlabStruct(m).is_iso = m.is_iso
           /\ MatlabStruct(m).nrows = m.nrows
           /\ \A f \in Fields : MatlabStruct(m)[f].data = m[f].data
                                /\ MatlabStruct(m)[f].type = ClassOf(m[f].type)
<1> DEFINE o == MatlabStruct(m)
<1>1. DOMAIN m = StructFields
  BY DEF HasItsArrays
<1>2. o = [f \in StructFields |->
             IF f \in Fields THEN [type |-> ClassOf(m[f].type), data |-> m[f].data] ELSE m[f]]
  BY <1>1 DEF MatlabStruct
<1>3. \A f \in {"format", "nrows", "ncols", "nnz", "is_iso"} :
         f \in StructFields /\ f \notin Fields
  BY DEF StructFields, Fields
<1>4. Fields \subseteq StructFields
  BY DEF StructFields
<1> HIDE DEF o
<1>5. /\ o.format = m.format /\ o.ncols = m.ncols /\ o.nrows = m.nrows
      /\ o.nnz = m.nnz /\ o.is_iso = m.is_iso
  BY <1>2, <1>3
<1>6. \A f \in Fields : o[f].data = m[f].data /\ o[f].type = ClassOf(m[f].type)
  BY <1>2, <1>4
<1>7. \A t : ClassOf(ClassOf(t)) = ClassOf(t)
  BY DEF ClassOf
<1>8. o = [f \in StructFields |-> o[f]]
  BY <1>2
<1>9. HasItsArrays(o)
  <2>1. o.values.data = m.values.data
    BY <1>6 DEF Fields
  <2>2. \A f \in Fields \ {"values"} : o[f].data = m[f].data
    BY <1>6
  <2>3. QED
    BY <1>5, <1>8, <2>1, <2>2 DEF HasItsArrays
<1>10. IsStruct(o)
  BY <1>6, <1>7, <1>9 DEF IsStruct
<1>11. QED
  BY <1>5, <1>6, <1>10 DEF o

LEMMA MatlabStructDenotes ==
    ASSUME NEW m, HasItsArrays(m), Denotes(m)
    PROVE  Denotes(MatlabStruct(m))
<1>1. /\ MatlabStruct(m).format = m.format /\ MatlabStruct(m).ncols = m.ncols
      /\ MatlabStruct(m).nrows = m.nrows
      /\ MatlabStruct(m).nnz = m.nnz /\ MatlabStruct(m).is_iso = m.is_iso
      /\ \A f \in Fields : MatlabStruct(m)[f].data = m[f].data
      /\ MatlabStruct(m).values.type = ClassOf(m.values.type)
  BY MatlabStructIs DEF Fields
<1>2. MatlabStruct(m).values.type \in {OutputType, FullType}
  BY <1>1, ValueTypes DEF Denotes
<1>3. QED
  BY <1>1, <1>2, DenotesSame

--------------------------------------------------------------------------------
(* The matrices of the file.                                                  *)

\* What a reader makes of a finished group.
StructOf(o) ==
    [f \in DOMAIN o.descriptor \cup Fields |->
        IF f \in Fields THEN o[f] ELSE o.descriptor[f]]

\* is_iso and the type of the values are as narrow as the matrix allows.
Final(m) == m.nnz > 0 => m.is_iso = IsIso /\ m.values.type = OutputType

LEMMA StructOfIs ==
    ASSUME NEW o, NEW a, NEW b, NEW c, NEW d, NEW e,
           o.descriptor = [format |-> a, nrows |-> b, ncols |-> c, nnz |-> d, is_iso |-> e]
    PROVE  /\ StructOf(o) = [f \in StructFields |-> StructOf(o)[f]]
           /\ StructOf(o).format = a /\ StructOf(o).nrows = b /\ StructOf(o).ncols = c
           /\ StructOf(o).nnz = d /\ StructOf(o).is_iso = e
           /\ \A f \in Fields : StructOf(o)[f] = o[f]
<1>1. DOMAIN o.descriptor \cup Fields = StructFields
  BY DEF StructFields
<1>2. StructOf(o) = [f \in StructFields |-> IF f \in Fields THEN o[f] ELSE o.descriptor[f]]
  BY <1>1 DEF StructOf
<1>3. \A f \in {"format", "nrows", "ncols", "nnz", "is_iso"} :
         f \in StructFields /\ f \notin Fields
  BY DEF StructFields, Fields
<1>4. Fields \subseteq StructFields
  BY DEF StructFields
<1>5. PICK s : s = StructOf(o)
  OBVIOUS
<1>6. s = [f \in StructFields |-> s[f]]
  BY <1>2, <1>5
<1>7. /\ s.format = a /\ s.nrows = b /\ s.ncols = c /\ s.nnz = d /\ s.is_iso = e
  BY <1>2, <1>3, <1>5
<1>8. \A f \in Fields : s[f] = o[f]
  BY <1>2, <1>4, <1>5
<1>9. QED
  BY <1>5, <1>6, <1>7, <1>8

\* The group the coordinate writer fills has no pointers.
NoPointers ==
    call = "write_ssmc_coo" /\ stage \in WritingStages =>
       file.objects[group].pointers_to_1 = Absent

LEMMA PointersKept ==
    ASSUME FileInv, call = "write_ssmc_coo", stage \in WritingStages, NEW a,
           NEW f \in {"values", "indices_0", "indices_1", "descriptor"}, Put(f, a)
    PROVE  file'.objects[group].pointers_to_1 = file.objects[group].pointers_to_1
<1>1. BeingWritten /\ group \in Names /\ FileShape
  BY DEF FileInv, WritingStages, Coo, At
<1> DEFINE o == file.objects[group]
           g == [o EXCEPT ![f] = a]
<1>2. file' = WithObject(file, group, g)
  BY DEF Put, WithObject
<1>3. g.pointers_to_1 = o.pointers_to_1
  BY <1>1 DEF BeingWritten, GroupShape
<1> HIDE DEF g
<1>4. file'.objects[group] = g
  BY <1>1, <1>2, ObjectChanged DEF FileShape
<1>5. QED
  BY <1>3, <1>4

LEMMA NextNoPointers == ASSUME FileInv, NoPointers, [Next]_vars PROVE NoPointers'
<1>1. CASE CooNext
  <2>1. CASE \E g \in problem.names : CooCall(g)
    BY <2>1 DEF CooCall, Enter, NoPointers, WritingStages
  <2>2. CASE CooRefuse \/ CooDuplicate \/ CooOpenFails \/ CooValuesFail \/ CooRowsDatasetFails
             \/ FlushFails \/ CooColumnsFail \/ CooDescriptor
    <3>1. stage' = "none"
      BY <2>2 DEF CooRefuse, CooDuplicate, CooOpenFails, CooValuesFail, CooRowsDatasetFails,
         FlushFails, CooColumnsFail, CooWriteArrayFails, CooFail, CooDescriptor, Raise, Leave
    <3>2. QED
      BY <3>1 DEF NoPointers, WritingStages
  <2>3. CASE CooCount \/ TakeA \/ TakeZ \/ NextColumn \/ CooScattered
    <3>1. stage' \in {"scatter", "open"}
      BY <2>3 DEF CooCount, TakeA, TakeZ, NextColumn, CooScattered, Coo, At, Proceed, mexVars
    <3>2. QED
      BY <3>1 DEF NoPointers, WritingStages
  <2>4. CASE CooOpen
    <3>1. group' = group /\ group \in Names
      BY <2>4 DEF CooOpen, cooVars, FileInv
    <3>2. file'.objects[group] = EmptyGroup
      <4>1. CASE group = Root
        BY <2>4, <4>1, NewFileShape DEF CooOpen
      <4>2. CASE group # Root
        <5>1. file' = WithObject(OpenedFile, group, EmptyGroup) /\ ~NameTaken(OpenedFile, group)
          BY <2>4, <4>2 DEF CooOpen
        <5>2. EmptyGroup.kind \in {"group", "text"}
          BY DEF EmptyGroup
        <5>3. QED
          BY <3>1, <5>1, <5>2, ObjectMade
      <4>3. QED
        BY <4>1, <4>2
    <3>3. EmptyGroup.pointers_to_1 = Absent
      BY DEF EmptyGroup
    <3>4. QED
      BY <3>1, <3>2, <3>3 DEF NoPointers
  <2>5. CASE CooValues \/ CooRowsDataset \/ SkipRow \/ FillRun \/ FlushChunk \/ CooColumns
    <3>1. /\ call = "write_ssmc_coo" /\ stage \in WritingStages /\ group' = group
          /\ UNCHANGED file \/ \E f \in {"values", "indices_0", "indices_1"} : \E a : Put(f, a)
      BY <2>5 DEF CooValues, CooRowsDataset, SkipRow, FillRun, FlushChunk, ChunkReady,
         CooColumns, CooWriteArray, Coo, At, WritingStages, cooVars, mexVars
    <3>2. file'.objects[group].pointers_to_1 = file.objects[group].pointers_to_1
      BY <3>1, PointersKept
    <3>3. QED
      BY <3>1, <3>2 DEF NoPointers
  <2>6. QED
    BY <1>1, <2>1, <2>2, <2>3, <2>4, <2>5 DEF CooNext
<1>2. CASE (SsmcNext \/ MinNext \/ TextNext) /\ UNCHANGED cooVars
  <2>1. ~CooBegun'
    BY <1>2, NotTheWriter
  <2>2. QED
    BY <2>1 DEF CooBegun, NoPointers, WritingStages
<1>3. CASE UNCHANGED vars
  <2>1. UNCHANGED <<file, call, stage, group>>
    BY <1>3 DEF vars, mexVars, cooVars
  <2>2. QED
    BY <2>1 DEF NoPointers
<1>4. QED
  BY <1>1, <1>2, <1>3 DEF Next, Aborted

\* What the coordinate writer finishes is a whole matrix, and as narrow as can be.
LEMMA FinishedIsFinal ==
    ASSUME problem \in Problems, CooInv, Placed, CooBegun, stage # "scatter", NEW o,
           RowsWritten(A, Z, o.indices_0, NnzOut), o.values = ValuesArray,
           o.indices_1 = output.indices_1, o.descriptor = Descriptor, o.pointers_to_1 = Absent
    PROVE  /\ HasItsArrays(StructOf(o)) /\ A.is_sparse
           /\ Denotes(StructOf(o)) /\ Final(StructOf(o))
<1> DEFINE m == StructOf(o)
           x == o.indices_0.data
           y == output.indices_1.data
           v == output.values
           D == 0 .. NnzOut - 1
<1>1. /\ IsMatlabMatrix(A) /\ IsMatlabMatrix(Z) /\ A.is_sparse
      /\ A.nrows \in Nat /\ A.ncols \in Nat /\ A.ncols <= Base * Base /\ A.nrows <= Base * Base
      /\ Nnz(A) \in Nat /\ Nnz(Z) \in Nat /\ NnzOut \in Nat
      /\ NnzOut = Nnz(A) + Nnz(Z) /\ IsIso \in BOOLEAN
      /\ A.nrows = Z.nrows /\ A.ncols = Z.ncols
  <2>1. SameShape(A, Z) /\ A.nrows \in Nat /\ Nnz(A) \in Nat /\ Nnz(Z) \in Nat /\ NnzOut \in Nat
        /\ A.ncols \in Nat /\ A.ncols <= Base * Base
    BY CooMatrices
  <2>2. Refused = "none"
    BY DEF CooInv
  <2>3. A.is_sparse
    BY <2>2 DEF Refused
  <2>4. A.nrows <= Base * Base
    BY <2>1 DEF SameShape, IsMatlabMatrix
  <2>5. QED
    BY <2>1, <2>3, <2>4 DEF SameShape, NnzOut, IsIso
<1>2. CooHolds(o)
  BY FinishedHolds
<1>3. OutputInv /\ OutputShape
  BY DEF Placed, ScatterInv
<1>4. /\ m = [f \in StructFields |-> m[f]]
      /\ m.format = "COO" /\ m.nrows = A.nrows /\ m.ncols = A.ncols /\ m.nnz = NnzOut
      /\ m.is_iso = IsIso /\ m.values.data = v /\ m.values.type = OutputType
      /\ m.indices_0.data = x /\ m.indices_1.data = y /\ m.pointers_to_1 = Absent
  <2>1. /\ m = [f \in StructFields |-> m[f]]
        /\ m.format = "COO" /\ m.nrows = A.nrows /\ m.ncols = A.ncols /\ m.nnz = NnzOut
        /\ m.is_iso = output.is_iso /\ \A f \in Fields : m[f] = o[f]
    BY StructOfIs DEF Descriptor
  <2> HIDE DEF m
  <2>2. m.values = o.values /\ m.indices_0 = o.indices_0 /\ m.indices_1 = o.indices_1
        /\ m.pointers_to_1 = o.pointers_to_1
    BY <2>1 DEF Fields
  <2>3. m.values.data = v /\ m.values.type = output.value_type
    BY <2>2 DEF ValuesArray
  <2>4. QED
    BY <1>3, <2>1, <2>2, <2>3 DEF OutputInv
<1>5. DOMAIN x = D /\ IsFunctionOn(x, D) /\ \A k \in D : x[k] \in 0 .. A.nrows - 1
  BY <1>1 DEF RowsWritten, RowAt
<1>6. DOMAIN y = D /\ IsFunctionOn(y, D)
  BY <1>3 DEF OutputShape
<1>7. DOMAIN v = IF IsIso THEN {0} ELSE D
  BY <1>3 DEF OutputInv
<1> HIDE DEF m, x, y, v
<1>8. /\ CooEntries(x, y, v, IsIso) = ProblemEntries /\ RowOrdered(x, y)
  <2>1. o.descriptor.is_iso = IsIso
    BY <1>3 DEF OutputInv, Descriptor
  <2>2. o.values.data = v /\ o.indices_0.data = x /\ o.indices_1.data = y
    BY DEF ValuesArray, v, x, y
  <2>3. QED
    BY <1>2, <2>1, <2>2 DEF CooHolds
<1>9. StructEntries(m) = ProblemEntries
  <2>1. DOMAIN m.indices_1.data = D /\ m.format \in SparseFormats
    BY <1>4, <1>6 DEF SparseFormats
  <2>2. \A n : x[n] = RowIn(m, n) /\ y[n] = ColumnIn(m, n)
    BY <1>4 DEF RowIn, ColumnIn
  <2>3. StructEntries(m) = EntriesAt(m, x, y)
    BY <2>1, <2>2, EntriesRead
  <2>4. EntriesAt(m, x, y) = CooEntries(x, y, v, IsIso)
    BY <1>4, <1>5 DEF CooEntries, EntriesAt
  <2>5. QED
    BY <1>8, <2>3, <2>4
<1>10. Denotes(m) /\ Final(m)
  <2>1. m.format \in SparseFormats /\ \E p, q : EntriesAt(m, p, q) = ProblemEntries
    <3>1. m.format \in SparseFormats
      BY <1>4 DEF SparseFormats
    <3>2. DOMAIN m.indices_1.data = 0 .. NnzOut - 1
      BY <1>4, <1>6
    <3>3. QED
      BY <1>9, <3>1, <3>2, EntriesHeld
  <2>2. QED
    BY <1>4, <1>5, <1>6, <1>7, <1>8, <1>9, <2>1 DEF Denotes, Final
<1>11. \A k \in D : y[k] \in 0 .. A.ncols - 1 /\ v[IF IsIso THEN 0 ELSE k] \in Int \X Int
  <2>1. \A e \in ProblemEntries : e[2] \in 0 .. A.ncols - 1 /\ e[3] \in Int \X Int
    BY <1>1, EntriesWithin DEF SameShape
  <2>2. ASSUME NEW k \in D
        PROVE  y[k] \in 0 .. A.ncols - 1 /\ v[IF IsIso THEN 0 ELSE k] \in Int \X Int
    <3> DEFINE e == <<x[k], y[k], v[IF IsIso THEN 0 ELSE k]>>
    <3>1. e \in ProblemEntries
      BY <1>5, <1>8 DEF CooEntries
    <3>2. e[2] \in 0 .. A.ncols - 1 /\ e[3] \in Int \X Int
      BY <2>1, <3>1
    <3>3. QED
      BY <3>2
  <2>3. QED
    BY <2>2
<1>12. HasItsArrays(m)
  <2>1. PICK s \in Nat : v \in [0 .. s - 1 -> Int \X Int] /\ (IsIso \/ NnzOut <= s)
    <3>1. CASE IsIso
      <4>1. v = [k \in {0} |-> Held(OutputType, IsoValueOfA)]
        BY <1>3, <3>1 DEF OutputInv, v
      <4>2. NnzOut > 0
        BY <1>1, <3>1 DEF IsIso
      <4>3. 0 \in D
        BY <1>1, <4>2
      <4>4. v[0] \in Int \X Int
        BY <1>11, <3>1, <4>3
      <4>5. v \in [0 .. 1 - 1 -> Int \X Int]
        BY <4>1, <4>4
      <4>6. QED
        BY <3>1, <4>5
    <3>2. CASE ~IsIso
      <4>1. IsFunctionOn(v, D)
        BY <1>3, <3>2 DEF OutputInv, v
      <4>2. v \in [D -> Int \X Int]
        BY <1>11, <3>2, <4>1 DEF IsFunctionOn
      <4>3. NnzOut <= NnzOut
        BY <1>1
      <4>4. QED
        BY <1>1, <4>2, <4>3
    <3>3. QED
      BY <3>1, <3>2
  <2>2. ASSUME NEW f \in {"indices_0", "indices_1", "pointers_to_1"}
        PROVE  \E l \in Nat : m[f].data \in [0 .. l - 1 -> -1 .. Base * Base - 1]
    <3> DEFINE b == Base * Base
    <3>1. b \in Nat /\ A.ncols <= b /\ A.nrows <= b
      BY <1>1, WideCap
    <3> HIDE DEF b
    <3>2. 0 .. A.ncols - 1 \subseteq -1 .. b - 1 /\ 0 .. A.nrows - 1 \subseteq -1 .. b - 1
      BY <1>1, <3>1
    <3> DEFINE B == -1 .. b - 1
    <3> HIDE DEF B
    <3>3. x \in [D -> B] /\ y \in [D -> B]
      BY <1>5, <1>6, <1>11, <3>2 DEF IsFunctionOn, B
    <3>4. CASE f = "indices_0"
      BY <1>1, <1>4, <3>3, <3>4 DEF B, b
    <3>5. CASE f = "indices_1"
      BY <1>1, <1>4, <3>3, <3>5 DEF B, b
    <3>6. CASE f = "pointers_to_1"
      <4>1. m[f].data = [k \in {} |-> Junk] /\ 0 .. 0 - 1 = {}
        BY <1>4, <3>6 DEF Absent, Indexes
      <4>2. m[f].data \in [0 .. 0 - 1 -> B]
        BY <4>1
      <4>3. QED
        BY <4>2 DEF B, b
    <3>7. QED
      BY <3>4, <3>5, <3>6
  <2>3. m.format # "none"
    BY <1>4
  <2>4. QED
    BY <1>1, <1>4, <2>1, <2>2, <2>3, HasArraysIs
<1>13. QED
  BY <1>1, <1>10, <1>12 DEF m

--------------------------------------------------------------------------------
(* The minimiser leaves nothing wider than it need be.                        *)

\* A struct the minimiser has been through.
Reduced(m) ==
    /\ m.is_iso \/ Size(m.values.data) = 0 \/ ~AllEqual(m.values.data)
    /\ Size(m.values.data) > 0 => Narrowest(m.values)

\* The value of each place is one of A's, or an explicit zero.
LEMMA ValueDenoted ==
    ASSUME problem \in Problems, A.is_sparse, NEW m, Denotes(m), NEW k \in 0 .. NnzOut - 1
    PROVE  LET v == m.values.data[IF m.is_iso THEN 0 ELSE k]
           IN  \/ \E p \in DOMAIN A.values : v = A.values[p]
               \/ v = Zero /\ Nnz(Z) > 0
<1> DEFINE v == m.values.data[IF m.is_iso THEN 0 ELSE k]
<1>1. PICK x, y : EntriesAt(m, x, y) = ProblemEntries
  BY DEF Denotes
<1>2. PICK r, c : r = x[k] /\ c = y[k]
  OBVIOUS
<1>3. <<r, c, v>> \in ProblemEntries
  BY <1>1, <1>2 DEF EntriesAt
<1>4. /\ DOMAIN A.values = DOMAIN A.rowind
      /\ DOMAIN Z.rowind = 0 .. Nnz(Z) - 1 /\ Nnz(Z) \in Nat
  <2>1. IsMatlabMatrix(A) /\ IsMatlabMatrix(Z)
    BY SessionMatrices
  <2>2. QED
    BY <2>1, MatrixFacts DEF IsMatlabMatrix
<1> HIDE DEF v
<1>5. CASE \E p \in DOMAIN A.rowind : <<r, c, v>> = <<A.rowind[p], ColumnOf(A, p), A.values[p]>>
  BY <1>4, <1>5 DEF v
<1>6. CASE \E p \in DOMAIN Z.rowind : <<r, c, v>> = <<Z.rowind[p], ColumnOf(Z, p), Zero>>
  BY <1>4, <1>6 DEF v
<1>7. QED
  BY <1>3, <1>5, <1>6 DEF ProblemEntries, PositionsOf

LEMMA FinalIs ==
    ASSUME problem \in Problems, A.is_sparse, NEW m, HasItsArrays(m), Denotes(m), Reduced(m)
    PROVE  Final(m)
<1> DEFINE v == m.values.data
<1> SUFFICES ASSUME m.nnz > 0 PROVE m.is_iso = IsIso /\ m.values.type = OutputType
  BY DEF Final
<1>1. /\ NnzOut \in Nat /\ NnzOut > 0 /\ Nnz(A) \in Nat /\ Nnz(Z) \in Nat
      /\ NnzOut = Nnz(A) + Nnz(Z) /\ DOMAIN A.values = 0 .. Nnz(A) - 1
      /\ \A p \in 0 .. Nnz(A) - 1 : A.values[p] \in Int \X Int
  <2>1. IsMatlabMatrix(A) /\ IsMatlabMatrix(Z)
    BY SessionMatrices
  <2>2. Nnz(A) \in Nat /\ Nnz(Z) \in Nat
    BY <2>1, MatrixFacts
  <2>3. A.values \in [0 .. Nnz(A) - 1 -> Int \X Int]
    BY <2>1 DEF IsMatlabMatrix
  <2>4. m.nnz = NnzOut
    BY DEF Denotes
  <2>5. QED
    BY <2>2, <2>3, <2>4 DEF NnzOut
<1>2. /\ Size(v) > 0 /\ m.is_iso \in BOOLEAN /\ (m.is_iso => IsIso)
      /\ DOMAIN v = (IF m.is_iso THEN {0} ELSE 0 .. NnzOut - 1)
  <2>1. IsArrayOf(Int \X Int, v)
    BY DEF HasItsArrays
  <2>2. m.is_iso \in BOOLEAN /\ (m.is_iso => IsIso)
        /\ DOMAIN v = (IF m.is_iso THEN {0} ELSE 0 .. NnzOut - 1)
    BY DEF HasItsArrays, Denotes
  <2>3. 0 \in DOMAIN v
    BY <1>1, <2>2
  <2>4. Size(v) > 0
    BY <2>1, <2>3, ArrayFacts
  <2>5. QED
    BY <2>2, <2>4
<1>3. \A k \in DOMAIN v :
         (\E p \in DOMAIN A.values : v[k] = A.values[p]) \/ (v[k] = Zero /\ Nnz(Z) > 0)
  <2>1. CASE m.is_iso
    <3>1. 0 \in 0 .. NnzOut - 1
      BY <1>1
    <3>2. QED
      BY <1>2, <2>1, <3>1, ValueDenoted
  <2>2. CASE ~m.is_iso
    BY <1>2, <2>2, ValueDenoted
  <2>3. QED
    BY <2>1, <2>2
<1> HIDE DEF v
<1>4. ASSUME IsIso, ~m.is_iso PROVE FALSE
  <2>1. \A k \in DOMAIN v : v[k] = IsoValueOfA
    <3> SUFFICES ASSUME NEW k \in DOMAIN v PROVE v[k] = IsoValueOfA
      OBVIOUS
    <3>1. CASE \E p \in DOMAIN A.values : v[k] = A.values[p]
      <4>1. PICK p \in DOMAIN A.values : v[k] = A.values[p]
        BY <3>1
      <4>2. A.values[p] = A.values[0]
        BY <1>4 DEF IsIso, AllEqual, Equal
      <4>3. QED
        BY <1>1, <4>1, <4>2 DEF IsoValueOfA
    <3>2. CASE v[k] = Zero /\ Nnz(Z) > 0
      BY <1>4, <3>2 DEF IsIso, Equal
    <3>3. QED
      BY <1>3, <3>1, <3>2
  <2>2. 0 \in DOMAIN v
    BY <1>1, <1>2, <1>4
  <2>3. ASSUME NEW k \in DOMAIN v, k # 0 PROVE IsoValueOfA[1] # NaN /\ IsoValueOfA[2] # NaN
    <3>1. NnzOut > 1
      BY <1>1, <1>2, <1>4, <2>3
    <3>2. CASE Nnz(Z) > 0
      BY <1>4, <3>2 DEF IsIso, Equal
    <3>3. CASE Nnz(A) > 1
      <4>1. 1 \in DOMAIN A.values /\ IsoValueOfA = A.values[0]
        BY <1>1, <3>3 DEF IsoValueOfA
      <4>2. QED
        BY <1>4, <4>1 DEF IsIso, AllEqual, Equal
    <3>4. QED
      BY <1>1, <3>1, <3>2, <3>3
  <2>4. AllEqual(v)
    BY <2>1, <2>2, <2>3 DEF AllEqual, Equal
  <2>5. QED
    BY <1>2, <1>4, <2>4 DEF Reduced, v
<1>5. ASSUME m.values.type # OutputType PROVE FALSE
  <2>1. m.values.type = FullType /\ FullType # OutputType
    BY <1>5 DEF Denotes
  <2>2. AllFit(A.values) /\ FullType \in {"float64", "complex64"}
    BY <2>1 DEF OutputType, FullType
  <2>3. FitsFloat32(0)
    BY NumbersAssumption DEF FitsFloat32
  <2>4. AllFit(v)
    BY <1>3, <2>2, <2>3 DEF AllFit, Zero
  <2>5. QED
    BY <1>2, <2>1, <2>2, <2>4 DEF Reduced, Narrowest, v
<1>6. m.is_iso = IsIso
  BY <1>2, <1>4 DEF IsIso
<1>7. QED
  BY <1>5, <1>6

--------------------------------------------------------------------------------
(* The minimiser.                                                             *)

\* An array as a field of a struct.
MatlabArray(a) == [type |-> ClassOf(a.type), data |-> a.data]

\* The values are those of the argument.
ValuesKept(m, s) == m.is_iso = s.is_iso /\ m.values.data = s.values.data

\* The value of all is kept once.
OneValue(m, s) ==
    /\ s.is_iso = FALSE /\ Size(s.values.data) > 0 /\ AllEqual(s.values.data)
    /\ m.is_iso = TRUE
    /\ m.values.data = [k \in {0} |-> s.values.data[0]]

\* The matrix m when the fields in done of the struct s have been minimised, and
\* when the values have been looked through for a common one.
IsMinimizing(m, s, done, ended) ==
    /\ m = [f \in StructFields |-> m[f]]
    /\ m.format = s.format /\ m.nrows = s.nrows /\ m.ncols = s.ncols /\ m.nnz = s.nnz
    /\ done = {} => m = s
    /\ \A f \in IndexFields :
          /\ m[f].data = s[f].data
          /\ ClassOf(m[f].type) = m[f].type
          /\ f \in done /\ Size(m[f].data) > 0 => m[f].type = Pick(LargestOf(m[f].data))
    /\ TypeKept(ClassOf(m.values.type), s.values)
    /\ done # {} /\ Size(m.values.data) > 0 => Narrowest(MatlabArray(m.values))
    /\ ended = FALSE => ValuesKept(m, s) /\ ClassOf(m.values.type) = m.values.type
    /\ ended = TRUE =>
          \/ ValuesKept(m, s) /\ (s.is_iso \/ Size(s.values.data) = 0 \/ ~AllEqual(s.values.data))
          \/ OneValue(m, s)

\* The minimiser works on a copy of the struct, which stays as it is meanwhile.
MinimizeInv ==
    call = "minimize_types" =>
       /\ workspace # NoStruct /\ source = workspace
       /\ stage # "struct" => IsMinimizing(matrix, source, Done, FALSE)
       /\ stage = "struct" => IsMinimizing(matrix, source, Fields, TRUE)

LEMMA FieldReplaced ==
    ASSUME NEW m, m = [f \in StructFields |-> m[f]], NEW f \in StructFields, NEW a, NEW o,
           o = [m EXCEPT ![f] = a]
    PROVE  /\ o = [g \in StructFields |-> o[g]] /\ o[f] = a
           /\ \A g \in StructFields \ {f} : o[g] = m[g]
<1>1. DOMAIN m = StructFields
  OBVIOUS
<1>2. o = [g \in StructFields |-> IF g = f THEN a ELSE m[g]]
  BY <1>1
<1>3. QED
  BY <1>2

LEMMA FieldNames ==
    /\ StructFields = {"format", "nrows", "ncols", "nnz", "is_iso", "values"} \cup IndexFields
    /\ Fields = {"values"} \cup IndexFields /\ "values" \notin IndexFields
    /\ "format" \notin IndexFields /\ "nrows" \notin IndexFields /\ "ncols" \notin IndexFields
    /\ "nnz" \notin IndexFields /\ "is_iso" \notin IndexFields
  BY DEF StructFields, Fields, IndexFields

LEMMA MatlabArrayIs ==
    ASSUME NEW a, ClassOf(a.type) = a.type
    PROVE  Narrowest(MatlabArray(a)) <=> Narrowest(a)
  BY DEF MatlabArray, Narrowest

LEMMA MinimizingBegins ==
    ASSUME NEW s, IsStruct(s) PROVE IsMinimizing(s, s, {}, FALSE)
<1>1. /\ s = [f \in StructFields |-> s[f]] /\ ClassOf(s.values.type) = s.values.type
      /\ \A f \in IndexFields : ClassOf(s[f].type) = s[f].type
  BY FieldNames DEF IsStruct, HasItsArrays
<1>2. TypeKept(s.values.type, s.values)
  BY DEF TypeKept
<1>3. QED
  BY <1>1, <1>2 DEF IsMinimizing, ValuesKept

LEMMA ValuesMinimized ==
    ASSUME NEW s, IsStruct(s), NEW m, IsMinimizing(m, s, {}, FALSE), NEW o,
           IF Size(m.values.data) = 0 \/ MinimalType(m.values) = m.values.type
           THEN o = m ELSE o = [m EXCEPT !["values"] = Minimized(m.values)]
    PROVE  IsMinimizing(o, s, {"values"}, FALSE)
<1>1. m = s /\ s = [f \in StructFields |-> s[f]] /\ ClassOf(s.values.type) = s.values.type
  BY FieldNames DEF IsMinimizing, IsStruct, HasItsArrays
<1>2. IsArrayOf(Int \X Int, s.values.data) /\ Size(s.values.data) \in Nat
  BY DEF IsStruct, HasItsArrays, IsArrayOf
<1>3. CASE Size(m.values.data) = 0 \/ MinimalType(m.values) = m.values.type
  <2>1. o = s
    BY <1>1, <1>3
  <2>2. Size(s.values.data) > 0 => Narrowest(s.values)
    BY <1>1, <1>2, <1>3, MinimizedIs
  <2>3. Size(s.values.data) > 0 => Narrowest(MatlabArray(s.values))
    BY <1>1, <2>2, MatlabArrayIs
  <2>4. "values" \notin IndexFields /\ {"values"} # {}
    BY FieldNames
  <2>5. QED
    BY <1>1, <2>1, <2>3, <2>4 DEF IsMinimizing
<1>4. CASE ~(Size(m.values.data) = 0 \/ MinimalType(m.values) = m.values.type)
  <2> DEFINE a == Minimized(s.values)
  <2>1. Size(s.values.data) > 0
    BY <1>1, <1>2, <1>4
  <2>2. /\ Narrowest(a) /\ a.data = s.values.data /\ a.type = MinimalType(s.values)
        /\ TypeKept(a.type, s.values) /\ ClassOf(a.type) = a.type
    BY <1>1, <1>2, <1>4, <2>1, MinimizedIs
  <2> HIDE DEF a
  <2>3. o = [s EXCEPT !["values"] = a] /\ "values" \in StructFields
    BY <1>1, <1>4, FieldNames DEF a
  <2>4. /\ o = [g \in StructFields |-> o[g]] /\ o.values = a
        /\ \A g \in StructFields \ {"values"} : o[g] = s[g]
    BY <1>1, <2>3, FieldReplaced
  <2>5. /\ o.format = s.format /\ o.nrows = s.nrows /\ o.ncols = s.ncols /\ o.nnz = s.nnz
        /\ o.is_iso = s.is_iso /\ \A f \in IndexFields : o[f] = s[f] /\ f # "values"
    BY <2>4, FieldNames
  <2>6. Narrowest(MatlabArray(o.values))
    BY <2>2, <2>4, MatlabArrayIs
  <2>7. \A f \in IndexFields : ClassOf(s[f].type) = s[f].type
    BY FieldNames DEF IsStruct
  <2>8. QED
    BY <2>2, <2>4, <2>5, <2>6, <2>7 DEF IsMinimizing, ValuesKept
<1>5. QED
  BY <1>3, <1>4

LEMMA IndicesMinimized ==
    ASSUME NEW s, IsStruct(s), NEW m, NEW done, done # {}, IsMinimizing(m, s, done, FALSE),
           NEW f \in IndexFields, NEW o,
           LET a == m[f]
               t == Pick(LargestOf(a.data))
           IN  IF Size(a.data) = 0 THEN o = m
               ELSE /\ \A k \in DOMAIN a.data : a.data[k] >= 0
                    /\ IF a.type = t THEN o = m ELSE o = [m EXCEPT ![f] = Converted(a, t)]
    PROVE  IsMinimizing(o, s, done \cup {f}, FALSE)
<1> DEFINE a == m[f]
           t == Pick(LargestOf(a.data))
<1>1. /\ IsArrayOf(Int, a.data) /\ Size(a.data) \in Nat
      /\ \A k \in DOMAIN a.data : a.data[k] < Base * Base
  <2>1. f \in Fields \ {"values"} /\ m[f].data = s[f].data
    BY FieldNames DEF IsMinimizing
  <2>2. QED
    BY <2>1 DEF IsStruct, HasItsArrays, IsArrayOf
<1>2. ASSUME o = m, Size(a.data) > 0 => a.type = t PROVE IsMinimizing(o, s, done \cup {f}, FALSE)
  <2>1. \A g \in IndexFields :
           /\ m[g].data = s[g].data /\ ClassOf(m[g].type) = m[g].type
           /\ g \in done \cup {f} /\ Size(m[g].data) > 0 => m[g].type = Pick(LargestOf(m[g].data))
    BY <1>2 DEF IsMinimizing
  <2>2. done \cup {f} # {}
    OBVIOUS
  <2> HIDE DEF a, t
  <2>3. QED
    BY <1>2, <2>1, <2>2, Zenon DEF IsMinimizing
<1>3. CASE Size(a.data) = 0 \/ a.type = t
  <2>1. o = m
    BY <1>3
  <2>2. Size(a.data) > 0 => a.type = t
    BY <1>1, <1>3
  <2> HIDE DEF a, t
  <2>3. QED
    BY <1>2, <2>1, <2>2
<1>4. CASE Size(a.data) # 0 /\ a.type # t
  <2>1. Size(a.data) > 0 /\ \A k \in DOMAIN a.data : a.data[k] >= 0
    BY <1>1, <1>4
  <2>2. \A k \in DOMAIN a.data : Stored(t, a.data[k]) = a.data[k]
    BY <1>1, <2>1, IndicesKept
  <2>3. a.data = [k \in DOMAIN a.data |-> a.data[k]]
    BY <1>1 DEF IsArrayOf
  <2> DEFINE b == Converted(a, t)
  <2>4. b.data = a.data /\ b.type = t
    <3>1. b.type = t /\ b.data = [k \in DOMAIN a.data |-> Stored(t, a.data[k])]
      BY DEF Converted, Indexes
    <3> HIDE DEF b, t
    <3>2. QED
      BY <2>2, <2>3, <3>1
  <2>5. ClassOf(t) = t
    BY DEF ClassOf, Pick
  <2>6. o = [m EXCEPT ![f] = b]
    BY <1>4
  <2> HIDE DEF a, b, t
  <2>7. f \in StructFields /\ m = [g \in StructFields |-> m[g]]
    BY FieldNames DEF IsMinimizing
  <2>8. /\ o = [g \in StructFields |-> o[g]] /\ o[f] = b
        /\ \A g \in StructFields \ {f} : o[g] = m[g]
    BY <2>6, <2>7, FieldReplaced
  <2>9. /\ o.format = m.format /\ o.nrows = m.nrows /\ o.ncols = m.ncols /\ o.nnz = m.nnz
        /\ o.is_iso = m.is_iso /\ o.values = m.values
        /\ \A g \in IndexFields \ {f} : o[g] = m[g]
    BY <2>8, FieldNames
  <2>10. o[f].data = m[f].data /\ o[f].type = t /\ t = Pick(LargestOf(o[f].data))
    BY <2>4, <2>8 DEF a, t
  <2>11. \A g \in IndexFields :
            /\ o[g].data = s[g].data /\ ClassOf(o[g].type) = o[g].type
            /\ g \in done \cup {f} /\ Size(o[g].data) > 0 =>
                  o[g].type = Pick(LargestOf(o[g].data))
    BY <2>5, <2>9, <2>10 DEF IsMinimizing
  <2>12. QED
    BY <2>8, <2>9, <2>11 DEF IsMinimizing, ValuesKept
<1>5. QED
  BY <1>3, <1>4

LEMMA IsoMinimized ==
    ASSUME NEW s, IsStruct(s), NEW m, NEW done, done # {}, IsMinimizing(m, s, done, FALSE), NEW o,
           LET a == m.values
               pattern == a.type \in IntegerTypes /\ a.data[0] = <<1, 0>>
           IN  IF m.is_iso \/ Size(a.data) = 0 \/ ~AllEqual(a.data) THEN o = m
               ELSE o = [m EXCEPT !.values = [type |-> IF pattern THEN "bint8" ELSE a.type,
                                              data |-> [k \in {0} |-> a.data[0]]],
                                  !.is_iso = TRUE]
    PROVE  IsMinimizing(o, s, done, TRUE)
<1> DEFINE a == m.values
           pattern == a.type \in IntegerTypes /\ a.data[0] = <<1, 0>>
<1>1. /\ m.is_iso = s.is_iso /\ a.data = s.values.data /\ ClassOf(a.type) = a.type
      /\ s.is_iso \in BOOLEAN
      /\ IsArrayOf(Int \X Int, s.values.data) /\ Size(s.values.data) \in Nat
  BY DEF IsMinimizing, ValuesKept, IsStruct, HasItsArrays, IsArrayOf
<1>2. CASE m.is_iso \/ Size(a.data) = 0 \/ ~AllEqual(a.data)
  BY <1>1, <1>2 DEF IsMinimizing, ValuesKept
<1>3. CASE ~(m.is_iso \/ Size(a.data) = 0 \/ ~AllEqual(a.data))
  <2> DEFINE w == [k \in {0} |-> a.data[0]]
             u == IF pattern THEN "bint8" ELSE a.type
             v == [type |-> u, data |-> w]
             n == [m EXCEPT !["values"] = v]
  <2>1. /\ s.is_iso = FALSE /\ Size(s.values.data) > 0 /\ AllEqual(s.values.data)
    BY <1>1, <1>3
  <2>2. o = [n EXCEPT !["is_iso"] = TRUE]
    BY <1>3
  <2>3. v.type = u /\ v.data = w
    OBVIOUS
  <2>4. (u = "bint8" /\ a.type \in IntegerTypes) \/ u = a.type
    OBVIOUS
  <2>5. w = [k \in {0} |-> s.values.data[0]]
    BY <1>1
  <2> HIDE DEF u, v, w
  <2>6. "values" \in StructFields /\ "is_iso" \in StructFields /\ m = [g \in StructFields |-> m[g]]
    BY FieldNames DEF IsMinimizing
  <2>7. /\ n = [g \in StructFields |-> n[g]] /\ n["values"] = v
        /\ \A g \in StructFields \ {"values"} : n[g] = m[g]
    BY <2>6, FieldReplaced
  <2> HIDE DEF n
  <2>8. /\ o = [g \in StructFields |-> o[g]] /\ o["is_iso"] = TRUE
        /\ \A g \in StructFields \ {"is_iso"} : o[g] = n[g]
    BY <2>2, <2>6, <2>7, FieldReplaced
  <2>9. /\ o.format = m.format /\ o.nrows = m.nrows /\ o.ncols = m.ncols /\ o.nnz = m.nnz
        /\ o.is_iso = TRUE /\ o.values = v
        /\ \A g \in IndexFields : o[g] = m[g]
    BY <2>7, <2>8, FieldNames
  <2>10. OneValue(o, s)
    BY <2>1, <2>3, <2>5, <2>9 DEF OneValue
  <2>11. TypeKept(ClassOf(u), s.values)
    <3>1. TypeKept(ClassOf(a.type), s.values)
      BY DEF IsMinimizing
    <3>2. CASE u = a.type
      BY <3>1, <3>2
    <3>3. CASE u = "bint8" /\ a.type \in IntegerTypes
      <4>1. ClassOf(u) = "narrow" /\ a.type \in IntegerTypes
        BY <3>3 DEF ClassOf
      <4>2. TypeKept(a.type, s.values)
        BY <1>1, <3>1
      <4>3. s.values.type \in IntegerTypes
        BY <4>1, <4>2 DEF TypeKept, IntegerTypes
      <4>4. QED
        BY <4>1, <4>3 DEF TypeKept, IntegerTypes
    <3>4. QED
      BY <2>4, <3>2, <3>3
  <2>12. Narrowest(MatlabArray(v))
    <3>1. Size(a.data) > 0
      BY <1>1, <2>1
    <3>2. Narrowest(a)
      BY <1>1, <3>1, MatlabArrayIs DEF IsMinimizing
    <3>3. 0 \in DOMAIN a.data /\ \A k \in DOMAIN a.data : a.data[k] = a.data[0]
      <4>1. 0 \in DOMAIN s.values.data
        BY <1>1, <2>1, ArrayFacts
      <4>2. QED
        BY <1>1, <2>1, <4>1 DEF AllEqual, Equal
    <3> DEFINE x == MatlabArray(v)
    <3>4. x.type = ClassOf(u) /\ x.data = w /\ DOMAIN w = {0} /\ w[0] = a.data[0]
      BY <2>3 DEF MatlabArray, w
    <3>5. (ClassOf(u) = "narrow") \/ ClassOf(u) = a.type
      BY <1>1, <2>4 DEF ClassOf
    <3> HIDE DEF x, a
    <3>6. AllFit(x.data) => AllFit(a.data)
      BY <3>3, <3>4 DEF AllFit
    <3>7. ASSUME a.type = "int_wide"
          PROVE  \E k \in DOMAIN x.data : x.data[k][1] \notin -(Base \div 2) .. (Base \div 2) - 1
      BY <3>2, <3>3, <3>4, <3>7 DEF Narrowest
    <3>8. Narrowest(x)
      BY <3>2, <3>4, <3>5, <3>6, <3>7 DEF Narrowest
    <3>9. QED
      BY <3>8 DEF x
  <2>13. QED
    BY <2>3, <2>8, <2>9, <2>10, <2>11, <2>12 DEF IsMinimizing
<1>4. QED
  BY <1>2, <1>3

--------------------------------------------------------------------------------
(* What the minimiser returns.                                                *)

\* The claim of MinimizedFaithful about the struct o that it made from s.
MinimizedFrom(o, s) ==
    /\ \A f \in IndexFields : o[f].data = s[f].data
    /\ \A k \in 0 .. s.nnz - 1 : ValueAt(o, k) = ValueAt(s, k)
    /\ o.is_iso \/ Size(o.values.data) = 0 \/ ~AllEqual(o.values.data)
    /\ Size(o.values.data) > 0 => Narrowest(o.values)
    /\ \A f \in IndexFields :
          Size(o[f].data) > 0 => o[f].type = Pick(LargestOf(o[f].data))

LEMMA OneValueFacts ==
    ASSUME NEW s, IsStruct(s), NEW m, OneValue(m, s)
    PROVE  /\ \A k \in DOMAIN s.values.data : s.values.data[k] = s.values.data[0]
           /\ 0 \in DOMAIN s.values.data
           /\ m.values.data[0] = s.values.data[0] /\ DOMAIN m.values.data = {0}
           /\ m.values.data \in [0 .. 1 - 1 -> Int \X Int]
<1>1. IsArrayOf(Int \X Int, s.values.data)
  BY DEF IsStruct, HasItsArrays
<1>2. 0 \in DOMAIN s.values.data /\ s.values.data[0] \in Int \X Int
  BY <1>1, ArrayFacts DEF OneValue
<1>3. \A k \in DOMAIN s.values.data : s.values.data[k] = s.values.data[0]
  BY <1>2 DEF OneValue, AllEqual, Equal
<1>4. m.values.data = [k \in {0} |-> s.values.data[0]] /\ 0 .. 1 - 1 = {0}
  BY DEF OneValue
<1>5. QED
  BY <1>2, <1>3, <1>4

LEMMA MinimizedHasItsArrays ==
    ASSUME NEW s, IsStruct(s), NEW m, NEW done, done # {}, IsMinimizing(m, s, done, TRUE)
    PROVE  HasItsArrays(m)
<1>1. /\ m = [f \in StructFields |-> m[f]] /\ m.format # "none" /\ m.nnz \in Nat /\ m.nnz = s.nnz
  BY DEF IsMinimizing, IsStruct, HasItsArrays
<1>2. ASSUME NEW f \in Fields \ {"values"}
      PROVE  IsArrayOf(Int, m[f].data) /\ \A k \in DOMAIN m[f].data : m[f].data[k] < Base * Base
  <2>1. m[f].data = s[f].data
    BY FieldNames DEF IsMinimizing
  <2>2. QED
    BY <2>1 DEF IsStruct, HasItsArrays
<1>3. CASE ValuesKept(m, s)
  <2>1. m.is_iso \in BOOLEAN /\ IsArrayOf(Int \X Int, m.values.data)
        /\ (~m.is_iso => m.nnz <= Size(m.values.data))
    BY <1>1, <1>3 DEF ValuesKept, IsStruct, HasItsArrays
  <2>2. QED
    BY <1>1, <1>2, <2>1 DEF HasItsArrays
<1>4. CASE OneValue(m, s)
  <2>1. IsArrayOf(Int \X Int, m.values.data)
    BY <1>4, OneValueFacts, ArrayHas
  <2>2. m.is_iso = TRUE
    BY <1>4 DEF OneValue
  <2>3. QED
    BY <1>1, <1>2, <2>1, <2>2 DEF HasItsArrays
<1>5. QED
  BY <1>3, <1>4 DEF IsMinimizing

LEMMA MinimizedReturns ==
    ASSUME NEW s, IsStruct(s), NEW m, NEW done, IndexFields \subseteq done,
           IsMinimizing(m, s, done, TRUE)
    PROVE  /\ HasItsArrays(m)
           /\ MinimizedFrom(MatlabStruct(m), s) /\ Reduced(MatlabStruct(m))
<1> DEFINE o == MatlabStruct(m)
<1>0. done # {}
  BY DEF IndexFields
<1>1. HasItsArrays(m)
  BY <1>0, MinimizedHasItsArrays
<1>2. /\ o.is_iso = m.is_iso /\ o.nnz = m.nnz
      /\ \A f \in Fields : o[f].data = m[f].data /\ o[f].type = ClassOf(m[f].type)
      /\ "values" \in Fields /\ IndexFields \subseteq Fields
  BY <1>1, MatlabStructIs, FieldNames
<1> HIDE DEF o
<1>3. /\ o.values.data = m.values.data /\ o.values.type = ClassOf(m.values.type)
  BY <1>2
<1>4. /\ s.is_iso \in BOOLEAN /\ (~s.is_iso => s.nnz <= Size(s.values.data))
      /\ IsArrayOf(Int \X Int, s.values.data) /\ s.nnz \in Nat
  BY DEF IsStruct, HasItsArrays
<1>5. \A f \in IndexFields :
         /\ o[f].data = s[f].data
         /\ Size(o[f].data) > 0 => o[f].type = Pick(LargestOf(o[f].data))
  BY <1>2 DEF IsMinimizing
<1>6. Size(o.values.data) > 0 => Narrowest(o.values)
  <2>1. Narrowest(MatlabArray(m.values)) => Narrowest(o.values)
    BY <1>3 DEF Narrowest, MatlabArray
  <2>2. QED
    BY <1>0, <1>3, <2>1 DEF IsMinimizing
<1>7. /\ o.is_iso \/ Size(o.values.data) = 0 \/ ~AllEqual(o.values.data)
      /\ \A k \in 0 .. s.nnz - 1 : ValueAt(o, k) = ValueAt(s, k)
  <2>1. CASE ValuesKept(m, s) /\ (s.is_iso \/ Size(s.values.data) = 0 \/ ~AllEqual(s.values.data))
    BY <1>2, <1>3, <2>1 DEF ValuesKept, ValueAt
  <2>2. CASE OneValue(m, s)
    <3>1. o.is_iso = TRUE /\ s.is_iso = FALSE
      BY <1>2, <2>2 DEF OneValue
    <3>2. \A k \in 0 .. s.nnz - 1 : s.values.data[k] = s.values.data[0]
      <4>1. \A k \in 0 .. s.nnz - 1 : k \in DOMAIN s.values.data
        BY <1>4, <3>1, ArrayFacts
      <4>2. QED
        BY <2>2, <4>1, OneValueFacts
    <3>3. o.values.data[0] = s.values.data[0]
      BY <1>3, <2>2, OneValueFacts
    <3>4. QED
      BY <3>1, <3>2, <3>3 DEF ValueAt
  <2>3. QED
    BY <2>1, <2>2 DEF IsMinimizing
<1>8. QED
  BY <1>1, <1>5, <1>6, <1>7 DEF MinimizedFrom, Reduced, o

\* An entry of A, or an explicit zero, is in a place of the struct.
LEMMA PlaceDenoted ==
    ASSUME NEW s, Denotes(s)
    PROVE  \E x, y : \A e \in ProblemEntries : \E k \in 0 .. NnzOut - 1 :
              e = <<x[k], y[k], s.values.data[IF s.is_iso THEN 0 ELSE k]>>
<1>1. PICK x, y : EntriesAt(s, x, y) = ProblemEntries
  BY DEF Denotes
<1>2. QED
  BY <1>1 DEF EntriesAt

\* Two entries of A are in two positions.
LEMMA EntriesApart ==
    ASSUME IsMatlabMatrix(A), NEW p \in 0 .. Nnz(A) - 1, NEW q \in 0 .. Nnz(A) - 1,
           A.rowind[p] = A.rowind[q], ColumnOf(A, p) = ColumnOf(A, q)
    PROVE  p = q
<1>1. Nnz(A) \in Nat /\ A.ncols \in Nat /\ p \in Nat /\ q \in Nat
  BY MatrixFacts
<1>2. PICK c \in 0 .. A.ncols - 1 : IsColumn(A, p, c)
  BY <1>1, ColumnExists
<1>3. PICK d \in 0 .. A.ncols - 1 : IsColumn(A, q, d)
  BY <1>1, ColumnExists
<1>4. c = ColumnOf(A, p)
  BY <1>1, <1>2, ColumnUnique
<1>5. d = ColumnOf(A, q)
  BY <1>1, <1>3, ColumnUnique
<1>6. c = d
  BY <1>4, <1>5
<1>7. p \in A.colptr[c] .. A.colptr[c + 1] - 1 /\ q \in A.colptr[c] .. A.colptr[c + 1] - 1
  <2>1. A.colptr[c] \in Nat /\ A.colptr[c + 1] \in Nat
    <3>1. c \in 0 .. A.ncols /\ c + 1 \in 0 .. A.ncols
      BY <1>1
    <3>2. QED
      BY <3>1, MatrixFacts
  <2>2. QED
    BY <1>1, <1>2, <1>3, <1>6, <2>1 DEF IsColumn
<1>8. A.rowind[p] \in Int /\ A.rowind[q] \in Int
  BY <1>1, MatrixFacts
<1>9. p < q => A.rowind[p] < A.rowind[q]
  BY <1>7 DEF IsMatlabMatrix
<1>10. q < p => A.rowind[q] < A.rowind[p]
  BY <1>7 DEF IsMatlabMatrix
<1>11. QED
  BY <1>1, <1>8, <1>9, <1>10

LEMMA OneValueIsIso ==
    ASSUME problem \in Problems, A.is_sparse, NEW s, IsStruct(s), Denotes(s), NEW m, OneValue(m, s)
    PROVE  IsIso
<1>0. PICK x, y : \A e \in ProblemEntries : \E k \in 0 .. NnzOut - 1 :
              e = <<x[k], y[k], s.values.data[IF s.is_iso THEN 0 ELSE k]>>
  BY PlaceDenoted
<1> DEFINE v == s.values.data
           r(k) == x[k]
           c(k) == y[k]
<1>1. /\ IsMatlabMatrix(A) /\ IsMatlabMatrix(Z)
  BY SessionMatrices
<1>2. Nnz(A) \in Nat /\ DOMAIN A.rowind = 0 .. Nnz(A) - 1
  BY <1>1, MatrixFacts
<1>3. Nnz(Z) \in Nat /\ DOMAIN Z.rowind = 0 .. Nnz(Z) - 1
  BY <1>1, MatrixFacts
<1>4. DOMAIN A.values = 0 .. Nnz(A) - 1
  BY <1>1 DEF IsMatlabMatrix
<1>5. /\ \A k \in DOMAIN v : v[k] = v[0]
      /\ 0 \in DOMAIN v /\ DOMAIN v = 0 .. NnzOut - 1 /\ NnzOut > 0
  <2>1. (\A k \in DOMAIN v : v[k] = v[0]) /\ 0 \in DOMAIN v
    BY OneValueFacts
  <2>2. DOMAIN v = 0 .. NnzOut - 1
    BY DEF OneValue, Denotes
  <2>3. NnzOut \in Nat
    BY <1>2, <1>3 DEF NnzOut
  <2> HIDE DEF v
  <2>4. QED
    BY <2>1, <2>2, <2>3
<1>6. ASSUME NEW e \in ProblemEntries
      PROVE  \E k \in DOMAIN v : e = <<r(k), c(k), v[k]>>
  <2>1. s.is_iso = FALSE
    BY DEF OneValue
  <2>2. \E k \in 0 .. NnzOut - 1 : e = <<r(k), c(k), s.values.data[IF s.is_iso THEN 0 ELSE k]>>
    BY <1>0
  <2>3. QED
    BY <1>5, <2>1, <2>2
<1> HIDE DEF r, c
<1>7. ASSUME NEW k \in DOMAIN v, k # 0 PROVE v[0][1] # NaN /\ v[0][2] # NaN
  BY <1>5, <1>7 DEF OneValue, AllEqual, Equal
<1> HIDE DEF v
<1>8. ASSUME NEW p \in 0 .. Nnz(A) - 1
      PROVE  \E k \in DOMAIN v : A.rowind[p] = r(k) /\ ColumnOf(A, p) = c(k) /\ A.values[p] = v[k]
  <2>1. <<A.rowind[p], ColumnOf(A, p), A.values[p]>> \in ProblemEntries
    BY <1>2 DEF ProblemEntries
  <2>2. PICK k \in DOMAIN v : <<A.rowind[p], ColumnOf(A, p), A.values[p]>> = <<r(k), c(k), v[k]>>
    BY <1>6, <2>1
  <2>3. QED
    BY <2>2
<1>9. \A p \in 0 .. Nnz(A) - 1 : A.values[p] = v[0]
  BY <1>5, <1>8
<1>10. AllEqual(A.values)
  <2> SUFFICES ASSUME NEW p \in 0 .. Nnz(A) - 1, p # 0 PROVE Equal(A.values[p], A.values[0])
    BY <1>4 DEF AllEqual
  <2>1. 0 \in 0 .. Nnz(A) - 1
    BY <1>2
  <2>2. PICK k \in DOMAIN v : A.rowind[p] = r(k) /\ ColumnOf(A, p) = c(k)
    BY <1>8
  <2>3. PICK l \in DOMAIN v : A.rowind[0] = r(l) /\ ColumnOf(A, 0) = c(l)
    BY <1>8, <2>1
  <2>4. k # l
    <3>1. ASSUME k = l PROVE A.rowind[p] = A.rowind[0] /\ ColumnOf(A, p) = ColumnOf(A, 0)
      BY <2>2, <2>3, <3>1
    <3>2. QED
      BY <1>1, <2>1, <3>1, EntriesApart
  <2>5. v[0][1] # NaN /\ v[0][2] # NaN
    BY <1>7, <2>4
  <2>6. A.values[p] = v[0] /\ A.values[0] = v[0]
    BY <1>9, <2>1
  <2>7. QED
    BY <2>5, <2>6 DEF Equal
<1>11. ASSUME Nnz(Z) > 0 PROVE Equal(IsoValueOfA, Zero)
  <2>1. 0 \in DOMAIN Z.rowind
    BY <1>3, <1>11
  <2>2. <<Z.rowind[0], ColumnOf(Z, 0), Zero>> \in ProblemEntries
    <3>1. <<Z.rowind[0], ColumnOf(Z, 0)>> \in PositionsOf(Z)
      BY <2>1 DEF PositionsOf
    <3>2. QED
      BY <3>1 DEF ProblemEntries
  <2>3. PICK k \in DOMAIN v : <<Z.rowind[0], ColumnOf(Z, 0), Zero>> = <<r(k), c(k), v[k]>>
    BY <1>6, <2>2
  <2>4. v[0] = Zero
    BY <1>5, <2>3
  <2>5. IsoValueOfA = Zero
    BY <1>2, <1>9, <2>4 DEF IsoValueOfA
  <2>6. Zero[1] # NaN /\ Zero[2] # NaN
    BY NumbersAssumption DEF Zero
  <2>7. QED
    BY <2>5, <2>6 DEF Equal
<1>12. QED
  BY <1>5, <1>10, <1>11 DEF IsIso, NnzOut

\* The minimiser narrows only types that are wide for A as well.
LEMMA TypeDenoted ==
    ASSUME problem \in Problems, A.is_sparse, NEW s, Denotes(s), NEW t, TypeKept(t, s.values)
    PROVE  t \in {OutputType, FullType}
<1>1. s.values.type \in {OutputType, FullType}
  BY DEF Denotes
<1>2. s.values.type \notin IntegerTypes
  BY <1>1, ValueTypes DEF IntegerTypes
<1>3. ASSUME AllFit(s.values.data) PROVE AllFit(A.values)
  <2>1. IsMatlabMatrix(A)
    BY ProblemsAssumption DEF A
  <2>2. DOMAIN A.values = 0 .. Nnz(A) - 1 /\ DOMAIN A.rowind = 0 .. Nnz(A) - 1
    BY <2>1, MatrixFacts DEF IsMatlabMatrix
  <2>3. ASSUME NEW p \in DOMAIN A.values
        PROVE  FitsFloat32(A.values[p][1]) /\ FitsFloat32(A.values[p][2])
    <3>0. PICK x, y : \A e \in ProblemEntries : \E k \in 0 .. NnzOut - 1 :
              e = <<x[k], y[k], s.values.data[IF s.is_iso THEN 0 ELSE k]>>
      BY PlaceDenoted
    <3>1. <<A.rowind[p], ColumnOf(A, p), A.values[p]>> \in ProblemEntries
      BY <2>2 DEF ProblemEntries
    <3>2. PICK k \in 0 .. NnzOut - 1 :
             <<A.rowind[p], ColumnOf(A, p), A.values[p]>>
                = <<x[k], y[k], s.values.data[IF s.is_iso THEN 0 ELSE k]>>
      BY <3>0, <3>1
    <3>3. A.values[p] = s.values.data[IF s.is_iso THEN 0 ELSE k]
      BY <3>2
    <3>4. (IF s.is_iso THEN 0 ELSE k) \in DOMAIN s.values.data
      BY DEF Denotes
    <3>5. QED
      BY <1>3, <3>3, <3>4 DEF AllFit
  <2>4. QED
    BY <2>3 DEF AllFit
<1>4. CASE t = s.values.type
  BY <1>1, <1>4
<1>5. CASE s.values.type = "float64" /\ AllFit(s.values.data) /\ t = "float32"
  <2>1. AllFit(A.values)
    BY <1>3, <1>5
  <2>2. ~A.is_complex
    BY <1>1, <1>5 DEF OutputType, FullType
  <2>3. QED
    BY <1>5, <2>1, <2>2 DEF OutputType
<1>6. CASE s.values.type = "complex64" /\ AllFit(s.values.data) /\ t = "complex32"
  <2>1. AllFit(A.values)
    BY <1>3, <1>6
  <2>2. A.is_complex
    BY <1>1, <1>6 DEF OutputType, FullType
  <2>3. QED
    BY <1>6, <2>1, <2>2 DEF OutputType
<1>7. QED
  BY <1>2, <1>4, <1>5, <1>6 DEF TypeKept

\* The minimised struct holds what its argument did.
LEMMA MinimizedDenotes ==
    ASSUME problem \in Problems, A.is_sparse, NEW s, IsStruct(s), Denotes(s),
           NEW m, NEW done, done # {}, IsMinimizing(m, s, done, TRUE)
    PROVE  Denotes(MatlabStruct(m))
<1> DEFINE o == MatlabStruct(m)
<1>1. HasItsArrays(m)
  BY MinimizedHasItsArrays
<1>2. /\ o.format = m.format /\ o.ncols = m.ncols /\ o.nnz = m.nnz /\ o.is_iso = m.is_iso
      /\ o.nrows = m.nrows
      /\ \A f \in Fields : o[f].data = m[f].data /\ o[f].type = ClassOf(m[f].type)
      /\ "values" \in Fields /\ IndexFields \subseteq Fields
  BY <1>1, MatlabStructIs, FieldNames
<1> HIDE DEF o
<1>3. /\ o.format = s.format /\ o.ncols = s.ncols /\ o.nnz = s.nnz /\ o.nrows = s.nrows
      /\ o.values.data = m.values.data /\ o.values.type = ClassOf(m.values.type)
      /\ \A f \in IndexFields : o[f].data = s[f].data
  BY <1>2 DEF IsMinimizing
<1>4. o.values.type \in {OutputType, FullType}
  BY <1>3, TypeDenoted DEF IsMinimizing
<1>5. CASE ValuesKept(m, s)
  <2>1. \A f \in Fields : o[f].data = s[f].data
    BY <1>3, <1>5, FieldNames DEF ValuesKept
  <2>2. QED
    BY <1>2, <1>3, <1>4, <1>5, <2>1, DenotesSame DEF ValuesKept, o
<1>6. CASE OneValue(m, s)
  <2>1. /\ o.is_iso = TRUE /\ s.is_iso = FALSE /\ DOMAIN o.values.data = {0}
        /\ o.values.data[0] = s.values.data[0]
        /\ \A k \in DOMAIN s.values.data : s.values.data[k] = s.values.data[0]
    <3>1. o.is_iso = TRUE /\ s.is_iso = FALSE
      BY <1>2, <1>6 DEF OneValue
    <3>2. /\ \A k \in DOMAIN s.values.data : s.values.data[k] = s.values.data[0]
          /\ m.values.data[0] = s.values.data[0] /\ DOMAIN m.values.data = {0}
      BY <1>6, OneValueFacts
    <3>3. o.values.data = m.values.data
      BY <1>3
    <3>4. QED
      BY <3>1, <3>2, <3>3
  <2>2. /\ o.indices_0.data = s.indices_0.data /\ o.indices_1.data = s.indices_1.data
        /\ o.pointers_to_1.data = s.pointers_to_1.data
    BY <1>3 DEF IndexFields
  <2>4. DOMAIN s.indices_1.data = 0 .. NnzOut - 1 /\ DOMAIN s.values.data = 0 .. NnzOut - 1
        /\ s.format \in SparseFormats
    BY <2>1 DEF Denotes
  <2> DEFINE e(w, k) == w.values.data[IF w.is_iso THEN 0 ELSE k]
  <2>5. \A k \in 0 .. NnzOut - 1 : e(o, k) = e(s, k)
    BY <2>1, <2>4
  <2>6. \A x, y : EntriesAt(o, x, y) = EntriesAt(s, x, y)
    <3> TAKE x, y
    <3>1. /\ EntriesAt(o, x, y) = {<<x[k], y[k], e(o, k)>> : k \in 0 .. NnzOut - 1}
          /\ EntriesAt(s, x, y) = {<<x[k], y[k], e(s, k)>> : k \in 0 .. NnzOut - 1}
      BY DEF EntriesAt
    <3> HIDE DEF e
    <3>2. QED
      BY <2>5, <3>1
  <2>8. StructEntries(o) = StructEntries(s)
    BY <1>3, <2>4, <2>5, EntriesSame
  <2>9. IsIso
    BY <1>6, OneValueIsIso
  <2>10. Denotes(o)
    BY <1>3, <1>4, <2>1, <2>2, <2>4, <2>6, <2>8, <2>9 DEF Denotes
  <2>11. QED
    BY <2>10 DEF o
<1>7. QED
  BY <1>5, <1>6 DEF IsMinimizing

--------------------------------------------------------------------------------
(* The struct in the workspace.                                               *)

\* In a session without a struct made by hand, a sparse struct holds the problem.
StructHolds(m) ==
    /\ m = NoStruct \/ IsStruct(m)
    /\ problem.struct = NoStruct /\ m.format \in SparseFormats => A.is_sparse /\ Denotes(m)

\* The struct holds the problem, and the minimiser leaves it reduced.
WorkspaceInv ==
    /\ StructHolds(workspace)
    /\ workspace = NoStruct => source = NoStruct
    /\ source # NoStruct /\ call # "minimize_types" => Reduced(workspace)

LEMMA NoStructFormat ==
    /\ NoStruct.format = "none" /\ "none" \notin SparseFormats
    /\ \A m : HasItsArrays(m) => m # NoStruct
<1>1. NoStruct.format = "none" /\ "none" \notin SparseFormats
  BY DEF NoStruct, SparseFormats
<1>2. QED
  BY <1>1 DEF HasItsArrays

LEMMA DenotesStays ==
    ASSUME UNCHANGED problem, NEW m PROVE Denotes(m)' <=> Denotes(m)
<1>1. NnzOut' = NnzOut /\ ProblemEntries' = ProblemEntries
  BY SameProblem DEF ProblemEntries, PositionsOf
<1>2. IsIso' = IsIso /\ OutputType' = OutputType /\ FullType' = FullType
  BY DEF IsIso, OutputType, FullType, IsoValueOfA, A, Z, NoZeros, Nnz
<1>3. PointersWrap' <=> PointersWrap
  BY <1>2, SameProblem DEF PointersWrap, Nnz
<1>4. \A x, y : EntriesAt(m, x, y)' = EntriesAt(m, x, y)
  BY <1>1 DEF EntriesAt
<1>5. StructEntries(m)' = StructEntries(m)
  BY DEF StructEntries, CscColumn, RowOf
<1>6. (\E x, y : EntriesAt(m, x, y) = ProblemEntries)'
         <=> \E x, y : EntriesAt(m, x, y) = ProblemEntries
  BY <1>1, <1>4
<1>7. QED
  BY <1>1, <1>2, <1>3, <1>5, <1>6 DEF Denotes

LEMMA StructStays ==
    ASSUME UNCHANGED problem, NEW m, StructHolds(m) PROVE StructHolds(m)'
<1>1. A' = A /\ (Denotes(m)' <=> Denotes(m))
  BY DenotesStays DEF A
<1>2. QED
  BY <1>1 DEF StructHolds

LEMMA WorkspaceSame ==
    ASSUME WorkspaceInv, UNCHANGED <<problem, workspace, source>>,
           call' # "minimize_types" => call # "minimize_types"
    PROVE  WorkspaceInv'
<1>1. StructHolds(workspace)'
  BY StructStays DEF WorkspaceInv
<1>2. QED
  BY <1>1 DEF WorkspaceInv

\* A new struct, which the minimiser has not been through.
LEMMA WorkspaceNew ==
    ASSUME UNCHANGED problem, StructHolds(workspace'), source' = NoStruct
    PROVE  WorkspaceInv'
<1>1. StructHolds(workspace)'
  BY StructStays
<1>2. QED
  BY <1>1 DEF WorkspaceInv

LEMMA DenseHas ==
    ASSUME problem \in Problems, ~A.is_sparse, target \in DenseFormats(A)
    PROVE  HasItsArrays(DenseMatrix) /\ DenseMatrix.format \notin SparseFormats
<1> DEFINE n == A.nrows * A.ncols
           r == IF IsVector(A) THEN A.nrows * A.ncols ELSE A.nrows
           c == IF IsVector(A) THEN 1 ELSE A.ncols
           v == [type |-> A.class, data |-> A.values]
           d == DenseMatrix
           b == FALSE
<1>1. target \in {"DVEC", "DMAT", "DMATC"}
  BY DEF DenseFormats
<1>2. n \in Nat /\ A.values \in [0 .. n - 1 -> Int \X Int]
  <2>1. IsMatlabMatrix(A)
    BY ProblemsAssumption DEF A
  <2>2. A.nrows \in Nat /\ A.ncols \in Nat
    BY <2>1, MatrixFacts
  <2>3. A.values \in [0 .. A.nrows * A.ncols - 1 -> Int \X Int]
    BY <2>1 DEF IsMatlabMatrix
  <2>4. \A x, y \in Nat : x * y \in Nat
    OBVIOUS
  <2>5. QED
    BY <2>2, <2>3, <2>4
<1>3. d = [format |-> target, nrows |-> r, ncols |-> c, nnz |-> n, is_iso |-> b, values |-> v,
           indices_0 |-> Absent, indices_1 |-> Absent, pointers_to_1 |-> Absent]
  BY DEF DenseMatrix
<1>4. v.data = A.values
  OBVIOUS
<1> HIDE DEF n, r, c, v, d, b
<1>5. /\ d = [f \in StructFields |-> d[f]] /\ d.format = target /\ d.nnz = n /\ d.is_iso = b
      /\ d.values = v /\ d.indices_0 = Absent /\ d.indices_1 = Absent /\ d.pointers_to_1 = Absent
  BY <1>3, StructIs
<1>6. IsArrayOf(Int \X Int, d.values.data) /\ Size(d.values.data) = n
  BY <1>2, <1>4, <1>5, ArrayHas
<1>7. \A f \in Fields \ {"values"} :
         IsArrayOf(Int, d[f].data) /\ \A k \in DOMAIN d[f].data : d[f].data[k] < Base * Base
  BY <1>5, AbsentArrays DEF Fields
<1>8. n <= Size(d.values.data) /\ d.format # "none" /\ d.format \notin SparseFormats
  BY <1>1, <1>2, <1>5, <1>6 DEF SparseFormats
<1>9. HasItsArrays(d)
  BY <1>2, <1>5, <1>6, <1>7, <1>8 DEF HasItsArrays, b
<1>10. QED
  BY <1>8, <1>9 DEF d

LEMMA SsmcWorkspace ==
    ASSUME problem \in Problems, CscInv, SsmcNext
    PROVE  \/ UNCHANGED <<workspace, source>>
           \/ source' = NoStruct /\ StructHolds(workspace')
<1>1. CASE SsmcDense
  <2>1. /\ ~A.is_sparse /\ target \in DenseFormats(A)
        /\ workspace' = MatlabStruct(DenseMatrix) /\ source' = NoStruct
    BY <1>1 DEF SsmcDense
  <2>2. HasItsArrays(DenseMatrix) /\ DenseMatrix.format \notin SparseFormats
    BY <2>1, DenseHas
  <2>3. IsStruct(workspace') /\ workspace'.format \notin SparseFormats
    BY <2>1, <2>2, MatlabStructIs
  <2>4. QED
    BY <2>1, <2>3 DEF StructHolds
<1>2. CASE SsmcReturn
  <2>1. /\ call = "from_ssmc" /\ stage = "convert" /\ source' = NoStruct
        /\ \/ workspace' = MatlabStruct(csc)
           \/ workspace' = MatlabStruct(CooOf(csc))
           \/ workspace' = MatlabStruct(CsrOf(CooOf(csc)))
    <3>1. /\ call = "from_ssmc" /\ stage = "convert" /\ source' = NoStruct
          /\ target \in {"CSC", "COO", "CSR"}
          /\ workspace' = MatlabStruct(CASE target = "CSC" -> csc
                                         [] target = "COO" -> CooOf(csc)
                                         [] target = "CSR" -> CsrOf(CooOf(csc)))
      BY <1>2 DEF SsmcReturn, Ssmc, At
    <3>2. CASE target = "CSC"
      BY <3>1, <3>2
    <3>3. CASE target = "COO"
      BY <3>1, <3>3
    <3>4. CASE target = "CSR"
      BY <3>1, <3>4
    <3>5. QED
      BY <3>1, <3>2, <3>3, <3>4
  <2>2. A.is_sparse /\ ZerosFit /\ CscShape /\ Merged(Nnz(A), Nnz(Z))
    BY <2>1 DEF CscInv, CscBegun
  <2>3. /\ HasItsArrays(csc) /\ Denotes(csc) /\ HasItsArrays(CooOf(csc)) /\ Denotes(CooOf(csc))
        /\ HasItsArrays(CsrOf(CooOf(csc))) /\ Denotes(CsrOf(CooOf(csc)))
    <3>1. SameShape(A, Z)
      BY <2>2, SessionMatrices
    <3>2. QED
      BY <2>2, <3>1, CscHasItsArrays, CscDenotes, CooDenotes, CsrDenotes
  <2>4. PICK m : workspace' = MatlabStruct(m) /\ HasItsArrays(m) /\ Denotes(m)
    BY <2>1, <2>3
  <2>5. IsStruct(MatlabStruct(m)) /\ Denotes(MatlabStruct(m))
    BY <2>4, MatlabStructIs, MatlabStructDenotes
  <2>6. QED
    BY <2>1, <2>2, <2>4, <2>5 DEF StructHolds
<1>3. CASE ~(SsmcDense \/ SsmcReturn)
  BY <1>3 DEF SsmcNext, SsmcCall, SsmcRefuse, SsmcAllocate, SsmcCopy, MergeA, MergeZ,
     MergeDuplicate, MergeColumn, MergeEnd, SsmcAborts, SsmcRaise, ssmcVars
<1>4. QED
  BY <1>1, <1>2, <1>3

LEMMA NotTheMinimizer ==
    ASSUME CooNext \/ SsmcNext \/ TextNext
    PROVE  call # "minimize_types" /\ call' # "minimize_types"
<1>1. CASE CooNext
  BY <1>1 DEF CooNext, CooCall, CooRefuse, CooCount, TakeA, TakeZ, NextColumn,
     CooDuplicate, CooScattered, CooOpen, CooOpenFails, CooValues, CooValuesFail,
     CooRowsDataset, CooRowsDatasetFails, SkipRow, FillRun, FlushChunk, FlushFails,
     CooColumns, CooColumnsFail, CooDescriptor, CooWriteArray, CooWriteArrayFails, CooFail,
     Enter, Raise, Leave, Proceed, mexVars, Coo, At, ChunkReady
<1>2. CASE SsmcNext
  BY <1>2 DEF SsmcNext, SsmcCall, SsmcDense, SsmcRefuse, SsmcAllocate, SsmcCopy, MergeA,
     MergeZ, MergeDuplicate, MergeColumn, MergeEnd, SsmcReturn, SsmcAborts, SsmcRaise, Ssmc,
     At, Enter, Raise, Leave, Proceed, mexVars
<1>3. CASE TextNext
  BY <1>3 DEF TextNext, WriteCall, ReadCall, EncodeText, EncodeTextFails, OpenForText,
     NameIsFree, DatasetExists, CreateType, CreateSpace, CreateDataset, WriteDataset,
     WriteDatasetFails, WriteTextFails, OpenToRead, NoFile, OpenDataset, MissingDataset,
     OpenType, OpenSpace, ReadTextFails, ReadMalformed, ReadText, TextFails,
     Open, CleanupAndRaise, Enter, Raise, Leave, Proceed, mexVars, Writing, Reading, At
<1>4. QED
  BY <1>1, <1>2, <1>3

--------------------------------------------------------------------------------
(* The minimiser's steps.                                                     *)

LEMMA OthersMinimize ==
    ASSUME MinimizeInv, call' # "minimize_types" PROVE MinimizeInv'
  BY DEF MinimizeInv

LEMMA MinCallStep == ASSUME WorkspaceInv, MinCall PROVE MinimizeInv' /\ WorkspaceInv'
<1>1. /\ workspace # NoStruct /\ source' = workspace /\ workspace' = workspace
      /\ matrix' = workspace /\ call' = "minimize_types" /\ stage' = "values" /\ UNCHANGED problem
  BY DEF MinCall, Enter
<1>2. IsStruct(workspace)
  BY <1>1 DEF WorkspaceInv, StructHolds
<1>3. IsMinimizing(workspace, workspace, {}, FALSE)
  BY <1>2, MinimizingBegins
<1>4. Done' = {}
  BY <1>1 DEF Done
<1>5. MinimizeInv'
  BY <1>1, <1>3, <1>4 DEF MinimizeInv
<1>6. StructHolds(workspace)'
  BY <1>1, StructStays DEF WorkspaceInv
<1>7. QED
  BY <1>1, <1>5, <1>6 DEF WorkspaceInv

LEMMA MinimizeSteps ==
    ASSUME WorkspaceInv, MinimizeInv,
           MinimizeValues \/ MinimizeIso \/ \E f \in IndexFields : MinimizeIndices(f)
    PROVE  MinimizeInv'
<1>1. /\ call = "minimize_types" /\ call' = "minimize_types"
      /\ workspace' = workspace /\ source' = source
  BY DEF MinimizeValues, MinimizeIso, MinimizeIndices, Minimizing, At, Proceed, ssmcVars
<1>2. workspace # NoStruct /\ source = workspace
  BY <1>1 DEF MinimizeInv
<1>3. IsStruct(source)
  BY <1>2 DEF WorkspaceInv, StructHolds
<1>4. CASE MinimizeValues
  <2>1. /\ stage = "values" /\ stage' = "indices_0"
        /\ IF Size(matrix.values.data) = 0 \/ MinimalType(matrix.values) = matrix.values.type
           THEN matrix' = matrix
           ELSE matrix' = [matrix EXCEPT !["values"] = Minimized(matrix.values)]
    BY <1>4 DEF MinimizeValues, Minimizing, At, Proceed, KeepMatrix, Replace
  <2>2. Done = {} /\ Done' = {"values"}
    BY <2>1 DEF Done
  <2>3. IsMinimizing(matrix, source, {}, FALSE)
    BY <1>1, <2>1, <2>2 DEF MinimizeInv
  <2>4. IsMinimizing(matrix', source, {"values"}, FALSE)
    BY <1>3, <2>1, <2>3, ValuesMinimized
  <2>5. QED
    BY <1>1, <1>2, <2>1, <2>2, <2>4 DEF MinimizeInv
<1>5. ASSUME NEW f \in IndexFields, MinimizeIndices(f) PROVE MinimizeInv'
  <2>1. /\ stage = f /\ stage' = After(f)
        /\ LET a == matrix[f]
               t == Pick(LargestOf(a.data))
           IN  IF Size(a.data) = 0 THEN matrix' = matrix
               ELSE /\ \A k \in DOMAIN a.data : a.data[k] >= 0
                    /\ IF a.type = t THEN matrix' = matrix
                       ELSE matrix' = [matrix EXCEPT ![f] = Converted(a, t)]
    BY <1>5 DEF MinimizeIndices, Minimizing, At, Proceed, KeepMatrix, Replace
  <2>2. /\ stage # "struct" /\ stage' # "struct" /\ Done # {} /\ Done' = Done \cup {f}
    <3>1. CASE f = "indices_0"
      BY <2>1, <3>1 DEF Done, After
    <3>2. CASE f = "indices_1"
      BY <2>1, <3>2 DEF Done, After
    <3>3. CASE f = "pointers_to_1"
      BY <2>1, <3>3 DEF Done, After, Fields
    <3>4. QED
      BY <3>1, <3>2, <3>3 DEF IndexFields
  <2>3. IsMinimizing(matrix, source, Done, FALSE)
    BY <1>1, <2>2 DEF MinimizeInv
  <2>4. PICK d : d = Done
    OBVIOUS
  <2>5. IsMinimizing(matrix', source, d \cup {f}, FALSE)
    BY <1>3, <2>1, <2>2, <2>3, <2>4, IndicesMinimized
  <2>6. QED
    BY <1>1, <1>2, <2>2, <2>4, <2>5 DEF MinimizeInv
<1>6. CASE MinimizeIso
  <2>1. /\ stage = "iso" /\ stage' = "struct"
        /\ LET a == matrix.values
               pattern == a.type \in IntegerTypes /\ a.data[0] = <<1, 0>>
           IN  IF matrix.is_iso \/ Size(a.data) = 0 \/ ~AllEqual(a.data) THEN matrix' = matrix
               ELSE matrix' = [matrix EXCEPT !.values = [type |-> IF pattern THEN "bint8"
                                                                            ELSE a.type,
                                                         data |-> [k \in {0} |-> a.data[0]]],
                                             !.is_iso = TRUE]
    BY <1>6 DEF MinimizeIso, Minimizing, At, Proceed, KeepMatrix
  <2>2. Done = Fields /\ Fields # {}
    BY <2>1 DEF Done, Fields
  <2>3. IsMinimizing(matrix, source, Fields, FALSE)
    BY <1>1, <2>1, <2>2 DEF MinimizeInv
  <2>4. IsMinimizing(matrix', source, Fields, TRUE)
    BY <1>3, <2>1, <2>2, <2>3, IsoMinimized
  <2>5. QED
    BY <1>1, <1>2, <2>1, <2>4 DEF MinimizeInv
<1>7. QED
  BY <1>4, <1>5, <1>6

LEMMA NextMinimize ==
    ASSUME WorkspaceInv, MinimizeInv, [Next]_vars PROVE MinimizeInv'
<1>1. CASE CooNext \/ SsmcNext \/ TextNext
  BY <1>1, NotTheMinimizer, OthersMinimize
<1>2. CASE MinNext
  <2>1. CASE \/ CreateStruct \/ MinReturn
             \/ \E f \in IndexFields : MinimizeIndicesFails(f)
             \/ \E g \in problem.names : WriteStruct(g) \/ WriteStructRefused(g) \/ ReadStruct(g)
                   \/ ReadStructFails(g)
    <3>1. call' = "none"
      BY <2>1 DEF CreateStruct, MinReturn, MinimizeIndicesFails, WriteStruct, WriteStructRefused,
         ReadStruct, ReadStructFails, Leave, Raise
    <3>2. QED
      BY <3>1, OthersMinimize
  <2>2. QED
    BY <1>2, <2>1, MinCallStep, MinimizeSteps DEF MinNext
<1>3. CASE UNCHANGED vars
  <2>1. UNCHANGED <<call, stage, workspace, source, matrix>>
    BY <1>3 DEF vars, mexVars, ssmcVars, minVars
  <2>2. Done' = Done
    BY <2>1 DEF Done
  <2>3. QED
    BY <2>1, <2>2 DEF MinimizeInv
<1>4. QED
  BY <1>1, <1>2, <1>3 DEF Next, Aborted

LEMMA MinReturnStep ==
    ASSUME problem \in Problems, WorkspaceInv, MinimizeInv, MinReturn
    PROVE  WorkspaceInv' /\ MinimizedFrom(workspace', source') /\ source' # NoStruct
<1>1. /\ call = "minimize_types" /\ stage = "struct" /\ workspace' = MatlabStruct(matrix)
      /\ UNCHANGED <<problem, source>>
  BY DEF MinReturn, Minimizing, At, Leave
<1>2. workspace # NoStruct /\ source = workspace /\ IsMinimizing(matrix, source, Fields, TRUE)
  BY <1>1 DEF MinimizeInv
<1>3. IsStruct(source) /\ StructHolds(source)
  BY <1>2 DEF WorkspaceInv, StructHolds
<1>4. Fields # {} /\ IndexFields \subseteq Fields
  BY DEF Fields, IndexFields
<1>5. /\ HasItsArrays(matrix) /\ MinimizedFrom(MatlabStruct(matrix), source)
      /\ Reduced(MatlabStruct(matrix))
  BY <1>2, <1>3, <1>4, MinimizedReturns
<1>6. IsStruct(MatlabStruct(matrix)) /\ MatlabStruct(matrix).format = source.format
  BY <1>2, <1>5, MatlabStructIs DEF IsMinimizing
<1>7. StructHolds(workspace')
  <2>1. ASSUME problem.struct = NoStruct, source.format \in SparseFormats
        PROVE  A.is_sparse /\ Denotes(MatlabStruct(matrix))
    <3>1. A.is_sparse /\ Denotes(source)
      BY <1>3, <2>1 DEF StructHolds
    <3>2. QED
      BY <1>2, <1>3, <1>4, <3>1, MinimizedDenotes
  <2>2. QED
    BY <1>1, <1>6, <2>1 DEF StructHolds
<1>8. StructHolds(workspace)'
  BY <1>1, <1>7, StructStays
<1>9. workspace' # NoStruct
  BY <1>1, <1>6, NoStructFormat DEF IsStruct
<1>10. Reduced(workspace)'
  BY <1>1, <1>5 DEF Reduced
<1>11. WorkspaceInv'
  BY <1>8, <1>9, <1>10 DEF WorkspaceInv
<1>12. QED
  BY <1>1, <1>2, <1>5, <1>11

--------------------------------------------------------------------------------
(* The matrices of the file, and the session.                                 *)

\* No struct that was made by hand is in the file.
OnlyTheProblem == problem.struct = NoStruct \/ "write" \notin problem.calls

\* A finished matrix has its arrays, and in a file without structs made by hand it
\* denotes the problem, in types as narrow as can be.
FinishedRight(m) ==
    /\ HasItsArrays(m)
    /\ OnlyTheProblem /\ m.format \in SparseFormats => A.is_sparse /\ Denotes(m) /\ Final(m)

\* So is every group of the file that has a descriptor.
FinishedInv ==
    \A n \in Names : IsFinished(file.objects[n]) => FinishedRight(StructOf(file.objects[n]))

\* What is finished was so before, or is right.
NewIsRight ==
    \A n \in Names : IsFinished(file'.objects[n]) =>
        file'.objects[n] = file.objects[n] \/ FinishedRight(StructOf(file'.objects[n]))

LEMMA RightStays ==
    ASSUME UNCHANGED problem, NEW m, FinishedRight(m) PROVE FinishedRight(m)'
<1>1. /\ A' = A /\ (Denotes(m)' <=> Denotes(m))
      /\ IsIso' = IsIso /\ OutputType' = OutputType /\ OnlyTheProblem' = OnlyTheProblem
  BY DenotesStays DEF IsIso, OutputType, IsoValueOfA, A, Z, NoZeros, Nnz, OnlyTheProblem
<1>2. Final(m)' <=> Final(m)
  BY <1>1 DEF Final
<1>3. QED
  BY <1>1, <1>2 DEF FinishedRight

LEMMA FinishedNext == ASSUME UNCHANGED problem, FinishedInv, NewIsRight PROVE FinishedInv'
<1>1. ASSUME NEW n \in Names, IsFinished(file'.objects[n])
      PROVE  FinishedRight(StructOf(file'.objects[n]))
  <2>1. CASE file'.objects[n] = file.objects[n]
    BY <1>1, <2>1 DEF FinishedInv
  <2>2. QED
    BY <1>1, <2>1 DEF NewIsRight
<1>2. ASSUME NEW n \in Names, IsFinished(file'.objects[n])
      PROVE  FinishedRight(StructOf(file.objects[n]))'
  <2>1. PICK m : m = StructOf(file'.objects[n])
    OBVIOUS
  <2>2. FinishedRight(m)
    BY <1>1, <1>2, <2>1
  <2>3. FinishedRight(m)'
    BY <2>2, RightStays
  <2>4. QED
    BY <2>1, <2>3 DEF StructOf
<1>3. QED
  BY <1>2 DEF FinishedInv

LEMMA NothingNewIsRight == ASSUME NothingNew PROVE NewIsRight
  BY DEF NothingNew, NewIsRight

LEMMA DescriptorIsRight ==
    ASSUME SessionInv, FileInv, PlacedInv, WrittenInv, NoPointers, CooDescriptor
    PROVE  NewIsRight
<1>1. /\ call = "write_ssmc_coo" /\ stage = "descriptor" /\ CooBegun
      /\ problem \in Problems /\ CooInv /\ Placed
      /\ Put("descriptor", Descriptor) \/ UNCHANGED file
  BY DEF CooDescriptor, Coo, At, CooBegun, Leave, SessionInv, PlacedInv
<1>2. CASE UNCHANGED file
  BY <1>2, NewSame, NothingNewIsRight
<1>3. CASE Put("descriptor", Descriptor)
  <2>1. BeingWritten /\ group \in Names /\ FileShape /\ stage \in WritingStages
    BY <1>1 DEF FileInv, Coo, At, WritingStages
  <2>2. \A n \in Names \ {group} : file'.objects[n] = file.objects[n]
    BY <1>3, <2>1, PutEffect DEF BeingWritten
  <2>3. /\ file'.objects[group].descriptor = Descriptor
        /\ file'.objects[group].values = file.objects[group].values
        /\ file'.objects[group].indices_0 = file.objects[group].indices_0
        /\ file'.objects[group].indices_1 = file.objects[group].indices_1
    BY <1>1, <1>3, <2>1, PutIs DEF PartReplaced
  <2>4. file'.objects[group].pointers_to_1 = Absent
    BY <1>1, <1>3, <2>1, PointersKept DEF NoPointers
  <2>5. PICK o : o = file'.objects[group]
    OBVIOUS
  <2>6. /\ RowsWritten(A, Z, o.indices_0, NnzOut) /\ o.values = ValuesArray
        /\ o.indices_1 = output.indices_1 /\ o.descriptor = Descriptor
        /\ o.pointers_to_1 = Absent
    BY <1>1, <2>3, <2>4, <2>5 DEF WrittenInv, HoldsSoFar
  <2>7. stage # "scatter"
    BY <1>1
  <2>8. HasItsArrays(StructOf(o)) /\ A.is_sparse /\ Denotes(StructOf(o)) /\ Final(StructOf(o))
    BY <1>1, <2>6, <2>7, FinishedIsFinal
  <2>9. FinishedRight(StructOf(file'.objects[group]))
    BY <2>5, <2>8 DEF FinishedRight
  <2>10. QED
    BY <2>2, <2>9 DEF NewIsRight
<1>4. QED
  BY <1>1, <1>2, <1>3

LEMMA MadeIn ==
    ASSUME FileInv, NEW g \in Names, NEW o, NEW opened, opened = NewFile \/ opened = OpenedFile,
           file' = WithObject(opened, g, o)
    PROVE  /\ file'.objects[g] = o
           /\ \A n \in Names \ {g} :
                 IsFinished(file'.objects[n]) => file'.objects[n] = file.objects[n]
<1>1. CASE opened = NewFile
  <2>1. /\ file'.objects[g] = o
        /\ \A n \in Names \ {g} : file'.objects[n] = NewFile.objects[n]
    BY <1>1, NewFileShape, ObjectChanged
  <2>2. QED
    BY <2>1, NewFileHasNone
<1>2. CASE opened = file
  BY <1>2, ObjectChanged DEF FileInv, FileShape
<1>3. QED
  BY <1>1, <1>2 DEF OpenedFile

LEMMA StructGroupIs ==
    /\ \A n \in 0 .. 4 : StructGroup(n).descriptor = NoDescriptor
    /\ \A f \in Fields : StructGroup(4)[f] = workspace[f]
    /\ DOMAIN StructGroup(4) = {"descriptor", "kind"} \cup Fields
<1>1. DOMAIN EmptyGroup = {"kind", "descriptor"} \cup Fields /\ EmptyGroup.descriptor = NoDescriptor
  BY DEF EmptyGroup, Fields
<1>2. \A k \in 1 .. 4 : WriteOrder[k] # "descriptor"
  BY DEF WriteOrder
<1>3. \A f \in Fields : \E k \in 1 .. 4 : WriteOrder[k] = f
  BY DEF WriteOrder, Fields
<1>4. \A n \in 0 .. 4 : StructGroup(n).descriptor = NoDescriptor
  <2> SUFFICES ASSUME NEW n \in 0 .. 4 PROVE StructGroup(n).descriptor = NoDescriptor
    OBVIOUS
  <2>1. \A k \in 1 .. n : k \in 1 .. 4
    OBVIOUS
  <2>2. QED
    BY <1>1, <1>2, <2>1 DEF StructGroup
<1>5. QED
  BY <1>1, <1>3, <1>4 DEF StructGroup

\* The struct that is written is the one that a reader gets.
LEMMA WrittenIs ==
    ASSUME IsStruct(workspace), NEW o,
           o = [StructGroup(4) EXCEPT !.descriptor = DescriptorOf(workspace)]
    PROVE  StructOf(o) = workspace
<1> DEFINE s == StructGroup(4)
           d == DescriptorOf(workspace)
<1>1. DOMAIN s = {"descriptor", "kind"} \cup Fields /\ \A f \in Fields : s[f] = workspace[f]
  BY StructGroupIs
<1>2. "descriptor" \notin Fields
  BY DEF Fields
<1>3. o.descriptor = d /\ \A f \in Fields : o[f] = workspace[f]
  <2> HIDE DEF s, d
  <2>1. o = [s EXCEPT !["descriptor"] = d]
    BY DEF s, d
  <2>2. QED
    BY <1>1, <1>2, <2>1
<1>4. o.descriptor = [format |-> workspace.format, nrows |-> workspace.nrows,
                      ncols |-> workspace.ncols, nnz |-> workspace.nnz,
                      is_iso |-> workspace.is_iso]
  BY <1>3 DEF DescriptorOf
<1>5. DOMAIN o.descriptor \cup Fields = StructFields
  BY <1>4 DEF StructFields
<1>6. StructOf(o) = [f \in StructFields |-> IF f \in Fields THEN o[f] ELSE o.descriptor[f]]
  BY <1>5 DEF StructOf
<1>7. \A f \in StructFields \ Fields : o.descriptor[f] = workspace[f]
  BY <1>4 DEF StructFields
<1>8. workspace = [f \in StructFields |-> workspace[f]]
  BY DEF IsStruct, HasItsArrays
<1>9. \A f \in StructFields :
         (IF f \in Fields THEN o[f] ELSE o.descriptor[f]) = workspace[f]
  BY <1>3, <1>7
<1>10. QED
  BY <1>6, <1>8, <1>9

LEMMA WriteStructIsRight ==
    ASSUME problem \in Problems, FileInv, WorkspaceInv, NEW g \in problem.names, WriteStruct(g)
    PROVE  NewIsRight
<1>0. g \in Names
  BY ProblemsAssumption
<1> DEFINE opened == IF g = Root THEN NewFile ELSE OpenedFile
<1>1. /\ call = "none" /\ source # NoStruct /\ "write" \in problem.calls
      /\ \/ file' = WithObject(opened, g,
                       [StructGroup(4) EXCEPT !.descriptor = DescriptorOf(workspace)])
         \/ \E n \in 0 .. 4 : file' = WithObject(opened, g, StructGroup(n))
         \/ file' = WithObject(opened, g, StructGroup(0))
         \/ file' = file
         \/ file' = opened
  BY DEF WriteStruct
<1>2. opened = NewFile \/ opened = OpenedFile
  OBVIOUS
<1> HIDE DEF opened
<1>3. IsStruct(workspace) /\ Reduced(workspace)
  BY <1>1 DEF WorkspaceInv, StructHolds
<1>4. CASE file' = WithObject(opened, g,
                      [StructGroup(4) EXCEPT !.descriptor = DescriptorOf(workspace)])
  <2> DEFINE o == [StructGroup(4) EXCEPT !.descriptor = DescriptorOf(workspace)]
  <2>1. StructOf(o) = workspace
    BY <1>3, WrittenIs
  <2> HIDE DEF o
  <2>2. /\ file'.objects[g] = o
        /\ \A n \in Names \ {g} :
              IsFinished(file'.objects[n]) => file'.objects[n] = file.objects[n]
    BY <1>0, <1>2, <1>4, MadeIn DEF o
  <2>3. FinishedRight(workspace)
    <3>1. HasItsArrays(workspace)
      BY <1>3 DEF IsStruct
    <3>2. ASSUME OnlyTheProblem, workspace.format \in SparseFormats
          PROVE  A.is_sparse /\ Denotes(workspace) /\ Final(workspace)
      <4>1. A.is_sparse /\ Denotes(workspace)
        BY <1>1, <3>2 DEF OnlyTheProblem, WorkspaceInv, StructHolds
      <4>2. QED
        BY <1>3, <3>1, <4>1, FinalIs
    <3>3. QED
      BY <3>1, <3>2 DEF FinishedRight
  <2>4. QED
    BY <2>1, <2>2, <2>3 DEF NewIsRight
<1>5. ASSUME NEW n \in 0 .. 4, file' = WithObject(opened, g, StructGroup(n)) PROVE NewIsRight
  <2>1. ~IsFinished(StructGroup(n))
    BY NotFinished, StructGroupIs
  <2>2. /\ file'.objects[g] = StructGroup(n)
        /\ \A l \in Names \ {g} :
              IsFinished(file'.objects[l]) => file'.objects[l] = file.objects[l]
    BY <1>0, <1>2, <1>5, MadeIn
  <2>3. QED
    BY <2>1, <2>2 DEF NewIsRight
<1>6. CASE file' = file \/ file' = opened
  <2>1. NothingNew
    BY <1>2, <1>6, NewSame, NewOpened, NewFileHasNone DEF NothingNew
  <2>2. QED
    BY <2>1, NothingNewIsRight
<1>7. 0 \in 0 .. 4
  OBVIOUS
<1>8. QED
  BY <1>1, <1>4, <1>5, <1>6, <1>7

LEMMA MinIsRight ==
    ASSUME problem \in Problems, FileInv, WorkspaceInv, MinNext PROVE NewIsRight
<1>1. ASSUME NEW g \in problem.names, WriteStruct(g) PROVE NewIsRight
  BY <1>1, WriteStructIsRight
<1>2. ASSUME NEW g \in problem.names, WriteStructRefused(g) PROVE NewIsRight
  BY <1>2, NewOpened, NothingNewIsRight DEF WriteStructRefused
<1>3. CASE ~ \E g \in problem.names : WriteStruct(g) \/ WriteStructRefused(g)
  <2>1. UNCHANGED file
    BY <1>3 DEF MinNext, MinCall, MinimizeValues, MinimizeIndices, MinimizeIndicesFails,
       MinimizeIso, MinReturn, CreateStruct, ReadStruct, ReadStructFails
  <2>2. QED
    BY <2>1, NewSame, NothingNewIsRight
<1>4. QED
  BY <1>1, <1>2, <1>3

LEMMA NextFinished ==
    ASSUME SessionInv, FileInv, PlacedInv, WrittenInv, NoPointers, WorkspaceInv, FinishedInv,
           [Next]_vars
    PROVE  FinishedInv'
<1>1. UNCHANGED problem /\ problem \in Problems
  BY ProblemStays DEF SessionInv
<1>2. NewIsRight
  <2>1. CASE CooNext
    BY <2>1, CooNothingNew, NothingNewIsRight, DescriptorIsRight
  <2>2. CASE SsmcNext \/ TextNext
    BY <2>2, SsmcNothingNew, TextNothingNew, NothingNewIsRight
  <2>3. CASE MinNext
    BY <1>1, <2>3, MinIsRight
  <2>4. CASE UNCHANGED vars
    BY <2>4, NewSame, NothingNewIsRight DEF vars, mexVars
  <2>5. QED
    BY <2>1, <2>2, <2>3, <2>4 DEF Next, Aborted
<1>3. QED
  BY <1>1, <1>2, FinishedNext

LEMMA NextWorkspace ==
    ASSUME SessionInv, CscInv, WorkspaceInv, MinimizeInv, FinishedInv, [Next]_vars
    PROVE  WorkspaceInv'
<1>1. UNCHANGED problem /\ problem \in Problems
  BY ProblemStays DEF SessionInv
<1>2. CASE CooNext /\ UNCHANGED ssmcVars
  BY <1>1, <1>2, NotTheMinimizer, WorkspaceSame DEF ssmcVars
<1>3. CASE TextNext /\ UNCHANGED ssmcVars
  BY <1>1, <1>3, NotTheMinimizer, WorkspaceSame DEF ssmcVars
<1>4. CASE SsmcNext
  BY <1>1, <1>4, NotTheMinimizer, SsmcWorkspace, WorkspaceSame, WorkspaceNew
<1>5. CASE MinNext
  <2>1. CASE CreateStruct
    <3>1. workspace' = problem.struct /\ source' = NoStruct
      BY <2>1 DEF CreateStruct
    <3>2. StructHolds(problem.struct)
      BY <1>1, ProblemsAssumption, NoStructFormat DEF StructHolds
    <3>3. StructHolds(workspace')
      BY <3>1, <3>2
    <3>4. QED
      BY <1>1, <3>1, <3>3, WorkspaceNew
  <2>2. ASSUME MinimizeValues \/ MinimizeIso \/ \E f \in IndexFields : MinimizeIndices(f)
        PROVE  WorkspaceInv'
    <3>1. UNCHANGED <<workspace, source, call>>
      BY <2>2 DEF MinimizeValues, MinimizeIso, MinimizeIndices, ssmcVars, Proceed
    <3>2. QED
      BY <1>1, <3>1, WorkspaceSame
  <2>3. ASSUME NEW f \in IndexFields, MinimizeIndicesFails(f) PROVE WorkspaceInv'
    <3>1. workspace' = workspace /\ source' = NoStruct
      BY <2>3 DEF MinimizeIndicesFails
    <3>2. StructHolds(workspace')
      BY <3>1 DEF WorkspaceInv
    <3>3. QED
      BY <1>1, <3>1, <3>2, WorkspaceNew
  <2>4. ASSUME NEW g, WriteStruct(g) \/ WriteStructRefused(g) \/ ReadStructFails(g)
        PROVE  WorkspaceInv'
    <3>1. UNCHANGED <<workspace, source, call>>
      BY <2>4 DEF WriteStruct, WriteStructRefused, ReadStructFails, ssmcVars
    <3>2. QED
      BY <1>1, <3>1, WorkspaceSame
  <2>5. ASSUME NEW g \in problem.names, ReadStruct(g) PROVE WorkspaceInv'
    <3>1. PICK m : m = StructOf(file.objects[g])
      OBVIOUS
    <3>2. workspace' = MatlabStruct(m) /\ source' = NoStruct /\ Described(g)
      BY <2>5, <3>1 DEF ReadStruct, StructOf
    <3>3. g \in Names
      BY <1>1, ProblemsAssumption
    <3>4. FinishedRight(m)
      BY <3>1, <3>2, <3>3 DEF FinishedInv, Described, IsFinished
    <3>5. IsStruct(MatlabStruct(m)) /\ MatlabStruct(m).format = m.format
      BY <3>4, MatlabStructIs DEF FinishedRight
    <3>6. ASSUME problem.struct = NoStruct, m.format \in SparseFormats
          PROVE  A.is_sparse /\ Denotes(MatlabStruct(m))
      BY <3>4, <3>6, MatlabStructDenotes DEF FinishedRight, OnlyTheProblem
    <3>7. StructHolds(MatlabStruct(m))
      BY <3>5, <3>6 DEF StructHolds
    <3>8. StructHolds(workspace')
      BY <3>2, <3>7
    <3>9. QED
      BY <1>1, <3>2, <3>8, WorkspaceNew
  <2>6. QED
    BY <1>1, <1>5, <2>1, <2>2, <2>3, <2>4, <2>5, MinCallStep, MinReturnStep DEF MinNext
<1>6. CASE UNCHANGED vars
  BY <1>1, <1>6, WorkspaceSame DEF vars, mexVars, ssmcVars
<1>7. QED
  BY <1>2, <1>3, <1>4, <1>5, <1>6 DEF Next, Aborted

--------------------------------------------------------------------------------
(* The struct the minimiser returned last.                                    *)

\* As long as the session remembers the minimiser, the workspace has its struct.
LastInv ==
    last.function = "minimize_types" =>
       source # NoStruct /\ MinimizedFrom(workspace, source)

\* Every other step forgets that the minimiser returned, or returns from another call.
LEMMA LastReturned ==
    ASSUME CallInv, [Next]_vars, last'.function = "minimize_types"
    PROVE  MinReturn \/ UNCHANGED <<last, workspace, source>>
<1>0. NoCall.function = "none"
  BY DEF NoCall
<1>1. CASE CooNext
  <2>1. last' = last \/ last'.function # "minimize_types"
    BY <1>1, <1>0 DEF CooNext, CooCall, CooRefuse, CooCount, TakeA, TakeZ, NextColumn,
       CooDuplicate, CooScattered, CooOpen, CooOpenFails, CooValues, CooValuesFail,
       CooRowsDataset, CooRowsDatasetFails, SkipRow, FillRun, FlushChunk, FlushFails,
       CooColumns, CooColumnsFail, CooDescriptor, CooWriteArray, CooWriteArrayFails, CooFail,
       Enter, Raise, Leave, Proceed, mexVars
  <2>2. call = "write_ssmc_coo" \/ last' = NoCall
    BY <1>1 DEF CooNext, CooCall, CooRefuse, CooCount, TakeA, TakeZ, NextColumn,
       CooDuplicate, CooScattered, CooOpen, CooOpenFails, CooValues, CooValuesFail,
       CooRowsDataset, CooRowsDatasetFails, SkipRow, FillRun, FlushChunk, FlushFails,
       CooColumns, CooColumnsFail, CooDescriptor, CooWriteArray, CooWriteArrayFails,
       ChunkReady, Enter, Coo, At
  <2>3. QED
    BY <1>0, <2>1, <2>2 DEF CallInv
<1>2. CASE SsmcNext
  <2>1. last' = last \/ last'.function # "minimize_types"
    BY <1>2, <1>0 DEF SsmcNext, SsmcCall, SsmcDense, SsmcRefuse, SsmcAllocate, SsmcCopy, MergeA,
       MergeZ, MergeDuplicate, MergeColumn, MergeEnd, SsmcReturn, SsmcAborts, Enter, SsmcRaise,
       Raise, Leave, Proceed, mexVars
  <2>2. call = "from_ssmc" \/ last' = NoCall
    BY <1>2 DEF SsmcNext, SsmcCall, SsmcDense, SsmcRefuse, SsmcAllocate, SsmcCopy, MergeA,
       MergeZ, MergeDuplicate, MergeColumn, MergeEnd, SsmcReturn, SsmcAborts, Enter, Ssmc, At
  <2>3. QED
    BY <1>0, <2>1, <2>2 DEF CallInv
<1>3. CASE TextNext
  <2>1. last' = last \/ last'.function # "minimize_types"
    BY <1>3, <1>0 DEF TextNext, WriteCall, ReadCall, EncodeText, EncodeTextFails, OpenForText,
       NameIsFree, DatasetExists, CreateType, CreateSpace, CreateDataset, WriteDataset,
       WriteDatasetFails, WriteTextFails, OpenToRead, NoFile, OpenDataset, MissingDataset,
       OpenType, OpenSpace, ReadTextFails, ReadMalformed, ReadText, TextFails, Open,
       CleanupAndRaise, Enter, Raise, Leave, Proceed
  <2>2. call \in {"write_string", "read_string"} \/ last' = NoCall
    BY <1>3 DEF TextNext, WriteCall, ReadCall, EncodeText, EncodeTextFails, OpenForText,
       NameIsFree, DatasetExists, CreateType, CreateSpace, CreateDataset, WriteDataset,
       WriteDatasetFails, WriteTextFails, OpenToRead, NoFile, OpenDataset, MissingDataset,
       OpenType, OpenSpace, ReadTextFails, ReadMalformed, ReadText, TextFails, Open,
       CleanupAndRaise, Enter, Writing, Reading, At
  <2>3. QED
    BY <1>0, <2>1, <2>2 DEF CallInv
<1>4. CASE MinNext
  <2>1. ASSUME MinimizeValues \/ MinimizeIso \/ \E f \in IndexFields : MinimizeIndices(f)
                  \/ MinimizeIndicesFails(f)
        PROVE  FALSE
    <3>1. call = "minimize_types" /\ last' = last
      BY <2>1 DEF MinimizeValues, MinimizeIso, MinimizeIndices, MinimizeIndicesFails,
         Minimizing, At, Proceed, Raise
    <3>2. QED
      BY <1>0, <3>1 DEF CallInv
  <2>2. ASSUME \/ CreateStruct \/ MinCall
               \/ \E g \in problem.names : WriteStruct(g) \/ WriteStructRefused(g) \/ ReadStruct(g)
                     \/ ReadStructFails(g)
        PROVE  FALSE
    <3>1. last' = NoCall \/ \E g : last' = [function |-> "read", group |-> g]
      BY <2>2 DEF CreateStruct, MinCall, WriteStruct, WriteStructRefused, ReadStruct,
         ReadStructFails, Enter
    <3>2. QED
      BY <1>0, <3>1
  <2>3. QED
    BY <1>4, <2>1, <2>2 DEF MinNext
<1>5. CASE UNCHANGED vars
  BY <1>5 DEF vars, mexVars, ssmcVars
<1>6. QED
  BY <1>1, <1>2, <1>3, <1>4, <1>5 DEF Next, Aborted

LEMMA NextLast ==
    ASSUME SessionInv, WorkspaceInv, MinimizeInv, LastInv, [Next]_vars PROVE LastInv'
<1> SUFFICES ASSUME last'.function = "minimize_types"
             PROVE  source' # NoStruct /\ MinimizedFrom(workspace', source')
  BY DEF LastInv, MinimizedFrom, ValueAt
<1>1. CASE MinReturn
  BY <1>1, MinReturnStep DEF SessionInv
<1>2. CASE UNCHANGED <<last, workspace, source>>
  BY <1>2 DEF LastInv
<1>3. QED
  BY <1>1, <1>2, LastReturned DEF SessionInv

--------------------------------------------------------------------------------
(* The session.                                                               *)

\* The inductive invariant of a session: of its calls and its file, of the two
\* conversions under way, of the struct in the workspace, of the minimiser and of
\* every group that is finished.
StructsInv ==
    /\ SessionInv /\ FileInv /\ MergeInv /\ CscInv /\ PlacedInv /\ WrittenInv
    /\ NoPointers /\ WorkspaceInv /\ MinimizeInv /\ FinishedInv /\ LastInv

LEMMA NothingFinished == ASSUME Init, NEW n \in Names PROVE ~IsFinished(file.objects[n])
<1>1. problem.foreign.kind \in {"none", "text"}
  BY ProblemsAssumption DEF Init
<1>2. CASE problem.foreign = NoObject
  BY <1>2, NotFinished DEF Init, SessionBegins, AbsentFile
<1>3. CASE problem.foreign # NoObject
  <2>1. file.objects[n] = IF n = Root THEN EmptyGroup ELSE problem.foreign
    BY <1>3 DEF Init, SessionBegins, NewFile
  <2>2. QED
    BY <1>1, <2>1, NotFinished DEF IsFinished
<1>4. QED
  BY <1>2, <1>3

LEMMA InitStructs == Init => StructsInv
<1> SUFFICES ASSUME Init PROVE StructsInv
  OBVIOUS
<1>1. SessionInv /\ FileInv /\ MergeInv /\ CscInv /\ PlacedInv /\ WrittenInv
  BY InitSessionInv, InitFileInv, InitMergeInv, InitCsc, InitPlaced
<1>2. /\ call = "none" /\ last = NoCall /\ workspace = NoStruct /\ source = NoStruct
  BY DEF Init, SessionBegins, SsmcIdle
<1>3. NoPointers /\ MinimizeInv
  BY <1>2 DEF NoPointers, MinimizeInv
<1>4. WorkspaceInv
  BY <1>2, NoStructFormat DEF WorkspaceInv, StructHolds
<1>5. FinishedInv
  BY NothingFinished DEF FinishedInv
<1>6. LastInv
  BY <1>2 DEF LastInv, NoCall
<1>7. QED
  BY <1>1, <1>3, <1>4, <1>5, <1>6 DEF StructsInv

LEMMA NextStructs == StructsInv /\ [Next]_vars => StructsInv'
<1> SUFFICES ASSUME StructsInv, [Next]_vars PROVE StructsInv'
  OBVIOUS
<1>1. /\ SessionInv /\ FileInv /\ MergeInv /\ CscInv /\ PlacedInv /\ WrittenInv
      /\ NoPointers /\ WorkspaceInv /\ MinimizeInv /\ FinishedInv /\ LastInv
  BY DEF StructsInv
<1>2. SessionInv' /\ MergeInv' /\ CscInv'
  BY <1>1, NextSessionInv, NextMergeInv, NextCsc
<1>3. FileInv'
  BY <1>1, NextFileInv
<1>4. PlacedInv' /\ WrittenInv' /\ NoPointers'
  BY <1>1, NextPlaced, NextWritten, NextNoPointers
<1>5. WorkspaceInv' /\ MinimizeInv'
  BY <1>1, NextWorkspace, NextMinimize
<1>6. FinishedInv' /\ LastInv'
  BY <1>1, NextFinished, NextLast
<1>7. QED
  BY <1>2, <1>3, <1>4, <1>5, <1>6 DEF StructsInv

\* The minimised struct has its argument's indices and values, a value that all
\* entries share stored once, in the narrowest types: for every struct, however it
\* came to the workspace.
THEOREM MinimizerFaithful == Spec => []MinimizedFaithful
<1>1. StructsInv => MinimizedFaithful
  BY DEF StructsInv, LastInv, MinimizedFrom, MinimizedFaithful
<1>2. QED
  BY <1>1, InitStructs, NextStructs, PTL DEF Spec

\* In a session without structs made by hand, a sparse struct has the entries of A
\* and the explicit zeros: as the converter returns it, in each format, with Zeros
\* merged in or not, as the minimiser changes its types, and as it is read back.  Only
\* a CSR struct does not, exactly when its pointers, which an iso A gives the type of
\* the dimensions, have wrapped.
THEOREM StructsFaithful == Spec => []StructFaithful
<1>1. StructsInv => StructFaithful
  <2> SUFFICES ASSUME StructsInv, problem.struct = NoStruct,
                      workspace.format \in {"COO", "CSC", "CSR"}
      PROVE  /\ StructEntries(workspace) = ProblemEntries
                   <=> ~(workspace.format = "CSR" /\ PointersWrap)
             /\ Size(workspace.indices_1.data) = workspace.nnz
             /\ workspace.format = "COO" =>
                   RowOrdered(workspace.indices_0.data, workspace.indices_1.data)
    BY DEF StructFaithful
  <2>1. Denotes(workspace) /\ NnzOut \in Nat
    BY SizeType DEF StructsInv, SessionInv, WorkspaceInv, StructHolds, SparseFormats
  <2>2. Cardinality(0 .. NnzOut - 1) = NnzOut
    BY <2>1, FS_Interval
  <2>3. QED
    BY <2>1, <2>2 DEF Denotes, Size
<1>2. QED
  BY <1>1, InitStructs, NextStructs, PTL DEF Spec

LEMMA StructOfFields ==
    ASSUME NEW o, HasItsArrays(StructOf(o))
    PROVE  /\ StructOf(o).format = o.descriptor.format /\ StructOf(o).nnz = o.descriptor.nnz
           /\ StructOf(o).is_iso = o.descriptor.is_iso
           /\ \A f \in Fields : StructOf(o)[f] = o[f]
<1>1. DOMAIN StructOf(o) = StructFields
  BY DEF HasItsArrays
<1>2. DOMAIN StructOf(o) = DOMAIN o.descriptor \cup Fields
  BY DEF StructOf
<1>3. \A f \in StructFields :
         StructOf(o)[f] = IF f \in Fields THEN o[f] ELSE o.descriptor[f]
  BY <1>1, <1>2 DEF StructOf
<1>4. /\ {"format", "nnz", "is_iso"} \cap Fields = {}
      /\ {"format", "nnz", "is_iso"} \subseteq StructFields
      /\ Fields \subseteq StructFields
  BY DEF Fields, StructFields
<1>5. QED
  BY <1>3, <1>4

\* As long as no struct made by hand is written, every coordinate matrix in the file,
\* the coordinate writer's and those of the in-memory path, holds exactly the entries
\* of A and the explicit zeros, sorted by row: whatever size the chunks have, whichever
\* write before it failed, and however often a call was repeated.
THEOREM CooFilesFaithful ==
    Spec => [](problem.struct = NoStruct \/ "write" \notin problem.calls => CooFileFaithful)
<1>1. StructsInv => (problem.struct = NoStruct \/ "write" \notin problem.calls => CooFileFaithful)
  <2> SUFFICES ASSUME StructsInv, OnlyTheProblem, NEW n \in Names, IsCoo(file.objects[n])
      PROVE  CooHolds(file.objects[n])
    BY DEF OnlyTheProblem, CooFileFaithful, IsCoo
  <2> DEFINE o == file.objects[n]
             m == StructOf(o)
             i == o.indices_0.data
             c == o.indices_1.data
             v == o.values.data
  <2>1. FinishedRight(m)
    BY CooIsFinished DEF StructsInv, FinishedInv
  <2>2. /\ HasItsArrays(m) /\ m.format = o.descriptor.format /\ m.nnz = o.descriptor.nnz
        /\ m.is_iso = o.descriptor.is_iso /\ \A f \in Fields : m[f] = o[f]
    BY <2>1, StructOfFields DEF FinishedRight
  <2>3. m.format = "COO" /\ Denotes(m) /\ NnzOut \in Nat
    BY <2>1, <2>2, SizeType DEF FinishedRight, SparseFormats, IsCoo, StructsInv, SessionInv
  <2> HIDE DEF m
  <2>4. m.indices_0.data = i /\ m.indices_1.data = c /\ m.values.data = v
    BY <2>2 DEF Fields
  <2> HIDE DEF o, i, c, v
  <2>5. /\ DOMAIN i = 0 .. NnzOut - 1 /\ DOMAIN c = 0 .. NnzOut - 1 /\ RowOrdered(i, c)
        /\ StructEntries(m) = ProblemEntries /\ o.descriptor.nnz = NnzOut
    BY <2>2, <2>3, <2>4 DEF Denotes
  <2>6. Size(i) = o.descriptor.nnz /\ Size(c) = o.descriptor.nnz
    <3>1. Cardinality(0 .. NnzOut - 1) = NnzOut
      BY <2>3, FS_Interval
    <3>2. QED
      BY <2>5, <3>1 DEF Size
  <2>7. CooEntries(i, c, v, o.descriptor.is_iso) = StructEntries(m)
    <3>1. m.format \in SparseFormats /\ DOMAIN m.indices_1.data = 0 .. NnzOut - 1
      BY <2>3 DEF Denotes
    <3>2. \A k : i[k] = RowIn(m, k) /\ c[k] = ColumnIn(m, k)
      BY <2>3, <2>4 DEF RowIn, ColumnIn
    <3>3. StructEntries(m) = EntriesAt(m, i, c)
      BY <3>1, <3>2, EntriesRead
    <3>4. QED
      BY <2>2, <2>4, <2>5, <3>3 DEF CooEntries, EntriesAt
  <2>8. CooHolds(o)
    BY <2>5, <2>6, <2>7 DEF CooHolds, i, c, v
  <2>9. QED
    BY <2>8 DEF o
<1>2. QED
  BY <1>1, InitStructs, NextStructs, PTL DEF Spec

\* The coordinate writer and the in-memory path with the minimiser are two ways to
\* the same file: they agree on is_iso and on the type of the values.
THEOREM PathsAlwaysAgree == Spec => []PathsAgree
<1>1. StructsInv => PathsAgree
  <2> SUFFICES ASSUME StructsInv, last.function = "minimize_types", workspace.format = "COO",
                      workspace.nnz > 0, problem.struct = NoStruct,
                      NEW n \in Names, IsCoo(file.objects[n])
      PROVE  /\ file.objects[n].descriptor.is_iso = workspace.is_iso
             /\ file.objects[n].values.type = workspace.values.type
    BY DEF PathsAgree, IsCoo
  <2> DEFINE o == file.objects[n]
             m == StructOf(o)
  <2>1. problem \in Problems /\ call = "none" /\ source # NoStruct
    BY DEF StructsInv, SessionInv, CallInv, LastInv, NoCall
  <2>2. Reduced(workspace) /\ A.is_sparse /\ Denotes(workspace) /\ HasItsArrays(workspace)
    BY <2>1 DEF StructsInv, WorkspaceInv, StructHolds, SparseFormats, IsStruct
  <2>3. Final(workspace) /\ workspace.nnz = NnzOut
    BY <2>1, <2>2, FinalIs DEF Denotes
  <2>4. FinishedRight(m)
    BY CooIsFinished DEF StructsInv, FinishedInv
  <2>5. /\ HasItsArrays(m) /\ m.format = o.descriptor.format /\ m.nnz = o.descriptor.nnz
        /\ m.is_iso = o.descriptor.is_iso /\ m.values = o.values
    BY <2>4, StructOfFields DEF FinishedRight, Fields
  <2>6. Denotes(m) /\ Final(m)
    BY <2>4, <2>5 DEF FinishedRight, SparseFormats, IsCoo, OnlyTheProblem
  <2> HIDE DEF m
  <2>7. m.is_iso = IsIso /\ m.values.type = OutputType
    BY <2>3, <2>6 DEF Final, Denotes
  <2>8. workspace.is_iso = IsIso /\ workspace.values.type = OutputType
    BY <2>3 DEF Final
  <2>9. QED
    BY <2>5, <2>7, <2>8
<1>2. QED
  BY <1>1, InitStructs, NextStructs, PTL DEF Spec

================================================================================
