-------------------------- MODULE ParallelRead_proofs --------------------------
(******************************************************************************)
(* Proofs about bsp_read_array_parallel for every number of processes, every  *)
(* dataset size and every set of faults the theorems do not exclude.          *)
(******************************************************************************)
EXTENDS ParallelRead, FiniteSetTheorems, TLAPS

--------------------------------------------------------------------------------
(* The slices. *)

\* chunk_size rounds up: num_threads chunks cover the dataset.
LEMMA ChunkSizeCovers ==
    ASSUME NEW s \in Nat \ {0}, NEW n \in Nat \ {0}
    PROVE  /\ ChunkSize(s, n) \in Nat \ {0}
           /\ ChunkSize(s, n) * n >= s
<1> DEFINE c == ChunkSize(s, n)
           r == (s + n - 1) % n
<1>1. c \in Int /\ r \in 0 .. n - 1 /\ s + n - 1 = n * c + r
  BY DEF ChunkSize
<1>2. n * c >= s
  BY <1>1
<1>3. c > 0
  BY <1>1, <1>2
<1>4. QED
  BY <1>1, <1>2, <1>3

\* Multiplication by a natural number is monotone, which SMT does not know.
LEMMA ProductMonotone ==
    ASSUME NEW c \in Nat, NEW p \in Nat, NEW q \in Nat, p < q
    PROVE  c * p + c <= c * q
<1>1. PICK d \in Nat : q = p + 1 + d
  <2>1. q - p - 1 \in Nat /\ q = p + 1 + (q - p - 1)
    OBVIOUS
  <2>2. QED
    BY <2>1
<1>2. c * q = c * p + c + c * d
  BY <1>1
<1>3. c * d \in Nat /\ c * p \in Nat
  BY <1>1
<1>4. QED
  BY <1>2, <1>3

\* Every slice lies in the dataset.
LEMMA SliceInBounds ==
    ASSUME NEW s \in Nat, NEW n \in Nat \ {0}, NEW p \in Nat
    PROVE  /\ Start(s, n, p) \in 0 .. s
           /\ Count(s, n, p) \in Nat
           /\ Start(s, n, p) + Count(s, n, p) <= s
           /\ Start(s, n, 0) = 0
<1> DEFINE c == ChunkSize(s, n)
<1>1. c \in Nat
  <2>1. CASE s = 0
    <3>1. n - 1 \in Nat /\ n > 0
      OBVIOUS
    <3>2. QED
      BY <2>1, <3>1 DEF ChunkSize
  <2>2. CASE s # 0
    BY <2>2, ChunkSizeCovers
  <2>3. QED
    BY <2>1, <2>2
<1>2. c * p \in Nat /\ c * 0 = 0
  BY <1>1
<1>3. Start(s, n, p) \in 0 .. s /\ Start(s, n, 0) = 0
  BY <1>2 DEF Start
<1>4. Count(s, n, p) \in Nat /\ Start(s, n, p) + Count(s, n, p) <= s
  BY <1>1, <1>3 DEF Count
<1>5. QED
  BY <1>3, <1>4

\* A slice ends before the next process's slice starts.
LEMMA SlicesOrdered ==
    ASSUME NEW s \in Nat \ {0}, NEW n \in Nat \ {0},
           NEW p \in Nat, NEW q \in Nat, p < q
    PROVE  Start(s, n, p) + Count(s, n, p) <= Start(s, n, q)
<1> DEFINE c == ChunkSize(s, n)
<1>1. c \in Nat
  BY ChunkSizeCovers
<1>2. c * p \in Nat /\ c * q \in Nat /\ c * p + c <= c * q
  BY <1>1, ProductMonotone
<1>3. CASE c * q < s
  <2>1. Start(s, n, q) = c * q /\ Start(s, n, p) = c * p
    BY <1>1, <1>2, <1>3 DEF Start
  <2>2. Count(s, n, p) = c
    BY <1>1, <1>2, <1>3, <2>1 DEF Count
  <2>3. QED
    BY <1>2, <2>1, <2>2
<1>4. CASE ~(c * q < s)
  <2>1. Start(s, n, q) = s
    BY <1>4 DEF Start
  <2>2. QED
    BY <2>1, SliceInBounds
<1>5. QED
  BY <1>3, <1>4

\* Every offset of the dataset is in the slice of one of the num_threads
\* processes: nothing is left unread.
LEMMA SlicesCover ==
    ASSUME NEW s \in Nat, NEW n \in Nat \ {0}, NEW k \in 0 .. s - 1
    PROVE  \E p \in 0 .. n - 1 :
              k \in Start(s, n, p) .. Start(s, n, p) + Count(s, n, p) - 1
<1> DEFINE c == ChunkSize(s, n)
           p == k \div c
<1>1. s \in Nat \ {0} /\ k \in Nat /\ k < s
  OBVIOUS
<1>2. c \in Nat \ {0} /\ c * n >= s
  BY <1>1, ChunkSizeCovers
<1>3. p \in Nat /\ c * p <= k /\ k < c * p + c
  <2> HIDE DEF c
  <2>1. k % c \in 0 .. c - 1 /\ k = c * (k \div c) + (k % c) /\ k \div c \in Nat
    BY <1>1, <1>2
  <2>2. QED
    BY <1>1, <1>2, <2>1
<1> HIDE DEF p
<1>4. p < n
  <2>1. SUFFICES ASSUME n <= p PROVE FALSE
    BY <1>3
  <2>2. c * n <= c * p
    <3>1. CASE n = p
      BY <1>2, <3>1
    <3>2. CASE n < p
      <4>1. c * n + c <= c * p
        BY <1>2, <1>3, <3>2, ProductMonotone
      <4>2. c * n \in Nat /\ c * p \in Nat
        BY <1>2, <1>3
      <4>3. QED
        BY <1>2, <4>1, <4>2
    <3>3. QED
      BY <1>3, <2>1, <3>1, <3>2
  <2>3. c * n \in Nat /\ c * p \in Nat
    BY <1>2, <1>3
  <2>4. QED
    BY <1>1, <1>2, <1>3, <2>2, <2>3
<1>5. c * p \in Nat
  BY <1>2, <1>3
<1>6. Start(s, n, p) = c * p
  BY <1>1, <1>3, <1>5 DEF Start
<1>7. k < Start(s, n, p) + Count(s, n, p)
  BY <1>1, <1>2, <1>3, <1>5, <1>6 DEF Count
<1>8. Count(s, n, p) \in Nat
  BY <1>1, <1>3, SliceInBounds
<1>9. QED
  BY <1>1, <1>3, <1>4, <1>5, <1>6, <1>7, <1>8

--------------------------------------------------------------------------------
(* The inductive invariant. *)

USE MaxThreadsAssumption, SizesAssumption, FenceAssumption, FaultsAssumption

\* Process numbers are natural numbers; process 0 is the caller.
LEMMA ProcsFacts == /\ Procs \subseteq Nat
                    /\ 0 \in Procs
                    /\ \A p \in Children : p \in Procs /\ p # 0 /\ p \in Nat
BY DEF Procs, Children

\* The bounds of the slices of the processes of the call.
LEMMA SliceFacts ==
    ASSUME TypeOK, NEW p \in Procs
    PROVE  /\ Start(size, num_threads, p) \in Nat
           /\ Start(size, num_threads, p) <= End(p)
           /\ End(p) \in Nat
           /\ End(p) <= size
           /\ Start(size, num_threads, 0) = 0
<1>1. size \in Nat /\ num_threads \in Nat \ {0} /\ p \in Nat
  BY ProcsFacts DEF TypeOK
<1>2. /\ Start(size, num_threads, p) \in 0 .. size
      /\ Count(size, num_threads, p) \in Nat
      /\ Start(size, num_threads, p) + Count(size, num_threads, p) <= size
      /\ Start(size, num_threads, 0) = 0
  BY <1>1, SliceInBounds
<1>3. QED
  BY <1>1, <1>2 DEF End

\* What a child still has to decrement is a finite set of at most
\* num_threads - 1 processes.
LEMMA PendingFacts ==
    ASSUME TypeOK
    PROVE  /\ IsFiniteSet(Pending)
           /\ Cardinality(Pending) \in 0 .. num_threads - 1
           /\ Cardinality(Pending) = 0 => Pending = {}
           /\ Pending \subseteq Children
<1>1. num_threads \in 1 .. MaxThreads
  BY DEF TypeOK
<1>2. IsFiniteSet(1 .. num_threads - 1) /\ Cardinality(1 .. num_threads - 1) = num_threads - 1
  BY <1>1, FS_Interval
<1>3. Pending \subseteq 1 .. num_threads - 1
  BY DEF Pending
<1>4. IsFiniteSet(Pending) /\ Cardinality(Pending) <= num_threads - 1
  BY <1>2, <1>3, FS_Subset
<1>5. Cardinality(Pending) \in Nat
  BY <1>4, FS_CardinalityType
<1>6. Cardinality(Pending) = 0 => Pending = {}
  BY <1>4, FS_EmptySet
<1>7. Pending \subseteq Children
  BY <1>1, <1>3 DEF Children, Procs
<1>8. QED
  BY <1>1, <1>4, <1>5, <1>6, <1>7

\* A call that has not begun satisfies the invariant.
LEMMA InitIInv == Init => IInv
<1> SUFFICES ASSUME Init PROVE IInv
  OBVIOUS
<1> USE ProcsFacts DEF Init
<1>1. TypeOK
  <2>1. i \in 0 .. MaxThreads - 1 /\ active_children \in 0 .. MaxThreads - 1
    OBVIOUS
  <2>2. pc \in [Procs -> {"absent", "called"}]
    OBVIOUS
  <2>3. cursor \in [Procs -> Nat] /\ buffer \in [Procs -> SUBSET Nat]
    OBVIOUS
  <2>4. attached \in [{"array", "counter"} -> SUBSET Procs]
    OBVIOUS
  <2>5. QED
    BY <2>1, <2>2, <2>3, <2>4 DEF TypeOK
<1>2. ControlInv
  BY DEF ControlInv
<1>3. StoresInv
  BY DEF StoresInv, Started
<1>4. CounterInv
  BY DEF CounterInv
<1>5. FenceInv
  BY DEF FenceInv
<1>6. QED
  BY <1>1, <1>2, <1>3, <1>4, <1>5 DEF IInv

\* A step that moves no child past its decrement and forks none for the first
\* time leaves the set of pending children alone.
LEMMA PendingSame ==
    ASSUME TypeOK, num_threads' = num_threads,
           \A q \in Children : pc[q] \in {"exit", "exited"} <=> pc'[q] \in {"exit", "exited"}
    PROVE  Pending' = Pending
<1>1. 1 .. num_threads - 1 \subseteq Children
  BY DEF TypeOK, Children, Procs
<1>2. QED
  BY <1>1 DEF Pending

(* Every action preserves it. *)

\* A failed open returns before anything is shared.
LEMMA OpenFailsIInv == ASSUME IInv, OpenFails PROVE IInv'
<1> USE ProcsFacts, SliceFacts DEF IInv, OpenFails
<1>1. TypeOK'
  BY DEF TypeOK
<1>2. ControlInv'
  BY DEF TypeOK, ControlInv, Children
<1>3. StoresInv'
  BY DEF TypeOK, ControlInv, StoresInv, Started, Stored, End, Offsets
<1>4. CounterInv'
  BY DEF TypeOK, ControlInv, CounterInv, Pending
<1>5. FenceInv'
  BY DEF TypeOK, ControlInv, FenceInv, Children
<1>6. QED
  BY <1>1, <1>2, <1>3, <1>4, <1>5

\* So does the early return for an empty dataset.
LEMMA ReturnEmptyIInv == ASSUME IInv, ReturnEmpty PROVE IInv'
<1> USE ProcsFacts, SliceFacts DEF IInv, ReturnEmpty
<1>1. TypeOK'
  BY DEF TypeOK
<1>2. ControlInv'
  BY DEF TypeOK, ControlInv, Children
<1>3. StoresInv'
  BY DEF TypeOK, ControlInv, StoresInv, Started, Stored, End, Offsets
<1>4. CounterInv'
  BY DEF TypeOK, ControlInv, CounterInv, Pending
<1>5. FenceInv'
  BY DEF TypeOK, ControlInv, FenceInv, Children
<1>6. QED
  BY <1>1, <1>2, <1>3, <1>4, <1>5

\* The counter starts at the number of children still to decrement it.
LEMMA MapSegmentsIInv == ASSUME IInv, MapSegments PROVE IInv'
<1> USE ProcsFacts, SliceFacts DEF IInv, MapSegments, ChildCount, Attachments
<1>1. TypeOK'
  BY DEF TypeOK
<1>2. ControlInv'
  BY DEF TypeOK, ControlInv, Children
<1>3. StoresInv'
  BY DEF TypeOK, ControlInv, StoresInv, Started, Stored, End, Offsets
<1>4. CounterInv'
  <2>1. \A p \in Children : pc[p] = "absent" /\ pc'[p] = "absent"
    BY DEF TypeOK, ControlInv, Children
  <2>2. Pending' = 1 .. num_threads - 1
    <3>1. 1 .. num_threads - 1 \subseteq Children
      BY DEF TypeOK, Children, Procs
    <3>2. QED
      BY <2>1, <3>1 DEF Pending
  <2>3. Cardinality(1 .. num_threads - 1) = num_threads - 1
    <3>1. num_threads \in Nat /\ num_threads >= 1
      BY DEF TypeOK
    <3>2. QED
      BY <3>1, FS_Interval
  <2>4. QED
    BY <2>1, <2>2, <2>3 DEF TypeOK, ControlInv, CounterInv
<1>5. FenceInv'
  BY DEF TypeOK, ControlInv, FenceInv, Children
<1>6. QED
  BY <1>1, <1>2, <1>3, <1>4, <1>5

\* A fork starts the child at the beginning of its slice.
LEMMA ForkIInv == ASSUME IInv, Fork PROVE IInv'
<1> USE ProcsFacts, SliceFacts DEF IInv, Fork
<1>1. TypeOK'
  <2>1. num_threads \in 1 .. MaxThreads /\ i \in 0 .. MaxThreads - 1 /\ i + 1 \in Procs
    BY DEF TypeOK, Procs
  <2>2. Start(size, num_threads, i + 1) \in Nat
    BY <2>1, SliceFacts
  <2>3. attached' \in [{"array", "counter"} -> SUBSET Procs]
    BY <2>1 DEF TypeOK
  <2>4. i' \in 0 .. MaxThreads - 1
    BY <2>1
  <2>5. QED
    BY <2>1, <2>2, <2>3, <2>4 DEF TypeOK
<1>2. ControlInv'
  BY DEF TypeOK, ControlInv, Children
<1>3. StoresInv'
  <2>1. PICK c \in Children : c = i + 1 /\ pc[c] = "absent"
    BY DEF TypeOK, ControlInv, Procs, Children
  <2>2. c \in Procs /\ c # 0 /\ buffer[c] = {}
    BY <2>1 DEF StoresInv, Started, Children
  <2>3. cursor'[c] = Start(size, num_threads, c) /\ pc'[c] = "read"
    BY <2>1, <2>2 DEF TypeOK
  <2>4. \A p \in Procs : p # c => cursor'[p] = cursor[p] /\ pc'[p] = pc[p]
    BY <2>1 DEF TypeOK
  <2>5. /\ Start(size, num_threads, c) .. Start(size, num_threads, c) - 1 = {}
        /\ Start(size, num_threads, c) \in Start(size, num_threads, c) .. End(c)
    BY <2>2, SliceFacts
  <2>6. ASSUME NEW p \in Procs
        PROVE  IF Started(p)'
               THEN /\ cursor'[p] \in Start(size, num_threads, p) .. End(p)
                    /\ buffer[p] \subseteq Stored(p)'
                    /\ Stored(p)' \subseteq buffer[p] \cup visible
               ELSE cursor'[p] = 0 /\ buffer[p] = {}
    <3>1. CASE p = c
      <4>1. Started(p)' /\ Stored(p)' = {}
        BY <2>3, <2>5, <3>1 DEF Started, Stored
      <4>2. QED
        BY <2>2, <2>3, <2>5, <3>1, <4>1
    <3>2. CASE p # c
      BY <2>4, <3>2 DEF StoresInv, Started, Stored
    <3>3. QED
      BY <3>1, <3>2
  <2>7. QED
    BY <2>6 DEF StoresInv, Stored, End, Offsets
<1>4. CounterInv'
  <2>1. i + 1 \in Children /\ pc[i + 1] = "absent"
    BY DEF TypeOK, ControlInv, Procs, Children
  <2>2. Pending' = Pending
    BY <2>1 DEF TypeOK, Pending, Children
  <2>3. QED
    BY <2>2 DEF TypeOK, ControlInv, CounterInv, Children
<1>5. FenceInv'
  BY DEF TypeOK, ControlInv, FenceInv, Children
<1>6. QED
  BY <1>1, <1>2, <1>3, <1>4, <1>5

\* A failed fork leaves a pending child that never comes.
LEMMA ForkFailsIInv == ASSUME IInv, ForkFails PROVE IInv'
<1> USE ProcsFacts, SliceFacts DEF IInv, ForkFails
<1>1. TypeOK'
  BY DEF TypeOK
<1>2. ControlInv'
  BY DEF TypeOK, ControlInv, Children
<1>3. StoresInv'
  BY DEF TypeOK, ControlInv, StoresInv, Started, Stored, End, Offsets
<1>4. CounterInv'
  BY DEF TypeOK, ControlInv, CounterInv, Pending
<1>5. FenceInv'
  BY DEF TypeOK, ControlInv, FenceInv, Children
<1>6. QED
  BY <1>1, <1>2, <1>3, <1>4, <1>5

\* The parent goes on to its own slice.
LEMMA EndForkIInv == ASSUME IInv, EndFork PROVE IInv'
<1> USE ProcsFacts, SliceFacts DEF IInv, EndFork
<1>1. TypeOK'
  BY DEF TypeOK
<1>2. ControlInv'
  BY DEF TypeOK, ControlInv, Children
<1>3. StoresInv'
  BY DEF TypeOK, ControlInv, StoresInv, Started, Stored, End, Offsets
<1>4. CounterInv'
  <2>1. \A q \in Children : pc[q] \in {"exit", "exited"} <=> pc'[q] \in {"exit", "exited"}
    BY DEF TypeOK, ControlInv, Children
  <2>2. Pending' = Pending
    BY <2>1, PendingSame
  <2>3. QED
    BY <2>2 DEF TypeOK, ControlInv, CounterInv, Children
<1>5. FenceInv'
  BY DEF TypeOK, ControlInv, FenceInv, Children
<1>6. QED
  BY <1>1, <1>2, <1>3, <1>4, <1>5

\* A store extends what its process has stored by the next offset.
LEMMA StoreElementIInv == ASSUME IInv, NEW p \in Procs, StoreElement(p) PROVE IInv'
<1> USE ProcsFacts, SliceFacts DEF IInv, StoreElement
<1>1. TypeOK'
  <2>1. cursor[p] \in Nat /\ cursor' \in [Procs -> Nat]
    BY DEF TypeOK
  <2>2. visible' \in SUBSET Nat /\ buffer' \in [Procs -> SUBSET Nat]
    <3>1. CASE p = 0
      BY <2>1, <3>1 DEF TypeOK
    <3>2. CASE p # 0
      <4>1. buffer[p] \cup {cursor[p]} \in SUBSET Nat
        BY <2>1 DEF TypeOK
      <4>2. buffer' = [buffer EXCEPT ![p] = buffer[p] \cup {cursor[p]}] /\ visible' = visible
        BY <3>2
      <4>3. QED
        BY <4>1, <4>2 DEF TypeOK
    <3>3. QED
      BY <3>1, <3>2
  <2>3. QED
    BY <2>1, <2>2 DEF TypeOK
<1>2. ControlInv'
  BY DEF TypeOK, ControlInv, Children
<1>3. StoresInv'
  <2> DEFINE lo(q) == Start(size, num_threads, q)
  <2>1. \A q \in Procs : /\ lo(q) \in Nat /\ End(q) \in Nat
                         /\ lo(q) <= End(q) /\ End(q) <= size
                         /\ lo(q)' = lo(q) /\ End(q)' = End(q)
                         /\ Started(q)' = Started(q)
    BY DEF End, Started
  <2>2. Started(p) /\ cursor[p] \in lo(p) .. End(p) /\ cursor[p] \in Offsets
    BY <2>1 DEF StoresInv, Started, TypeOK, Offsets
  <2>3. cursor' = [cursor EXCEPT ![p] = @ + 1] /\ cursor \in [Procs -> Nat]
    BY DEF TypeOK
  <2>4. Stored(p)' = Stored(p) \cup {cursor[p]}
    BY <2>1, <2>2, <2>3 DEF Stored
  <2>5. \A q \in Procs : q # p => Stored(q)' = Stored(q) /\ cursor'[q] = cursor[q]
    BY <2>3 DEF Stored
  <2>6. cursor'[p] \in lo(p) .. End(p)
    BY <2>1, <2>2, <2>3
  <2>7. CASE p = 0
    <3>1. buffer' = buffer /\ visible' = visible \cup {cursor[p]}
      BY <2>7
    <3>2. visible' \subseteq Offsets'
      BY <2>2, <3>1 DEF StoresInv, Offsets
    <3>3. \A q \in Procs : q # p => cursor'[q] = cursor[q] /\ Stored(q)' = Stored(q)
      BY <2>5
    <3>4. buffer[p] = {} /\ Stored(p) \subseteq visible
      BY <2>2, <2>7 DEF StoresInv
    <3>5. ASSUME NEW q \in Procs
          PROVE  IF Started(q)'
                 THEN /\ cursor'[q] \in Start(size, num_threads, q) .. End(q)
                      /\ buffer[q] \subseteq Stored(q)'
                      /\ Stored(q)' \subseteq buffer[q] \cup visible'
                 ELSE cursor'[q] = 0 /\ buffer[q] = {}
      <4>1. CASE q = p
        BY <2>1, <2>2, <2>4, <2>6, <3>1, <3>4, <4>1
      <4>2. CASE q # p
        <5>1. Started(q)' <=> Started(q)
          BY DEF Started
        <5>2. cursor'[q] = cursor[q] /\ Stored(q)' = Stored(q)
          BY <3>3, <4>2
        <5>3. visible \subseteq visible'
          BY <3>1
        <5>4. QED
          BY <5>1, <5>2, <5>3 DEF StoresInv
      <4>3. QED
        BY <4>1, <4>2
    <3>6. QED
      BY <2>1, <3>1, <3>2, <3>5 DEF StoresInv
  <2>8. CASE p # 0
    <3>1. visible' = visible /\ buffer'[p] = buffer[p] \cup {cursor[p]}
          /\ \A q \in Procs : q # p => buffer'[q] = buffer[q]
      BY <2>8 DEF TypeOK
    <3>2. QED
      BY <2>1, <2>2, <2>4, <2>5, <2>6, <2>8, <3>1 DEF StoresInv, Offsets
  <2>9. QED
    BY <2>7, <2>8
<1>4. CounterInv'
  BY DEF TypeOK, ControlInv, CounterInv, Pending
<1>5. FenceInv'
  BY DEF TypeOK, ControlInv, FenceInv, Children
<1>6. QED
  BY <1>1, <1>2, <1>3, <1>4, <1>5

\* The end of H5Dread changes no memory.
LEMMA EndReadIInv == ASSUME IInv, NEW p \in Procs, EndRead(p) PROVE IInv'
<1> USE ProcsFacts, SliceFacts DEF IInv, EndRead, AfterRead
<1>1. TypeOK'
  BY DEF TypeOK
<1>2. ControlInv'
  BY DEF TypeOK, ControlInv, Children
<1>3. StoresInv'
  BY DEF TypeOK, ControlInv, StoresInv, Started, Stored, End, Offsets
<1>4. CounterInv'
  <2>1. \A q \in Children : pc[q] \in {"exit", "exited"} <=> pc'[q] \in {"exit", "exited"}
    BY DEF TypeOK, ControlInv, Children
  <2>2. Pending' = Pending
    BY <2>1, PendingSame
  <2>3. QED
    BY <2>2 DEF TypeOK, ControlInv, CounterInv, Children
<1>5. FenceInv'
  BY DEF TypeOK, ControlInv, FenceInv, Children
<1>6. QED
  BY <1>1, <1>2, <1>3, <1>4, <1>5

\* Nor does its failure: what was stored remains a prefix of the slice.
LEMMA ReadFailsIInv == ASSUME IInv, NEW p \in Procs, ReadFails(p) PROVE IInv'
<1> USE ProcsFacts, SliceFacts DEF IInv, ReadFails, AfterRead
<1>1. TypeOK'
  BY DEF TypeOK
<1>2. ControlInv'
  BY DEF TypeOK, ControlInv, Children
<1>3. StoresInv'
  BY DEF TypeOK, ControlInv, StoresInv, Started, Stored, End, Offsets
<1>4. CounterInv'
  <2>1. \A q \in Children : pc[q] \in {"exit", "exited"} <=> pc'[q] \in {"exit", "exited"}
    BY DEF TypeOK, ControlInv, Children
  <2>2. Pending' = Pending
    BY <2>1, PendingSame
  <2>3. QED
    BY <2>2 DEF TypeOK, ControlInv, CounterInv, Children
<1>5. FenceInv'
  BY DEF TypeOK, ControlInv, FenceInv, Children
<1>6. QED
  BY <1>1, <1>2, <1>3, <1>4, <1>5

\* A store that becomes visible is one the process has made.
LEMMA DrainIInv == ASSUME IInv, NEW p \in Procs, NEW k \in buffer[p], Drain(p, k) PROVE IInv'
<1> USE ProcsFacts, SliceFacts DEF IInv, Drain
<1>1. TypeOK'
  BY DEF TypeOK
<1>2. ControlInv'
  BY DEF TypeOK, ControlInv, StoresInv, Started, Children
<1>3. StoresInv'
  BY DEF TypeOK, ControlInv, StoresInv, Started, Stored, End, Offsets
<1>4. CounterInv'
  BY DEF TypeOK, ControlInv, CounterInv, Pending
<1>5. FenceInv'
  BY DEF TypeOK, ControlInv, FenceInv, Children
<1>6. QED
  BY <1>1, <1>2, <1>3, <1>4, <1>5

\* The decrement takes one child out of Pending, so the counter stays its size.
LEMMA DecrementIInv == ASSUME IInv, NEW p \in Children, Decrement(p) PROVE IInv'
<1> USE ProcsFacts, SliceFacts DEF IInv, Decrement, StoresOrdered
<1>1. TypeOK'
  <2>1. p \in Pending
    BY DEF TypeOK, ControlInv, Pending, Children, Procs
  <2>2. active_children = Cardinality(Pending)
    BY DEF CounterInv
  <2>3. active_children # 0
    BY <2>1, <2>2, PendingFacts
  <2>4. active_children' \in 0 .. MaxThreads - 1
    BY <2>3 DEF TypeOK
  <2>5. QED
    BY <2>4 DEF TypeOK
<1>2. ControlInv'
  BY DEF TypeOK, ControlInv, Children
<1>3. StoresInv'
  BY DEF TypeOK, ControlInv, StoresInv, Started, Stored, End, Offsets
<1>4. CounterInv'
  <2>1. p \in Pending /\ Pending' = Pending \ {p}
    <3>1. \A q \in Procs : pc'[q] = IF q = p THEN "exit" ELSE pc[q]
      BY DEF TypeOK
    <3>2. 1 .. num_threads - 1 \subseteq Procs /\ num_threads' = num_threads
      BY DEF TypeOK, Procs
    <3>3. p \in 1 .. num_threads - 1 /\ pc[p] = "decrement"
      BY DEF TypeOK, ControlInv, Children, Procs
    <3>4. QED
      BY <3>1, <3>2, <3>3 DEF Pending
  <2>2. active_children = Cardinality(Pending) /\ IsFiniteSet(Pending)
    BY PendingFacts DEF CounterInv
  <2>3. Cardinality(Pending') = Cardinality(Pending) - 1
    BY <2>1, <2>2, FS_RemoveElement
  <2>4. QED
    BY <2>1, <2>2, <2>3 DEF TypeOK, ControlInv, CounterInv, Children
<1>5. FenceInv'
  BY DEF TypeOK, ControlInv, FenceInv, Children
<1>6. QED
  BY <1>1, <1>2, <1>3, <1>4, <1>5

\* A child that exits has no store in flight if its decrement drained them.
LEMMA ExitIInv == ASSUME IInv, NEW p \in Children, Exit(p) PROVE IInv'
<1> USE ProcsFacts, SliceFacts DEF IInv, Exit, DetachBoth
<1>1. TypeOK'
  BY DEF TypeOK
<1>2. ControlInv'
  BY DEF TypeOK, ControlInv, Children
<1>3. StoresInv'
  BY DEF TypeOK, ControlInv, StoresInv, Started, Stored, End, Offsets
<1>4. CounterInv'
  <2>1. \A q \in Children : pc[q] \in {"exit", "exited"} <=> pc'[q] \in {"exit", "exited"}
    BY DEF TypeOK, ControlInv, Children
  <2>2. Pending' = Pending
    BY <2>1, PendingSame
  <2>3. QED
    BY <2>2 DEF TypeOK, ControlInv, CounterInv, Children
<1>5. FenceInv'
  BY DEF TypeOK, ControlInv, FenceInv, Children
<1>6. QED
  BY <1>1, <1>2, <1>3, <1>4, <1>5

\* The parent leaves its loop only when no child is pending.
LEMMA EndWaitIInv == ASSUME IInv, EndWait PROVE IInv'
<1> USE ProcsFacts, SliceFacts DEF IInv, EndWait, WaitOver, DetachCounter
<1>1. TypeOK'
  BY DEF TypeOK
<1>2. ControlInv'
  BY DEF TypeOK, ControlInv, Children
<1>3. StoresInv'
  BY DEF TypeOK, ControlInv, StoresInv, Started, Stored, End, Offsets
<1>4. CounterInv'
  <2>1. Pending' = Pending
    <3>1. \A q \in Children : pc'[q] = pc[q]
      BY DEF TypeOK, Children
    <3>2. QED
      BY <3>1, PendingSame
  <2>2. active_children = Cardinality(Pending)
    BY DEF CounterInv
  <2>3. Pending = {}
    BY <2>2, PendingFacts DEF TypeOK
  <2>4. QED
    BY <2>1, <2>2, <2>3 DEF TypeOK, ControlInv, CounterInv, Children
<1>5. FenceInv'
  BY DEF TypeOK, ControlInv, FenceInv, Children
<1>6. QED
  BY <1>1, <1>2, <1>3, <1>4, <1>5

\* Destroying the array concerns only the attachment.
LEMMA DestroyArrayIInv == ASSUME IInv, DestroyArray PROVE IInv'
<1> USE ProcsFacts, SliceFacts DEF IInv, DestroyArray
<1>1. TypeOK'
  BY DEF TypeOK
<1>2. ControlInv'
  BY DEF TypeOK, ControlInv, Children
<1>3. StoresInv'
  BY DEF TypeOK, ControlInv, StoresInv, Started, Stored, End, Offsets
<1>4. CounterInv'
  <2>1. \A q \in Children : pc[q] \in {"exit", "exited"} <=> pc'[q] \in {"exit", "exited"}
    BY DEF TypeOK, ControlInv, Children
  <2>2. Pending' = Pending
    BY <2>1, PendingSame
  <2>3. QED
    BY <2>2 DEF TypeOK, ControlInv, CounterInv, Children
<1>5. FenceInv'
  BY DEF TypeOK, ControlInv, FenceInv, Children
<1>6. QED
  BY <1>1, <1>2, <1>3, <1>4, <1>5

\* A child that dies before its decrement stays pending.
LEMMA DieIInv == ASSUME IInv, NEW p \in Procs, Die(p) PROVE IInv'
<1> USE ProcsFacts, SliceFacts DEF IInv, Die, DetachBoth
<1>1. TypeOK'
  BY DEF TypeOK
<1>2. ControlInv'
  BY DEF TypeOK, ControlInv, Children
<1>3. StoresInv'
  BY DEF TypeOK, ControlInv, StoresInv, Started, Stored, End, Offsets
<1>4. CounterInv'
  <2>1. \A q \in Children : pc[q] \in {"exit", "exited"} <=> pc'[q] \in {"exit", "exited"}
    BY DEF TypeOK, ControlInv, Children
  <2>2. Pending' = Pending
    BY <2>1, PendingSame
  <2>3. QED
    BY <2>2 DEF TypeOK, ControlInv, CounterInv, Children
<1>5. FenceInv'
  BY DEF TypeOK, ControlInv, FenceInv, Children
<1>6. QED
  BY <1>1, <1>2, <1>3, <1>4, <1>5

\* Every step preserves the invariant.
LEMMA NextIInv == IInv /\ [Next]_vars => IInv'
<1> SUFFICES ASSUME IInv, [Next]_vars PROVE IInv'
  OBVIOUS
<1>1. ASSUME NEW p \in Procs, Step(p) PROVE IInv'
  <2>1. CASE p = 0 /\ (ReturnEmpty \/ MapSegments \/ Fork \/ EndFork \/ EndWait)
    BY <2>1, ReturnEmptyIInv, MapSegmentsIInv, ForkIInv, EndForkIInv, EndWaitIInv
  <2>2. CASE StoreElement(p) \/ EndRead(p)
    BY <2>2, StoreElementIInv, EndReadIInv
  <2>3. CASE p # 0 /\ (Decrement(p) \/ Exit(p))
    BY <2>3, DecrementIInv, ExitIInv DEF Children
  <2>4. QED
    BY <1>1, <2>1, <2>2, <2>3 DEF Step
<1>2. ASSUME NEW p \in Procs, NEW k \in buffer[p], Drain(p, k) PROVE IInv'
  BY <1>2, DrainIInv
<1>3. CASE DestroyArray
  BY <1>3, DestroyArrayIInv
<1>4. CASE Fault
  BY <1>4, OpenFailsIInv, ForkFailsIInv, ReadFailsIInv, DieIInv DEF Fault
<1>5. CASE UNCHANGED vars
  BY <1>5 DEF vars, IInv, TypeOK, ControlInv, StoresInv, CounterInv, FenceInv,
              Started, Stored, End, Offsets, Pending
<1>6. QED
  BY <1>1, <1>2, <1>3, <1>4, <1>5 DEF Next

\* The inductive invariant holds of the parallel reader under every set of
\* faults and on both kinds of memory.
THEOREM InductiveInvariant == Spec => []IInv
BY InitIInv, NextIInv, PTL DEF Spec

\* Type correctness: among others, active_children never becomes negative.
THEOREM TypeCorrect == Spec => []TypeOK
<1>1. IInv => TypeOK
  BY DEF IInv
<1>2. QED
  BY <1>1, InductiveInvariant, PTL

--------------------------------------------------------------------------------
(* Safety. *)

\* The processes of a call never store one element twice and never store outside
\* array->data, for every num_threads and size (hdf5_wrapper.h:170-175).
THEOREM SlicesAreDisjoint == Spec => []SlicesDisjoint
<1>1. ASSUME IInv PROVE SlicesDisjoint
  <2> USE ProcsFacts DEF IInv
  <2>1. size \in Nat /\ num_threads \in Nat \ {0}
    BY <1>1 DEF TypeOK
  <2>2. ASSUME NEW p \in Procs PROVE buffer[p] \subseteq Offsets
    <3>1. CASE Started(p)
      <4>1. /\ cursor[p] \in Start(size, num_threads, p) .. End(p)
            /\ buffer[p] \subseteq Stored(p)
        BY <1>1, <3>1 DEF StoresInv
      <4>2. Stored(p) \subseteq Offsets
        BY <1>1, <2>1, <4>1, SliceFacts DEF Stored, Offsets
      <4>3. QED
        BY <4>1, <4>2
    <3>2. CASE ~Started(p)
      BY <1>1, <3>2 DEF StoresInv
    <3>3. QED
      BY <3>1, <3>2
  <2>3. ASSUME NEW p \in Procs, NEW q \in Procs, p < q, Started(p), Started(q)
        PROVE  Stored(p) \cap Stored(q) = {}
    <3>1. cursor[p] \in Start(size, num_threads, p) .. End(p)
          /\ cursor[q] \in Start(size, num_threads, q) .. End(q)
      BY <1>1, <2>3 DEF StoresInv
    <3>2. CASE size = 0
      BY <1>1, <2>1, <3>1, <3>2, SliceFacts DEF Stored
    <3>3. CASE size # 0
      <4>1. End(p) <= Start(size, num_threads, q)
        BY <2>1, <2>3, <3>3, SlicesOrdered DEF End
      <4>2. QED
        BY <1>1, <3>1, <4>1, SliceFacts DEF Stored
    <3>4. QED
      BY <3>2, <3>3
  <2>4. ASSUME NEW p \in Procs, NEW q \in Procs, p # q, Started(p), Started(q)
        PROVE  Stored(p) \cap Stored(q) = {}
    <3>1. p < q \/ q < p
      BY <2>4
    <3>2. QED
      BY <2>3, <2>4, <3>1
  <2>5. visible \subseteq Offsets
    BY <1>1 DEF StoresInv
  <2>6. QED
    BY <2>2, <2>4, <2>5 DEF SlicesDisjoint, Started
<1>2. QED
  BY <1>1, InductiveInvariant, PTL

\* A call that lost a child does not return: the loop at hdf5_wrapper.h:199 has
\* no other way out than the counter.
THEOREM LostChildHangs == Spec => []LostChildBlocksReturn
<1>1. ASSUME IInv PROVE LostChildBlocksReturn
  <2> SUFFICES ASSUME NEW p \in 1 .. num_threads - 1,
                      pc[p] = "dead" \/ (pc[p] = "absent" /\ p <= i),
                      pc[0] \in {"returned", "destroyed"}
               PROVE  FALSE
    BY DEF LostChildBlocksReturn
  <2>1. p \in Children /\ p \in Nat /\ p > 0 /\ i \in Nat
    BY <1>1 DEF IInv, TypeOK, Children, Procs
  <2>2. p <= i
    BY <1>1, <2>1 DEF IInv, ControlInv
  <2>3. status = "BSP_SUCCESS" /\ size > 0
    BY <1>1, <2>1, <2>2 DEF IInv, TypeOK, ControlInv, CounterInv
  <2>4. p \notin Pending
    BY <1>1, <2>3 DEF IInv, CounterInv
  <2>5. QED
    BY <2>4 DEF Pending
<1>2. QED
  BY <1>1, InductiveInvariant, PTL

\* Nothing is in flight when the parent has returned.
LEMMA ReturnedBuffersEmpty ==
    ASSUME IInv, RmwIsFence, pc[0] \in {"returned", "destroyed"}, NEW p \in Procs
    PROVE  /\ buffer[p] = {}
           /\ pc[p] # "read"
<1> USE ProcsFacts DEF IInv
<1>1. CASE p = 0
  BY <1>1 DEF StoresInv
<1>2. CASE p # 0 /\ pc[p] = "absent"
  BY <1>2 DEF StoresInv, Started
<1>3. CASE p # 0 /\ pc[p] # "absent"
  <2>1. p \in Children /\ p \in 1 .. num_threads - 1 /\ p <= i
    BY <1>3 DEF TypeOK, ControlInv, Children, Procs
  <2>2. status = "BSP_SUCCESS" /\ size > 0
    BY <2>1 DEF TypeOK, ControlInv, CounterInv
  <2>3. pc[p] \in {"exit", "exited"}
    BY <2>1, <2>2 DEF CounterInv, Pending
  <2>4. QED
    BY <2>1, <2>3 DEF FenceInv
<1>4. QED
  BY <1>1, <1>2, <1>3

\* After the parent has returned no step changes what it sees in the array.
LEMMA QuietStep ==
    ASSUME RmwIsFence, IInv, [Next]_vars, pc[0] \in {"returned", "destroyed"}
    PROVE  visible' = visible
<1>1. ASSUME NEW p \in Procs, StoreElement(p) PROVE FALSE
  BY <1>1, ReturnedBuffersEmpty DEF StoreElement
<1>2. ASSUME NEW p \in Procs, NEW k \in buffer[p], Drain(p, k) PROVE FALSE
  BY <1>2, ReturnedBuffersEmpty
<1>3. CASE UNCHANGED visible
  BY <1>3
<1>4. \/ UNCHANGED visible
      \/ \E p \in Procs : StoreElement(p)
      \/ \E p \in Procs : \E k \in buffer[p] : Drain(p, k)
  BY DEF Next, Step, Fault, vars, OpenFails, ReturnEmpty, MapSegments, Fork, ForkFails,
         EndFork, EndRead, ReadFails, Decrement, Exit, EndWait, DestroyArray, Die
<1>5. QED
  BY <1>1, <1>2, <1>4

\* Where the decrement is a fence the array never changes under its new owner.
THEOREM ReturnedArrayIsQuiet == ASSUME RmwIsFence PROVE Spec => QuietAfterReturn
<1>1. IInv /\ [Next]_vars => [pc[0] \in {"returned", "destroyed"} => visible' = visible]_vars
  BY QuietStep
<1>2. QED
  BY <1>1, InductiveInvariant, PTL DEF Spec, QuietAfterReturn

--------------------------------------------------------------------------------
(* Completeness, and the refinement of the serial reader. *)

\* A process reads into memory it has attached, and leaves its loop at the end of its
\* slice.
AttachedInv ==
    /\ pc[0] \in {"fork", "read", "wait"} => 0 \in attached.array
    /\ \A p \in Children : pc[p] = "read" => p \in attached.array

WholeSliceInv ==
    /\ \A p \in Procs :
          pc[p] \in {"wait", "decrement", "exit", "exited"} => cursor[p] = End(p)
    /\ pc[0] \in {"returned", "destroyed"} /\ status = "BSP_SUCCESS" /\ size > 0
       => cursor[0] = End(0)

\* While H5Dread and the mappings succeed, a child that has reached the decrement
\* of hdf5_wrapper.h:190 has read all of its slice into memory it still has
\* attached.
SliceIInv == IInv /\ AttachedInv /\ WholeSliceInv

\* The stronger invariant of calls whose reads succeed holds initially.
LEMMA InitSlice == Init => AttachedInv /\ WholeSliceInv
BY ProcsFacts DEF Init, AttachedInv, WholeSliceInv, Children

\* While H5Dread and the mapping of the segments do not fail, a process leaves
\* its read with its whole slice stored.
LEMMA NextSlice ==
    ASSUME NoSilentFaults, IInv, AttachedInv, WholeSliceInv, [Next]_vars
    PROVE  AttachedInv' /\ WholeSliceInv'
<1> USE ProcsFacts DEF IInv, Children
<1> DEFINE Goal == AttachedInv /\ WholeSliceInv
<1>0. "shm" \notin Faults /\ "read" \notin Faults
  BY DEF NoSilentFaults
<1>1. CASE OpenFails \/ ReturnEmpty \/ ForkFails
  BY <1>1 DEF OpenFails, ReturnEmpty, ForkFails, TypeOK, ControlInv, AttachedInv,
              WholeSliceInv, End
<1>2. CASE MapSegments
  <2>1. attached'.array = {0}
    BY <1>0, <1>2 DEF MapSegments, Attachments
  <2>2. \A p \in Procs : p # 0 => pc'[p] = "absent"
    <3>1. pc[0] = "called" /\ i = 0
      BY <1>2 DEF MapSegments, ControlInv
    <3>2. \A p \in Procs : p # 0 => pc[p] = "absent"
      BY <3>1 DEF ControlInv, Procs
    <3>3. QED
      BY <1>2, <3>2 DEF MapSegments, TypeOK
  <2>3. pc'[0] \in {"fork", "dead"}
    BY <1>2 DEF MapSegments, TypeOK
  <2>4. QED
    BY <2>1, <2>2, <2>3 DEF AttachedInv, WholeSliceInv
<1>3. CASE Fork
  <2>1. PICK c \in Procs : c = i + 1 /\ c # 0 /\ pc[c] = "absent"
    BY <1>3 DEF Fork, TypeOK, ControlInv, Procs
  <2>2. pc' = [pc EXCEPT ![c] = "read"] /\ \A p \in Procs : p # c => cursor'[p] = cursor[p]
    BY <1>3, <2>1 DEF Fork, TypeOK
  <2>3. attached'.array = attached.array \cup {c} /\ 0 \in attached.array /\ pc[0] = "fork"
    BY <1>3, <2>1 DEF Fork, TypeOK, AttachedInv
  <2>4. UNCHANGED <<size, num_threads, status>>
    BY <1>3 DEF Fork
  <2>5. QED
    BY <2>1, <2>2, <2>3, <2>4 DEF TypeOK, AttachedInv, WholeSliceInv, End
<1>4. CASE EndFork
  BY <1>4 DEF EndFork, TypeOK, ControlInv, AttachedInv, WholeSliceInv, End
<1>5. ASSUME NEW p \in Procs, StoreElement(p) PROVE Goal'
  <2>1. pc' = pc /\ attached' = attached /\ UNCHANGED <<size, num_threads, status>>
    BY <1>5 DEF StoreElement
  <2>2. \A q \in Procs : q # p => cursor'[q] = cursor[q]
    BY <1>5 DEF StoreElement, TypeOK
  <2>3. pc[p] = "read"
    BY <1>5 DEF StoreElement
  <2>4. QED
    BY <2>1, <2>2, <2>3 DEF AttachedInv, WholeSliceInv, End
<1>6. ASSUME NEW p \in Procs, EndRead(p) PROVE Goal'
  BY <1>6 DEF EndRead, AfterRead, TypeOK, ControlInv, AttachedInv, WholeSliceInv, End
<1>7. ASSUME NEW p \in Procs, ReadFails(p) \/ Die(p) PROVE Goal'
  <2>1. pc[p] = "read" => p \in attached.array
    BY DEF AttachedInv
  <2>2. Die(p) /\ p # 0
    BY <1>0, <1>7, <2>1 DEF ReadFails, Die
  <2>3. pc' = [pc EXCEPT ![p] = "dead"] /\ attached'.array = attached.array \ {p}
        /\ UNCHANGED <<size, num_threads, status, cursor>>
    BY <2>2 DEF Die, DetachBoth, TypeOK
  <2>4. QED
    BY <2>2, <2>3 DEF TypeOK, AttachedInv, WholeSliceInv, End
<1>8. ASSUME NEW p \in Procs, NEW k \in buffer[p], Drain(p, k) PROVE Goal'
  BY <1>8 DEF Drain, AttachedInv, WholeSliceInv, End
<1>9. ASSUME NEW p \in Procs, p # 0, Decrement(p) PROVE Goal'
  BY <1>9 DEF Decrement, TypeOK, AttachedInv, WholeSliceInv, End
<1>10. ASSUME NEW p \in Procs, p # 0, Exit(p) PROVE Goal'
  <2>1. pc' = [pc EXCEPT ![p] = "exited"] /\ attached'.array = attached.array \ {p}
        /\ pc[p] = "exit" /\ UNCHANGED <<size, num_threads, status, cursor>>
    BY <1>10 DEF Exit, DetachBoth, TypeOK
  <2>2. QED
    BY <1>10, <2>1 DEF TypeOK, AttachedInv, WholeSliceInv, End
<1>11. CASE EndWait
  BY <1>11 DEF EndWait, DetachCounter, TypeOK, AttachedInv, WholeSliceInv, End
<1>12. CASE DestroyArray
  BY <1>12 DEF DestroyArray, TypeOK, ControlInv, AttachedInv, WholeSliceInv, End
<1>13. CASE UNCHANGED vars
  BY <1>13 DEF vars, AttachedInv, WholeSliceInv, End
<1>14. QED
  BY <1>1, <1>2, <1>3, <1>4, <1>5, <1>6, <1>7, <1>8, <1>9, <1>10, <1>11, <1>12,
     <1>13 DEF Next, Step, Fault

\* While no read and no mapping fails unnoticed, a process that has passed its
\* read loop has stored the whole of its slice, the invariant on which the
\* completeness of the array rests, in every reachable state.
LEMMA SliceInvariant == ASSUME NoSilentFaults PROVE Spec => []SliceIInv
<1>1. Init => SliceIInv
  BY InitIInv, InitSlice DEF SliceIInv
<1>2. SliceIInv /\ [Next]_vars => SliceIInv'
  BY NextIInv, NextSlice DEF SliceIInv
<1>3. QED
  BY <1>1, <1>2, PTL DEF Spec

\* The parent sees every element at the moment the counter lets it go.
LEMMA WaitOverComplete ==
    ASSUME RmwIsFence, SliceIInv, pc[0] = "wait", active_children <= 0
    PROVE  visible = Offsets
<1> USE ProcsFacts DEF SliceIInv, IInv
<1>1. Pending = {}
  <2>1. active_children = Cardinality(Pending)
    BY DEF CounterInv
  <2>2. QED
    BY <2>1, PendingFacts DEF TypeOK
<1>2. size \in Nat /\ num_threads \in 1 .. MaxThreads
  BY DEF TypeOK
<1>3. ASSUME NEW k \in Offsets PROVE k \in visible
  <2>0. k \in 0 .. size - 1 /\ num_threads \in Nat \ {0}
    BY <1>2, <1>3 DEF Offsets
  <2>1. PICK p \in 0 .. num_threads - 1 :
             k \in Start(size, num_threads, p) ..
                     Start(size, num_threads, p) + Count(size, num_threads, p) - 1
    BY <1>2, <2>0, SlicesCover
  <2>2. p \in Procs
    BY <1>2, <2>1 DEF Procs
  <2>3. buffer[p] = {} /\ pc[p] \in {"wait", "exit", "exited"}
    <3>1. CASE p = 0
      BY <3>1 DEF StoresInv
    <3>2. CASE p # 0
      <4>1. p \in Children /\ pc[p] \in {"exit", "exited"}
        BY <1>1, <1>2, <2>1, <2>2, <3>2 DEF Children, Pending
      <4>2. QED
        BY <4>1 DEF FenceInv
    <3>3. QED
      BY <3>1, <3>2
  <2>4. cursor[p] = End(p) /\ Stored(p) \subseteq visible
    BY <2>2, <2>3 DEF WholeSliceInv, StoresInv, Started
  <2>5. k \in Stored(p)
    <3>1. p \in Nat /\ Start(size, num_threads, p) \in Nat /\ Count(size, num_threads, p) \in Nat
      BY <1>2, <2>0, <2>2, SliceInBounds
    <3>2. cursor[p] = Start(size, num_threads, p) + Count(size, num_threads, p)
      BY <2>4 DEF End
    <3>3. QED
      BY <2>1, <3>1, <3>2 DEF Stored
  <2>6. QED
    BY <2>4, <2>5
<1>4. visible \subseteq Offsets
  BY DEF StoresInv
<1>5. QED
  BY <1>3, <1>4

\* The steps the caller can tell apart; every other step is internal.
Internal ==
    /\ UNCHANGED <<size, status>>
    /\ pc'[0] = "returned" <=> pc[0] = "returned"
    /\ pc'[0] = "destroyed" <=> pc[0] = "destroyed"

\* As the serial reader sees them, the steps of the parallel one are a return, a
\* destruction of the array, or nothing.
LEMMA StepKinds ==
    ASSUME IInv, [Next]_vars
    PROVE  OpenFails \/ ReturnEmpty \/ EndWait \/ DestroyArray \/ Internal
<1> USE ProcsFacts DEF IInv, Internal
<1>1. CASE MapSegments \/ Fork \/ ForkFails \/ EndFork
  <2>1. i + 1 # 0 /\ DOMAIN pc = Procs
    BY DEF TypeOK
  <2>2. QED
    BY <1>1, <2>1 DEF MapSegments, Fork, ForkFails, EndFork
<1>2. ASSUME NEW p \in Procs,
             StoreElement(p) \/ EndRead(p) \/ ReadFails(p) \/ Die(p)
      PROVE  Internal
  BY <1>2 DEF StoreElement, EndRead, ReadFails, Die, AfterRead, TypeOK
<1>3. ASSUME NEW p \in Procs, p # 0, Decrement(p) \/ Exit(p) PROVE Internal
  BY <1>3 DEF Decrement, Exit, TypeOK
<1>4. ASSUME NEW p \in Procs, NEW k \in buffer[p], Drain(p, k) PROVE Internal
  BY <1>4 DEF Drain
<1>5. CASE UNCHANGED vars
  BY <1>5 DEF vars
<1>6. QED
  BY <1>1, <1>2, <1>3, <1>4, <1>5 DEF Next, Step, Fault

\* A step into a successful return finds every offset visible.
LEMMA CompleteStep ==
    ASSUME RmwIsFence, SliceIInv, [Next]_vars, SuccessMeansComplete
    PROVE  SuccessMeansComplete'
<1> USE DEF SuccessMeansComplete, Succeeded
<1>1. IInv
  BY DEF SliceIInv
<1>2. CASE OpenFails
  BY <1>2 DEF OpenFails
<1>3. CASE ReturnEmpty
  BY <1>1, <1>3 DEF ReturnEmpty, IInv, ControlInv, Offsets
<1>4. CASE EndWait
  BY <1>4, WaitOverComplete DEF EndWait, WaitOver, Offsets
<1>5. CASE DestroyArray
  BY <1>1, <1>5 DEF DestroyArray, IInv, TypeOK, Procs
<1>6. CASE Internal
  BY <1>1, <1>6, QuietStep DEF Internal, Offsets
<1>7. QED
  BY <1>1, <1>2, <1>3, <1>4, <1>5, <1>6, StepKinds

\* A successful call returns every element of the dataset, for every number of
\* processes and every size, as long as H5Dread and the mapping of the segments
\* succeed and the decrement orders the stores before it.
THEOREM CompleteOnSuccess ==
    ASSUME RmwIsFence, NoSilentFaults PROVE Spec => []SuccessMeansComplete
<1>1. Init => SuccessMeansComplete
  BY ProcsFacts DEF Init, SuccessMeansComplete, Succeeded
<1>2. SliceIInv /\ SuccessMeansComplete /\ [Next]_vars => SuccessMeansComplete'
  BY CompleteStep
<1>3. QED
  BY <1>1, <1>2, SliceInvariant, PTL DEF Spec

\* Under the same assumptions the parallel reader implements the serial one: its
\* callers cannot tell it from bsp_read_array_allocator.
THEOREM ParallelImplementsSerial ==
    ASSUME RmwIsFence, NoSilentFaults PROVE Spec => ImplementsSerial
<1> USE DEF Serial!Next, Serial!vars
<1>1. Init => Serial!Init
  BY ProcsFacts DEF Init, Serial!Init
<1>2. ASSUME SliceIInv, SuccessMeansComplete, [Next]_vars
      PROVE  [Serial!Next]_Serial!vars
  <2> USE <1>2, ProcsFacts
  <2>1. IInv
    BY DEF SliceIInv
  <2>2. CASE OpenFails
    <3>1. Serial!ReturnError("BSP_ERROR_IO")
      BY <2>1, <2>2 DEF OpenFails, IInv, TypeOK, ControlInv, Serial!ReturnError
    <3>2. QED
      BY <3>1 DEF Serial!Errors
  <2>3. CASE ReturnEmpty
    <3>1. Serial!ReturnElements
      BY <2>1, <2>3 DEF ReturnEmpty, IInv, TypeOK, ControlInv, Serial!ReturnElements
    <3>2. QED
      BY <3>1
  <2>4. CASE EndWait
    <3>1. Serial!ReturnElements
      BY <2>1, <2>4, WaitOverComplete
         DEF EndWait, WaitOver, IInv, TypeOK, ControlInv, Offsets, Serial!ReturnElements
    <3>2. QED
      BY <3>1
  <2>5. CASE DestroyArray
    <3>1. Serial!DestroyArray
      BY <2>1, <2>5 DEF DestroyArray, IInv, TypeOK, ControlInv, Serial!DestroyArray
    <3>2. QED
      BY <3>1
  <2>6. CASE Internal
    <3>1. pc[0] = "returned" => visible' = visible
      BY <2>1, QuietStep
    <3>2. QED
      BY <2>6, <3>1 DEF Internal
  <2>7. QED
    BY <2>1, <2>2, <2>3, <2>4, <2>5, <2>6, StepKinds
<1>3. QED
  BY <1>1, <1>2, SliceInvariant, CompleteOnSuccess, PTL
     DEF Spec, ImplementsSerial, Serial!Spec

================================================================================
