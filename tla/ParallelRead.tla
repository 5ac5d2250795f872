------------------------------ MODULE ParallelRead ------------------------------
(******************************************************************************)
(* bsp_read_array_parallel (include/binsparse/hdf5_wrapper.h).                *)
(*                                                                            *)
(* The calling process (process 0) opens a dataset, maps one System V shared  *)
(* memory segment for the elements and one for an atomic counter, forks       *)
(* num_threads - 1 children and reads its own slice of the dataset into the   *)
(* segment; child p reads slice p, decrements the counter and exits; the      *)
(* parent spins until the counter is not positive and returns the array.      *)
(*                                                                            *)
(* Elements are abstracted to their offset: an offset is in `visible` once    *)
(* array->data holds the file's element there as the parent sees memory, and  *)
(* in buffer[p] between child p's store and that moment.                      *)
(******************************************************************************)
EXTENDS Integers, FiniteSets

CONSTANTS
    MaxThreads,   \* bound: the largest num_threads a caller asks for
    Sizes,        \* bound: the dataset sizes considered
    RmwIsFence,   \* TRUE: an atomic read-modify-write drains the store buffer
                  \* (x86).  FALSE: memory_order_relaxed orders nothing (C11)
    Faults        \* what the environment may do to the call, see FaultKinds

FaultKinds == {"open",    \* H5Dopen2 / H5Dget_space / the extent query fails
               "shm",     \* shmget or shmat fails
               "fork",    \* fork() returns -1
               "read",    \* H5Dread fails
               "kill"}    \* a child is killed

ASSUME MaxThreadsAssumption == MaxThreads \in Nat \ {0}
ASSUME SizesAssumption == Sizes \subseteq Nat
ASSUME FenceAssumption == RmwIsFence \in BOOLEAN
ASSUME FaultsAssumption == Faults \subseteq FaultKinds

VARIABLES
    num_threads,      \* the argument
    size,             \* dims[0] of the dataset
    pc,               \* where each process is; "absent" before its fork
    i,                \* the parent's fork loop counter
    cursor,           \* next offset each process stores
    buffer,           \* stores of each process the parent cannot see yet
    visible,          \* offsets the parent sees filled
    active_children,  \* the shared atomic counter
    attached,         \* who has each shared memory segment attached
    status            \* the bsp_error_t returned, "called" before

vars == <<num_threads, size, pc, i, cursor, buffer, visible, active_children,
          attached, status>>

Procs == 0 .. MaxThreads - 1     \* process p is the one with thread_num = p
Children == Procs \ {0}
Offsets == 0 .. size - 1

--------------------------------------------------------------------------------
(* The slices.  chunk_size, start and count of the process with thread_num p. *)

ChunkSizeFloor(s, n) == s \div n                            \* mutant
ChunkSize(s, n) == (s + n - 1) \div n

StartFloor(s, n, p) == (s \div n) * p                       \* mutant
Start(s, n, p) == IF ChunkSize(s, n) * p < s THEN ChunkSize(s, n) * p ELSE s

Count(s, n, p) ==
    IF Start(s, n, p) + ChunkSize(s, n) <= s
    THEN ChunkSize(s, n)
    ELSE s - Start(s, n, p)

End(p) == Start(size, num_threads, p) + Count(size, num_threads, p)

\* What process p has stored so far.
Stored(p) == Start(size, num_threads, p) .. cursor[p] - 1

\* The value the counter starts from.
AllThreads(n) == n                                          \* mutant
ChildCount(n) == n - 1

\* The condition that ends the parent's spin.
WaitOverEarly == active_children <= 1                       \* mutant
WaitOver == active_children <= 0

\* Whether the counter's decrement may happen before p's stores are visible.
AnyOrder(p) == TRUE                                         \* mutant
StoresOrdered(p) == RmwIsFence => buffer[p] = {}

\* bsp_shm_new, _attach and _delete of both segments by the parent; shmat fails
\* for the elements unless a holds.
Attachments(a) == [array |-> IF a THEN {0} ELSE {}, counter |-> {0}]

\* The parent's bsp_shm_detach(active_children).
KeepCounter == attached                                     \* mutant
DetachCounter == [attached EXCEPT !.counter = @ \ {0}]

\* The end of process p detaches both segments.
DetachBoth(p) == [s \in DOMAIN attached |-> attached[s] \ {p}]

--------------------------------------------------------------------------------
Init ==
    /\ num_threads \in 1 .. MaxThreads
    /\ size \in Sizes
    /\ pc = [p \in Procs |-> IF p = 0 THEN "called" ELSE "absent"]
    /\ i = 0
    /\ cursor = [p \in Procs |-> 0]
    /\ buffer = [p \in Procs |-> {}]
    /\ visible = {}
    /\ active_children = 0
    /\ attached = [array |-> {}, counter |-> {}]
    /\ status = "called"

\* One of the three checks on the dataset fails: default array, BSP_ERROR_IO.
OpenFails ==
    /\ "open" \in Faults
    /\ pc[0] = "called"
    /\ pc' = [pc EXCEPT ![0] = "returned"]
    /\ status' = "BSP_ERROR_IO"
    /\ UNCHANGED <<num_threads, size, i, cursor, buffer, visible,
                   active_children, attached>>

\* dims[0] == 0: an empty array, no segment and no process.
ReturnEmpty ==
    /\ pc[0] = "called"
    /\ size = 0
    /\ pc' = [pc EXCEPT ![0] = "returned"]
    /\ status' = "BSP_SUCCESS"
    /\ UNCHANGED <<num_threads, size, i, cursor, buffer, visible,
                   active_children, attached>>

\* Both segments are created, attached and marked for removal, and the counter
\* set.  A segment that could not be mapped leaves the pointer (void*) -1: for
\* the elements nobody notices yet, for the counter the store to it faults.
MapSegments ==
    /\ pc[0] = "called"
    /\ size > 0
    /\ \E a, c \in (IF "shm" \in Faults THEN BOOLEAN ELSE {TRUE}) :
          /\ attached' = IF c THEN Attachments(a) ELSE attached
          /\ active_children' = IF c THEN ChildCount(num_threads) ELSE active_children
          /\ pc' = [pc EXCEPT ![0] = IF c THEN "fork" ELSE "dead"]
    /\ i' = 0
    /\ UNCHANGED <<num_threads, size, cursor, buffer, visible, status>>

\* new_pid != 0 in the parent; in the child thread_num = i + 1 and break.
Fork ==
    /\ pc[0] = "fork"
    /\ i < num_threads - 1
    /\ pc' = [pc EXCEPT ![i + 1] = "read"]
    /\ cursor' = [cursor EXCEPT ![i + 1] = Start(size, num_threads, i + 1)]
    /\ attached' = [s \in DOMAIN attached |->
                      IF 0 \in attached[s] THEN attached[s] \cup {i + 1}
                                           ELSE attached[s]]
    /\ i' = i + 1
    /\ UNCHANGED <<num_threads, size, buffer, visible, active_children, status>>

\* fork() returns -1, which is != 0 and stored as the pid of a child.
ForkFails ==
    /\ "fork" \in Faults
    /\ pc[0] = "fork"
    /\ i < num_threads - 1
    /\ i' = i + 1
    /\ UNCHANGED <<num_threads, size, pc, cursor, buffer, visible,
                   active_children, attached, status>>

EndFork ==
    /\ pc[0] = "fork"
    /\ i = num_threads - 1
    /\ pc' = [pc EXCEPT ![0] = "read"]
    /\ cursor' = [cursor EXCEPT ![0] = Start(size, num_threads, 0)]
    /\ UNCHANGED <<num_threads, size, i, buffer, visible, active_children,
                   attached, status>>

\* H5Dread copies the next element of the hyperslab into the segment.  The
\* parent always sees its own stores.
StoreElement(p) ==
    /\ pc[p] = "read"
    /\ cursor[p] < End(p)
    /\ p \in attached.array
    /\ IF p = 0
       THEN visible' = visible \cup {cursor[p]} /\ UNCHANGED buffer
       ELSE buffer' = [buffer EXCEPT ![p] = @ \cup {cursor[p]}] /\ UNCHANGED visible
    /\ cursor' = [cursor EXCEPT ![p] = @ + 1]
    /\ UNCHANGED <<num_threads, size, pc, i, active_children, attached, status>>

AfterRead(p) == IF p = 0 THEN "wait" ELSE "decrement"

\* H5Dread has returned (or was skipped, count = 0): close the handles; the
\* parent frees pids and goes to wait.
EndRead(p) ==
    /\ pc[p] = "read"
    /\ cursor[p] = End(p)
    /\ pc' = [pc EXCEPT ![p] = AfterRead(p)]
    /\ UNCHANGED <<num_threads, size, i, cursor, buffer, visible,
                   active_children, attached, status>>

\* H5Dread fails somewhere in the slice.  Its return value is not looked at.
ReadFails(p) ==
    /\ pc[p] = "read"
    /\ cursor[p] < End(p)
    /\ "read" \in Faults \/ p \notin attached.array
    /\ pc' = [pc EXCEPT ![p] = AfterRead(p)]
    /\ UNCHANGED <<num_threads, size, i, cursor, buffer, visible,
                   active_children, attached, status>>

\* A store becomes visible to the other processes.
Drain(p, k) ==
    /\ k \in buffer[p]
    /\ buffer' = [buffer EXCEPT ![p] = @ \ {k}]
    /\ visible' = visible \cup {k}
    /\ UNCHANGED <<num_threads, size, pc, i, cursor, active_children, attached,
                   status>>

\* atomic_fetch_add_explicit(active_children, -1, memory_order_relaxed)
Decrement(p) ==
    /\ pc[p] = "decrement"
    /\ StoresOrdered(p)
    /\ active_children' = active_children - 1
    /\ pc' = [pc EXCEPT ![p] = "exit"]
    /\ UNCHANGED <<num_threads, size, i, cursor, buffer, visible, attached,
                   status>>

\* The child detaches both segments and exits, or is killed on the way.
Exit(p) ==
    /\ pc[p] = "exit"
    /\ pc' = [pc EXCEPT ![p] = "exited"]
    /\ attached' = DetachBoth(p)
    /\ UNCHANGED <<num_threads, size, i, cursor, buffer, visible,
                   active_children, status>>

\* The counter is no longer positive: detach it and return.
EndWait ==
    /\ pc[0] = "wait"
    /\ WaitOver
    /\ pc' = [pc EXCEPT ![0] = "returned"]
    /\ attached' = DetachCounter
    /\ status' = "BSP_SUCCESS"
    /\ UNCHANGED <<num_threads, size, i, cursor, buffer, visible,
                   active_children>>

\* The caller's bsp_destroy_array_t: bsp_shm_free detaches the elements.
DestroyArray ==
    /\ pc[0] = "returned"
    /\ pc' = [pc EXCEPT ![0] = "destroyed"]
    /\ attached' = [attached EXCEPT !.array = @ \ {0}]
    /\ UNCHANGED <<num_threads, size, i, cursor, buffer, visible,
                   active_children, status>>

\* A child is killed before its decrement, or a process faults storing through
\* (void*) -1.  The kernel detaches its segments.
Die(p) ==
    /\ \/ "kill" \in Faults /\ p # 0 /\ pc[p] \in {"read", "decrement"}
       \/ pc[p] = "read" /\ cursor[p] < End(p) /\ p \notin attached.array
    /\ pc' = [pc EXCEPT ![p] = "dead"]
    /\ attached' = DetachBoth(p)
    /\ UNCHANGED <<num_threads, size, i, cursor, buffer, visible,
                   active_children, status>>

--------------------------------------------------------------------------------
\* The steps the code takes by itself once the operating system schedules it.
Step(p) ==
    \/ /\ p = 0
       /\ ReturnEmpty \/ MapSegments \/ Fork \/ EndFork \/ EndWait
    \/ StoreElement(p) \/ EndRead(p)
    \/ /\ p # 0
       /\ Decrement(p) \/ Exit(p)

Fault == OpenFails \/ ForkFails \/ \E p \in Procs : ReadFails(p) \/ Die(p)

Next ==
    \/ \E p \in Procs : Step(p)
    \/ \E p \in Procs : \E k \in buffer[p] : Drain(p, k)
    \/ DestroyArray
    \/ Fault

Spec == Init /\ [][Next]_vars

\* Every process keeps being scheduled and every store reaches memory.
Fairness ==
    /\ \A p \in Procs : WF_vars(Step(p))
    /\ \A p \in Procs : WF_vars(\E k \in buffer[p] : Drain(p, k))

FairSpec == Spec /\ Fairness

--------------------------------------------------------------------------------
(* Properties. *)

\* The types of the variables; the shared counter is never negative and never
\* more than the children the call can have.
TypeOK ==
    /\ num_threads \in 1 .. MaxThreads
    /\ size \in Sizes
    /\ pc \in [Procs -> {"absent", "called", "fork", "read", "wait", "returned",
                         "destroyed", "decrement", "exit", "exited", "dead"}]
    /\ i \in 0 .. MaxThreads - 1
    /\ cursor \in [Procs -> Nat]
    /\ buffer \in [Procs -> SUBSET Nat]
    /\ visible \in SUBSET Nat
    /\ active_children \in 0 .. MaxThreads - 1
    /\ attached \in [{"array", "counter"} -> SUBSET Procs]
    /\ status \in {"called", "BSP_SUCCESS", "BSP_ERROR_IO"}

Succeeded == pc[0] = "returned" /\ status = "BSP_SUCCESS"

\* Concurrent processes never store the same element twice and never store
\* outside the array, whatever num_threads and the size are: the rounding and
\* the two clamps in start and count leave no overlap.
SlicesDisjoint ==
    /\ \A p \in Procs : buffer[p] \cup visible \subseteq Offsets
    /\ \A p, q \in Procs :
          /\ p # q
          /\ pc[p] \notin {"absent", "called", "fork"}
          /\ pc[q] \notin {"absent", "called", "fork"}
          => Stored(p) \cap Stored(q) = {}

\* A call that returns BSP_SUCCESS returns an array with every element of the
\* dataset in it, as the caller's next load sees memory.
SuccessMeansComplete == Succeeded => visible = Offsets

\* Once the array is the caller's, no store of a child still on its way changes
\* it: callers rewrite the array in place (bsp_fp_array_to_complex, the value
\* minimisation) and free it.
QuietAfterReturn ==
    [][pc[0] \in {"returned", "destroyed"} => visible' = visible]_vars

\* A child that was never forked or died before its decrement keeps the parent
\* in its loop for ever: the call hangs, it never returns a partial array.
LostChildBlocksReturn ==
    (\E p \in 1 .. num_threads - 1 :
        pc[p] = "dead" \/ (pc[p] = "absent" /\ p <= i))
    => pc[0] \notin {"returned", "destroyed"}

\* With memory_order_relaxed alone the array of a successful call is complete
\* once the stores in flight have landed, and they do land.
CompleteInTheEnd == Succeeded ~> visible = Offsets

\* Without lost children the call returns.
Returns == <>(status # "called")

\* After the caller has destroyed the array both segments lose their last
\* attachment, so that the kernel frees them (they are already marked).
SegmentsReclaimed ==
    pc[0] = "destroyed" ~> attached.array = {} /\ attached.counter = {}

--------------------------------------------------------------------------------
(* The inductive invariant behind the properties above.                       *)

\* The process has computed its slice.
Started(p) == pc[p] \notin {"absent", "called", "fork"}

\* The children whose decrement is still to come, if ever.
Pending == {p \in 1 .. num_threads - 1 : pc[p] \notin {"exit", "exited"}}

\* Which control points go together.
ControlInv ==
    /\ pc[0] \in {"called", "fork", "read", "wait", "returned", "destroyed",
                  "dead"}
    /\ \A p \in Children :
          pc[p] \in {"absent", "read", "decrement", "exit", "exited", "dead"}
    /\ \A p \in Children : pc[p] # "absent" => p <= i
    /\ i <= num_threads - 1
    /\ pc[0] = "called" => i = 0 /\ visible = {}
    /\ (status = "called") <=> (pc[0] \notin {"returned", "destroyed"})
    /\ status = "BSP_ERROR_IO" => i = 0 /\ visible = {}
    /\ pc[0] \in {"fork", "read", "wait"} => size > 0

\* A started process has stored a prefix of its slice, one that has not has
\* stored nothing; what it stored is in its buffer or visible.
StoresInv ==
    /\ visible \subseteq Offsets
    /\ buffer[0] = {}
    /\ \A p \in Procs :
          IF Started(p)
          THEN /\ cursor[p] \in Start(size, num_threads, p) .. End(p)
               /\ buffer[p] \subseteq Stored(p)
               /\ Stored(p) \subseteq buffer[p] \cup visible
          ELSE /\ cursor[p] = 0
               /\ buffer[p] = {}

\* Once the counter is set it counts the children yet to decrement it, and a
\* successful return saw it at zero.
CounterInv ==
    /\ pc[0] \in {"fork", "read", "wait"} \/ (\E p \in Children : pc[p] # "absent")
       => active_children = Cardinality(Pending)
    /\ pc[0] \in {"returned", "destroyed"} /\ status = "BSP_SUCCESS" /\ size > 0
       => Pending = {}
    /\ size = 0 => i = 0

\* Where the decrement drains the store buffer nothing is in flight after it.
FenceInv ==
    RmwIsFence => \A p \in Children : pc[p] \in {"exit", "exited"} => buffer[p] = {}

\* Together they are inductive, under every fault and on both kinds of memory:
\* the counter of hdf5_wrapper.h:153-201 counts the children that still owe the
\* parent a part of the array.
IInv == TypeOK /\ ControlInv /\ StoresInv /\ CounterInv /\ FenceInv

\* The faults the code does not look at.
NoSilentFaults == Faults \cap {"shm", "read"} = {}

--------------------------------------------------------------------------------
\* The parallel reader implements the reader its callers use it in place of.
Serial == INSTANCE ArrayRead WITH
    contents <- IF pc[0] = "returned" THEN visible ELSE {},
    destroyed <- pc[0] = "destroyed"

ImplementsSerial == Serial!Spec

================================================================================
