------------------------------ MODULE MatrixStore ------------------------------
(******************************************************************************)
(* What the users of bsp_write_matrix and bsp_read_matrix may rely on: a file *)
(* maps each HDF5 group to at most one whole matrix.  A matrix appears in its *)
(* group in one step and is never replaced in place; it only disappears with  *)
(* the whole file (H5F_ACC_TRUNC, or a crash that damages the file).          *)
(******************************************************************************)
CONSTANTS
    Groups,     \* HDF5 groups of the file, the root group included
    Matrices,   \* the matrices the program writes
    NoMatrix    \* a group without a readable matrix

VARIABLES
    store,      \* the matrix each group holds
    reply       \* what the last completed call returned

vars == <<store, reply>>

Empty == [g \in Groups |-> NoMatrix]

NoReply == [op |-> "none", group |-> NoMatrix, ok |-> FALSE, matrix |-> NoMatrix]

Written(g, m) == [op |-> "write", group |-> g, ok |-> TRUE, matrix |-> m]

Failed(op, g) == [op |-> op, group |-> g, ok |-> FALSE, matrix |-> NoMatrix]

Init ==
    /\ store = Empty
    /\ reply = NoReply

\* A call is under way: the file may have been truncated.
Begin ==
    /\ store' \in {store, Empty}
    /\ reply' = NoReply

\* The matrix is in the file and the call says so.
Put(g, m) ==
    /\ store[g] = NoMatrix
    /\ store' = [store EXCEPT ![g] = m]
    /\ reply' = Written(g, m)

\* A write that fails leaves every whole matrix alone, but for truncation.
PutFails(g) ==
    /\ store' \in {store, Empty}
    /\ reply' = Failed("write", g)

\* A read returns the group's matrix.
Get(g) ==
    /\ store[g] # NoMatrix
    /\ reply' = [op |-> "read", group |-> g, ok |-> TRUE, matrix |-> store[g]]
    /\ UNCHANGED store

GetFails(g) ==
    /\ reply' = Failed("read", g)
    /\ UNCHANGED store

\* The program dies during a write: no reply, the matrix may have made it.
Crash ==
    /\ \/ store' \in {store, Empty}
       \/ \E g \in Groups, m \in Matrices :
             store[g] = NoMatrix /\ store' = [store EXCEPT ![g] = m]
    /\ reply' = NoReply

Next ==
    \/ Begin
    \/ \E g \in Groups, m \in Matrices : Put(g, m)
    \/ \E g \in Groups : PutFails(g) \/ Get(g) \/ GetFails(g)
    \/ Crash

Spec == Init /\ [][Next]_vars
================================================================================
