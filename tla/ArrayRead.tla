------------------------------- MODULE ArrayRead -------------------------------
(******************************************************************************)
(* What a caller of the library's array readers sees: one HDF5 dataset of     *)
(* `size` elements becomes a bsp_array_t in a single step, or the call fails  *)
(* with an error code and leaves the default (empty) array.                   *)
(*                                                                            *)
(* This is the behaviour of the serial reader bsp_read_array_allocator, whose *)
(* intermediate steps nobody else can observe.  The parallel reader           *)
(* (ParallelRead) is shown to implement it.                                   *)
(******************************************************************************)
EXTENDS Naturals

VARIABLES
    size,       \* dims[0], the number of elements of the dataset
    status,     \* "called" until the reader returns, then its bsp_error_t
    contents,   \* the offsets of array->data that hold the file's elements
    destroyed   \* the caller has passed the array to bsp_destroy_array_t

vars == <<size, status, contents, destroyed>>

Errors == {"BSP_ERROR_IO", "BSP_ERROR_MEMORY"}

Init ==
    /\ size \in Nat
    /\ status = "called"
    /\ contents = {}
    /\ destroyed = FALSE

\* The dataset is opened, the array allocated, H5Dread fills all of it.
ReturnElements ==
    /\ status = "called"
    /\ status' = "BSP_SUCCESS"
    /\ contents' = 0 .. size - 1
    /\ UNCHANGED <<size, destroyed>>

\* Opening, allocating or reading failed: the default array and a code.
ReturnError(e) ==
    /\ status = "called"
    /\ status' = e
    /\ UNCHANGED <<size, contents, destroyed>>

\* The caller gives the array back.
DestroyArray ==
    /\ status # "called"
    /\ ~destroyed
    /\ destroyed' = TRUE
    /\ contents' = {}
    /\ UNCHANGED <<size, status>>

Next ==
    \/ ReturnElements
    \/ \E e \in Errors : ReturnError(e)
    \/ DestroyArray

Spec == Init /\ [][Next]_vars
================================================================================
