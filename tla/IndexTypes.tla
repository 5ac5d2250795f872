------------------------------- MODULE IndexTypes -------------------------------
(******************************************************************************)
(* The unsigned integer types of indices and pointers (binsparse/types.h),    *)
(* reduced to two: a narrow one and a wide one, which takes the bytes of two  *)
(* narrow ones.  An array is its type and a function from 0 .. size - 1.      *)
(******************************************************************************)
EXTENDS Integers, FiniteSets

CONSTANT NarrowMax    \* largest index of the narrow type: UINT8_MAX in the code

ASSUME NarrowMaxAssumption == NarrowMax \in Nat \ {0}

Base == NarrowMax + 1
Cap(t) == IF t = "narrow" THEN NarrowMax ELSE Base * Base - 1

\* bsp_pick_integer_type
Pick(v) == IF v <= NarrowMax THEN "narrow" ELSE "wide"

Larger(x, y) == IF x > y THEN x ELSE y

Size(a) == Cardinality(DOMAIN a)

Junk == -1    \* memory nobody has written

Indexes(t, f) == [type |-> t, data |-> f]

Absent == Indexes("invalid", [k \in {} |-> Junk])

Uninitialised(t, n) == Indexes(t, [k \in 0 .. n - 1 |-> Junk])

\* What an assignment to an element of type t stores: reduction modulo 2^w.
Stored(t, v) == IF v = Junk THEN Junk ELSE v % (Cap(t) + 1)

\* bsp_array_read and bsp_array_write of every element
Converted(a, t) == Indexes(t, [k \in DOMAIN a.data |-> Stored(t, a.data[k])])

================================================================================
