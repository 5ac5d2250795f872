--------------------------------- MODULE Values ---------------------------------
(******************************************************************************)
(* The numbers of values, and the narrowest types for them.  Integers stand   *)
(* for the doubles that a float holds too; Fractional is one that no float    *)
(* holds, Rounded what it becomes when it is cast; Huge is 1e308, beyond the  *)
(* floats.  A value is <<real part, imaginary part>>; a real value's          *)
(* imaginary part is 0.                                                       *)
(******************************************************************************)
EXTENDS IndexTypes

CONSTANTS Fractional, Rounded, NaN, Huge, Infinity

ASSUME NumbersAssumption ==
    /\ {Fractional, Rounded, NaN} \subseteq 2 .. Huge - 1
    /\ Cardinality({Fractional, Rounded, NaN}) = 3
    /\ Huge \in Nat /\ Infinity \in Nat /\ Huge < Infinity

\* (double) (float) x == x, which is false of a NaN.
FitsFloat32(x) == x \notin {Fractional, NaN, Huge, -Huge}

Cast(x) ==
    CASE x = Fractional -> Rounded
      [] x = Huge -> Infinity
      [] x = -Huge -> -Infinity
      [] OTHER -> x

Zero == <<0, 0>>
Unset == <<Junk, Junk>>

\* C's ==, of both parts: a NaN equals nothing.
Equal(v, w) == v = w /\ v[1] # NaN /\ v[2] # NaN

\* All elements of an array equal its first one.
AllEqual(f) == \A k \in DOMAIN f : k = 0 \/ Equal(f[k], f[0])

FitsReal(f) == \A k \in DOMAIN f : FitsFloat32(f[k][1])     \* mutant
AllFit(f) == \A k \in DOMAIN f : FitsFloat32(f[k][1]) /\ FitsFloat32(f[k][2])

FloatTypes == {"float32", "float64", "complex32", "complex64"}

\* What an element of floating point type t holds of v.
Held(t, v) ==
    IF t \in {"float32", "complex32"} THEN <<Cast(v[1]), Cast(v[2])>> ELSE v

--------------------------------------------------------------------------------
(* The minimisers of minimize_values.h and of the MATLAB bindings choose the  *)
(* same types: unsigned ones if no value is negative, and signed ones, with   *)
(* the widths of the unsigned ones, otherwise.                                *)

Least(f) == CHOOSE k \in DOMAIN f : \A l \in DOMAIN f : f[k][1] <= f[l][1]
Greatest(f) == CHOOSE k \in DOMAIN f : \A l \in DOMAIN f : f[l][1] <= f[k][1]

IntegerType(f) ==
    LET min == f[Least(f)][1]
        max == f[Greatest(f)][1]
    IN  IF min >= 0 THEN Pick(max)
        ELSE IF max <= (Base \div 2) - 1 /\ min >= -(Base \div 2) THEN "int_narrow"
        ELSE "int_wide"

\* The type that is tried; of an array that has elements.
MinimalType(a) ==
    CASE a.type = "float64" /\ AllFit(a.data) -> "float32"
      [] a.type = "complex64" /\ AllFit(a.data) -> "complex32"
      [] a.type = "int_wide" -> IntegerType(a.data)
      [] OTHER -> a.type

\* The elements cast to it.
Minimized(a) ==
    [type |-> MinimalType(a),
     data |-> [k \in DOMAIN a.data |-> Held(MinimalType(a), a.data[k])]]

\* No narrower type holds the values.
Narrowest(a) ==
    /\ a.type \in {"float64", "complex64"} => ~AllFit(a.data)
    /\ a.type = "int_wide" =>
          \E k \in DOMAIN a.data : a.data[k][1] \notin -(Base \div 2) .. (Base \div 2) - 1

================================================================================
