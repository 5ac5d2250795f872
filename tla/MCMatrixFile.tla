------------------------------ MODULE MCMatrixFile ------------------------------
(******************************************************************************)
(* Instances of MatrixFile for TLC: a dense vector, a COO matrix, a CSR       *)
(* matrix and a vector whose shape does not fit, in the root group and one    *)
(* other group.                                                               *)
(******************************************************************************)
EXTENDS MatrixFile

CONSTANTS dvec, coo, csr, badvec

MCMatrices == {dvec, coo, csr, badvec}

MCArraysOf ==
    [m \in MCMatrices |->
        CASE m \in {dvec, badvec} -> {"values"}
          [] m = coo -> {"values", "indices_0", "indices_1"}
          [] m = csr -> {"values", "indices_1", "pointers_to_1"}]

MCValid == {dvec, coo, csr}
================================================================================
