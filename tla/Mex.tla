---------------------------------- MODULE Mex ----------------------------------
(******************************************************************************)
(* A MATLAB or Octave session that calls the MEX functions on one output      *)
(* file, in any order and again after a failure: the coordinate writer, the   *)
(* in-memory converter, the minimiser, the struct reader and writer and the   *)
(* text datasets.  binsparse_write_ssmc_problem is one such order.            *)
(******************************************************************************)
EXTENDS SsmcCoo, MatlabMinimize, TextDataset

CONSTANT Problems   \* what the sessions work on

\* A and Zeros are matrices of MATLAB's, whose entries are all in memory and so no
\* more than size_t counts; a struct made by hand has the fields of a struct, arrays
\* of MATLAB's classes that the kernel's conversions read without a check, and a value
\* for each entry that it counts.
ASSUME ProblemsAssumption ==
    \A p \in Problems :
        /\ p.names \subseteq Names /\ p.foreign.kind \in {"none", "text"}
        /\ IsMatlabMatrix(p.a) /\ IsMatlabMatrix(p.z)
        /\ Nnz(p.a) + Nnz(p.z) < Base * Base
        /\ p.struct = NoStruct \/ IsStruct(p.struct)

vars == <<mexVars, cooVars, ssmcVars, minVars, textVars>>

Init ==
    /\ problem \in Problems
    /\ SessionBegins
    /\ CooIdle
    /\ SsmcIdle
    /\ MinIdle
    /\ TextIdle

\* A failed assertion ends the session.
Aborted == stage = "aborted" /\ UNCHANGED vars

Next ==
    \/ CooNext /\ UNCHANGED <<ssmcVars, minVars, textVars>>
    \/ SsmcNext /\ UNCHANGED <<cooVars, minVars, textVars>>
    \/ MinNext /\ UNCHANGED <<cooVars, textVars>>
    \/ TextNext /\ UNCHANGED <<cooVars, ssmcVars, minVars>>
    \/ Aborted

Spec == Init /\ [][Next]_vars

--------------------------------------------------------------------------------
(* Properties. *)

\* The types of the variables; the loops stay inside their arrays.
TypeOK ==
    /\ call \in {"none", "write_ssmc_coo", "from_ssmc", "minimize_types", "write_string",
                 "read_string"}
    /\ call = "none" <=> stage = "none"
    /\ handles \subseteq {"file", "group", "space", "dataset", "dset", "type"}
    /\ column \in 0 .. A.ncols
    /\ row \in 0 .. A.nrows
    /\ written \in 0 .. NnzOut
    /\ Len(buffer) \in 0 .. (IF Coo("fill") THEN Capacity ELSE 0)
    /\ out_ptr \in 0 .. NnzOut

IsFinished(o) == o.kind = "group" /\ o.descriptor.format # "none"

Truncated == \A n \in AuxNames : file'.objects[n] = NoObject

\* A matrix that has its descriptor never changes again, whatever is called,
\* refused or retried on its file, until a primary matrix replaces the file as
\* a whole; and until then a name that was once taken stays taken.
FinishedStays ==
    [][\A n \in Names :
          /\ IsFinished(file.objects[n]) =>
                file'.objects[n] = file.objects[n] \/ Truncated
          /\ NameTaken(file, n) => NameTaken(file', n) \/ Truncated]_vars

\* The coordinate writer and the in-memory path with the minimiser are two ways
\* to the same file: they agree on is_iso and on the type of the values.  (Where
\* there are no values the minimiser leaves their type as it is.)
PathsAgree ==
    last.function = "minimize_types" /\ workspace.format = "COO" /\ workspace.nnz > 0
            /\ problem.struct = NoStruct =>
        \A n \in Names :
            LET o == file.objects[n]
            IN  o.kind = "group" /\ o.descriptor.format = "COO" =>
                   /\ o.descriptor.is_iso = workspace.is_iso
                   /\ o.values.type = workspace.values.type

================================================================================
