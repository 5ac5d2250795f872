-------------------------------- MODULE MexCall --------------------------------
(******************************************************************************)
(* What the MEX functions of bindings/matlab share in one MATLAB or Octave    *)
(* session: the HDF5 file, the HDF5 handles that are open, and how a call     *)
(* ends.  A call that fails leaves by mexErrMsgIdAndTxt; MATLAB then reclaims *)
(* what mxMalloc gave it, and nothing reclaims its HDF5 handles.              *)
(******************************************************************************)
EXTENDS Values

CONSTANTS
    Root,      \* the group argument ''
    AuxNames,  \* the names of auxiliary components
    MayFail    \* HDF5 calls may fail

ASSUME MexAssumption == Root \notin AuxNames /\ MayFail \in BOOLEAN

VARIABLES
    problem,   \* the MATLAB matrices and texts of the session and the functions
               \* it calls
    file,      \* the output file
    call,      \* the MEX function under way, "none" between two calls
    stage,     \* its next step
    handles,   \* the HDF5 objects that are open
    raised,    \* the last call's error identifier, "none" if it returned
    last       \* the last call that returned, with its argument

mexVars == <<problem, file, call, stage, handles, raised, last>>

--------------------------------------------------------------------------------
(* The file: objects by name, matrix groups and text datasets. *)

Names == {Root} \cup AuxNames

NoObject == [kind |-> "none"]

NoDescriptor == [format |-> "none"]

EmptyGroup ==
    [kind |-> "group", values |-> Absent, indices_0 |-> Absent,
     indices_1 |-> Absent, pointers_to_1 |-> Absent, descriptor |-> NoDescriptor]

AbsentFile == [exists |-> FALSE, objects |-> [n \in Names |-> NoObject]]

\* H5Fcreate with H5F_ACC_TRUNC
NewFile ==
    [exists |-> TRUE,
     objects |-> [n \in Names |-> IF n = Root THEN EmptyGroup ELSE NoObject]]

\* access(filename, F_OK) == 0 ? H5Fopen : H5Fcreate
OpenedFile == IF file.exists THEN file ELSE NewFile

NeverTaken(f, n) == FALSE                                   \* mutant
NameTaken(f, n) == f.objects[n] # NoObject

WithObject(f, n, o) == [f EXCEPT !.objects[n] = o]

\* A dataset whose H5Dwrite failed holds the fill value.
Unfilled(a, fill) == [a EXCEPT !.data = [k \in DOMAIN @ |-> fill]]

--------------------------------------------------------------------------------
(* Calls. *)

NoCall == [function |-> "none"]

\* There is no output file, or one that another program wrote a text to.
SessionBegins ==
    /\ file = IF problem.foreign = NoObject THEN AbsentFile
              ELSE [NewFile EXCEPT !.objects = [n \in Names |->
                      IF n = Root THEN EmptyGroup ELSE problem.foreign]]
    /\ call = "none"
    /\ stage = "none"
    /\ handles = {}
    /\ raised = "none"
    /\ last = NoCall

Enter(function, first) ==
    /\ call = "none"
    /\ function \in problem.calls
    /\ call' = function
    /\ stage' = first
    /\ raised' = "none"
    /\ last' = NoCall
    /\ UNCHANGED problem

Proceed(next) == stage' = next /\ UNCHANGED <<problem, call, raised, last>>

\* mexErrMsgIdAndTxt
Raise(id) ==
    /\ call' = "none"
    /\ stage' = "none"
    /\ raised' = id
    /\ UNCHANGED <<problem, last>>

Leave(what) ==
    /\ call' = "none"
    /\ stage' = "none"
    /\ last' = what
    /\ UNCHANGED <<problem, raised>>

At(function, step) == call = function /\ stage = step

--------------------------------------------------------------------------------
(* Properties of every call. *)

\* However a call ends, the HDF5 objects it opened are closed: the session goes
\* on, and a file that stays open cannot be opened, replaced or read whole.
HandlesClosed == call = "none" => handles = {}

================================================================================
