------------------------------- MODULE Mex_proofs -------------------------------
(******************************************************************************)
(* Proofs about sessions of the MEX functions, for all matrices, texts and    *)
(* structs, all sets of names, and any number of calls and failures.          *)
(******************************************************************************)
EXTENDS Mex, TLAPS

--------------------------------------------------------------------------------
(* Calls and their HDF5 handles. *)

\* The HDF5 objects that are open at a stage of a call.
OpenInCoo ==
    CASE stage \in {"values", "dataset", "columns", "descriptor"} -> FileHandles
      [] stage = "fill" -> FileHandles \cup {"space", "dataset"}
      [] OTHER -> {}
OpenInWrite ==
    CASE stage \in {"exists", "type"} -> {"file"}
      [] stage = "space" -> {"file", "type"}
      [] stage = "create" -> {"file", "type", "space"}
      [] stage = "write" -> {"file", "type", "space", "dset"}
      [] OTHER -> {}
OpenInRead ==
    CASE stage = "dataset" -> {"file"}
      [] stage = "class" -> {"file", "dset"}
      [] stage = "count" -> {"file", "dset", "type"}
      [] stage = "read" -> {"file", "dset", "type", "space"}
      [] OTHER -> {}

OpenNow ==
    CASE call = "write_ssmc_coo" -> OpenInCoo
      [] call = "write_string" -> OpenInWrite
      [] call = "read_string" -> OpenInRead
      [] OTHER -> {}

Calls == {"none", "write_ssmc_coo", "from_ssmc", "minimize_types", "write_string",
          "read_string"}

\* A call has the handles of its stage open, and nothing has returned since it began.
CallInv ==
    /\ call \in Calls
    /\ call = "none" <=> stage = "none"
    /\ handles = OpenNow
    /\ call # "none" => last = NoCall

LEMMA EnterCall ==
    ASSUME CallInv, UNCHANGED handles,
           NEW f \in Calls \ {"none"}, NEW s \in {"arguments", "values", "encode", "open"},
           <<f, s>> # <<"write_ssmc_coo", "values">>, Enter(f, s)
    PROVE  CallInv'
  BY DEF CallInv, OpenNow, OpenInCoo, OpenInWrite, OpenInRead, Enter

LEMMA EndCall ==
    ASSUME CallInv, NEW x, Raise(x) \/ Leave(x), handles' = {}
    PROVE  CallInv'
<1>1. call' = "none" /\ stage' = "none"
  BY DEF Raise, Leave
<1>2. OpenNow' = {}
  BY <1>1 DEF OpenNow
<1>3. QED
  BY <1>1, <1>2 DEF CallInv, Calls

LEMMA InitCallInv == Init => CallInv
  BY DEF Init, SessionBegins, CallInv, OpenNow, Calls

LEMMA CooCallInv == ASSUME CallInv, CooNext PROVE CallInv'
<1> USE DEF Coo, At
<1>1. ASSUME NEW g \in problem.names, CooCall(g) PROVE CallInv'
  BY <1>1, EnterCall DEF CooCall, Calls
<1>2. CASE CooRefuse \/ CooDuplicate
  <2>1. handles = {}
    BY <1>2 DEF CooRefuse, CooDuplicate, CallInv, OpenNow, OpenInCoo
  <2>2. QED
    BY <1>2, <2>1, EndCall DEF CooRefuse, CooDuplicate
<1>3. CASE CooCount
  BY <1>3 DEF CooCount, Proceed, CallInv, OpenNow, OpenInCoo
<1>4. CASE TakeA \/ TakeZ \/ NextColumn
  BY <1>4 DEF TakeA, TakeZ, NextColumn, mexVars, CallInv, OpenNow, OpenInCoo
<1>5. CASE CooScattered
  BY <1>5 DEF CooScattered, Proceed, CallInv, OpenNow, OpenInCoo
<1>6. CASE CooOpen
  <2>1. FileHandles' = FileHandles
    BY <1>6 DEF CooOpen, cooVars, FileHandles
  <2>2. QED
    BY <1>6, <2>1 DEF CooOpen, Proceed, CallInv, OpenNow, OpenInCoo
<1>7. CASE CooOpenFails
  <2>1. handles = {}
    BY <1>7 DEF CooOpenFails, CallInv, OpenNow, OpenInCoo
  <2>2. QED
    BY <1>7, <2>1, EndCall DEF CooOpenFails
<1>8. ASSUME CooValuesFail \/ CooRowsDatasetFails \/ FlushFails \/ CooColumnsFail
      PROVE  CallInv'
  <2>1. PICK own : CooFail(own) /\ (stage = "fill" => own = ClosedByRows)
                   /\ stage \in {"values", "dataset", "fill", "columns"}
                   /\ call = "write_ssmc_coo"
    BY <1>8 DEF CooValuesFail, CooRowsDatasetFails, FlushFails, CooColumnsFail,
       CooWriteArrayFails, ChunkReady
  <2>2. handles \ (own \cup ClosesGroup \cup {"file"}) = {}
    BY <2>1 DEF CallInv, OpenNow, OpenInCoo, FileHandles, ClosesGroup, ClosedByRows
  <2>3. QED
    BY <2>1, <2>2, EndCall DEF CooFail
<1>9. CASE CooValues \/ CooColumns
  <2>1. FileHandles' = FileHandles
    BY <1>9 DEF CooValues, CooColumns, CooWriteArray, cooVars, FileHandles
  <2>2. QED
    BY <1>9, <2>1
       DEF CooValues, CooColumns, CooWriteArray, Proceed, CallInv, OpenNow, OpenInCoo
<1>10. CASE CooRowsDataset
  <2>1. FileHandles' = FileHandles
    BY <1>10 DEF CooRowsDataset, cooVars, FileHandles
  <2>2. QED
    BY <1>10, <2>1 DEF CooRowsDataset, Proceed, CallInv, OpenNow, OpenInCoo
<1>11. CASE SkipRow \/ FillRun
  <2>1. UNCHANGED <<mexVars, group>>
    BY <1>11 DEF SkipRow, FillRun
  <2>2. FileHandles' = FileHandles
    BY <2>1 DEF FileHandles
  <2>3. QED
    BY <2>1, <2>2 DEF mexVars, CallInv, OpenNow, OpenInCoo, OpenInWrite, OpenInRead
<1>12. CASE FlushChunk
  <2>1. FileHandles' = FileHandles
    BY <1>12 DEF FlushChunk, FileHandles
  <2>2. FileHandles \cap {"dataset", "space"} = {}
    BY DEF FileHandles
  <2>3. QED
    BY <1>12, <2>1, <2>2 DEF FlushChunk, ChunkReady, Proceed, CallInv, OpenNow, OpenInCoo
<1>13. CASE CooDescriptor
  <2>1. handles \ (ClosesGroup \cup {"file"}) = {}
    BY <1>13 DEF CooDescriptor, CallInv, OpenNow, OpenInCoo, FileHandles, ClosesGroup
  <2>2. QED
    BY <1>13, <2>1, EndCall DEF CooDescriptor
<1>14. QED
  BY <1>1, <1>2, <1>3, <1>4, <1>5, <1>6, <1>7, <1>8, <1>9, <1>10, <1>11, <1>12, <1>13
     DEF CooNext

LEMMA SsmcCallInv == ASSUME CallInv, SsmcNext PROVE CallInv'
<1> USE DEF Ssmc, At
<1>1. ASSUME NEW f \in SsmcFormats, SsmcCall(f) PROVE CallInv'
  BY <1>1, EnterCall DEF SsmcCall, Calls
<1>2. CASE SsmcDense \/ SsmcRefuse \/ MergeDuplicate \/ SsmcReturn
  <2>1. call = "from_ssmc" /\ UNCHANGED handles /\ \E x : Raise(x) \/ Leave(x)
    BY <1>2 DEF SsmcDense, SsmcRefuse, MergeDuplicate, SsmcReturn, SsmcRaise
  <2>2. handles = {}
    BY <2>1 DEF CallInv, OpenNow
  <2>3. QED
    BY <2>1, <2>2, EndCall
<1>3. CASE SsmcAllocate \/ SsmcCopy \/ MergeEnd \/ SsmcAborts
  <2>1. /\ call = "from_ssmc" /\ UNCHANGED handles
        /\ \E s \in {"merge", "copy", "convert", "aborted"} : Proceed(s)
    BY <1>3 DEF SsmcAllocate, SsmcCopy, MergeEnd, SsmcAborts
  <2>2. QED
    BY <2>1 DEF Proceed, CallInv, OpenNow
<1>4. CASE MergeA \/ MergeZ \/ MergeColumn
  <2>1. UNCHANGED mexVars /\ call = "from_ssmc"
    BY <1>4 DEF MergeA, MergeZ, MergeColumn
  <2>2. QED
    BY <2>1 DEF mexVars, CallInv, OpenNow
<1>5. QED
  BY <1>1, <1>2, <1>3, <1>4 DEF SsmcNext

LEMMA MinCallInv == ASSUME CallInv, MinNext PROVE CallInv'
<1> USE DEF Minimizing, At
<1>1. ASSUME UNCHANGED <<call, stage, handles>>, call = "none" PROVE CallInv'
  BY <1>1 DEF CallInv, OpenNow
<1>2. CASE CreateStruct
  BY <1>1, <1>2 DEF CreateStruct
<1>3. ASSUME NEW g, WriteStruct(g) \/ WriteStructRefused(g) \/ ReadStruct(g) \/ ReadStructFails(g)
      PROVE  CallInv'
  BY <1>1, <1>3 DEF WriteStruct, WriteStructRefused, ReadStruct, ReadStructFails
<1>4. CASE MinCall
  BY <1>4, EnterCall DEF MinCall, Calls
<1>5. ASSUME NEW f \in IndexFields, MinimizeIndices(f) \/ MinimizeValues \/ MinimizeIso
      PROVE  CallInv'
  <2>1. /\ call = "minimize_types" /\ UNCHANGED handles
        /\ \E s : s # "none" /\ Proceed(s)
    BY <1>5 DEF MinimizeIndices, MinimizeValues, MinimizeIso, After, IndexFields
  <2>2. QED
    BY <2>1 DEF Proceed, CallInv, OpenNow
<1>6. ASSUME NEW f \in IndexFields, MinimizeIndicesFails(f) \/ MinReturn PROVE CallInv'
  <2>1. call = "minimize_types" /\ UNCHANGED handles /\ \E x : Raise(x) \/ Leave(x)
    BY <1>6 DEF MinimizeIndicesFails, MinReturn
  <2>2. handles = {}
    BY <2>1 DEF CallInv, OpenNow
  <2>3. QED
    BY <2>1, <2>2, EndCall
<1>7. PICK f \in IndexFields : TRUE
  BY DEF IndexFields
<1>8. QED
  BY <1>2, <1>3, <1>4, <1>5, <1>6, <1>7 DEF MinNext

LEMMA TextCallInv == ASSUME CallInv, TextNext PROVE CallInv'
<1> USE DEF Writing, Reading, At
<1>1. ASSUME NEW n, WriteCall(n) \/ ReadCall(n) PROVE CallInv'
  BY <1>1, EnterCall DEF WriteCall, ReadCall, Calls
<1>2. CASE EncodeText \/ NameIsFree
  BY <1>2 DEF EncodeText, NameIsFree, Proceed, CallInv, OpenNow, OpenInWrite
<1>3. CASE EncodeTextFails
  <2>1. handles = {}
    BY <1>3 DEF EncodeTextFails, CallInv, OpenNow, OpenInWrite
  <2>2. QED
    BY <1>3, <2>1, EndCall DEF EncodeTextFails
<1>4. ASSUME OpenForText \/ CreateType \/ CreateSpace \/ CreateDataset PROVE CallInv'
  BY <1>4 DEF OpenForText, CreateType, CreateSpace, CreateDataset, Open, Proceed, CallInv,
     OpenNow, OpenInWrite
<1>5. ASSUME OpenToRead \/ OpenDataset \/ OpenType \/ OpenSpace PROVE CallInv'
  BY <1>5 DEF OpenToRead, OpenDataset, OpenType, OpenSpace, Open, Proceed, CallInv,
     OpenNow, OpenInRead
<1>6. ASSUME call \in {"write_string", "read_string"}, handles' = handles \ Cleanup,
             NEW x, Raise(x) \/ Leave(x)
      PROVE  CallInv'
  <2>1. handles \ Cleanup = {}
    BY <1>6 DEF CallInv, OpenNow, OpenInWrite, OpenInRead, Cleanup
  <2>2. QED
    BY <1>6, <2>1, EndCall
<1>7. CASE DatasetExists \/ NoFile \/ MissingDataset \/ ReadMalformed
  BY <1>6, <1>7 DEF DatasetExists, NoFile, MissingDataset, ReadMalformed, CleanupAndRaise
<1>8. CASE WriteDatasetFails \/ WriteTextFails \/ ReadTextFails
  BY <1>6, <1>8
     DEF WriteDatasetFails, WriteTextFails, ReadTextFails, TextFails, CleanupAndRaise
<1>9. CASE WriteDataset \/ ReadText
  BY <1>6, <1>9 DEF WriteDataset, ReadText
<1>10. QED
  BY <1>1, <1>2, <1>3, <1>4, <1>5, <1>7, <1>8, <1>9 DEF TextNext

LEMMA NextCallInv == CallInv /\ [Next]_vars => CallInv'
<1>1. ASSUME CallInv, UNCHANGED vars PROVE CallInv'
  <2>1. UNCHANGED <<call, stage, handles, last, group>>
    BY <1>1 DEF vars, mexVars, cooVars
  <2>2. OpenNow' = OpenNow
    BY <2>1 DEF OpenNow, OpenInCoo, OpenInWrite, OpenInRead, FileHandles
  <2>3. QED
    BY <1>1, <2>1, <2>2 DEF CallInv
<1>2. QED
  BY <1>1, CooCallInv, SsmcCallInv, MinCallInv, TextCallInv DEF Next, Aborted

\* However a call of a MEX function ends, by returning or by an error at any of
\* its steps, the HDF5 handles it opened are closed.
THEOREM SessionClosesHandles == Spec => []HandlesClosed
<1>1. Init => CallInv
  BY InitCallInv
<1>2. CallInv /\ [Next]_vars => CallInv'
  BY NextCallInv
<1>3. CallInv => HandlesClosed
  BY DEF CallInv, OpenNow, HandlesClosed
<1>4. QED
  BY <1>1, <1>2, <1>3, PTL DEF Spec

--------------------------------------------------------------------------------
(* The file of a session. *)

ShapeOf(f) ==
    /\ \E e, o : f = [exists |-> e, objects |-> o]
    /\ f.objects = [n \in Names |-> f.objects[n]]

FileShape == ShapeOf(file)

GroupShape(o) ==
    o = [kind |-> "group", values |-> o.values, indices_0 |-> o.indices_0,
         indices_1 |-> o.indices_1, pointers_to_1 |-> o.pointers_to_1,
         descriptor |-> o.descriptor]

\* The group a coordinate writer is filling has no descriptor yet.
BeingWritten == file.exists /\ GroupShape(file.objects[group])
                  /\ file.objects[group].descriptor = NoDescriptor

\* The name a text is to be written under is free, or holds the new dataset.
TextBeingWritten ==
    /\ stage \in {"exists", "type", "space", "create", "write"} => file.exists
    /\ stage \in {"type", "space", "create"} => file.objects[name] = NoObject
    /\ stage = "write" => file.objects[name].kind = "text"
    /\ stage \in {"open", "exists", "type", "space", "create", "write"} =>
          encoded = Strings(problem.text)

FileInv ==
    /\ problem \in Problems /\ group \in Names /\ name \in Names
    /\ FileShape
    /\ ~file.exists => \A n \in Names : file.objects[n] = NoObject
    /\ Coo(stage) /\ stage \in {"values", "dataset", "fill", "columns", "descriptor"} =>
          BeingWritten
    /\ Writing(stage) => TextBeingWritten

LEMMA EmptyGroupShape == GroupShape(EmptyGroup) /\ EmptyGroup.descriptor = NoDescriptor
  BY DEF GroupShape, EmptyGroup

LEMMA NewFileShape ==
    /\ ShapeOf(NewFile) /\ NewFile.exists
    /\ NewFile.objects[Root] = EmptyGroup
    /\ \A n \in AuxNames : NewFile.objects[n] = NoObject
  BY MexAssumption DEF NewFile, ShapeOf, Names

\* Making or replacing one object.
LEMMA ObjectChanged ==
    ASSUME NEW f, ShapeOf(f), NEW g \in Names, NEW o, NEW h, h = WithObject(f, g, o)
    PROVE  /\ ShapeOf(h) /\ h.exists = f.exists
           /\ h.objects[g] = o
           /\ \A n \in Names \ {g} : h.objects[n] = f.objects[n]
  BY DEF ShapeOf, WithObject

\* Writing one array, or the descriptor, of a group.
LEMMA PutEffect ==
    ASSUME FileShape, group \in Names, GroupShape(file.objects[group]), NEW a,
           NEW f \in {"values", "indices_0", "indices_1", "pointers_to_1", "descriptor"},
           Put(f, a)
    PROVE  /\ FileShape' /\ file'.exists = file.exists
           /\ GroupShape(file'.objects[group])
           /\ f # "descriptor" =>
                file'.objects[group].descriptor = file.objects[group].descriptor
           /\ \A n \in Names \ {group} : file'.objects[n] = file.objects[n]
<1> DEFINE o == [file.objects[group] EXCEPT ![f] = a]
<1>1. GroupShape(o) /\ (f # "descriptor" => o.descriptor = file.objects[group].descriptor)
  BY DEF GroupShape
<1>2. file' = WithObject(file, group, o)
  BY DEF Put, WithObject
<1> HIDE DEF o
<1>3. QED
  BY <1>1, <1>2, ObjectChanged DEF FileShape

\* What FinishedStays says of one step.
Kept ==
    \A n \in Names :
          /\ IsFinished(file.objects[n]) =>
                file'.objects[n] = file.objects[n] \/ Truncated
          /\ NameTaken(file, n) => NameTaken(file', n) \/ Truncated

LEMMA KeptSame == ASSUME UNCHANGED file PROVE Kept
  BY DEF Kept, NameTaken

LEMMA KeptTruncated == ASSUME Truncated PROVE Kept
  BY DEF Kept

\* Where there was no file nothing was finished and no name taken.
LEMMA KeptAbsent ==
    ASSUME \A n \in Names : file.objects[n] = NoObject PROVE Kept
<1>1. NoObject.kind # "group"
  BY DEF NoObject
<1>2. QED
  BY <1>1 DEF Kept, NameTaken, IsFinished

LEMMA KeptChanged ==
    ASSUME NEW g \in Names, ~IsFinished(file.objects[g]),
           file'.objects[g].kind \in {"group", "text"},
           \A n \in Names \ {g} : file'.objects[n] = file.objects[n]
    PROVE  Kept
<1>1. NoObject.kind = "none"
  BY DEF NoObject
<1>2. file'.objects[g] # NoObject
  BY <1>1
<1>3. QED
  BY <1>2 DEF Kept, NameTaken

\* Opening or creating the file changes nothing in it.
LEMMA FileOpened ==
    ASSUME FileInv, file' = OpenedFile
    PROVE  /\ Kept /\ FileShape' /\ file'.exists
           /\ file.exists => file' = file
           /\ ~file.exists => file' = NewFile
<1>1. CASE file.exists
  <2>1. file' = file
    BY <1>1 DEF OpenedFile
  <2>2. FileShape'
    BY <2>1 DEF FileInv, FileShape, ShapeOf
  <2>3. QED
    BY <1>1, <2>1, <2>2, KeptSame
<1>2. CASE ~file.exists
  <2>1. file' = NewFile
    BY <1>2 DEF OpenedFile
  <2>2. Kept
    BY <1>2, KeptAbsent DEF FileInv
  <2>3. QED
    BY <1>2, <2>1, <2>2, NewFileShape DEF FileShape
<1>3. QED
  BY <1>1, <1>2

\* Making an object under a name that is free in the file that is opened.
LEMMA ObjectMade ==
    ASSUME FileInv, NEW g \in Names, NEW o, o.kind \in {"group", "text"},
           ~NameTaken(OpenedFile, g), file' = WithObject(OpenedFile, g, o)
    PROVE  Kept /\ FileShape' /\ file'.exists /\ file'.objects[g] = o
<1>1. CASE file.exists
  <2>1. file' = WithObject(file, g, o) /\ file.objects[g] = NoObject
    BY <1>1 DEF OpenedFile, NameTaken
  <2>2. ~IsFinished(file.objects[g])
    BY <2>1 DEF IsFinished, NoObject
  <2>3. /\ FileShape' /\ file'.exists /\ file'.objects[g] = o
        /\ \A n \in Names \ {g} : file'.objects[n] = file.objects[n]
    BY <1>1, <2>1, ObjectChanged DEF FileInv, FileShape
  <2>4. QED
    BY <2>2, <2>3, KeptChanged
<1>2. CASE ~file.exists
  <2>1. Kept
    BY <1>2, KeptAbsent DEF FileInv
  <2>2. file' = WithObject(NewFile, g, o)
    BY <1>2 DEF OpenedFile
  <2>3. FileShape' /\ file'.exists /\ file'.objects[g] = o
    BY <2>2, NewFileShape, ObjectChanged DEF FileShape
  <2>4. QED
    BY <2>1, <2>3
<1>3. QED
  BY <1>1, <1>2

\* A step after which no call is at a stage that writes.
LEMMA NotWriting ==
    ASSUME FileInv, UNCHANGED problem, group' \in Names, name' \in Names,
           FileShape', ~file'.exists => \A n \in Names : file'.objects[n] = NoObject,
           ~(call' = "write_ssmc_coo" /\
                stage' \in {"values", "dataset", "fill", "columns", "descriptor"}),
           call' # "write_string"
    PROVE  FileInv'
  BY DEF FileInv, Coo, Writing, At

LEMMA NotWritingSame ==
    ASSUME FileInv, UNCHANGED <<problem, file>>, group' \in Names, name' \in Names,
           ~(call' = "write_ssmc_coo" /\
                stage' \in {"values", "dataset", "fill", "columns", "descriptor"}),
           call' # "write_string"
    PROVE  FileInv' /\ Kept
<1>1. FileShape' /\ (~file'.exists => \A n \in Names : file'.objects[n] = NoObject)
  BY DEF FileInv, FileShape, ShapeOf
<1>2. QED
  BY <1>1, NotWriting, KeptSame

\* A step of the coordinate writer to a group.
LEMMA CooPut ==
    ASSUME FileInv, call = "write_ssmc_coo",
           stage \in {"values", "dataset", "fill", "columns"},
           NEW f \in {"values", "indices_0", "indices_1"}, NEW a, Put(f, a)
    PROVE  /\ Kept /\ FileShape' /\ file'.exists
           /\ GroupShape(file'.objects[group])
           /\ file'.objects[group].descriptor = NoDescriptor
<1>1. BeingWritten /\ group \in Names /\ FileShape
  BY DEF FileInv, Coo, At
<1>2. /\ FileShape' /\ file'.exists = file.exists
      /\ GroupShape(file'.objects[group])
      /\ file'.objects[group].descriptor = file.objects[group].descriptor
      /\ \A n \in Names \ {group} : file'.objects[n] = file.objects[n]
  BY <1>1, PutEffect DEF BeingWritten
<1>3. ~IsFinished(file.objects[group])
  BY <1>1 DEF BeingWritten, IsFinished, NoDescriptor
<1>4. file'.objects[group].kind = "group"
  BY <1>2 DEF GroupShape
<1>5. QED
  BY <1>1, <1>2, <1>3, <1>4, KeptChanged DEF BeingWritten

WritingStages == {"values", "dataset", "fill", "columns", "descriptor"}

LEMMA CooFileInv == ASSUME FileInv, CooNext, UNCHANGED textVars PROVE FileInv' /\ Kept
<1>0. Root \in Names /\ group \in Names /\ name' = name /\ name \in Names
      /\ problem \in Problems /\ problem.names \subseteq Names
  BY ProblemsAssumption DEF FileInv, textVars, Names
<1> USE DEF Coo, At
<1>1. ASSUME NEW g \in problem.names, CooCall(g) PROVE FileInv' /\ Kept
  BY <1>0, <1>1, NotWritingSame DEF CooCall, Enter
<1>2. ASSUME CooRefuse \/ CooDuplicate \/ CooCount \/ TakeA \/ TakeZ \/ NextColumn \/ CooScattered
      PROVE  FileInv' /\ Kept
  <2>1. /\ UNCHANGED <<problem, file>> /\ group' \in Names
        /\ call' \in {"none", "write_ssmc_coo"}
        /\ stage' \in {"none", "arguments", "scatter", "open"}
    BY <1>0, <1>2 DEF CooRefuse, CooDuplicate, CooCount, TakeA, TakeZ, NextColumn, CooScattered,
       Raise, Proceed, CooForgotten, mexVars, cooVars
  <2>2. QED
    BY <1>0, <2>1, NotWritingSame
<1>3. ASSUME CooOpen PROVE FileInv' /\ Kept
  <2>0. /\ call' = "write_ssmc_coo" /\ stage' = "values" /\ UNCHANGED <<problem, group>>
    BY <1>3 DEF CooOpen, Proceed, cooVars
  <2>1. Kept /\ FileShape' /\ file'.exists /\ file'.objects[group] = EmptyGroup
    <3>1. CASE group = Root
      <4>1. file' = NewFile
        BY <1>3, <3>1 DEF CooOpen
      <4>2. Truncated
        BY <4>1, NewFileShape DEF Truncated
      <4>3. QED
        BY <3>1, <4>1, <4>2, NewFileShape, KeptTruncated DEF FileShape
    <3>2. CASE group # Root
      <4>1. ~NameTaken(OpenedFile, group) /\ file' = WithObject(OpenedFile, group, EmptyGroup)
        BY <1>3, <3>2 DEF CooOpen
      <4>2. EmptyGroup.kind \in {"group", "text"}
        BY DEF EmptyGroup
      <4>3. QED
        BY <1>0, <4>1, <4>2, ObjectMade
    <3>3. QED
      BY <3>1, <3>2
  <2>2. QED
    BY <1>0, <2>0, <2>1, EmptyGroupShape DEF FileInv, BeingWritten, Writing
<1>4. ASSUME CooOpenFails PROVE FileInv' /\ Kept
  <2>0. call' = "none" /\ UNCHANGED problem /\ group' \in Names
    BY <1>0, <1>4 DEF CooOpenFails, Raise, CooForgotten
  <2>1. CASE UNCHANGED file
    BY <1>0, <2>0, <2>1, NotWritingSame
  <2>2. CASE file' = OpenedFile
    BY <1>0, <2>0, <2>2, FileOpened, NotWriting
  <2>3. QED
    BY <1>4, <2>1, <2>2 DEF CooOpenFails
\* A write of a step of write_coo_file, after which it goes on or gives up.
<1>5. ASSUME call = "write_ssmc_coo", stage \in {"values", "dataset", "fill", "columns"},
             NEW f \in {"values", "indices_0", "indices_1"}, NEW a, Put(f, a),
             UNCHANGED problem,
             \/ call' = "none" /\ group' \in Names
             \/ call' = "write_ssmc_coo" /\ stage' \in WritingStages /\ UNCHANGED group
      PROVE  FileInv' /\ Kept
  <2>1. /\ Kept /\ FileShape' /\ file'.exists
        /\ GroupShape(file'.objects[group])
        /\ file'.objects[group].descriptor = NoDescriptor
    BY <1>5, CooPut
  <2>2. CASE call' = "none" /\ group' \in Names
    BY <1>0, <1>5, <2>1, <2>2, NotWriting
  <2>3. CASE call' = "write_ssmc_coo" /\ stage' \in WritingStages /\ UNCHANGED group
    BY <1>0, <1>5, <2>1, <2>3 DEF FileInv, BeingWritten, Writing, WritingStages
  <2>4. QED
    BY <1>5, <2>2, <2>3
<1>6. ASSUME CooValuesFail \/ CooRowsDatasetFails \/ FlushFails \/ CooColumnsFail
      PROVE  FileInv' /\ Kept
  <2>1. /\ call = "write_ssmc_coo" /\ stage \in {"values", "dataset", "fill", "columns"}
        /\ call' = "none" /\ UNCHANGED problem /\ group' \in Names
        /\ \/ UNCHANGED file
           \/ \E f \in {"values", "indices_0", "indices_1"} : \E a : Put(f, a)
    BY <1>0, <1>6 DEF CooValuesFail, CooRowsDatasetFails, FlushFails, CooColumnsFail,
       CooWriteArrayFails, ChunkReady, CooFail, Raise, CooForgotten
  <2>2. QED
    BY <1>0, <1>5, <2>1, NotWritingSame
<1>7. ASSUME CooValues \/ CooColumns \/ CooRowsDataset \/ FlushChunk PROVE FileInv' /\ Kept
  <2>1. /\ call = "write_ssmc_coo" /\ stage \in {"values", "dataset", "fill", "columns"}
        /\ call' = "write_ssmc_coo" /\ stage' \in WritingStages /\ UNCHANGED <<problem, group>>
        /\ \E f \in {"values", "indices_0", "indices_1"} : \E a : Put(f, a)
    BY <1>7 DEF CooValues, CooColumns, CooRowsDataset, FlushChunk, CooWriteArray, ChunkReady,
       Proceed, cooVars, WritingStages
  <2>2. QED
    BY <1>5, <2>1
<1>8. ASSUME SkipRow \/ FillRun PROVE FileInv' /\ Kept
  <2>1. UNCHANGED <<problem, file, call, stage, group>>
    BY <1>8 DEF SkipRow, FillRun, mexVars
  <2>2. UNCHANGED <<name, encoded>>
    BY DEF textVars
  <2>3. QED
    BY <2>1, <2>2, KeptSame
       DEF FileInv, FileShape, ShapeOf, BeingWritten, Writing, TextBeingWritten
<1>9. ASSUME CooDescriptor PROVE FileInv' /\ Kept
  <2>0. /\ call' = "none" /\ UNCHANGED problem /\ group' \in Names
        /\ Put("descriptor", Descriptor) \/ UNCHANGED file
    BY <1>0, <1>9 DEF CooDescriptor, Leave, CooForgotten
  <2>1. CASE UNCHANGED file
    BY <1>0, <2>0, <2>1, NotWritingSame
  <2>2. CASE Put("descriptor", Descriptor)
    <3>1. BeingWritten /\ FileShape
      BY <1>9 DEF FileInv, CooDescriptor
    <3>2. /\ FileShape' /\ file'.exists = file.exists
          /\ GroupShape(file'.objects[group])
          /\ \A n \in Names \ {group} : file'.objects[n] = file.objects[n]
      BY <1>0, <2>2, <3>1, PutEffect DEF BeingWritten
    <3>3. ~IsFinished(file.objects[group])
      BY <3>1 DEF BeingWritten, IsFinished, NoDescriptor
    <3>4. file'.objects[group].kind = "group"
      BY <3>2 DEF GroupShape
    <3>5. Kept
      BY <1>0, <3>2, <3>3, <3>4, KeptChanged
    <3>6. QED
      BY <1>0, <2>0, <3>1, <3>2, <3>5, NotWriting DEF BeingWritten
  <2>3. QED
    BY <2>0, <2>1, <2>2
<1>10. QED
  BY <1>1, <1>2, <1>3, <1>4, <1>6, <1>7, <1>8, <1>9 DEF CooNext

LEMMA SsmcFileInv ==
    ASSUME FileInv, SsmcNext, UNCHANGED <<cooVars, textVars>> PROVE FileInv' /\ Kept
<1>1. UNCHANGED <<problem, file>> /\ call' \in {"none", "from_ssmc"}
  BY DEF SsmcNext, SsmcCall, SsmcDense, SsmcRefuse, SsmcAllocate, SsmcCopy, MergeA, MergeZ,
     MergeDuplicate, MergeColumn, MergeEnd, SsmcReturn, SsmcAborts, Enter, SsmcRaise, Raise,
     Leave, Proceed, mexVars, Ssmc, At
<1>2. group' \in Names /\ name' \in Names
  BY DEF FileInv, cooVars, textVars
<1>3. QED
  BY <1>1, <1>2, NotWritingSame

\* A write of a struct makes a group under a free name, or a whole new file.
LEMMA StructWritten ==
    ASSUME FileInv, NEW g \in problem.names, WriteStruct(g)
    PROVE  Kept /\ FileShape' /\ (~file'.exists => \A n \in Names : file'.objects[n] = NoObject)
<1>0. g \in Names /\ Root \in Names
  BY ProblemsAssumption DEF FileInv, Names
<1>1. /\ g # Root => ~NameTaken(OpenedFile, g)
      /\ \/ \E o : o.kind = "group"
              /\ file' = WithObject(IF g = Root THEN NewFile ELSE OpenedFile, g, o)
         \/ UNCHANGED file
         \/ file' = IF g = Root THEN NewFile ELSE OpenedFile
  <2>1. \A n \in 0 .. 4 : StructGroup(n).kind = "group"
    <3>1. \A n \in 0 .. 4 : \A k \in 1 .. n : WriteOrder[k] # "kind"
      BY DEF WriteOrder
    <3>2. "kind" \in DOMAIN EmptyGroup /\ EmptyGroup.kind = "group"
      BY DEF EmptyGroup
    <3>3. QED
      BY <3>1, <3>2 DEF StructGroup
  <2>2. \A d : [StructGroup(4) EXCEPT !.descriptor = d].kind = "group"
    <3>1. "kind" \in DOMAIN StructGroup(4)
      BY DEF StructGroup, EmptyGroup
    <3>2. QED
      BY <2>1, <3>1
  <2>3. StructGroup(0).kind = "group"
    BY <2>1
  <2>4. QED
    BY <2>1, <2>2, <2>3 DEF WriteStruct
<1>2. CASE UNCHANGED file
  BY <1>2, KeptSame DEF FileInv, FileShape, ShapeOf
<1>3. CASE g = Root /\ ~UNCHANGED file
  <2>1. \A n \in AuxNames : file'.objects[n] = NoObject
    <3>1. \A n \in AuxNames : n \in Names \ {g}
      BY <1>3, MexAssumption DEF Names
    <3>2. QED
      BY <1>0, <1>1, <1>3, <3>1, NewFileShape, ObjectChanged
  <2>2. FileShape' /\ file'.exists
    BY <1>0, <1>1, <1>3, NewFileShape, ObjectChanged DEF FileShape
  <2>3. QED
    BY <2>1, <2>2, KeptTruncated DEF Truncated
<1>4. CASE g # Root /\ ~UNCHANGED file
  BY <1>0, <1>1, <1>4, ObjectMade, FileOpened
<1>5. QED
  BY <1>2, <1>3, <1>4

LEMMA MinFileInv ==
    ASSUME FileInv, MinNext, UNCHANGED <<cooVars, textVars>> PROVE FileInv' /\ Kept
<1>0. group' \in Names /\ name' \in Names
  BY DEF FileInv, cooVars, textVars
<1> USE DEF Minimizing, At
<1>1. CASE CreateStruct
  BY <1>0, <1>1, NotWritingSame DEF CreateStruct
<1>2. CASE MinCall \/ MinimizeValues \/ MinimizeIso \/ MinReturn
  <2>1. UNCHANGED <<problem, file>> /\ call' \in {"none", "minimize_types"}
    BY <1>2 DEF MinCall, MinimizeValues, MinimizeIso, MinReturn, Enter, Proceed, Leave
  <2>2. QED
    BY <1>0, <2>1, NotWritingSame
<1>3. ASSUME NEW f \in IndexFields, MinimizeIndices(f) \/ MinimizeIndicesFails(f)
      PROVE  FileInv' /\ Kept
  <2>1. UNCHANGED <<problem, file>> /\ call' \in {"none", "minimize_types"}
    BY <1>3 DEF MinimizeIndices, MinimizeIndicesFails, Proceed, Raise
  <2>2. QED
    BY <1>0, <2>1, NotWritingSame
<1>4. ASSUME NEW g \in problem.names, WriteStruct(g) PROVE FileInv' /\ Kept
  <2>1. UNCHANGED problem /\ call' = "none"
    BY <1>4 DEF WriteStruct
  <2>2. QED
    BY <1>0, <1>4, <2>1, StructWritten, NotWriting
<1>5. ASSUME NEW g \in problem.names, WriteStructRefused(g) PROVE FileInv' /\ Kept
  <2>1. UNCHANGED problem /\ call' = "none" /\ file' = OpenedFile
    BY <1>5 DEF WriteStructRefused
  <2>2. QED
    BY <1>0, <2>1, FileOpened, NotWriting
<1>6. ASSUME NEW g \in problem.names, ReadStruct(g) \/ ReadStructFails(g)
      PROVE  FileInv' /\ Kept
  <2>1. UNCHANGED <<problem, file>> /\ call' = "none"
    BY <1>6 DEF ReadStruct, ReadStructFails
  <2>2. QED
    BY <1>0, <2>1, NotWritingSame
<1>7. QED
  BY <1>1, <1>2, <1>3, <1>4, <1>5, <1>6 DEF MinNext

LEMMA TextKind ==
    /\ \A v : Strings(v).kind = "text"
    /\ \A v : Blanked(Strings(v)).kind = "text"
  BY DEF Strings, Blanked

LEMMA TextFileInv ==
    ASSUME FileInv, TextNext, UNCHANGED cooVars PROVE FileInv' /\ Kept
<1>0. Root \in Names /\ group' \in Names /\ name \in Names /\ problem \in Problems
      /\ problem.names \subseteq Names /\ FileShape
  BY ProblemsAssumption DEF FileInv, cooVars, Names
<1> USE DEF Writing, Reading, At
\* A step that leaves the file as it is, and does not write afterwards.
<1>1. ASSUME UNCHANGED <<problem, file>>, name' \in Names, call' \in {"none", "read_string"}
      PROVE  FileInv' /\ Kept
  BY <1>0, <1>1, NotWritingSame
\* A step of a write that goes on.
<1>2. ASSUME FileShape', ~file'.exists => \A n \in Names : file'.objects[n] = NoObject,
             UNCHANGED problem, name' \in Names, call' = "write_string", TextBeingWritten'
      PROVE  FileInv'
  BY <1>0, <1>2 DEF FileInv, Coo
<1>3. ASSUME UNCHANGED <<problem, file>>, name' \in Names, call' = "write_string",
             TextBeingWritten'
      PROVE  FileInv' /\ Kept
  <2>1. FileShape' /\ (~file'.exists => \A n \in Names : file'.objects[n] = NoObject)
    BY <1>3 DEF FileInv, FileShape, ShapeOf
  <2>2. QED
    BY <1>2, <1>3, <2>1, KeptSame
<1>4. ASSUME NEW n \in problem.names \ {Root}, WriteCall(n) PROVE FileInv' /\ Kept
  BY <1>0, <1>3, <1>4 DEF WriteCall, Enter, TextBeingWritten
<1>5. ASSUME NEW n \in problem.names \ {Root}, ReadCall(n) PROVE FileInv' /\ Kept
  BY <1>0, <1>1, <1>5 DEF ReadCall, Enter
<1>6. CASE EncodeText
  BY <1>0, <1>3, <1>6 DEF EncodeText, Proceed, TextBeingWritten
<1>7. CASE EncodeTextFails \/ DatasetExists \/ NoFile \/ MissingDataset \/ ReadMalformed
             \/ ReadText
  <2>1. UNCHANGED <<problem, file>> /\ name' \in Names /\ call' = "none"
    BY <1>0, <1>7 DEF EncodeTextFails, DatasetExists, NoFile, MissingDataset, ReadMalformed,
       ReadText, CleanupAndRaise, Raise, Leave, TextForgotten
  <2>2. QED
    BY <1>1, <2>1
<1>8. CASE WriteDatasetFails \/ WriteTextFails \/ ReadTextFails
  <2>1. UNCHANGED <<problem, file>> /\ name' \in Names /\ call' = "none"
    BY <1>0, <1>8 DEF WriteDatasetFails, WriteTextFails, ReadTextFails, TextFails,
       CleanupAndRaise, Raise, TextForgotten
  <2>2. QED
    BY <1>1, <2>1
<1>9. CASE OpenToRead \/ OpenDataset \/ OpenType \/ OpenSpace
  <2>1. UNCHANGED <<problem, file>> /\ name' \in Names /\ call' = "read_string"
    BY <1>0, <1>9 DEF OpenToRead, OpenDataset, OpenType, OpenSpace, Open, Proceed, textVars
  <2>2. QED
    BY <1>1, <2>1
<1>10. CASE OpenForText
  <2>1. /\ file' = OpenedFile /\ UNCHANGED <<problem, call, name, encoded>>
        /\ stage = "open" /\ stage' = "exists" /\ call = "write_string"
    BY <1>10 DEF OpenForText, Open, Proceed, textVars
  <2>2. Kept /\ FileShape' /\ file'.exists
    BY <2>1, FileOpened
  <2>3. TextBeingWritten'
    BY <2>1, <2>2 DEF TextBeingWritten, FileInv
  <2>4. QED
    BY <1>0, <1>2, <2>1, <2>2, <2>3
<1>11. CASE NameIsFree \/ CreateType \/ CreateSpace
  <2>1. /\ UNCHANGED <<problem, file, call, name, encoded>> /\ call = "write_string"
        /\ \/ stage = "exists" /\ stage' = "type" /\ file.objects[name] = NoObject
           \/ stage = "type" /\ stage' = "space"
           \/ stage = "space" /\ stage' = "create"
    BY <1>11 DEF NameIsFree, CreateType, CreateSpace, Open, Proceed, textVars, NameTaken
  <2>2. TextBeingWritten'
    BY <2>1 DEF TextBeingWritten, FileInv
  <2>3. QED
    BY <1>0, <1>3, <2>1, <2>2
<1>12. CASE CreateDataset
  <2>1. /\ UNCHANGED <<problem, call, name, encoded>> /\ call = "write_string"
        /\ stage = "create" /\ stage' = "write"
        /\ file' = WithObject(file, name, Blanked(encoded))
    BY <1>12 DEF CreateDataset, Open, Proceed, textVars
  <2>2. file.exists /\ file.objects[name] = NoObject /\ encoded = Strings(problem.text)
    BY <2>1 DEF FileInv, TextBeingWritten
  <2>3. ~NameTaken(OpenedFile, name) /\ OpenedFile = file
    BY <2>2 DEF NameTaken, OpenedFile
  <2>4. /\ Kept /\ FileShape' /\ file'.exists
        /\ file'.objects[name] = Blanked(encoded)
    BY <1>0, <2>1, <2>2, <2>3, ObjectMade, TextKind
  <2>5. TextBeingWritten'
    BY <2>1, <2>2, <2>4, TextKind DEF TextBeingWritten
  <2>6. QED
    BY <1>0, <1>2, <2>1, <2>4, <2>5
<1>13. CASE WriteDataset
  <2>1. /\ call' = "none" /\ UNCHANGED problem /\ name' \in Names
        /\ call = "write_string" /\ stage = "write"
        /\ file' = WithObject(file, name, encoded)
    BY <1>0, <1>13 DEF WriteDataset, Leave, TextForgotten
  <2>2. /\ file.exists /\ file.objects[name].kind = "text"
        /\ encoded = Strings(problem.text)
    BY <2>1 DEF FileInv, TextBeingWritten
  <2>3. /\ FileShape' /\ file'.exists /\ file'.objects[name] = encoded
        /\ \A n \in Names \ {name} : file'.objects[n] = file.objects[n]
    BY <1>0, <2>1, <2>2, ObjectChanged DEF FileShape
  <2>4. ~IsFinished(file.objects[name])
    BY <2>2 DEF IsFinished
  <2>5. Kept
    BY <1>0, <2>2, <2>3, <2>4, KeptChanged, TextKind
  <2>6. QED
    BY <1>0, <2>1, <2>3, <2>5, NotWriting
<1>14. QED
  BY <1>4, <1>5, <1>6, <1>7, <1>8, <1>9, <1>10, <1>11, <1>12, <1>13 DEF TextNext

LEMMA InitFileInv == Init => FileInv
<1> SUFFICES ASSUME Init PROVE FileInv
  OBVIOUS
<1>1. /\ problem \in Problems /\ group = Root /\ name = Root /\ Root \in Names
      /\ call = "none"
  BY DEF Init, SessionBegins, CooIdle, TextIdle, Names
<1>2. CASE problem.foreign = NoObject
  <2>1. file = AbsentFile
    BY <1>2 DEF Init, SessionBegins
  <2>2. ShapeOf(file) /\ \A n \in Names : file.objects[n] = NoObject
    BY <2>1 DEF AbsentFile, ShapeOf
  <2>3. QED
    BY <1>1, <2>2 DEF FileInv, FileShape, Coo, Writing, At
<1>3. CASE problem.foreign # NoObject
  <2>1. file = [NewFile EXCEPT !.objects = [n \in Names |->
                  IF n = Root THEN EmptyGroup ELSE problem.foreign]]
    BY <1>3 DEF Init, SessionBegins
  <2>2. ShapeOf(file) /\ file.exists
    BY <2>1, NewFileShape DEF ShapeOf
  <2>3. QED
    BY <1>1, <2>2 DEF FileInv, FileShape, Coo, Writing, At
<1>4. QED
  BY <1>2, <1>3

LEMMA NextFileInv == FileInv /\ [Next]_vars => FileInv' /\ Kept
<1>1. ASSUME FileInv, UNCHANGED vars PROVE FileInv' /\ Kept
  <2>1. UNCHANGED <<problem, file, call, stage, group, name, encoded>>
    BY <1>1 DEF vars, mexVars, cooVars, textVars
  <2>2. QED
    BY <1>1, <2>1, KeptSame
       DEF FileInv, FileShape, ShapeOf, BeingWritten, Coo, Writing, At, TextBeingWritten
<1>2. QED
  BY <1>1, CooFileInv, SsmcFileInv, MinFileInv, TextFileInv DEF Next, Aborted

\* No call changes a matrix that has its descriptor, whatever fails, is refused or
\* is tried again, and no name that was taken becomes free, except when a primary
\* matrix replaces the whole file.
THEOREM FinishedMatricesStay == Spec => FinishedStays
<1>1. Init => FileInv
  BY InitFileInv
<1>2. FileInv /\ [Next]_vars => FileInv'
  BY NextFileInv
<1>3. FileInv /\ [Next]_vars => [\A n \in Names :
          /\ IsFinished(file.objects[n]) =>
                file'.objects[n] = file.objects[n] \/ Truncated
          /\ NameTaken(file, n) => NameTaken(file', n) \/ Truncated]_vars
  BY NextFileInv DEF Kept
<1>4. QED
  BY <1>1, <1>2, <1>3, PTL DEF Spec, FinishedStays

--------------------------------------------------------------------------------
(* The memory of the minimiser. *)

\* The fields the minimiser has been through at a stage.
Done ==
    CASE stage = "indices_0" -> {"values"}
      [] stage = "indices_1" -> {"values", "indices_0"}
      [] stage = "pointers_to_1" -> {"values", "indices_0", "indices_1"}
      [] stage \in {"iso", "struct"} -> Fields
      [] OTHER -> {}

\* Each field is in a block of its own, which is not freed; until its turn it is
\* the argument's or the copy that the view made, and nothing of it is freed.
MinimizingInv ==
    /\ memory = [f \in Fields |-> memory[f]]
    /\ given = [f \in Fields |-> NoBlock]
    /\ freed \subseteq Fields \X {"copy", "minimized"}
    /\ \A f \in Fields :
          /\ memory[f] \in {NoBlock} \cup ({f} \X {"matlab", "copy", "minimized", "iso"})
          /\ memory[f] \notin freed
          /\ f \notin Done => /\ memory[f][2] \notin {"minimized", "iso"}
                              /\ \A b \in freed : b[1] # f
          /\ memory[f][2] = "iso" => stage = "struct"

MemoryInv ==
    /\ freed \subseteq Fields \X Owned
    /\ \A f \in Fields : /\ given[f] \in {NoBlock} \cup ({f} \X Owned)
                         /\ given[f] \notin freed
    /\ last.function = "minimize_types" =>
          \A f \in Fields : memory[f][2] \in Owned => memory[f] \in Blocks(given) \cup freed
    /\ call = "minimize_types" => MinimizingInv

\* The steps of other calls.
LEMMA MemoryKept ==
    ASSUME MemoryInv, UNCHANGED <<memory, freed, given>>, call' # "minimize_types",
           last' = last \/ last'.function # "minimize_types"
    PROVE  MemoryInv'
  BY DEF MemoryInv, Blocks

\* A step of the minimiser that replaces field f, by a block of this owner, or none.
LEMMA MemoryReplaced ==
    ASSUME MemoryInv, CallInv, call = "minimize_types", NEW f \in Fields, NEW s, Proceed(s),
           UNCHANGED given,
           NEW owner \in {"minimized", "iso"},
           owner = "minimized" => f \notin Done,
           owner = "iso" => f = "values" /\ stage = "iso" /\ s = "struct",
           \/ UNCHANGED <<memory, freed>>
           \/ /\ memory' = [memory EXCEPT ![f] = <<f, owner>>]
              /\ freed' = freed \cup Destroyed({memory[f]}),
           Done' = Done \cup {f}, s # "none", stage # "struct"
    PROVE  MemoryInv'
<1>0. MinimizingInv /\ last = NoCall
  BY DEF MemoryInv, CallInv
<1>1. /\ call' = "minimize_types" /\ stage' = s
      /\ last' = NoCall /\ NoCall.function = "none"
  BY <1>0 DEF Proceed, NoCall
<1>2. MinimizingInv'
  <2>1. CASE UNCHANGED <<memory, freed>>
    BY <1>0, <1>1, <2>1 DEF MinimizingInv
  <2>2. CASE /\ memory' = [memory EXCEPT ![f] = <<f, owner>>]
             /\ freed' = freed \cup Destroyed({memory[f]})
    <3>1. \A b \in Destroyed({memory[f]}) : b = memory[f] /\ b[2] \in Owned
      BY DEF Destroyed, FreesMemory
    <3>2. /\ memory'[f] = <<f, owner>> /\ memory' = [g \in Fields |-> memory'[g]]
          /\ \A g \in Fields \ {f} : memory'[g] = memory[g]
      BY <1>0, <2>2 DEF MinimizingInv
    <3>3. memory[f][2] # "iso" /\ (owner = "minimized" => memory[f][2] # "minimized")
      BY <1>0 DEF MinimizingInv
    <3>4. Destroyed({memory[f]}) \subseteq {f} \X {"copy", "minimized"}
      <4>1. ASSUME NEW b \in Destroyed({memory[f]}) PROVE b \in {f} \X {"copy", "minimized"}
        <5>1. b = memory[f] /\ b[2] \in {"copy", "minimized", "struct"}
          BY <3>1, <3>3, <4>1 DEF Owned
        <5>2. b \in {NoBlock} \cup ({f} \X {"matlab", "copy", "minimized", "iso"})
          BY <1>0, <5>1 DEF MinimizingInv
        <5>3. b # NoBlock
          BY <5>1 DEF NoBlock
        <5>4. QED
          BY <5>1, <5>2, <5>3
      <4>2. QED
        BY <4>1
    <3>5. freed' \subseteq Fields \X {"copy", "minimized"}
      BY <1>0, <2>2, <3>4 DEF MinimizingInv
    <3>6. \A g \in Fields : memory'[g] \notin freed'
      <4>1. ASSUME NEW g \in Fields, g # f PROVE memory'[g] \notin freed'
        <5>1. memory'[g] = memory[g] /\ memory[g] \notin freed
          BY <1>0, <3>2, <4>1 DEF MinimizingInv
        <5>2. memory[g] # memory[f] \/ memory[f] = NoBlock
          BY <1>0, <4>1 DEF MinimizingInv
        <5>3. memory[g] \notin Destroyed({memory[f]})
          BY <3>1, <5>2 DEF NoBlock, Owned
        <5>4. QED
          BY <2>2, <5>1, <5>3
      <4>2. memory'[f] \notin freed'
        <5>1. CASE owner = "iso"
          BY <3>2, <3>5, <5>1
        <5>2. CASE owner = "minimized"
          <6>1. \A b \in freed : b[1] # f
            BY <1>0, <5>2 DEF MinimizingInv
          <6>2. <<f, owner>> \notin freed
            BY <6>1
          <6>3. <<f, owner>> \notin Destroyed({memory[f]})
            BY <3>1, <3>3, <5>2
          <6>4. QED
            BY <2>2, <3>2, <6>2, <6>3
        <5>3. QED
          BY <5>1, <5>2
      <4>3. QED
        BY <4>1, <4>2
    <3>7. ASSUME NEW g \in Fields, g \notin Done'
          PROVE  memory'[g][2] \notin {"minimized", "iso"} /\ \A b \in freed' : b[1] # g
      <4>1. g # f /\ g \notin Done
        BY <3>7
      <4>2. memory'[g][2] \notin {"minimized", "iso"} /\ \A b \in freed : b[1] # g
        BY <1>0, <3>2, <4>1 DEF MinimizingInv
      <4>3. QED
        BY <2>2, <3>4, <4>1, <4>2
    <3>8. ASSUME NEW g \in Fields
          PROVE  /\ memory'[g] \in {NoBlock} \cup ({g} \X {"matlab", "copy", "minimized", "iso"})
                 /\ memory'[g][2] = "iso" => stage' = "struct"
      <4>1. CASE g = f
        BY <1>1, <3>2, <4>1
      <4>2. CASE g # f
        BY <1>0, <3>2, <4>2 DEF MinimizingInv
      <4>3. QED
        BY <4>1, <4>2
    <3>9. given' = [g \in Fields |-> NoBlock]
      BY <1>0 DEF MinimizingInv
    <3>10. QED
      BY <3>2, <3>5, <3>6, <3>7, <3>8, <3>9 DEF MinimizingInv
  <2>3. QED
    BY <2>1, <2>2
<1>3. freed' \subseteq Fields \X Owned
  BY <1>2 DEF MinimizingInv, Owned
<1>4. \A g \in Fields : given'[g] = NoBlock /\ NoBlock \notin freed'
  BY <1>2 DEF MinimizingInv, NoBlock
<1>5. QED
  BY <1>1, <1>2, <1>3, <1>4 DEF MemoryInv

LEMMA MinCallMemory == ASSUME CallInv, MinCall PROVE MemoryInv'
<1>1. /\ call' = "minimize_types" /\ stage' = "values" /\ last' = NoCall
      /\ memory' = [f \in Fields |-> ViewBlock(workspace, f)]
      /\ freed' = {} /\ given' = [f \in Fields |-> NoBlock]
  BY DEF MinCall, Enter
<1>2. \A f \in Fields : memory'[f] \in {NoBlock, <<f, "matlab">>, <<f, "copy">>}
  BY <1>1 DEF ViewBlock
<1>3. MinimizingInv'
  <2>1. \A f \in Fields : memory'[f][2] \notin {"minimized", "iso"}
    BY <1>2 DEF NoBlock
  <2>2. QED
    BY <1>1, <1>2, <2>1 DEF MinimizingInv
<1>4. QED
  BY <1>1, <1>3 DEF MemoryInv, NoCall

LEMMA MinStepMemory ==
    ASSUME CallInv, MemoryInv, MinimizeValues \/ MinimizeIso \/ \E f \in IndexFields : MinimizeIndices(f)
    PROVE  MemoryInv'
<1> USE DEF Minimizing, At
<1>1. CASE MinimizeValues
  <2>1. /\ call = "minimize_types" /\ stage = "values" /\ Proceed("indices_0")
        /\ UNCHANGED given /\ "values" \in Fields
        /\ \/ UNCHANGED <<memory, freed>>
           \/ /\ memory' = [memory EXCEPT !["values"] = <<"values", "minimized">>]
              /\ freed' = freed \cup Destroyed({memory["values"]})
    BY <1>1 DEF MinimizeValues, KeepMatrix, Replace, Fields
  <2>2. Done = {} /\ Done' = {"values"}
    BY <2>1 DEF Done, Proceed
  <2>3. QED
    BY <2>1, <2>2, MemoryReplaced
<1>2. ASSUME NEW f \in IndexFields, MinimizeIndices(f) PROVE MemoryInv'
  <2>1. /\ call = "minimize_types" /\ stage = f /\ Proceed(After(f))
        /\ UNCHANGED given /\ f \in Fields
        /\ \/ UNCHANGED <<memory, freed>>
           \/ /\ memory' = [memory EXCEPT ![f] = <<f, "minimized">>]
              /\ freed' = freed \cup Destroyed({memory[f]})
    BY <1>2 DEF MinimizeIndices, KeepMatrix, Replace, Fields, IndexFields
  <2>2. After(f) # "none" /\ f # "struct" /\ f \notin Done /\ Done' = Done \cup {f}
    BY <2>1 DEF Done, Proceed, After, IndexFields, Fields
  <2>3. QED
    BY <2>1, <2>2, MemoryReplaced
<1>3. CASE MinimizeIso
  <2>1. /\ call = "minimize_types" /\ stage = "iso" /\ Proceed("struct")
        /\ UNCHANGED given /\ "values" \in Fields
        /\ \/ UNCHANGED <<memory, freed>>
           \/ /\ memory' = [memory EXCEPT !["values"] = <<"values", "iso">>]
              /\ freed' = freed \cup Destroyed({memory["values"]})
    BY <1>3 DEF MinimizeIso, KeepMatrix, Fields
  <2>2. Done = Fields /\ Done' = Fields
    BY <2>1 DEF Done, Proceed
  <2>3. QED
    BY <2>1, <2>2, MemoryReplaced
<1>4. QED
  BY <1>1, <1>2, <1>3

LEMMA MinFailsMemory ==
    ASSUME CallInv, MemoryInv, NEW f \in IndexFields, MinimizeIndicesFails(f)
    PROVE  MemoryInv'
<1>1. /\ call = "minimize_types" /\ call' = "none" /\ UNCHANGED <<last, given>>
      /\ freed' = {}
  BY DEF MinimizeIndicesFails, Raise, Minimizing, At
<1>2. last' = NoCall /\ given' = [g \in Fields |-> NoBlock]
  BY <1>1 DEF CallInv, MemoryInv, MinimizingInv
<1>3. QED
  BY <1>1, <1>2 DEF MemoryInv, NoCall

LEMMA MinReturnMemory ==
    ASSUME CallInv, MemoryInv, MinReturn
    PROVE  MemoryInv'
<1>0. /\ call = "minimize_types" /\ call' = "none" /\ UNCHANGED memory
      /\ given' = [f \in Fields |-> FieldBlock(f)]
      /\ freed' = freed \cup Destroyed({memory[f] : f \in {g \in Fields : ~HandsOver(g)}})
  BY DEF MinReturn, Leave, Minimizing, At
<1>1. /\ MinimizingInv
  BY <1>0 DEF MemoryInv
<1>2. ASSUME NEW f \in Fields
      PROVE  \/ memory[f] = NoBlock /\ given'[f] = NoBlock
             \/ /\ memory[f] # NoBlock /\ HandsOver(f) /\ given'[f] = memory[f]
                /\ memory[f][2] \in Owned
             \/ /\ memory[f] # NoBlock /\ ~HandsOver(f) /\ given'[f] = <<f, "struct">>
  BY <1>0 DEF FieldBlock, HandsOver, FreesMemory
<1>3. ASSUME NEW b \in freed'
      PROVE  /\ b \in Fields \X {"copy", "minimized", "iso"}
             /\ \/ b \in freed
                \/ \E g \in Fields : b = memory[g] /\ ~HandsOver(g) /\ memory[g] # NoBlock
  <2>1. CASE b \in freed
    BY <1>1, <2>1 DEF MinimizingInv
  <2>2. CASE b \notin freed
    <3>1. PICK g \in Fields : b = memory[g] /\ ~HandsOver(g) /\ b[2] \in Owned
      BY <1>0, <1>3, <2>2 DEF Destroyed, FreesMemory
    <3>2. b # NoBlock /\ b[2] # "matlab"
      BY <3>1 DEF NoBlock, Owned
    <3>3. b \in {g} \X {"copy", "minimized", "iso"}
      BY <1>1, <3>1, <3>2 DEF MinimizingInv
    <3>4. QED
      BY <3>1, <3>2, <3>3
  <2>3. QED
    BY <2>1, <2>2
<1>4. freed' \subseteq Fields \X Owned
  BY <1>3 DEF Owned
<1>5. ASSUME NEW f \in Fields
      PROVE  given'[f] \in {NoBlock} \cup ({f} \X Owned) /\ given'[f] \notin freed'
  <2>1. CASE given'[f] = NoBlock
    BY <1>3, <2>1 DEF NoBlock
  <2>2. CASE given'[f] = <<f, "struct">>
    BY <1>3, <2>2 DEF Owned
  <2>3. CASE memory[f] # NoBlock /\ HandsOver(f) /\ given'[f] = memory[f] /\ memory[f][2] \in Owned
    <3>1. memory[f] \in {f} \X Owned
      BY <1>1, <2>3 DEF MinimizingInv
    <3>2. memory[f] \notin freed
      BY <1>1 DEF MinimizingInv
    <3>3. \A g \in Fields : memory[g] = memory[f] => g = f
      BY <1>1, <2>3 DEF MinimizingInv
    <3>4. QED
      BY <1>3, <2>3, <3>1, <3>2, <3>3
  <2>4. QED
    BY <1>2, <2>1, <2>2, <2>3
<1>6. ASSUME NEW f \in Fields, memory'[f][2] \in Owned
      PROVE  memory'[f] \in Blocks(given') \cup freed'
  <2>1. memory[f][2] \in Owned /\ memory[f] # NoBlock
    BY <1>0, <1>6 DEF NoBlock, Owned
  <2>2. CASE HandsOver(f)
    BY <1>0, <1>2, <2>1, <2>2 DEF Blocks
  <2>3. CASE ~HandsOver(f)
    BY <1>0, <2>1, <2>3 DEF Destroyed, FreesMemory
  <2>4. QED
    BY <2>2, <2>3
<1>7. QED
  BY <1>0, <1>4, <1>5, <1>6 DEF MemoryInv

LEMMA InitMemoryInv == Init => MemoryInv
  BY DEF Init, MinIdle, SessionBegins, MemoryInv, NoBlock, NoCall

LEMMA NextMemoryInv == CallInv /\ MemoryInv /\ [Next]_vars => MemoryInv'
<1> SUFFICES ASSUME CallInv, MemoryInv, [Next]_vars PROVE MemoryInv'
  OBVIOUS
<1>1. CASE CooNext /\ UNCHANGED minVars
  <2>1. UNCHANGED <<memory, freed, given>> /\ call' # "minimize_types"
    BY <1>1 DEF minVars, CooNext, CooCall, CooRefuse, CooCount, TakeA, TakeZ, NextColumn,
       CooDuplicate, CooScattered, CooOpen, CooOpenFails, CooValues, CooValuesFail,
       CooRowsDataset, CooRowsDatasetFails, SkipRow, FillRun, FlushChunk, FlushFails,
       CooColumns, CooColumnsFail, CooDescriptor, CooWriteArray, CooWriteArrayFails, CooFail,
       Enter, Raise, Leave, Proceed, mexVars, Coo, At, ChunkReady
  <2>2. last' = last \/ last'.function # "minimize_types"
    BY <1>1 DEF CooNext, CooCall, CooRefuse, CooCount, TakeA, TakeZ, NextColumn,
       CooDuplicate, CooScattered, CooOpen, CooOpenFails, CooValues, CooValuesFail,
       CooRowsDataset, CooRowsDatasetFails, SkipRow, FillRun, FlushChunk, FlushFails,
       CooColumns, CooColumnsFail, CooDescriptor, CooWriteArray, CooWriteArrayFails, CooFail,
       Enter, Raise, Leave, Proceed, mexVars, NoCall
  <2>3. QED
    BY <2>1, <2>2, MemoryKept
<1>2. CASE SsmcNext /\ UNCHANGED minVars
  <2>1. UNCHANGED <<memory, freed, given>> /\ call' # "minimize_types"
    BY <1>2 DEF minVars, SsmcNext, SsmcCall, SsmcDense, SsmcRefuse, SsmcAllocate, SsmcCopy, MergeA,
       MergeZ, MergeDuplicate, MergeColumn, MergeEnd, SsmcReturn, SsmcAborts, Enter, SsmcRaise,
       Raise, Leave, Proceed, mexVars, Ssmc, At
  <2>2. last' = last \/ last'.function # "minimize_types"
    BY <1>2 DEF SsmcNext, SsmcCall, SsmcDense, SsmcRefuse, SsmcAllocate, SsmcCopy, MergeA,
       MergeZ, MergeDuplicate, MergeColumn, MergeEnd, SsmcReturn, SsmcAborts, Enter, SsmcRaise,
       Raise, Leave, Proceed, mexVars, NoCall
  <2>3. QED
    BY <2>1, <2>2, MemoryKept
<1>3. CASE TextNext /\ UNCHANGED minVars
  <2>1. UNCHANGED <<memory, freed, given>> /\ call' # "minimize_types"
    BY <1>3 DEF minVars, TextNext, WriteCall, ReadCall, EncodeText, EncodeTextFails, OpenForText,
       NameIsFree, DatasetExists, CreateType, CreateSpace, CreateDataset, WriteDataset,
       WriteDatasetFails, WriteTextFails, OpenToRead, NoFile, OpenDataset, MissingDataset,
       OpenType, OpenSpace, ReadTextFails, ReadMalformed, ReadText, TextFails, Open,
       CleanupAndRaise, Enter, Raise, Leave, Proceed, Writing, Reading, At
  <2>2. last' = last \/ last'.function # "minimize_types"
    BY <1>3 DEF TextNext, WriteCall, ReadCall, EncodeText, EncodeTextFails, OpenForText,
       NameIsFree, DatasetExists, CreateType, CreateSpace, CreateDataset, WriteDataset,
       WriteDatasetFails, WriteTextFails, OpenToRead, NoFile, OpenDataset, MissingDataset,
       OpenType, OpenSpace, ReadTextFails, ReadMalformed, ReadText, TextFails, Open,
       CleanupAndRaise, Enter, Raise, Leave, Proceed, NoCall
  <2>3. QED
    BY <2>1, <2>2, MemoryKept
<1>4. CASE MinNext
  <2>1. ASSUME UNCHANGED <<call, memory, freed, given>>, call = "none",
               last' = NoCall \/ \E g : last' = [function |-> "read", group |-> g]
        PROVE  MemoryInv'
    <3>1. last'.function # "minimize_types"
      BY <2>1 DEF NoCall
    <3>2. QED
      BY <2>1, <3>1, MemoryKept
  <2>2. CASE CreateStruct
    BY <2>1, <2>2 DEF CreateStruct
  <2>3. ASSUME NEW g, WriteStruct(g) \/ WriteStructRefused(g) \/ ReadStruct(g) \/ ReadStructFails(g)
        PROVE  MemoryInv'
    BY <2>1, <2>3 DEF WriteStruct, WriteStructRefused, ReadStruct, ReadStructFails, minVars
  <2>4. QED
    BY <1>4, <2>2, <2>3, MinCallMemory, MinStepMemory, MinFailsMemory, MinReturnMemory
       DEF MinNext
<1>5. CASE UNCHANGED vars
  BY <1>5 DEF vars, mexVars, minVars, MemoryInv, Blocks, MinimizingInv, Done
<1>6. QED
  BY <1>1, <1>2, <1>3, <1>4, <1>5 DEF Next, Aborted

\* The minimiser frees no array of its argument and gives none away; no two fields
\* of the struct it returns share memory; nothing in it was freed; and all that the
\* call allocated is in the struct or freed.
THEOREM MinimizerMemoryAccounted == Spec => []MemoryAccounted
<1>1. MemoryInv => MemoryAccounted
  <2> SUFFICES ASSUME MemoryInv PROVE MemoryAccounted
    OBVIOUS
  <2>1. \A b \in freed \cup Blocks(given) : b[2] # "matlab"
    BY DEF MemoryInv, Blocks, Owned
  <2>2. Blocks(given) \cap freed = {}
    BY DEF MemoryInv, Blocks
  <2>3. \A f, g \in Fields : f # g /\ given[f] # NoBlock => given[f] # given[g]
    BY DEF MemoryInv
  <2>4. (freed \cup Blocks(given)) \cap {<<f, "matlab">> : f \in Fields} = {}
    BY <2>1
  <2>5. QED
    BY <2>2, <2>3, <2>4 DEF MemoryAccounted, MemoryInv
<1>2. QED
  BY <1>1, InitCallInv, NextCallInv, InitMemoryInv, NextMemoryInv, PTL DEF Spec

================================================================================
