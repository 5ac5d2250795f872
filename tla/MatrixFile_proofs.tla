---------------------------- MODULE MatrixFile_proofs ----------------------------
(******************************************************************************)
(* Proofs about bsp_write_matrix, bsp_write_matrix_to_group and               *)
(* bsp_read_matrix on one file, for all groups, matrices and sets of faults,  *)
(* and any number of writes, crashes and reads.                               *)
(******************************************************************************)
EXTENDS MatrixFile, TLAPS

ConstantsAssumptions ==
    /\ Root \in Groups
    /\ ArraysOf \in [Matrices -> SUBSET ArrayNames]
    /\ \A m \in Matrices : "values" \in ArraysOf[m]
    /\ Valid \subseteq Matrices
    /\ NoMatrix \notin Matrices /\ Unwritten \notin Matrices /\ NoMatrix # Unwritten
    /\ AnyFlushOrder \in BOOLEAN /\ GroupHandles \in BOOLEAN

LEMMA Constants == ConstantsAssumptions
  BY GroupsAssumption, ArraysAssumption, ValidAssumption, DistinctAssumption,
     OptionsAssumption DEF ConstantsAssumptions

--------------------------------------------------------------------------------
(* Contents of files. *)

Objects == Matrices \cup {NoMatrix, Unwritten}

LEMMA ContentsFields ==
    ASSUME NEW d \in Contents
    PROVE  /\ d.made \in SUBSET Groups
           /\ d.data \in [Groups -> [ArrayNames -> Objects]]
           /\ d.attr \in [Groups -> Matrices \cup {NoMatrix}]
           /\ d = [made |-> d.made, data |-> d.data, attr |-> d.attr]
  BY DEF Contents, Objects

LEMMA NothingType == Nothing \in [ArrayNames -> Objects]
  BY DEF Nothing, Objects

LEMMA EmptyContentType == EmptyContent \in Contents
  BY NothingType, Constants DEF EmptyContent, Contents, Objects, ConstantsAssumptions

LEMMA OrderNames ==
    /\ \A k \in 1 .. 4 : Order[k] \in ArrayNames
    /\ Order[1] = "values"
    /\ \A k, l \in 1 .. 4 : k # l => Order[k] # Order[l]
    /\ \A a \in ArrayNames : \E k \in 1 .. 4 : Order[k] = a
  BY DEF Order, ArrayNames

\* Creating a dataset changes one array of one group.
LEMMA DatasetType ==
    ASSUME NEW d \in Contents, NEW g \in Groups, NEW a \in ArrayNames, NEW x \in Objects
    PROVE  /\ WithDataset(d, g, a, x) \in Contents
           /\ WithDataset(d, g, a, x).made = d.made
           /\ WithDataset(d, g, a, x).attr = d.attr
           /\ WithDataset(d, g, a, x).data = [d.data EXCEPT ![g] = [@ EXCEPT ![a] = x]]
<1> DEFINE e == WithDataset(d, g, a, x)
<1>0. \E s, p, q : d = [made |-> s, data |-> p, attr |-> q]
  BY ContentsFields
<1>1. /\ e.made = d.made /\ e.attr = d.attr
      /\ e.data = [d.data EXCEPT ![g] = [@ EXCEPT ![a] = x]]
      /\ e = [made |-> d.made, data |-> e.data, attr |-> d.attr]
  BY <1>0 DEF WithDataset
<1>2. e.data \in [Groups -> [ArrayNames -> Objects]]
  BY <1>1, ContentsFields
<1>3. QED
  BY <1>1, <1>2, ContentsFields DEF Contents, Objects

LEMMA DatasetFields ==
    ASSUME NEW d \in Contents, NEW g \in Groups, NEW a \in ArrayNames, NEW x \in Objects,
           NEW e, e = WithDataset(d, g, a, x)
    PROVE  /\ e \in Contents
           /\ e.made = d.made
           /\ e.attr = d.attr
           /\ \A h \in Groups \ {g} : e.data[h] = d.data[h]
           /\ \A b \in ArrayNames : e.data[g][b] = IF b = a THEN x ELSE d.data[g][b]
<1>1. e \in Contents /\ e.made = d.made /\ e.attr = d.attr
      /\ e.data = [d.data EXCEPT ![g] = [@ EXCEPT ![a] = x]]
  BY DatasetType
<1>2. d.data \in [Groups -> [ArrayNames -> Objects]]
  BY ContentsFields
<1>3. QED
  BY <1>1, <1>2

\* What is on disk after a crash: each of the objects of group g as it is in d, its
\* other objects as they were in b, and the other groups as in d.
IsMixOf(e, b, d, g, objects) ==
    /\ e \in Contents
    /\ e.made = d.made
    /\ \A h \in Groups \ {g} : e.data[h] = d.data[h] /\ e.attr[h] = d.attr[h]
    /\ \A a \in ArrayNames :
          e.data[g][a] = IF a \in objects THEN d.data[g][a] ELSE b.data[g][a]
    /\ e.attr[g] = IF "binsparse" \in objects THEN d.attr[g] ELSE b.attr[g]

LEMMA FlushedFields ==
    ASSUME NEW b \in Contents, NEW d \in Contents, NEW g \in Groups,
           NEW objects, NEW e, e = Flushed(b, d, g, objects)
    PROVE  IsMixOf(e, b, d, g, objects)
<1> DEFINE row == [a \in ArrayNames |-> IF a \in objects THEN d.data[g][a] ELSE b.data[g][a]]
           att == IF "binsparse" \in objects THEN d.attr[g] ELSE b.attr[g]
<1>1. /\ row \in [ArrayNames -> Objects]
      /\ att \in Matrices \cup {NoMatrix}
  BY ContentsFields
<1>2. /\ e.made = d.made
      /\ e.data = [d.data EXCEPT ![g] = row]
      /\ e.attr = [d.attr EXCEPT ![g] = att]
      /\ e = [made |-> e.made, data |-> e.data, attr |-> e.attr]
  <2>1. \E s, p, q : d = [made |-> s, data |-> p, attr |-> q]
    BY ContentsFields
  <2>2. e = [d EXCEPT !.data = [@ EXCEPT ![g] = row], !.attr = [@ EXCEPT ![g] = att]]
    BY DEF Flushed
  <2> HIDE DEF row, att
  <2>3. QED
    BY <2>1, <2>2
<1> HIDE DEF att, row
<1>3. e \in Contents
  <2>1. e.data \in [Groups -> [ArrayNames -> Objects]]
    BY <1>1, <1>2, ContentsFields
  <2>2. e.attr \in [Groups -> Matrices \cup {NoMatrix}]
    BY <1>1, <1>2, ContentsFields
  <2>3. QED
    BY <1>2, <2>1, <2>2, ContentsFields DEF Contents, Objects
<1>4. e.data[g] = row /\ e.attr[g] = att
  BY <1>2, ContentsFields
<1>5. \A h \in Groups \ {g} : e.data[h] = d.data[h] /\ e.attr[h] = d.attr[h]
  BY <1>2, ContentsFields
<1>6. QED
  BY <1>2, <1>3, <1>4, <1>5 DEF row, att, IsMixOf

--------------------------------------------------------------------------------
(* Type correctness. *)

LEMMA InitType == Init => TypeOK
<1> SUFFICES ASSUME Init PROVE TypeOK
  OBVIOUS
<1>1. EmptyContent \in Contents /\ Root \in EmptyContent.made
  BY EmptyContentType DEF EmptyContent
<1>2. result.code # "BSP_SUCCESS"
  BY DEF Init, NoResult
<1>3. content \in Contents /\ before \in Contents /\ Root \in content.made \cap before.made
  BY <1>1 DEF Init
<1>4. step \in 0 .. 6 /\ step = 0 /\ grp \in Groups
  BY Constants DEF Init, ConstantsAssumptions
<1>5. QED
  BY <1>2, <1>3, <1>4 DEF Init, TypeOK

\* Where an opening action ends with the shape checks of group g and matrix m.
LEMMA CheckedType ==
    ASSUME TypeOK, NEW g \in Groups, NEW m \in Matrices, step = 0, CheckInput(g, m),
           file' \in {"absent", "hdf5", "damaged"}, content' \in Contents, before' \in Contents,
           Root \in content'.made \cap before'.made, handle' \in BOOLEAN
    PROVE  TypeOK'
<1>1. CASE m \in Valid
  BY <1>1 DEF TypeOK, CheckInput, NoResult
<1>2. CASE m \notin Valid
  BY <1>2 DEF TypeOK, CheckInput, Result
<1>3. QED
  BY <1>1, <1>2

\* The content of a file in which WriteGroup has created its group.
LEMMA MadeFields ==
    ASSUME NEW d \in Contents, NEW g \in Groups
    PROVE  LET e == [d EXCEPT !.made = @ \cup {g}]
           IN  /\ e \in Contents
               /\ e.made = d.made \cup {g} /\ e.data = d.data /\ e.attr = d.attr
<1>1. d = [made |-> d.made, data |-> d.data, attr |-> d.attr] /\ d.made \subseteq Groups
  BY ContentsFields
<1> DEFINE e == [d EXCEPT !.made = @ \cup {g}]
<1>2. e = [made |-> d.made \cup {g}, data |-> d.data, attr |-> d.attr]
  BY <1>1
<1>3. QED
  BY <1>1, <1>2, ContentsFields DEF Contents, Objects

\* Writing the attribute of group g, if it has none.
LEMMA AttributeFields ==
    ASSUME NEW d \in Contents, NEW g \in Groups, NEW m \in Matrices,
           NEW e, e = [d EXCEPT !.attr[g] = IF @ = NoMatrix THEN m ELSE @]
    PROVE  /\ e \in Contents
           /\ e.made = d.made /\ e.data = d.data
           /\ \A h \in Groups \ {g} : e.attr[h] = d.attr[h]
           /\ e.attr[g] = IF d.attr[g] = NoMatrix THEN m ELSE d.attr[g]
<1> DEFINE att == [d.attr EXCEPT ![g] = IF @ = NoMatrix THEN m ELSE @]
<1>1. \E s, p, q : d = [made |-> s, data |-> p, attr |-> q]
  BY ContentsFields
<1>2. e = [made |-> d.made, data |-> d.data, attr |-> att]
  BY <1>1
<1>3. att \in [Groups -> Matrices \cup {NoMatrix}]
  BY ContentsFields
<1>4. e \in Contents
  BY <1>2, <1>3, ContentsFields DEF Contents, Objects
<1>5. QED
  BY <1>2, <1>4, ContentsFields

\* What WriteGroup opens and makes.
LEMMA OpeningType ==
    ASSUME TypeOK
    PROVE  /\ \A m \in Matrices : WriteRoot(m) =>
                 /\ file' \in {"absent", "hdf5", "damaged"} /\ content' \in Contents
                 /\ Root \in content'.made \cap before'.made /\ before' \in Contents /\ handle' \in BOOLEAN
           /\ \A g \in Groups, m \in Matrices : WriteGroup(g, m) \/ WriteToGroup(g, m) =>
                 /\ file' \in {"absent", "hdf5", "damaged"} /\ content' \in Contents
                 /\ Root \in content'.made \cap before'.made /\ before' \in Contents /\ handle' \in BOOLEAN
<1>0. Root \in EmptyContent.made
  BY DEF EmptyContent
<1>1. ASSUME NEW m \in Matrices, WriteRoot(m)
      PROVE  /\ file' \in {"absent", "hdf5", "damaged"} /\ content' \in Contents
             /\ Root \in content'.made \cap before'.made /\ before' \in Contents /\ handle' \in BOOLEAN
  BY <1>0, <1>1, EmptyContentType DEF TypeOK, WriteRoot
<1>2. ASSUME NEW g \in Groups, NEW m \in Matrices, WriteGroup(g, m)
      PROVE  /\ file' \in {"absent", "hdf5", "damaged"} /\ content' \in Contents
             /\ Root \in content'.made \cap before'.made /\ before' \in Contents /\ handle' \in BOOLEAN
  <2> DEFINE found == IF file = "absent" THEN EmptyContent ELSE content
  <2>1. found \in Contents /\ Root \in found.made
    BY <1>0, EmptyContentType DEF TypeOK
  <2>2. before' \in {found, content}
    BY <1>2 DEF WriteGroup
  <2>3. content' \in {[found EXCEPT !.made = @ \cup {g}], before'}
    BY <1>2 DEF WriteGroup
  <2>4. handle' \in BOOLEAN /\ file' \in {"hdf5", file}
    BY <1>2 DEF WriteGroup
  <2> HIDE DEF found
  <2>5. [found EXCEPT !.made = @ \cup {g}] \in Contents
        /\ Root \in [found EXCEPT !.made = @ \cup {g}].made
    BY <2>1, MadeFields
  <2>6. QED
    BY <2>1, <2>2, <2>3, <2>4, <2>5 DEF TypeOK
<1>3. ASSUME NEW g \in Groups, NEW m \in Matrices, WriteToGroup(g, m)
      PROVE  /\ file' \in {"absent", "hdf5", "damaged"} /\ content' \in Contents
             /\ Root \in content'.made \cap before'.made /\ before' \in Contents /\ handle' \in BOOLEAN
  BY <1>3 DEF TypeOK, WriteToGroup
<1>4. QED
  BY <1>1, <1>2, <1>3

\* What a crash leaves on disk.
LEMMA OnDiskKinds ==
    ASSUME NEW b, NEW d, NEW g, NEW e \in OnDisk(b, d, g)
    PROVE  \/ e = b
           \/ \E objects :
                 /\ e = Flushed(b, d, g, objects)
                 /\ ~AnyFlushOrder => objects \in Prefixes
  BY DEF OnDisk

LEMMA CrashType ==
    ASSUME TypeOK, Crash
    PROVE  content' \in Contents /\ Root \in content'.made
<1>1. CASE content' = EmptyContent
  BY <1>1, EmptyContentType DEF EmptyContent
<1>2. CASE content' \in OnDisk(before, content, grp)
  <2>1. before \in Contents /\ content \in Contents /\ grp \in Groups
        /\ Root \in content.made \cap before.made
    BY DEF TypeOK
  <2>2. ASSUME NEW objects,
               content' = Flushed(before, content, grp, objects)
        PROVE  content' \in Contents /\ Root \in content'.made
    <3>1. content' \in Contents /\ content'.made = content.made
      BY <2>1, <2>2, FlushedFields DEF IsMixOf
    <3>2. QED
      BY <2>1, <3>1
  <2>3. QED
    BY <1>2, <2>1, <2>2, OnDiskKinds
<1>3. QED
  BY <1>1, <1>2 DEF Crash

LEMMA NextType == TypeOK /\ [Next]_vars => TypeOK'
<1> SUFFICES ASSUME TypeOK, [Next]_vars PROVE TypeOK'
  OBVIOUS
<1>0. Valid \subseteq Matrices /\ Root \in Groups
  BY Constants DEF ConstantsAssumptions
<1>1. ASSUME NEW m \in Matrices, WriteRoot(m) PROVE TypeOK'
  BY <1>0, <1>1, CheckedType, OpeningType DEF WriteRoot
<1>2. ASSUME NEW g \in Groups, NEW m \in Matrices, WriteGroup(g, m) \/ WriteToGroup(g, m)
      PROVE  TypeOK'
  BY <1>2, CheckedType, OpeningType DEF WriteGroup, WriteToGroup
<1>3. CASE WriteArray
  <2>1. Order[step] \in ArrayNames /\ mat \in Objects /\ grp \in Groups /\ content \in Contents
    BY <1>0, <1>3, OrderNames DEF WriteArray, TypeOK, Objects
  <2>2. content' \in Contents /\ content'.made = content.made
    BY <1>3, <2>1, DatasetFields DEF WriteArray
  <2>3. QED
    BY <1>3, <2>2 DEF WriteArray, TypeOK
<1>4. CASE WriteArrayFails
  <2>1. Order[step] \in ArrayNames /\ Unwritten \in Objects /\ grp \in Groups
        /\ content \in Contents
    BY <1>4, OrderNames DEF WriteArrayFails, TypeOK, Objects
  <2>2. content' \in Contents /\ content'.made = content.made
    BY <1>4, <2>1, DatasetFields DEF WriteArrayFails
  <2>3. QED
    BY <1>4, <2>2 DEF WriteArrayFails, TypeOK, Result
<1>5. CASE WriteAttribute
  <2>1. mat \in Matrices /\ grp \in Groups /\ content \in Contents
    BY <1>0, <1>5 DEF WriteAttribute, TypeOK
  <2>2. content' \in Contents /\ content'.made = content.made
    BY <1>5, <2>1, AttributeFields DEF WriteAttribute
  <2>3. QED
    BY <1>5, <2>2 DEF WriteAttribute, TypeOK
<1>6. CASE SkipArray
  BY <1>6 DEF SkipArray, TypeOK
<1>7. CASE CloseFile
  BY <1>7 DEF CloseFile, TypeOK, Result
<1>8. CASE Crash
  BY <1>8, CrashType DEF Crash, TypeOK, NoResult
<1>9. ASSUME NEW g \in Groups, Read(g) \/ ReadFails(g) PROVE TypeOK'
  BY <1>9 DEF Read, ReadFails, TypeOK, Result
<1>10. CASE UNCHANGED vars
  BY <1>10 DEF vars, TypeOK
<1>11. QED
  BY <1>1, <1>2, <1>3, <1>4, <1>5, <1>6, <1>7, <1>8, <1>9, <1>10 DEF Next

\* The variables of a session of writes, crashes and reads keep their types, and
\* whatever is on disk has a root group.
THEOREM FileTypeCorrect == Spec => []TypeOK
  BY InitType, NextType, PTL DEF Spec

--------------------------------------------------------------------------------
(* What a group of a file can look like. *)

\* Nothing has been written to group g.
Blank(c, g) ==
    /\ \A a \in ArrayNames : c.data[g][a] = NoMatrix
    /\ c.attr[g] = NoMatrix

\* A group that has not been created is blank.
MadeFirst(c, g) == g \notin c.made => Blank(c, g)

\* The values array is the first object of a matrix, in the program's order.
ValuesFirst(c, g) == ~AnyFlushOrder /\ c.data[g]["values"] = NoMatrix => Blank(c, g)

\* A descriptor never stands next to the arrays of another matrix, nor next to one
\* whose H5Dwrite failed; arrays may be missing.
OneMatrix(c, g) ==
    c.attr[g] # NoMatrix =>
        /\ c.attr[g] \in Valid
        /\ \A a \in ArraysOf[c.attr[g]] : c.data[g][a] \in {c.attr[g], NoMatrix}

SoundGroup(c, g) == MadeFirst(c, g) /\ ValuesFirst(c, g) /\ OneMatrix(c, g)

Sound(c) == \A g \in Groups : SoundGroup(c, g)

--------------------------------------------------------------------------------
(* A write under way. *)

\* It only touches its own group.
OtherGroupsKept ==
    /\ content.made \in {before.made, before.made \cup {grp}}
    /\ \A g \in Groups \ {grp} :
          content.data[g] = before.data[g] /\ content.attr[g] = before.attr[g]

\* Before the first array it has written nothing, and, if it can go on, a group
\* without values is blank.
FirstArray ==
    step = 1 =>
        /\ content.data[grp] = before.data[grp]
        /\ content.attr[grp] = before.attr[grp]
        /\ handle /\ before.data[grp]["values"] = NoMatrix => Blank(before, grp)

\* From then on the group holds the arrays written so far and nothing else.
LaterArrays ==
    step > 1 =>
        /\ handle
        /\ Blank(before, grp)
        /\ \A k \in 1 .. 4 :
              content.data[grp][Order[k]] = IF k < step /\ HasArray(mat, k) THEN mat
                                                                            ELSE NoMatrix

\* The descriptor comes last, and is missing then only when writing it failed.
Descriptor ==
    /\ step \in 2 .. 5 => content.attr[grp] = NoMatrix
    /\ step = 6 => /\ content.attr[grp] \in {mat, NoMatrix}
                   /\ "attribute" \notin Faults => content.attr[grp] = mat

WriteInv ==
    step # 0 =>
        /\ result = NoResult
        /\ handle => file = "hdf5" /\ grp \in content.made
        /\ ~handle => content = before
        /\ OtherGroupsKept /\ FirstArray /\ LaterArrays /\ Descriptor

FileInv ==
    /\ TypeOK
    /\ file # "hdf5" => content = EmptyContent
    /\ Sound(content)
    /\ Sound(before)
    /\ WriteInv

\* What a program gets that mixes group handles with a file system that reorders
\* writes is not covered: a crash can leave a descriptor without its values, and
\* bsp_write_matrix_to_group then writes another matrix next to it.
WritesKeptInOrder == ~(AnyFlushOrder /\ GroupHandles)

--------------------------------------------------------------------------------
(* Sound groups stay sound. *)

LEMMA SameGroupSound ==
    ASSUME NEW c, NEW d, NEW g, SoundGroup(d, g),
           c.data[g] = d.data[g], c.attr[g] = d.attr[g], g \in d.made => g \in c.made
    PROVE  SoundGroup(c, g)
  BY DEF SoundGroup, MadeFirst, ValuesFirst, OneMatrix, Blank

LEMMA BlankSound ==
    ASSUME NEW c, NEW g, Blank(c, g)
    PROVE  SoundGroup(c, g)
  BY DEF SoundGroup, MadeFirst, ValuesFirst, OneMatrix, Blank

LEMMA EmptyContentSound == Sound(EmptyContent) /\ \A g \in Groups : Blank(EmptyContent, g)
<1>1. \A g \in Groups : Blank(EmptyContent, g)
  BY DEF EmptyContent, Blank, Nothing
<1>2. QED
  BY <1>1, BlankSound DEF Sound

LEMMA MadeSound ==
    ASSUME NEW d \in Contents, NEW g \in Groups, Sound(d)
    PROVE  Sound([d EXCEPT !.made = @ \cup {g}])
<1> DEFINE e == [d EXCEPT !.made = @ \cup {g}]
<1>1. e.made = d.made \cup {g} /\ e.data = d.data /\ e.attr = d.attr
  BY MadeFields
<1> HIDE DEF e
<1>2. ASSUME NEW h \in Groups PROVE SoundGroup(e, h)
  BY <1>1, SameGroupSound DEF Sound
<1>3. QED
  BY <1>2 DEF Sound, e

\* A dataset in a group without a descriptor, whose values come first.
LEMMA DatasetSound ==
    ASSUME NEW d \in Contents, NEW g \in Groups, NEW a \in ArrayNames, NEW x \in Objects,
           NEW e, e = WithDataset(d, g, a, x), Sound(d), g \in d.made,
           d.attr[g] = NoMatrix, x # NoMatrix,
           a = "values" \/ d.data[g]["values"] # NoMatrix
    PROVE  Sound(e)
<1>1. /\ e.made = d.made /\ e.attr = d.attr
      /\ \A h \in Groups \ {g} : e.data[h] = d.data[h]
      /\ \A b \in ArrayNames : e.data[g][b] = IF b = a THEN x ELSE d.data[g][b]
  BY DatasetFields
<1>2. ASSUME NEW h \in Groups \ {g} PROVE SoundGroup(e, h)
  BY <1>1, SameGroupSound DEF Sound
<1>3. e.data[g]["values"] # NoMatrix
  BY <1>1 DEF ArrayNames
<1>4. SoundGroup(e, g)
  BY <1>1, <1>3 DEF SoundGroup, MadeFirst, ValuesFirst, OneMatrix
<1>5. QED
  BY <1>2, <1>4 DEF Sound

--------------------------------------------------------------------------------
(* Starting a write. *)

LEMMA InitFileInv == Init => FileInv
<1> SUFFICES ASSUME Init PROVE FileInv
  OBVIOUS
<1>1. TypeOK
  BY InitType
<1>2. Sound(content) /\ Sound(before) /\ content = EmptyContent /\ step = 0
  BY EmptyContentSound DEF Init
<1>3. QED
  BY <1>1, <1>2 DEF FileInv, WriteInv

\* An opening action that ends with the shape checks of group g and matrix m.
LEMMA CheckedInv ==
    ASSUME TypeOK', NEW g \in Groups, NEW m \in Matrices, step = 0, CheckInput(g, m),
           file' # "hdf5" => content' = EmptyContent,
           Sound(content'), Sound(before'),
           content'.made \in {before'.made, before'.made \cup {g}},
           content'.data = before'.data, content'.attr = before'.attr,
           ~handle' => content' = before',
           handle' => /\ file' = "hdf5" /\ g \in content'.made
                      /\ before'.data[g]["values"] = NoMatrix => Blank(before', g)
    PROVE  FileInv'
<1>1. CASE m \in Valid
  <2>1. step' = 1 /\ grp' = g /\ result' = NoResult
    BY <1>1 DEF CheckInput
  <2>2. OtherGroupsKept' /\ FirstArray' /\ LaterArrays' /\ Descriptor'
    BY <2>1 DEF OtherGroupsKept, FirstArray, LaterArrays, Descriptor
  <2>3. QED
    BY <2>1, <2>2 DEF FileInv, WriteInv
<1>2. CASE m \notin Valid
  BY <1>2 DEF CheckInput, FileInv, WriteInv
<1>3. QED
  BY <1>1, <1>2

LEMMA WriteRootInv ==
    ASSUME FileInv, TypeOK', NEW m \in Matrices, WriteRoot(m)
    PROVE  FileInv'
<1>1. Root \in Groups /\ CheckInput(Root, m) /\ step = 0
  BY Constants DEF WriteRoot, ConstantsAssumptions
<1>2. CASE file' = "hdf5" /\ content' = EmptyContent /\ before' = EmptyContent /\ handle'
  <2>1. Sound(content') /\ Sound(before') /\ Blank(before', Root) /\ Root \in content'.made
    BY <1>1, <1>2, EmptyContentSound DEF EmptyContent
  <2>2. QED
    BY <1>1, <1>2, <2>1, CheckedInv
<1>3. CASE before' = content /\ ~handle' /\ UNCHANGED <<file, content>>
  BY <1>1, <1>3, CheckedInv DEF FileInv
<1>4. QED
  BY <1>2, <1>3 DEF WriteRoot

LEMMA WriteGroupInv ==
    ASSUME FileInv, TypeOK', NEW g \in Groups, NEW m \in Matrices, WriteGroup(g, m)
    PROVE  FileInv'
<1>1. content \in Contents /\ Sound(content) /\ (file # "hdf5" => content = EmptyContent)
  BY DEF FileInv, TypeOK
<1>2. step = 0 /\ CheckInput(g, m)
  BY DEF WriteGroup
<1> DEFINE made == [content EXCEPT !.made = @ \cup {g}]
<1>3. before' = content
  BY <1>1 DEF WriteGroup
<1>4. \/ file' \in {"hdf5", file} /\ content' = content /\ ~handle'
      \/ file' = "hdf5" /\ content' = made /\ g \notin content.made /\ handle'
  BY <1>1 DEF WriteGroup
<1>5. CASE file' \in {"hdf5", file} /\ content' = content /\ ~handle'
  BY <1>1, <1>2, <1>3, <1>5, CheckedInv
<1>6. CASE file' = "hdf5" /\ content' = made /\ g \notin content.made /\ handle'
  <2>1. /\ content'.made = content.made \cup {g}
        /\ content'.data = content.data /\ content'.attr = content.attr
    BY <1>1, <1>6, MadeFields
  <2>2. Sound(content')
    BY <1>1, <1>6, MadeSound
  <2>3. Blank(content, g)
    BY <1>1, <1>6 DEF Sound, SoundGroup, MadeFirst
  <2>4. QED
    BY <1>1, <1>2, <1>3, <1>6, <2>1, <2>2, <2>3, CheckedInv
<1>7. QED
  BY <1>4, <1>5, <1>6

\* A group the caller has opened may hold anything the earlier writes left.
LEMMA WriteToGroupInv ==
    ASSUME WritesKeptInOrder, FileInv, TypeOK',
           NEW g \in Groups, NEW m \in Matrices, WriteToGroup(g, m)
    PROVE  FileInv'
<1>1. /\ step = 0 /\ file = "hdf5" /\ g \in content.made /\ before' = content /\ handle'
      /\ CheckInput(g, m) /\ UNCHANGED <<file, content>> /\ Sound(content)
  BY DEF WriteToGroup, FileInv
<1>2. ~AnyFlushOrder
  BY DEF WriteToGroup, WritesKeptInOrder
<1>3. before'.data[g]["values"] = NoMatrix => Blank(before', g)
  BY <1>1, <1>2 DEF Sound, SoundGroup, ValuesFirst
<1>4. QED
  BY <1>1, <1>3, CheckedInv

--------------------------------------------------------------------------------
(* The steps of a write. *)

\* What a write finds when it creates a dataset: its group holds the arrays before
\* this one and nothing else.
LEMMA AtArray ==
    ASSUME FileInv, step \in 1 .. 4, HasArray(mat, step), handle, NameFree(grp, Order[step])
    PROVE  /\ content \in Contents /\ grp \in Groups /\ mat \in Valid /\ mat \in Matrices
           /\ Order[step] \in ArrayNames
           /\ file = "hdf5" /\ grp \in content.made /\ Blank(before, grp)
           /\ content.attr[grp] = NoMatrix
           /\ \A k \in 1 .. 4 : content.data[grp][Order[k]] =
                 IF k < step /\ HasArray(mat, k) THEN mat ELSE NoMatrix
           /\ Order[step] = "values" \/ content.data[grp]["values"] # NoMatrix
<1>1. /\ content \in Contents /\ grp \in Groups /\ mat \in Valid /\ mat \in Matrices
      /\ mat # NoMatrix /\ Order[step] \in ArrayNames
  BY Constants, OrderNames DEF FileInv, TypeOK, ConstantsAssumptions
<1>2. /\ file = "hdf5" /\ grp \in content.made
      /\ OtherGroupsKept /\ FirstArray /\ LaterArrays /\ Descriptor
  BY DEF FileInv, WriteInv
<1>3. CASE step = 1
  <2>1. Order[step] = "values"
    BY <1>3, OrderNames
  <2>2. Blank(before, grp)
    BY <1>2, <1>3, <2>1 DEF FirstArray, NameFree
  <2>3. /\ content.attr[grp] = NoMatrix
        /\ \A a \in ArrayNames : content.data[grp][a] = NoMatrix
    BY <1>2, <1>3, <2>2 DEF FirstArray, Blank
  <2>4. \A k \in 1 .. 4 : content.data[grp][Order[k]] =
           IF k < step /\ HasArray(mat, k) THEN mat ELSE NoMatrix
    BY <1>3, <2>3, OrderNames
  <2>5. QED
    BY <1>1, <1>2, <2>1, <2>2, <2>3, <2>4
<1>4. CASE step # 1
  <2>1. step \in 2 .. 5 /\ step > 1
    BY <1>4
  <2>2. /\ Blank(before, grp) /\ content.attr[grp] = NoMatrix
        /\ \A k \in 1 .. 4 : content.data[grp][Order[k]] =
              IF k < step /\ HasArray(mat, k) THEN mat ELSE NoMatrix
    BY <1>2, <2>1 DEF LaterArrays, Descriptor
  <2>3. HasArray(mat, 1) /\ Order[1] = "values"
    BY <1>1, OrderNames, Constants DEF HasArray, ConstantsAssumptions
  <2>4. content.data[grp]["values"] = mat
    <3>1. 1 \in 1 .. 4 /\ 1 < step
      BY <2>1
    <3>2. QED
      BY <2>2, <2>3, <3>1
  <2>5. QED
    BY <1>1, <1>2, <2>2, <2>4
<1>5. QED
  BY <1>3, <1>4

LEMMA WriteArrayInv ==
    ASSUME FileInv, TypeOK', WriteArray
    PROVE  FileInv'
<1>1. /\ step \in 1 .. 4 /\ HasArray(mat, step) /\ handle /\ NameFree(grp, Order[step])
      /\ content' = WithDataset(content, grp, Order[step], mat)
      /\ step' = step + 1 /\ UNCHANGED <<file, before, grp, mat, handle, result>>
  BY DEF WriteArray
<1>2. /\ content \in Contents /\ grp \in Groups /\ mat \in Valid /\ mat \in Matrices
      /\ Order[step] \in ArrayNames
      /\ file = "hdf5" /\ grp \in content.made /\ Blank(before, grp)
      /\ content.attr[grp] = NoMatrix
      /\ \A k \in 1 .. 4 : content.data[grp][Order[k]] =
            IF k < step /\ HasArray(mat, k) THEN mat ELSE NoMatrix
      /\ Order[step] = "values" \/ content.data[grp]["values"] # NoMatrix
  BY <1>1, AtArray
<1>3. mat \in Objects /\ mat # NoMatrix
  BY <1>2, Constants DEF Objects, ConstantsAssumptions
<1>4. /\ content'.made = content.made /\ content'.attr = content.attr
      /\ \A h \in Groups \ {grp} : content'.data[h] = content.data[h]
      /\ \A b \in ArrayNames : content'.data[grp][b] = IF b = Order[step] THEN mat
                                                       ELSE content.data[grp][b]
  BY <1>1, <1>2, <1>3, DatasetFields
<1>5. Sound(content')
  BY <1>1, <1>2, <1>3, DatasetSound DEF FileInv
<1>6. result = NoResult /\ OtherGroupsKept /\ Sound(before)
  BY <1>1 DEF FileInv, WriteInv
<1>7. OtherGroupsKept'
  BY <1>1, <1>4, <1>6 DEF OtherGroupsKept
<1>8. LaterArrays'
  <2>1. ASSUME NEW k \in 1 .. 4
        PROVE  content'.data[grp][Order[k]] =
                  IF k < step + 1 /\ HasArray(mat, k) THEN mat ELSE NoMatrix
    <3>1. Order[k] \in ArrayNames /\ (Order[k] = Order[step] <=> k = step)
      BY <1>1, OrderNames
    <3>2. CASE k = step
      BY <1>1, <1>4, <3>1, <3>2
    <3>3. CASE k # step
      <4>1. content'.data[grp][Order[k]] = content.data[grp][Order[k]]
        BY <1>4, <3>1, <3>3
      <4>2. k < step + 1 <=> k < step
        BY <1>1, <3>3
      <4>3. QED
        BY <1>2, <4>1, <4>2
    <3>4. QED
      BY <3>2, <3>3
  <2>2. \A k : HasArray(mat, k)' <=> HasArray(mat, k)
    BY <1>1 DEF HasArray
  <2>3. Blank(before, grp)'
    BY <1>1, <1>2 DEF Blank
  <2>4. QED
    BY <1>1, <2>1, <2>2, <2>3 DEF LaterArrays
<1>9. FirstArray' /\ Descriptor'
  BY <1>1, <1>2, <1>4 DEF FirstArray, Descriptor
<1>10. QED
  BY <1>1, <1>2, <1>4, <1>5, <1>6, <1>7, <1>8, <1>9 DEF FileInv, WriteInv

LEMMA SkipArrayInv ==
    ASSUME FileInv, TypeOK', SkipArray
    PROVE  FileInv'
<1>1. /\ step \in 1 .. 4 /\ ~HasArray(mat, step) /\ step' = step + 1
      /\ UNCHANGED <<file, content, before, grp, mat, handle, result>>
  BY DEF SkipArray
<1>2. mat \in Matrices /\ HasArray(mat, 1)
  BY <1>1, Constants, OrderNames DEF FileInv, TypeOK, HasArray, ConstantsAssumptions
<1>3. step > 1
  BY <1>1, <1>2
<1>4. result = NoResult /\ OtherGroupsKept /\ LaterArrays /\ Descriptor
  BY <1>1 DEF FileInv, WriteInv
<1>5. OtherGroupsKept' /\ FirstArray' /\ Descriptor'
  BY <1>1, <1>3, <1>4 DEF OtherGroupsKept, FirstArray, Descriptor
<1>6. LaterArrays'
  <2>1. ASSUME NEW k \in 1 .. 4
        PROVE  content.data[grp][Order[k]] =
                  IF k < step + 1 /\ HasArray(mat, k) THEN mat ELSE NoMatrix
    <3>1. k < step + 1 /\ HasArray(mat, k) <=> k < step /\ HasArray(mat, k)
      BY <1>1
    <3>2. QED
      BY <1>3, <1>4, <3>1 DEF LaterArrays
  <2>2. \A k : HasArray(mat, k)' <=> HasArray(mat, k)
    BY <1>1 DEF HasArray
  <2>3. Blank(before, grp)'
    BY <1>1, <1>3, <1>4 DEF Blank, LaterArrays
  <2>4. handle
    BY <1>3, <1>4 DEF LaterArrays
  <2>5. QED
    BY <1>1, <2>1, <2>2, <2>3, <2>4 DEF LaterArrays
<1>7. QED
  BY <1>1, <1>4, <1>5, <1>6 DEF FileInv, WriteInv, Sound, SoundGroup, MadeFirst, ValuesFirst,
                                 OneMatrix, Blank

\* A step that ends a call and leaves the file alone.
LEMMA EndInv ==
    ASSUME FileInv, TypeOK', step' = 0, UNCHANGED <<file, content, before>>
    PROVE  FileInv'
<1>1. Sound(content') /\ Sound(before')
  BY DEF FileInv
<1>2. QED
  BY <1>1 DEF FileInv, WriteInv

LEMMA WriteArrayFailsInv ==
    ASSUME FileInv, TypeOK', WriteArrayFails
    PROVE  FileInv'
<1>1. /\ step \in 1 .. 4 /\ HasArray(mat, step) /\ step' = 0
      /\ UNCHANGED <<file, before>>
  BY DEF WriteArrayFails
<1>2. CASE content' = content
  BY <1>1, <1>2, EndInv
<1>3. CASE /\ handle /\ NameFree(grp, Order[step])
           /\ content' = WithDataset(content, grp, Order[step], Unwritten)
  <2>1. /\ content \in Contents /\ grp \in Groups /\ Order[step] \in ArrayNames
        /\ file = "hdf5" /\ grp \in content.made /\ content.attr[grp] = NoMatrix
        /\ Order[step] = "values" \/ content.data[grp]["values"] # NoMatrix
    BY <1>1, <1>3, AtArray
  <2>2. Unwritten \in Objects /\ Unwritten # NoMatrix
    BY Constants DEF Objects, ConstantsAssumptions
  <2>3. Sound(content')
    BY <1>3, <2>1, <2>2, DatasetSound DEF FileInv
  <2>4. Sound(before')
    BY <1>1 DEF FileInv
  <2>5. QED
    BY <1>1, <2>1, <2>3, <2>4 DEF FileInv, WriteInv
<1>4. QED
  BY <1>2, <1>3 DEF WriteArrayFails

\* All arrays of the matrix are there when its descriptor is written.
LEMMA AllArrays ==
    ASSUME FileInv, step > 4
    PROVE  \A a \in ArrayNames : content.data[grp][a] = IF a \in ArraysOf[mat] THEN mat
                                                                             ELSE NoMatrix
<1>1. /\ step \in 5 .. 6
      /\ \A k \in 1 .. 4 : content.data[grp][Order[k]] =
            IF k < step /\ HasArray(mat, k) THEN mat ELSE NoMatrix
  BY DEF FileInv, TypeOK, WriteInv, LaterArrays
<1>2. ASSUME NEW a \in ArrayNames
      PROVE  content.data[grp][a] = IF a \in ArraysOf[mat] THEN mat ELSE NoMatrix
  <2>1. PICK k \in 1 .. 4 : Order[k] = a
    BY OrderNames
  <2>2. k < step
    BY <1>1
  <2>3. QED
    BY <1>1, <2>1, <2>2 DEF HasArray
<1>3. QED
  BY <1>2

LEMMA WriteAttributeInv ==
    ASSUME FileInv, TypeOK', WriteAttribute
    PROVE  FileInv'
<1>1. /\ step = 5 /\ step' = 6
      /\ UNCHANGED <<file, before, grp, mat, handle, result>>
      /\ \/ content' = [content EXCEPT !.attr[grp] = IF @ = NoMatrix THEN mat ELSE @]
         \/ "attribute" \in Faults /\ content' = content
  BY DEF WriteAttribute
<1>2. /\ content \in Contents /\ grp \in Groups /\ mat \in Valid /\ mat \in Matrices
      /\ mat # NoMatrix
  BY <1>1, Constants DEF FileInv, TypeOK, ConstantsAssumptions
<1>3. /\ result = NoResult /\ OtherGroupsKept /\ LaterArrays /\ Descriptor
      /\ Sound(content) /\ Sound(before) /\ (file # "hdf5" => content = EmptyContent)
      /\ (handle => file = "hdf5" /\ grp \in content.made)
  BY <1>1 DEF FileInv, WriteInv
<1>4. content.attr[grp] = NoMatrix /\ handle /\ Blank(before, grp)
      /\ \A k \in 1 .. 4 : content.data[grp][Order[k]] =
            IF k < step /\ HasArray(mat, k) THEN mat ELSE NoMatrix
  BY <1>1, <1>3 DEF Descriptor, LaterArrays
<1>5. /\ content'.made = content.made /\ content'.data = content.data
      /\ \A h \in Groups \ {grp} : content'.attr[h] = content.attr[h]
      /\ content'.attr[grp] \in {mat, NoMatrix}
      /\ "attribute" \notin Faults => content'.attr[grp] = mat
  BY <1>1, <1>2, <1>4, AttributeFields
<1>6. \A a \in ArrayNames : content.data[grp][a] = IF a \in ArraysOf[mat] THEN mat
                                                                        ELSE NoMatrix
  BY <1>1, AllArrays
<1>7. /\ ArraysOf[mat] \subseteq ArrayNames /\ "values" \in ArraysOf[mat]
      /\ "values" \in ArrayNames
  BY <1>2, Constants DEF ConstantsAssumptions
<1>8. SoundGroup(content', grp)
  BY <1>2, <1>3, <1>4, <1>5, <1>6, <1>7 DEF SoundGroup, MadeFirst, ValuesFirst, OneMatrix
<1>9. Sound(content')
  <2>1. ASSUME NEW h \in Groups \ {grp} PROVE SoundGroup(content', h)
    BY <1>3, <1>5, SameGroupSound DEF Sound
  <2>2. QED
    BY <1>8, <2>1 DEF Sound
<1>10. OtherGroupsKept' /\ FirstArray' /\ Descriptor'
  BY <1>1, <1>3, <1>5 DEF OtherGroupsKept, FirstArray, Descriptor
<1>11. LaterArrays'
  <2>1. ASSUME NEW k \in 1 .. 4
        PROVE  content.data[grp][Order[k]] =
                  IF k < 6 /\ HasArray(mat, k) THEN mat ELSE NoMatrix
    <3>1. k < step /\ k < 6
      BY <1>1
    <3>2. QED
      BY <1>4, <3>1
  <2>2. \A k : HasArray(mat, k)' <=> HasArray(mat, k)
    BY <1>1 DEF HasArray
  <2>3. Blank(before, grp)'
    BY <1>1, <1>4 DEF Blank
  <2>4. QED
    BY <1>1, <1>4, <1>5, <2>1, <2>2, <2>3 DEF LaterArrays
<1>12. QED
  BY <1>1, <1>3, <1>4, <1>5, <1>9, <1>10, <1>11 DEF FileInv, WriteInv

--------------------------------------------------------------------------------
(* Crashes. *)

LEMMA PrefixStarts ==
    \A objects \in Prefixes : "values" \in objects \/ objects = {}
<1>1. "values" \in FileObjects
  BY DEF FileObjects, ArrayNames
<1>2. ASSUME NEW n \in 0 .. 4
      PROVE  "values" \in {Order[k] : k \in 1 .. n} \/ {Order[k] : k \in 1 .. n} = {}
  <2>1. CASE n = 0
    BY <2>1
  <2>2. CASE n # 0
    <3>1. 1 \in 1 .. n /\ Order[1] = "values"
      BY <2>2, OrderNames
    <3>2. QED
      BY <3>1
  <2>3. QED
    BY <2>1, <2>2
<1>3. QED
  BY <1>1, <1>2 DEF Prefixes

\* The group being written is sound whichever of its objects reached the disk.
LEMMA FlushedSound ==
    ASSUME FileInv, step # 0, NEW objects,
           ~AnyFlushOrder => objects \in Prefixes,
           NEW e, e = Flushed(before, content, grp, objects)
    PROVE  Sound(e)
<1>1. /\ before \in Contents /\ content \in Contents /\ grp \in Groups
      /\ step \in 1 .. 6 /\ mat \in Valid /\ mat \in Matrices /\ mat # NoMatrix
  BY Constants DEF FileInv, TypeOK, ConstantsAssumptions
<1>2. /\ Sound(content) /\ OtherGroupsKept /\ FirstArray /\ LaterArrays /\ Descriptor
      /\ handle => grp \in content.made
  BY DEF FileInv, WriteInv
<1>0. IsMixOf(e, before, content, grp, objects)
  BY <1>1, FlushedFields
<1>3. /\ e.made = content.made
      /\ \A h \in Groups \ {grp} : e.data[h] = content.data[h] /\ e.attr[h] = content.attr[h]
      /\ \A a \in ArrayNames :
            e.data[grp][a] = IF a \in objects THEN content.data[grp][a]
                                              ELSE before.data[grp][a]
      /\ e.attr[grp] = IF "binsparse" \in objects THEN content.attr[grp]
                                                  ELSE before.attr[grp]
  BY <1>0 DEF IsMixOf
<1>4. ASSUME NEW h \in Groups \ {grp} PROVE SoundGroup(e, h)
  BY <1>2, <1>3, SameGroupSound DEF Sound
<1>5. /\ ArraysOf[mat] \subseteq ArrayNames /\ "values" \in ArraysOf[mat]
      /\ "values" \in ArrayNames
      /\ \A m \in Matrices : ArraysOf[m] \subseteq ArrayNames
  BY <1>1, Constants DEF ConstantsAssumptions
<1>6. CASE step = 1
  <2>1. /\ \A a \in ArrayNames : e.data[grp][a] = content.data[grp][a]
        /\ e.attr[grp] = content.attr[grp]
    BY <1>2, <1>3, <1>6 DEF FirstArray
  <2>2. SoundGroup(content, grp)
    BY <1>1, <1>2 DEF Sound
  <2>3. content.attr[grp] \in Matrices \cup {NoMatrix}
    BY <1>1, ContentsFields
  <2>4. SoundGroup(e, grp)
    BY <1>3, <1>5, <2>1, <2>2, <2>3 DEF SoundGroup, MadeFirst, ValuesFirst, OneMatrix, Blank
  <2>5. QED
    BY <1>4, <2>4 DEF Sound
<1>7. CASE step # 1
  <2>1. handle /\ Blank(before, grp) /\ step > 1 /\ step \in 2 .. 6
    BY <1>1, <1>2, <1>7 DEF LaterArrays
  <2>2. /\ e.attr[grp] \in {mat, NoMatrix}
        /\ e.attr[grp] # NoMatrix => step = 6
    BY <1>2, <1>3, <2>1 DEF Descriptor, Blank
  <2>3. step = 6 => \A a \in ArraysOf[mat] : e.data[grp][a] \in {mat, NoMatrix}
    BY <1>3, <1>5, <2>1, AllArrays DEF Blank
  <2>4. OneMatrix(e, grp)
    BY <1>1, <2>2, <2>3 DEF OneMatrix
  <2>5. ValuesFirst(e, grp)
    <3>1. SUFFICES ASSUME ~AnyFlushOrder, e.data[grp]["values"] = NoMatrix
                   PROVE  Blank(e, grp)
      BY DEF ValuesFirst
    <3>2. content.data[grp]["values"] = mat
      <4>1. 1 \in 1 .. 4 /\ 1 < step /\ HasArray(mat, 1) /\ Order[1] = "values"
        BY <1>5, <2>1, OrderNames DEF HasArray
      <4>2. QED
        BY <1>2, <2>1, <4>1 DEF LaterArrays
    <3>3. "values" \notin objects
      BY <1>1, <1>3, <1>5, <3>1, <3>2
    <3>4. objects = {}
      BY <3>1, <3>3, PrefixStarts
    <3>5. QED
      BY <1>3, <2>1, <3>4 DEF Blank
  <2>6. SoundGroup(e, grp)
    BY <1>2, <1>3, <2>1, <2>4, <2>5 DEF SoundGroup, MadeFirst
  <2>7. QED
    BY <1>4, <2>6 DEF Sound
<1>8. QED
  BY <1>6, <1>7

LEMMA FlushedSelf ==
    ASSUME NEW d \in Contents, NEW g \in Groups, NEW objects
    PROVE  Flushed(d, d, g, objects) = d
<1> DEFINE row == [a \in ArrayNames |-> IF a \in objects THEN d.data[g][a] ELSE d.data[g][a]]
           att == IF "binsparse" \in objects THEN d.attr[g] ELSE d.attr[g]
<1>1. /\ d.data \in [Groups -> [ArrayNames -> Objects]]
      /\ d.attr \in [Groups -> Matrices \cup {NoMatrix}]
      /\ \E s, p, q : d = [made |-> s, data |-> p, attr |-> q]
  BY ContentsFields
<1>2. row = d.data[g] /\ att = d.attr[g]
  BY <1>1
<1>3. Flushed(d, d, g, objects) = [d EXCEPT !.data[g] = row, !.attr[g] = att]
  BY DEF Flushed
<1> HIDE DEF row, att
<1>4. [d.data EXCEPT ![g] = row] = d.data /\ [d.attr EXCEPT ![g] = att] = d.attr
  BY <1>1, <1>2
<1>5. PICK s, p, q : d = [made |-> s, data |-> p, attr |-> q]
  BY <1>1
<1>6. [d EXCEPT !.data[g] = row] = d
  BY <1>4, <1>5
<1>7. [d EXCEPT !.attr[g] = att] = d
  BY <1>4, <1>5
<1>8. [d EXCEPT !.data[g] = row, !.attr[g] = att] = d
  BY <1>6, <1>7
<1>9. QED
  BY <1>3, <1>8

LEMMA CrashInv ==
    ASSUME FileInv, TypeOK', Crash
    PROVE  FileInv'
<1>1. step' = 0 /\ before' = before /\ step # 0 /\ Sound(before)
  BY DEF Crash, FileInv
<1>2. CASE file' = "damaged" /\ content' = EmptyContent
  BY <1>1, <1>2, EmptyContentSound DEF FileInv, WriteInv
<1>3. CASE content' \in OnDisk(before, content, grp) /\ UNCHANGED file
  <2>1. Sound(content')
    <3>1. CASE content' = before
      BY <1>1, <3>1
    <3>2. ASSUME NEW objects,
                 content' = Flushed(before, content, grp, objects),
                 ~AnyFlushOrder => objects \in Prefixes
          PROVE  Sound(content')
      BY <1>1, <3>2, FlushedSound
    <3>3. QED
      BY <1>3, <3>1, <3>2, OnDiskKinds
  <2>2. file # "hdf5" => content' = EmptyContent
    <3>1. SUFFICES ASSUME file # "hdf5" PROVE content' = EmptyContent
      OBVIOUS
    <3>2. content = EmptyContent /\ before = content /\ handle = FALSE
      BY <1>1, <3>1 DEF FileInv, WriteInv, TypeOK
    <3>3. ASSUME NEW objects,
                 content' = Flushed(content, content, grp, objects)
          PROVE  content' = content
      BY <3>3, FlushedSelf DEF FileInv, TypeOK
    <3>4. QED
      BY <1>3, <3>2, <3>3, OnDiskKinds
  <2>3. QED
    BY <1>1, <1>3, <2>1, <2>2 DEF FileInv, WriteInv
<1>4. QED
  BY <1>2, <1>3 DEF Crash

--------------------------------------------------------------------------------
(* The invariant of a file. *)

LEMMA StutterFileInv ==
    ASSUME FileInv, UNCHANGED vars
    PROVE  FileInv'
<1>1. TypeOK'
  BY NextType DEF FileInv
<1>2. /\ file' = file /\ content' = content /\ before' = before /\ step' = step
      /\ grp' = grp /\ mat' = mat /\ handle' = handle /\ result' = result
  BY DEF vars
<1>3. Sound(content') /\ Sound(before')
  BY <1>2 DEF FileInv
<1>4. WriteInv'
  BY <1>2 DEF FileInv, WriteInv, OtherGroupsKept, FirstArray, LaterArrays, Descriptor,
              HasArray, Blank
<1>5. QED
  BY <1>1, <1>2, <1>3, <1>4 DEF FileInv

LEMMA NextFileInv ==
    ASSUME WritesKeptInOrder, FileInv, [Next]_vars
    PROVE  FileInv'
<1>1. TypeOK'
  BY NextType DEF FileInv
<1>2. ASSUME NEW m \in Matrices, WriteRoot(m) PROVE FileInv'
  BY <1>1, <1>2, WriteRootInv
<1>3. ASSUME NEW g \in Groups, NEW m \in Matrices, WriteGroup(g, m) PROVE FileInv'
  BY <1>1, <1>3, WriteGroupInv
<1>4. ASSUME NEW g \in Groups, NEW m \in Matrices, WriteToGroup(g, m) PROVE FileInv'
  BY <1>1, <1>4, WriteToGroupInv
<1>5. CASE WriteArray
  BY <1>1, <1>5, WriteArrayInv
<1>6. CASE SkipArray
  BY <1>1, <1>6, SkipArrayInv
<1>7. CASE WriteArrayFails
  BY <1>1, <1>7, WriteArrayFailsInv
<1>8. CASE WriteAttribute
  BY <1>1, <1>8, WriteAttributeInv
<1>9. CASE CloseFile
  BY <1>1, <1>9, EndInv DEF CloseFile
<1>10. CASE Crash
  BY <1>1, <1>10, CrashInv
<1>11. ASSUME NEW g \in Groups, Read(g) \/ ReadFails(g) PROVE FileInv'
  <2>1. step = 0 /\ step' = 0 /\ UNCHANGED <<file, content, before>>
    BY <1>11 DEF Read, ReadFails
  <2>2. QED
    BY <1>1, <2>1, EndInv
<1>12. CASE UNCHANGED vars
  BY <1>12, StutterFileInv
<1>13. QED
  BY <1>2, <1>3, <1>4, <1>5, <1>6, <1>7, <1>8, <1>9, <1>10, <1>11, <1>12 DEF Next

\* However writes, failures, crashes and reads follow each other, every group of
\* the file holds arrays of one matrix at most next to a descriptor.
THEOREM FileInvariant ==
    ASSUME WritesKeptInOrder
    PROVE  Spec => []FileInv
  BY InitFileInv, NextFileInv, PTL DEF Spec

--------------------------------------------------------------------------------
(* What the users of a file see. *)

\* What a reader puts together is the matrix of the descriptor.
LEMMA CompleteIsWhole ==
    ASSUME FileInv, NEW c, Sound(c), NEW g \in Groups, Complete(c, g)
    PROVE  Assembled(c, g) = c.attr[g] /\ c.attr[g] \in Valid
  BY DEF Sound, SoundGroup, OneMatrix, Complete, Assembled

LEMMA ReadStep ==
    ASSUME FileInv, ReadIsSomeWrite, [Next]_vars
    PROVE  ReadIsSomeWrite'
<1>1. ASSUME NEW g \in Groups, Read(g) PROVE ReadIsSomeWrite'
  <2>1. Assembled(content, g) \in Valid
    BY <1>1, CompleteIsWhole DEF Read, FileInv
  <2>2. QED
    BY <1>1, <2>1 DEF Read, Result, ReadIsSomeWrite
<1>2. ASSUME NEW g \in Groups, ReadFails(g) PROVE ReadIsSomeWrite'
  BY <1>2 DEF ReadFails, Result, ReadIsSomeWrite
<1>3. CASE UNCHANGED result
  BY <1>3 DEF ReadIsSomeWrite
<1>4. ASSUME NEW g \in Groups, NEW m \in Matrices, CheckInput(g, m) PROVE ReadIsSomeWrite'
  BY <1>4 DEF CheckInput, Result, NoResult, ReadIsSomeWrite
<1>5. CASE WriteArrayFails \/ CloseFile \/ Crash
  BY <1>5 DEF WriteArrayFails, CloseFile, Crash, Result, NoResult, ReadIsSomeWrite
<1>6. ASSUME NEW m \in Matrices, WriteRoot(m) PROVE ReadIsSomeWrite'
  BY <1>4, <1>6, Constants DEF WriteRoot, ConstantsAssumptions
<1>7. ASSUME NEW g \in Groups, NEW m \in Matrices, WriteGroup(g, m) \/ WriteToGroup(g, m)
      PROVE  ReadIsSomeWrite'
  BY <1>4, <1>7 DEF WriteGroup, WriteToGroup
<1>8. CASE WriteArray \/ SkipArray \/ WriteAttribute \/ UNCHANGED vars
  BY <1>3, <1>8 DEF WriteArray, SkipArray, WriteAttribute, vars
<1>9. QED
  BY <1>1, <1>2, <1>5, <1>6, <1>7, <1>8 DEF Next

\* bsp_read_matrix never returns arrays of two writes, nor one whose H5Dwrite
\* failed, whatever failed, crashed or was retried before.
THEOREM ReadsAreWrites ==
    ASSUME WritesKeptInOrder
    PROVE  Spec => []ReadIsSomeWrite
<1>1. Init => ReadIsSomeWrite
  BY DEF Init, NoResult, ReadIsSomeWrite
<1>2. QED
  BY <1>1, FileInvariant, ReadStep, PTL DEF Spec

LEMMA SuccessStep ==
    ASSUME "attribute" \notin Faults, FileInv, WriteSuccessMeansReadable, [Next]_vars
    PROVE  WriteSuccessMeansReadable'
<1>1. CASE CloseFile
  <2>1. /\ step = 6 /\ result' = Result("write", grp, "BSP_SUCCESS", mat)
        /\ UNCHANGED <<file, content>>
    BY <1>1 DEF CloseFile
  <2>2. file = "hdf5" /\ grp \in content.made /\ content.attr[grp] = mat
    BY <2>1 DEF FileInv, WriteInv, LaterArrays, Descriptor
  <2>3. mat \in Matrices /\ mat # NoMatrix /\ ArraysOf[mat] \subseteq ArrayNames
    BY <2>1, Constants DEF FileInv, TypeOK, ConstantsAssumptions
  <2>4. \A a \in ArraysOf[mat] : content.data[grp][a] = mat
    BY <2>1, <2>3, AllArrays
  <2>5. Complete(content, grp) /\ Assembled(content, grp) = mat
    BY <2>2, <2>3, <2>4 DEF Complete, Assembled
  <2>6. QED
    BY <2>1, <2>2, <2>5 DEF WriteSuccessMeansReadable, Result
<1>2. ASSUME NEW g \in Groups, Read(g) \/ ReadFails(g) PROVE WriteSuccessMeansReadable'
  BY <1>2 DEF Read, ReadFails, Result, WriteSuccessMeansReadable
<1>3. ASSUME NEW g \in Groups, NEW m \in Matrices, CheckInput(g, m)
      PROVE  WriteSuccessMeansReadable'
  BY <1>3 DEF CheckInput, Result, NoResult, WriteSuccessMeansReadable
<1>4. ASSUME NEW m \in Matrices, WriteRoot(m) PROVE WriteSuccessMeansReadable'
  BY <1>3, <1>4, Constants DEF WriteRoot, ConstantsAssumptions
<1>5. ASSUME NEW g \in Groups, NEW m \in Matrices, WriteGroup(g, m) \/ WriteToGroup(g, m)
      PROVE  WriteSuccessMeansReadable'
  BY <1>3, <1>5 DEF WriteGroup, WriteToGroup
<1>6. CASE WriteArrayFails \/ Crash
  BY <1>6 DEF WriteArrayFails, Crash, Result, NoResult, WriteSuccessMeansReadable
<1>7. CASE WriteArray \/ SkipArray \/ WriteAttribute
  <2>1. step # 0 /\ result' = result
    BY <1>7 DEF WriteArray, SkipArray, WriteAttribute
  <2>2. result = NoResult
    BY <2>1 DEF FileInv, WriteInv
  <2>3. QED
    BY <2>1, <2>2 DEF NoResult, WriteSuccessMeansReadable
<1>8. CASE UNCHANGED vars
  BY <1>8 DEF vars, WriteSuccessMeansReadable
<1>9. QED
  BY <1>1, <1>2, <1>4, <1>5, <1>6, <1>7, <1>8 DEF Next

\* A matrix whose write returned BSP_SUCCESS is readable until the next write, if
\* the attribute could be written: bsp_write_attribute reports no failure.
THEOREM SuccessIsReadable ==
    ASSUME WritesKeptInOrder, "attribute" \notin Faults
    PROVE  Spec => []WriteSuccessMeansReadable
<1>1. Init => WriteSuccessMeansReadable
  BY DEF Init, NoResult, WriteSuccessMeansReadable
<1>2. FileInv /\ WriteSuccessMeansReadable /\ [Next]_vars => WriteSuccessMeansReadable'
  BY SuccessStep
<1>3. QED
  BY <1>1, <1>2, FileInvariant, PTL DEF Spec

\* The write that passes the first dataset is the one that creates it.  No
\* assumption on the faults, on crashes or on the programs is needed.
HalfInv ==
    /\ TypeOK
    /\ step = 1 => content.data[grp] = before.data[grp]
    /\ step > 1 => before.data[grp]["values"] = NoMatrix

LEMMA HalfStep ==
    ASSUME HalfInv, [Next]_vars
    PROVE  HalfInv'
<1>1. TypeOK'
  BY NextType DEF HalfInv
<1>2. ASSUME NEW g \in Groups, NEW m \in Matrices, CheckInput(g, m), step = 0,
             content'.data = before'.data
      PROVE  HalfInv'
  <2>1. CASE m \in Valid
    BY <1>1, <1>2, <2>1 DEF CheckInput, HalfInv
  <2>2. CASE m \notin Valid
    BY <1>1, <1>2, <2>2 DEF CheckInput, HalfInv
  <2>3. QED
    BY <2>1, <2>2
<1>3. ASSUME NEW m \in Matrices, WriteRoot(m) PROVE HalfInv'
  <2>1. content' = before' /\ step = 0 /\ Root \in Groups /\ CheckInput(Root, m)
    BY <1>3, Constants DEF WriteRoot, ConstantsAssumptions
  <2>2. QED
    BY <1>2, <2>1
<1>4. ASSUME NEW g \in Groups, NEW m \in Matrices, WriteGroup(g, m) PROVE HalfInv'
  <2> DEFINE found == IF file = "absent" THEN EmptyContent ELSE content
             made == [found EXCEPT !.made = @ \cup {g}]
  <2>1. found \in Contents
    BY EmptyContentType DEF HalfInv, TypeOK
  <2>2. \/ content' = before'
        \/ content' = made /\ before' = found
    BY <1>4 DEF WriteGroup
  <2> HIDE DEF found
  <2>3. made.data = found.data
    BY <2>1, MadeFields
  <2>4. content'.data = before'.data
    BY <2>2, <2>3
  <2>5. QED
    BY <1>2, <1>4, <2>4 DEF WriteGroup
<1>5. ASSUME NEW g \in Groups, NEW m \in Matrices, WriteToGroup(g, m) PROVE HalfInv'
  BY <1>2, <1>5 DEF WriteToGroup
<1>6. CASE WriteArray
  <2>1. step \in 1 .. 4 /\ step' = step + 1 /\ NameFree(grp, Order[step])
        /\ UNCHANGED <<before, grp>>
    BY <1>6 DEF WriteArray
  <2>2. before.data[grp]["values"] = NoMatrix
    BY <2>1, OrderNames DEF HalfInv, NameFree
  <2>3. QED
    BY <1>1, <2>1, <2>2 DEF HalfInv
<1>7. CASE SkipArray
  <2>1. step \in 1 .. 4 /\ step' = step + 1 /\ ~HasArray(mat, step)
        /\ UNCHANGED <<before, grp>>
    BY <1>7 DEF SkipArray
  <2>2. step # 1
    BY <2>1, Constants, OrderNames DEF HalfInv, TypeOK, HasArray, ConstantsAssumptions
  <2>3. QED
    BY <1>1, <2>1, <2>2 DEF HalfInv
<1>8. CASE WriteAttribute
  BY <1>1, <1>8 DEF WriteAttribute, HalfInv
<1>9. CASE WriteArrayFails \/ CloseFile \/ Crash
  BY <1>1, <1>9 DEF WriteArrayFails, CloseFile, Crash, HalfInv
<1>10. ASSUME NEW g \in Groups, Read(g) \/ ReadFails(g) PROVE HalfInv'
  BY <1>1, <1>10 DEF Read, ReadFails, HalfInv
<1>11. CASE UNCHANGED vars
  BY <1>1, <1>11 DEF vars, HalfInv
<1>12. QED
  BY <1>3, <1>4, <1>5, <1>6, <1>7, <1>8, <1>9, <1>10, <1>11 DEF Next

\* A group in which a write failed half-way takes no other matrix: a write gets
\* past its values array only if there were none.
THEOREM HalfWrittenStaysStuck == Spec => []HalfWrittenIsStuck
<1>1. Init => HalfInv
  BY InitType DEF Init, HalfInv
<1>2. HalfInv => HalfWrittenIsStuck
  BY DEF HalfInv, HalfWrittenIsStuck
<1>3. QED
  BY <1>1, <1>2, HalfStep, PTL DEF Spec

--------------------------------------------------------------------------------
(* The file implements the store of whole matrices. *)

\* The matrix a reader gets from group g of c.
View(c, g) == IF Complete(c, g) THEN Assembled(c, g) ELSE NoMatrix

StoreOf(c) == [g \in Groups |-> View(c, g)]

Reply == [op |-> result.op, group |-> result.group,
          ok |-> result.code = "BSP_SUCCESS", matrix |-> result.matrix]

LEMMA SameView ==
    ASSUME NEW c, NEW d, NEW g, c.data[g] = d.data[g], c.attr[g] = d.attr[g],
           g \in c.made <=> g \in d.made
    PROVE  View(c, g) = View(d, g)
  BY DEF View, Complete, Assembled

LEMMA NoView ==
    ASSUME NEW c, NEW g, c.attr[g] = NoMatrix
    PROVE  View(c, g) = NoMatrix
  BY DEF View, Complete

LEMMA EmptyStore == StoreOf(EmptyContent) = [g \in Groups |-> NoMatrix]
<1>1. ASSUME NEW g \in Groups PROVE View(EmptyContent, g) = NoMatrix
  BY <1>1, EmptyContentSound, NoView DEF Blank
<1>2. QED
  BY <1>1 DEF StoreOf

LEMMA MadeStore ==
    ASSUME NEW d \in Contents, NEW g \in Groups, Sound(d), g \notin d.made
    PROVE  StoreOf([d EXCEPT !.made = @ \cup {g}]) = StoreOf(d)
<1> DEFINE e == [d EXCEPT !.made = @ \cup {g}]
<1>1. e.made = d.made \cup {g} /\ e.data = d.data /\ e.attr = d.attr
  BY MadeFields
<1> HIDE DEF e
<1>2. ASSUME NEW h \in Groups PROVE View(e, h) = View(d, h)
  <2>1. CASE h = g
    <3>1. d.attr[g] = NoMatrix
      BY DEF Sound, SoundGroup, MadeFirst, Blank
    <3>2. QED
      BY <1>1, <2>1, <3>1, NoView
  <2>2. CASE h # g
    BY <1>1, <2>2, SameView
  <2>3. QED
    BY <2>1, <2>2
<1>3. QED
  BY <1>2 DEF StoreOf, e

\* A write only changes what readers get from its own group.
LEMMA OtherViews ==
    ASSUME FileInv, step # 0, NEW c, c.made = content.made,
           \A h \in Groups \ {grp} : c.data[h] = content.data[h] /\ c.attr[h] = content.attr[h]
    PROVE  \A h \in Groups \ {grp} : View(c, h) = View(before, h)
<1>1. OtherGroupsKept
  BY DEF FileInv, WriteInv
<1>2. ASSUME NEW h \in Groups \ {grp} PROVE View(c, h) = View(before, h)
  <2>1. c.data[h] = before.data[h] /\ c.attr[h] = before.attr[h]
    BY <1>1 DEF OtherGroupsKept
  <2>2. h \in c.made <=> h \in before.made
    BY <1>1 DEF OtherGroupsKept
  <2>3. QED
    BY <2>1, <2>2, SameView
<1>3. QED
  BY <1>2

\* Until the first array, its group is as it was too.
LEMMA FirstView ==
    ASSUME FileInv, step = 1, NEW c, c.made = content.made,
           c.data[grp] = content.data[grp], c.attr[grp] = content.attr[grp]
    PROVE  View(c, grp) = View(before, grp)
<1>1. OtherGroupsKept /\ FirstArray /\ Sound(before) /\ grp \in Groups
  BY DEF FileInv, WriteInv, TypeOK
<1>2. c.data[grp] = before.data[grp] /\ c.attr[grp] = before.attr[grp]
  BY <1>1 DEF FirstArray
<1>3. CASE grp \in before.made
  BY <1>1, <1>2, <1>3, SameView DEF OtherGroupsKept
<1>4. CASE grp \notin before.made
  <2>1. before.attr[grp] = NoMatrix
    BY <1>1, <1>4 DEF Sound, SoundGroup, MadeFirst, Blank
  <2>2. QED
    BY <1>2, <2>1, NoView
<1>5. QED
  BY <1>3, <1>4

\* After it, the group had no matrix.
LEMMA LaterView ==
    ASSUME FileInv, step > 1
    PROVE  View(before, grp) = NoMatrix
  BY NoView DEF FileInv, WriteInv, LaterArrays, Blank

\* The refinement mapping, in the names used here.
StoreNow == StoreOf(Committed)

LEMMA Mapping ==
    /\ Store!Empty = [g \in Groups |-> NoMatrix]
    /\ Store!Begin <=> /\ StoreNow' \in {StoreNow, Store!Empty}
                       /\ Reply' = Store!NoReply
    /\ \A g, m : Store!Put(g, m) <=>
          /\ StoreNow[g] = NoMatrix
          /\ StoreNow' = [StoreNow EXCEPT ![g] = m]
          /\ Reply' = Store!Written(g, m)
    /\ \A g : Store!PutFails(g) <=>
          /\ StoreNow' \in {StoreNow, Store!Empty}
          /\ Reply' = Store!Failed("write", g)
    /\ \A g : Store!Get(g) <=>
          /\ StoreNow[g] # NoMatrix
          /\ Reply' = [op |-> "read", group |-> g, ok |-> TRUE, matrix |-> StoreNow[g]]
          /\ StoreNow' = StoreNow
    /\ \A g : Store!GetFails(g) <=>
          /\ Reply' = Store!Failed("read", g)
          /\ StoreNow' = StoreNow
    /\ Store!Crash <=>
          /\ \/ StoreNow' \in {StoreNow, Store!Empty}
             \/ \E g \in Groups, m \in Matrices :
                   StoreNow[g] = NoMatrix /\ StoreNow' = [StoreNow EXCEPT ![g] = m]
          /\ Reply' = Store!NoReply
    /\ StoreNow' = StoreNow /\ Reply' = Reply => UNCHANGED Store!vars
    /\ Store!Init <=> StoreNow = Store!Empty /\ Reply = Store!NoReply
  BY DEF Store!Empty, Store!Begin, Store!Put, Store!PutFails, Store!Get, Store!GetFails,
         Store!Crash, Store!vars, Store!Init, Reply, StoreNow, StoreOf, View

\* An opening action that ends with the shape checks begins a write or refuses it.
LEMMA CheckedStep ==
    ASSUME NEW g \in Groups, NEW m \in Matrices, step = 0, CheckInput(g, m),
           StoreOf(before') \in {StoreOf(content), Store!Empty},
           StoreOf(content') \in {StoreOf(content), Store!Empty}
    PROVE  Store!Begin \/ Store!PutFails(g)
<1>1. StoreNow = StoreOf(content)
  BY DEF StoreNow, Committed
<1>2. CASE m \in Valid
  <2>1. step' # 0 /\ result' = NoResult
    BY <1>2 DEF CheckInput
  <2>2. StoreNow' = StoreOf(before')
    BY <2>1 DEF StoreNow, Committed, StoreOf
  <2>3. Reply' = Store!NoReply
    BY <2>1 DEF Reply, NoResult, Store!NoReply
  <2>4. QED
    BY <1>1, <2>2, <2>3, Mapping
<1>3. CASE m \notin Valid
  <2>1. step' = 0 /\ result' = Result("write", g, "BSP_ERROR_INVALID_INPUT", NoMatrix)
    BY <1>3 DEF CheckInput
  <2>2. StoreNow' = StoreOf(content')
    BY <2>1 DEF StoreNow, Committed, StoreOf
  <2>3. Reply' = Store!Failed("write", g)
    BY <2>1 DEF Reply, Result, Store!Failed
  <2>4. QED
    BY <1>1, <2>2, <2>3, Mapping
<1>4. QED
  BY <1>2, <1>3

LEMMA StartStep ==
    ASSUME FileInv, NEW g \in Groups, NEW m \in Matrices,
           (WriteRoot(m) /\ g = Root) \/ WriteGroup(g, m) \/ WriteToGroup(g, m)
    PROVE  Store!Begin \/ Store!PutFails(g)
<1>1. step = 0 /\ CheckInput(g, m)
  BY DEF WriteRoot, WriteGroup, WriteToGroup
<1>2. content \in Contents /\ Sound(content) /\ (file # "hdf5" => content = EmptyContent)
  BY DEF FileInv, TypeOK
<1>3. Store!Empty = StoreOf(EmptyContent)
  BY EmptyStore, Mapping
<1>4. CASE WriteRoot(m)
  <2>1. content' \in {content, EmptyContent} /\ before' \in {content, EmptyContent}
    BY <1>4 DEF WriteRoot
  <2>2. QED
    BY <1>1, <1>3, <2>1, CheckedStep
<1>5. CASE WriteGroup(g, m)
  <2> DEFINE made == [content EXCEPT !.made = @ \cup {g}]
  <2>1. before' = content /\ (content' = content \/ (content' = made /\ g \notin content.made))
    BY <1>2, <1>5 DEF WriteGroup
  <2>2. g \notin content.made => StoreOf(made) = StoreOf(content)
    BY <1>2, MadeStore
  <2>3. QED
    BY <1>1, <2>1, <2>2, CheckedStep
<1>6. CASE WriteToGroup(g, m)
  BY <1>1, <1>6, CheckedStep DEF WriteToGroup
<1>7. QED
  BY <1>4, <1>5, <1>6

\* A step inside a write changes nothing that its users have been promised.
LEMMA InsideStep ==
    ASSUME step # 0, step' # 0, before' = before, result' = result
    PROVE  UNCHANGED Store!vars
<1>1. StoreNow' = StoreNow /\ Reply' = Reply
  BY DEF StoreNow, Committed, StoreOf, Reply
<1>2. QED
  BY <1>1, Mapping

LEMMA FailStep ==
    ASSUME FileInv, WriteArrayFails
    PROVE  Store!PutFails(grp)
<1>1. /\ step \in 1 .. 4 /\ HasArray(mat, step) /\ step' = 0
      /\ result' = Result("write", grp, "BSP_ERROR_IO", NoMatrix)
      /\ grp \in Groups /\ content \in Contents
  BY DEF WriteArrayFails, FileInv, TypeOK
<1>2. StoreNow = StoreOf(before) /\ StoreNow' = StoreOf(content')
  BY <1>1 DEF StoreNow, Committed, StoreOf
<1>3. Reply' = Store!Failed("write", grp)
  BY <1>1 DEF Reply, Result, Store!Failed
<1>4. content'.made = content.made /\ content'.attr = content.attr
      /\ \A h \in Groups \ {grp} : content'.data[h] = content.data[h]
  <2>1. CASE content' = content
    BY <2>1
  <2>2. CASE content' = WithDataset(content, grp, Order[step], Unwritten)
    <3>1. Unwritten \in Objects /\ Order[step] \in ArrayNames
      BY <1>1, OrderNames DEF Objects
    <3>2. QED
      BY <1>1, <2>2, <3>1, DatasetFields
  <2>3. QED
    BY <2>1, <2>2 DEF WriteArrayFails
<1>5. View(content', grp) = View(before, grp)
  <2>1. CASE step = 1 /\ content' = content
    BY <2>1, FirstView
  <2>2. CASE step = 1 /\ content' # content
    <3>1. handle /\ NameFree(grp, Order[step])
      BY <2>2 DEF WriteArrayFails
    <3>2. content.attr[grp] = NoMatrix /\ Blank(before, grp)
      BY <1>1, <3>1, AtArray
    <3>3. QED
      BY <1>4, <3>2, NoView DEF Blank
  <2>3. CASE step > 1
    <3>1. content.attr[grp] = NoMatrix
      BY <1>1, <2>3 DEF FileInv, WriteInv, Descriptor
    <3>2. QED
      BY <1>4, <2>3, <3>1, NoView, LaterView
  <2>4. QED
    BY <1>1, <2>1, <2>2, <2>3
<1>6. \A h \in Groups \ {grp} : View(content', h) = View(before, h)
  BY <1>1, <1>4, OtherViews
<1>7. StoreOf(content') = StoreOf(before)
  BY <1>5, <1>6 DEF StoreOf
<1>8. QED
  BY <1>2, <1>3, <1>7, Mapping

LEMMA CloseStep ==
    ASSUME "attribute" \notin Faults, FileInv, CloseFile
    PROVE  \E g \in Groups, m \in Matrices : Store!Put(g, m)
<1>1. /\ step = 6 /\ step' = 0 /\ content' = content
      /\ result' = Result("write", grp, "BSP_SUCCESS", mat)
      /\ grp \in Groups /\ content \in Contents
  BY DEF CloseFile, FileInv, TypeOK
<1>2. mat \in Matrices /\ mat # NoMatrix /\ ArraysOf[mat] \subseteq ArrayNames
  BY <1>1, Constants DEF FileInv, TypeOK, ConstantsAssumptions
<1>3. StoreNow = StoreOf(before) /\ StoreNow' = StoreOf(content)
  BY <1>1 DEF StoreNow, Committed, StoreOf
<1>4. Reply' = Store!Written(grp, mat)
  BY <1>1 DEF Reply, Result, Store!Written
<1>5. View(before, grp) = NoMatrix
  BY <1>1, LaterView
<1>6. View(content, grp) = mat
  <2>1. grp \in content.made /\ content.attr[grp] = mat
    BY <1>1 DEF FileInv, WriteInv, LaterArrays, Descriptor
  <2>2. \A a \in ArraysOf[mat] : content.data[grp][a] = mat
    BY <1>1, <1>2, AllArrays
  <2>3. QED
    BY <1>2, <2>1, <2>2 DEF View, Complete, Assembled
<1>7. \A h \in Groups \ {grp} : View(content, h) = View(before, h)
  BY <1>1, OtherViews
<1>8. StoreNow[grp] = NoMatrix /\ StoreNow' = [StoreNow EXCEPT ![grp] = mat]
  BY <1>1, <1>3, <1>5, <1>6, <1>7 DEF StoreOf
<1>9. Store!Put(grp, mat)
  BY <1>4, <1>8, Mapping
<1>10. QED
  BY <1>1, <1>2, <1>9

LEMMA CrashStep ==
    ASSUME FileInv, Crash
    PROVE  Store!Crash
<1>1. step # 0 /\ step' = 0 /\ result' = NoResult /\ grp \in Groups
      /\ content \in Contents /\ before \in Contents /\ step \in 0 .. 6
  BY DEF Crash, FileInv, TypeOK
<1>2. StoreNow = StoreOf(before) /\ StoreNow' = StoreOf(content')
  BY <1>1 DEF StoreNow, Committed, StoreOf
<1>3. Reply' = Store!NoReply
  BY <1>1 DEF Reply, NoResult, Store!NoReply
<1>4. CASE content' = EmptyContent
  <2>1. StoreNow' = Store!Empty
    BY <1>2, <1>4, EmptyStore, Mapping
  <2>2. QED
    BY <1>3, <2>1, Mapping
<1>5. CASE content' = before
  <2>1. StoreNow' = StoreNow
    BY <1>2, <1>5
  <2>2. QED
    BY <1>3, <2>1, Mapping
<1>6. ASSUME NEW objects, content' = Flushed(before, content, grp, objects),
             ~AnyFlushOrder => objects \in Prefixes
      PROVE  Store!Crash
  <2> DEFINE e == content'
  <2>1. IsMixOf(e, before, content, grp, objects) /\ Sound(e)
    BY <1>1, <1>6, FlushedFields, FlushedSound
  <2> HIDE DEF e
  <2>2. \A h \in Groups \ {grp} : View(e, h) = View(before, h)
    BY <1>1, <2>1, OtherViews DEF IsMixOf
  <2>3. CASE step = 1
    <3>1. content.data[grp] = before.data[grp] /\ content.attr[grp] = before.attr[grp]
      BY <2>3 DEF FileInv, WriteInv, FirstArray
    <3>2. e.data[grp] = content.data[grp] /\ e.attr[grp] = content.attr[grp]
      <4>1. e.data[grp] \in [ArrayNames -> Objects]
            /\ content.data[grp] \in [ArrayNames -> Objects]
        BY <1>1, <2>1, ContentsFields DEF IsMixOf
      <4>2. \A a \in ArrayNames : e.data[grp][a] = content.data[grp][a]
        BY <2>1, <3>1 DEF IsMixOf
      <4>3. QED
        BY <2>1, <3>1, <4>1, <4>2 DEF IsMixOf
    <3>3. View(e, grp) = View(before, grp)
      BY <2>1, <2>3, <3>2, FirstView DEF IsMixOf
    <3>4. StoreNow' = StoreNow
      BY <1>2, <2>2, <3>3 DEF StoreOf, e
    <3>5. QED
      BY <1>3, <3>4, Mapping
  <2>4. CASE step # 1
    <3>1. View(before, grp) = NoMatrix
      BY <1>1, <2>4, LaterView
    <3>2. View(e, grp) = NoMatrix \/ View(e, grp) \in Matrices
      BY <1>1, <2>1, CompleteIsWhole, Constants DEF View, ConstantsAssumptions
    <3>3. StoreNow[grp] = NoMatrix
          /\ StoreNow' = [StoreNow EXCEPT ![grp] = View(e, grp)]
      BY <1>1, <1>2, <2>2, <3>1 DEF StoreOf, e
    <3>4. CASE View(e, grp) = NoMatrix
      <4>1. StoreNow' = StoreNow
        BY <1>2, <2>2, <3>1, <3>4 DEF StoreOf, e
      <4>2. QED
        BY <1>3, <4>1, Mapping
    <3>5. CASE View(e, grp) \in Matrices
      BY <1>1, <1>3, <3>3, <3>5, Mapping
    <3>6. QED
      BY <3>2, <3>4, <3>5
  <2>5. QED
    BY <2>3, <2>4
<1>7. content' = EmptyContent \/ content' \in OnDisk(before, content, grp)
  BY DEF Crash
<1>8. QED
  BY <1>4, <1>5, <1>6, <1>7, OnDiskKinds

LEMMA ReadStoreStep ==
    ASSUME FileInv, NEW g \in Groups
    PROVE  /\ Read(g) => Store!Get(g)
           /\ ReadFails(g) => Store!GetFails(g)
<1>1. ASSUME Read(g) PROVE Store!Get(g)
  <2>1. /\ step = 0 /\ step' = 0 /\ content' = content /\ Complete(content, g)
        /\ result' = Result("read", g, "BSP_SUCCESS", Assembled(content, g))
    BY <1>1 DEF Read
  <2>2. StoreNow = StoreOf(content) /\ StoreNow' = StoreOf(content)
    BY <2>1 DEF StoreNow, Committed, StoreOf
  <2>3. View(content, g) = Assembled(content, g) /\ Assembled(content, g) # NoMatrix
    <3>1. Assembled(content, g) \in Valid
      BY <2>1, CompleteIsWhole DEF FileInv
    <3>2. QED
      BY <2>1, <3>1, Constants DEF View, ConstantsAssumptions
  <2>4. StoreNow[g] = Assembled(content, g)
    BY <2>2, <2>3 DEF StoreOf
  <2>5. Reply' = [op |-> "read", group |-> g, ok |-> TRUE, matrix |-> Assembled(content, g)]
    BY <2>1 DEF Reply, Result
  <2>6. QED
    BY <2>2, <2>3, <2>4, <2>5, Mapping
<1>2. ASSUME ReadFails(g) PROVE Store!GetFails(g)
  <2>1. /\ step = 0 /\ step' = 0 /\ content' = content
        /\ \/ result' = Result("read", g, "BSP_ERROR_IO", NoMatrix)
           \/ result' = Result("read", g, "BSP_ERROR_FORMAT", NoMatrix)
    BY <1>2 DEF ReadFails
  <2>2. StoreNow' = StoreNow
    BY <2>1 DEF StoreNow, Committed, StoreOf
  <2>3. Reply' = Store!Failed("read", g)
    <3>1. ASSUME NEW code \in {"BSP_ERROR_IO", "BSP_ERROR_FORMAT"},
                 result' = Result("read", g, code, NoMatrix)
          PROVE  Reply' = Store!Failed("read", g)
      BY <3>1 DEF Reply, Result, Store!Failed
    <3>2. QED
      BY <2>1, <3>1
  <2>4. QED
    BY <2>2, <2>3, Mapping
<1>3. QED
  BY <1>1, <1>2

LEMMA StoreStep ==
    ASSUME "attribute" \notin Faults, FileInv, [Next]_vars
    PROVE  [Store!Next]_(Store!vars)
<1>1. ASSUME NEW m \in Matrices, WriteRoot(m) PROVE Store!Next
  <2>1. Root \in Groups
    BY Constants DEF ConstantsAssumptions
  <2>2. Store!Begin \/ Store!PutFails(Root)
    BY <1>1, <2>1, StartStep
  <2>3. QED
    BY <2>1, <2>2 DEF Store!Next
<1>2. ASSUME NEW g \in Groups, NEW m \in Matrices, WriteGroup(g, m) \/ WriteToGroup(g, m)
      PROVE  Store!Next
  <2>1. Store!Begin \/ Store!PutFails(g)
    BY <1>2, StartStep
  <2>2. QED
    BY <2>1 DEF Store!Next
<1>3. CASE WriteArray \/ SkipArray \/ WriteAttribute
  <2>1. step # 0 /\ step' # 0 /\ before' = before /\ result' = result
    BY <1>3 DEF WriteArray, SkipArray, WriteAttribute
  <2>2. QED
    BY <2>1, InsideStep
<1>4. CASE WriteArrayFails
  <2>1. grp \in Groups /\ Store!PutFails(grp)
    BY <1>4, FailStep DEF FileInv, TypeOK
  <2>2. QED
    BY <2>1 DEF Store!Next
<1>5. CASE CloseFile
  BY <1>5, CloseStep DEF Store!Next
<1>6. CASE Crash
  BY <1>6, CrashStep DEF Store!Next
<1>7. ASSUME NEW g \in Groups, Read(g) \/ ReadFails(g) PROVE Store!Next
  BY <1>7, ReadStoreStep DEF Store!Next
<1>8. CASE UNCHANGED vars
  <2>1. StoreNow' = StoreNow /\ Reply' = Reply
    BY <1>8 DEF vars, StoreNow, Committed, StoreOf, Reply
  <2>2. QED
    BY <2>1, Mapping
<1>9. QED
  BY <1>1, <1>2, <1>3, <1>4, <1>5, <1>6, <1>7, <1>8 DEF Next

\* For the programs that write and read one file, the file is a map from groups to
\* whole matrices: bsp_write_matrix puts one there in one step, or nothing, and
\* bsp_read_matrix gets it, through failed calls and crashes, as long as no
\* attribute fails to be written.
THEOREM FileImplementsStore ==
    ASSUME WritesKeptInOrder, "attribute" \notin Faults
    PROVE  Spec => ImplementsStore
<1>1. Init => Store!Init
  <2>1. SUFFICES ASSUME Init PROVE Store!Init
    OBVIOUS
  <2>2. StoreNow = StoreOf(EmptyContent)
    BY <2>1 DEF Init, StoreNow, Committed
  <2>3. Reply = Store!NoReply
    BY <2>1 DEF Init, Reply, NoResult, Store!NoReply
  <2>4. QED
    BY <2>2, <2>3, EmptyStore, Mapping
<1>2. FileInv /\ [Next]_vars => [Store!Next]_(Store!vars)
  BY StoreStep
<1>3. QED
  BY <1>1, <1>2, FileInvariant, PTL DEF Spec, ImplementsStore, Store!Spec

================================================================================
