------------------------------ MODULE TextDataset ------------------------------
(******************************************************************************)
(* binsparse_write_string_dataset, binsparse_read_string_dataset and          *)
(* matlab_bsp_strings.h: char matrices and cell arrays of char vectors as     *)
(* one-dimensional HDF5 string datasets in UTF-8.                             *)
(*                                                                            *)
(* A character is a UTF-16 code unit, abstracted to the class that decides    *)
(* how it is encoded: "letter", "blank" and "nul" take one byte, "two" and    *)
(* "three" as many as they say, "high" and "low" are the surrogates of one    *)
(* character of four bytes.  A char matrix is [class |-> "char", columns,     *)
(* rows: a sequence of rows]; a cell array is [class |-> "cell", cells: a     *)
(* sequence of char matrices].                                                *)
(******************************************************************************)
EXTENDS MexCall, Sequences

Seqs == INSTANCE SequencesExt

VARIABLES
    name,      \* the dataset_name argument
    encoded    \* the strings about to be written, or read

textVars == <<name, encoded>>

Writing(step) == At("write_string", step)
Reading(step) == At("read_string", step)

NoStrings == [kind |-> "none"]

TextIdle == name = Root /\ encoded = NoStrings
TextForgotten == name' = Root /\ encoded' = NoStrings

--------------------------------------------------------------------------------
(* UTF-16 and UTF-8. *)

\* The surrogates stand in pairs, or bsp_utf8_length returns BSP_UTF_INVALID.
Paired(s) ==
    \A k \in DOMAIN s :
        /\ s[k] = "high" => k < Len(s) /\ s[k + 1] = "low"
        /\ s[k] = "low" => k > 1 /\ s[k - 1] = "high"

\* A byte is the lead byte of a character or a continuation byte "+".
Bytes ==
    [letter |-> <<"letter">>, blank |-> <<"blank">>, nul |-> <<"nul">>,
     two |-> <<"two", "+">>, three |-> <<"three", "+", "+">>,
     high |-> <<"pair", "+", "+", "+">>, low |-> <<>>]

\* bsp_utf8_encode of text that is Paired
Encode(s) == Seqs!FlattenSeq([k \in DOMAIN s |-> Bytes[s[k]]])

Trail(lead) ==
    CASE lead = "two" -> 1 [] lead = "three" -> 2 [] lead = "pair" -> 3 [] OTHER -> 0

\* bsp_utf16_length: every lead byte has its continuation bytes, and there are
\* no others.
WellFormed(b) ==
    LET leads == {k \in DOMAIN b : b[k] # "+"}
    IN  /\ \A k \in leads : k + Trail(b[k]) <= Len(b)
        /\ UNION {k + 1 .. k + Trail(b[k]) : k \in leads} = DOMAIN b \ leads

Units(lead) == IF lead = "pair" THEN <<"high", "low">> ELSE <<lead>>

\* bsp_utf16_decode of bytes that are WellFormed
Decode(b) ==
    LET leads == SelectSeq(b, LAMBDA x : x # "+")
    IN  Seqs!FlattenSeq([k \in DOMAIN leads |-> Units(leads[k])])

--------------------------------------------------------------------------------
(* Encoding and decoding whole values. *)

Largest(S) == CHOOSE n \in S \cup {0} : \A l \in S : l <= n

\* The size of the datatype: of the longest row in bytes, and never 0.
WidthInUnits(rows) == Largest({Len(rows[k]) : k \in DOMAIN rows})    \* mutant
Width(rows) ==
    LET w == Largest({Len(Encode(rows[k])) : k \in DOMAIN rows})
    IN  IF w = 0 THEN 1 ELSE w

Padded(b, width) == [k \in 1 .. width |-> IF k \in DOMAIN b THEN b[k] ELSE "nul"]

\* The characters of a cell's element.
CellText(value, k) ==
    IF value.cells[k].rows = <<>> THEN <<>> ELSE value.cells[k].rows[1]

\* encode_char_matrix and encode_cellstr
Strings(value) ==
    IF value.class = "char"
    THEN [kind |-> "text", length |-> "fixed", width |-> Width(value.rows), pad |-> "nul",
          bytes |-> [k \in DOMAIN value.rows |->
                        Padded(Encode(value.rows[k]), Width(value.rows))]]
    ELSE [kind |-> "text", length |-> "variable", width |-> 0, pad |-> "nul",
          bytes |-> [k \in DOMAIN value.cells |-> Encode(CellText(value, k))]]

\* What the encoders refuse, in the order of the elements.
CellRefused(value, k) ==
    IF Len(value.cells[k].rows) > 1 THEN "InvalidValue"
    ELSE IF \E n \in DOMAIN CellText(value, k) : CellText(value, k)[n] = "nul"
         THEN "InvalidValue"
    ELSE IF ~Paired(CellText(value, k)) THEN "InvalidText"
    ELSE "none"

Refusal(value) ==
    IF value.class = "char"
    THEN IF \A k \in DOMAIN value.rows : Paired(value.rows[k]) THEN "none" ELSE "InvalidText"
    ELSE LET bad == {k \in DOMAIN value.cells : CellRefused(value, k) # "none"}
         IN  IF bad = {} THEN "none"
             ELSE CellRefused(value, CHOOSE k \in bad : \A l \in bad : k <= l)

\* The bytes of a row without its padding: trailing NULs, and blanks too where
\* the file declares H5T_STR_SPACEPAD.
Stripped(b, pad) ==
    LET Padding(x) == x = "nul" \/ (pad = "space" /\ x = "blank")
        kept == {k \in DOMAIN b : ~Padding(b[k])}
    IN  SubSeq(b, 1, Largest(kept))

\* read_fixed_strings: rows of fewer characters are filled with blanks.
CharMatrix(strings) ==
    LET rows == [k \in DOMAIN strings.bytes |->
                    Decode(Stripped(strings.bytes[k], strings.pad))]
        columns == Largest({Len(rows[k]) : k \in DOMAIN rows})
    IN  [class |-> "char", columns |-> columns,
         rows |-> [k \in DOMAIN rows |->
                     [n \in 1 .. columns |-> IF n \in DOMAIN rows[k] THEN rows[k][n]
                                                                   ELSE "blank"]]]

Row(s) == [class |-> "char", columns |-> Len(s), rows |-> <<s>>]

\* read_variable_strings: one row vector per element.
CellArray(strings) ==
    [class |-> "cell", cells |-> [k \in DOMAIN strings.bytes |-> Row(Decode(strings.bytes[k]))]]

Value(strings) ==
    IF strings.length = "fixed" THEN CharMatrix(strings) ELSE CellArray(strings)

Malformed(strings) ==
    \E k \in DOMAIN strings.bytes :
        ~WellFormed(IF strings.length = "fixed" THEN Stripped(strings.bytes[k], strings.pad)
                                                ELSE strings.bytes[k])

\* A dataset that was created and never written holds NULs, or no strings.
Blanked(strings) ==
    [strings EXCEPT !.bytes = [k \in DOMAIN @ |-> [n \in 1 .. strings.width |-> "nul"]]]

--------------------------------------------------------------------------------
(* Writing. *)

WriteCall(n) ==
    /\ Enter("write_string", "encode")
    /\ name' = n
    /\ UNCHANGED <<file, handles, encoded>>

EncodeText ==
    /\ Writing("encode")
    /\ Refusal(problem.text) = "none"
    /\ encoded' = Strings(problem.text)
    /\ Proceed("open")
    /\ UNCHANGED <<file, handles, name>>

EncodeTextFails ==
    /\ Writing("encode")
    /\ Refusal(problem.text) # "none"
    /\ Raise(Refusal(problem.text))
    /\ TextForgotten
    /\ UNCHANGED <<file, handles>>

\* The label cleanup.
CleanupLeavingType == {"dset", "space", "file"}             \* mutant
Cleanup == {"dset", "space", "type", "file"}

CleanupAndRaise(id) ==
    /\ handles' = handles \ Cleanup
    /\ Raise(id)
    /\ TextForgotten

Open(h, next) ==
    /\ handles' = handles \cup {h}
    /\ Proceed(next)
    /\ UNCHANGED textVars

\* One HDF5 call fails at this step.
TextFails(step, id) ==
    /\ Writing(step) \/ Reading(step)
    /\ MayFail
    /\ CleanupAndRaise(id)
    /\ UNCHANGED file

OpenForText ==
    /\ Writing("open")
    /\ file' = OpenedFile
    /\ Open("file", "exists")

NameIsFree ==
    /\ Writing("exists")
    /\ ~NameTaken(file, name)
    /\ Proceed("type")
    /\ UNCHANGED <<file, handles, textVars>>

DatasetExists ==
    /\ Writing("exists")
    /\ NameTaken(file, name)
    /\ CleanupAndRaise("DatasetExists")
    /\ UNCHANGED file

CreateType == Writing("type") /\ Open("type", "space") /\ UNCHANGED file

CreateSpace == Writing("space") /\ Open("space", "create") /\ UNCHANGED file

\* H5Dcreate2 makes the dataset; H5Dwrite, which an empty one does not need,
\* fills it.
CreateDataset ==
    /\ Writing("create")
    /\ file' = WithObject(file, name, Blanked(encoded))
    /\ Open("dset", "write")

WriteDataset ==
    /\ Writing("write")
    /\ file' = WithObject(file, name, encoded)
    /\ handles' = handles \ Cleanup
    /\ Leave([function |-> "write_string", name |-> name])
    /\ TextForgotten

WriteDatasetFails ==
    /\ Writing("write")
    /\ Len(encoded.bytes) > 0
    /\ TextFails("write", "HDF5Error")

WriteTextFails ==
    \/ Writing("open") /\ TextFails("open", "FileError")
    \/ Writing("exists") /\ TextFails("exists", "HDF5Error")
    \/ Writing("type") /\ TextFails("type", "HDF5Error")
    \/ Writing("space") /\ TextFails("space", "HDF5Error")
    \/ Writing("create") /\ TextFails("create", "HDF5Error")

--------------------------------------------------------------------------------
(* Reading. *)

ReadCall(n) ==
    /\ Enter("read_string", "open")
    /\ name' = n
    /\ UNCHANGED <<file, handles, encoded>>

OpenToRead ==
    /\ Reading("open")
    /\ file.exists
    /\ Open("file", "dataset")
    /\ UNCHANGED file

NoFile ==
    /\ Reading("open")
    /\ ~file.exists \/ MayFail
    /\ CleanupAndRaise("FileError")
    /\ UNCHANGED file

\* H5Dopen2 of a name that is not a dataset's fails.
OpenDataset ==
    /\ Reading("dataset")
    /\ file.objects[name].kind = "text"
    /\ Open("dset", "class")
    /\ UNCHANGED file

MissingDataset ==
    /\ Reading("dataset")
    /\ file.objects[name].kind # "text" \/ MayFail
    /\ CleanupAndRaise("MissingDataset")
    /\ UNCHANGED file

OpenType == Reading("class") /\ Open("type", "count") /\ UNCHANGED file

OpenSpace == Reading("count") /\ Open("space", "read") /\ UNCHANGED file

ReadTextFails ==
    \/ Reading("class") /\ TextFails("class", "InvalidDataset")
    \/ Reading("count") /\ TextFails("count", "InvalidDataset")
    \/ Reading("read") /\ TextFails("read", "HDF5Error")

ReadMalformed ==
    /\ Reading("read")
    /\ Malformed(file.objects[name])
    /\ CleanupAndRaise("InvalidText")
    /\ UNCHANGED file

ReadText ==
    /\ Reading("read")
    /\ ~Malformed(file.objects[name])
    /\ handles' = handles \ Cleanup
    /\ Leave([function |-> "read_string", name |-> name, value |-> Value(file.objects[name])])
    /\ TextForgotten
    /\ UNCHANGED file

TextNext ==
    \/ \E n \in problem.names \ {Root} : WriteCall(n) \/ ReadCall(n)
    \/ EncodeText \/ EncodeTextFails \/ OpenForText \/ NameIsFree \/ DatasetExists
    \/ CreateType \/ CreateSpace \/ CreateDataset \/ WriteDataset \/ WriteDatasetFails
    \/ WriteTextFails
    \/ OpenToRead \/ NoFile \/ OpenDataset \/ MissingDataset \/ OpenType \/ OpenSpace
    \/ ReadTextFails \/ ReadMalformed \/ ReadText

--------------------------------------------------------------------------------
(* Properties. *)

\* The text as a reader can restore it: cells of no rows become rows of none.
Restorable(text) ==
    IF text.class = "char" THEN text
    ELSE [text EXCEPT !.cells = [k \in DOMAIN @ |-> Row(CellText(text, k))]]

EndsInNul(s) == s # <<>> /\ s[Len(s)] = "nul"

\* A char matrix whose rows do not end in NULs; one without rows has no columns.
Exact(text) ==
    text.class = "char" =>
        /\ \A k \in DOMAIN text.rows : ~EndsInNul(text.rows[k])
        /\ text.rows = <<>> => text.columns = 0

\* Text that was written can be read, and reads back exactly as it was: its
\* class, its rows and columns and every character, surrogate pairs and
\* trailing blanks included, unless a row of a char matrix ends in NULs, which
\* the padding hides, and only then.
TextReadsBack ==
    last.function = "write_string" =>
        LET o == file.objects[last.name]
        IN  ~Malformed(o) /\ (Value(o) = Restorable(problem.text) <=> Exact(problem.text))

================================================================================
