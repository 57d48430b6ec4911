----------------------------- MODULE MC_CsvUpload -----------------------------
(* Small instances of CsvUpload for TLC.                                       *)
EXTENDS CsvUpload, SequencesExt

File(field, size, bad) == [type |-> "file", field |-> field, size |-> size, bad |-> bad]
Field == [type |-> "field", field |-> "note", size |-> 0, bad |-> 0]

(* Files below, at and above a limit of two chunks; rejected at once, in the   *)
(* middle, at the end, at the end the limit makes, or never.                   *)
Parts == {Field, File("other", 1, 9), File("file", 0, 9), File("file", 1, 0),
          File("file", 1, 2),
          File("file", 2, 9), File("file", 2, 2), File("file", 3, 9), File("file", 3, 3)}

AllBodies == BoundedSeq(Parts, 3)

(* Every head; and that of a request whose body is read.                       *)
AllHeads == [contentType : {"multipart", "noBoundary", "other"}, query : {"valid", "invalid"}]
Uploads == [contentType : {"multipart"}, query : {"valid"}]

(* Bodies of one file.                                                         *)
OneFile == {<<p>> : p \in Parts \ {Field}}
===============================================================================
