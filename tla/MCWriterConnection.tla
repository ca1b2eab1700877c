------------------------- MODULE MCWriterConnection -------------------------
(* Small instances of WriterConnection for TLC: the values are in the .cfg   *)
(* files. No symmetry: the main run checks liveness too, which symmetry      *)
(* would make unsound.                                                       *)
EXTENDS WriterConnection
=============================================================================
