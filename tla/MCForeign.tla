------------------------------ MODULE MCForeign ------------------------------
(* The reader on compact files with blobs whose text has the tag of a key. *)
EXTENDS ForeignStream, ForeignShapes

MCShapes == KeyTextShapes
=============================================================================
