--------------------------- MODULE MCSourceReader ---------------------------
(* SourceReader on small instances; the .cfg files give the bounds. *)
EXTENDS SourceReader

T2 == {0, 1}
Sizes2 == {0, 2}
Reads2 == {1, 3}
=============================================================================
