---------------------------- MODULE MCAudioToolbox ----------------------------
(* AudioToolbox on small files and buffers; when the file is opened it looks
   before, into and beyond the buffer. *)
EXTENDS AudioToolbox

PerPacket2 == {1, 2, 3}
Requests3 == {1, 2, 3}
Places4 == {-2, 0, 4, 9}
Looks2 == {1, 6}
=============================================================================
