----------------------------- MODULE MCDecoder -----------------------------
(* Decoder on small instances; the .cfg files give the goroutines, decoders
   and streams. *)
EXTENDS Decoder
=============================================================================
