----------------------------- MODULE MCStreamer -----------------------------
(* Streamer on small instances. *)
EXTENDS Streamer

Channels3 == 0..3
SampleSizes2 == {2, 3}
Lens2 == 0..2
=============================================================================
