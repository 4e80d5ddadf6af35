------------------------------- MODULE MCFFmpeg -------------------------------
(* FFmpeg on small instances; the .cfg files give the bounds. *)
EXTENDS FFmpeg

Audio(n) == [type |-> "audio", channels |-> n]
Cover == [type |-> "video", channels |-> 0]

Recordings4 ==
    {<<Cover, Audio(2)>>, <<Audio(1), Audio(2)>>, <<Audio(6)>>, <<Cover>>}
Reads2 == {1, 2}
=============================================================================
