------------------------------ MODULE ReadCloser ------------------------------
(***************************************************************************)
(* What the io.ReadCloser of a backend promises the caller of Read: the    *)
(* audio in order, as far as it is decoded, in pieces of any size, until   *)
(* an error; io.EOF as that error only for the whole of it; and Close at   *)
(* any time.  After another error nothing is promised.  The pipe of module *)
(* FFmpeg and the reader of module SourceReader implement it.              *)
(***************************************************************************)
EXTENDS SequencesExt

VARIABLES
    audio,      \* the units of PCM decoded so far
    whole,      \* is that all of the recording?
    served,     \* the units handed to the caller
    fate        \* open, the first error of a Read (eof or failed), or closed

vars == <<audio, whole, served, fate>>

Init == audio = <<>> /\ ~whole /\ served = <<>> /\ fate = "open"

Decode ==
    /\ ~whole
    /\ IsPrefix(audio, audio')
    /\ UNCHANGED <<served, fate>>

Read ==
    /\ fate = "open"
    /\ IsPrefix(served, served') /\ IsPrefix(served', audio)
    /\ UNCHANGED <<audio, whole, fate>>

End ==
    /\ fate = "open" /\ whole /\ served = audio
    /\ fate' = "eof"
    /\ UNCHANGED <<audio, whole, served>>

Fail ==
    /\ fate = "open"
    /\ fate' = "failed"
    /\ UNCHANGED <<audio, whole, served>>

ReadFailed == fate = "failed" /\ UNCHANGED <<audio, whole, fate>>

Close ==
    /\ fate' = "closed"
    /\ UNCHANGED <<audio, whole, served>>

Next == Decode \/ Read \/ End \/ Fail \/ ReadFailed \/ Close

Spec == Init /\ [][Next]_vars
=============================================================================
