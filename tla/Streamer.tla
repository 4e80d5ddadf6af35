------------------------------ MODULE Streamer ------------------------------
(***************************************************************************)
(* The Streamer of pcm/pcm.go, which cuts s16le PCM read from an io.Reader *)
(* into stereo frames.  A byte is its position in the PCM, a decoded       *)
(* sample the position of its first byte, so that a frame is a pair of     *)
(* positions.  The reader may end at any byte, or fail there, also with an *)
(* error that Stream takes for the end of the audio.                       *)
(***************************************************************************)
EXTENDS Naturals, Sequences, SequencesExt

CONSTANTS
    MaxTotal,       \* bound: bytes the reader yields
    ChannelCounts,  \* Format.Channels
    SampleSizes,    \* Format.BytesPerSample
    Lens            \* len(samples) of the calls of Stream

ASSUME StreamerAssumption ==
    /\ MaxTotal \in Nat /\ Lens \subseteq Nat
    /\ ChannelCounts \subseteq Nat /\ SampleSizes \subseteq Nat

VARIABLES
    total, ending,      \* bytes the reader yields; how it goes on then
    channels, sampleSize,
    pos,                \* bytes read so far
    partial, err, done, \* fields of Streamer; err: Err() # nil
    out,                \* the frames streamed so far
    last,               \* the last Stream: len(samples), and its second result
    closed              \* Close was called

inputVars == <<total, ending, channels, sampleSize>>
vars == <<inputVars, pos, partial, err, done, out, last, closed>>

\* io.EOF; io.ErrUnexpectedEOF, or an error that wraps io.EOF; any other error.
Endings == {"eof", "cut", "error"}

Frame == channels * sampleSize

Supported == sampleSize = 2 /\ channels >= 1

TypeOK ==
    /\ total \in 0..MaxTotal /\ ending \in Endings
    /\ channels \in ChannelCounts /\ sampleSize \in SampleSizes
    /\ pos \in 0..total
    /\ partial \in Seq(0..(MaxTotal - 1))
    /\ Supported => Len(partial) < Frame
    /\ err \in BOOLEAN /\ done \in BOOLEAN
    /\ out \in Seq((0..(MaxTotal - 1)) \X (0..(MaxTotal - 1)))
    /\ last \in [len : Nat, ok : BOOLEAN] /\ closed \in BOOLEAN

Init ==
    /\ total \in 0..MaxTotal /\ ending \in Endings
    /\ channels \in ChannelCounts /\ sampleSize \in SampleSizes
    /\ pos = 0 /\ partial = <<>>
    /\ err = FALSE /\ done = FALSE
    /\ out = <<>> /\ last = [len |-> 0, ok |-> TRUE] /\ closed = FALSE

-----------------------------------------------------------------------------
\* The frames of a buffer: mono goes to both sides, beyond two channels the
\* first two are kept.
BadFrames(buf) ==                              \* right is always the next sample
    [i \in 1..(Len(buf) \div Frame) |->
        LET base == (i - 1) * Frame + 1
        IN <<buf[base], IF base + 2 <= Len(buf) THEN buf[base + 2]
                        ELSE buf[base]>>]

Frames(buf) ==
    [i \in 1..(Len(buf) \div Frame) |->
        LET base == (i - 1) * Frame + 1
        IN <<buf[base], IF channels > 1 THEN buf[base + 2] ELSE buf[base]>>]

\* Nothing to do: streaming is over, or no room was offered.
StreamNothing(len) ==
    /\ done \/ len = 0
    /\ last' = [len |-> len, ok |-> FALSE]
    /\ UNCHANGED <<inputVars, pos, partial, err, done, out, closed>>

StreamUnsupported(len) ==
    /\ ~done /\ len > 0 /\ ~Supported
    /\ err' = TRUE /\ done' = TRUE
    /\ last' = [len |-> len, ok |-> FALSE]
    /\ UNCHANGED <<inputVars, pos, partial, out, closed>>

BadKeptNone(buf) == <<>>                       \* drops what is not a whole frame

\* The bytes behind the whole frames of a buffer.
Kept(buf) == SubSeq(buf, Len(buf) - (Len(buf) % Frame) + 1, Len(buf))

BadFailed(short) == FALSE                      \* takes a failure for an end

\* A read that falls short is an error unless it says that the audio ended, or
\* ended too soon.
Failed(short) == short /\ ending \notin {"eof", "cut"}

\* Fill the buffer behind the left-over bytes (io.ReadFull), stream the whole
\* frames of it, keep the rest.  A read that falls short is the last.
StreamFrames(len) ==
    /\ ~done /\ len > 0 /\ Supported
    /\ LET room == len * Frame - Len(partial)
           n == IF room < total - pos THEN room ELSE total - pos
           buf == partial \o [i \in 1..n |-> pos + i - 1]
       IN /\ pos' = pos + n
          /\ out' = out \o Frames(buf)
          /\ partial' = Kept(buf)
          /\ err' = Failed(n < room)
          /\ last' = [len |-> len, ok |-> Len(buf) >= Frame]
          /\ done' = (n < room \/ Len(buf) < Frame)
    /\ UNCHANGED <<inputVars, closed>>

Close ==
    /\ done' = TRUE /\ closed' = TRUE
    /\ UNCHANGED <<inputVars, pos, partial, err, out, last>>

Stream(len) == StreamNothing(len) \/ StreamUnsupported(len) \/ StreamFrames(len)

Next == Close \/ \E len \in Lens : Stream(len)

Spec == Init /\ [][Next]_vars

-----------------------------------------------------------------------------
(* Properties. *)

\* The frames of the whole PCM, cut without regard to calls and buffers.
Whole ==
    [i \in 1..(total \div Frame) |->
        LET first == (i - 1) * Frame
        IN <<first, IF channels = 1 THEN first ELSE first + 2>>]

\* Whatever the sizes of the calls, what is streamed is the PCM's frames in
\* order, none cut across two calls.
FramesInOrder == Supported => IsPrefix(out, Whole)

\* Streaming ends by itself, and reports false to a caller who has room, only
\* after every whole frame that the reader yields, those before a failure
\* included.  Err tells of a failure then, and of no end; but a reader that
\* fails with io.ErrUnexpectedEOF, or with an error that wraps io.EOF, is
\* taken for one that ended.
EndsComplete ==
    Supported /\ ~closed /\ (done \/ (last.len > 0 /\ ~last.ok)) =>
        out = Whole /\ (err <=> ending = "error")

\* Every byte read is streamed, or is held back as the truncated frame that
\* ends the audio.
BytesConserved ==
    /\ TypeOK
    /\ Supported =>
        /\ pos = Len(out) * Frame + Len(partial)
        /\ partial # <<>> => done
=============================================================================
