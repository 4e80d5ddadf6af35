-------------------------------- MODULE FFmpeg --------------------------------
(***************************************************************************)
(* Decoding with ffmpeg, audio_ffmpeg.go: FFmpegStream and its Stream,     *)
(* piped out of a running ffmpeg, and the decodes up front, FFmpegLoad of  *)
(* a file and FFmpegDecode of bytes, by way of a temporary file.  All of   *)
(* them ask ffprobe for the format first.                                  *)
(*                                                                         *)
(* The child is the process the package started; the worker is the process *)
(* that decodes.  They are one process, or, behind a launcher shim, two:   *)
(* the worker then survives the kill of the child and goes on holding the  *)
(* far ends of the pipes.                                                  *)
(*                                                                         *)
(* Actors: the caller (pc), one goroutine per Close that abandons the      *)
(* decode (helper), the child and the worker.                              *)
(***************************************************************************)
EXTENDS Naturals, Sequences, SequencesExt

CONSTANTS
    Recordings, \* recordings, by the streams ffprobe lists of each
    Total,      \* PCM units they decode to
    Capacity,   \* units the stdout pipe holds
    ReadSizes,  \* lengths of the slices passed to Read, not 0
    Closes      \* bound: calls of Close

ASSUME FFmpegAssumption ==
    /\ Recordings \subseteq Seq([type : {"audio", "video"}, channels : Nat])
    /\ Total \in Nat /\ Capacity \in Nat \ {0} /\ Closes \in Nat
    /\ ReadSizes \subseteq Nat \ {0}

VARIABLES
    entry,      \* the function called
    recording,  \* its argument
    shim,       \* is ffmpeg reached through a launcher shim?
    temp,       \* the temporary file exists
    worker,     \* none, running, ok or bad: the decoding process
    child,      \* the same of the process the package started
    killed,     \* the child was sent a signal that kills it
    made,       \* units the worker has written
    inPipe,     \* units written and not read yet
    readEnd,    \* the read end of the stdout pipe is open
    waited,     \* cmd.Wait has returned
    drained,    \* ffmpegStream.drained
    pc,         \* where the caller is
    helper,     \* helper[k]: goroutine of the k-th Close
    closes,     \* calls of Close so far
    got,        \* units read out of the pipe by Read or by FFmpegLoad
    fate        \* the first end or error the caller got

given == <<entry, recording, shim>>
procVars == <<worker, child, killed, made>>
pipeVars == <<inPipe, readEnd>>
waitVars == <<waited, drained>>
closeVars == <<helper, closes>>
readVars == <<got, fate>>
sourceVars == <<given, temp, procVars>>
vars == <<sourceVars, pipeVars, waitVars, pc, closeVars, readVars>>

Status == {"none", "running", "ok", "bad"}
Calls == 1..Closes

OpenPC == {"create", "fill", "probe", "start", "load", "remove"}

TypeOK ==
    /\ entry \in {"FFmpegStream", "FFmpegLoad", "FFmpegDecode"}
    /\ recording \in Recordings /\ shim \in BOOLEAN
    /\ temp \in BOOLEAN /\ killed \in BOOLEAN
    /\ worker \in Status /\ child \in Status
    /\ made \in 0..Total /\ inPipe \in 0..Capacity /\ got \in 0..Total
    /\ readEnd \in BOOLEAN /\ waited \in BOOLEAN /\ drained \in BOOLEAN
    /\ pc \in OpenPC \cup {"done", "idle", "reading", "reap", "closing", "closed"}
    /\ helper \in [Calls -> {"none", "copy", "reap", "done"}]
    /\ closes \in 0..Closes
    /\ fate \in {"none", "eof", "error"}

Init ==
    /\ entry \in {"FFmpegStream", "FFmpegLoad", "FFmpegDecode"}
    /\ recording \in Recordings /\ shim \in BOOLEAN
    /\ temp = FALSE
    /\ worker = "none" /\ child = "none" /\ killed = FALSE /\ made = 0
    /\ inPipe = 0 /\ readEnd = FALSE
    /\ waited = FALSE /\ drained = FALSE
    /\ pc = IF entry = "FFmpegDecode" THEN "create" ELSE "probe"
    /\ helper = [k \in Calls |-> "none"] /\ closes = 0
    /\ got = 0 /\ fate = "none"

-----------------------------------------------------------------------------
(* The processes. *)

\* Without a shim the child is the worker.
ChildFollows == child' = IF shim THEN child ELSE worker'

Produce ==
    /\ worker = "running" /\ made < Total /\ inPipe < Capacity
    /\ made' = made + 1 /\ inPipe' = inPipe + 1
    /\ UNCHANGED <<given, temp, waitVars, closeVars, readVars, worker, child,
                   killed, readEnd, pc>>

Exit(status) ==
    /\ worker = "running"
    /\ worker' = status
    /\ ChildFollows
    /\ UNCHANGED <<given, temp, pipeVars, waitVars, closeVars, readVars,
                   killed, made, pc>>

\* The worker is done, or fails on the way.
Finish == made = Total /\ Exit("ok")
Fail == Exit("bad")

\* The shim passes on the status of the worker.
ShimExit ==
    /\ shim /\ child = "running" /\ worker # "running"
    /\ child' = worker
    /\ UNCHANGED <<given, temp, pipeVars, waitVars, closeVars, readVars,
                   worker, killed, made, pc>>

\* A child that was killed is gone after a while.  A worker behind a shim is
\* not.
Die ==
    /\ killed /\ child = "running"
    /\ child' = "bad"
    /\ worker' = IF shim THEN worker ELSE child'
    /\ UNCHANGED <<given, temp, pipeVars, waitVars, closeVars, readVars,
                   killed, made, pc>>

\* No process holds the far end of the pipes.
Hangup == worker # "running" /\ child # "running"

AtEOF == inPipe = 0 /\ Hangup

\* cmd.Wait, run once by whoever gets there first: it returns when the child
\* has exited and nobody can write to stderr any more, and closes the read
\* end of stdout.
Reap ==
    /\ waited \/ Hangup
    /\ waited' = TRUE
    /\ readEnd' = FALSE

-----------------------------------------------------------------------------
(* Up to the start of ffmpeg. *)

\* The deferred os.Remove of FFmpegDecode is all that is left to do.
Leave == pc' = IF temp THEN "remove" ELSE "done"

\* The call fails.
Failed == Leave /\ fate' = "error" /\ UNCHANGED got

CreateTemp ==
    /\ pc = "create"
    /\ \/ temp' = TRUE /\ pc' = "fill" /\ UNCHANGED readVars
       \/ Failed /\ UNCHANGED temp
    /\ UNCHANGED <<given, procVars, pipeVars, waitVars, closeVars>>

\* tmp.Write and tmp.Close, each of which may fail.
FillTemp ==
    /\ pc = "fill"
    /\ \/ pc' = "probe" /\ UNCHANGED readVars
       \/ Failed
    /\ UNCHANGED <<sourceVars, pipeVars, waitVars, closeVars>>

AudioStreams == {i \in DOMAIN recording : recording[i].type = "audio"}

\* FirstAudioStream, of a recording that has one.
FirstAudioStream == CHOOSE i \in AudioStreams : \A j \in AudioStreams : i <= j

\* Format handles one or two channels.
Playable ==
    AudioStreams # {} /\ recording[FirstAudioStream].channels \in 1..2

\* ffprobe has run to its end and named a format the package can handle.
Probe ==
    /\ pc = "probe"
    /\ \/ Playable /\ pc' = "start" /\ UNCHANGED readVars
       \/ Failed
    /\ UNCHANGED <<sourceVars, pipeVars, waitVars, closeVars>>

\* The pipe is made and ffmpeg is started; or the pipe or the start fails, and
\* neither is left.
Start ==
    /\ pc = "start"
    /\ \/ /\ worker' = "running" /\ child' = "running"
          /\ readEnd' = TRUE
          /\ pc' = IF entry = "FFmpegStream" THEN "idle" ELSE "load"
          /\ UNCHANGED readVars
       \/ Failed /\ UNCHANGED <<worker, child, readEnd>>
    /\ UNCHANGED <<given, waitVars, closeVars, temp, killed, made, inPipe>>

-----------------------------------------------------------------------------
(* FFmpegLoad: cmd.Run, with a goroutine that copies stdout to the buffer. *)

LoadCopy ==
    /\ pc = "load" /\ inPipe > 0
    /\ inPipe' = inPipe - 1
    /\ got' = got + 1
    /\ UNCHANGED <<sourceVars, waitVars, closeVars, readEnd, pc, fate>>

\* Run returns once the copy is complete and the child has exited.
LoadReturn ==
    /\ pc = "load" /\ AtEOF
    /\ Reap
    /\ Leave
    /\ fate' = IF child = "ok" THEN "eof" ELSE "error"
    /\ UNCHANGED <<sourceVars, closeVars, inPipe, drained, got>>

RemoveTemp ==
    /\ pc = "remove"
    /\ temp' = FALSE
    /\ pc' = "done"
    /\ UNCHANGED <<given, procVars, pipeVars, waitVars, closeVars, readVars>>

-----------------------------------------------------------------------------
(* Read. *)

Read ==
    /\ pc = "idle"
    /\ pc' = "reading"
    /\ UNCHANGED <<sourceVars, pipeVars, waitVars, closeVars, readVars>>

Return(r) == pc' = "idle" /\ fate' = IF fate = "none" THEN r ELSE fate

ReadData(n) ==
    /\ pc = "reading" /\ readEnd
    /\ n <= inPipe
    /\ inPipe' = inPipe - n
    /\ got' = got + n
    /\ pc' = "idle"
    /\ UNCHANGED <<sourceVars, waitVars, closeVars, readEnd, fate>>

\* The pipe was closed by an earlier Wait: an error that is not io.EOF.
ReadClosed ==
    /\ pc = "reading" /\ ~readEnd
    /\ Return("error")
    /\ UNCHANGED <<sourceVars, pipeVars, waitVars, closeVars, got>>

BadReadEOF ==                                  \* takes it for an empty read
    /\ pc = "reading" /\ readEnd
    /\ AtEOF
    /\ drained' = TRUE
    /\ UNCHANGED <<sourceVars, pipeVars, closeVars, readVars, pc, waited>>

ReadEOF ==
    /\ pc = "reading" /\ readEnd
    /\ AtEOF
    /\ drained' = TRUE
    /\ pc' = "reap"
    /\ UNCHANGED <<sourceVars, pipeVars, closeVars, readVars, waited>>

BadReadReap ==                                 \* ignores the exit status
    /\ pc = "reap"
    /\ Reap
    /\ Return("eof")
    /\ UNCHANGED <<sourceVars, closeVars, inPipe, drained, got>>

\* io.EOF only after a clean exit.
ReadReap ==
    /\ pc = "reap"
    /\ Reap
    /\ Return(IF child = "ok" THEN "eof" ELSE "error")
    /\ UNCHANGED <<sourceVars, closeVars, inPipe, drained, got>>

-----------------------------------------------------------------------------
(* Close. *)

MayClose == pc \in {"idle", "closed"} /\ closes < Closes

\* A stream read to its end has been waited for.
CloseDrained ==
    /\ MayClose /\ drained
    /\ closes' = closes + 1
    /\ pc' = "closed"
    /\ Reap
    /\ UNCHANGED <<sourceVars, readVars, inPipe, drained, helper>>

\* The child is sent the signal, or that fails and the error is dropped.
Kill ==
    /\ killed' \in {killed, TRUE}
    /\ UNCHANGED <<worker, child, made>>

BadCloseNoDrain ==                             \* does not empty the pipe
    /\ MayClose /\ ~drained
    /\ closes' = closes + 1
    /\ Kill
    /\ helper' = [helper EXCEPT ![closes + 1] = "reap"]
    /\ pc' = "closing"
    /\ UNCHANGED <<given, temp, pipeVars, waitVars, readVars>>

BadCloseKills ==                               \* kills and waits for nothing
    /\ MayClose /\ ~drained
    /\ closes' = closes + 1
    /\ Kill
    /\ pc' = "closed"
    /\ UNCHANGED <<given, temp, pipeVars, waitVars, readVars, helper>>

\* Kill, and leave the rest to a goroutine.
CloseAbandoned ==
    /\ MayClose /\ ~drained
    /\ closes' = closes + 1
    /\ Kill
    /\ helper' = [helper EXCEPT ![closes + 1] = "copy"]
    /\ pc' = "closing"
    /\ UNCHANGED <<given, temp, pipeVars, waitVars, readVars>>

\* io.Copy(io.Discard, f.stdout)
HelperCopy(k) ==
    /\ helper[k] = "copy"
    /\ \/ /\ readEnd /\ inPipe > 0
          /\ inPipe' = inPipe - 1
          /\ UNCHANGED helper
       \/ /\ AtEOF \/ ~readEnd
          /\ helper' = [helper EXCEPT ![k] = "reap"]
          /\ UNCHANGED inPipe
    /\ UNCHANGED <<sourceVars, waitVars, readVars, readEnd, pc, closes>>

BadHelperReap(k) ==                            \* forgets to wait for ffmpeg
    /\ helper[k] = "reap"
    /\ helper' = [helper EXCEPT ![k] = "done"]
    /\ UNCHANGED <<sourceVars, pipeVars, waitVars, readVars, pc, closes>>

HelperReap(k) ==
    /\ helper[k] = "reap"
    /\ Reap
    /\ helper' = [helper EXCEPT ![k] = "done"]
    /\ UNCHANGED <<sourceVars, readVars, inPipe, drained, pc, closes>>

\* The goroutine is done.
CloseDone ==
    /\ pc = "closing" /\ helper[closes] = "done"
    /\ pc' = "closed"
    /\ UNCHANGED <<sourceVars, pipeVars, waitVars, closeVars, readVars>>

BadCloseTimeout == FALSE                       \* waits for ever

\* reapTimeout goes by, whatever the processes do and however far the
\* goroutine is.
CloseTimeout ==
    /\ pc = "closing"
    /\ pc' = "closed"
    /\ UNCHANGED <<sourceVars, pipeVars, waitVars, closeVars, readVars>>

-----------------------------------------------------------------------------
Process == Produce \/ Finish \/ ShimExit \/ Probe

Opening == CreateTemp \/ FillTemp \/ Start \/ LoadCopy \/ LoadReturn \/ RemoveTemp

Reading ==
    ReadClosed \/ ReadEOF \/ ReadReap \/ \E n \in ReadSizes : ReadData(n)

Closing == CloseDone \/ CloseTimeout

Helping(k) == HelperCopy(k) \/ HelperReap(k)

Next ==
    \/ Process \/ Fail \/ Die \/ Opening \/ Read \/ Reading \/ Closing
    \/ CloseDrained \/ CloseAbandoned
    \/ \E k \in Calls : Helping(k)

Spec == Init /\ [][Next]_vars

\* Goroutines run.  Nothing is assumed of the processes.
GoSpec ==
    /\ Spec
    /\ WF_vars(Opening) /\ WF_vars(Reading) /\ WF_vars(Closing)
    /\ \A k \in Calls : WF_vars(Helping(k))

\* ffprobe ends, and a process that can write decodes on, and ends.
ProcessesGoOn == WF_vars(Process)

-----------------------------------------------------------------------------
(* Properties. *)

\* The caller gets the audio in order, and the end of it, be that io.EOF or a
\* result of FFmpegLoad, only for the whole: a decode that fails halfway
\* closes the pipe just the same and is never taken for it.
R == INSTANCE ReadCloser WITH
        audio <- [i \in 1..made |-> i],
        whole <- child = "ok",
        served <- [i \in 1..got |-> i],
        fate <- IF pc \in {"closing", "closed"} THEN "closed"
                ELSE [none |-> "open", eof |-> "eof", error |-> "failed"][fate]

ImplementsReadCloser == R!Spec

\* Whatever failed, a call that returns no Stream leaves no process, no
\* zombie, no open pipe and no temporary file behind.  Nor does Close, also a
\* second one, at whatever point the decode was abandoned, unless it ran out
\* of time; and then a goroutine is still at work on what it left.
Clean ==
    /\ Hangup /\ (child # "none" => waited)
    /\ ~readEnd /\ ~temp

AtWork == \E k \in Calls : helper[k] \in {"copy", "reap"}

NothingLeft ==
    /\ TypeOK
    /\ pc = "done" => Clean
    /\ pc = "closed" => Clean \/ AtWork

\* Close returns, even if the worker neither ends nor lets go of its pipes.
CloseReturns == pc = "closing" ~> pc = "closed"

\* A worker that survives Close is a brief leak: it is never left blocked on
\* a full pipe, and if it goes on as long as it can write, it is waited for
\* in the end and the helpers are gone.
LeakEnds ==
    ProcessesGoOn =>
        (pc = "closed" ~>
            waited /\ \A k \in Calls : helper[k] \in {"none", "done"})

\* A kill that reaches ffmpeg itself is the end of it: it is waited for and its
\* pipe is closed, even if it was stuck and would never have ended.
KillCollects ==
    WF_vars(Die) => (killed /\ ~shim ~> Clean)

\* The functions that open or decode and Read return as long as ffprobe and
\* ffmpeg make progress, however much they write and whether they fail.
CallsReturn ==
    ProcessesGoOn =>
        (pc \in OpenPC \cup {"reading", "reap"} ~> pc \in {"idle", "done"})
=============================================================================
