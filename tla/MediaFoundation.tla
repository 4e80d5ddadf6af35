---------------------------- MODULE MediaFoundation ----------------------------
(***************************************************************************)
(* A process that uses Media Foundation: goroutines that create and close  *)
(* Decoders (module MFStartup), one of which opens a stream (MFStream) on  *)
(* its Decoder, reads, perhaps gives a read up, and closes the stream,     *)
(* while the others start the platform and shut it down.                   *)
(*                                                                         *)
(* What a Decoder keeps apart, as module Decoder shows, is taken from      *)
(* there: a stream is opened on an open Decoder, and Decoder.Close shuts   *)
(* the platform down only when the stream is closed.                       *)
(***************************************************************************)
EXTENDS MFStartup, MFStream

VARIABLE user   \* the goroutine on whose Decoder the stream is, or NoCaller

allVars == <<vars, streamVars, user>>

ProcessInit == Init /\ StreamInit /\ user = NoCaller

-----------------------------------------------------------------------------
\* A stream is being opened, read or closed.
InUse == user # NoCaller /\ step # "released"

\* The entry point of the platform that a step of Open calls.
EntryPoint ==
    [istream |-> "SHCreateMemStream",
     byteStream |-> "MFCreateMFByteStreamOnStream",
     attributes |-> "MFCreateAttributes",
     reader |-> "MFCreateSourceReaderFromByteStream",
     configure |-> "MFCreateMediaType"]

CallsNil == step \in DOMAIN EntryPoint /\ ~IsResolved(EntryPoint[step])

\* openStream on the open Decoder of c.
OpenStream(c) ==
    /\ user = NoCaller
    /\ pc[c] = "idle" /\ c \in started
    /\ user' = c
    /\ UNCHANGED <<vars, streamVars>>

\* One step of Open.  The error it returns is in step.
OpenStep ==
    /\ InUse /\ pc[user] = "idle" /\ ~CallsNil
    /\ Opening
    /\ UNCHANGED <<vars, user>>

\* A step of Open dereferences an entry point that is nil.  The deferred
\* release does not run: err is nil while a panic unwinds.
OpenPanics ==
    /\ InUse /\ pc[user] = "idle" /\ CallsNil
    /\ Goto(user, "panic")
    /\ UNCHANGED <<lacks, once, resolved, result, started, counts, calls,
                   streamVars, user>>

UseStream ==
    /\ InUse
    /\ GiveUp \/ CloseStream \/ Release
    /\ UNCHANGED <<vars, user>>

BadAwaited(c) == TRUE                          \* Close does not wait

\* Close of the Decoder of c has no stream to wait for.
Awaited(c) == user = c => ~InUse

CloseDecoder(c) ==
    /\ Awaited(c)
    /\ Shutdown(c)
    /\ UNCHANGED <<streamVars, user>>

CreateDecoder(c) ==
    /\ Running(c) \/ Startup(c)
    /\ UNCHANGED <<streamVars, user>>

-----------------------------------------------------------------------------
ProcessNext ==
    \/ OpenStep \/ OpenPanics \/ UseStream
    \/ \E c \in Callers : CreateDecoder(c) \/ CloseDecoder(c) \/ OpenStream(c)

\* The goroutine inside MFStartup runs.
ProcessSpec ==
    /\ ProcessInit /\ [][ProcessNext]_allVars
    /\ \A c \in Callers : WF_allVars(CreateDecoder(c) /\ Running(c))

-----------------------------------------------------------------------------
(* Properties. *)

\* The platform is never down under a stream that is being opened, read or
\* closed, whoever else starts and shuts down.  What outlives the last
\* shutdown are the objects of a reader that was given up on, and they are
\* whole: the callback it may still call is pinned.
PlatformOutlastsStreams ==
    platform = 0 =>
        /\ ~InUse
        /\ \A o \in Objects : refs[o] > 0 => gaveUp
        /\ refs["reader"] > 0 => pinned /\ \A o \in holds["reader"] : refs[o] > 0
=============================================================================
