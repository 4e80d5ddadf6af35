-------------------------------- MODULE Play --------------------------------
(***************************************************************************)
(* Synchronous playback, play/play.go: goroutines that call PCM, or File   *)
(* or Data, which decode first, and share the one oto context of the       *)
(* process.  oto itself, the context that is resumed and suspended and the *)
(* players it drives, is modelled from how PCM uses it: a player advances  *)
(* while it plays, the context is not suspended and the audio device       *)
(* works.                                                                  *)
(***************************************************************************)
EXTENDS Naturals, FiniteSets

CONSTANTS
    Callers,    \* goroutines that play
    Formats,    \* formats of the PCM, with BytesPerSample = 2
    NoFormat,   \* no context yet
    Length,     \* units of audio in a PCM
    Calls       \* bound: calls of PCM, File and Data

ASSUME PlayAssumption ==
    /\ NoFormat \notin Formats /\ "free" \notin Callers
    /\ Length \in Nat /\ Calls \in Nat

VARIABLES
    mu,         \* holder of mu, or "free"
    shared,     \* format of the context stored in shared, or NoFormat
    contexts,   \* contexts oto has created
    ready,      \* the context reports that the device is ready
    running,    \* the context is not suspended
    working,    \* the audio device makes progress
    decoders,   \* callers that have a Decoder open
    pc, format, \* where each caller is, and the format of its PCM
    left,       \* left[c]: units the player of c has not played yet
    result,     \* result[c]: what the last call of c returned
    calls       \* calls so far

ctxVars == <<mu, shared, contexts, ready>>
devVars == <<running, working>>
callVars == <<decoders, format, result>>
vars == <<ctxVars, devVars, callVars, pc, left, calls>>

TypeOK ==
    /\ mu \in Callers \cup {"free"}
    /\ shared \in Formats \cup {NoFormat}
    /\ contexts \in Nat
    /\ ready \in BOOLEAN /\ running \in BOOLEAN /\ working \in BOOLEAN
    /\ decoders \subseteq {c \in Callers : pc[c] # "idle"}
    /\ pc \in [Callers -> {"idle", "new", "decode", "lock", "context", "ready",
                           "resume", "playing", "suspend", "failed", "late"}]
    /\ format \in [Callers -> Formats \cup {NoFormat}]
    /\ left \in [Callers -> 0..Length]
    /\ result \in [Callers -> {"none", "played", "failed", "format", "late"}]
    /\ calls \in 0..Calls

Init ==
    /\ mu = "free" /\ shared = NoFormat /\ contexts = 0 /\ ready = FALSE
    /\ running = FALSE /\ working = TRUE /\ decoders = {}
    /\ pc = [c \in Callers |-> "idle"]
    /\ format = [c \in Callers |-> NoFormat]
    /\ left = [c \in Callers |-> 0]
    /\ result = [c \in Callers |-> "none"]
    /\ calls = 0

-----------------------------------------------------------------------------
Goto(c, label) == pc' = [pc EXCEPT ![c] = label]

\* The call returns; File and Data close their Decoder.
Return(c, r) ==
    /\ Goto(c, "idle")
    /\ decoders' = decoders \ {c}
    /\ result' = [result EXCEPT ![c] = r]
    /\ format' = [format EXCEPT ![c] = NoFormat]

PCM(c, f) ==
    /\ pc[c] = "idle" /\ calls < Calls
    /\ calls' = calls + 1
    /\ Goto(c, "lock")
    /\ format' = [format EXCEPT ![c] = f]
    /\ UNCHANGED <<ctxVars, devVars, decoders, left, result>>

(* File and Data. *)

Play(c) ==
    /\ pc[c] = "idle" /\ calls < Calls
    /\ calls' = calls + 1
    /\ Goto(c, "new")
    /\ UNCHANGED <<ctxVars, devVars, callVars, left>>

\* nativeaudio.New, which may fail.
New(c) ==
    /\ pc[c] = "new"
    /\ \/ /\ decoders' = decoders \cup {c}
          /\ Goto(c, "decode")
          /\ UNCHANGED <<format, result>>
       \/ Return(c, "failed")
    /\ UNCHANGED <<ctxVars, devVars, left, calls>>

\* The decode fails, or PCM is called with what it returned.
Decode(c) ==
    /\ pc[c] = "decode"
    /\ \/ /\ \E f \in Formats : format' = [format EXCEPT ![c] = f]
          /\ Goto(c, "lock")
          /\ UNCHANGED <<decoders, result>>
       \/ Return(c, "failed")
    /\ UNCHANGED <<ctxVars, devVars, left, calls>>

(* sharedContext. *)

BadLock(c) ==                                  \* does not take mu
    /\ pc[c] = "lock"
    /\ Goto(c, "context")
    /\ UNCHANGED <<ctxVars, devVars, callVars, left, calls>>

Lock(c) ==
    /\ pc[c] = "lock" /\ mu = "free"
    /\ mu' = c
    /\ Goto(c, "context")
    /\ UNCHANGED <<shared, contexts, ready, devVars, callVars, left, calls>>

\* There is a context: it fits, or the call fails.
Reuse(c) ==
    /\ pc[c] = "context" /\ shared # NoFormat
    /\ mu' = "free"
    /\ \/ /\ shared = format[c]
          /\ Goto(c, "resume") /\ UNCHANGED callVars
       \/ /\ shared # format[c]
          /\ Return(c, "format")
    /\ UNCHANGED <<shared, contexts, ready, devVars, left, calls>>

CreateFails(c) ==
    /\ pc[c] = "context" /\ shared = NoFormat
    /\ mu' = "free"
    /\ Return(c, "failed")
    /\ UNCHANGED <<shared, contexts, ready, devVars, left, calls>>

\* oto.NewContext; the caller waits for ready with mu held.
Create(c) ==
    /\ pc[c] = "context" /\ shared = NoFormat
    /\ contexts' = contexts + 1
    /\ running' = TRUE
    /\ Goto(c, "ready")
    /\ UNCHANGED <<mu, shared, ready, working, callVars, left, calls>>

DeviceReady ==
    /\ contexts > 0 /\ ~ready
    /\ ready' = TRUE
    /\ UNCHANGED <<mu, shared, contexts, devVars, pc, callVars, left, calls>>

Store(c) ==
    /\ pc[c] = "ready" /\ ready
    /\ shared' = format[c]
    /\ mu' = "free"
    /\ Goto(c, "resume")
    /\ UNCHANGED <<contexts, ready, devVars, callVars, left,
                   calls>>

(* The rest of PCM. *)

\* ctx.Resume, NewPlayer and Play.
Start(c) ==
    /\ pc[c] = "resume"
    /\ running' = TRUE
    /\ left' = [left EXCEPT ![c] = Length]
    /\ Goto(c, "playing")
    /\ UNCHANGED <<ctxVars, working, callVars, calls>>

ResumeFails(c) ==
    /\ pc[c] = "resume"
    /\ Return(c, "failed")
    /\ UNCHANGED <<ctxVars, devVars, left, calls>>

\* oto plays a unit.
Advance(c) ==
    /\ pc[c] = "playing" /\ running /\ working /\ left[c] > 0
    /\ left' = [left EXCEPT ![c] = @ - 1]
    /\ UNCHANGED <<ctxVars, devVars, pc, callVars, calls>>

BadFinish(c) ==                                \* stops once the source is read
    /\ pc[c] = "playing"
    /\ left[c] <= 1
    /\ Goto(c, "suspend")
    /\ UNCHANGED <<ctxVars, devVars, callVars, left, calls>>

\* player.IsPlaying is false.
Finish(c) ==
    /\ pc[c] = "playing" /\ left[c] = 0
    /\ Goto(c, "suspend")
    /\ UNCHANGED <<ctxVars, devVars, callVars, left, calls>>

BadLate(c) == FALSE                            \* waits as long as it takes

\* The budget has slack, so the deadline passes only if the player is not
\* advancing: the context is suspended or the device does not work.
Late(c) ==
    /\ pc[c] = "playing" /\ left[c] > 0
    /\ ~running \/ ~working
    /\ Goto(c, "late")
    /\ UNCHANGED <<ctxVars, devVars, callVars, left, calls>>

\* The player fails: it is no longer playing and has an Err.
PlayerFails(c) ==
    /\ pc[c] = "playing" /\ left[c] > 0
    /\ Goto(c, "failed")
    /\ UNCHANGED <<ctxVars, devVars, callVars, left, calls>>

\* player.Close and ctx.Suspend, on every way out.  Either may fail, which
\* costs a success.
Suspend(c) ==
    /\ pc[c] \in {"suspend", "failed", "late"}
    /\ running' = FALSE
    /\ \/ pc[c] = "suspend" /\ Return(c, "played")
       \/ pc[c] = "late" /\ Return(c, "late")
       \/ pc[c] # "late" /\ Return(c, "failed")
    /\ UNCHANGED <<ctxVars, working, left, calls>>

\* The audio device stops making progress, or never did.
DeviceStops ==
    /\ working
    /\ working' = FALSE
    /\ UNCHANGED <<ctxVars, running, pc, callVars, left, calls>>

-----------------------------------------------------------------------------
\* The steps a caller takes by itself.
Running(c) ==
    \/ New(c) \/ Decode(c) \/ Lock(c) \/ Reuse(c) \/ Create(c) \/ CreateFails(c) \/ Store(c)
    \/ Start(c) \/ ResumeFails(c) \/ Finish(c) \/ Late(c) \/ Suspend(c)

Next ==
    \/ DeviceReady \/ DeviceStops
    \/ \E c \in Callers :
          Running(c) \/ Advance(c) \/ PlayerFails(c) \/ Play(c)
          \/ \E f \in Formats : PCM(c, f)

Spec == Init /\ [][Next]_vars

\* Goroutines run, mu is handed on, a context becomes ready, and a player
\* that can advance does.
FairSpec ==
    /\ Spec
    /\ WF_vars(DeviceReady)
    /\ \A c \in Callers :
          WF_vars(Running(c)) /\ SF_vars(Lock(c)) /\ WF_vars(Advance(c))

-----------------------------------------------------------------------------
(* Properties. *)

\* oto permits one context per process: concurrent first calls make one, and
\* PCM is only ever played by a context of its own format.
OneContext ==
    /\ TypeOK /\ contexts <= 1
    /\ \A c \in Callers : pc[c] = "playing" => shared = format[c]

\* PCM that reports success has played the audio to its end.
PlayedToTheEnd ==
    \A c \in Callers : pc[c] = "idle" /\ result[c] = "played" => left[c] = 0

\* PCM returns, also when the device stops or another call suspends the
\* context under it.
PCMReturns == \A c \in Callers : pc[c] # "idle" ~> pc[c] = "idle"

\* "The audio device is not making progress", the error of a call that waited
\* too long, is said only of a device that makes none.
LateMeansStopped == \A c \in Callers : result[c] = "late" => ~working
=============================================================================
