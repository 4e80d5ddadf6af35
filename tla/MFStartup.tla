------------------------------- MODULE MFStartup -------------------------------
(***************************************************************************)
(* Starting and shutting down Media Foundation: MFStartup, MFShutdown and  *)
(* loadProcs of internal/mf/mf.go, called by New and Decoder.Close on      *)
(* Windows, by several goroutines at once and again and again.  The entry  *)
(* points are resolved once per process, under loadOnce; a machine without *)
(* the Media Feature Pack lacks some of them.                              *)
(***************************************************************************)
EXTENDS Naturals, FiniteSets, Sequences

CONSTANTS
    Callers,    \* goroutines
    NoCaller,   \* no goroutine
    Missing,    \* may the machine lack one?
    MaxCalls    \* bound: calls of MFStartup

ASSUME StartupAssumption ==
    /\ NoCaller \notin Callers
    /\ MaxCalls \in Nat /\ Missing \in BOOLEAN

VARIABLES
    lacks,      \* the entry point the machine lacks, 0 for none
    once,       \* loadOnce: the goroutine in Do, and whether one has been
    resolved,   \* entry points resolved so far, in order
    pc,         \* where each goroutine is
    result,     \* result[c]: what the last MFStartup of c returned
    started,    \* goroutines whose Decoder is open
    platform,   \* startups the platform counts against shutdowns
    refused,    \* shutdowns it refused
    calls       \* calls of MFStartup so far

counts == <<platform, refused>>
vars == <<lacks, once, resolved, pc, result, started, counts, calls>>

\* The DLLs and entry points, in the order in which they are resolved.
Procs ==
    <<"Mfplat.dll", "Shlwapi.dll", "Mfreadwrite.dll", "SHCreateMemStream",
      "MFStartup", "MFShutdown", "MFCreateMediaType", "MFCreateAttributes",
      "MFCreateMFByteStreamOnStream", "MFCreateSourceReaderFromByteStream">>

\* An entry point that is not resolved is a nil *windows.Proc.
IsResolved(p) == \E i \in 1..resolved : Procs[i] = p

TypeOK ==
    /\ lacks \in 0..Len(Procs)
    /\ once \in [in : Callers \cup {NoCaller}, done : BOOLEAN]
    /\ resolved \in 0..Len(Procs)
    /\ pc \in [Callers -> {"idle", "once", "load", "startup", "shutdown", "panic"}]
    /\ result \in [Callers -> {"none", "ok", "error"}]
    /\ started \subseteq Callers
    /\ platform \in Nat /\ refused \in Nat
    /\ calls \in 0..MaxCalls

Init ==
    /\ lacks \in (IF Missing THEN 0..Len(Procs) ELSE {0})
    /\ once = [in |-> NoCaller, done |-> FALSE]
    /\ resolved = 0
    /\ pc = [c \in Callers |-> "idle"]
    /\ result = [c \in Callers |-> "none"]
    /\ started = {} /\ platform = 0 /\ refused = 0 /\ calls = 0

-----------------------------------------------------------------------------
Goto(c, label) == pc' = [pc EXCEPT ![c] = label]

Return(c, r) == Goto(c, "idle") /\ result' = [result EXCEPT ![c] = r]

\* New, on a goroutine without an open Decoder.
Startup(c) ==
    /\ pc[c] = "idle" /\ c \notin started /\ calls < MaxCalls
    /\ calls' = calls + 1
    /\ Goto(c, "once")
    /\ UNCHANGED <<lacks, once, resolved, result, started, counts>>

BadOnceFirst(c) ==                             \* a flag instead of a Once
    /\ pc[c] = "once" /\ ~once.done
    /\ once' = [in |-> c, done |-> TRUE]
    /\ Goto(c, "load")
    /\ UNCHANGED <<lacks, resolved, result, started, counts, calls>>

\* loadOnce.Do: the first to come runs loadProcs.
OnceFirst(c) ==
    /\ pc[c] = "once" /\ ~once.done /\ once.in = NoCaller
    /\ once' = [once EXCEPT !.in = c]
    /\ Goto(c, "load")
    /\ UNCHANGED <<lacks, resolved, result, started, counts, calls>>

\* The others wait for it and go on.  Their loadErr is nil, whatever the
\* first one got.
OncePast(c) ==
    /\ pc[c] = "once" /\ once.done
    /\ Goto(c, "startup")
    /\ UNCHANGED <<lacks, once, resolved, result, started, counts, calls>>

\* loadProcs resolves one more, or fails on the one that is missing.
Resolve(c) ==
    /\ pc[c] = "load" /\ resolved < Len(Procs) /\ lacks # resolved + 1
    /\ resolved' = resolved + 1
    /\ UNCHANGED <<lacks, once, pc, result, started, counts, calls>>

LoadDone == once' = [in |-> NoCaller, done |-> TRUE]

Loaded(c) ==
    /\ pc[c] = "load" /\ resolved = Len(Procs)
    /\ LoadDone
    /\ Goto(c, "startup")
    /\ UNCHANGED <<lacks, resolved, result, started, counts, calls>>

BadLoadFails(c) ==                             \* leaves Do half-way
    /\ pc[c] = "load" /\ resolved < Len(Procs) /\ lacks = resolved + 1
    /\ Return(c, "error")
    /\ UNCHANGED <<lacks, once, resolved, started, counts, calls>>

LoadFails(c) ==
    /\ pc[c] = "load" /\ resolved < Len(Procs) /\ lacks = resolved + 1
    /\ LoadDone
    /\ Return(c, "error")
    /\ UNCHANGED <<lacks, resolved, started, counts, calls>>

\* The call of the entry point MFStartup, which the platform may refuse.  A
\* call of an entry point that is not resolved dereferences nil.
CallStartup(c) ==
    /\ pc[c] = "startup"
    /\ \/ /\ ~IsResolved("MFStartup")
          /\ Goto(c, "panic")
          /\ UNCHANGED <<result, started, counts>>
       \/ /\ IsResolved("MFStartup")
          /\ Return(c, "ok")
          /\ started' = started \cup {c}
          /\ platform' = platform + 1 /\ UNCHANGED refused
       \/ /\ IsResolved("MFStartup")
          /\ Return(c, "error")
          /\ UNCHANGED <<started, counts>>
    /\ UNCHANGED <<lacks, once, resolved, calls>>

BadShutdown(c) ==                              \* a second Close does it again
    /\ pc[c] = "idle" /\ c \in started
    /\ platform' = platform - 1
    /\ UNCHANGED <<lacks, once, resolved, pc, result, started, refused, calls>>

\* Decoder.Close: the call of the entry point MFShutdown, which the platform
\* may refuse.  The Decoder is closed all the same and does not try again.
Shutdown(c) ==
    /\ pc[c] = "idle" /\ c \in started
    /\ \/ /\ ~IsResolved("MFShutdown")
          /\ Goto(c, "panic")
          /\ UNCHANGED <<started, counts>>
       \/ /\ IsResolved("MFShutdown")
          /\ started' = started \ {c}
          /\ \/ platform' = platform - 1 /\ UNCHANGED refused
             \/ refused' = refused + 1 /\ UNCHANGED platform
          /\ UNCHANGED pc
    /\ UNCHANGED <<lacks, once, resolved, result, calls>>

-----------------------------------------------------------------------------
Running(c) ==
    \/ OnceFirst(c) \/ OncePast(c) \/ Resolve(c) \/ Loaded(c) \/ LoadFails(c)
    \/ CallStartup(c)

Next == \E c \in Callers : Running(c) \/ Startup(c) \/ Shutdown(c)

Spec == Init /\ [][Next]_vars

FairSpec == Spec /\ \A c \in Callers : WF_vars(Running(c))

-----------------------------------------------------------------------------
(* Properties. *)

\* On a machine that lacks nothing no call is of an entry point that is still
\* nil, whoever loads them while others start up, open or shut down.
NoNilCall == lacks = 0 => \A c \in Callers : pc[c] # "panic"

\* The startups the platform counts are those of the Decoders that are open,
\* and those whose shutdown it refused: an MFStartup that failed is not
\* undone, one that succeeded is, once.
PlatformPaired == TypeOK /\ platform = Cardinality(started) + refused

\* Nobody waits for ever on loadOnce, also if loading fails.
OnceReturns == \A c \in Callers : pc[c] = "once" ~> pc[c] # "once"

\* A Startup that succeeds has resolved the entry points the package uses.
StartupResolves == \A c \in Callers : result[c] = "ok" => resolved = Len(Procs)
=============================================================================
