------------------------------ MODULE Decoder ------------------------------
(***************************************************************************)
(* The Decoder value of audio.go and the closing half of Stream in         *)
(* stream.go: goroutines (Callers) that create decoders, decode, open and  *)
(* close streams, and close decoders, all concurrently.                    *)
(*                                                                         *)
(* A call is a sequence of steps, one for each point at which another      *)
(* goroutine can be observed: taking d.mu, testing d.closed, opening the   *)
(* backend, tracking the stream, draining it, releasing d.mu.  pc[c] is    *)
(* where goroutine c is, dec[c], cur[c] and kind[c] the arguments of its   *)
(* call.  The steps named Bad... are what a plausible slip in that         *)
(* code would do; no next-state relation here uses them.                   *)
(***************************************************************************)
EXTENDS Naturals, FiniteSets

CONSTANTS
    Callers,    \* goroutines that use the package
    Decoders,   \* Decoder values New can return
    Streams,    \* Stream values that can exist at the same time
    None,       \* no goroutine, no decoder, no stream
    Nesting     \* may a goroutine call a decoder while it owns a Stream?

ASSUME NoneAssumption == None \notin Callers \cup Decoders \cup Streams
ASSUME StreamsAssumption == IsFiniteSet(Streams)
ASSUME DecodersAssumption == IsFiniteSet(Decoders)
ASSUME NestingAssumption == Nesting \in BOOLEAN

VARIABLES
    life,       \* life[d]: absent, started (start() ran), ended (end() ran)
    closed,     \* Decoder.closed
    readers,    \* goroutines holding d.mu for reading
    writer,     \* goroutine that holds or has announced d.mu for writing
    wg,         \* counter of the WaitGroup Decoder.streams
    platform,   \* startups the platform counts against shutdowns
    pc, dec, cur, kind,
    st,         \* st[s]: state of the backend object behind Stream s
    sdec,       \* sdec[s]: decoder Stream s was opened on
    owner,      \* owner[s]: goroutine the Stream was returned to
    tracked     \* tracked[s]: Stream.done # nil

lockVars == <<readers, writer>>
callVars == <<pc, dec, cur, kind>>
streamVars == <<st, sdec, owner, tracked>>
vars == <<life, closed, lockVars, wg, platform, callVars, streamVars>>

Kind == {"pcm", "stream"}

\* pc values in which the goroutine is inside a call that took d.mu.RLock,
\* and those in which it is inside Decoder.Close past d.mu.Lock.
ReadPC == {"check", "opening", "draining", "tracking", "runlock"}
WritePC == {"wlock", "wcheck", "waitstreams", "end", "unlock"}
PC == {"idle", "rwait", "wwait", "sdone"} \cup ReadPC \cup WritePC

StreamState == {"free", "reserved", "opening", "live", "released"}

TypeOK ==
    /\ life \in [Decoders -> {"absent", "started", "ended"}]
    /\ closed \in [Decoders -> BOOLEAN]
    /\ readers \in [Decoders -> SUBSET Callers]
    /\ writer \in [Decoders -> Callers \cup {None}]
    /\ wg \in [Decoders -> Nat]
    /\ platform \in Nat
    /\ pc \in [Callers -> PC]
    /\ dec \in [Callers -> Decoders \cup {None}]
    /\ cur \in [Callers -> Streams \cup {None}]
    /\ kind \in [Callers -> Kind]
    /\ st \in [Streams -> StreamState]
    /\ sdec \in [Streams -> Decoders \cup {None}]
    /\ owner \in [Streams -> Callers \cup {None}]
    /\ tracked \in [Streams -> BOOLEAN]

Init ==
    /\ life = [d \in Decoders |-> "absent"]
    /\ closed = [d \in Decoders |-> FALSE]
    /\ readers = [d \in Decoders |-> {}]
    /\ writer = [d \in Decoders |-> None]
    /\ wg = [d \in Decoders |-> 0]
    /\ platform = 0
    /\ pc = [c \in Callers |-> "idle"]
    /\ dec = [c \in Callers |-> None]
    /\ cur = [c \in Callers |-> None]
    /\ kind = [c \in Callers |-> "pcm"]
    /\ st = [s \in Streams |-> "free"]
    /\ sdec = [s \in Streams |-> None]
    /\ owner = [s \in Streams |-> None]
    /\ tracked = [s \in Streams |-> FALSE]

-----------------------------------------------------------------------------
(* Helpers. *)

Goto(c, label) == pc' = [pc EXCEPT ![c] = label]

\* The Streams a goroutine was given and has not closed yet.
OpenStreams(c) == {s \in Streams : owner[s] = c /\ st[s] = "live"}

\* A goroutine with calls of its own to make.  Unless Nesting, it closes the
\* streams it owns before it calls a decoder again.
MayCall(c) == pc[c] = "idle" /\ (Nesting \/ OpenStreams(c) = {})

\* The Stream variable of a call that returns no Stream is dropped.
DropStream(s) ==
    /\ st' = [st EXCEPT ![s] = "free"]
    /\ sdec' = [sdec EXCEPT ![s] = None]

Return(c) ==
    /\ Goto(c, "idle")
    /\ dec' = [dec EXCEPT ![c] = None]
    /\ cur' = [cur EXCEPT ![c] = None]
    /\ kind' = [kind EXCEPT ![c] = "pcm"]

-----------------------------------------------------------------------------
(* New: the platform is started, then the Decoder exists. *)

New(c, d) ==
    /\ MayCall(c)
    /\ life[d] = "absent"
    /\ life' = [life EXCEPT ![d] = "started"]
    /\ platform' = platform + 1
    /\ UNCHANGED <<closed, lockVars, wg, callVars, streamVars>>

-----------------------------------------------------------------------------
(* DecodeFile and Decode (kind pcm), StreamFile and Stream (kind stream).  *)

BadRLock(c, d, k, s) ==                        \* ignores a pending writer
    /\ MayCall(c)
    /\ life[d] # "absent"
    /\ st[s] = "free"
    /\ Goto(c, "check")
    /\ readers' = [readers EXCEPT ![d] = @ \cup {c}]
    /\ dec' = [dec EXCEPT ![c] = d]
    /\ cur' = [cur EXCEPT ![c] = s]
    /\ kind' = [kind EXCEPT ![c] = k]
    /\ st' = [st EXCEPT ![s] = "reserved"]
    /\ UNCHANGED <<life, closed, writer, wg, platform, sdec, owner, tracked>>

\* d.mu.RLock.  A sync.RWMutex makes a new reader wait as soon as a writer
\* has announced itself, even one still waiting for earlier readers.
RLock(c, d, k, s) ==
    /\ MayCall(c)
    /\ life[d] # "absent"
    /\ st[s] = "free"
    /\ \/ /\ writer[d] = None
          /\ Goto(c, "check")
          /\ readers' = [readers EXCEPT ![d] = @ \cup {c}]
       \/ /\ writer[d] # None
          /\ Goto(c, "rwait")
          /\ UNCHANGED readers
    /\ dec' = [dec EXCEPT ![c] = d]
    /\ cur' = [cur EXCEPT ![c] = s]
    /\ kind' = [kind EXCEPT ![c] = k]
    /\ st' = [st EXCEPT ![s] = "reserved"]
    /\ UNCHANGED <<life, closed, writer, wg, platform, sdec, owner, tracked>>

BadCheck(c) ==                                 \* forgets the test of d.closed
    /\ pc[c] = "check"
    /\ Goto(c, "opening")
    /\ st' = [st EXCEPT ![cur[c]] = "opening"]
    /\ sdec' = [sdec EXCEPT ![cur[c]] = dec[c]]
    /\ UNCHANGED <<life, closed, lockVars, wg, platform, dec, cur, kind,
                   owner, tracked>>

\* if d.closed { return ErrClosed }
Check(c) ==
    /\ pc[c] = "check"
    /\ \/ /\ closed[dec[c]]
          /\ Goto(c, "runlock")
          /\ DropStream(cur[c])
       \/ /\ ~closed[dec[c]]
          /\ Goto(c, "opening")
          /\ st' = [st EXCEPT ![cur[c]] = "opening"]
          /\ sdec' = [sdec EXCEPT ![cur[c]] = dec[c]]
    /\ UNCHANGED <<life, closed, lockVars, wg, platform, dec, cur, kind,
                   owner, tracked>>

\* openStream or openStreamFile returned an error.
OpenFail(c) ==
    /\ pc[c] = "opening"
    /\ Goto(c, "runlock")
    /\ DropStream(cur[c])
    /\ UNCHANGED <<life, closed, lockVars, wg, platform, dec, cur, kind,
                   owner, tracked>>

BadOpenOK(c) ==                                \* unlocks d.mu, then tracks
    /\ pc[c] = "opening"
    /\ Goto(c, IF kind[c] = "pcm" THEN "draining" ELSE "tracking")
    /\ st' = [st EXCEPT ![cur[c]] = "live"]
    /\ readers' = IF kind[c] = "pcm" THEN readers
                  ELSE [readers EXCEPT ![dec[c]] = @ \ {c}]
    /\ UNCHANGED <<life, closed, writer, wg, platform, dec, cur, kind, sdec,
                   owner, tracked>>

\* The backend object exists.  The buffered calls drain it, the streaming
\* ones wrap it in its limits and track it.
OpenOK(c) ==
    /\ pc[c] = "opening"
    /\ Goto(c, IF kind[c] = "pcm" THEN "draining" ELSE "tracking")
    /\ st' = [st EXCEPT ![cur[c]] = "live"]
    /\ UNCHANGED <<life, closed, lockVars, wg, platform, dec, cur, kind, sdec,
                   owner, tracked>>

\* drain: read to the end or to the first error, then the deferred s.Close,
\* which finds no done function.
Drain(c) ==
    /\ pc[c] = "draining"
    /\ Goto(c, "runlock")
    /\ DropStream(cur[c])
    /\ UNCHANGED <<life, closed, lockVars, wg, platform, dec, cur, kind,
                   owner, tracked>>

\* track: d.streams.Add(1), s.done = d.streams.Done.  From here the goroutine
\* owns the Stream.
Track(c) ==
    /\ pc[c] = "tracking"
    /\ Goto(c, "runlock")
    /\ wg' = [wg EXCEPT ![dec[c]] = @ + 1]
    /\ tracked' = [tracked EXCEPT ![cur[c]] = TRUE]
    /\ owner' = [owner EXCEPT ![cur[c]] = c]
    /\ UNCHANGED <<life, closed, lockVars, platform, dec, cur, kind, st, sdec>>

\* The deferred d.mu.RUnlock.
RUnlock(c) ==
    /\ pc[c] = "runlock"
    /\ readers' = [readers EXCEPT ![dec[c]] = @ \ {c}]
    /\ Return(c)
    /\ UNCHANGED <<life, closed, writer, wg, platform, streamVars>>

-----------------------------------------------------------------------------
(* Stream.Close, by the goroutine that owns the Stream, any number of      *)
(* times.                                                                  *)

\* s.r.Close: the backend objects are gone when it returns.
CloseStream(c, s) ==
    /\ pc[c] = "idle"
    /\ owner[s] = c
    /\ st[s] \in {"live", "released"}
    /\ st' = [st EXCEPT ![s] = "released"]
    /\ cur' = [cur EXCEPT ![c] = s]
    /\ Goto(c, "sdone")
    /\ UNCHANGED <<life, closed, lockVars, wg, platform, dec, kind, sdec,
                   owner, tracked>>

BadDone(c) ==                                  \* keeps s.done set
    /\ pc[c] = "sdone"
    /\ Return(c)
    /\ tracked[cur[c]]
    /\ wg' = [wg EXCEPT ![sdec[cur[c]]] = @ - 1]
    /\ UNCHANGED <<life, closed, lockVars, platform, streamVars>>

BadDoneLocked(c) ==                            \* counts down under the lock
    /\ pc[c] = "sdone"
    /\ writer[sdec[cur[c]]] = None
    /\ Return(c)
    /\ tracked' = [tracked EXCEPT ![cur[c]] = FALSE]
    /\ wg' = [wg EXCEPT ![sdec[cur[c]]] = IF tracked[cur[c]] THEN @ - 1 ELSE @]
    /\ UNCHANGED <<life, closed, lockVars, platform, st, sdec, owner>>

\* if s.done != nil { s.done(); s.done = nil }
Done(c) ==
    /\ pc[c] = "sdone"
    /\ Return(c)
    /\ \/ /\ tracked[cur[c]]
          /\ wg' = [wg EXCEPT ![sdec[cur[c]]] = @ - 1]
          /\ tracked' = [tracked EXCEPT ![cur[c]] = FALSE]
       \/ /\ ~tracked[cur[c]]
          /\ UNCHANGED <<wg, tracked>>
    /\ UNCHANGED <<life, closed, lockVars, platform, st, sdec, owner>>

\* The owner lets go of a Stream it has closed.  Its slot can be reused.
Forget(c, s) ==
    /\ pc[c] = "idle"
    /\ owner[s] = c
    /\ st[s] = "released"
    /\ DropStream(s)
    /\ owner' = [owner EXCEPT ![s] = None]
    /\ UNCHANGED <<life, closed, lockVars, wg, platform, callVars, tracked>>

-----------------------------------------------------------------------------
(* Decoder.Close. *)

Close(c, d) ==
    /\ MayCall(c)
    /\ life[d] # "absent"
    /\ dec' = [dec EXCEPT ![c] = d]
    /\ Goto(c, "wwait")
    /\ UNCHANGED <<life, closed, lockVars, wg, platform, cur, kind, streamVars>>

\* d.mu.Lock, first half: exclude other writers and stop new readers.
Announce(c) ==
    /\ pc[c] = "wwait"
    /\ writer[dec[c]] = None
    /\ writer' = [writer EXCEPT ![dec[c]] = c]
    /\ Goto(c, "wlock")
    /\ UNCHANGED <<life, closed, readers, wg, platform, dec, cur, kind,
                   streamVars>>

\* d.mu.Lock, second half: wait for the readers there were.
Lock(c) ==
    /\ pc[c] = "wlock"
    /\ readers[dec[c]] = {}
    /\ Goto(c, "wcheck")
    /\ UNCHANGED <<life, closed, lockVars, wg, platform, dec, cur, kind,
                   streamVars>>

\* if d.closed { return nil }; d.closed = true
CloseCheck(c) ==
    /\ pc[c] = "wcheck"
    /\ \/ /\ closed[dec[c]]
          /\ Goto(c, "unlock")
          /\ UNCHANGED closed
       \/ /\ ~closed[dec[c]]
          /\ Goto(c, "waitstreams")
          /\ closed' = [closed EXCEPT ![dec[c]] = TRUE]
    /\ UNCHANGED <<life, lockVars, wg, platform, dec, cur, kind, streamVars>>

BadWaitStreams(c) ==                           \* does not wait
    /\ pc[c] = "waitstreams"
    /\ Goto(c, "end")
    /\ UNCHANGED <<life, closed, lockVars, wg, platform, dec, cur, kind,
                   streamVars>>

BadUnlockThenWait(c) ==                        \* waits without the lock
    /\ pc[c] = "waitstreams"
    /\ writer' = [writer EXCEPT ![dec[c]] = None]
    /\ wg[dec[c]] = 0
    /\ Goto(c, "end")
    /\ UNCHANGED <<life, closed, readers, wg, platform, dec, cur, kind,
                   streamVars>>

\* d.streams.Wait
WaitStreams(c) ==
    /\ pc[c] = "waitstreams"
    /\ wg[dec[c]] = 0
    /\ Goto(c, "end")
    /\ UNCHANGED <<life, closed, lockVars, wg, platform, dec, cur, kind,
                   streamVars>>

\* end(), whether or not it reports an error.
End(c) ==
    /\ pc[c] = "end"
    /\ Goto(c, "unlock")
    /\ life' = [life EXCEPT ![dec[c]] = "ended"]
    /\ platform' = platform - 1
    /\ UNCHANGED <<closed, lockVars, wg, dec, cur, kind, streamVars>>

\* Goroutines whose RLock waits for the writer of decoder d.
Blocked(d) == {c \in Callers : pc[c] = "rwait" /\ dec[c] = d}

\* The deferred d.mu.Unlock: every reader that waited has the lock now.
Unlock(c) ==
    /\ pc[c] = "unlock"
    /\ writer' = [writer EXCEPT ![dec[c]] = None]
    /\ readers' = [readers EXCEPT ![dec[c]] = Blocked(dec[c])]
    /\ pc' = [e \in Callers |-> IF e = c THEN "idle"
                                ELSE IF e \in Blocked(dec[c]) THEN "check"
                                ELSE pc[e]]
    /\ dec' = [dec EXCEPT ![c] = None]
    /\ UNCHANGED <<life, closed, wg, platform, cur, kind, streamVars>>

-----------------------------------------------------------------------------
\* The steps of a call under way, which the goroutine takes by itself.
Running(c) ==
    \/ Check(c) \/ OpenFail(c) \/ OpenOK(c) \/ Drain(c) \/ Track(c)
    \/ RUnlock(c) \/ Done(c) \/ Announce(c) \/ Lock(c) \/ CloseCheck(c)
    \/ WaitStreams(c) \/ End(c) \/ Unlock(c)

\* The calls a goroutine may begin.
Calling(c) ==
    \/ \E d \in Decoders : New(c, d) \/ Close(c, d)
    \/ \E d \in Decoders, k \in Kind, s \in Streams : RLock(c, d, k, s)
    \/ \E s \in Streams : CloseStream(c, s) \/ Forget(c, s)

Next == \E c \in Callers : Running(c) \/ Calling(c)

Spec == Init /\ [][Next]_vars

\* Goroutines are scheduled, a mutex is handed on to every goroutine that
\* waits for it, a backend eventually opens or fails and reaches the end of
\* its audio, and, as the API demands, a Stream is eventually closed.
Fairness ==
    \A c \in Callers :
        /\ WF_vars(Running(c))
        /\ SF_vars(Announce(c))
        /\ SF_vars(\E s \in OpenStreams(c) : CloseStream(c, s))

FairSpec == Spec /\ Fairness

-----------------------------------------------------------------------------
(* Properties. *)

\* The write lock of d is held, not just announced.
Locked(d) ==
    \E c \in Callers : writer[d] = c /\ pc[c] \in WritePC \ {"wlock"}

\* Close holds d.mu alone: no decode or open is in flight while the closed
\* flag is set, the streams are awaited or the platform is shut down.
CloseExcludesCalls == \A d \in Decoders : Locked(d) => readers[d] = {}

\* Once end() has run for a decoder no backend object opened on it exists and
\* none is being opened: the platform is never torn down under a decode, an
\* open or an unclosed Stream, whatever the goroutines interleave.
NoTeardownUnderUse ==
    \A s \in Streams :
        st[s] \in {"opening", "live"} => life[sdec[s]] = "started"

\* start() and end() pair up one to one per Decoder that exists, so closing
\* one Decoder, or closing it twice, never takes the platform from another.
PlatformBalanced ==
    platform = Cardinality({d \in Decoders : life[d] = "started"})

\* The WaitGroup of a decoder counts exactly the Streams of it that are not
\* closed: Close can neither miss one nor wait for one that is gone.
WaitGroupExact ==
    \A d \in Decoders :
        wg[d] = Cardinality({s \in Streams : tracked[s] /\ sdec[s] = d})

\* Close, also a second and concurrent one, returns only once the platform
\* state is released: whoever finds d.mu free and d.closed set is past end().
CloseMeansReleased ==
    \A d \in Decoders :
        closed[d] /\ writer[d] = None => life[d] = "ended"

\* Add never runs once Close has begun to Wait: the WaitGroup is not reused
\* concurrently with its Wait, the race the comment on track rules out.
AddBeforeWait ==
    [][\A d \in Decoders : wg'[d] > wg[d] => ~closed[d]]_vars

\* Nobody is stuck in a cycle through Close: a goroutine whose call waits for
\* the writer of d owns no open Stream that this writer's Close waits for.
NoCloseCycle ==
    \A c \in Callers :
        pc[c] = "rwait" => \A s \in OpenStreams(c) : sdec[s] # dec[c]

\* A goroutine calls a decoder while it owns a Stream it has not closed, other
\* than the one this very call is about to return.
Nested ==
    \E c \in Callers :
        pc[c] \notin {"idle", "sdone"} /\ OpenStreams(c) \ {cur[c]} # {}

\* Unless goroutines nest calls like that, every call returns: a Close that
\* waits for the Streams that others have open, a decode or open that arrives
\* during a Close, and the Close of a Stream.
EveryCallReturns ==
    []~Nested => \A c \in Callers : pc[c] # "idle" ~> pc[c] = "idle"

-----------------------------------------------------------------------------
(* The inductive invariant behind the safety properties. *)

\* pc values in which a call holds a Stream variable nobody else knows.
HoldPC == {"rwait", "check", "opening", "draining", "tracking"}
DecoderPC == {"rwait", "wwait"} \cup ReadPC \cup WritePC

\* The lock is held by exactly the goroutines whose code says so.
LockInv ==
    /\ \A c \in Callers, d \in Decoders :
          /\ c \in readers[d] <=> pc[c] \in ReadPC /\ dec[c] = d
          /\ writer[d] = c <=> pc[c] \in WritePC /\ dec[c] = d
    /\ \A c \in Callers :
          /\ pc[c] \in DecoderPC => dec[c] \in Decoders
          /\ pc[c] \in WritePC \ {"wlock"} => readers[dec[c]] = {}

\* A Stream not yet returned belongs to one call, which knows its state; a
\* Stream in use is tracked or in such a call.
HoldInv ==
    /\ \A c \in Callers :
          pc[c] \in HoldPC =>
            /\ cur[c] \in Streams /\ owner[cur[c]] = None /\ ~tracked[cur[c]]
            /\ pc[c] \in {"rwait", "check"} => st[cur[c]] = "reserved"
            /\ pc[c] = "opening" => st[cur[c]] = "opening"
            /\ pc[c] \in {"draining", "tracking"} => st[cur[c]] = "live"
            /\ pc[c] \in {"opening", "draining", "tracking"} =>
                  sdec[cur[c]] = dec[c]
    /\ \A c, e \in Callers :
          pc[c] \in HoldPC /\ pc[e] \in HoldPC /\ cur[c] = cur[e] => c = e
    /\ \A s \in Streams :
          st[s] \in {"reserved", "opening", "live"} /\ ~tracked[s] =>
            \E c \in Callers : pc[c] \in HoldPC /\ cur[c] = s

\* A Stream that was returned is tracked until its owner has closed it.
OwnerInv ==
    /\ \A s \in Streams :
          /\ owner[s] # None => st[s] \in {"live", "released"} /\ sdec[s] \in Decoders
          /\ owner[s] # None /\ st[s] = "live" => tracked[s]
          /\ tracked[s] => owner[s] # None
          /\ tracked[s] /\ st[s] = "released" =>
                pc[owner[s]] = "sdone" /\ cur[owner[s]] = s
    /\ \A c \in Callers :
          pc[c] = "sdone" =>
            cur[c] \in Streams /\ st[cur[c]] = "released" /\ owner[cur[c]] = c

\* How far the closing of a decoder is, by the goroutine that closes it.
LifeInv ==
    /\ \A d \in Decoders :
          /\ closed[d] => life[d] # "absent"
          /\ life[d] = "ended" => closed[d]
          /\ closed[d] /\ life[d] = "started" =>
                \E c \in Callers : pc[c] \in {"waitstreams", "end"} /\ dec[c] = d
    /\ \A c \in Callers :
          /\ pc[c] \in DecoderPC => life[dec[c]] # "absent"
          /\ pc[c] \in {"opening", "draining", "tracking"} => ~closed[dec[c]]
          /\ pc[c] \in {"waitstreams", "end"} =>
                closed[dec[c]] /\ life[dec[c]] = "started"
          /\ pc[c] = "end" => wg[dec[c]] = 0
          /\ pc[c] = "unlock" => life[dec[c]] = "ended"

IInv ==
    /\ TypeOK /\ LockInv /\ HoldInv /\ OwnerInv
    /\ WaitGroupExact /\ PlatformBalanced /\ LifeInv /\ NoTeardownUnderUse

-----------------------------------------------------------------------------
\* The Decoder keeps the promises of Lifecycle.  A stream uses the platform
\* from the moment its backend is being opened until it is released.
PhaseOf(d) ==
    CASE life[d] = "absent" -> "absent"
      [] life[d] = "ended" -> "closed"
      [] life[d] = "started" /\ closed[d] -> "closing"
      [] OTHER -> "open"

UsersOf(d) == {s \in Streams : sdec[s] = d /\ st[s] \in {"opening", "live"}}

L == INSTANCE Lifecycle WITH
        phase <- [d \in Decoders |-> PhaseOf(d)],
        users <- [d \in Decoders |-> UsersOf(d)]

ImplementsLifecycle == L!Spec
=============================================================================
