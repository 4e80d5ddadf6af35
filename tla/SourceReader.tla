---------------------------- MODULE SourceReader ----------------------------
(***************************************************************************)
(* One streaming decode on Windows: mf.Stream (Read, Close, release) and   *)
(* the SourceReader it reads through, both of internal/mf/mf.go, with the  *)
(* COM callback of internal/mf/callback.go through which Media             *)
(* Foundation, on its own worker thread, answers the asynchronous reads.   *)
(*                                                                         *)
(* Two actors: the goroutine that owns the Stream (pc) and the worker.     *)
(* The worker may stop answering (silent), and answer late all the same.   *)
(* PCM is counted in units; a sample is its number in the order in which   *)
(* Media Foundation hands samples out, with a timestamp and a size.        *)
(***************************************************************************)
EXTENDS Naturals, Sequences

CONSTANTS
    MaxSamples,     \* bound: samples Media Foundation hands out
    Times,          \* timestamps it gives them
    Sizes,          \* sizes it gives them, 0 included
    ReadSizes,      \* lengths of the slices passed to Read, not 0
    MaxEmpty,       \* maxEmptyReads
    HasDeadline,    \* was SetDeadline called with a non-zero time?
    MaxOutstanding  \* bound: unanswered reads and answers not taken

ASSUME BoundsAssumption ==
    /\ MaxSamples \in Nat /\ MaxEmpty \in Nat /\ MaxOutstanding \in Nat \ {0}
    /\ Sizes \subseteq Nat /\ ReadSizes \subseteq Nat \ {0}
    /\ HasDeadline \in BOOLEAN

VARIABLES
    pc,             \* where the owner is in Read or in Close
    want,           \* len(p) of the Read under way
    empty,          \* local of next: unproductive reads so far
    sample, buffer, \* SourceReader.sample (0 is nil), buffer # nil
    left,           \* len(SourceReader.data)
    prev,           \* <<>> until hasPrev, then <<prevTimestamp>>
    gaveUp,         \* SourceReader.gaveUp
    ch,             \* the channel callback.ch, of capacity 1
    holders,        \* who holds a reference to the callback
    pinned,         \* the callback is pinned
    outstanding,    \* ReadSampleAsync calls not answered yet
    silent,         \* the worker did not answer within readTimeout
    late,           \* the deadline has passed
    ended,          \* the worker has reported the end of the stream
    made,           \* samples handed out so far
    pcm,            \* history: the PCM of the usable ones, as in out
    refs,           \* refs[i]: references to sample i beyond the worker's
    locked,         \* media buffers locked and not yet released
    out,            \* the PCM the owner received: one sample number per unit
    fate            \* the first error a Read returned, "none" so far

readerVars == <<sample, buffer, left, prev>>
workerVars == <<silent, ended, made, pcm>>
cbVars == <<holders, pinned>>
nativeVars == <<refs, locked>>
vars == <<pc, want, empty, readerVars, gaveUp, ch, cbVars, outstanding,
          workerVars, late, nativeVars, out, fate>>

Ids == 1..MaxSamples

\* A delivery: "error" is a failed status, the error flag or a changed media
\* type, "end" the end-of-stream flag.  Sample 0 is nil.  A sample can come
\* with any of them.
Kind == {"ok", "end", "error"}
Delivery == [kind : Kind, id : 0..MaxSamples]

ReadPC == {"request", "arm", "wait"}
ClosePC == {"relreader", "relattributes", "relcallback"}

TypeOK ==
    /\ pc \in {"idle", "closed"} \cup ReadPC \cup ClosePC
    /\ want \in ReadSizes \cup {0}
    /\ empty \in 0..(MaxEmpty + 1)
    /\ sample \in 0..MaxSamples /\ buffer \in BOOLEAN /\ left \in Nat
    /\ prev \in {<<>>} \cup {<<t>> : t \in Times}
    /\ gaveUp \in BOOLEAN
    /\ ch \in Seq(Delivery) /\ Len(ch) <= 1
    /\ holders \subseteq {"stream", "attributes", "reader"}
    /\ pinned \in BOOLEAN
    /\ outstanding \in 0..MaxOutstanding
    /\ silent \in BOOLEAN /\ late \in BOOLEAN /\ ended \in BOOLEAN
    /\ made \in Seq([time : Times, size : Sizes, kind : Kind]) /\ Len(made) <= MaxSamples
    /\ pcm \in Seq(Ids)
    /\ refs \in [Ids -> Nat] /\ locked \in Nat
    /\ out \in Seq(Ids)
    /\ fate \in {"none", "eof", "error", "timeout"}

\* A Stream that Open has returned.  The stream, the attribute store and the
\* source reader each hold the callback.
Init ==
    /\ pc = "idle" /\ want = 0 /\ empty = 0
    /\ sample = 0 /\ buffer = FALSE /\ left = 0 /\ prev = <<>>
    /\ gaveUp = FALSE
    /\ ch = <<>>
    /\ holders = {"stream", "attributes", "reader"} /\ pinned = TRUE
    /\ outstanding = 0
    /\ silent = FALSE /\ late = FALSE /\ ended = FALSE /\ made = <<>>
    /\ pcm = <<>>
    /\ refs = [i \in Ids |-> 0] /\ locked = 0
    /\ out = <<>> /\ fate = "none"

-----------------------------------------------------------------------------
(* Read. *)

\* Read returns to the owner, with PCM or with the error r.
ReturnData == pc' = "idle" /\ want' = 0 /\ empty' = 0 /\ fate' = fate

Return(r) ==
    /\ pc' = "idle" /\ want' = 0 /\ empty' = 0
    /\ fate' = IF fate = "none" THEN r ELSE fate

\* Releasing nil is a no-op.
Released(f, i) == [j \in Ids |-> IF j = i THEN f[j] - 1 ELSE f[j]]

\* copyInto with n units of sample i in data: copy what fits in p, and once
\* all is copied unlock and release the buffer and release the sample.
CopyInto(i, n, len, rfs, lck) ==
    LET c == IF n < len THEN n ELSE len IN
    /\ out' = out \o [j \in 1..c |-> i]
    /\ left' = n - c
    /\ IF c = n
       THEN sample' = 0 /\ buffer' = FALSE /\ refs' = Released(rfs, i)
            /\ locked' = lck - 1
       ELSE sample' = i /\ buffer' = TRUE /\ refs' = rfs /\ locked' = lck
    /\ ReturnData

\* The limits around the stream look at the deadline before they read.
Expired == HasDeadline /\ late

ReadExpired ==
    /\ pc = "idle" /\ Expired
    /\ Return("error")
    /\ UNCHANGED <<readerVars, gaveUp, ch, cbVars, outstanding, workerVars,
                   late, nativeVars, out>>

\* Residual data is served before more is requested.
ReadResidual(n) ==
    /\ pc = "idle" /\ ~Expired /\ left > 0
    /\ CopyInto(sample, left, n, refs, locked)
    /\ UNCHANGED <<prev, gaveUp, ch, cbVars, outstanding, workerVars, late>>

\* Otherwise next is called.  A Read into an empty slice, or of a closed stream,
\* returns before all this and changes nothing.
ReadMore(n) ==
    /\ pc = "idle" /\ ~Expired /\ left = 0
    /\ outstanding + Len(ch) < MaxOutstanding
    /\ pc' = "request" /\ want' = n
    /\ UNCHANGED <<empty, readerVars, gaveUp, ch, cbVars, outstanding,
                   workerVars, late, nativeVars, out, fate>>

\* The top of the loop in next: the bound, then ReadSampleAsync, which can
\* itself fail.
Request ==
    /\ pc = "request"
    /\ \/ /\ Return("error")
          /\ UNCHANGED outstanding
       \/ /\ empty <= MaxEmpty
          /\ outstanding' = outstanding + 1
          /\ pc' = "arm"
          /\ UNCHANGED <<want, empty, fate>>
    /\ UNCHANGED <<readerVars, gaveUp, ch, cbVars, workerVars, late,
                   nativeVars, out>>

BadArm ==                                      \* forgets gaveUp
    /\ pc = "arm"
    /\ \/ Expired /\ Return("timeout") /\ UNCHANGED gaveUp
       \/ ~Expired /\ pc' = "wait" /\ UNCHANGED <<want, empty, fate, gaveUp>>
    /\ UNCHANGED <<readerVars, ch, cbVars, outstanding, workerVars, late,
                   nativeVars, out>>

\* How long to wait: the read is given up at once if no time remains.
Arm ==
    /\ pc = "arm"
    /\ \/ Expired /\ Return("timeout") /\ gaveUp' = TRUE
       \/ ~Expired /\ pc' = "wait" /\ UNCHANGED <<want, empty, fate, gaveUp>>
    /\ UNCHANGED <<readerVars, ch, cbVars, outstanding, workerVars, late,
                   nativeVars, out>>

\* The timer of callback.wait fires: readTimeout passed without an answer, or
\* the deadline did.  The select may take it although an answer is there.
Timeout ==
    /\ pc = "wait"
    /\ silent \/ Expired
    /\ Return("timeout")
    /\ gaveUp' = TRUE
    /\ UNCHANGED <<readerVars, ch, cbVars, outstanding, workerVars, late,
                   nativeVars, out>>

\* callback.wait receives the delivery d.
Take(d) == pc = "wait" /\ ch # <<>> /\ d = Head(ch) /\ ch' = Tail(ch)

\* A terminal delivery ends the read.  The sample that came with it goes.
TakeTerminal(d) ==
    /\ Take(d)
    /\ d.kind \in {"error", "end"}
    /\ refs' = Released(refs, d.id)
    /\ Return(IF d.kind = "end" THEN "eof" ELSE "error")
    /\ UNCHANGED <<readerVars, gaveUp, cbVars, outstanding, workerVars, late,
                   locked, out>>

BadTakeNothing(d) ==                           \* does not count the read
    /\ Take(d)
    /\ d.kind = "ok" /\ d.id = 0
    /\ pc' = "request"
    /\ UNCHANGED <<want, empty, readerVars, gaveUp, cbVars, outstanding,
                   workerVars, late, nativeVars, out, fate>>

TakeNothing(d) ==
    /\ Take(d)
    /\ d.kind = "ok" /\ d.id = 0
    /\ empty' = empty + 1
    /\ pc' = "request"
    /\ UNCHANGED <<want, readerVars, gaveUp, cbVars, outstanding, workerVars,
                   late, nativeVars, out, fate>>

\* The sample has no timestamp, or, once the sample is accepted, its buffer
\* cannot be obtained or locked.  next lets go of what it has and fails; the
\* last two have already updated the previous timestamp.
TakeBroken(d) ==
    /\ Take(d)
    /\ d.kind = "ok" /\ d.id # 0
    /\ refs' = Released(refs, d.id)
    /\ \/ UNCHANGED prev
       \/ LET t == made[d.id].time IN prev # <<t>> /\ prev' = <<t>>
    /\ Return("error")
    /\ UNCHANGED <<sample, buffer, left, gaveUp, cbVars, outstanding,
                   workerVars, late, locked, out>>

BadTakeRepeat(d) ==                            \* skips without releasing
    /\ Take(d)
    /\ d.kind = "ok" /\ d.id # 0
    /\ prev = <<made[d.id].time>>
    /\ empty' = empty + 1
    /\ pc' = "request"
    /\ UNCHANGED <<want, readerVars, gaveUp, cbVars, outstanding, workerVars,
                   late, nativeVars, out, fate>>

\* A sample that repeats the previous timestamp is skipped.
TakeRepeat(d) ==
    /\ Take(d)
    /\ d.kind = "ok" /\ d.id # 0
    /\ prev = <<made[d.id].time>>
    /\ refs' = Released(refs, d.id)
    /\ empty' = empty + 1
    /\ pc' = "request"
    /\ UNCHANGED <<want, readerVars, gaveUp, cbVars, outstanding, workerVars,
                   late, locked, out, fate>>

BadTakeSample(d) ==                            \* hasPrev is never set
    /\ Take(d)
    /\ d.kind = "ok" /\ d.id # 0
    /\ CopyInto(d.id, made[d.id].size, want, refs, locked + 1)
    /\ UNCHANGED <<prev, gaveUp, cbVars, outstanding, workerVars, late>>

\* A usable sample: its buffer is locked and copied from.
TakeSample(d) ==
    /\ Take(d)
    /\ d.kind = "ok" /\ d.id # 0
    /\ prev # <<made[d.id].time>>
    /\ prev' = <<made[d.id].time>>
    /\ CopyInto(d.id, made[d.id].size, want, refs, locked + 1)
    /\ UNCHANGED <<gaveUp, cbVars, outstanding, workerVars, late>>

Receive ==
    \E d \in Delivery :
        \/ TakeTerminal(d) \/ TakeNothing(d) \/ TakeBroken(d)
        \/ TakeRepeat(d) \/ TakeSample(d)

-----------------------------------------------------------------------------
(* Close. *)

\* Close, then SourceReader.Close: unlock and release what a read left.  A
\* reader that was given up on is dropped, not released.
BadClose ==                                    \* forgets the residual sample
    /\ pc = "idle"
    /\ pc' = IF gaveUp THEN "relattributes" ELSE "relreader"
    /\ sample' = 0 /\ buffer' = FALSE /\ left' = 0
    /\ UNCHANGED <<want, empty, prev, gaveUp, ch, cbVars, outstanding,
                   workerVars, late, nativeVars, out, fate>>

Close ==
    /\ pc = "idle"
    /\ pc' = IF gaveUp THEN "relattributes" ELSE "relreader"
    /\ locked' = IF buffer THEN locked - 1 ELSE locked
    /\ refs' = Released(refs, sample)
    /\ sample' = 0 /\ buffer' = FALSE /\ left' = 0
    /\ UNCHANGED <<want, empty, prev, gaveUp, ch, cbVars, outstanding,
                   workerVars, late, out, fate>>

\* callback.Release by holder h: the last one drains the channel and unpins.
BadReleaseCallback(h) ==                       \* as if h were the last one
    /\ holders' = holders \ {h}
    /\ pinned' = FALSE
    /\ ch' = <<>>
    /\ refs' = IF ch = <<>> THEN refs ELSE Released(refs, Head(ch).id)

ReleaseCallback(h) ==
    /\ holders' = holders \ {h}
    /\ IF holders = {h}
       THEN /\ pinned' = FALSE
            /\ ch' = <<>>
            /\ refs' = IF ch = <<>> THEN refs ELSE Released(refs, Head(ch).id)
       ELSE UNCHANGED <<pinned, ch, refs>>

\* reader.Release waits until Media Foundation has finished what it does.
ReleaseReader ==
    /\ pc = "relreader"
    /\ outstanding = 0
    /\ pc' = "relattributes"
    /\ ReleaseCallback("reader")
    /\ UNCHANGED <<want, empty, readerVars, gaveUp, outstanding, workerVars,
                   late, locked, out, fate>>

\* The attribute store, then the byte stream and the memory stream.
ReleaseAttributes ==
    /\ pc = "relattributes"
    /\ pc' = "relcallback"
    /\ ReleaseCallback("attributes")
    /\ UNCHANGED <<want, empty, readerVars, gaveUp, outstanding, workerVars,
                   late, locked, out, fate>>

ReleaseStream ==
    /\ pc = "relcallback"
    /\ pc' = "closed"
    /\ ReleaseCallback("stream")
    /\ UNCHANGED <<want, empty, readerVars, gaveUp, outstanding, workerVars,
                   late, locked, out, fate>>

-----------------------------------------------------------------------------
(* The worker thread of Media Foundation and the clock. *)

\* callback.onReadSample: the sample is retained, and released again if the
\* channel is full.
OnReadSample(d) ==
    \/ /\ ch = <<>>
       /\ ch' = <<d>>
       /\ refs' = [i \in Ids |-> IF i = d.id THEN refs[i] + 1 ELSE refs[i]]
    \/ /\ ch # <<>>
       /\ UNCHANGED <<ch, refs>>

\* What a reader must serve: a sample with no terminal flag that does not
\* repeat the timestamp of the one before it.
Usable(kind, t) == kind = "ok" /\ (made # <<>> => made[Len(made)].time # t)

\* The worker answers a read, late if it was silent.
Deliver ==
    /\ outstanding > 0
    /\ \E d \in Delivery, t \in Times, n \in Sizes :
          /\ ended => d.kind = "end" /\ d.id = 0
          /\ d.id \in {0, Len(made) + 1}
          /\ made' = IF d.id = 0 THEN made
                     ELSE Append(made, [time |-> t, size |-> n, kind |-> d.kind])
          /\ pcm' = IF d.id # 0 /\ Usable(d.kind, t)
                    THEN pcm \o [j \in 1..n |-> d.id] ELSE pcm
          /\ ended' = (ended \/ d.kind = "end")
          /\ OnReadSample(d)
    /\ outstanding' = outstanding - 1
    /\ silent' = FALSE
    /\ UNCHANGED <<pc, want, empty, readerVars, gaveUp, cbVars, late, locked,
                   out, fate>>

\* readTimeout goes by without an answer.
Stall ==
    /\ outstanding > 0 /\ ~silent
    /\ silent' = TRUE
    /\ UNCHANGED <<pc, want, empty, readerVars, gaveUp, ch, cbVars,
                   outstanding, ended, made, pcm, late, nativeVars, out, fate>>

DeadlinePasses ==
    /\ HasDeadline /\ ~late
    /\ late' = TRUE
    /\ UNCHANGED <<pc, want, empty, readerVars, gaveUp, ch, cbVars,
                   outstanding, workerVars, nativeVars, out, fate>>

-----------------------------------------------------------------------------
Reading == Request \/ Arm \/ Timeout \/ Receive

Closing == ReleaseReader \/ ReleaseAttributes \/ ReleaseStream

Calling ==
    \/ ReadExpired \/ Close
    \/ \E n \in ReadSizes : ReadResidual(n) \/ ReadMore(n)

Next == Reading \/ Closing \/ Calling \/ Deliver \/ Stall \/ DeadlinePasses

Spec == Init /\ [][Next]_vars

\* The goroutine and its timer run, and the worker answers unless it has
\* stopped answering.
Fairness ==
    /\ WF_vars(Reading \/ Closing)
    /\ WF_vars(~silent /\ Deliver)

FairSpec == Spec /\ Fairness

-----------------------------------------------------------------------------
(* Properties. *)

\* References to sample i are held by the SourceReader while it serves the
\* sample, and by the channel while the sample is undelivered; a buffer stays
\* locked exactly as long as it is served.  No branch of next, copyInto, Close
\* or the callback releases twice or forgets to.
Undelivered == {ch[k].id : k \in DOMAIN ch}

RefsExact ==
    /\ TypeOK
    /\ \A i \in Ids :
          refs[i] = (IF sample = i THEN 1 ELSE 0)
                    + (IF i \in Undelivered THEN 1 ELSE 0)
    /\ locked = IF buffer THEN 1 ELSE 0
    /\ buffer <=> sample # 0

\* After Close nothing native is held, unless the reader was given up on: then
\* at most the one sample that a late answer left in the channel.
ClosedHoldsNothing ==
    pc = "closed" =>
        /\ sample = 0 /\ locked = 0
        /\ ~gaveUp => ~pinned /\ \A i \in Ids : refs[i] = 0
        /\ \A i \in Ids : refs[i] > 0 => Undelivered = {i} /\ refs[i] = 1

\* Media Foundation never calls an object that is gone: the callback stays
\* referenced and pinned while an answer may still come, closed stream or not.
CallbackAlive == outstanding > 0 => pinned /\ holders # {}

\* Close never waits for Media Foundation: it releases a reader only if every
\* read was answered, and drops it otherwise.
CloseNeverBlocks == pc = "relreader" => outstanding = 0

\* Until a Read fails, what the owner reads is what was made, in order,
\* nothing twice, nothing left out, however its reads cut the samples up; and
\* a first error that is io.EOF comes only once all of it was read.
ReaderFate ==
    IF pc \in ClosePC \cup {"closed"} THEN "closed"
    ELSE [none |-> "open", eof |-> "eof", error |-> "failed",
          timeout |-> "failed"][fate]

R == INSTANCE ReadCloser WITH
        audio <- pcm, whole <- ended, served <- out, fate <- ReaderFate

ImplementsReadCloser == R!Spec

\* Every Read returns, whatever the decoder does: it answers with nothing
\* usable again and again, stops answering, or answers late.
ReadReturns == pc \in ReadPC ~> pc = "idle"
=============================================================================
