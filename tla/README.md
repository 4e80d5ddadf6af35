# A TLA+ development of go-nativeaudio

This directory holds TLA+ specifications of go-nativeaudio, the
configurations with which TLC checks them on small instances, and theorems
about every component that TLAPS proves for every instance. File and line references
are to the repository; `PROJECT.json` maps each definition to the lines it
models and lists every run, hazard, finding and theorem.

go-nativeaudio decodes compressed audio to s16le PCM with what the platform
offers: Media Foundation on Windows, AudioToolbox on macOS, ffmpeg elsewhere.
There is little code and much protocol: locks, a WaitGroup, reference counts
shared with native code, callbacks on foreign threads, child processes and
their pipes, deadlines. That protocol is what is modelled. Audio is counted
and numbered, never computed.

## The system

| Part | State | Operations | Talks to |
|---|---|---|---|
| `Decoder`, audio.go | `mu`, `closed`, the WaitGroup `streams`, `limits`; the platform started by `New` | `New`, `Decode`, `DecodeFile`, `Stream`, `StreamFile`, `Close` | the backend through `start`, `end`, `openStream`, `openStreamFile` |
| `Stream`, `Limits`, stream.go | the backend reader, `done`; bytes read, deadline | `Read`, `Close` | the `Decoder` through `done`, the backend through `SetDeadline` |
| Windows backend, internal/mf | native objects and their counts; the sample being served, `gaveUp`; the callback's channel and count; the entry points | `Open`, `Read`, `Close`, `MFStartup`, `MFShutdown` | Media Foundation, which answers reads on a thread of its own |
| ffmpeg backend, audio_ffmpeg.go | child, pipes, `waitOnce`, `drained`; temporary files | `FFmpegStream`, `FFmpegDecode`, `FFmpegLoad`, `probe` | ffmpeg, ffprobe, perhaps a launcher shim |
| macOS backend, audio_macos.go | audio file, converter, handles; `nextPacket` | `decode`, the callbacks | AudioToolbox, which calls back from C |
| `pcm.Streamer`, pcm/pcm.go | `partial`, `err`, `done` | `Stream`, `Err`, `Close` | any `io.Reader` |
| playback, play/play.go | the one oto context of the process, `mu` | `PCM`, `File`, `Data` | oto |
| command line, example | none | | `play` |

What makes it hard:

- **Goroutines.** A Decoder is shared. `Close` races decodes, opens, closing
  of streams and other `Close`s; `track` races `Wait`; `play.PCM` shares a
  context nobody counts.
- **Native threads.** An answer of Media Foundation may come before, at the
  same time as or long after the timer of the read, or never, or into a stream
  that has been closed.
- **Processes.** ffmpeg may fail half-way, hang, survive a kill behind a shim
  and hold the pipes.
- **Partial failure.** `Open` and `decode` acquire up to nine things in a row.
- **Cut points.** PCM is cut by samples, packets, pipes, buffers and calls,
  each in another place.

What makes each part correct, in a sentence: the platform lives exactly as long
as it is used (Decoder); a decode never exceeds its limits and ends (Limits);
samples are released once and served once, and Close never waits for a decoder
that does not answer (Windows); `io.EOF` means all of the audio and nothing is
left behind (ffmpeg); all packets are decoded and no callback finds its handle
gone (macOS); frames come out whole and in order (pcm); one context, nothing cut
off (play).

## The modules

Each module holds one component: constants with their assumptions, variables,
a type invariant, `Init`, one action per step of the code, `Next`, `Spec`, and
its properties at the end. Where a run needs values a `.cfg` cannot write, an
`MC` module adds them. A definition named `Bad...` is what a plausible slip in
the code that follows it would do; no next-state relation uses one. Putting
one in place of the definition it shadows makes TLC refute a property, which
shows that the property depends on that code; `PROJECT.json` pairs them.

### Decoder, over Lifecycle

`Decoder` has goroutines (`Callers`), decoders and stream slots. A call is a
sequence of steps, with `pc`, `dec`, `cur`, `kind` as its program counter and
locals, because other goroutines can see the points in between:

| Code | Actions |
|---|---|
| `New` | `New` |
| `DecodeFile`, `Decode` | `RLock`, `Check`, `OpenOK` or `OpenFail`, `Drain`, `RUnlock` |
| `StreamFile`, `Stream` | `RLock`, `Check`, `OpenOK` or `OpenFail`, `Track`, `RUnlock` |
| `Stream.Close` | `CloseStream`, `Done` |
| `Decoder.Close` | `Close`, `Announce`, `Lock`, `CloseCheck`, `WaitStreams`, `End`, `Unlock` |
| a caller drops a closed Stream | `Forget` |

`sync.RWMutex` is modelled as it behaves: a writer announces itself, which
makes new readers wait, then waits for the readers there are; an unlock hands
the lock to all readers that wait. `life` is whether `start` and `end` have
run, `platform` what the platform counts; on systems where both do nothing this
is a count nobody looks at. A `New` that fails changes nothing and is left out
here (it is in `MFStartup`).

`Lifecycle` is what a Decoder promises, without lock, WaitGroup or steps: work
starts only on an open decoder, closing first stops new work, then waits for
what is under way, then gives the platform back, once. `Decoder` implements it
under the mapping at its end: a decoder is *closing* once `closed` is set and
*closed* once `end` has run; a stream uses the platform from the moment its
backend is being opened.

### Limited

`newLimited` and `limited.Read` between a caller that reads on to the end
(`drain`) and a backend that yields any number of bytes, may fail, grind for
ever (`Endless`), or block. `limits` and `backend` are chosen at the start and
stay: `backend.SetDeadline` is the type assertion of stream.go:110,
`backend.blocks` says whether it can stop answering.

### ReadCloser

What the `io.ReadCloser` behind a `Stream` promises: the audio in order as far
as it is decoded, `io.EOF` only for the whole of it, nothing after another
error, Close at any time. `SourceReader` implements it with the samples that
Media Foundation made, less the skipped ones, as the audio (its history variable
`pcm`); `FFmpeg` with what
ffmpeg wrote, where the recording is whole once the child has exited cleanly.
The result of an up-front decode is held to the same promise.

### SourceReader; MFStartup, MFStream and MediaFoundation

`SourceReader` is one stream in use: the owner in
`Read` (`Request`, `Arm`, then `Timeout` or one of the `Take...` actions, which
are the branches of `next`) and in `Close`, and the worker of Media Foundation
(`Deliver`, which calls `onReadSample`, and `Stall`). `refs` counts the
references to each sample beyond the worker's, `holders` the references to the
callback. The owner may read on after an error, so late answers meet new reads;
`fate` is the first error it got, after which nothing is said of the PCM. The one action `Timeout` covers both bounds of the wait.
A Read into an empty slice or of a closed stream changes nothing and is left out.

`MFStream` is the same stream as a set of objects: `Open` with a failure at
every native call and the deferred `release`, `Close`, and the counts with the
references the objects hold to one another. The media types that
`configureAudioStream` and `getSourceReaderFormat` make and release within one
step are not counted. It has no next-state relation of
its own: it lives in `MediaFoundation`.

`MFStartup` is loading the DLLs and entry points, one by one in the order of the
code, under `loadOnce`, and the calls of `MFStartup` and `MFShutdown`, by several
goroutines, on a machine that may lack any one of them. A call of an entry point
that is not resolved ends the goroutine in a panic. A shutdown that the platform
refuses is reported and not tried again, as in the code; `refused` counts these.

`MediaFoundation` composes the two: goroutines create and close Decoders, and on
one of these a stream is opened (each step of `Open` calls an entry point, which
may be nil), read, given up on and closed. `Awaited` is what `Decoder` shows and
`Decoder.Close` contributes: it waits for the stream before it shuts down.

### FFmpeg

`FFmpeg` is audio_ffmpeg.go. The three functions share their steps:

| Code | Actions |
|---|---|
| `FFmpegDecode` | `CreateTemp`, `FillTemp`, then `FFmpegLoad`, then `RemoveTemp` |
| `FFmpegLoad` | `Probe`, `Start`, `LoadCopy` (the goroutine `os/exec` starts for a buffer), `LoadReturn` |
| `FFmpegStream` | `Probe`, `Start` |
| `Read` | `Read`, then `ReadData`, `ReadClosed` or `ReadEOF`, `ReadReap` |
| `Close` | `CloseDrained`, or `CloseAbandoned` with `HelperCopy`, `HelperReap` in its goroutine and `CloseDone` or `CloseTimeout` in the caller |

Beside the caller there are the child and the worker that decodes, which is the
child itself or, behind a shim, another process that outlives it. `cmd.Wait`
(`Reap`) returns once nobody holds the pipes and closes the read end. `Kill`
only sends the child a signal, and that may fail, for the code drops the error;
a child that got it is gone with `Die`, a step of the operating system that may
take its time. `CloseTimeout` is `time.After`, which fires whatever the
processes and the goroutine of `Close` are at.

ffprobe is one step that may never come. It names the format of the first audio
stream, and `Playable` says which recordings have one the package takes.
`os.Remove`, whose error the code drops, is taken to succeed.

### AudioToolbox, ReadProc

`AudioToolbox` is `decode` of audio_macos.go: what it acquires (`live`), the
loop that fills a buffer, `InputDataProc` with its cap, and the deferred calls.
These are a stack, `deferred`: a step that acquires something pushes what gives
it back (`Defer`), and `Return` pops and runs one call after another and returns
when none is left, whatever is live then. `ReadProc` is the two callbacks through which the audio file
reads the Go buffer, as functions of its length and capacity; a byte is its
position, so that what was decoded can be traced to the bytes that were read.
The audio file and the converter are modelled from what the code relies on: the
file looks about in the buffer when it is opened, anywhere, and reads whole
packets; the converter asks while it needs more, keeps what the buffer has no
room for, and is done when a read yields nothing and the file, by its size, has
no more. That last condition is what the comment at audio_macos.go:599-606
tells: a size that promises more makes it ask for ever.

### Streamer, Play

`Streamer` is pcm/pcm.go with bytes as positions, so that a frame is a pair of
positions and "the right frames in the right order" can be said; how the reader
ends is `ending`: with `io.EOF`, with `io.ErrUnexpectedEOF` or an error that
wraps `io.EOF`, or with any other. `Play` is
`sharedContext` and `PCM` over the shared context, in which a player advances
while the context is not suspended and the device works; `File` and `Data` decode
first and keep their Decoder open until they return.

## The runs

Eight runs pass; four end in a violation, which are disagreements listed below.

| Run | Instance | Shows |
|---|---|---|
| `MCDecoderCalls` | 3 goroutines, 1 decoder, 2 streams, any nesting | the inductive invariant, no teardown under a use, an exact WaitGroup, `Add` before `Wait`, `Lifecycle` implemented; and unless calls nest every call returns |
| `MCLimitedReads` | limits of 2 units or none, recordings of 0 to 3 units or endless, backends with and without `SetDeadline`, blocking or not, a clock of 4 | the byte cap, which refuses no shorter recording; under a time limit the drain ends unless the backend blocks and takes no deadline |
| `SourceReaderReads` | 2 samples of 0 or 2 units, 2 timestamps, reads of 1 or 3, 2 answers outstanding | counts, lifetime of the callback, `ReadCloser` implemented, Close never blocks, Read returns |
| `MediaFoundationShared` | 2 goroutines, the 10 DLLs and entry points with any one missing, 4 startups, a stream | loading is once and whole, startups pair with shutdowns but for refused ones, nobody waits for ever; the platform outlasts the stream, nothing leaks on any path, and the bytes stay reachable |
| `MCFFmpegPipe` | 4 units through a pipe of 2, 2 Closes, shim or not; a stereo recording with a cover, one with a mono and a stereo stream, a surround one, one without audio | `ReadCloser` implemented, nothing left but what a goroutine is still at work on, Close returns with no assumption about processes; a kill that reaches ffmpeg is the end of it; if processes go on, abandoned decodes end and every call returns |
| `MCAudioToolboxDecode` | 0 to 7 bytes in packets of 2 that decode to 1 to 3, a buffer of 2, 2 descriptions, requests of 1 to 3, looks before, in and beyond the buffer | everything decoded, the loop ends, reads stay in bounds, handles outlive callbacks, all given back |
| `MCStreamerFrames` | 0 to 13 bytes, 0 to 3 channels, calls of 0 to 2 frames | whole frames in order, all of them before the end, and which errors are told and which are taken for the end |
| `PlayShared` | 2 goroutines, 2 formats, 2 units, 3 calls | one context, played only in its format, nothing cut off, every call returns |
| `MCDecoderCycle`, `MFStartupAgain`, `MCLimitedPipe`, `PlayLate` | as the runs of their modules, the first with 2 goroutines, the last with 1 format and 2 calls | the disagreements below |

Each module's type invariant is a conjunct of one of its invariants: `IInv`,
`ByteCap`, `RefsExact`, `RefsCount`, `PlatformPaired`, `NothingLeft` of `FFmpeg`,
`DecodesAll`, `BytesConserved`, `OneContext`.

### Bounds, and why they are enough

- *Decoder*: a hazard needs a closer and a caller; a third goroutine gives a
  second closer, or a reader that waits while another still reads; two streams
  give a decode next to an open stream. One decoder keeps the liveness check
  small; that one decoder does not disturb another is in the theorems, which
  remove all of these bounds.
- *SourceReader*: two samples with two timestamps give a first one, one that
  is skipped and one that is not; sizes 0 and 2 against reads of 1 and 3 cut
  samples and overfill; `MaxEmpty` 1 stands for 1024; with two answers
  outstanding one read was given up on and the next is under way, and the
  channel of one can be full.
- *Limited*: the limit lies inside the range of recordings, so that shorter,
  equal, longer and endless ones occur. The clock stops two units after the
  deadline, when nothing depends on it any more. Reads that would pass
  `MaxRead` are not taken; with the byte limit set it is never reached, and
  otherwise only the endless recording reaches it, whose drain then has to end
  by the deadline.
- *FFmpeg*: the pipe is smaller than the audio, so that the worker can block on
  it, and full more than once; the second Close meets every state the first can
  leave. The recordings have a first stream that is not audio, more than one
  that is, too many channels, and none.
- *AudioToolbox*: zero to three packets, with and without an odd byte behind
  them and room to spare behind that; packets that decode to 1, 2 and 3 against a buffer of 2 make
  the end of the file fall on a full buffer, short of it and beyond it.
- *Streamer*: 13 bytes are two frames of three channels and one odd byte, or
  six frames of mono and one.
- *MediaFoundation*: with two goroutines one loads while the other waits, or one
  starts and shuts down while the other has the stream; a second stream would
  share nothing with the first but the platform, which counts.
- *MFStartup*, *Play*: `MaxCalls` and `Calls` bound how often
  goroutines start over; three calls of two goroutines let one call overlap
  two others.

Deadlock is checked in `MCStreamerFrames`, where something can always go on.
Elsewhere the instance may really stop: a stream is closed, a bound is used up,
or goroutines wait for one another because they nest calls, which is a finding.

### Fairness

- *Decoder*: a goroutine inside a call goes on (weak); a mutex is handed to
  every writer that waits (strong, on `Announce`), as `sync` promises; a
  Stream that is open is eventually closed, as the package demands of its
  callers. `EveryCallReturns` speaks of behaviours in which no goroutine calls
  a decoder while it owns another Stream, one that the call is not itself about
  to return (`Nested`): with nesting the owner may itself be stuck, which is
  `MCDecoderCycle`. Without it, a Close that waits for the Streams of others, the
  calls that arrive meanwhile, and `Stream.Close` all return.
- *Limited*: the caller reads on, time passes, and a backend that has not
  stopped answering answers.
- *SourceReader*: the goroutine runs, its timer included, and the worker
  answers unless it has stopped. Nothing says that it ever does.
- *FFmpeg*: only goroutines are fair. `LeakEnds` and `CallsReturn` are
  implications from `ProcessesGoOn`, an ffprobe that ends and processes that do
  not   stop by themselves; failing stays possible and is never required. `KillCollects`
  assumes instead that a child that was sent the signal dies, and nothing of ffmpeg.
- *MFStartup*, *MediaFoundation*, *AudioToolbox*: the goroutine inside the call runs and the
  calls of native code return.
- *Play*: goroutines run, `mu` is handed on, oto reports ready, and a player
  that can advance does. The device may stop at any time.

## What is proved

Every invariant, action property and refinement that a passing run checks is
also a theorem, for every value of the constants. The proofs about a component
are in a module of their own, named after it.

| Module | Theorem | Statement |
|---|---|---|
| `DecoderProofs` | `TypeCorrect` | `Spec => []TypeOK` |
| | `PlatformIsSafe` | `Spec => []NoTeardownUnderUse` |
| | `PlatformIsBalanced` | `Spec => []PlatformBalanced` |
| | `StreamsAreCounted` | `Spec => []WaitGroupExact` |
| | `CloseIsExclusive` | `Spec => []CloseExcludesCalls` |
| | `CloseHasReleased` | `Spec => []CloseMeansReleased` |
| | `AddsBeforeWait` | `Spec => AddBeforeWait` |
| | `Refinement` | `Spec => ImplementsLifecycle` |
| `SourceReaderProofs` | `ReferencesAreExact` | `Spec => []RefsExact` |
| | `CloseReleasesAll` | `Spec => []ClosedHoldsNothing` |
| | `CallbackOutlivesReads` | `Spec => []CallbackAlive` |
| | `CloseIsPrompt` | `Spec => []CloseNeverBlocks` |
| | `Implementation` | `Spec => ImplementsReadCloser` |
| `MediaFoundationProofs` | `StartupsArePaired` | `ProcessSpec => []PlatformPaired` |
| | `EntryPointsAreResolved` | `ProcessSpec => []NoNilCall` |
| | `ReferencesAreCounted` | `ProcessSpec => []RefsCount` |
| | `ReleaseLeavesNothing` | `ProcessSpec => []NothingLeaks` |
| | `BufferOutlivesStream` | `ProcessSpec => []BufferRetained` |
| | `PlatformIsUpUnderStreams` | `ProcessSpec => []PlatformOutlastsStreams` |
| `FFmpegProofs` | `CloseLeavesNothing` | `Spec => []NothingLeft` |
| | `Implementation` | `Spec => ImplementsReadCloser` |
| `AudioToolboxProofs` | `DecodeIsComplete` | `Spec => []DecodesAll` |
| | `CallbacksFindTheirHandles` | `Spec => []CallbacksHaveHandles` |
| | `DecodeLeavesNothing` | `Spec => []NothingLeft` |
| | `CallbacksStayInBounds` | `Spec => []SliceInBounds` |
| `LimitedProofs` | `MaxBytesIsTheCap` | `Spec => []ByteCap` |
| `StreamerProofs` | `BytesAreConserved` | `Spec => []BytesConserved` |
| | `FramesAreInOrder` | `Spec => []FramesInOrder` |
| | `EndIsComplete` | `Spec => []EndsComplete` |
| `PlayProofs` | `ContextIsShared` | `Spec => []OneContext` |
| | `SuccessIsTheEnd` | `Spec => []PlayedToTheEnd` |

Each module also has `Invariance`, that its inductive invariant `IInv` always
holds, from which the others follow: one lemma per conjunct that `[Next]_vars`
keeps it, with one step per action. The invariants were model-checked
before they were proved.

*Assumptions.* Only the named ones beside the constants, which TLC
evaluates in the runs: numbers are naturals, sizes of reads, packets and pipes
are not zero, the marks for "none" are not members of the sets they
stand beside, streams and decoders are finite sets. No fairness is used. The
instances of the runs drop out: goroutines, formats, samples, bytes, calls and
closes are any number, the goroutines of `Decoder`, `MFStartup` and `Play`
even infinitely many.

### Decoder

That the platform is never ended under a use is not inductive:
it holds because `End` runs with the count at zero, which matters only if the
count is exact, if nobody can add to it between `WaitStreams` and `End`, and if
no stream is in use without being counted. `IInv` says these things:

- `LockInv`: the lock is held by exactly the goroutines whose program counter
  says so, and past `wlock` no reader is left. So no call is between `Check`
  and `RUnlock` while a Close is past `Lock`.
- `HoldInv`: a stream that is not yet returned belongs to one call, which
  knows its state and its decoder; a stream in use is tracked or in such a
  call. So with the write lock held every stream in use is tracked.
- `OwnerInv`: a stream that was returned is tracked until its owner is past
  `Done`, which only the owner can be. So the count goes down once per stream.
- `WaitGroupExact`, `PlatformBalanced`: the counters are cardinalities. Their
  steps rest on the lemmas about adding to and removing from a finite set.
- `LifeInv`: how far the closing of a decoder is, by the goroutine that closes
  it; at `end` the count is still zero.

The refinement then takes `IInv` before and after a step: `Check` that finds the
decoder open is `Acquire`, `OpenFail`, `Drain` and `CloseStream` are `Release`,
`CloseCheck` is `BeginClose`, `End` is `FinishClose`, `New` is `Create`, and
every other step leaves the mapped state alone.

### SourceReader

- `RefsExact` is itself most of an invariant; `ServingInv` adds that a sample
  is kept exactly while it has something to serve and that the channel holds
  only samples that were made.
- `AnswerInv`: until a read is given up, exactly one answer is outstanding or in
  the channel while the reader waits, and none otherwise. This is why Close need
  not wait, and why a late answer needs a give-up before it.
- `HolderInv`: who has released the callback follows from how far Close has
  come, and a reader that was given up on never does. With `AnswerInv` the
  callback outlives every answer.
- `ServedInv`, for the refinement: what was made and is usable is what the owner
  has, the rest of the sample being served, and the sample in the channel.
  It has to follow the timestamps, since whether the sample in the channel counts
  depends on the one before it.

A usable delivery is `Decode`, a copy to the owner is `Read`, the end-of-stream
flag is `End`, any other first error `Fail`, what is read later `ReadFailed`,
and the first step of Close is `Close`.

### MediaFoundation

`IInv` is `PlatformInv` (`PlatformPaired`, `NoNilCall`, and that whoever is past
`loadOnce` found it done and complete), `StreamInv` and `UserInv` (a stream in use
is that of an open Decoder). `StreamInv` says which fields are set by how far
`Open` or `release` has come (`OpeningInv`, `ReleasingInv`), who can hold whom
(`HoldsInv`), when a reader is given up on (`GaveUpInv`), and the counts object by
object (`CountInv`). The counts are needed in that form because a release
cascades: the reader that goes releases the byte stream, the attributes
and the callback, the attributes the callback again, which is pinned until its
last reference goes (`PinnedWhileReferenced`). `ReleasedCounts` and
`ReleaseCounts` show the cascade keeps every count exact; `CountsAgree` turns
the sums into the cardinalities of `RefsCount`. That nothing is left at the end
is then that no field is left and nobody holds the objects.

### FFmpeg

- `ProcInv`: a child that exited cleanly passes on a worker that wrote
  everything, with a shim too. So `io.EOF`, which comes only with a clean exit,
  means all of the audio.
- `PipeInv`: what was written was read or is in the pipe, until a Close drains
  it. `WaitInv`: after `Wait` the pipe is closed and empty, so nothing is read
  after the first end or error.
- `PhaseInv`: what exists by where the caller is. `LeftInv`: a Close that waits
  has its goroutine, and once Close has returned, ffmpeg was waited for or some
  goroutine is still about to, since each leaves only by waiting. From these
  `NothingLeft` follows, for any order of time-outs, kills and second Closes.

`Produce`, `Finish`, `Fail` and `ShimExit` are `Decode` of `ReadCloser`, a read
with data is `Read`, the reaping of a clean child `End`, every failure `Fail`.

### AudioToolbox, Streamer, Limited, Play

- `AudioToolbox`: `PcmInv` says that what is collected, what is in the buffer
  and what the converter keeps are, one after the other, the PCM of the packets
    read so far. `LiveInv` says that what is live is what the deferred calls will
  give back, in the order in which it was acquired, and how much that is by how
  far decode has come. A step that acquires and does not defer, or defers in
  another order than it acquires, breaks it.
  The callbacks stay in bounds by lemmas about `Piece` and `PacketsRead`, which
  take the integer division of `ReadPackets` apart.
- `Streamer`: `CutInv` says that the frames streamed, then the bytes
  held back, are the bytes read; `EndInv` that bytes are held back only at the
  end. Lemma `CutIs` is that cutting a longer buffer into frames goes on where the
  last cut stopped.
- `Limited`: `MaxBytesIsTheCap` says that no more than `MaxBytes` is handed out,
  and that a refused recording is not shorter than that; one of exactly
  `MaxBytes` is refused, see below. `ReadInv` says that a Read under way cannot pass `MaxBytes` even if
  the backend fills the whole slice, and that no Read begins after one that
  ended the decode.
- `Play`: `LockInv`, that `mu` is held by the one caller that looks at the
  context or waits for it; `ContextInv`, that the one context is in `shared` or
  with that caller; `FormatInv`, that whoever plays has the format of `shared`.

### Model-checked only

Liveness (`EveryCallReturns`, `DrainEnds`, `ReadReturns`, `OnceReturns`,
`CloseReturns`, `LeakEnds`, `KillCollects`, `CallsReturn`, `DecodeReturns`, `PCMReturns`):
the prover knows neither fairness under quantifiers nor `ENABLED`.
`Decoded` of `AudioToolbox` and `pcm` of `SourceReader` are stated by
position and step by step rather than as a fold over sequences, because
what a fold returns for every length would need induction over data, which the
prover's library cannot instantiate.

## Where code and documentation disagree

Four disagreements have a run that checks what a comment or the README says
and in which TLC finds the counterexample.

| Run, property | In short |
|---|---|
| `MCDecoderCycle`, `NoCloseCycle` | a goroutine that owns an open Stream and calls its Decoder during a Close waits for ever, and so does Close (audio.go:66, 74) |
| `MFStartupAgain`, `StartupResolves` | a second startup succeeds although loading failed (mf.go:1179) |
| `MCLimitedPipe`, `DurationBounds` | the time limit does not bound a read that waits for ffmpeg (stream.go:110) |
| `PlayLate`, `LateMeansStopped` | the first of two plays to finish stalls the other, which then blames the device (play.go:92) |

Others are steps of the modules, and no property is stated that such a step
would refute by itself:

- exactly `MaxBytes` of PCM fails as "more than" that: `ReadTooMuch`
  (stream.go:122);
- the time limit also counts the time the owner of a Stream spends elsewhere:
  `ReadTooLong` (stream.go:118);
- a Read after a timeout issues a second asynchronous read, where comments at
  mf.go:908 and callback.go:90 speak of one at a time: `ReadMore` (mf.go:371);
- a deadline that passes marks a healthy reader as given up on, and Close
  leaks it: `Arm` (mf.go:381);
- after a give-up the compressed bytes are let go of under the memory stream:
  `Release` of `MFStream` (mf.go:217);
- a Read after `io.EOF` returns another error: `ReadClosed`
  (audio_ffmpeg.go:168);
- a read error panics in a callback from C: `InputDataProcFails`
  (audio_macos.go:417, 609);
- a `Stream` into an empty slice gives the answer of the end: `StreamNothing`
  (pcm.go:63);
- a reader that fails with `io.ErrUnexpectedEOF`, or with an error that wraps
  `io.EOF`, leaves `Err` nil, where pcm.go:129 says it returns the first error
  encountered: `Failed` of `Streamer` (pcm.go:91);
- a Close that runs out of time returns while ffmpeg and the goroutine that waits
  for it are still there: `CloseTimeout` (audio_ffmpeg.go:213).

And one is in no module: of a recording with several audio streams the format is
that of the first (audio_ffmpeg.go:123), while ffmpeg decodes the one it ranks
best, so `Format` need not describe the PCM (stream.go:27, audio.go:118). Which
stream ffmpeg picks is nothing the code decides.

## What is not modelled

- The COM wrappers, vtables and GUIDs of mf.go, one native call each: their
  outcome is an action that succeeds or fails. `guard` and `QueryInterface` of
  the callback.
- `OpenAudioFile`, `WritePackets` and the getters of audio_macos.go, which
  nothing calls.
- The values of samples, formats beyond channels, error texts. So the checks of
  width in `configureAudioStream` are the failure of `Configure`.
- A backend open that never returns (an ffprobe that hangs, say) under a
  Decoder: `FFmpeg` has it, `Decoder` takes for granted that an open ends.
- Temporary files of concurrent decodes: `os.CreateTemp` keeps them apart, which
  is its business.
- cmd/nativeaudio, internal/example.
- Truncation of a length to 32 bits (mf.go:1203) and the overflow of
  `play.Duration`: single expressions without state.

## Plan

Done: the Decoder with its abstract specification and proofs, first because
every backend depends on it; then each backend and helper, checked; then
`MediaFoundation`, which puts streams and the life of the platform together,
`ReadCloser` with two implementations, and the whole of audio_ffmpeg.go; then
the proofs about all of them.

1. Compose `Limited` with `SourceReader`, so that the deadline inside and
   outside the reader is one clock, and show that it, too, implements
   `ReadCloser` up to its limits.
2. An open that never returns in `Decoder`, with the calls that then wait.
3. The same compositions proved: that a `SourceReader` under `Limited` hands out a
   prefix of its audio up to `MaxBytes`, and that a `Lifecycle` whose streams
   are `ReadCloser`s serves none after its platform is gone.
