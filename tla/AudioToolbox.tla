----------------------------- MODULE AudioToolbox -----------------------------
(***************************************************************************)
(* The macOS backend, decode of audio_macos.go: what it acquires step by   *)
(* step and gives back in its deferred calls, the loop that fills a buffer *)
(* of PCM packets until one comes back short, and the callback through     *)
(* which the converter pulls compressed packets out of the audio file.     *)
(*                                                                         *)
(* A compressed packet is PacketBytes bytes of the Go buffer and decodes to *)
(* perPacket PCM packets, which carry its number.  The converter and the    *)
(* audio file belong to AudioToolbox.  The file knows the buffer only       *)
(* through the callbacks of ReadProc: it looks about when it is opened, at  *)
(* any place, and reads the packets it is asked for, or fails.  The         *)
(* converter asks for any number of packets while it needs more, keeps what *)
(* the buffer has no room for, and is done when it got no packet and, going *)
(* by its size, the file has no more.                                       *)
(***************************************************************************)
EXTENDS Integers, Sequences, ReadProc

CONSTANTS
    MaxLen,         \* bound: bytes of the compressed audio
    PacketBytes,    \* bytes of a compressed packet
    Places,         \* positions the file looks at when it is opened
    Looks,          \* numbers of bytes it asks for there
    PerPacket,      \* PCM packets a compressed packet decodes to
    PacketsPerLoop, \* PCM packets the buffer holds
    Descriptions,   \* capacity of mPacketDescriptions
    Requests        \* numbers of packets the converter asks for

ASSUME ToolboxAssumption ==
    /\ MaxLen \in Nat /\ PacketBytes \in Nat \ {0}
    /\ Places \subseteq Int /\ Looks \subseteq Nat \ {0}
    /\ PerPacket \subseteq Nat \ {0} /\ Requests \subseteq Nat \ {0}
    /\ PacketsPerLoop \in Nat \ {0} /\ Descriptions \in Nat \ {0}

VARIABLES
    len, cap,           \* of the Go buffer
    slice,              \* the slice the last read callback copied, from and to
    perPacket,          \* PCM packets that a compressed one decodes to
    vbr,                \* inputUsesPacketDescriptions
    pc,                 \* the next step of decode
    live,               \* what decode has acquired and not given back
    deferred,           \* what its deferred calls give back, the last one first
    nextPacket,         \* AudioFile.nextPacket, counted from 0
    described,          \* descriptions the last read wrote
    held, ended,        \* the converter: PCM it has no room for; told the end
    filled,             \* the buffer of this round
    out,                \* the PCM collected so far
    result              \* what decode returns

fileVars == <<len, cap, perPacket, vbr>>
convVars == <<slice, nextPacket, described, held, ended>>
heldVars == <<live, deferred>>
vars == <<fileVars, pc, heldVars, convVars, filled, out, result>>

\* The handle of the Go buffer, the audio file, the converter, the handle of
\* the InputContext.
Resources == {"data", "file", "converter", "context"}

Steps == {"open", "format", "converter", "cookieSize", "cookie", "setCookie",
          "maxPacket", "context", "fill", "convert"}

\* Whole packets in so many bytes.
Packets(bytes) == bytes \div PacketBytes

TypeOK ==
    /\ len \in 0..MaxLen /\ cap \in {len, len + PacketBytes}
    /\ slice \in Int \X Int
    /\ perPacket \in PerPacket /\ vbr \in BOOLEAN
    /\ pc \in Steps \cup {"return", "returned", "crashed"}
    /\ live \subseteq Resources /\ deferred \in Seq(Resources)
    /\ nextPacket \in 0..Packets(len)
    /\ described \in Nat /\ ended \in BOOLEAN
    /\ held \in Seq(1..Packets(len)) /\ filled \in Seq(1..Packets(len))
    /\ Len(filled) <= PacketsPerLoop
    /\ out \in Seq(1..Packets(len))
    /\ result \in {"none", "pcm", "error"}

\* The buffer may have room to spare.
Init ==
    /\ len \in 0..MaxLen /\ cap \in {len, len + PacketBytes}
    /\ slice = <<0, 0>>
    /\ perPacket \in PerPacket /\ vbr \in BOOLEAN
    /\ pc = "open" /\ live = {} /\ deferred = <<>>
    /\ nextPacket = 0 /\ described = 0 /\ held = <<>> /\ ended = FALSE
    /\ filled = <<>> /\ out = <<>> /\ result = "none"

-----------------------------------------------------------------------------
(* Setting up. *)

\* AudioFileOpenWithCallbacks finds its way about in the buffer.
Look(p, n) ==
    /\ pc = "open"
    /\ slice' = <<First(len, p), Past(len, p, n)>>
    /\ UNCHANGED <<fileVars, pc, heldVars, nextPacket, described, held, ended,
                   filled, out, result>>

BadDispose == <<"file", "data">>               \* the handle before the file

\* AudioFile.Dispose closes the file, then deletes the handle of the buffer.
Dispose == <<"data", "file">>

\* OpenAudioFileBuffer: the handle goes again if AudioToolbox cannot open it.
Open ==
    /\ pc = "open"
    /\ \/ pc' = "format" /\ live' = {"data", "file"} /\ deferred' = Dispose
          /\ UNCHANGED result
       \/ pc' = "returned" /\ result' = "error" /\ UNCHANGED heldVars
    /\ UNCHANGED <<fileVars, convVars, filled, out>>

\* The steps that can follow a step.
After ==
    [format |-> {"converter"}, converter |-> {"cookieSize"},
     cookieSize |-> {"cookie", "maxPacket"}, cookie |-> {"setCookie"},
     setCookie |-> {"maxPacket"}, maxPacket |-> {"context"},
     context |-> {"fill"}]

BadDefer(r) ==                                 \* not of the context's handle
    deferred' = IF r = "context" THEN deferred ELSE Append(deferred, r)

\* defer, of the call that gives back what was acquired.
Defer(r) == deferred' = Append(deferred, r)

\* Query the format, create the converter, copy the magic cookie if there is
\* one, query the largest packet, make the handle of the context.
SetUp ==
    /\ pc \in DOMAIN After
    /\ pc' \in After[pc]
    /\ \/ pc \in Resources /\ live' = live \cup {pc} /\ Defer(pc)
       \/ pc \notin Resources /\ UNCHANGED heldVars
    /\ UNCHANGED <<fileVars, convVars, filled, out, result>>

\* A call of AudioToolbox fails.
Fail ==
    /\ pc \in (DOMAIN After \ {"context"}) \cup {"convert"}
    /\ pc' = "return" /\ result' = "error"
    /\ UNCHANGED <<fileVars, heldVars, convVars, filled, out>>

-----------------------------------------------------------------------------
(* Converting. *)

\* FillComplexBuffer is called with the empty buffer.
Fill ==
    /\ pc = "fill"
    /\ pc' = "convert" /\ filled' = <<>>
    /\ UNCHANGED <<fileVars, heldVars, convVars, out, result>>

Lesser(m, n) == IF m < n THEN m ELSE n

\* Packets to read: no more than there are descriptions for, where they count.
Cap(n) == IF vbr THEN Lesser(n, Descriptions) ELSE n

\* The packets whose bytes a read of n of them copied.
PacketsRead(n) ==
    LET bytes == Piece(len, nextPacket * PacketBytes, n * PacketBytes)
    IN [i \in 1..Packets(Len(bytes)) |-> Packets(bytes[i * PacketBytes]) + 1]

\* The PCM packets that compressed ones decode to, one after the other.
Decoded(packets) ==
    [j \in 1..(Len(packets) * perPacket) |-> packets[((j - 1) \div perPacket) + 1]]

\* AudioFile.ReadPackets: nextPacket advances by what was read.
ReadPackets(n) ==
    LET got == PacketsRead(n)
        at == nextPacket * PacketBytes
    IN /\ slice' = <<First(len, at), Past(len, at, n * PacketBytes)>>
       /\ nextPacket' = nextPacket + Len(got)
       /\ described' = IF vbr THEN Len(got) ELSE 0
       /\ held' = Decoded(got)
       /\ ended' = (got = <<>> /\ nextPacket >= Packets(Size(len, cap)))

\* The converter needs more and calls back.
NeedsMore ==
    /\ pc = "convert" /\ ~ended
    /\ held = <<>> /\ Len(filled) < PacketsPerLoop

InputDataProc(n) ==
    /\ NeedsMore
    /\ ReadPackets(Cap(n))
    /\ UNCHANGED <<fileVars, pc, heldVars, filled, out, result>>

\* The read fails: the error is a text without an ErrOSStatus in it, which
\* unwrapOSStatus panics over, in a callback from C.
InputDataProcFails ==
    /\ NeedsMore
    /\ pc' = "crashed"
    /\ UNCHANGED <<fileVars, heldVars, convVars, filled, out, result>>

\* The converter puts PCM into the buffer.
Convert ==
    /\ pc = "convert" /\ held # <<>>
    /\ LET k == Lesser(Len(held), PacketsPerLoop - Len(filled)) IN
        /\ k > 0
        /\ filled' = filled \o SubSeq(held, 1, k)
        /\ held' = SubSeq(held, k + 1, Len(held))
    /\ UNCHANGED <<fileVars, pc, heldVars, slice, nextPacket, described, ended, out,
                   result>>

\* The buffer is full, or there is no more.
FillReturns ==
    /\ pc = "convert"
    /\ Len(filled) = PacketsPerLoop \/ (ended /\ held = <<>>)

\* Collect the PCM; a buffer that is not full is the last.
Collect ==
    /\ FillReturns
    /\ out' = out \o filled
    /\ IF Len(filled) < PacketsPerLoop
       THEN pc' = "return" /\ result' = "pcm"
       ELSE pc' = "fill" /\ UNCHANGED result
    /\ UNCHANGED <<fileVars, heldVars, convVars, filled>>

-----------------------------------------------------------------------------
\* The deferred calls, last one first; then decode returns.
Return ==
    /\ pc = "return"
    /\ LET n == Len(deferred) IN
        \/ /\ n = 0 /\ pc' = "returned"
           /\ UNCHANGED heldVars
        \/ /\ n > 0 /\ pc' = pc
           /\ live' = live \ {deferred[n]}
           /\ deferred' = SubSeq(deferred, 1, n - 1)
    /\ UNCHANGED <<fileVars, convVars, filled, out, result>>

-----------------------------------------------------------------------------
Decoding == Open \/ SetUp \/ Fill \/ Convert \/ Collect \/ Return

Next ==
    \/ Decoding \/ Fail \/ InputDataProcFails
    \/ \E n \in Requests : InputDataProc(n)
    \/ \E p \in Places, n \in Looks : Look(p, n)

Spec == Init /\ [][Next]_vars

\* decode runs, and the converter goes on converting.
FairSpec == Spec /\ WF_vars(Decoding \/ \E n \in Requests : InputDataProc(n))

-----------------------------------------------------------------------------
(* Properties. *)

\* A decode that succeeds has the PCM of every packet, once and in order, also
\* when a buffer fills up exactly at the end or in the middle of a packet.
DecodesAll ==
    /\ TypeOK
    /\ result = "pcm" => out = Decoded([i \in 1..Packets(len) |-> i])

\* AudioToolbox can call back only while what it calls back with exists: the
\* buffer for as long as the file is open, the context while converting.
CallbacksHaveHandles ==
    /\ "file" \in live => "data" \in live
    /\ pc = "convert" => live = Resources

\* Whatever step fails, decode has given back all it acquired when it returns:
\* each step that acquires something has deferred the call that gives it back,
\* and OpenAudioFileBuffer lets its handle go itself when it cannot open.
NothingLeft == pc = "returned" => live = {}

\* A callback from C never overruns: the slice of the buffer that a read
\* copies is one, also when it starts before the buffer or beyond its end, and
\* the packet descriptions fit the slice they are written to.
SliceInBounds ==
    /\ 0 <= slice[1] /\ slice[1] <= slice[2] /\ slice[2] <= len
    /\ described <= Descriptions

\* decode returns: the loop does not go round for ever at the end of a file,
\* nor the converter ask for ever for audio the buffer's spare room promises.
DecodeReturns == <>(pc \in {"returned", "crashed"})
=============================================================================
