------------------------------- MODULE ReadProc -------------------------------
(***************************************************************************)
(* The callbacks through which AudioToolbox reads the compressed audio of  *)
(* a macOS decode: AudioFileReadProcImpl and AudioFileGetSizeProcImpl of   *)
(* audio_macos.go, as functions of the length and the capacity of the Go   *)
(* buffer.  A byte is its position.                                        *)
(***************************************************************************)
EXTENDS Integers

LOCAL Lesser(m, n) == IF m < n THEN m ELSE n
LOCAL Greater(m, n) == IF m > n THEN m ELSE n

\* A read of n bytes at p copies the slice that starts at p and ends n further
\* on, but both ends are clamped to the buffer, and it never ends before it
\* starts.
First(len, p) == Lesser(Greater(p, 0), len)

BadPast(len, p, n) == Lesser(p + n, len)       \* clamps the end alone

Past(len, p, n) == Greater(Lesser(p + n, len), First(len, p))

BadPiece(len, p, n) ==                         \* copies from the buffer's start
    [i \in 1..(Past(len, p, n) - First(len, p)) |-> i - 1]

\* AudioFileReadProcImpl: the bytes it copies.
Piece(len, p, n) ==
    [i \in 1..(Past(len, p, n) - First(len, p)) |-> First(len, p) + i - 1]

BadSize(len, cap) == cap

\* AudioFileGetSizeProcImpl: the length, not the capacity.
Size(len, cap) == len
=============================================================================
