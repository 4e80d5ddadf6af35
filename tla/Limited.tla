------------------------------- MODULE Limited -------------------------------
(***************************************************************************)
(* One decode under its Limits: newLimited, limited.Read and limited.Close *)
(* of stream.go around a backend stream, read by drain (io.ReadAll) or by  *)
(* the owner of a Stream.  Time passes in units, PCM is counted in units.  *)
(* The backend is any io.ReadCloser the platform files make: it may grind  *)
(* for ever, fail, or, if it may block, stop answering in a Read.          *)
(***************************************************************************)
EXTENDS Naturals

CONSTANTS
    Limits,         \* values [MaxBytes, MaxDuration] of Limits, 0 for no limit
    Totals,         \* PCM units a recording decodes to
    Endless,        \* a recording that never ends
    ReadSizes,      \* lengths of the slices passed to Read, not 0
    MaxTime,        \* bound: the clock
    MaxRead         \* bound: PCM units read

ASSUME LimitedAssumption ==
    /\ Limits \subseteq [MaxBytes : Nat, MaxDuration : Nat]
    /\ Totals \subseteq Nat /\ Endless \notin Nat
    /\ ReadSizes \subseteq Nat \ {0}
    /\ MaxTime \in Nat /\ MaxRead \in Nat

VARIABLES
    limits,     \* limited.limits
    backend,    \* has it a SetDeadline method?  can it block in a Read?
    total,      \* what the recording decodes to
    now,        \* the clock, 0 when newLimited runs
    pc,         \* idle, or in the backend's Read
    want,       \* len(p) passed to the backend
    read,       \* limited.read
    blocked,    \* the backend has stopped answering
    result      \* what the last Read returned

given == <<limits, backend, total>>
vars == <<given, now, pc, want, read, blocked, result>>

TypeOK ==
    /\ limits \in Limits
    /\ backend \in [SetDeadline : BOOLEAN, blocks : BOOLEAN]
    /\ total \in Totals \cup {Endless}
    /\ now \in 0..MaxTime
    /\ pc \in {"idle", "reading"}
    /\ want \in Nat
    /\ read \in 0..MaxRead
    /\ blocked \in BOOLEAN
    /\ result \in {"none", "data", "eof", "error", "toolong", "toomuch"}

Init ==
    /\ limits \in Limits
    /\ backend \in [SetDeadline : BOOLEAN, blocks : BOOLEAN]
    /\ total \in Totals \cup {Endless}
    /\ now = 0 /\ pc = "idle" /\ want = 0 /\ read = 0
    /\ blocked = FALSE /\ result = "none"

-----------------------------------------------------------------------------
Lesser(m, n) == IF m < n THEN m ELSE n

\* The caller reads on until an error, io.EOF included.
MayRead == pc = "idle" /\ result \in {"none", "data"}

\* limited.deadline is set and lies strictly before now.
PastDeadline == limits.MaxDuration > 0 /\ now > limits.MaxDuration

ReadTooLong ==
    /\ MayRead /\ PastDeadline
    /\ result' = "toolong"
    /\ UNCHANGED <<given, now, pc, want, read, blocked>>

ReadTooMuch ==
    /\ MayRead /\ ~PastDeadline
    /\ limits.MaxBytes > 0 /\ read >= limits.MaxBytes
    /\ result' = "toomuch"
    /\ UNCHANGED <<given, now, pc, want, read, blocked>>

BadBeginRead(n) ==                             \* does not cut p to remaining
    /\ MayRead /\ ~PastDeadline
    /\ limits.MaxBytes > 0 => read < limits.MaxBytes
    /\ pc' = "reading"
    /\ want' = n
    /\ UNCHANGED <<given, now, read, blocked, result>>

\* p is cut to what MaxBytes leaves, and the backend reads into it.
BeginRead(n) ==
    /\ MayRead /\ ~PastDeadline
    /\ limits.MaxBytes > 0 => read < limits.MaxBytes
    /\ pc' = "reading"
    /\ want' = IF limits.MaxBytes > 0 THEN Lesser(n, limits.MaxBytes - read) ELSE n
    /\ UNCHANGED <<given, now, read, blocked, result>>

EndRead(n, r) ==
    /\ pc = "reading"
    /\ pc' = "idle" /\ want' = 0
    /\ read' = read + n
    /\ result' = r
    /\ UNCHANGED <<given, now, blocked>>

\* The backend returns n units, possibly none, short of the end.
BackendData(n) ==
    /\ ~blocked
    /\ n <= want /\ read + n <= MaxRead
    /\ total # Endless => read < total /\ read + n <= total
    /\ EndRead(n, "data")

BackendEOF ==
    /\ ~blocked
    /\ total # Endless /\ read = total
    /\ EndRead(0, "eof")

BackendError == EndRead(0, "error")

BadBackendExpires == FALSE                     \* newLimited does not hand it

\* A backend that was handed the deadline gives up a Read that waits.
BackendExpires ==
    /\ backend.SetDeadline /\ limits.MaxDuration > 0 /\ now >= limits.MaxDuration
    /\ EndRead(0, "error")

BackendBlocks ==
    /\ backend.blocks /\ pc = "reading" /\ ~blocked
    /\ blocked' = TRUE
    /\ UNCHANGED <<given, now, pc, want, read, result>>

Tick ==
    /\ now < MaxTime
    /\ now' = now + 1
    /\ UNCHANGED <<given, pc, want, read, blocked, result>>

Reading == ReadTooLong \/ ReadTooMuch \/ \E n \in ReadSizes : BeginRead(n)

Backend == BackendEOF \/ BackendExpires \/ \E n \in 0..MaxRead : BackendData(n)

Next == Reading \/ Backend \/ BackendError \/ BackendBlocks \/ Tick

Spec == Init /\ [][Next]_vars

\* The caller reads on, the clock runs, and the backend answers each Read
\* unless it has stopped answering.
FairSpec == Spec /\ WF_vars(Reading) /\ WF_vars(Backend) /\ WF_vars(Tick)

-----------------------------------------------------------------------------
(* Properties. *)

\* A decode never hands out more PCM than MaxBytes, whatever slices it is
\* read into and however the backend fills them, and refuses none that is
\* shorter: io.EOF comes for all of a recording, and ErrLimitExceeded for one
\* of MaxBytes or more.
ByteCap ==
    /\ TypeOK
    /\ limits.MaxBytes > 0 => read <= limits.MaxBytes
    /\ result = "eof" => read = total
    /\ result = "toomuch" => read = limits.MaxBytes /\ total \notin 0..(read - 1)

Over == result \in {"eof", "error", "toolong", "toomuch"}

\* A backend that answers every Read, or that takes the deadline.
Bounded == backend.SetDeadline \/ ~backend.blocks

\* Under a time limit a buffered decode ends, in success or in failure, also
\* of a recording that grinds for ever, and of one that stops answering if
\* the backend takes the deadline.
DrainEnds == limits.MaxDuration > 0 /\ Bounded => <>Over

\* MaxDuration bounds every decode, whatever the backend.
DurationBounds == limits.MaxDuration > 0 => <>Over
=============================================================================
