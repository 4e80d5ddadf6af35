---------------------------- MODULE LimitedProofs ----------------------------
(***************************************************************************)
(* Proofs about module Limited, for any limits, recordings of any length,  *)
(* slices of any size and any backend: the inductive invariant IInv, and   *)
(* that MaxBytes caps what a decode hands out and nothing else.            *)
(***************************************************************************)
EXTENDS Limited, TLAPS

\* A Read that has begun leaves the decode within MaxBytes however much of the
\* slice the backend fills; no Read begins after one that ended the decode.
ReadInv ==
    pc = "reading" =>
        /\ result \in {"none", "data"}
        /\ limits.MaxBytes > 0 => read + want <= limits.MaxBytes

\* No more is handed out than the recording has, nor than MaxBytes.
CountInv ==
    /\ total # Endless => read <= total
    /\ limits.MaxBytes > 0 => read <= limits.MaxBytes

\* How a decode ended says how much was handed out.
EndInv ==
    /\ result = "eof" => total # Endless /\ read = total
    /\ result = "toomuch" => limits.MaxBytes > 0 /\ read = limits.MaxBytes

IInv == TypeOK /\ ReadInv /\ CountInv /\ EndInv

\* What a decode is given has a type, and does not change.
LEMMA Given ==
    ASSUME TypeOK
    PROVE  /\ limits.MaxBytes \in Nat /\ limits.MaxDuration \in Nat
           /\ total # Endless => total \in Nat
           /\ read \in Nat /\ want \in Nat /\ now \in Nat
           /\ ReadSizes \subseteq Nat /\ MaxRead \in Nat /\ MaxTime \in Nat
<1>1. limits \in [MaxBytes : Nat, MaxDuration : Nat]
  BY LimitedAssumption DEF TypeOK
<1> QED
  BY <1>1, LimitedAssumption DEF TypeOK

-----------------------------------------------------------------------------
(* Every step keeps the invariant. *)

\* A Read that is refused ends the decode and hands out nothing.
LEMMA RefuseStep ==
    ASSUME IInv, ReadTooLong \/ ReadTooMuch
    PROVE  IInv'
<1>g. /\ limits.MaxBytes \in Nat /\ read \in Nat
  BY Given DEF IInv
<1>1. UNCHANGED <<given, now, pc, want, read, blocked>> /\ pc = "idle"
  BY DEF ReadTooLong, ReadTooMuch, MayRead
<1>2. \/ result' = "toolong"
      \/ result' = "toomuch" /\ limits.MaxBytes > 0 /\ read >= limits.MaxBytes
  BY DEF ReadTooLong, ReadTooMuch
<1>3. TypeOK'
  BY <1>1, <1>2 DEF IInv, TypeOK, given
<1>4. ReadInv' /\ CountInv'
  BY <1>1 DEF IInv, ReadInv, CountInv, given
<1>5. EndInv'
  BY <1>g, <1>1, <1>2 DEF IInv, CountInv, EndInv, given
<1> QED
  BY <1>3, <1>4, <1>5 DEF IInv

\* A Read that begins asks for no more than MaxBytes leaves.
LEMMA BeginStep ==
    ASSUME IInv, NEW n \in ReadSizes, BeginRead(n)
    PROVE  IInv'
<1>g. /\ limits.MaxBytes \in Nat /\ read \in Nat /\ n \in Nat
  BY Given DEF IInv
<1>1. /\ UNCHANGED <<given, now, read, blocked, result>> /\ pc' = "reading"
      /\ result \in {"none", "data"}
      /\ limits.MaxBytes > 0 => read < limits.MaxBytes
      /\ want' = IF limits.MaxBytes > 0 THEN Lesser(n, limits.MaxBytes - read) ELSE n
  BY DEF BeginRead, MayRead
<1>2. want' \in Nat /\ (limits.MaxBytes > 0 => read + want' <= limits.MaxBytes)
  BY <1>g, <1>1 DEF Lesser
<1>3. TypeOK'
  BY <1>1, <1>2 DEF IInv, TypeOK, given
<1>4. ReadInv'
  BY <1>1, <1>2 DEF ReadInv, given
<1>5. CountInv' /\ EndInv'
  BY <1>1 DEF IInv, CountInv, EndInv, given
<1> QED
  BY <1>3, <1>4, <1>5 DEF IInv

\* A Read that ends hands out what the backend put into the slice.
LEMMA EndStep ==
    ASSUME IInv, NEW n \in Nat, NEW r \in {"data", "eof", "error"}, EndRead(n, r),
           n <= want, read + n <= MaxRead,
           total # Endless => read + n <= total,
           r = "eof" => total # Endless /\ read + n = total
    PROVE  IInv'
<1>g. /\ limits.MaxBytes \in Nat /\ read \in Nat /\ want \in Nat /\ MaxRead \in Nat
      /\ total # Endless => total \in Nat
  BY Given DEF IInv
<1>1. /\ UNCHANGED <<given, now, blocked>> /\ pc = "reading" /\ pc' = "idle"
      /\ want' = 0 /\ read' = read + n /\ result' = r
  BY DEF EndRead
<1>2. read' \in 0..MaxRead
  BY <1>g, <1>1
<1>3. TypeOK'
  BY <1>1, <1>2 DEF IInv, TypeOK, given
<1>4. limits.MaxBytes > 0 => read' <= limits.MaxBytes
  BY <1>g, <1>1 DEF IInv, ReadInv
<1>5. ReadInv' /\ CountInv' /\ EndInv'
  BY <1>1, <1>4 DEF ReadInv, CountInv, EndInv, given
<1> QED
  BY <1>3, <1>5 DEF IInv

\* The invariant holds when newLimited has run.
LEMMA InitInv == Init => IInv
<1> SUFFICES ASSUME Init PROVE IInv
  OBVIOUS
<1>1. TypeOK
  <2>1. now \in 0..MaxTime /\ read \in 0..MaxRead /\ want \in Nat
    BY LimitedAssumption DEF Init
  <2>2. /\ limits \in Limits /\ backend \in [SetDeadline : BOOLEAN, blocks : BOOLEAN]
        /\ total \in Totals \cup {Endless} /\ pc \in {"idle", "reading"}
        /\ blocked \in BOOLEAN /\ result = "none"
    BY DEF Init
  <2> QED
    BY <2>1, <2>2 DEF TypeOK
<1>2. total # Endless => total \in Nat
  BY <1>1, Given
<1>3. limits.MaxBytes \in Nat
  BY <1>1, Given
<1> QED
  BY <1>1, <1>2, <1>3 DEF Init, IInv, ReadInv, CountInv, EndInv

\* Every step keeps it.
LEMMA NextInv == IInv /\ [Next]_vars => IInv'
<1> SUFFICES ASSUME IInv, [Next]_vars PROVE IInv'
  OBVIOUS
<1>g. /\ read \in Nat /\ want \in Nat /\ MaxRead \in Nat /\ MaxTime \in Nat
      /\ now \in Nat /\ read \in 0..MaxRead
      /\ total # Endless => total \in Nat
      /\ total # Endless => read <= total
  BY Given DEF IInv, TypeOK, CountInv
<1>1. CASE Reading
  BY <1>1, RefuseStep, BeginStep DEF Reading
<1>2. CASE BackendEOF
  <2>1. EndRead(0, "eof") /\ total # Endless /\ read = total
    BY <1>2 DEF BackendEOF
  <2> QED
    BY <1>g, <2>1, EndStep
<1>3. CASE BackendExpires \/ BackendError
  <2>1. EndRead(0, "error")
    BY <1>3 DEF BackendExpires, BackendError
  <2> QED
    BY <1>g, <2>1, EndStep
<1>4. ASSUME NEW n \in 0..MaxRead, BackendData(n)
      PROVE  IInv'
  <2>1. /\ EndRead(n, "data") /\ n \in Nat /\ n <= want /\ read + n <= MaxRead
        /\ total # Endless => read + n <= total
    BY <1>g, <1>4 DEF BackendData
  <2> QED
    BY <2>1, EndStep
<1>5. CASE BackendBlocks
  BY <1>5 DEF BackendBlocks, IInv, TypeOK, ReadInv, CountInv, EndInv, given
<1>6. CASE Tick
  <2>1. now' \in 0..MaxTime /\ UNCHANGED <<given, pc, want, read, blocked, result>>
    BY <1>g, <1>6 DEF Tick
  <2> QED
    BY <2>1 DEF IInv, TypeOK, ReadInv, CountInv, EndInv, given
<1>7. CASE UNCHANGED vars
  BY <1>7 DEF vars, IInv, TypeOK, ReadInv, CountInv, EndInv, given
<1> QED
  BY <1>1, <1>2, <1>3, <1>4, <1>5, <1>6, <1>7 DEF Next, Backend

-----------------------------------------------------------------------------
(* The theorems. *)

\* A Read in progress never asks the backend for more than MaxBytes leaves.
THEOREM Invariance == Spec => []IInv
  BY InitInv, NextInv, PTL DEF Spec

\* MaxBytes caps what a decode hands out, io.EOF comes for all of a recording
\* and ErrLimitExceeded for none that is shorter than MaxBytes.
THEOREM MaxBytesIsTheCap == Spec => []ByteCap
<1>1. IInv => ByteCap
  <2> SUFFICES ASSUME IInv PROVE ByteCap
    OBVIOUS
  <2>1. read \in Nat /\ (total # Endless => total \in Nat)
    BY Given DEF IInv
  <2>2. total \notin 0..(read - 1)
    <3>1. CASE total = Endless
      BY <2>1, <3>1, LimitedAssumption
    <3>2. CASE total # Endless
      BY <2>1, <3>2 DEF IInv, CountInv
    <3> QED
      BY <3>1, <3>2
  <2> QED
    BY <2>2 DEF IInv, CountInv, EndInv, ByteCap
<1> QED
  BY <1>1, Invariance, PTL
=============================================================================
