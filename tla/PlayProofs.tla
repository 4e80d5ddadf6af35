------------------------------ MODULE PlayProofs ------------------------------
(***************************************************************************)
(* Proofs about module Play, for any number of callers, formats, calls and *)
(* any length of audio: the inductive invariant IInv and the safety        *)
(* properties.                                                             *)
(***************************************************************************)
EXTENDS Play, TLAPS

\* mu is held by the one caller that looks at shared or waits for the device.
LockInv == \A c \in Callers : pc[c] \in {"context", "ready"} <=> mu = c

\* A context is in shared, or with the caller that waits for it to be ready.
ContextInv ==
    /\ \A c \in Callers : pc[c] = "ready" => shared = NoFormat
    /\ contexts = IF shared # NoFormat \/ (\E c \in Callers : pc[c] = "ready")
                  THEN 1 ELSE 0

HasFormat == {"lock", "context", "ready", "resume", "playing", "suspend", "failed", "late"}

HasContext == {"resume", "playing", "suspend", "failed", "late"}

\* What plays, plays by a context of its own format.
FormatInv ==
    /\ \A c \in Callers : pc[c] \in HasFormat => format[c] \in Formats
    /\ \A c \in Callers : pc[c] \in HasContext => shared = format[c]

\* A player is closed with nothing left to play unless the call fails.
LeftInv ==
    \A c \in Callers :
        /\ pc[c] = "suspend" => left[c] = 0
        /\ pc[c] = "idle" /\ result[c] = "played" => left[c] = 0

IInv == TypeOK /\ LockInv /\ ContextInv /\ FormatInv /\ LeftInv

-----------------------------------------------------------------------------
(* Every step keeps the invariant. *)

FlagsOK == ready \in BOOLEAN /\ running \in BOOLEAN /\ working \in BOOLEAN

DataOK ==
    /\ mu \in Callers \cup {"free"}
    /\ shared \in Formats \cup {NoFormat}
    /\ contexts \in Nat
    /\ decoders \subseteq {c \in Callers : pc[c] # "idle"}
    /\ pc \in [Callers -> {"idle", "new", "decode", "lock", "context", "ready",
                           "resume", "playing", "suspend", "failed", "late"}]
    /\ format \in [Callers -> Formats \cup {NoFormat}]
    /\ left \in [Callers -> 0..Length]
    /\ result \in [Callers -> {"none", "played", "failed", "format", "late"}]
    /\ calls \in 0..Calls

\* The flags, and the rest of the types.
LEMMA TypeParts == TypeOK <=> FlagsOK /\ DataOK
  BY DEF TypeOK, FlagsOK, DataOK

\* The flags stay flags.
LEMMA FlagsStep ==
    ASSUME IInv, Next
    PROVE  FlagsOK'
<1>t. FlagsOK
  BY TypeParts DEF IInv
<1>a. NoFormat \notin Formats /\ "free" \notin Callers /\ Length \in Nat /\ Calls \in Nat
  BY PlayAssumption
<1> USE DEF FlagsOK, Goto, ctxVars, devVars, callVars
<1>1. CASE DeviceReady
  BY <1>t, <1>a, <1>1 DEF DeviceReady
<1>2. CASE DeviceStops
  BY <1>t, <1>a, <1>2 DEF DeviceStops
<1>3. ASSUME NEW c \in Callers, New(c)
      PROVE  FlagsOK'
  BY <1>t, <1>a, <1>3 DEF New, Return
<1>4. ASSUME NEW c \in Callers, Decode(c)
      PROVE  FlagsOK'
  BY <1>t, <1>a, <1>4 DEF Decode, Return
<1>5. ASSUME NEW c \in Callers, Lock(c)
      PROVE  FlagsOK'
  BY <1>t, <1>a, <1>5 DEF Lock
<1>6. ASSUME NEW c \in Callers, Reuse(c)
      PROVE  FlagsOK'
  BY <1>t, <1>a, <1>6 DEF Reuse, Return
<1>7. ASSUME NEW c \in Callers, Create(c)
      PROVE  FlagsOK'
  BY <1>t, <1>a, <1>7 DEF Create
<1>8. ASSUME NEW c \in Callers, CreateFails(c)
      PROVE  FlagsOK'
  BY <1>t, <1>a, <1>8 DEF CreateFails, Return
<1>9. ASSUME NEW c \in Callers, Store(c)
      PROVE  FlagsOK'
  BY <1>t, <1>a, <1>9 DEF Store
<1>10. ASSUME NEW c \in Callers, Start(c)
      PROVE  FlagsOK'
  BY <1>t, <1>a, <1>10 DEF Start
<1>11. ASSUME NEW c \in Callers, ResumeFails(c)
      PROVE  FlagsOK'
  BY <1>t, <1>a, <1>11 DEF ResumeFails, Return
<1>12. ASSUME NEW c \in Callers, Finish(c) \/ Late(c) \/ PlayerFails(c)
      PROVE  FlagsOK'
  BY <1>t, <1>a, <1>12 DEF Finish, Late, PlayerFails
<1>13. ASSUME NEW c \in Callers, Suspend(c)
      PROVE  FlagsOK'
  BY <1>t, <1>a, <1>13 DEF Suspend, Return
<1>14. ASSUME NEW c \in Callers, Advance(c)
      PROVE  FlagsOK'
  BY <1>t, <1>a, <1>14 DEF Advance
<1>15. ASSUME NEW c \in Callers, Play(c)
      PROVE  FlagsOK'
  BY <1>t, <1>a, <1>15 DEF Play
<1>16. ASSUME NEW c \in Callers, \E f \in Formats : PCM(c, f)
      PROVE  FlagsOK'
  BY <1>t, <1>a, <1>16 DEF PCM
<1> QED
  BY <1>1, <1>2, <1>3, <1>4, <1>5, <1>6, <1>7, <1>8, <1>9, <1>10, <1>11, <1>12, <1>13, <1>14, <1>15, <1>16 DEF Next, Running

\* The types.
LEMMA DataStep ==
    ASSUME IInv, Next
    PROVE  DataOK'
<1>t. DataOK /\ FormatInv
  BY TypeParts DEF IInv
<1>a. NoFormat \notin Formats /\ "free" \notin Callers /\ Length \in Nat /\ Calls \in Nat
  BY PlayAssumption
<1> USE DEF DataOK, FormatInv, HasFormat, Goto, ctxVars, devVars, callVars
<1>1. CASE DeviceReady
  BY <1>t, <1>a, <1>1 DEF DeviceReady
<1>2. CASE DeviceStops
  BY <1>t, <1>a, <1>2 DEF DeviceStops
<1>3. ASSUME NEW c \in Callers, New(c)
      PROVE  DataOK'
  BY <1>t, <1>a, <1>3 DEF New, Return
<1>4. ASSUME NEW c \in Callers, Decode(c)
      PROVE  DataOK'
  BY <1>t, <1>a, <1>4 DEF Decode, Return
<1>5. ASSUME NEW c \in Callers, Lock(c)
      PROVE  DataOK'
  BY <1>t, <1>a, <1>5 DEF Lock
<1>6. ASSUME NEW c \in Callers, Reuse(c)
      PROVE  DataOK'
  BY <1>t, <1>a, <1>6 DEF Reuse, Return
<1>7. ASSUME NEW c \in Callers, Create(c)
      PROVE  DataOK'
  BY <1>t, <1>a, <1>7 DEF Create
<1>8. ASSUME NEW c \in Callers, CreateFails(c)
      PROVE  DataOK'
  BY <1>t, <1>a, <1>8 DEF CreateFails, Return
<1>9. ASSUME NEW c \in Callers, Store(c)
      PROVE  DataOK'
  BY <1>t, <1>a, <1>9 DEF Store
<1>10. ASSUME NEW c \in Callers, Start(c)
      PROVE  DataOK'
  BY <1>t, <1>a, <1>10 DEF Start
<1>11. ASSUME NEW c \in Callers, ResumeFails(c)
      PROVE  DataOK'
  BY <1>t, <1>a, <1>11 DEF ResumeFails, Return
<1>12. ASSUME NEW c \in Callers, Finish(c) \/ Late(c) \/ PlayerFails(c)
      PROVE  DataOK'
  BY <1>t, <1>a, <1>12 DEF Finish, Late, PlayerFails
<1>13. ASSUME NEW c \in Callers, Suspend(c)
      PROVE  DataOK'
  BY <1>t, <1>a, <1>13 DEF Suspend, Return
<1>14. ASSUME NEW c \in Callers, Advance(c)
      PROVE  DataOK'
  BY <1>t, <1>a, <1>14 DEF Advance
<1>15. ASSUME NEW c \in Callers, Play(c)
      PROVE  DataOK'
  BY <1>t, <1>a, <1>15 DEF Play
<1>16. ASSUME NEW c \in Callers, \E f \in Formats : PCM(c, f)
      PROVE  DataOK'
  BY <1>t, <1>a, <1>16 DEF PCM
<1> QED
  BY <1>1, <1>2, <1>3, <1>4, <1>5, <1>6, <1>7, <1>8, <1>9, <1>10, <1>11, <1>12, <1>13, <1>14, <1>15, <1>16 DEF Next, Running

\* One caller holds mu.
LEMMA LockStep ==
    ASSUME IInv, Next
    PROVE  LockInv'
<1>t. DataOK /\ LockInv
  BY TypeParts DEF IInv
<1>a. NoFormat \notin Formats /\ "free" \notin Callers /\ Length \in Nat /\ Calls \in Nat
  BY PlayAssumption
<1> USE DEF DataOK, LockInv, Goto, ctxVars, devVars, callVars
<1>1. CASE DeviceReady
  BY <1>t, <1>a, <1>1 DEF DeviceReady
<1>2. CASE DeviceStops
  BY <1>t, <1>a, <1>2 DEF DeviceStops
<1>3. ASSUME NEW c \in Callers, New(c)
      PROVE  LockInv'
  BY <1>t, <1>a, <1>3 DEF New, Return
<1>4. ASSUME NEW c \in Callers, Decode(c)
      PROVE  LockInv'
  BY <1>t, <1>a, <1>4 DEF Decode, Return
<1>5. ASSUME NEW c \in Callers, Lock(c)
      PROVE  LockInv'
  BY <1>t, <1>a, <1>5 DEF Lock
<1>6. ASSUME NEW c \in Callers, Reuse(c)
      PROVE  LockInv'
  BY <1>t, <1>a, <1>6 DEF Reuse, Return
<1>7. ASSUME NEW c \in Callers, Create(c)
      PROVE  LockInv'
  BY <1>t, <1>a, <1>7 DEF Create
<1>8. ASSUME NEW c \in Callers, CreateFails(c)
      PROVE  LockInv'
  BY <1>t, <1>a, <1>8 DEF CreateFails, Return
<1>9. ASSUME NEW c \in Callers, Store(c)
      PROVE  LockInv'
  BY <1>t, <1>a, <1>9 DEF Store
<1>10. ASSUME NEW c \in Callers, Start(c)
      PROVE  LockInv'
  BY <1>t, <1>a, <1>10 DEF Start
<1>11. ASSUME NEW c \in Callers, ResumeFails(c)
      PROVE  LockInv'
  BY <1>t, <1>a, <1>11 DEF ResumeFails, Return
<1>12. ASSUME NEW c \in Callers, Finish(c) \/ Late(c) \/ PlayerFails(c)
      PROVE  LockInv'
  BY <1>t, <1>a, <1>12 DEF Finish, Late, PlayerFails
<1>13. ASSUME NEW c \in Callers, Suspend(c)
      PROVE  LockInv'
  BY <1>t, <1>a, <1>13 DEF Suspend, Return
<1>14. ASSUME NEW c \in Callers, Advance(c)
      PROVE  LockInv'
  BY <1>t, <1>a, <1>14 DEF Advance
<1>15. ASSUME NEW c \in Callers, Play(c)
      PROVE  LockInv'
  BY <1>t, <1>a, <1>15 DEF Play
<1>16. ASSUME NEW c \in Callers, \E f \in Formats : PCM(c, f)
      PROVE  LockInv'
  BY <1>t, <1>a, <1>16 DEF PCM
<1> QED
  BY <1>1, <1>2, <1>3, <1>4, <1>5, <1>6, <1>7, <1>8, <1>9, <1>10, <1>11, <1>12, <1>13, <1>14, <1>15, <1>16 DEF Next, Running

\* At most one context.
LEMMA ContextStep ==
    ASSUME IInv, Next
    PROVE  ContextInv'
<1>t. DataOK /\ LockInv /\ ContextInv /\ FormatInv
  BY TypeParts DEF IInv
<1>a. NoFormat \notin Formats /\ "free" \notin Callers /\ Length \in Nat /\ Calls \in Nat
  BY PlayAssumption
<1> USE DEF DataOK, LockInv, ContextInv, FormatInv, HasFormat, Goto, ctxVars, devVars, callVars
<1>1. CASE DeviceReady
  BY <1>t, <1>a, <1>1 DEF DeviceReady
<1>2. CASE DeviceStops
  BY <1>t, <1>a, <1>2 DEF DeviceStops
<1>3. ASSUME NEW c \in Callers, New(c)
      PROVE  ContextInv'
  BY <1>t, <1>a, <1>3 DEF New, Return
<1>4. ASSUME NEW c \in Callers, Decode(c)
      PROVE  ContextInv'
  BY <1>t, <1>a, <1>4 DEF Decode, Return
<1>5. ASSUME NEW c \in Callers, Lock(c)
      PROVE  ContextInv'
  BY <1>t, <1>a, <1>5 DEF Lock
<1>6. ASSUME NEW c \in Callers, Reuse(c)
      PROVE  ContextInv'
  BY <1>t, <1>a, <1>6 DEF Reuse, Return
<1>7. ASSUME NEW c \in Callers, Create(c)
      PROVE  ContextInv'
  BY <1>t, <1>a, <1>7 DEF Create
<1>8. ASSUME NEW c \in Callers, CreateFails(c)
      PROVE  ContextInv'
  BY <1>t, <1>a, <1>8 DEF CreateFails, Return
<1>9. ASSUME NEW c \in Callers, Store(c)
      PROVE  ContextInv'
  BY <1>t, <1>a, <1>9 DEF Store
<1>10. ASSUME NEW c \in Callers, Start(c)
      PROVE  ContextInv'
  BY <1>t, <1>a, <1>10 DEF Start
<1>11. ASSUME NEW c \in Callers, ResumeFails(c)
      PROVE  ContextInv'
  BY <1>t, <1>a, <1>11 DEF ResumeFails, Return
<1>12. ASSUME NEW c \in Callers, Finish(c) \/ Late(c) \/ PlayerFails(c)
      PROVE  ContextInv'
  BY <1>t, <1>a, <1>12 DEF Finish, Late, PlayerFails
<1>13. ASSUME NEW c \in Callers, Suspend(c)
      PROVE  ContextInv'
  BY <1>t, <1>a, <1>13 DEF Suspend, Return
<1>14. ASSUME NEW c \in Callers, Advance(c)
      PROVE  ContextInv'
  BY <1>t, <1>a, <1>14 DEF Advance
<1>15. ASSUME NEW c \in Callers, Play(c)
      PROVE  ContextInv'
  BY <1>t, <1>a, <1>15 DEF Play
<1>16. ASSUME NEW c \in Callers, \E f \in Formats : PCM(c, f)
      PROVE  ContextInv'
  BY <1>t, <1>a, <1>16 DEF PCM
<1> QED
  BY <1>1, <1>2, <1>3, <1>4, <1>5, <1>6, <1>7, <1>8, <1>9, <1>10, <1>11, <1>12, <1>13, <1>14, <1>15, <1>16 DEF Next, Running

\* Its format.
LEMMA FormatStep ==
    ASSUME IInv, Next
    PROVE  FormatInv'
<1>t. DataOK /\ ContextInv /\ FormatInv
  BY TypeParts DEF IInv
<1>a. NoFormat \notin Formats /\ "free" \notin Callers /\ Length \in Nat /\ Calls \in Nat
  BY PlayAssumption
<1> USE DEF DataOK, ContextInv, FormatInv, HasFormat, HasContext, Goto, ctxVars, devVars, callVars
<1>1. CASE DeviceReady
  BY <1>t, <1>a, <1>1 DEF DeviceReady
<1>2. CASE DeviceStops
  BY <1>t, <1>a, <1>2 DEF DeviceStops
<1>3. ASSUME NEW c \in Callers, New(c)
      PROVE  FormatInv'
  BY <1>t, <1>a, <1>3 DEF New, Return
<1>4. ASSUME NEW c \in Callers, Decode(c)
      PROVE  FormatInv'
  BY <1>t, <1>a, <1>4 DEF Decode, Return
<1>5. ASSUME NEW c \in Callers, Lock(c)
      PROVE  FormatInv'
  BY <1>t, <1>a, <1>5 DEF Lock
<1>6. ASSUME NEW c \in Callers, Reuse(c)
      PROVE  FormatInv'
  BY <1>t, <1>a, <1>6 DEF Reuse, Return
<1>7. ASSUME NEW c \in Callers, Create(c)
      PROVE  FormatInv'
  BY <1>t, <1>a, <1>7 DEF Create
<1>8. ASSUME NEW c \in Callers, CreateFails(c)
      PROVE  FormatInv'
  BY <1>t, <1>a, <1>8 DEF CreateFails, Return
<1>9. ASSUME NEW c \in Callers, Store(c)
      PROVE  FormatInv'
  BY <1>t, <1>a, <1>9 DEF Store
<1>10. ASSUME NEW c \in Callers, Start(c)
      PROVE  FormatInv'
  BY <1>t, <1>a, <1>10 DEF Start
<1>11. ASSUME NEW c \in Callers, ResumeFails(c)
      PROVE  FormatInv'
  BY <1>t, <1>a, <1>11 DEF ResumeFails, Return
<1>12. ASSUME NEW c \in Callers, Finish(c) \/ Late(c) \/ PlayerFails(c)
      PROVE  FormatInv'
  BY <1>t, <1>a, <1>12 DEF Finish, Late, PlayerFails
<1>13. ASSUME NEW c \in Callers, Suspend(c)
      PROVE  FormatInv'
  BY <1>t, <1>a, <1>13 DEF Suspend, Return
<1>14. ASSUME NEW c \in Callers, Advance(c)
      PROVE  FormatInv'
  BY <1>t, <1>a, <1>14 DEF Advance
<1>15. ASSUME NEW c \in Callers, Play(c)
      PROVE  FormatInv'
  BY <1>t, <1>a, <1>15 DEF Play
<1>16. ASSUME NEW c \in Callers, \E f \in Formats : PCM(c, f)
      PROVE  FormatInv'
  BY <1>t, <1>a, <1>16 DEF PCM
<1> QED
  BY <1>1, <1>2, <1>3, <1>4, <1>5, <1>6, <1>7, <1>8, <1>9, <1>10, <1>11, <1>12, <1>13, <1>14, <1>15, <1>16 DEF Next, Running

\* What is left to play.
LEMMA LeftStep ==
    ASSUME IInv, Next
    PROVE  LeftInv'
<1>t. DataOK /\ LeftInv
  BY TypeParts DEF IInv
<1>a. NoFormat \notin Formats /\ "free" \notin Callers /\ Length \in Nat /\ Calls \in Nat
  BY PlayAssumption
<1> USE DEF DataOK, LeftInv, Goto, ctxVars, devVars, callVars
<1>1. CASE DeviceReady
  BY <1>t, <1>a, <1>1 DEF DeviceReady
<1>2. CASE DeviceStops
  BY <1>t, <1>a, <1>2 DEF DeviceStops
<1>3. ASSUME NEW c \in Callers, New(c)
      PROVE  LeftInv'
  BY <1>t, <1>a, <1>3 DEF New, Return
<1>4. ASSUME NEW c \in Callers, Decode(c)
      PROVE  LeftInv'
  BY <1>t, <1>a, <1>4 DEF Decode, Return
<1>5. ASSUME NEW c \in Callers, Lock(c)
      PROVE  LeftInv'
  BY <1>t, <1>a, <1>5 DEF Lock
<1>6. ASSUME NEW c \in Callers, Reuse(c)
      PROVE  LeftInv'
  BY <1>t, <1>a, <1>6 DEF Reuse, Return
<1>7. ASSUME NEW c \in Callers, Create(c)
      PROVE  LeftInv'
  BY <1>t, <1>a, <1>7 DEF Create
<1>8. ASSUME NEW c \in Callers, CreateFails(c)
      PROVE  LeftInv'
  BY <1>t, <1>a, <1>8 DEF CreateFails, Return
<1>9. ASSUME NEW c \in Callers, Store(c)
      PROVE  LeftInv'
  BY <1>t, <1>a, <1>9 DEF Store
<1>10. ASSUME NEW c \in Callers, Start(c)
      PROVE  LeftInv'
  BY <1>t, <1>a, <1>10 DEF Start
<1>11. ASSUME NEW c \in Callers, ResumeFails(c)
      PROVE  LeftInv'
  BY <1>t, <1>a, <1>11 DEF ResumeFails, Return
<1>12. ASSUME NEW c \in Callers, Finish(c) \/ Late(c) \/ PlayerFails(c)
      PROVE  LeftInv'
  BY <1>t, <1>a, <1>12 DEF Finish, Late, PlayerFails
<1>13. ASSUME NEW c \in Callers, Suspend(c)
      PROVE  LeftInv'
  BY <1>t, <1>a, <1>13 DEF Suspend, Return
<1>14. ASSUME NEW c \in Callers, Advance(c)
      PROVE  LeftInv'
  BY <1>t, <1>a, <1>14 DEF Advance
<1>15. ASSUME NEW c \in Callers, Play(c)
      PROVE  LeftInv'
  BY <1>t, <1>a, <1>15 DEF Play
<1>16. ASSUME NEW c \in Callers, \E f \in Formats : PCM(c, f)
      PROVE  LeftInv'
  BY <1>t, <1>a, <1>16 DEF PCM
<1> QED
  BY <1>1, <1>2, <1>3, <1>4, <1>5, <1>6, <1>7, <1>8, <1>9, <1>10, <1>11, <1>12, <1>13, <1>14, <1>15, <1>16 DEF Next, Running

\* The invariant holds at the start.
LEMMA InitInv == Init => IInv
<1> SUFFICES ASSUME Init PROVE IInv
  OBVIOUS
<1> USE PlayAssumption DEF Init
<1>1. FlagsOK
  BY DEF FlagsOK
<1>2. DataOK
  BY DEF DataOK
<1>3. LockInv /\ ContextInv /\ LeftInv
  BY DEF LockInv, ContextInv, LeftInv
<1>4. FormatInv
  BY DEF FormatInv, HasFormat, HasContext
<1> QED
  BY <1>1, <1>2, <1>3, <1>4, TypeParts DEF IInv

\* And every step keeps it.
LEMMA NextInv == IInv /\ [Next]_vars => IInv'
<1> SUFFICES ASSUME IInv, [Next]_vars PROVE IInv'
  OBVIOUS
<1>1. CASE Next
  <2>1. TypeOK'
    <3>1. FlagsOK' /\ DataOK'
      BY <1>1, FlagsStep, DataStep
    <3> QED
      BY <3>1 DEF TypeOK, FlagsOK, DataOK
  <2> QED
    BY <1>1, <2>1, LockStep, ContextStep, FormatStep, LeftStep DEF IInv
<1>2. CASE UNCHANGED vars
  <2> USE <1>2 DEF vars, ctxVars, devVars, callVars, IInv
  <2>1. TypeOK'
    BY DEF TypeOK
  <2>2. LockInv' /\ ContextInv' /\ FormatInv' /\ LeftInv'
    BY DEF LockInv, ContextInv, FormatInv, LeftInv
  <2> QED
    BY <2>1, <2>2
<1> QED
  BY <1>1, <1>2

\* The inductive invariant holds in every state.
THEOREM Invariance == Spec => []IInv
  BY InitInv, NextInv, PTL DEF Spec

-----------------------------------------------------------------------------
(* The properties. *)

\* However many callers come at once, the process has one oto context, and PCM
\* is played only by one of its own format.
THEOREM ContextIsShared == Spec => []OneContext
<1>1. IInv => OneContext
  BY DEF IInv, ContextInv, FormatInv, HasContext, OneContext
<1> QED
  BY <1>1, Invariance, PTL

\* PCM that reports success has played the audio to its end.
THEOREM SuccessIsTheEnd == Spec => []PlayedToTheEnd
<1>1. IInv => PlayedToTheEnd
  BY DEF IInv, LeftInv, PlayedToTheEnd
<1> QED
  BY <1>1, Invariance, PTL
=============================================================================
