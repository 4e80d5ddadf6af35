----------------------------- MODULE FFmpegProofs -----------------------------
(***************************************************************************)
(* Proofs about module FFmpeg, for recordings of any length and kind,      *)
(* pipes of any capacity, reads of any size and any number of Closes, with *)
(* and without a launcher shim: the inductive invariant IInv, the safety   *)
(* properties, and that FFmpeg implements ReadCloser.                      *)
(***************************************************************************)
EXTENDS FFmpeg, SequenceTheorems, TLAPS

StreamPC == {"idle", "reading", "reap", "closing", "closed"}

\* Without a shim the child is the worker; a child that ended well has passed
\* on the end of a worker that has written everything.
ProcInv ==
    /\ worker = "none" <=> child = "none"
    /\ ~shim => child = worker
    /\ child = "ok" => worker = "ok"
    /\ worker = "ok" => made = Total

\* What was written is in the pipe or read, until a Close drains the pipe.
PipeInv ==
    /\ got + inPipe <= made
    /\ closes = 0 => got + inPipe = made

\* Where the caller is tells what there is.
PhaseInv ==
    /\ pc \in {"create", "fill", "probe", "start"} =>
          child = "none" /\ fate = "none" /\ ~readEnd
    /\ pc = "create" => entry = "FFmpegDecode" /\ ~temp
    /\ pc = "load" => child # "none" /\ fate = "none"
    /\ pc \in {"remove", "done"} => Hangup /\ ~readEnd /\ (child # "none" => waited)
    /\ pc = "done" => ~temp
    /\ pc \in StreamPC => child # "none" /\ ~temp
    /\ pc = "reap" => AtEOF
    /\ pc \in {"closing", "closed"} <=> closes > 0
    /\ entry = "FFmpegStream" => ~temp

\* ffmpeg is waited for once it and its pipes are gone, and that closes the
\* pipe: nothing is read after the first end or error.
WaitInv ==
    /\ waited => Hangup /\ ~readEnd /\ child # "none"
    /\ drained => Hangup /\ child # "none"
    /\ fate # "none" => ~readEnd
    /\ \A k \in Calls : /\ helper[k] = "done" => waited
                        /\ helper[k] # "none" => closes > 0

\* A Close that waits has its goroutine; once Close has returned ffmpeg was
\* waited for, or a goroutine is about to.
LeftInv ==
    /\ pc = "closing" => closes \in Calls /\ helper[closes] # "none"
    /\ pc = "closed" => waited \/ AtWork

IInv == TypeOK /\ ProcInv /\ PipeInv /\ PhaseInv /\ WaitInv /\ LeftInv

-----------------------------------------------------------------------------
(* Every step keeps the invariant. *)

FlagsOK ==
    /\ shim \in BOOLEAN /\ temp \in BOOLEAN /\ killed \in BOOLEAN
    /\ readEnd \in BOOLEAN /\ waited \in BOOLEAN /\ drained \in BOOLEAN

DataOK ==
    /\ entry \in {"FFmpegStream", "FFmpegLoad", "FFmpegDecode"}
    /\ recording \in Recordings
    /\ worker \in Status /\ child \in Status
    /\ made \in 0..Total /\ inPipe \in 0..Capacity /\ got \in 0..Total
    /\ pc \in OpenPC \cup {"done", "idle", "reading", "reap", "closing", "closed"}
    /\ helper \in [Calls -> {"none", "copy", "reap", "done"}]
    /\ closes \in 0..Closes
    /\ fate \in {"none", "eof", "error"}

\* The flags, and the rest of the types.
LEMMA TypeParts == TypeOK <=> FlagsOK /\ DataOK
  BY DEF TypeOK, FlagsOK, DataOK

\* The flags stay flags.
LEMMA FlagsStep ==
    ASSUME IInv, Next
    PROVE  FlagsOK'
<1>t. FlagsOK /\ TypeOK
  BY TypeParts DEF IInv
<1> USE DEF FlagsOK, given, procVars, pipeVars, waitVars, closeVars, readVars, sourceVars
<1>1. CASE Produce
  BY <1>t, <1>1 DEF Produce
<1>2. CASE Finish \/ Fail
  BY <1>t, <1>2 DEF Finish, Fail, Exit, ChildFollows
<1>3. CASE ShimExit
  BY <1>t, <1>3 DEF ShimExit
<1>4. CASE Probe
  BY <1>t, <1>4 DEF Probe, Failed, Leave
<1>5. CASE CreateTemp
  BY <1>t, <1>5 DEF CreateTemp, Failed, Leave
<1>6. CASE FillTemp
  BY <1>t, <1>6 DEF FillTemp, Failed, Leave
<1>7. CASE Start
  BY <1>t, <1>7 DEF Start, Failed, Leave
<1>8. CASE LoadCopy
  BY <1>t, <1>8 DEF LoadCopy
<1>9. CASE LoadReturn
  BY <1>t, <1>9 DEF LoadReturn, Leave, Reap
<1>10. CASE RemoveTemp
  BY <1>t, <1>10 DEF RemoveTemp
<1>11. CASE Read
  BY <1>t, <1>11 DEF Read
<1>12. CASE \E n \in ReadSizes : ReadData(n)
  BY <1>t, <1>12 DEF ReadData
<1>13. CASE ReadClosed
  BY <1>t, <1>13 DEF ReadClosed, Return
<1>14. CASE ReadEOF
  BY <1>t, <1>14 DEF ReadEOF
<1>15. CASE ReadReap
  BY <1>t, <1>15 DEF ReadReap, Return, Reap
<1>16. CASE CloseDrained
  BY <1>t, <1>16 DEF CloseDrained, MayClose, Reap
<1>17. CASE CloseAbandoned
  BY <1>t, <1>17 DEF CloseAbandoned, MayClose, Kill
<1>18. CASE \E k \in Calls : HelperCopy(k)
  BY <1>t, <1>18 DEF HelperCopy
<1>19. CASE \E k \in Calls : HelperReap(k)
  BY <1>t, <1>19 DEF HelperReap, Reap
<1>20. CASE CloseDone \/ CloseTimeout
  BY <1>t, <1>20 DEF CloseDone, CloseTimeout
<1>21. CASE Die
  BY <1>t, <1>21 DEF Die
<1> QED
  BY <1>1, <1>2, <1>3, <1>4, <1>5, <1>6, <1>7, <1>8, <1>9, <1>10, <1>11, <1>12, <1>13, <1>14, <1>15, <1>16, <1>17, <1>18, <1>19, <1>20, <1>21
     DEF Next, Process, Opening, Reading, Closing, Helping

\* What is read and written stays in its bounds.
LEMMA DataStep ==
    ASSUME IInv, Next
    PROVE  DataOK'
<1>t. DataOK /\ PipeInv
  BY TypeParts DEF IInv
<1>a. Total \in Nat /\ Capacity \in Nat /\ Closes \in Nat /\ ReadSizes \subseteq Nat
  BY FFmpegAssumption
<1> USE DEF DataOK, PipeInv, Status, OpenPC, given, procVars, pipeVars, waitVars, closeVars, readVars, sourceVars
<1>1. CASE Produce
  BY <1>t, <1>a, <1>1 DEF Produce
<1>2. CASE Finish \/ Fail
  BY <1>t, <1>a, <1>2 DEF Finish, Fail, Exit, ChildFollows
<1>3. CASE ShimExit
  BY <1>t, <1>a, <1>3 DEF ShimExit
<1>4. CASE Probe
  BY <1>t, <1>a, <1>4 DEF Probe, Failed, Leave
<1>5. CASE CreateTemp
  BY <1>t, <1>a, <1>5 DEF CreateTemp, Failed, Leave
<1>6. CASE FillTemp
  BY <1>t, <1>a, <1>6 DEF FillTemp, Failed, Leave
<1>7. CASE Start
  BY <1>t, <1>a, <1>7 DEF Start, Failed, Leave
<1>8. CASE LoadCopy
  BY <1>t, <1>a, <1>8 DEF LoadCopy
<1>9. CASE LoadReturn
  BY <1>t, <1>a, <1>9 DEF LoadReturn, Leave, Reap
<1>10. CASE RemoveTemp
  BY <1>t, <1>a, <1>10 DEF RemoveTemp
<1>11. CASE Read
  BY <1>t, <1>a, <1>11 DEF Read
<1>12. CASE \E n \in ReadSizes : ReadData(n)
  BY <1>t, <1>a, <1>12 DEF ReadData
<1>13. CASE ReadClosed
  BY <1>t, <1>a, <1>13 DEF ReadClosed, Return
<1>14. CASE ReadEOF
  BY <1>t, <1>a, <1>14 DEF ReadEOF
<1>15. CASE ReadReap
  BY <1>t, <1>a, <1>15 DEF ReadReap, Return, Reap
<1>16. CASE CloseDrained
  BY <1>t, <1>a, <1>16 DEF CloseDrained, MayClose, Reap
<1>17. CASE CloseAbandoned
  <2>1. UNCHANGED <<child, worker, made>>
    BY <1>t, <1>17 DEF CloseAbandoned, Kill
  <2>2. closes' \in 0..Closes
    BY <1>t, <1>a, <1>17 DEF CloseAbandoned, MayClose
  <2>3. helper' \in [Calls -> {"none", "copy", "reap", "done"}]
    BY <1>t, <1>17 DEF CloseAbandoned
  <2> QED
    BY <1>t, <1>17, <2>1, <2>2, <2>3 DEF CloseAbandoned
<1>18. CASE \E k \in Calls : HelperCopy(k)
  BY <1>t, <1>a, <1>18 DEF HelperCopy
<1>19. CASE \E k \in Calls : HelperReap(k)
  BY <1>t, <1>a, <1>19 DEF HelperReap, Reap
<1>20. CASE CloseDone \/ CloseTimeout
  BY <1>t, <1>a, <1>20 DEF CloseDone, CloseTimeout
<1>21. CASE Die
  BY <1>t, <1>a, <1>21 DEF Die
<1> QED
  BY <1>1, <1>2, <1>3, <1>4, <1>5, <1>6, <1>7, <1>8, <1>9, <1>10, <1>11, <1>12, <1>13, <1>14, <1>15, <1>16, <1>17, <1>18, <1>19, <1>20, <1>21
     DEF Next, Process, Opening, Reading, Closing, Helping

\* The processes.
LEMMA ProcStep ==
    ASSUME IInv, Next
    PROVE  ProcInv'
<1>t. DataOK /\ ProcInv /\ PhaseInv
  BY TypeParts DEF IInv
<1> USE DEF ProcInv, PhaseInv, StreamPC, Hangup, given, procVars, pipeVars, waitVars, closeVars, readVars, sourceVars
<1>1. CASE Produce
  BY <1>t, <1>1 DEF Produce
<1>2. CASE Finish \/ Fail
  BY <1>t, <1>2 DEF Finish, Fail, Exit, ChildFollows
<1>3. CASE ShimExit
  BY <1>t, <1>3 DEF ShimExit
<1>4. CASE Probe
  BY <1>t, <1>4 DEF Probe, Failed, Leave
<1>5. CASE CreateTemp
  BY <1>t, <1>5 DEF CreateTemp, Failed, Leave
<1>6. CASE FillTemp
  BY <1>t, <1>6 DEF FillTemp, Failed, Leave
<1>7. CASE Start
  BY <1>t, <1>7 DEF Start, Failed, Leave
<1>8. CASE LoadCopy
  BY <1>t, <1>8 DEF LoadCopy
<1>9. CASE LoadReturn
  BY <1>t, <1>9 DEF LoadReturn, Leave, Reap
<1>10. CASE RemoveTemp
  BY <1>t, <1>10 DEF RemoveTemp
<1>11. CASE Read
  BY <1>t, <1>11 DEF Read
<1>12. CASE \E n \in ReadSizes : ReadData(n)
  BY <1>t, <1>12 DEF ReadData
<1>13. CASE ReadClosed
  BY <1>t, <1>13 DEF ReadClosed, Return
<1>14. CASE ReadEOF
  BY <1>t, <1>14 DEF ReadEOF
<1>15. CASE ReadReap
  BY <1>t, <1>15 DEF ReadReap, Return, Reap
<1>16. CASE CloseDrained
  BY <1>t, <1>16 DEF CloseDrained, MayClose, Reap
<1>17. CASE CloseAbandoned
  BY <1>t, <1>17 DEF CloseAbandoned, MayClose, Kill
<1>18. CASE \E k \in Calls : HelperCopy(k)
  BY <1>t, <1>18 DEF HelperCopy
<1>19. CASE \E k \in Calls : HelperReap(k)
  BY <1>t, <1>19 DEF HelperReap, Reap
<1>20. CASE CloseDone \/ CloseTimeout
  BY <1>t, <1>20 DEF CloseDone, CloseTimeout
<1>21. CASE Die
  BY <1>t, <1>21 DEF Die
<1> QED
  BY <1>1, <1>2, <1>3, <1>4, <1>5, <1>6, <1>7, <1>8, <1>9, <1>10, <1>11, <1>12, <1>13, <1>14, <1>15, <1>16, <1>17, <1>18, <1>19, <1>20, <1>21
     DEF Next, Process, Opening, Reading, Closing, Helping

\* The pipe.
LEMMA PipeStep ==
    ASSUME IInv, Next
    PROVE  PipeInv'
<1>t. DataOK /\ PipeInv /\ PhaseInv /\ WaitInv
  BY TypeParts DEF IInv
<1>a. ReadSizes \subseteq Nat /\ Closes \in Nat
  BY FFmpegAssumption
<1> USE DEF DataOK, PipeInv, PhaseInv, WaitInv, given, procVars, pipeVars, waitVars, closeVars, readVars, sourceVars
<1>1. CASE Produce
  BY <1>t, <1>a, <1>1 DEF Produce
<1>2. CASE Finish \/ Fail
  BY <1>t, <1>a, <1>2 DEF Finish, Fail, Exit, ChildFollows
<1>3. CASE ShimExit
  BY <1>t, <1>a, <1>3 DEF ShimExit
<1>4. CASE Probe
  BY <1>t, <1>a, <1>4 DEF Probe, Failed, Leave
<1>5. CASE CreateTemp
  BY <1>t, <1>a, <1>5 DEF CreateTemp, Failed, Leave
<1>6. CASE FillTemp
  BY <1>t, <1>a, <1>6 DEF FillTemp, Failed, Leave
<1>7. CASE Start
  BY <1>t, <1>a, <1>7 DEF Start, Failed, Leave
<1>8. CASE LoadCopy
  BY <1>t, <1>a, <1>8 DEF LoadCopy
<1>9. CASE LoadReturn
  BY <1>t, <1>a, <1>9 DEF LoadReturn, Leave, Reap
<1>10. CASE RemoveTemp
  BY <1>t, <1>a, <1>10 DEF RemoveTemp
<1>11. CASE Read
  BY <1>t, <1>a, <1>11 DEF Read
<1>12. CASE \E n \in ReadSizes : ReadData(n)
  BY <1>t, <1>a, <1>12 DEF ReadData
<1>13. CASE ReadClosed
  BY <1>t, <1>a, <1>13 DEF ReadClosed, Return
<1>14. CASE ReadEOF
  BY <1>t, <1>a, <1>14 DEF ReadEOF
<1>15. CASE ReadReap
  BY <1>t, <1>a, <1>15 DEF ReadReap, Return, Reap
<1>16. CASE CloseDrained
  BY <1>t, <1>a, <1>16 DEF CloseDrained, MayClose, Reap
<1>17. CASE CloseAbandoned
  BY <1>t, <1>a, <1>17 DEF CloseAbandoned, MayClose, Kill
<1>18. CASE \E k \in Calls : HelperCopy(k)
  BY <1>t, <1>a, <1>18 DEF HelperCopy
<1>19. CASE \E k \in Calls : HelperReap(k)
  BY <1>t, <1>a, <1>19 DEF HelperReap, Reap
<1>20. CASE CloseDone \/ CloseTimeout
  BY <1>t, <1>a, <1>20 DEF CloseDone, CloseTimeout
<1>21. CASE Die
  BY <1>t, <1>a, <1>21 DEF Die
<1> QED
  BY <1>1, <1>2, <1>3, <1>4, <1>5, <1>6, <1>7, <1>8, <1>9, <1>10, <1>11, <1>12, <1>13, <1>14, <1>15, <1>16, <1>17, <1>18, <1>19, <1>20, <1>21
     DEF Next, Process, Opening, Reading, Closing, Helping

\* Where the caller is.
LEMMA PhaseStep ==
    ASSUME IInv, Next
    PROVE  PhaseInv'
<1>t. DataOK /\ FlagsOK /\ ProcInv /\ PhaseInv /\ WaitInv
  BY TypeParts DEF IInv
<1> USE DEF DataOK, ProcInv, PhaseInv, WaitInv, Clean, AtEOF, Hangup, StreamPC, OpenPC, given, procVars, pipeVars, waitVars, closeVars, readVars, sourceVars
<1>1. CASE Produce
  BY <1>t, <1>1 DEF Produce
<1>2. CASE Finish \/ Fail
  BY <1>t, <1>2 DEF Finish, Fail, Exit, ChildFollows
<1>3. CASE ShimExit
  BY <1>t, <1>3 DEF ShimExit
<1>4. CASE Probe
  BY <1>t, <1>4 DEF Probe, Failed, Leave
<1>5. CASE CreateTemp
  BY <1>t, <1>5 DEF CreateTemp, Failed, Leave
<1>6. CASE FillTemp
  BY <1>t, <1>6 DEF FillTemp, Failed, Leave
<1>7. CASE Start
  BY <1>t, <1>7 DEF Start, Failed, Leave
<1>8. CASE LoadCopy
  BY <1>t, <1>8 DEF LoadCopy
<1>9. CASE LoadReturn
  BY <1>t, <1>9 DEF LoadReturn, Leave, Reap
<1>10. CASE RemoveTemp
  BY <1>t, <1>10 DEF RemoveTemp
<1>11. CASE Read
  BY <1>t, <1>11 DEF Read
<1>12. CASE \E n \in ReadSizes : ReadData(n)
  BY <1>t, <1>12 DEF ReadData
<1>13. CASE ReadClosed
  BY <1>t, <1>13 DEF ReadClosed, Return
<1>14. CASE ReadEOF
  BY <1>t, <1>14 DEF ReadEOF
<1>15. CASE ReadReap
  BY <1>t, <1>15 DEF ReadReap, Return, Reap
<1>16. CASE CloseDrained
  BY <1>t, <1>16 DEF CloseDrained, MayClose, Reap
<1>17. CASE CloseAbandoned
  BY <1>t, <1>17 DEF CloseAbandoned, MayClose, Kill
<1>18. CASE \E k \in Calls : HelperCopy(k)
  BY <1>t, <1>18 DEF HelperCopy
<1>19. CASE \E k \in Calls : HelperReap(k)
  BY <1>t, <1>19 DEF HelperReap, Reap
<1>20. CASE CloseDone \/ CloseTimeout
  BY <1>t, <1>20 DEF CloseDone, CloseTimeout
<1>21. CASE Die
  BY <1>t, <1>21 DEF Die
<1> QED
  BY <1>1, <1>2, <1>3, <1>4, <1>5, <1>6, <1>7, <1>8, <1>9, <1>10, <1>11, <1>12, <1>13, <1>14, <1>15, <1>16, <1>17, <1>18, <1>19, <1>20, <1>21
     DEF Next, Process, Opening, Reading, Closing, Helping

\* Waiting for ffmpeg.
LEMMA WaitStep ==
    ASSUME IInv, Next
    PROVE  WaitInv'
<1>t. DataOK /\ FlagsOK /\ ProcInv /\ PhaseInv /\ WaitInv
  BY TypeParts DEF IInv
<1> USE DEF DataOK, ProcInv, PhaseInv, WaitInv, AtEOF, Hangup, StreamPC, OpenPC, given, procVars, pipeVars, waitVars, closeVars, readVars, sourceVars
<1>1. CASE Produce
  BY <1>t, <1>1 DEF Produce
<1>2. CASE Finish \/ Fail
  BY <1>t, <1>2 DEF Finish, Fail, Exit, ChildFollows
<1>3. CASE ShimExit
  BY <1>t, <1>3 DEF ShimExit
<1>4. CASE Probe
  BY <1>t, <1>4 DEF Probe, Failed, Leave
<1>5. CASE CreateTemp
  BY <1>t, <1>5 DEF CreateTemp, Failed, Leave
<1>6. CASE FillTemp
  BY <1>t, <1>6 DEF FillTemp, Failed, Leave
<1>7. CASE Start
  BY <1>t, <1>7 DEF Start, Failed, Leave
<1>8. CASE LoadCopy
  BY <1>t, <1>8 DEF LoadCopy
<1>9. CASE LoadReturn
  BY <1>t, <1>9 DEF LoadReturn, Leave, Reap
<1>10. CASE RemoveTemp
  BY <1>t, <1>10 DEF RemoveTemp
<1>11. CASE Read
  BY <1>t, <1>11 DEF Read
<1>12. CASE \E n \in ReadSizes : ReadData(n)
  BY <1>t, <1>12 DEF ReadData
<1>13. CASE ReadClosed
  BY <1>t, <1>13 DEF ReadClosed, Return
<1>14. CASE ReadEOF
  BY <1>t, <1>14 DEF ReadEOF
<1>15. CASE ReadReap
  BY <1>t, <1>15 DEF ReadReap, Return, Reap
<1>16. CASE CloseDrained
  BY <1>t, <1>16 DEF CloseDrained, MayClose, Reap
<1>17. CASE CloseAbandoned
  BY <1>t, <1>17 DEF CloseAbandoned, MayClose, Kill
<1>18. CASE \E k \in Calls : HelperCopy(k)
  BY <1>t, <1>18 DEF HelperCopy
<1>19. CASE \E k \in Calls : HelperReap(k)
  BY <1>t, <1>19 DEF HelperReap, Reap
<1>20. CASE CloseDone \/ CloseTimeout
  BY <1>t, <1>20 DEF CloseDone, CloseTimeout
<1>21. CASE Die
  BY <1>t, <1>21 DEF Die
<1> QED
  BY <1>1, <1>2, <1>3, <1>4, <1>5, <1>6, <1>7, <1>8, <1>9, <1>10, <1>11, <1>12, <1>13, <1>14, <1>15, <1>16, <1>17, <1>18, <1>19, <1>20, <1>21
     DEF Next, Process, Opening, Reading, Closing, Helping

\* What Close leaves behind is in somebody's hands.
LEMMA LeftStep ==
    ASSUME IInv, Next
    PROVE  LeftInv'
<1>t. /\ pc \in {"closing", "closed"} <=> closes > 0
      /\ helper \in [Calls -> {"none", "copy", "reap", "done"}] /\ closes \in 0..Closes
      /\ LeftInv /\ \A k \in Calls : helper[k] = "done" => waited
  BY DEF IInv, TypeOK, PhaseInv, WaitInv
<1>a. Closes \in Nat
  BY FFmpegAssumption
<1> USE DEF LeftInv, AtWork, Calls
<1>1. ASSUME UNCHANGED <<pc, helper, closes, waited>>
      PROVE  LeftInv'
  BY <1>t, <1>1
<1>2. ASSUME pc' \notin {"closing", "closed"}
      PROVE  LeftInv'
  BY <1>2
<1> USE DEF given, procVars, pipeVars, waitVars, closeVars, readVars, sourceVars
<1>3. CASE Produce \/ Finish \/ Fail \/ ShimExit \/ Die
  BY <1>1, <1>3 DEF Produce, Finish, Fail, Exit, ShimExit, Die
<1>4. CASE Probe \/ Opening \/ Read
  BY <1>2, <1>4 DEF Probe, Failed, Leave, Opening, CreateTemp, FillTemp, Start, LoadCopy,
                    LoadReturn, RemoveTemp, Read
<1>5. CASE Reading
  BY <1>2, <1>5 DEF Reading, ReadData, ReadClosed, ReadEOF, ReadReap, Return
<1>6. CASE CloseDrained \/ \E k \in Calls : HelperReap(k)
  <2>1. waited'
    BY <1>6 DEF CloseDrained, HelperReap, Reap
  <2>2. pc' = "closing" => closes' \in Calls /\ helper'[closes'] # "none"
    <3>1. CASE CloseDrained
      BY <3>1 DEF CloseDrained
    <3>2. ASSUME NEW k \in Calls, HelperReap(k)
          PROVE  pc' = "closing" => closes' \in Calls /\ helper'[closes'] # "none"
      BY <1>t, <3>2 DEF HelperReap
    <3> QED
      BY <1>6, <3>1, <3>2
  <2> QED
    BY <2>1, <2>2
<1>7. CASE CloseAbandoned
  <2>1. closes + 1 \in Calls /\ closes' = closes + 1
    BY <1>t, <1>a, <1>7 DEF CloseAbandoned, MayClose
  <2>2. helper' = [helper EXCEPT ![closes + 1] = "copy"] /\ pc' = "closing"
    BY <1>7 DEF CloseAbandoned
  <2> QED
    BY <1>t, <2>1, <2>2
<1>8. ASSUME NEW k \in Calls, HelperCopy(k)
      PROVE  LeftInv'
  <2>1. UNCHANGED <<pc, closes, waited>>
    BY <1>8 DEF HelperCopy
  <2>2. helper' = helper \/ helper' = [helper EXCEPT ![k] = "reap"]
    BY <1>8 DEF HelperCopy
  <2>3. CASE helper' = helper
    BY <1>1, <2>1, <2>3
  <2>4. CASE helper' = [helper EXCEPT ![k] = "reap"]
    <3>1. helper'[k] = "reap" /\ \A i \in Calls : i # k => helper'[i] = helper[i]
      BY <1>t, <2>4
    <3>2. AtWork'
      BY <3>1
    <3> QED
      BY <1>t, <2>1, <3>1, <3>2
  <2> QED
    BY <2>2, <2>3, <2>4
<1>9. CASE CloseDone \/ CloseTimeout
  <2>1. pc = "closing" /\ pc' = "closed" /\ UNCHANGED <<helper, waited>>
    BY <1>9 DEF CloseDone, CloseTimeout
  <2>2. helper[closes] \in {"copy", "reap", "done"} /\ closes \in Calls
    BY <1>t, <2>1
  <2> QED
    BY <1>t, <2>1, <2>2
<1> QED
  BY <1>3, <1>4, <1>5, <1>6, <1>7, <1>8, <1>9 DEF Next, Process, Closing, Helping

\* The invariant holds at the start.
LEMMA InitInv == Init => IInv
<1> SUFFICES ASSUME Init PROVE IInv
  OBVIOUS
<1> USE FFmpegAssumption DEF Init
<1>1. TypeOK
  <2>1. 0 \in 0..Total /\ 0 \in 0..Capacity /\ 0 \in 0..Closes
    OBVIOUS
  <2>2. DataOK
    BY <2>1 DEF DataOK, Status, OpenPC
  <2>3. FlagsOK
    BY DEF FlagsOK
  <2> QED
    BY <2>2, <2>3, TypeParts
<1>2. ProcInv /\ PipeInv /\ WaitInv /\ LeftInv
  BY DEF ProcInv, PipeInv, WaitInv, LeftInv, StreamPC
<1>3. PhaseInv
  BY DEF PhaseInv, StreamPC, Clean, Hangup
<1> QED
  BY <1>1, <1>2, <1>3 DEF IInv

\* And every step keeps it.
LEMMA NextInv == IInv /\ [Next]_vars => IInv'
<1> SUFFICES ASSUME IInv, [Next]_vars PROVE IInv'
  OBVIOUS
<1>1. CASE Next
  <2>1. TypeOK'
    <3>1. FlagsOK' /\ DataOK'
      BY <1>1, FlagsStep, DataStep
    <3> QED
      BY <3>1 DEF TypeOK, FlagsOK, DataOK
  <2> QED
    BY <1>1, <2>1, ProcStep, PipeStep, PhaseStep, WaitStep, LeftStep DEF IInv
<1>2. CASE UNCHANGED vars
  <2> USE <1>2 DEF vars, given, procVars, pipeVars, waitVars, closeVars, readVars,
          sourceVars, IInv
  <2>1. TypeOK'
    BY DEF TypeOK
  <2>2. ProcInv' /\ PipeInv'
    BY DEF ProcInv, PipeInv
  <2>3. LeftInv'
    BY DEF LeftInv, AtWork
  <2>4. PhaseInv' /\ WaitInv'
    BY DEF PhaseInv, WaitInv, Clean, AtEOF, Hangup
  <2> QED
    BY <2>1, <2>2, <2>3, <2>4
<1> QED
  BY <1>1, <1>2

\* The inductive invariant holds in every state.
THEOREM Invariance == Spec => []IInv
  BY InitInv, NextInv, PTL DEF Spec

-----------------------------------------------------------------------------
(* The properties. *)

\* A call that returns no Stream leaves no process, no zombie, no pipe and no
\* temporary file, and Close leaves none without a goroutine that sees to it.
THEOREM CloseLeavesNothing == Spec => []NothingLeft
<1>1. IInv => NothingLeft
  <2> SUFFICES ASSUME IInv PROVE NothingLeft
    OBVIOUS
  <2>1. pc = "done" => Clean
    BY DEF IInv, PhaseInv, Clean
  <2>2. pc = "closed" /\ waited => Clean
    BY DEF IInv, PhaseInv, WaitInv, StreamPC, Clean
  <2>3. pc = "closed" => waited \/ AtWork
    BY DEF IInv, LeftInv
  <2> QED
    BY <2>1, <2>2, <2>3 DEF IInv, NothingLeft
<1> QED
  BY <1>1, Invariance, PTL

-----------------------------------------------------------------------------
(* FFmpeg implements ReadCloser. *)

\* The variables of ReadCloser, as R maps them.
Units(n) == [i \in 1..n |-> i]

Fate == IF pc \in {"closing", "closed"} THEN "closed"
        ELSE [none |-> "open", eof |-> "eof", error |-> "failed"][fate]

\* Fewer units are a prefix of more.
LEMMA UnitsPrefix ==
    ASSUME NEW m \in Nat, NEW n \in Nat, m <= n
    PROVE  R!IsPrefix(Units(m), Units(n))
<1>1. Len(Units(m)) = m /\ Len(Units(n)) = n
  BY DEF Units
<1>2. \A k \in Nat : k >= m => SubSeq(Units(k), 1, m) = Units(m)
  BY DEF Units
<1> QED
  BY <1>1, <1>2 DEF R!IsPrefix

\* What the caller has been told, for each place it can be in.
LEMMA FateIs ==
    /\ pc \in {"closing", "closed"} => Fate = "closed"
    /\ pc \notin {"closing", "closed"} /\ fate = "none" => Fate = "open"
    /\ pc \notin {"closing", "closed"} /\ fate = "eof" => Fate = "eof"
    /\ pc \notin {"closing", "closed"} /\ fate = "error" => Fate = "failed"
  BY DEF Fate

\* A step that writes, reads and reports nothing is invisible in ReadCloser.
LEMMA Stutter ==
    ASSUME made' = made, got' = got, child' = "ok" <=> child = "ok", Fate' = Fate
    PROVE  UNCHANGED R!vars
<1>1. (child = "ok")' = (child = "ok")
  OBVIOUS
<1>2. Units(made)' = Units(made) /\ Units(got)' = Units(got)
  BY DEF Units
<1> QED
  BY <1>1, <1>2 DEF R!vars, Units, Fate

\* Writing, and the end of a process.
LEMMA StepDecodes ==
    ASSUME made \in Nat, made' \in Nat, made <= made', child # "ok",
           got' = got, Fate' = Fate
    PROVE  R!Decode
<1>1. R!IsPrefix(Units(made), Units(made'))
  BY UnitsPrefix
<1>2. Units(got)' = Units(got)
  BY DEF Units
<1> QED
  BY <1>1, <1>2 DEF R!Decode, Units, Fate

\* Taking units out of the pipe.
LEMMA StepReads ==
    ASSUME made \in Nat, got \in Nat, got' \in Nat, got <= got', got' <= made,
           made' = made, child' = child, Fate = "open", Fate' = Fate
    PROVE  R!Read
<1>1. R!IsPrefix(Units(got), Units(got')) /\ R!IsPrefix(Units(got'), Units(made))
  BY UnitsPrefix
<1>2. Units(made)' = Units(made) /\ (child = "ok")' = (child = "ok")
  BY DEF Units
<1> QED
  BY <1>1, <1>2 DEF R!Read, Units, Fate

\* The end, an error, and Close.
LEMMA StepReports ==
    ASSUME made' = made, got' = got, child' = "ok" <=> child = "ok"
    PROVE  /\ Fate = "open" /\ Fate' = "eof" /\ child = "ok" /\ got = made => R!End
           /\ Fate = "open" /\ Fate' = "failed" => R!Fail
           /\ Fate' = "closed" => R!Close
<1>1. (child = "ok")' = (child = "ok")
  OBVIOUS
<1>2. Units(made)' = Units(made) /\ Units(got)' = Units(got)
  BY DEF Units
<1>3. got = made => Units(got) = Units(made)
  OBVIOUS
<1> QED
  BY <1>1, <1>2, <1>3 DEF R!End, R!Fail, R!Close, Units, Fate

\* It starts as ReadCloser does.
LEMMA RefinesInit == Init => R!Init
<1> SUFFICES ASSUME Init PROVE R!Init
  OBVIOUS
<1>1. Units(made) = <<>> /\ Units(got) = <<>>
  BY DEF Init, Units
<1>2. Fate = "open" /\ child # "ok"
  BY FateIs DEF Init
<1> QED
  BY <1>1, <1>2 DEF R!Init, Units, Fate

\* Every step is one of ReadCloser, or invisible there.
LEMMA RefinesNext == IInv /\ [Next]_vars => [R!Next]_(R!vars)
<1> SUFFICES ASSUME IInv, [Next]_vars PROVE R!Next \/ UNCHANGED R!vars
  BY DEF R!vars
<1>t. DataOK /\ ProcInv /\ PipeInv /\ PhaseInv /\ WaitInv /\ DataOK'
  BY NextInv, TypeParts DEF IInv, TypeOK, DataOK
<1>n. made \in Nat /\ made' \in Nat /\ got \in Nat /\ got' \in Nat /\ inPipe \in Nat
  BY <1>t, FFmpegAssumption DEF DataOK
<1>c. closes \in Nat
  BY <1>t, FFmpegAssumption DEF DataOK
<1> USE DEF given, procVars, pipeVars, waitVars, closeVars, readVars, sourceVars
<1>s. ASSUME UNCHANGED <<made, got, fate>>, child' = "ok" <=> child = "ok",
             pc' \in {"closing", "closed"} <=> pc \in {"closing", "closed"}
      PROVE  UNCHANGED R!vars
  BY <1>s, Stutter DEF Fate
<1>f. ASSUME pc \notin {"closing", "closed"}, Failed, UNCHANGED <<made, child>>, fate = "none"
      PROVE  R!Fail
  <2>1. pc' \notin {"closing", "closed"} /\ fate' = "error" /\ got' = got
    BY <1>f DEF Failed, Leave
  <2>2. Fate = "open" /\ Fate' = "failed"
    BY <1>f, <2>1 DEF Fate
  <2> QED
    BY <1>f, <2>1, <2>2, StepReports
<1>0. CASE UNCHANGED vars
  BY <1>0, <1>s DEF vars
<1>1. CASE Produce \/ Finish \/ Fail \/ ShimExit \/ Die
  <2>1. /\ UNCHANGED <<got, fate, pc>> /\ made <= made' /\ child # "ok"
    BY <1>t, <1>n, <1>1 DEF Produce, Finish, Fail, Exit, ShimExit, Die, ProcInv
  <2>2. Fate' = Fate
    BY <2>1 DEF Fate
  <2>3. R!Decode
    BY <1>n, <2>1, <2>2, StepDecodes
  <2> QED
    BY <2>3 DEF R!Next
<1>2. CASE Probe \/ CreateTemp \/ FillTemp
  <2>1. /\ pc \notin {"closing", "closed"} /\ fate = "none" /\ UNCHANGED <<made, child>>
    BY <1>t, <1>2 DEF Probe, CreateTemp, FillTemp, PhaseInv
  <2>2. \/ Failed
        \/ UNCHANGED <<got, fate>> /\ pc' \notin {"closing", "closed"}
    BY <1>2 DEF Probe, CreateTemp, FillTemp
  <2> QED
    BY <1>f, <1>s, <2>1, <2>2 DEF R!Next
<1>3. CASE Start
  <2>1. /\ pc \notin {"closing", "closed"} /\ fate = "none" /\ child = "none" /\ made' = made
    BY <1>t, <1>3 DEF Start, PhaseInv
  <2>2. \/ Failed /\ child' = child
        \/ UNCHANGED <<got, fate>> /\ pc' \notin {"closing", "closed"} /\ child' = "running"
    BY <1>3 DEF Start
  <2> QED
    BY <1>f, <1>s, <2>1, <2>2 DEF R!Next
<1>4. ASSUME UNCHANGED <<made, child, fate>>, fate = "none", got <= got', got' <= made,
             pc \notin {"closing", "closed"}, pc' \notin {"closing", "closed"}
      PROVE  R!Read
  <2>1. Fate = "open" /\ Fate' = Fate
    BY <1>4 DEF Fate
  <2> QED
    BY <1>4, <1>n, <2>1, StepReads
<1>5. CASE LoadCopy
  BY <1>t, <1>n, <1>4, <1>5 DEF LoadCopy, PhaseInv, PipeInv, R!Next
<1>6. ASSUME NEW n \in ReadSizes, ReadData(n)
      PROVE  R!Read
  <2>1. n \in Nat
    BY FFmpegAssumption
  <2> QED
    BY <1>t, <1>n, <1>4, <1>6, <2>1 DEF ReadData, WaitInv, PipeInv
\* The caller is told of the end, or of an error, once.
<1>7. ASSUME UNCHANGED <<made, got, child>>, fate = "none",
             pc \notin {"closing", "closed"}, pc' \notin {"closing", "closed"},
             fate' = "error" \/ (fate' = "eof" /\ child = "ok" /\ inPipe = 0)
      PROVE  R!Next
  <2>1. Fate = "open"
    BY <1>7 DEF Fate
  <2>2. CASE fate' = "error"
    <3>1. Fate' = "failed"
      BY <1>7, <2>2 DEF Fate
    <3> QED
      BY <1>7, <2>1, <3>1, StepReports DEF R!Next
  <2>3. CASE fate' = "eof" /\ child = "ok" /\ inPipe = 0
    <3>1. Fate' = "eof"
      BY <1>7, <2>3 DEF Fate
    <3>2. got = made
      BY <1>t, <1>n, <1>c, <1>7, <2>3 DEF PhaseInv, PipeInv
    <3> QED
      BY <1>7, <2>1, <2>3, <3>1, <3>2, StepReports DEF R!Next
  <2> QED
    BY <1>7, <2>2, <2>3
<1>8. CASE LoadReturn
  <2>1. /\ UNCHANGED <<made, got, child>> /\ fate = "none" /\ pc = "load"
        /\ pc' \in {"remove", "done"} /\ inPipe = 0
        /\ fate' = IF child = "ok" THEN "eof" ELSE "error"
    BY <1>t, <1>8 DEF LoadReturn, Leave, AtEOF, PhaseInv
  <2>2. fate' = "error" \/ (fate' = "eof" /\ child = "ok" /\ inPipe = 0)
    BY <2>1
  <2>3. R!Next
    BY <1>7, <2>1, <2>2
  <2> QED
    BY <2>3
<1>9. CASE ReadClosed \/ ReadReap
  <2>1. CASE fate = "none"
    <3>1. /\ UNCHANGED <<made, got, child>> /\ pc \in {"reading", "reap"} /\ pc' = "idle"
          /\ \/ fate' = "error"
             \/ inPipe = 0 /\ fate' = IF child = "ok" THEN "eof" ELSE "error"
      BY <1>t, <1>9, <2>1 DEF ReadClosed, ReadReap, Return, AtEOF, PhaseInv
    <3>2. fate' = "error" \/ (fate' = "eof" /\ child = "ok" /\ inPipe = 0)
      BY <3>1
    <3>3. R!Next
      BY <1>7, <2>1, <3>1, <3>2
    <3> QED
      BY <3>3
  <2>2. CASE fate # "none"
    BY <1>s, <1>9, <2>2 DEF ReadClosed, ReadReap, Return
  <2> QED
    BY <2>1, <2>2
<1>10. CASE RemoveTemp \/ Read \/ ReadEOF \/ CloseDone \/ CloseTimeout
  BY <1>s, <1>10 DEF RemoveTemp, Read, ReadEOF, CloseDone, CloseTimeout
<1>11. ASSUME NEW k \in Calls, HelperCopy(k) \/ HelperReap(k)
       PROVE  UNCHANGED R!vars
  BY <1>s, <1>11 DEF HelperCopy, HelperReap
<1>12. CASE CloseDrained \/ CloseAbandoned
  <2>1. /\ UNCHANGED <<made, got>> /\ pc' \in {"closing", "closed"}
        /\ child' = "ok" <=> child = "ok"
    BY <1>12 DEF CloseDrained, CloseAbandoned, Kill
  <2>2. Fate' = "closed"
    BY <2>1 DEF Fate
  <2> QED
    BY <2>1, <2>2, StepReports DEF R!Next
<1> QED
  BY <1>0, <1>1, <1>2, <1>3, <1>5, <1>6, <1>8, <1>9, <1>10, <1>11, <1>12
     DEF Next, Process, Opening, Reading, Closing, Helping, R!Next

\* FFmpegStream and the decodes up front keep the promise of an io.ReadCloser:
\* the audio in order, its end only for the whole of it.
THEOREM Implementation == Spec => ImplementsReadCloser
<1>1. IInv /\ IInv' /\ [Next]_vars => [R!Next]_(R!vars)
  BY RefinesNext
<1> QED
  BY <1>1, RefinesInit, Invariance, PTL DEF Spec, ImplementsReadCloser, R!Spec
=============================================================================
