--------------------------- MODULE DecoderProofs ---------------------------
(***************************************************************************)
(* Proofs about module Decoder, for any number of goroutines, and any      *)
(* finite numbers of decoders and Streams: the inductive invariant IInv,   *)
(* one lemma per conjunct of it, the safety properties that follow, and    *)
(* that a Decoder implements module Lifecycle.                             *)
(***************************************************************************)
EXTENDS Decoder, FiniteSetTheorems, TLAPS

\* One element more in a finite set is one more in its cardinality.
LEMMA OneMore ==
    ASSUME NEW S, IsFiniteSet(S), NEW x, x \notin S
    PROVE  Cardinality(S \cup {x}) = Cardinality(S) + 1
  BY FS_AddElement

\* One element less in a finite set is one less in its cardinality.
LEMMA OneLess ==
    ASSUME NEW S, IsFiniteSet(S), NEW x \in S
    PROVE  Cardinality(S \ {x}) = Cardinality(S) - 1
  BY FS_RemoveElement

-----------------------------------------------------------------------------
(* Counting. *)

\* The tracked Streams of decoder d, and the decoders that are started.
InUse(d) == {s \in Streams : tracked[s] /\ sdec[s] = d}
Started == {d \in Decoders : life[d] = "started"}

\* A tracked Stream is counted by the WaitGroup of its decoder.
LEMMA TrackedCounts ==
    ASSUME IInv, NEW s \in Streams, tracked[s]
    PROVE  sdec[s] \in Decoders /\ wg[sdec[s]] \in Nat \ {0}
<1>1. sdec[s] \in Decoders
  BY DEF IInv, OwnerInv
<1>2. s \in InUse(sdec[s]) /\ IsFiniteSet(InUse(sdec[s]))
  BY StreamsAssumption, FS_Subset DEF InUse
<1>3. Cardinality(InUse(sdec[s])) \in Nat \ {0}
  BY <1>2, FS_CardinalityType, FS_EmptySet
<1>4. wg[sdec[s]] = Cardinality(InUse(sdec[s]))
  BY <1>1 DEF IInv, WaitGroupExact, InUse
<1> QED
  BY <1>1, <1>3, <1>4

\* A decoder that is started is counted by the platform.
LEMMA StartedCounts ==
    ASSUME IInv, NEW d \in Decoders, life[d] = "started"
    PROVE  platform \in Nat \ {0}
<1>1. d \in Started /\ IsFiniteSet(Started)
  BY DecodersAssumption, FS_Subset DEF Started
<1>2. Cardinality(Started) \in Nat \ {0}
  BY <1>1, FS_CardinalityType, FS_EmptySet
<1> QED
  BY <1>2 DEF IInv, PlatformBalanced, Started

\* Every step keeps the types.  Two steps count down: Done, which needs
\* a tracked Stream to be counted, and End, which needs a started decoder.
LEMMA TypeStep == IInv /\ [Next]_vars => TypeOK'
<1> SUFFICES ASSUME IInv, [Next]_vars PROVE TypeOK'
  OBVIOUS
<1> USE NoneAssumption DEF IInv, TypeOK, lockVars, callVars, streamVars, Goto, Return,
       DropStream, MayCall, OpenStreams,
       PC, ReadPC, WritePC, StreamState, Kind, LockInv, HoldInv, HoldPC, DecoderPC
<1>0. CASE UNCHANGED vars
  BY <1>0 DEF vars
<1>1. ASSUME NEW c \in Callers, NEW d \in Decoders, New(c, d)
      PROVE  TypeOK'
  BY <1>1 DEF New
<1>2. ASSUME NEW c \in Callers, NEW d \in Decoders,
             NEW k \in Kind, NEW s \in Streams, RLock(c, d, k, s)
      PROVE  TypeOK'
  <2> USE <1>2 DEF RLock
  <2>1. pc' \in [Callers -> PC] /\ readers' \in [Decoders -> SUBSET Callers]
    <3>1. CASE writer[d] = None
      <4>1. pc' = [pc EXCEPT ![c] = "check"]
        BY <3>1
      <4>2. readers' = [readers EXCEPT ![d] = @ \cup {c}]
        BY <3>1
      <4> HIDE <1>2 DEF RLock
      <4> QED
        BY <4>1, <4>2
    <3>2. CASE writer[d] # None
      BY <3>2
    <3> QED
      BY <3>1, <3>2
  <2>2. /\ dec' \in [Callers -> Decoders \cup {None}]
        /\ cur' \in [Callers -> Streams \cup {None}]
        /\ kind' \in [Callers -> Kind]
        /\ st' \in [Streams -> StreamState]
    OBVIOUS
  <2>3. /\ life' = life /\ closed' = closed /\ writer' = writer /\ wg' = wg
        /\ platform' = platform /\ sdec' = sdec /\ owner' = owner
        /\ tracked' = tracked
    OBVIOUS
  <2> QED
    BY <2>1, <2>2, <2>3
<1>3. ASSUME NEW c \in Callers, Check(c)
      PROVE  TypeOK'
  <2>1. cur[c] \in Streams /\ dec[c] \in Decoders
    BY <1>3 DEF Check
  <2>2. CASE closed[dec[c]]
    <3>1. pc' = [pc EXCEPT ![c] = "runlock"] /\ st' = [st EXCEPT ![cur[c]] = "free"]
          /\ sdec' = [sdec EXCEPT ![cur[c]] = None]
      BY <1>3, <2>2 DEF Check
    <3> QED
      BY <1>3, <2>1, <3>1 DEF Check
  <2>3. CASE ~closed[dec[c]]
    <3>1. pc' = [pc EXCEPT ![c] = "opening"] /\ st' = [st EXCEPT ![cur[c]] = "opening"]
          /\ sdec' = [sdec EXCEPT ![cur[c]] = dec[c]]
      BY <1>3, <2>3 DEF Check
    <3> QED
      BY <1>3, <2>1, <3>1 DEF Check
  <2> QED
    BY <2>2, <2>3
<1>4. ASSUME NEW c \in Callers, OpenFail(c)
      PROVE  TypeOK'
  BY <1>4 DEF OpenFail
<1>5. ASSUME NEW c \in Callers, OpenOK(c)
      PROVE  TypeOK'
  BY <1>5 DEF OpenOK
<1>6. ASSUME NEW c \in Callers, Drain(c)
      PROVE  TypeOK'
  BY <1>6 DEF Drain
<1>7. ASSUME NEW c \in Callers, Track(c)
      PROVE  TypeOK'
  BY <1>7 DEF Track
<1>8. ASSUME NEW c \in Callers, RUnlock(c)
      PROVE  TypeOK'
  BY <1>8 DEF RUnlock
<1>9. ASSUME NEW c \in Callers, NEW s \in Streams, CloseStream(c, s)
      PROVE  TypeOK'
  BY <1>9 DEF CloseStream
<1>10. ASSUME NEW c \in Callers, Done(c)
      PROVE  TypeOK'
  <2>1. cur[c] \in Streams /\ owner[cur[c]] # None
    BY <1>10 DEF Done, OwnerInv
  <2>2. sdec[cur[c]] \in Decoders
    BY <2>1 DEF OwnerInv
  <2>3. tracked[cur[c]] => wg[sdec[cur[c]]] - 1 \in Nat
    BY <2>1, TrackedCounts
  <2>4. wg' \in [Decoders -> Nat] /\ tracked' \in [Streams -> BOOLEAN]
    <3>1. CASE tracked[cur[c]]
      <4>1. wg' = [wg EXCEPT ![sdec[cur[c]]] = @ - 1]
            /\ tracked' = [tracked EXCEPT ![cur[c]] = FALSE]
        BY <1>10, <3>1 DEF Done
      <4> QED
        BY <2>1, <2>2, <2>3, <3>1, <4>1
    <3>2. CASE ~tracked[cur[c]]
      BY <1>10, <3>2 DEF Done
    <3> QED
      BY <3>1, <3>2
  <2>5. pc' \in [Callers -> PC] /\ kind' \in [Callers -> Kind]
    BY <1>10 DEF Done
  <2> QED
    BY <1>10, <2>4, <2>5 DEF Done
<1>11. ASSUME NEW c \in Callers, NEW s \in Streams, Forget(c, s)
      PROVE  TypeOK'
  BY <1>11 DEF Forget
<1>12. ASSUME NEW c \in Callers, NEW d \in Decoders, Close(c, d)
      PROVE  TypeOK'
  BY <1>12 DEF Close
<1>13. ASSUME NEW c \in Callers, Announce(c)
      PROVE  TypeOK'
  BY <1>13 DEF Announce
<1>14. ASSUME NEW c \in Callers, Lock(c)
      PROVE  TypeOK'
  BY <1>14 DEF Lock
<1>15. ASSUME NEW c \in Callers, CloseCheck(c)
      PROVE  TypeOK'
  <2>1. CASE closed' = closed
    BY <1>15, <2>1 DEF CloseCheck
  <2>2. CASE closed' = [closed EXCEPT ![dec[c]] = TRUE]
    BY <1>15, <2>2 DEF CloseCheck
  <2> QED
    BY <1>15, <2>1, <2>2 DEF CloseCheck
<1>16. ASSUME NEW c \in Callers, WaitStreams(c)
      PROVE  TypeOK'
  BY <1>16 DEF WaitStreams
<1>17. ASSUME NEW c \in Callers, End(c)
      PROVE  TypeOK'
  <2>1. dec[c] \in Decoders /\ life[dec[c]] = "started"
    BY <1>17 DEF End, LockInv, LifeInv, DecoderPC
  <2>2. platform - 1 \in Nat
    BY <2>1, StartedCounts
  <2> QED
    BY <1>17, <2>1, <2>2 DEF End
<1>18. ASSUME NEW c \in Callers, Unlock(c)
      PROVE  TypeOK'
  <2>1. dec[c] \in Decoders /\ Blocked(dec[c]) \subseteq Callers
    BY <1>18 DEF Unlock, Blocked
  <2>2. pc' \in [Callers -> PC]
    BY <1>18 DEF Unlock
  <2>3. readers' \in [Decoders -> SUBSET Callers]
    BY <1>18, <2>1 DEF Unlock
  <2> QED
    BY <1>18, <2>2, <2>3 DEF Unlock
<1> HIDE DEF IInv, TypeOK, LockInv, HoldInv
<1> QED
  BY <1>0, <1>1, <1>2, <1>3, <1>4, <1>5, <1>6, <1>7, <1>8, <1>9, <1>10,
     <1>11, <1>12, <1>13, <1>14, <1>15, <1>16, <1>17, <1>18
     DEF Next, Running, Calling

\* Every step keeps the book of the lock, RWMutex of Decoder.mu: readers and
\* writer name exactly the goroutines that are past RLock or Lock, and none
\* reads while one is past Lock.
LEMMA LockStep == IInv /\ [Next]_vars => LockInv'
<1> SUFFICES ASSUME IInv, [Next]_vars PROVE LockInv'
  OBVIOUS
<1> USE NoneAssumption DEF IInv, TypeOK, lockVars, callVars, streamVars, Goto, Return,
       DropStream, MayCall, OpenStreams,
       LockInv, DecoderPC, Blocked, PC, ReadPC, WritePC, StreamState, Kind
<1>0. CASE UNCHANGED vars
  BY <1>0 DEF vars
<1>1. ASSUME NEW c \in Callers, NEW d \in Decoders, New(c, d)
      PROVE  LockInv'
  BY <1>1 DEF New
<1>2. ASSUME NEW c \in Callers, NEW d \in Decoders,
             NEW k \in Kind, NEW s \in Streams, RLock(c, d, k, s)
      PROVE  LockInv'
  BY <1>2 DEF RLock
<1>3. ASSUME NEW c \in Callers, Check(c)
      PROVE  LockInv'
  BY <1>3 DEF Check
<1>4. ASSUME NEW c \in Callers, OpenFail(c)
      PROVE  LockInv'
  BY <1>4 DEF OpenFail
<1>5. ASSUME NEW c \in Callers, OpenOK(c)
      PROVE  LockInv'
  BY <1>5 DEF OpenOK
<1>6. ASSUME NEW c \in Callers, Drain(c)
      PROVE  LockInv'
  BY <1>6 DEF Drain
<1>7. ASSUME NEW c \in Callers, Track(c)
      PROVE  LockInv'
  BY <1>7 DEF Track
<1>8. ASSUME NEW c \in Callers, RUnlock(c)
      PROVE  LockInv'
  BY <1>8 DEF RUnlock
<1>9. ASSUME NEW c \in Callers, NEW s \in Streams, CloseStream(c, s)
      PROVE  LockInv'
  BY <1>9 DEF CloseStream
<1>10. ASSUME NEW c \in Callers, Done(c)
      PROVE  LockInv'
  BY <1>10 DEF Done
<1>11. ASSUME NEW c \in Callers, NEW s \in Streams, Forget(c, s)
      PROVE  LockInv'
  BY <1>11 DEF Forget
<1>12. ASSUME NEW c \in Callers, NEW d \in Decoders, Close(c, d)
      PROVE  LockInv'
  BY <1>12 DEF Close
<1>13. ASSUME NEW c \in Callers, Announce(c)
      PROVE  LockInv'
  BY <1>13 DEF Announce
<1>14. ASSUME NEW c \in Callers, Lock(c)
      PROVE  LockInv'
  BY <1>14 DEF Lock
<1>15. ASSUME NEW c \in Callers, CloseCheck(c)
      PROVE  LockInv'
  BY <1>15 DEF CloseCheck
<1>16. ASSUME NEW c \in Callers, WaitStreams(c)
      PROVE  LockInv'
  BY <1>16 DEF WaitStreams
<1>17. ASSUME NEW c \in Callers, End(c)
      PROVE  LockInv'
  BY <1>17 DEF End
<1>18. ASSUME NEW c \in Callers, Unlock(c)
      PROVE  LockInv'
  BY <1>18 DEF Unlock
<1> HIDE DEF LockInv, IInv
<1> QED
  BY <1>0, <1>1, <1>2, <1>3, <1>4, <1>5, <1>6, <1>7, <1>8, <1>9, <1>10,
     <1>11, <1>12, <1>13, <1>14, <1>15, <1>16, <1>17, <1>18
     DEF Next, Running, Calling

\* Every step keeps a Stream that is not returned yet in the hands of one
\* call.  RLock, which picks up a free Stream variable, is the case to look at.
LEMMA HoldStep == IInv /\ [Next]_vars => HoldInv'
<1> SUFFICES ASSUME IInv, [Next]_vars PROVE HoldInv'
  OBVIOUS
<1> USE NoneAssumption DEF IInv, TypeOK, lockVars, callVars, streamVars, Goto, Return,
       DropStream, MayCall, OpenStreams,
       LockInv, HoldInv, OwnerInv, HoldPC, DecoderPC, Blocked, PC, ReadPC, WritePC, StreamState, Kind
<1>0. CASE UNCHANGED vars
  BY <1>0 DEF vars
<1>1. ASSUME NEW c \in Callers, NEW d \in Decoders, New(c, d)
      PROVE  HoldInv'
  BY <1>1 DEF New
<1>2. ASSUME NEW c \in Callers, NEW d \in Decoders,
             NEW k \in Kind, NEW s \in Streams, RLock(c, d, k, s)
      PROVE  HoldInv'
  <2> USE <1>2 DEF RLock
  <2>1. \A e \in Callers \ {c} :
          pc'[e] = pc[e] /\ cur'[e] = cur[e] /\ dec'[e] = dec[e]
    OBVIOUS
  <2>2. pc'[c] \in {"check", "rwait"} /\ cur'[c] = s /\ st' = [st EXCEPT ![s] = "reserved"]
    OBVIOUS
  <2>3. owner[s] = None /\ ~tracked[s]
    OBVIOUS
  <2>4. \A e \in Callers : pc[e] \in HoldPC => cur[e] # s
    OBVIOUS
  <2>5. \A r \in Streams :
          st'[r] \in {"reserved", "opening", "live"} /\ ~tracked'[r] =>
            \E e \in Callers : pc'[e] \in HoldPC /\ cur'[e] = r
    <3> TAKE r \in Streams
    <3>1. CASE r = s
      BY <3>1, <2>2
    <3>2. ASSUME r # s, st'[r] \in {"reserved", "opening", "live"}, ~tracked'[r]
          PROVE  \E e \in Callers : pc'[e] \in HoldPC /\ cur'[e] = r
      <4>1. st[r] \in {"reserved", "opening", "live"} /\ ~tracked[r]
        BY <3>2
      <4>2. PICK e \in Callers : pc[e] \in HoldPC /\ cur[e] = r
        BY <4>1
      <4>3. e # c
        BY <4>2
      <4> QED
        BY <4>2, <4>3, <2>1
    <3> QED
      BY <3>1, <3>2
  <2>6. \A e, f \in Callers :
          pc'[e] \in HoldPC /\ pc'[f] \in HoldPC /\ cur'[e] = cur'[f] => e = f
    BY <2>1, <2>2, <2>4
  <2>7. \A e \in Callers :
          pc'[e] \in HoldPC =>
            /\ cur'[e] \in Streams /\ owner'[cur'[e]] = None /\ ~tracked'[cur'[e]]
            /\ pc'[e] \in {"rwait", "check"} => st'[cur'[e]] = "reserved"
            /\ pc'[e] = "opening" => st'[cur'[e]] = "opening"
            /\ pc'[e] \in {"draining", "tracking"} => st'[cur'[e]] = "live"
            /\ pc'[e] \in {"opening", "draining", "tracking"} =>
                  sdec'[cur'[e]] = dec'[e]
    BY <2>1, <2>2, <2>3, <2>4
  <2> QED
    BY <2>5, <2>6, <2>7
<1>3. ASSUME NEW c \in Callers, Check(c)
      PROVE  HoldInv'
  <2> USE <1>3 DEF Check
  <2>1. cur[c] \in Streams /\ owner[cur[c]] = None /\ ~tracked[cur[c]]
    OBVIOUS
  <2>2. \A e \in Callers \ {c} : pc[e] \in HoldPC => cur[e] # cur[c]
    OBVIOUS
  <2>3. /\ cur' = cur /\ dec' = dec /\ owner' = owner /\ tracked' = tracked
        /\ \A e \in Callers \ {c} : pc'[e] = pc[e]
        /\ \A r \in Streams \ {cur[c]} : st'[r] = st[r] /\ sdec'[r] = sdec[r]
    OBVIOUS
  <2>4. \/ pc'[c] = "runlock" /\ st'[cur[c]] = "free"
        \/ /\ pc'[c] = "opening" /\ st'[cur[c]] = "opening"
           /\ sdec'[cur[c]] = dec[c]
    OBVIOUS
  <2> HIDE <1>3 DEF Check
  <2>5. CASE pc'[c] = "runlock" /\ st'[cur[c]] = "free"
    <3>1. \A e \in Callers : pc'[e] \in HoldPC =>
            e # c /\ pc[e] = pc'[e] /\ cur[e] # cur[c]
      BY <2>2, <2>3, <2>5
    <3>2. \A r \in Streams :
            st'[r] \in {"reserved", "opening", "live"} /\ ~tracked'[r] =>
              \E e \in Callers : pc'[e] \in HoldPC /\ cur'[e] = r
      <4> TAKE r \in Streams
      <4> HAVE st'[r] \in {"reserved", "opening", "live"} /\ ~tracked'[r]
      <4>1. r # cur[c] /\ st[r] = st'[r] /\ ~tracked[r]
        BY <2>3, <2>5
      <4>2. PICK e \in Callers : pc[e] \in HoldPC /\ cur[e] = r
        BY <4>1
      <4> QED
        BY <4>1, <4>2, <2>3
    <3> QED
      BY <3>1, <3>2, <2>3
  <2>6. CASE pc'[c] = "opening" /\ st'[cur[c]] = "opening" /\ sdec'[cur[c]] = dec[c]
    <3>1. \A e \in Callers \ {c} : pc'[e] \in HoldPC =>
            pc[e] = pc'[e] /\ cur[e] # cur[c]
      BY <2>2, <2>3
    <3>2. \A r \in Streams :
            st'[r] \in {"reserved", "opening", "live"} /\ ~tracked'[r] =>
              \E e \in Callers : pc'[e] \in HoldPC /\ cur'[e] = r
      <4> TAKE r \in Streams
      <4> HAVE st'[r] \in {"reserved", "opening", "live"} /\ ~tracked'[r]
      <4>1. CASE r = cur[c]
        BY <4>1, <2>3, <2>6
      <4>2. CASE r # cur[c]
        <5>1. PICK e \in Callers : pc[e] \in HoldPC /\ cur[e] = r
          BY <4>2, <2>3
        <5> QED
          BY <4>2, <5>1, <2>3
      <4> QED
        BY <4>1, <4>2
    <3> QED
      BY <3>1, <3>2, <2>1, <2>3, <2>6
  <2> QED
    BY <2>4, <2>5, <2>6
<1>4. ASSUME NEW c \in Callers, OpenFail(c)
      PROVE  HoldInv'
  BY <1>4 DEF OpenFail
<1>5. ASSUME NEW c \in Callers, OpenOK(c)
      PROVE  HoldInv'
  BY <1>5 DEF OpenOK
<1>6. ASSUME NEW c \in Callers, Drain(c)
      PROVE  HoldInv'
  BY <1>6 DEF Drain
<1>7. ASSUME NEW c \in Callers, Track(c)
      PROVE  HoldInv'
  BY <1>7 DEF Track
<1>8. ASSUME NEW c \in Callers, RUnlock(c)
      PROVE  HoldInv'
  BY <1>8 DEF RUnlock
<1>9. ASSUME NEW c \in Callers, NEW s \in Streams, CloseStream(c, s)
      PROVE  HoldInv'
  BY <1>9 DEF CloseStream
<1>10. ASSUME NEW c \in Callers, Done(c)
      PROVE  HoldInv'
  <2> USE <1>10 DEF Done
  <2>1. \A e \in Callers : pc'[e] \in HoldPC <=> pc[e] \in HoldPC
    OBVIOUS
  <2>2. \A e \in Callers :
          pc[e] \in HoldPC => pc'[e] = pc[e] /\ cur'[e] = cur[e] /\ dec'[e] = dec[e]
    BY SMTT(30)
  <2>3. \A r \in Streams : st[r] # "released" => tracked'[r] = tracked[r]
    OBVIOUS
  <2>4. \A r \in Streams : ~tracked[r] => ~tracked'[r]
    BY SMTT(30)
  <2> QED
    BY <2>1, <2>2, <2>3, <2>4
<1>11. ASSUME NEW c \in Callers, NEW s \in Streams, Forget(c, s)
      PROVE  HoldInv'
  BY <1>11 DEF Forget
<1>12. ASSUME NEW c \in Callers, NEW d \in Decoders, Close(c, d)
      PROVE  HoldInv'
  BY <1>12 DEF Close
<1>13. ASSUME NEW c \in Callers, Announce(c)
      PROVE  HoldInv'
  BY <1>13 DEF Announce
<1>14. ASSUME NEW c \in Callers, Lock(c)
      PROVE  HoldInv'
  BY <1>14 DEF Lock
<1>15. ASSUME NEW c \in Callers, CloseCheck(c)
      PROVE  HoldInv'
  <2>1. \A e \in Callers :
          (pc'[e] \in HoldPC <=> pc[e] \in HoldPC) /\ (pc[e] \in HoldPC => pc'[e] = pc[e])
    BY <1>15 DEF CloseCheck
  <2>2. UNCHANGED <<dec, cur, st, sdec, owner, tracked>>
    BY <1>15 DEF CloseCheck
  <2> QED
    BY <2>1, <2>2
<1>16. ASSUME NEW c \in Callers, WaitStreams(c)
      PROVE  HoldInv'
  BY <1>16 DEF WaitStreams
<1>17. ASSUME NEW c \in Callers, End(c)
      PROVE  HoldInv'
  BY <1>17 DEF End
<1>18. ASSUME NEW c \in Callers, Unlock(c)
      PROVE  HoldInv'
  BY <1>18 DEF Unlock
<1> HIDE DEF IInv, TypeOK, LockInv, HoldInv, OwnerInv
<1> QED
  BY <1>0, <1>1, <1>2, <1>3, <1>4, <1>5, <1>6, <1>7, <1>8, <1>9, <1>10,
     <1>11, <1>12, <1>13, <1>14, <1>15, <1>16, <1>17, <1>18
     DEF Next, Running, Calling

\* Every step keeps a returned Stream tracked until Stream.Close has run done.
LEMMA OwnerStep == IInv /\ [Next]_vars => OwnerInv'
<1> SUFFICES ASSUME IInv, [Next]_vars PROVE OwnerInv'
  OBVIOUS
<1> USE NoneAssumption DEF IInv, TypeOK, lockVars, callVars, streamVars, Goto, Return,
       DropStream, MayCall, OpenStreams,
       LockInv, HoldInv, OwnerInv, HoldPC, DecoderPC, Blocked, PC, ReadPC, WritePC, StreamState, Kind
<1>0. CASE UNCHANGED vars
  BY <1>0 DEF vars
<1>1. ASSUME NEW c \in Callers, NEW d \in Decoders, New(c, d)
      PROVE  OwnerInv'
  BY <1>1 DEF New
<1>2. ASSUME NEW c \in Callers, NEW d \in Decoders,
             NEW k \in Kind, NEW s \in Streams, RLock(c, d, k, s)
      PROVE  OwnerInv'
  BY <1>2 DEF RLock
<1>3. ASSUME NEW c \in Callers, Check(c)
      PROVE  OwnerInv'
  BY <1>3 DEF Check
<1>4. ASSUME NEW c \in Callers, OpenFail(c)
      PROVE  OwnerInv'
  BY <1>4 DEF OpenFail
<1>5. ASSUME NEW c \in Callers, OpenOK(c)
      PROVE  OwnerInv'
  BY <1>5 DEF OpenOK
<1>6. ASSUME NEW c \in Callers, Drain(c)
      PROVE  OwnerInv'
  BY <1>6 DEF Drain
<1>7. ASSUME NEW c \in Callers, Track(c)
      PROVE  OwnerInv'
  BY <1>7 DEF Track
<1>8. ASSUME NEW c \in Callers, RUnlock(c)
      PROVE  OwnerInv'
  BY <1>8 DEF RUnlock
<1>9. ASSUME NEW c \in Callers, NEW s \in Streams, CloseStream(c, s)
      PROVE  OwnerInv'
  BY <1>9 DEF CloseStream
<1>10. ASSUME NEW c \in Callers, Done(c)
      PROVE  OwnerInv'
  <2> USE <1>10 DEF Done
  <2>1. owner' = owner /\ st' = st /\ sdec' = sdec
    OBVIOUS
  <2>2. \A r \in Streams : tracked'[r] => tracked[r] /\ r # cur[c]
    OBVIOUS
  <2>3. \A r \in Streams : st[r] # "released" => tracked'[r] = tracked[r]
    OBVIOUS
  <2>4. \A e \in Callers \ {c} : pc'[e] = pc[e] /\ cur'[e] = cur[e]
    OBVIOUS
  <2>5. pc'[c] = "idle"
    OBVIOUS
  <2> QED
    BY <2>1, <2>2, <2>3, <2>4, <2>5
<1>11. ASSUME NEW c \in Callers, NEW s \in Streams, Forget(c, s)
      PROVE  OwnerInv'
  BY <1>11 DEF Forget
<1>12. ASSUME NEW c \in Callers, NEW d \in Decoders, Close(c, d)
      PROVE  OwnerInv'
  BY <1>12 DEF Close
<1>13. ASSUME NEW c \in Callers, Announce(c)
      PROVE  OwnerInv'
  BY <1>13 DEF Announce
<1>14. ASSUME NEW c \in Callers, Lock(c)
      PROVE  OwnerInv'
  BY <1>14 DEF Lock
<1>15. ASSUME NEW c \in Callers, CloseCheck(c)
      PROVE  OwnerInv'
  BY <1>15 DEF CloseCheck
<1>16. ASSUME NEW c \in Callers, WaitStreams(c)
      PROVE  OwnerInv'
  BY <1>16 DEF WaitStreams
<1>17. ASSUME NEW c \in Callers, End(c)
      PROVE  OwnerInv'
  BY <1>17 DEF End
<1>18. ASSUME NEW c \in Callers, Unlock(c)
      PROVE  OwnerInv'
  BY <1>18 DEF Unlock
<1> HIDE DEF IInv, TypeOK, HoldInv, OwnerInv
<1> QED
  BY <1>0, <1>1, <1>2, <1>3, <1>4, <1>5, <1>6, <1>7, <1>8, <1>9, <1>10,
     <1>11, <1>12, <1>13, <1>14, <1>15, <1>16, <1>17, <1>18
     DEF Next, Running, Calling

\* The WaitGroup stays exact across a step that leaves it, the tracked Streams
\* and their decoders alone.
LEMMA WaitUnchanged ==
    ASSUME wg' = wg, tracked' = tracked, WaitGroupExact,
           \A s \in Streams : tracked[s] => sdec'[s] = sdec[s]
    PROVE  WaitGroupExact'
<1>1. \A d : {s \in Streams : tracked'[s] /\ sdec'[s] = d} =
             {s \in Streams : tracked[s] /\ sdec[s] = d}
  OBVIOUS
<1> QED
  BY <1>1 DEF WaitGroupExact

\* Every step keeps the WaitGroup exact.  Only Track and Done touch it.
LEMMA WaitStep == IInv /\ [Next]_vars => WaitGroupExact'
<1> SUFFICES ASSUME IInv, [Next]_vars PROVE WaitGroupExact'
  OBVIOUS
<1> USE NoneAssumption DEF IInv, TypeOK, lockVars, callVars, streamVars, Goto, Return,
       DropStream, MayCall, OpenStreams,
       LockInv, HoldInv, OwnerInv, HoldPC, DecoderPC, Blocked, PC, ReadPC, WritePC, StreamState, Kind
<1>0. CASE UNCHANGED vars
  BY <1>0, WaitUnchanged DEF vars
<1>1. ASSUME NEW c \in Callers, NEW d \in Decoders, New(c, d)
      PROVE  WaitGroupExact'
  BY <1>1, WaitUnchanged DEF New
<1>2. ASSUME NEW c \in Callers, NEW d \in Decoders,
             NEW k \in Kind, NEW s \in Streams, RLock(c, d, k, s)
      PROVE  WaitGroupExact'
  BY <1>2, WaitUnchanged DEF RLock
<1>3. ASSUME NEW c \in Callers, Check(c)
      PROVE  WaitGroupExact'
  BY <1>3, WaitUnchanged DEF Check
<1>4. ASSUME NEW c \in Callers, OpenFail(c)
      PROVE  WaitGroupExact'
  BY <1>4, WaitUnchanged DEF OpenFail
<1>5. ASSUME NEW c \in Callers, OpenOK(c)
      PROVE  WaitGroupExact'
  BY <1>5, WaitUnchanged DEF OpenOK
<1>6. ASSUME NEW c \in Callers, Drain(c)
      PROVE  WaitGroupExact'
  BY <1>6, WaitUnchanged DEF Drain
<1>7. ASSUME NEW c \in Callers, Track(c)
      PROVE  WaitGroupExact'
  <2> DEFINE d == dec[c]
             s == cur[c]
  <2>1. d \in Decoders /\ s \in Streams /\ ~tracked[s] /\ sdec[s] = d
    BY <1>7 DEF Track
  <2>2. wg' = [wg EXCEPT ![d] = @ + 1] /\ sdec' = sdec
        /\ tracked' = [tracked EXCEPT ![s] = TRUE]
    BY <1>7 DEF Track
  <2>3. ASSUME NEW e \in Decoders
        PROVE  wg'[e] = Cardinality(InUse(e)')
    <3>1. CASE e = d
      <4>1. InUse(e)' = InUse(d) \cup {s}
        BY <2>1, <2>2, <3>1 DEF InUse
      <4>2. IsFiniteSet(InUse(d)) /\ s \notin InUse(d)
        BY <2>1, StreamsAssumption, FS_Subset DEF InUse
      <4>3. Cardinality(InUse(d) \cup {s}) = Cardinality(InUse(d)) + 1
        BY ONLY <4>2, OneMore
      <4>4. wg[d] = Cardinality(InUse(d))
        BY <2>1 DEF WaitGroupExact, InUse
      <4> QED
        BY <2>1, <2>2, <3>1, <4>1, <4>3, <4>4
    <3>2. CASE e # d
      <4>1. InUse(e)' = InUse(e)
        BY <2>1, <2>2, <3>2 DEF InUse
      <4>2. wg'[e] = wg[e]
        BY <2>1, <2>2, <3>2
      <4> QED
        BY <4>1, <4>2 DEF WaitGroupExact, InUse
    <3> QED
      BY <3>1, <3>2
  <2> QED
    BY <2>3 DEF WaitGroupExact, InUse
<1>8. ASSUME NEW c \in Callers, RUnlock(c)
      PROVE  WaitGroupExact'
  BY <1>8, WaitUnchanged DEF RUnlock
<1>9. ASSUME NEW c \in Callers, NEW s \in Streams, CloseStream(c, s)
      PROVE  WaitGroupExact'
  BY <1>9, WaitUnchanged DEF CloseStream
<1>10. ASSUME NEW c \in Callers, Done(c)
      PROVE  WaitGroupExact'
  <2> DEFINE s == cur[c]
             d == sdec[s]
  <2>1. CASE ~tracked[s]
    BY <1>10, <2>1, WaitUnchanged DEF Done
  <2>2. CASE tracked[s]
    <3>1. s \in Streams /\ d \in Decoders /\ wg[d] \in Nat \ {0}
      BY <1>10, <2>2, TrackedCounts DEF Done
    <3>2. wg' = [wg EXCEPT ![d] = @ - 1] /\ sdec' = sdec
          /\ tracked' = [tracked EXCEPT ![s] = FALSE]
      BY <1>10, <2>2 DEF Done
    <3>3. ASSUME NEW e \in Decoders
          PROVE  wg'[e] = Cardinality(InUse(e)')
      <4>1. CASE e = d
        <5>1. InUse(e)' = InUse(d) \ {s}
          BY <3>1, <3>2, <4>1 DEF InUse
        <5>2. IsFiniteSet(InUse(d)) /\ s \in InUse(d)
          BY <2>2, <3>1, StreamsAssumption, FS_Subset DEF InUse
        <5>3. Cardinality(InUse(d) \ {s}) = Cardinality(InUse(d)) - 1
          BY ONLY <5>2, OneLess
        <5>4. wg[d] = Cardinality(InUse(d))
          BY <3>1 DEF WaitGroupExact, InUse
        <5> QED
          BY <3>1, <3>2, <4>1, <5>1, <5>3, <5>4
      <4>2. CASE e # d
        <5>1. InUse(e)' = InUse(e)
          BY <3>1, <3>2, <4>2 DEF InUse
        <5>2. wg'[e] = wg[e]
          BY <3>1, <3>2, <4>2
        <5> QED
          BY <5>1, <5>2 DEF WaitGroupExact, InUse
      <4> QED
        BY <4>1, <4>2
    <3> QED
      BY <3>3 DEF WaitGroupExact, InUse
  <2> QED
    BY <2>1, <2>2
<1>11. ASSUME NEW c \in Callers, NEW s \in Streams, Forget(c, s)
      PROVE  WaitGroupExact'
  BY <1>11, WaitUnchanged DEF Forget
<1>12. ASSUME NEW c \in Callers, NEW d \in Decoders, Close(c, d)
      PROVE  WaitGroupExact'
  BY <1>12, WaitUnchanged DEF Close
<1>13. ASSUME NEW c \in Callers, Announce(c)
      PROVE  WaitGroupExact'
  BY <1>13, WaitUnchanged DEF Announce
<1>14. ASSUME NEW c \in Callers, Lock(c)
      PROVE  WaitGroupExact'
  BY <1>14, WaitUnchanged DEF Lock
<1>15. ASSUME NEW c \in Callers, CloseCheck(c)
      PROVE  WaitGroupExact'
  BY <1>15, WaitUnchanged DEF CloseCheck
<1>16. ASSUME NEW c \in Callers, WaitStreams(c)
      PROVE  WaitGroupExact'
  BY <1>16, WaitUnchanged DEF WaitStreams
<1>17. ASSUME NEW c \in Callers, End(c)
      PROVE  WaitGroupExact'
  BY <1>17, WaitUnchanged DEF End
<1>18. ASSUME NEW c \in Callers, Unlock(c)
      PROVE  WaitGroupExact'
  BY <1>18, WaitUnchanged DEF Unlock
<1> QED
  BY <1>0, <1>1, <1>2, <1>3, <1>4, <1>5, <1>6, <1>7, <1>8, <1>9, <1>10,
     <1>11, <1>12, <1>13, <1>14, <1>15, <1>16, <1>17, <1>18
     DEF Next, Running, Calling

\* The decoders that are started are finitely many.
LEMMA StartedFinite == IsFiniteSet(Started)
  BY DecodersAssumption, FS_Subset DEF Started

\* The platform count stays exact across a step that leaves it alone.
LEMMA PlatformUnchanged ==
    ASSUME platform' = platform, life' = life, PlatformBalanced
    PROVE  PlatformBalanced'
  BY DEF PlatformBalanced

\* Every step keeps the platform count exact.  Only New and End touch it.
LEMMA PlatformStep == IInv /\ [Next]_vars => PlatformBalanced'
<1> SUFFICES ASSUME IInv, [Next]_vars PROVE PlatformBalanced'
  OBVIOUS
<1> USE DEF IInv, TypeOK, PC, ReadPC, WritePC, StreamState, Kind
<1>0. CASE UNCHANGED vars
  BY <1>0, PlatformUnchanged DEF vars
<1>1. ASSUME NEW c \in Callers, NEW d \in Decoders, New(c, d)
      PROVE  PlatformBalanced'
  <2>1. Started' = Started \cup {d} /\ d \notin Started
    BY <1>1 DEF New, Started
  <2>2. Cardinality(Started \cup {d}) = Cardinality(Started) + 1
    BY <2>1, StartedFinite, OneMore
  <2> QED
    BY <1>1, <2>1, <2>2 DEF New, PlatformBalanced, Started
<1>2. ASSUME NEW c \in Callers, NEW d \in Decoders,
             NEW k \in Kind, NEW s \in Streams, RLock(c, d, k, s)
      PROVE  PlatformBalanced'
  BY <1>2, PlatformUnchanged DEF RLock
<1>3. ASSUME NEW c \in Callers, Check(c)
      PROVE  PlatformBalanced'
  BY <1>3, PlatformUnchanged DEF Check
<1>4. ASSUME NEW c \in Callers, OpenFail(c)
      PROVE  PlatformBalanced'
  BY <1>4, PlatformUnchanged DEF OpenFail
<1>5. ASSUME NEW c \in Callers, OpenOK(c)
      PROVE  PlatformBalanced'
  BY <1>5, PlatformUnchanged DEF OpenOK
<1>6. ASSUME NEW c \in Callers, Drain(c)
      PROVE  PlatformBalanced'
  BY <1>6, PlatformUnchanged DEF Drain
<1>7. ASSUME NEW c \in Callers, Track(c)
      PROVE  PlatformBalanced'
  BY <1>7, PlatformUnchanged DEF Track
<1>8. ASSUME NEW c \in Callers, RUnlock(c)
      PROVE  PlatformBalanced'
  BY <1>8, PlatformUnchanged DEF RUnlock
<1>9. ASSUME NEW c \in Callers, NEW s \in Streams, CloseStream(c, s)
      PROVE  PlatformBalanced'
  BY <1>9, PlatformUnchanged DEF CloseStream
<1>10. ASSUME NEW c \in Callers, Done(c)
      PROVE  PlatformBalanced'
  BY <1>10, PlatformUnchanged DEF Done
<1>11. ASSUME NEW c \in Callers, NEW s \in Streams, Forget(c, s)
      PROVE  PlatformBalanced'
  BY <1>11, PlatformUnchanged DEF Forget
<1>12. ASSUME NEW c \in Callers, NEW d \in Decoders, Close(c, d)
      PROVE  PlatformBalanced'
  BY <1>12, PlatformUnchanged DEF Close
<1>13. ASSUME NEW c \in Callers, Announce(c)
      PROVE  PlatformBalanced'
  BY <1>13, PlatformUnchanged DEF Announce
<1>14. ASSUME NEW c \in Callers, Lock(c)
      PROVE  PlatformBalanced'
  BY <1>14, PlatformUnchanged DEF Lock
<1>15. ASSUME NEW c \in Callers, CloseCheck(c)
      PROVE  PlatformBalanced'
  BY <1>15, PlatformUnchanged DEF CloseCheck
<1>16. ASSUME NEW c \in Callers, WaitStreams(c)
      PROVE  PlatformBalanced'
  BY <1>16, PlatformUnchanged DEF WaitStreams
<1>17. ASSUME NEW c \in Callers, End(c)
      PROVE  PlatformBalanced'
  <2>1. dec[c] \in Decoders /\ life[dec[c]] = "started"
    BY <1>17 DEF End, LockInv, LifeInv, DecoderPC
  <2>2. Started' = Started \ {dec[c]} /\ dec[c] \in Started
    BY <1>17, <2>1 DEF End, Started
  <2>3. Cardinality(Started \ {dec[c]}) = Cardinality(Started) - 1
    BY <2>2, StartedFinite, OneLess
  <2> QED
    BY <1>17, <2>2, <2>3 DEF End, PlatformBalanced, Started
<1>18. ASSUME NEW c \in Callers, Unlock(c)
      PROVE  PlatformBalanced'
  BY <1>18, PlatformUnchanged DEF Unlock
<1> QED
  BY <1>0, <1>1, <1>2, <1>3, <1>4, <1>5, <1>6, <1>7, <1>8, <1>9, <1>10,
     <1>11, <1>12, <1>13, <1>14, <1>15, <1>16, <1>17, <1>18
     DEF Next, Running, Calling

\* Every step keeps what the pc of a goroutine says of the closing of its
\* decoder.  Done, which lowers a count Close may have seen at 0, and Unlock,
\* which wakes the readers, are the cases to look at.
LEMMA LifeStep == IInv /\ [Next]_vars => LifeInv'
<1> SUFFICES ASSUME IInv, [Next]_vars PROVE LifeInv'
  OBVIOUS
<1> USE NoneAssumption DEF IInv, TypeOK, lockVars, callVars, streamVars, Goto, Return,
       DropStream, MayCall, OpenStreams,
       LockInv, HoldInv, OwnerInv, LifeInv, HoldPC, DecoderPC, Blocked,
       PC, ReadPC, WritePC, StreamState, Kind
<1>0. CASE UNCHANGED vars
  BY <1>0 DEF vars
<1>1. ASSUME NEW c \in Callers, NEW d \in Decoders, New(c, d)
      PROVE  LifeInv'
  BY <1>1 DEF New
<1>2. ASSUME NEW c \in Callers, NEW d \in Decoders,
             NEW k \in Kind, NEW s \in Streams, RLock(c, d, k, s)
      PROVE  LifeInv'
  <2>1. CASE writer[d] = None
    BY <1>2, <2>1 DEF RLock
  <2>2. CASE writer[d] # None
    BY <1>2, <2>2 DEF RLock
  <2> QED
    BY <2>1, <2>2
<1>3. ASSUME NEW c \in Callers, Check(c)
      PROVE  LifeInv'
  <2>1. CASE closed[dec[c]]
    BY <1>3, <2>1 DEF Check
  <2>2. CASE ~closed[dec[c]]
    BY <1>3, <2>2 DEF Check
  <2> QED
    BY <2>1, <2>2
<1>4. ASSUME NEW c \in Callers, OpenFail(c)
      PROVE  LifeInv'
  BY <1>4 DEF OpenFail
<1>5. ASSUME NEW c \in Callers, OpenOK(c)
      PROVE  LifeInv'
  BY <1>5 DEF OpenOK
<1>6. ASSUME NEW c \in Callers, Drain(c)
      PROVE  LifeInv'
  BY <1>6 DEF Drain
<1>7. ASSUME NEW c \in Callers, Track(c)
      PROVE  LifeInv'
  BY <1>7 DEF Track
<1>8. ASSUME NEW c \in Callers, RUnlock(c)
      PROVE  LifeInv'
  BY <1>8 DEF RUnlock
<1>9. ASSUME NEW c \in Callers, NEW s \in Streams, CloseStream(c, s)
      PROVE  LifeInv'
  BY <1>9 DEF CloseStream
<1>10. ASSUME NEW c \in Callers, Done(c)
      PROVE  LifeInv'
  <2> USE <1>10 DEF Done
  <2>1. closed' = closed /\ life' = life
    OBVIOUS
  <2>2. pc'[c] = "idle" /\ pc[c] = "sdone"
    OBVIOUS
  <2>3. \A e \in Callers \ {c} : pc'[e] = pc[e] /\ dec'[e] = dec[e]
    OBVIOUS
  <2>4. \A d \in Decoders : wg[d] = 0 => wg'[d] = 0
    BY TrackedCounts
  <2> QED
    BY <2>1, <2>2, <2>3, <2>4
<1>11. ASSUME NEW c \in Callers, NEW s \in Streams, Forget(c, s)
      PROVE  LifeInv'
  BY <1>11 DEF Forget
<1>12. ASSUME NEW c \in Callers, NEW d \in Decoders, Close(c, d)
      PROVE  LifeInv'
  BY <1>12 DEF Close
<1>13. ASSUME NEW c \in Callers, Announce(c)
      PROVE  LifeInv'
  BY <1>13 DEF Announce
<1>14. ASSUME NEW c \in Callers, Lock(c)
      PROVE  LifeInv'
  BY <1>14 DEF Lock
<1>15. ASSUME NEW c \in Callers, CloseCheck(c)
      PROVE  LifeInv'
  <2> USE <1>15 DEF CloseCheck
  <2>1. dec[c] \in Decoders /\ life[dec[c]] # "absent" /\ life' = life /\ wg' = wg /\ dec' = dec
    OBVIOUS
  <2>2. CASE closed[dec[c]]
    <3>1. closed' = closed /\ pc' = [pc EXCEPT ![c] = "unlock"]
      BY <2>2
    <3>2. life[dec[c]] = "ended"
      BY <2>1, <2>2
    <3> QED
      BY <2>1, <3>1, <3>2
  <2>3. CASE ~closed[dec[c]]
    <3>1. /\ closed' = [closed EXCEPT ![dec[c]] = TRUE]
          /\ pc' = [pc EXCEPT ![c] = "waitstreams"]
      BY <2>3
    <3>2. life[dec[c]] = "started"
      BY <2>1, <2>3
    <3> QED
      BY <2>1, <3>1, <3>2
  <2> QED
    BY <2>2, <2>3
<1>16. ASSUME NEW c \in Callers, WaitStreams(c)
      PROVE  LifeInv'
  BY <1>16 DEF WaitStreams
<1>17. ASSUME NEW c \in Callers, End(c)
      PROVE  LifeInv'
  BY <1>17 DEF End
<1>18. ASSUME NEW c \in Callers, Unlock(c)
      PROVE  LifeInv'
  <2> USE <1>18 DEF Unlock
  <2>1. closed' = closed /\ life' = life /\ wg' = wg
    OBVIOUS
  <2>2. pc'[c] = "idle" /\ pc[c] = "unlock"
    OBVIOUS
  <2>3. \A e \in Callers \ {c} : dec'[e] = dec[e]
    OBVIOUS
  <2>4. \A e \in Callers \ {c} :
          pc'[e] = pc[e] \/ (pc[e] = "rwait" /\ pc'[e] = "check")
    OBVIOUS
  <2> QED
    BY <2>1, <2>2, <2>3, <2>4
<1> HIDE DEF IInv, TypeOK, LockInv, HoldInv, OwnerInv, LifeInv
<1> QED
  BY <1>0, <1>1, <1>2, <1>3, <1>4, <1>5, <1>6, <1>7, <1>8, <1>9, <1>10,
     <1>11, <1>12, <1>13, <1>14, <1>15, <1>16, <1>17, <1>18
     DEF Next, Running, Calling

\* No step tears the platform down under a backend object.  The case is End: a
\* Stream in use on that decoder would be tracked, and then the count is not 0,
\* or in a call, and then that call still holds the read lock.
LEMMA UseStep == IInv /\ [Next]_vars => NoTeardownUnderUse'
<1> SUFFICES ASSUME IInv, [Next]_vars PROVE NoTeardownUnderUse'
  OBVIOUS
<1> USE NoneAssumption DEF IInv, TypeOK, lockVars, callVars, streamVars, Goto, Return,
       DropStream, MayCall, OpenStreams,
       LockInv, HoldInv, OwnerInv, LifeInv, HoldPC, DecoderPC, Blocked,
       PC, ReadPC, WritePC, StreamState, Kind, NoTeardownUnderUse
<1>0. CASE UNCHANGED vars
  BY <1>0 DEF vars
<1>1. ASSUME NEW c \in Callers, NEW d \in Decoders, New(c, d)
      PROVE  NoTeardownUnderUse'
  BY <1>1 DEF New
<1>2. ASSUME NEW c \in Callers, NEW d \in Decoders,
             NEW k \in Kind, NEW s \in Streams, RLock(c, d, k, s)
      PROVE  NoTeardownUnderUse'
  BY <1>2 DEF RLock
<1>3. ASSUME NEW c \in Callers, Check(c)
      PROVE  NoTeardownUnderUse'
  BY <1>3 DEF Check
<1>4. ASSUME NEW c \in Callers, OpenFail(c)
      PROVE  NoTeardownUnderUse'
  BY <1>4 DEF OpenFail
<1>5. ASSUME NEW c \in Callers, OpenOK(c)
      PROVE  NoTeardownUnderUse'
  BY <1>5 DEF OpenOK
<1>6. ASSUME NEW c \in Callers, Drain(c)
      PROVE  NoTeardownUnderUse'
  BY <1>6 DEF Drain
<1>7. ASSUME NEW c \in Callers, Track(c)
      PROVE  NoTeardownUnderUse'
  BY <1>7 DEF Track
<1>8. ASSUME NEW c \in Callers, RUnlock(c)
      PROVE  NoTeardownUnderUse'
  BY <1>8 DEF RUnlock
<1>9. ASSUME NEW c \in Callers, NEW s \in Streams, CloseStream(c, s)
      PROVE  NoTeardownUnderUse'
  BY <1>9 DEF CloseStream
<1>10. ASSUME NEW c \in Callers, Done(c)
      PROVE  NoTeardownUnderUse'
  BY <1>10 DEF Done
<1>11. ASSUME NEW c \in Callers, NEW s \in Streams, Forget(c, s)
      PROVE  NoTeardownUnderUse'
  BY <1>11 DEF Forget
<1>12. ASSUME NEW c \in Callers, NEW d \in Decoders, Close(c, d)
      PROVE  NoTeardownUnderUse'
  BY <1>12 DEF Close
<1>13. ASSUME NEW c \in Callers, Announce(c)
      PROVE  NoTeardownUnderUse'
  BY <1>13 DEF Announce
<1>14. ASSUME NEW c \in Callers, Lock(c)
      PROVE  NoTeardownUnderUse'
  BY <1>14 DEF Lock
<1>15. ASSUME NEW c \in Callers, CloseCheck(c)
      PROVE  NoTeardownUnderUse'
  BY <1>15 DEF CloseCheck
<1>16. ASSUME NEW c \in Callers, WaitStreams(c)
      PROVE  NoTeardownUnderUse'
  BY <1>16 DEF WaitStreams
<1>17. ASSUME NEW c \in Callers, End(c)
      PROVE  NoTeardownUnderUse'
  <2> USE <1>17 DEF End
  <2>1. st' = st /\ sdec' = sdec /\ life' = [life EXCEPT ![dec[c]] = "ended"]
    OBVIOUS
  <2>2. dec[c] \in Decoders /\ readers[dec[c]] = {} /\ wg[dec[c]] = 0
    BY SMTT(30)
  <2>3. ASSUME NEW s \in Streams, st[s] \in {"opening", "live"}
        PROVE  sdec[s] # dec[c]
    <3>1. CASE tracked[s]
      BY <2>2, <3>1, TrackedCounts
    <3>2. CASE ~tracked[s]
      <4>1. PICK e \in Callers : pc[e] \in HoldPC /\ cur[e] = s
        BY <2>3, <3>2
      <4>2. pc[e] \in {"opening", "draining", "tracking"} /\ sdec[s] = dec[e]
        BY <2>3, <4>1
      <4>3. dec[e] \in Decoders /\ e \in readers[dec[e]]
        BY <4>2
      <4> QED
        BY <2>2, <4>2, <4>3
    <3> QED
      BY <3>1, <3>2
  <2>4. \A s \in Streams : st[s] \in {"opening", "live"} => life[sdec[s]] = "started"
    BY DEF NoTeardownUnderUse
  <2>5. \A d : d # dec[c] => life'[d] = life[d]
    BY <2>1
  <2> QED
    BY <2>1, <2>3, <2>4, <2>5
<1>18. ASSUME NEW c \in Callers, Unlock(c)
      PROVE  NoTeardownUnderUse'
  BY <1>18 DEF Unlock
<1> QED
  BY <1>0, <1>1, <1>2, <1>3, <1>4, <1>5, <1>6, <1>7, <1>8, <1>9, <1>10,
     <1>11, <1>12, <1>13, <1>14, <1>15, <1>16, <1>17, <1>18
     DEF Next, Running, Calling

-----------------------------------------------------------------------------
\* The inductive invariant holds at the start.
LEMMA InitInv == Init => IInv
<1> SUFFICES ASSUME Init PROVE IInv
  OBVIOUS
<1> USE NoneAssumption DEF Init
<1>1. TypeOK
  BY DEF TypeOK, PC, Kind, StreamState
<1>2. LockInv /\ HoldInv /\ OwnerInv /\ LifeInv
  BY DEF LockInv, HoldInv, OwnerInv, LifeInv, HoldPC, DecoderPC, ReadPC, WritePC
<1>3. NoTeardownUnderUse
  BY DEF NoTeardownUnderUse
<1>4. WaitGroupExact
  <2>1. \A d : {s \in Streams : tracked[s] /\ sdec[s] = d} = {}
    OBVIOUS
  <2> QED
    BY <2>1, FS_EmptySet DEF WaitGroupExact
<1>5. PlatformBalanced
  <2>1. {d \in Decoders : life[d] = "started"} = {}
    OBVIOUS
  <2> QED
    BY <2>1, FS_EmptySet DEF PlatformBalanced
<1> QED
  BY <1>1, <1>2, <1>3, <1>4, <1>5 DEF IInv

\* The inductive invariant is inductive.
LEMMA StepInv == IInv /\ [Next]_vars => IInv'
  BY TypeStep, LockStep, HoldStep, OwnerStep, WaitStep, PlatformStep, LifeStep,
     UseStep DEF IInv

\* The inductive invariant holds of every behaviour, for any number of
\* goroutines, decoders and Streams.
THEOREM Invariance == Spec => []IInv
  BY InitInv, StepInv, PTL DEF Spec

\* The type invariant; in particular neither the WaitGroup of a Decoder
\* (Stream.Close, audio.go track) nor the platform count ever goes below zero.
THEOREM TypeCorrect == Spec => []TypeOK
<1>1. IInv => TypeOK
  BY DEF IInv
<1> QED
  BY <1>1, Invariance, PTL

\* Decoder.Close never shuts the platform down under a decode, an open or an
\* unclosed Stream.
THEOREM PlatformIsSafe == Spec => []NoTeardownUnderUse
<1>1. IInv => NoTeardownUnderUse
  BY DEF IInv
<1> QED
  BY <1>1, Invariance, PTL

\* New and Decoder.Close start and shut the platform down one to one per Decoder.
THEOREM PlatformIsBalanced == Spec => []PlatformBalanced
<1>1. IInv => PlatformBalanced
  BY DEF IInv
<1> QED
  BY <1>1, Invariance, PTL

\* The WaitGroup counts exactly the Streams that are not closed.
THEOREM StreamsAreCounted == Spec => []WaitGroupExact
<1>1. IInv => WaitGroupExact
  BY DEF IInv
<1> QED
  BY <1>1, Invariance, PTL

\* Decoder.Close runs with no decode or open of that Decoder in flight.
THEOREM CloseIsExclusive == Spec => []CloseExcludesCalls
<1>1. IInv => CloseExcludesCalls
  <2> SUFFICES ASSUME IInv, NEW d \in Decoders, Locked(d)
               PROVE  readers[d] = {}
    BY DEF CloseExcludesCalls
  <2>1. PICK c \in Callers : writer[d] = c /\ pc[c] \in WritePC \ {"wlock"}
    BY DEF Locked
  <2>2. dec[c] = d
    BY <2>1 DEF IInv, LockInv
  <2> QED
    BY <2>1, <2>2 DEF IInv, LockInv
<1> QED
  BY <1>1, Invariance, PTL

\* Decoder.Close, also a second one, returns only after the platform is released.
THEOREM CloseHasReleased == Spec => []CloseMeansReleased
<1>1. IInv => CloseMeansReleased
  <2> SUFFICES ASSUME IInv, NEW d \in Decoders, closed[d], life[d] # "ended"
               PROVE  writer[d] # None
    BY DEF CloseMeansReleased
  <2>1. life[d] = "started"
    BY DEF IInv, TypeOK, LifeInv
  <2>2. PICK c \in Callers : pc[c] \in {"waitstreams", "end"} /\ dec[c] = d
    BY <2>1 DEF IInv, LifeInv
  <2>3. writer[d] = c
    BY <2>2 DEF IInv, LockInv, WritePC
  <2> QED
    BY <2>3, NoneAssumption
<1> QED
  BY <1>1, Invariance, PTL

\* The WaitGroup is never added to once Decoder.Close may be waiting on it.
THEOREM AddsBeforeWait == Spec => AddBeforeWait
<1>1. IInv /\ [Next]_vars =>
        [\A d \in Decoders : wg'[d] > wg[d] => ~closed[d]]_vars
  <2> SUFFICES ASSUME IInv, Next, NEW d \in Decoders, wg'[d] > wg[d]
               PROVE  ~closed[d]
    OBVIOUS
  <2>1. wg' # wg
    BY DEF IInv, TypeOK
  <2>2. PICK c \in Callers : Track(c) \/ Done(c)
    BY <2>1 DEF Next, Running, Calling, New, RLock, Check, OpenFail, OpenOK,
       Drain, RUnlock, CloseStream, Forget, Close, Announce, Lock, CloseCheck,
       WaitStreams, End, Unlock
  <2>3. CASE Track(c)
    BY <2>3 DEF Track, IInv, TypeOK, LifeInv, LockInv, DecoderPC, ReadPC
  <2>4. CASE Done(c)
    BY <2>4 DEF Done, IInv, TypeOK, OwnerInv
  <2> QED
    BY <2>2, <2>3, <2>4
<1> QED
  BY <1>1, Invariance, PTL DEF Spec, AddBeforeWait

-----------------------------------------------------------------------------
(* A Decoder implements module Lifecycle. *)

\* The two mapped variables of Lifecycle that are not variables of Decoder.
Phases == [d \in Decoders |-> PhaseOf(d)]
Users == [d \in Decoders |-> UsersOf(d)]

\* A step that moves no Stream into or out of use, and no decoder on in its life,
\* is invisible in Lifecycle.
LEMMA AbstractStutter ==
    ASSUME life' = life, closed' = closed, platform' = platform,
           \A s \in Streams :
             \/ st'[s] = st[s] /\ sdec'[s] = sdec[s]
             \/ st[s] \notin {"opening", "live"} /\ st'[s] \notin {"opening", "live"}
             \/ /\ st[s] \in {"opening", "live"} /\ st'[s] \in {"opening", "live"}
                /\ sdec'[s] = sdec[s]
    PROVE  UNCHANGED L!vars
<1>1. Phases' = Phases
  BY DEF Phases, PhaseOf
<1>2. Users' = Users
  BY DEF Users, UsersOf
<1> QED
  BY <1>1, <1>2 DEF L!vars, Phases, Users

\* A step that takes Stream s out of use is a Release in Lifecycle.
LEMMA AbstractRelease ==
    ASSUME IInv, life' = life, closed' = closed, platform' = platform,
           NEW s \in Streams, st[s] \in {"opening", "live"}, sdec[s] \in Decoders,
           st'[s] \notin {"opening", "live"},
           \A r \in Streams \ {s} : st'[r] = st[r] /\ sdec'[r] = sdec[r]
    PROVE  L!Release(sdec[s], s)
<1>1. Phases' = Phases
  BY DEF Phases, PhaseOf
<1>2. s \in Users[sdec[s]]
  BY DEF Users, UsersOf
<1>3. Users' = [Users EXCEPT ![sdec[s]] = @ \ {s}]
  BY ZenonT(30) DEF Users, UsersOf
<1> QED
  BY <1>1, <1>2, <1>3 DEF L!Release, Phases, Users

\* A Decoder starts as Lifecycle does.
LEMMA RefinesInit == Init => L!Init
<1> SUFFICES ASSUME Init PROVE L!Init
  OBVIOUS
<1>1. Phases = [d \in Decoders |-> "absent"]
  BY DEF Init, Phases, PhaseOf
<1>2. Users = [d \in Decoders |-> {}]
  BY DEF Init, Users, UsersOf
<1> QED
  BY <1>1, <1>2 DEF Init, L!Init, Phases, Users

\* Every step of a Decoder is a step of Lifecycle or invisible there: New is
\* Create, a successful Check is Acquire, OpenFail, Drain and the first
\* CloseStream are Release, CloseCheck is BeginClose and End is FinishClose.
LEMMA RefinesNext == IInv /\ [Next]_vars => [L!Next]_(L!vars)
<1> SUFFICES ASSUME IInv, [Next]_vars PROVE [L!Next]_(L!vars)
  OBVIOUS
<1> USE DEF IInv, TypeOK, lockVars, callVars, streamVars, Return, DropStream
<1>0. CASE UNCHANGED vars
  BY <1>0, AbstractStutter DEF vars
<1>1. ASSUME NEW c \in Callers, NEW d \in Decoders, New(c, d)
      PROVE  L!Create(d)
  <2>1. Phases[d] = "absent" /\ Phases' = [Phases EXCEPT ![d] = "open"]
    <3>1. life[d] = "absent" /\ ~closed[d]
      BY <1>1 DEF New, LifeInv
    <3>2. PhaseOf(d) = "absent" /\ PhaseOf(d)' = "open"
      BY <1>1, <3>1 DEF New, PhaseOf
    <3>3. \A e \in Decoders \ {d} : PhaseOf(e)' = PhaseOf(e)
      BY <1>1 DEF New, PhaseOf
    <3> QED
      BY <3>2, <3>3 DEF Phases
  <2>2. Users' = Users
    BY <1>1 DEF New, Users, UsersOf
  <2> QED
    BY <1>1, <2>1, <2>2 DEF New, L!Create, Phases, Users
<1>2. ASSUME NEW c \in Callers, Check(c)
      PROVE  /\ dec[c] \in Decoders /\ cur[c] \in Streams
             /\ UNCHANGED L!vars \/ L!Acquire(dec[c], cur[c])
  <2>1. cur[c] \in Streams /\ dec[c] \in Decoders /\ st[cur[c]] = "reserved"
        /\ life[dec[c]] # "absent"
    BY <1>2 DEF Check, HoldInv, HoldPC, LockInv, LifeInv, DecoderPC, ReadPC
  <2>2. CASE closed[dec[c]]
    BY <1>2, <2>1, <2>2, AbstractStutter DEF Check
  <2>3. CASE ~closed[dec[c]]
    <3>1. /\ st' = [st EXCEPT ![cur[c]] = "opening"]
          /\ sdec' = [sdec EXCEPT ![cur[c]] = dec[c]]
          /\ UNCHANGED <<life, closed, platform, dec, cur>>
      BY <1>2, <2>3 DEF Check
    <3>2. Phases' = Phases /\ Phases[dec[c]] = "open"
      BY <2>1, <2>3, <3>1 DEF Phases, PhaseOf, LifeInv
    <3>3. \A d \in Decoders : cur[c] \notin Users[d]
      BY <2>1 DEF Users, UsersOf
    <3>4. Users' = [Users EXCEPT ![dec[c]] = @ \cup {cur[c]}]
      <4>1. \A d \in Decoders :
              UsersOf(d)' = IF d = dec[c] THEN UsersOf(d) \cup {cur[c]} ELSE UsersOf(d)
        BY <2>1, <3>1 DEF UsersOf
      <4> QED
        BY <2>1, <4>1 DEF Users
    <3> QED
      BY <2>1, <3>1, <3>2, <3>3, <3>4 DEF L!Acquire, Phases, Users
  <2> QED
    BY <2>1, <2>2, <2>3
<1>3. ASSUME NEW c \in Callers, OpenFail(c) \/ Drain(c)
      PROVE  /\ dec[c] \in Decoders /\ cur[c] \in Streams
             /\ L!Release(dec[c], cur[c])
  <2>1. /\ cur[c] \in Streams /\ dec[c] \in Decoders
        /\ st[cur[c]] \in {"opening", "live"} /\ sdec[cur[c]] = dec[c]
    BY <1>3 DEF OpenFail, Drain, HoldInv, HoldPC, LockInv, DecoderPC, ReadPC
  <2> QED
    BY <1>3, <2>1, AbstractRelease DEF OpenFail, Drain
<1>4. ASSUME NEW c \in Callers, NEW s \in Streams, CloseStream(c, s)
      PROVE  sdec[s] \in Decoders /\ (UNCHANGED L!vars \/ L!Release(sdec[s], s))
  <2>1. sdec[s] \in Decoders
    BY <1>4, NoneAssumption DEF CloseStream, OwnerInv
  <2>2. CASE st[s] = "live"
    BY <1>4, <2>1, <2>2, AbstractRelease DEF CloseStream
  <2>3. CASE st[s] = "released"
    BY <1>4, <2>1, <2>3, AbstractStutter DEF CloseStream
  <2> QED
    BY <1>4, <2>1, <2>2, <2>3 DEF CloseStream
<1>5. ASSUME NEW c \in Callers, CloseCheck(c)
      PROVE  dec[c] \in Decoders /\ (UNCHANGED L!vars \/ L!BeginClose(dec[c]))
  <2>1. dec[c] \in Decoders /\ life[dec[c]] # "absent"
    BY <1>5 DEF CloseCheck, LockInv, LifeInv, DecoderPC, WritePC
  <2>2. CASE closed' = closed
    BY <1>5, <2>1, <2>2, AbstractStutter DEF CloseCheck
  <2>3. CASE ~closed[dec[c]] /\ closed' = [closed EXCEPT ![dec[c]] = TRUE]
    <3>1. Phases[dec[c]] = "open" /\ Phases' = [Phases EXCEPT ![dec[c]] = "closing"]
      <4>1. life' = life /\ dec' = dec /\ life[dec[c]] = "started"
        BY <1>5, <2>1, <2>3 DEF CloseCheck, LifeInv
      <4>2. PhaseOf(dec[c]) = "open"
        BY <2>1, <2>3, <4>1 DEF PhaseOf
      <4>3. \A d \in Decoders :
              PhaseOf(d)' = IF d = dec[c] THEN "closing" ELSE PhaseOf(d)
        BY <2>1, <2>3, <4>1 DEF PhaseOf
      <4> QED
        BY <2>1, <4>2, <4>3 DEF Phases
    <3>2. Users' = Users
      BY <1>5 DEF CloseCheck, Users, UsersOf
    <3> QED
      BY <1>5, <2>1, <3>1, <3>2 DEF CloseCheck, L!BeginClose, Phases, Users
  <2> QED
    BY <1>5, <2>1, <2>2, <2>3 DEF CloseCheck
<1>6. ASSUME NEW c \in Callers, End(c)
      PROVE  dec[c] \in Decoders /\ L!FinishClose(dec[c])
  <2>1. dec[c] \in Decoders /\ life[dec[c]] = "started" /\ closed[dec[c]]
    BY <1>6 DEF End, LockInv, LifeInv, DecoderPC, WritePC
  <2>2. Phases[dec[c]] = "closing" /\ Phases' = [Phases EXCEPT ![dec[c]] = "closed"]
    BY <1>6, <2>1 DEF End, Phases, PhaseOf
  <2>3. Users' = Users
    BY <1>6 DEF End, Users, UsersOf
  <2>4. life'[dec[c]] = "ended"
    BY <1>6, <2>1 DEF End
  <2>5. Users[dec[c]] = {}
    BY <2>1, <2>3, <2>4, <1>6, UseStep DEF End, Users, UsersOf, NoTeardownUnderUse
  <2> QED
    BY <1>6, <2>1, <2>2, <2>3, <2>5 DEF End, L!FinishClose, Phases, Users
<1>7. ASSUME NEW c \in Callers, NEW d \in Decoders, NEW k \in Kind, NEW s \in Streams,
             RLock(c, d, k, s)
      PROVE  UNCHANGED L!vars
  BY <1>7, AbstractStutter DEF RLock
<1>8. ASSUME NEW c \in Callers, OpenOK(c)
      PROVE  UNCHANGED L!vars
  <2>1. cur[c] \in Streams /\ st[cur[c]] = "opening"
    BY <1>8 DEF OpenOK, HoldInv, HoldPC
  <2> QED
    BY <1>8, <2>1, AbstractStutter DEF OpenOK
<1>9. ASSUME NEW c \in Callers, NEW s \in Streams, Forget(c, s)
      PROVE  UNCHANGED L!vars
  BY <1>9, AbstractStutter DEF Forget
<1>10. ASSUME NEW c \in Callers,
              \/ Track(c) \/ RUnlock(c) \/ Done(c) \/ Announce(c) \/ Lock(c)
              \/ WaitStreams(c) \/ Unlock(c) \/ \E d \in Decoders : Close(c, d)
       PROVE  UNCHANGED L!vars
  <2>1. UNCHANGED <<life, closed, platform, st, sdec>>
    BY <1>10 DEF Track, RUnlock, Done, Announce, Lock, WaitStreams, Unlock, Close
  <2> QED
    BY <2>1, AbstractStutter
<1>11. \A d \in Decoders :
          L!Create(d) \/ L!BeginClose(d) \/ L!FinishClose(d) => L!Next
  BY DEF L!Next
<1>12. \A d \in Decoders, s \in Streams :
          L!Acquire(d, s) \/ L!Release(d, s) => L!Next
  BY DEF L!Next
<1> HIDE DEF IInv, TypeOK, lockVars, callVars, streamVars, Return, DropStream
<1> QED
  BY <1>0, <1>1, <1>2, <1>3, <1>4, <1>5, <1>6, <1>7, <1>8, <1>9, <1>10, <1>11,
     <1>12 DEF Next, Running, Calling

\* The Decoder implements Lifecycle: work starts only on an open Decoder, Close
\* waits for all of it, and gives the platform back once.
THEOREM Refinement == Spec => ImplementsLifecycle
<1>1. Init => L!Init
  BY RefinesInit
<1>2. IInv /\ [Next]_vars => [L!Next]_(L!vars)
  BY RefinesNext
<1> QED
  BY <1>1, <1>2, Invariance, PTL DEF Spec, L!Spec, ImplementsLifecycle
=============================================================================
