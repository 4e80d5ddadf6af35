-------------------------- MODULE SourceReaderProofs --------------------------
(***************************************************************************)
(* Proofs about module SourceReader, for any numbers of samples, units and *)
(* outstanding reads, with and without a deadline: the inductive invariant *)
(* IInv, one lemma per conjunct of it, and the safety properties.          *)
(***************************************************************************)
EXTENDS SourceReader, SequenceTheorems, TLAPS

ClosedPC == ClosePC \cup {"closed"}

\* A SourceReader has a sample while it has units of it to serve, and none
\* while it waits for one or is closed.
ServingInv ==
    /\ sample # 0 <=> left > 0
    /\ pc \in ReadPC \cup ClosedPC => left = 0
    /\ pc \in {"arm", "wait"} => empty <= MaxEmpty
    /\ pc \in ReadPC => want # 0
    /\ \A k \in DOMAIN ch : ch[k].id <= Len(made)

\* Until a read is given up, one is unanswered, or answered and not taken,
\* exactly while next waits for it.
AnswerInv ==
    /\ outstanding + Len(ch) <= MaxOutstanding
    /\ pc = "request" => outstanding + Len(ch) < MaxOutstanding
    /\ ~gaveUp =>
          outstanding + Len(ch) = IF pc \in {"arm", "wait"} THEN 1 ELSE 0

\* Who has released the callback, by how far Close has come.
ReleasedBy ==
    (IF pc \in {"relattributes", "relcallback", "closed"} /\ ~gaveUp
     THEN {"reader"} ELSE {})
    \cup (IF pc \in {"relcallback", "closed"} THEN {"attributes"} ELSE {})
    \cup (IF pc = "closed" THEN {"stream"} ELSE {})

HolderInv ==
    /\ holders = {"stream", "attributes", "reader"} \ ReleasedBy
    /\ pinned <=> holders # {}
    /\ pc = "relreader" => ~gaveUp

IInv == RefsExact /\ ServingInv /\ AnswerInv /\ HolderInv

-----------------------------------------------------------------------------
(* The channel. *)

\* An element of a sequence over S is in S.
LEMMA ElementInSet ==
    ASSUME NEW S, NEW s \in Seq(S), NEW i \in DOMAIN s
    PROVE  s[i] \in S /\ i \in 1..Len(s)
  OBVIOUS

\* A sequence of at most one element is empty or has one.
LEMMA ShortSequence ==
    ASSUME NEW S, NEW s \in Seq(S), Len(s) <= 1
    PROVE  \/ s = <<>> /\ Len(s) = 0 /\ DOMAIN s = {}
           \/ \E e \in S : /\ s = <<e>> /\ Len(s) = 1 /\ DOMAIN s = {1}
                           /\ Head(s) = e /\ Tail(s) = <<>>
<1>0. Len(s) \in Nat /\ DOMAIN s = 1..Len(s)
  OBVIOUS
<1>1. CASE Len(s) = 0
  BY <1>0, <1>1
<1>2. CASE Len(s) = 1
  <2>1. DOMAIN s = {1} /\ s[1] \in S
    <3>1. 1..1 = {1}
      OBVIOUS
    <3>2. DOMAIN s = {1}
      BY <1>0, <1>2, <3>1
    <3> QED
      BY <3>2, ElementInSet
  <2>2. s = <<s[1]>>
    <3>1. <<s[1]>> \in Seq(S) /\ Len(<<s[1]>>) = 1 /\ <<s[1]>>[1] = s[1]
      BY <2>1
    <3> QED
      BY <1>2, <3>1
  <2>3. Head(<<s[1]>>) = s[1] /\ Tail(<<s[1]>>) = <<>>
    BY <2>1
  <2> QED
    BY <1>2, <2>1, <2>2, <2>3
<1> QED
  BY <1>0, <1>1, <1>2

\* The channel is empty, or holds one delivery.
LEMMA ChannelCases ==
    ASSUME TypeOK
    PROVE  \/ ch = <<>> /\ Len(ch) = 0 /\ Undelivered = {}
           \/ \E d \in Delivery :
                /\ ch = <<d>> /\ Len(ch) = 1 /\ Undelivered = {d.id}
                /\ Head(ch) = d /\ Tail(ch) = <<>>
<1>1. ch \in Seq(Delivery) /\ Len(ch) <= 1
  BY DEF TypeOK
<1>2. \/ ch = <<>> /\ Len(ch) = 0 /\ DOMAIN ch = {}
      \/ \E d \in Delivery : /\ ch = <<d>> /\ Len(ch) = 1 /\ DOMAIN ch = {1}
                             /\ Head(ch) = d /\ Tail(ch) = <<>>
  BY <1>1, ShortSequence
<1> QED
  BY <1>2 DEF Undelivered

\* What wait receives was the one delivery of the channel, and leaves it empty.
LEMMA TakeEmpties ==
    ASSUME TypeOK, NEW d \in Delivery, Take(d)
    PROVE  /\ pc = "wait"
           /\ ch = <<d>> /\ Len(ch) = 1 /\ Undelivered = {d.id}
           /\ ch' = <<>> /\ Len(ch') = 0 /\ Undelivered' = {}
           /\ ch' \in Seq(Delivery)
<1>1. PICK e \in Delivery : /\ ch = <<e>> /\ Len(ch) = 1 /\ Undelivered = {e.id}
                            /\ Head(ch) = e /\ Tail(ch) = <<>>
  BY ChannelCases DEF Take
<1>2. d = e /\ ch' = <<>>
  BY <1>1 DEF Take
<1> QED
  BY <1>1, <1>2 DEF Take, Undelivered

\* A delivery of a sample is of one that Media Foundation has made.
LEMMA TakenIsMade ==
    ASSUME IInv, NEW d \in Delivery, Take(d), d.id # 0
    PROVE  /\ d.id \in Ids /\ d.id \in DOMAIN made
           /\ made[d.id] \in [time : Times, size : Sizes, kind : Kind]
           /\ made[d.id].time \in Times /\ made[d.id].size \in Nat
<1>1. TypeOK /\ Len(made) \in Nat /\ d.id \in 0..MaxSamples
  BY DEF IInv, RefsExact, TypeOK, Delivery
<1>2. d.id <= Len(made)
  <2>1. ch = <<d>>
    BY <1>1, TakeEmpties
  <2>2. 1 \in DOMAIN ch /\ ch[1] = d
    BY <2>1
  <2> QED
    BY <2>2 DEF IInv, ServingInv
<1>3. d.id \in Ids /\ d.id \in DOMAIN made
  BY <1>1, <1>2, BoundsAssumption DEF TypeOK, Ids
<1>4. made[d.id] \in [time : Times, size : Sizes, kind : Kind]
  BY <1>1, <1>3, ElementInSet DEF TypeOK
<1> QED
  BY <1>3, <1>4, BoundsAssumption

-----------------------------------------------------------------------------
(* References. *)

\* What is undelivered and what is served is referenced.
LEMMA ReferencedIds ==
    ASSUME IInv, NEW i \in Ids, sample = i \/ i \in Undelivered
    PROVE  refs[i] > 0
  BY DEF IInv, RefsExact, TypeOK

\* Releasing sample i takes one reference of it, and none for i = 0.
LEMMA ReleasedType ==
    ASSUME NEW f \in [Ids -> Nat], NEW i, i \in Ids => f[i] > 0
    PROVE  Released(f, i) \in [Ids -> Nat]
  BY DEF Released

\* copyInto keeps a rest of the sample, with its buffer, or lets go of both.
LEMMA CopyIntoEffect ==
    ASSUME TypeOK, NEW i \in Ids, NEW n \in Nat, NEW len \in Nat, NEW rfs,
           NEW lck, CopyInto(i, n, len, rfs, lck)
    PROVE  /\ pc' = "idle" /\ want' = 0 /\ empty' = 0 /\ fate' = fate
           /\ out' \in Seq(Ids) /\ left' \in Nat
           /\ IF left' = 0
              THEN sample' = 0 /\ buffer' = FALSE /\ refs' = Released(rfs, i) /\ locked' = lck - 1
              ELSE sample' = i /\ buffer' = TRUE /\ refs' = rfs /\ locked' = lck
<1> DEFINE c == IF n < len THEN n ELSE len
<1>1. c \in Nat /\ n - c \in Nat /\ (c = n <=> n - c = 0)
  OBVIOUS
<1>2. /\ out' = out \o [j \in 1..c |-> i]
      /\ left' = n - c
      /\ IF c = n
         THEN sample' = 0 /\ buffer' = FALSE /\ refs' = Released(rfs, i)
              /\ locked' = lck - 1
         ELSE sample' = i /\ buffer' = TRUE /\ refs' = rfs /\ locked' = lck
      /\ ReturnData
  BY DEF CopyInto
<1> HIDE DEF c
<1>3. out' \in Seq(Ids)
  <2>1. [j \in 1..c |-> i] \in Seq(Ids)
    BY <1>1
  <2>2. out \in Seq(Ids)
    BY DEF TypeOK
  <2> QED
    BY <1>2, <2>1, <2>2
<1> QED
  BY <1>1, <1>2, <1>3 DEF ReturnData

\* What a read of the rest of a sample does.
LEMMA ResidualEffect ==
    ASSUME IInv, NEW n \in ReadSizes, ReadResidual(n)
    PROVE  /\ sample \in Ids /\ refs[sample] > 0 /\ locked = 1
           /\ pc' = "idle" /\ want' = 0 /\ empty' = 0 /\ fate' = fate
           /\ out' \in Seq(Ids) /\ left' \in Nat
           /\ refs' \in [Ids -> Nat] /\ locked' \in Nat /\ sample' \in 0..MaxSamples
           /\ IF left' = 0
              THEN sample' = 0 /\ buffer' = FALSE /\ refs' = Released(refs, sample) /\ locked' = 0
              ELSE sample' = sample /\ buffer' = TRUE /\ refs' = refs /\ locked' = 1
<1>1. TypeOK
  BY DEF IInv, RefsExact
<1>2. sample # 0 /\ locked = 1
  BY <1>1 DEF ReadResidual, IInv, ServingInv, RefsExact, TypeOK
<1>3. sample \in Ids
  BY <1>1, <1>2, BoundsAssumption DEF Ids, TypeOK
<1>4. left \in Nat /\ n \in Nat
  BY <1>1, BoundsAssumption DEF TypeOK
<1>5. CopyInto(sample, left, n, refs, locked)
  BY DEF ReadResidual
<1>6. refs[sample] > 0
  BY <1>3, ReferencedIds
<1>7. /\ pc' = "idle" /\ want' = 0 /\ empty' = 0 /\ fate' = fate
      /\ out' \in Seq(Ids) /\ left' \in Nat
      /\ IF left' = 0
         THEN sample' = 0 /\ buffer' = FALSE /\ refs' = Released(refs, sample) /\ locked' = 0
         ELSE sample' = sample /\ buffer' = TRUE /\ refs' = refs /\ locked' = 1
  <2>1. locked - 1 = 0
    BY <1>2
  <2> QED
    BY <1>1, <1>2, <1>3, <1>4, <1>5, <2>1, CopyIntoEffect
<1>8. refs \in [Ids -> Nat] /\ Released(refs, sample) \in [Ids -> Nat]
  BY <1>1, <1>6, ReleasedType DEF TypeOK
<1>9. sample \in 0..MaxSamples /\ 0 \in 0..MaxSamples
  BY <1>1, BoundsAssumption DEF TypeOK
<1> QED
  BY <1>2, <1>3, <1>6, <1>7, <1>8, <1>9

\* What the delivery of a usable sample does.
LEMMA SampleEffect ==
    ASSUME IInv, NEW d \in Delivery, TakeSample(d)
    PROVE  /\ d.id \in Ids /\ refs[d.id] > 0 /\ locked = 0
           /\ sample = 0 /\ left = 0 /\ prev' \in {<<t>> : t \in Times}
           /\ pc' = "idle" /\ want' = 0 /\ empty' = 0 /\ fate' = fate
           /\ out' \in Seq(Ids) /\ left' \in Nat
           /\ refs' \in [Ids -> Nat] /\ locked' \in Nat /\ sample' \in 0..MaxSamples
           /\ IF left' = 0
              THEN sample' = 0 /\ buffer' = FALSE /\ refs' = Released(refs, d.id) /\ locked' = 0
              ELSE sample' = d.id /\ buffer' = TRUE /\ refs' = refs /\ locked' = 1
<1>1. TypeOK /\ Take(d) /\ d.id # 0
  BY DEF IInv, RefsExact, TakeSample
<1>2. /\ d.id \in Ids
      /\ made[d.id].time \in Times /\ made[d.id].size \in Nat
  BY <1>1, TakenIsMade
<1>3. pc = "wait" /\ d.id \in Undelivered
  BY <1>1, TakeEmpties
<1>4. sample = 0 /\ left = 0 /\ locked = 0
  BY <1>1, <1>3 DEF IInv, ServingInv, RefsExact, ReadPC, TypeOK
<1>5. want \in Nat
  BY <1>1, BoundsAssumption DEF TypeOK
<1>6. CopyInto(d.id, made[d.id].size, want, refs, locked + 1)
  BY DEF TakeSample
<1>7. prev' \in {<<t>> : t \in Times}
  BY <1>2 DEF TakeSample
<1>8. refs[d.id] > 0
  BY <1>2, <1>3, ReferencedIds
<1>9. locked + 1 = 1 /\ (locked + 1) - 1 = 0
  BY <1>4
<1>10. /\ pc' = "idle" /\ want' = 0 /\ empty' = 0 /\ fate' = fate
       /\ out' \in Seq(Ids) /\ left' \in Nat
       /\ IF left' = 0
          THEN sample' = 0 /\ buffer' = FALSE /\ refs' = Released(refs, d.id) /\ locked' = 0
          ELSE sample' = d.id /\ buffer' = TRUE /\ refs' = refs /\ locked' = 1
  BY <1>1, <1>2, <1>5, <1>6, <1>9, CopyIntoEffect
<1>11. refs \in [Ids -> Nat] /\ Released(refs, d.id) \in [Ids -> Nat]
  BY <1>1, <1>8, ReleasedType DEF TypeOK
<1>12. d.id \in 0..MaxSamples /\ 0 \in 0..MaxSamples
  BY <1>2, BoundsAssumption DEF Ids
<1> QED
  BY <1>2, <1>4, <1>7, <1>8, <1>10, <1>11, <1>12

\* The last holder of the callback releases what is undelivered.
LEMMA ReleaseCallbackEffect ==
    ASSUME IInv, NEW h, ReleaseCallback(h)
    PROVE  /\ holders' = holders \ {h}
           /\ ch' \in Seq(Delivery) /\ Len(ch') <= 1 /\ refs' \in [Ids -> Nat]
           /\ \/ holders # {h} /\ UNCHANGED <<pinned, ch, refs>>
              \/ /\ holders = {h} /\ pinned' = FALSE
                 /\ ch' = <<>> /\ Len(ch') = 0 /\ Undelivered' = {}
                 /\ \A i \in Ids :
                       refs'[i] = IF i \in Undelivered THEN refs[i] - 1 ELSE refs[i]
<1>1. TypeOK /\ ch \in Seq(Delivery) /\ Len(ch) <= 1 /\ refs \in [Ids -> Nat]
  BY DEF IInv, RefsExact, TypeOK
<1>2. CASE holders # {h}
  BY <1>1, <1>2 DEF ReleaseCallback
<1>3. CASE holders = {h} /\ ch = <<>>
  BY <1>1, <1>3 DEF ReleaseCallback, Undelivered, TypeOK
<1>4. CASE holders = {h} /\ ch # <<>>
  <2>1. PICK d \in Delivery : ch = <<d>> /\ Undelivered = {d.id} /\ Head(ch) = d
    BY <1>1, <1>4, ChannelCases
  <2>2. ch' = <<>> /\ pinned' = FALSE /\ refs' = Released(refs, d.id)
    BY <1>4, <2>1 DEF ReleaseCallback
  <2>3. Len(ch') = 0 /\ Undelivered' = {}
    BY <2>2 DEF Undelivered
  <2>4. d.id \in Ids => refs[d.id] > 0
    BY <2>1, ReferencedIds
  <2>5. refs' \in [Ids -> Nat]
    BY <1>1, <2>2, <2>4, ReleasedType DEF TypeOK
  <2>6. \A i \in Ids :
            refs'[i] = IF i \in Undelivered THEN refs[i] - 1 ELSE refs[i]
    BY <2>1, <2>2 DEF Released
  <2> QED
    BY <1>4, <2>2, <2>3, <2>5, <2>6 DEF ReleaseCallback
<1> QED
  BY <1>2, <1>3, <1>4

\* The worker leaves the channel as it is, or puts one sample into it that it
\* has made, with a reference of its own.
LEMMA DeliverEffect ==
    ASSUME IInv, Deliver
    PROVE  /\ outstanding > 0 /\ outstanding' = outstanding - 1
           /\ ended' \in BOOLEAN /\ silent' = FALSE
           /\ made' \in Seq([time : Times, size : Sizes, kind : Kind])
           /\ Len(made) <= Len(made') /\ Len(made') <= MaxSamples
           /\ pcm' \in Seq(Ids)
           /\ ch' \in Seq(Delivery) /\ Len(ch') <= 1 /\ refs' \in [Ids -> Nat]
           /\ \/ ch # <<>> /\ UNCHANGED <<ch, refs>>
              \/ \E d \in Delivery :
                   /\ ch = <<>> /\ ch' = <<d>> /\ Len(ch') = 1
                   /\ Undelivered = {} /\ Undelivered' = {d.id}
                   /\ d.id <= Len(made')
                   /\ refs' = [i \in Ids |-> IF i = d.id THEN refs[i] + 1 ELSE refs[i]]
<1>1. TypeOK /\ MaxSamples \in Nat
  BY BoundsAssumption DEF IInv, RefsExact
<1>2. PICK d \in Delivery, t \in Times, n \in Sizes :
          /\ d.id \in {0, Len(made) + 1}
          /\ made' = IF d.id = 0 THEN made
                     ELSE Append(made, [time |-> t, size |-> n, kind |-> d.kind])
          /\ pcm' = IF d.id # 0 /\ Usable(d.kind, t)
                    THEN pcm \o [j \in 1..n |-> d.id] ELSE pcm
          /\ ended' = (ended \/ d.kind = "end")
          /\ OnReadSample(d)
  BY DEF Deliver
<1>3. d.id \in 0..MaxSamples /\ d.kind \in Kind
  BY DEF Delivery
<1>4. /\ made' \in Seq([time : Times, size : Sizes, kind : Kind])
      /\ Len(made) <= Len(made') /\ Len(made') <= MaxSamples /\ d.id <= Len(made')
  <2> DEFINE Made == [time : Times, size : Sizes, kind : Kind]
             e == [time |-> t, size |-> n, kind |-> d.kind]
  <2>1. made \in Seq(Made) /\ Len(made) <= MaxSamples /\ Len(made) \in Nat
    BY <1>1 DEF TypeOK
  <2>2. e \in Made
    BY <1>3
  <2>3. made' = IF d.id = 0 THEN made ELSE Append(made, e)
    BY <1>2
  <2> HIDE DEF Made, e
  <2>4. Append(made, e) \in Seq(Made) /\ Len(Append(made, e)) = Len(made) + 1
    BY <2>1, <2>2
  <2>5. made' \in Seq(Made) /\ Len(made) <= Len(made') /\ Len(made') <= MaxSamples
        /\ d.id <= Len(made')
    BY <1>1, <1>2, <1>3, <2>1, <2>3, <2>4
  <2> QED
    BY <2>5 DEF Made
<1>5. \/ ch # <<>> /\ UNCHANGED <<ch, refs>>
      \/ /\ ch = <<>> /\ ch' = <<d>> /\ Len(ch') = 1
         /\ Undelivered = {} /\ Undelivered' = {d.id}
         /\ refs' = [i \in Ids |-> IF i = d.id THEN refs[i] + 1 ELSE refs[i]]
  BY <1>2 DEF OnReadSample, Undelivered
<1>6. ch' \in Seq(Delivery) /\ Len(ch') <= 1 /\ refs' \in [Ids -> Nat]
  <2>1. ch \in Seq(Delivery) /\ Len(ch) <= 1 /\ refs \in [Ids -> Nat]
    BY <1>1 DEF TypeOK
  <2>2. CASE UNCHANGED <<ch, refs>>
    BY <2>1, <2>2
  <2>3. ASSUME ch' = <<d>>, Len(ch') = 1,
               refs' = [i \in Ids |-> IF i = d.id THEN refs[i] + 1 ELSE refs[i]]
        PROVE  ch' \in Seq(Delivery) /\ Len(ch') <= 1 /\ refs' \in [Ids -> Nat]
    BY <2>1, <2>3
  <2> QED
    BY <1>5, <2>2, <2>3
<1>7. ended' \in BOOLEAN
  BY <1>2
<1>8. outstanding > 0 /\ outstanding' = outstanding - 1 /\ silent' = FALSE
  BY DEF Deliver
<1>9. pcm' \in Seq(Ids)
  <2>1. pcm \in Seq(Ids) /\ n \in Nat /\ (d.id # 0 => d.id \in Ids)
    BY <1>1, <1>3, BoundsAssumption DEF TypeOK, Ids
  <2>2. d.id # 0 => [j \in 1..n |-> d.id] \in Seq(Ids)
    BY <2>1
  <2>3. d.id # 0 => pcm \o [j \in 1..n |-> d.id] \in Seq(Ids)
    BY <2>1, <2>2
  <2> QED
    BY <1>2, <2>1, <2>3
<1> QED
  BY <1>4, <1>5, <1>6, <1>7, <1>8, <1>9

-----------------------------------------------------------------------------
(* The inductive invariant. *)

\* The types of the flags, and of all else.
FlagsOK ==
    /\ buffer \in BOOLEAN /\ gaveUp \in BOOLEAN /\ pinned \in BOOLEAN
    /\ silent \in BOOLEAN /\ late \in BOOLEAN /\ ended \in BOOLEAN

DataOK ==
    /\ pc \in {"idle", "closed"} \cup ReadPC \cup ClosePC
    /\ want \in ReadSizes \cup {0}
    /\ empty \in 0..(MaxEmpty + 1)
    /\ sample \in 0..MaxSamples /\ left \in Nat
    /\ prev \in {<<>>} \cup {<<t>> : t \in Times}
    /\ ch \in Seq(Delivery) /\ Len(ch) <= 1
    /\ holders \subseteq {"stream", "attributes", "reader"}
    /\ outstanding \in 0..MaxOutstanding
    /\ made \in Seq([time : Times, size : Sizes, kind : Kind]) /\ Len(made) <= MaxSamples
    /\ pcm \in Seq(Ids)
    /\ refs \in [Ids -> Nat] /\ locked \in Nat
    /\ out \in Seq(Ids)
    /\ fate \in {"none", "eof", "error", "timeout"}

\* They make up the type invariant.
LEMMA TypeParts == TypeOK <=> FlagsOK /\ DataOK
  BY DEF TypeOK, FlagsOK, DataOK

\* A Stream that Open has returned satisfies the invariant.
LEMMA InitInv == Init => IInv
<1> SUFFICES ASSUME Init PROVE IInv
  OBVIOUS
<1>1. TypeOK
  <2>1. FlagsOK
    BY DEF Init, FlagsOK
  <2>2. DataOK
    BY BoundsAssumption DEF Init, DataOK
  <2> QED
    BY <2>1, <2>2, TypeParts
<1>2. RefsExact
  BY <1>1 DEF Init, RefsExact, Undelivered, Ids
<1>3. ServingInv
  BY DEF Init, ServingInv, ReadPC, ClosePC, ClosedPC
<1>4. AnswerInv
  BY BoundsAssumption DEF Init, AnswerInv
<1>5. HolderInv
  BY DEF Init, HolderInv, ReleasedBy
<1> QED
  BY <1>2, <1>3, <1>4, <1>5 DEF IInv

\* Every step keeps the flags Boolean.
LEMMA FlagsStep == IInv /\ [Next]_vars => FlagsOK'
<1> SUFFICES ASSUME IInv, [Next]_vars PROVE FlagsOK'
  OBVIOUS
<1>t. FlagsOK /\ TypeOK
  BY TypeParts DEF IInv, RefsExact
<1> USE DEF FlagsOK, readerVars, workerVars, cbVars, nativeVars
<1>1. CASE UNCHANGED vars
  BY <1>t, <1>1 DEF vars
<1>2. CASE ReadExpired
  BY <1>t, <1>2 DEF ReadExpired
<1>3. ASSUME NEW n \in ReadSizes, ReadResidual(n)
      PROVE  FlagsOK'
  BY <1>t, <1>3, ResidualEffect DEF ReadResidual
<1>4. ASSUME NEW n \in ReadSizes, ReadMore(n)
      PROVE  FlagsOK'
  BY <1>t, <1>4 DEF ReadMore
<1>5. CASE Request
  BY <1>t, <1>5 DEF Request
<1>6. CASE Arm
  BY <1>t, <1>6 DEF Arm
<1>7. CASE Timeout
  BY <1>t, <1>7 DEF Timeout
<1>8. ASSUME NEW d \in Delivery,
             TakeTerminal(d) \/ TakeNothing(d) \/ TakeBroken(d) \/ TakeRepeat(d)
      PROVE  FlagsOK'
  BY <1>t, <1>8 DEF TakeTerminal, TakeNothing, TakeBroken, TakeRepeat
<1>9. ASSUME NEW d \in Delivery, TakeSample(d)
      PROVE  FlagsOK'
  BY <1>t, <1>9, SampleEffect DEF TakeSample
<1>10. CASE Close
  BY <1>t, <1>10 DEF Close
<1>11. ASSUME NEW h, ReleaseCallback(h),
              ReleaseReader \/ ReleaseAttributes \/ ReleaseStream
       PROVE  FlagsOK'
  BY <1>t, <1>11, ReleaseCallbackEffect DEF ReleaseReader, ReleaseAttributes, ReleaseStream
<1>12. CASE Deliver
  BY <1>t, <1>12, DeliverEffect DEF Deliver
<1>13. CASE Stall \/ DeadlinePasses
  BY <1>t, <1>13 DEF Stall, DeadlinePasses
<1> QED
  BY <1>1, <1>2, <1>3, <1>4, <1>5, <1>6, <1>7, <1>8, <1>9, <1>10, <1>11, <1>12, <1>13
     DEF Next, Reading, Closing, Calling, Receive, ReleaseReader, ReleaseAttributes,
         ReleaseStream

\* Every step keeps the other types.  What is released is referenced.
LEMMA DataStep == IInv /\ [Next]_vars => DataOK'
<1> SUFFICES ASSUME IInv, [Next]_vars PROVE DataOK'
  OBVIOUS
<1>t. DataOK /\ TypeOK
  BY TypeParts DEF IInv, RefsExact
<1> USE BoundsAssumption DEF DataOK, readerVars, workerVars, cbVars, nativeVars
<1>1. CASE UNCHANGED vars
  BY <1>t, <1>1 DEF vars
<1> DEFINE Kept == <<sample, left, prev, ch, holders, outstanding, made, pcm, refs, locked, out>>
<1>r. ASSUME UNCHANGED Kept, NEW r \in {"error", "timeout"}, Return(r)
      PROVE  DataOK'
  <2>1. /\ pc' = "idle" /\ want' = 0 /\ empty' = 0
        /\ fate' \in {"none", "eof", "error", "timeout"}
    BY <1>t, <1>r DEF Return
  <2>2. empty' \in 0..(MaxEmpty + 1) /\ want' \in ReadSizes \cup {0}
    BY <2>1
  <2> QED
    BY <1>t, <1>r, <2>1, <2>2
<1>2. CASE ReadExpired
  <2>1. UNCHANGED Kept /\ Return("error")
    BY <1>2 DEF ReadExpired
  <2> QED
    BY <2>1, <1>r
<1>3. ASSUME NEW n \in ReadSizes, ReadResidual(n)
      PROVE  DataOK'
  <2>1. /\ pc' = "idle" /\ want' = 0 /\ empty' = 0 /\ fate' = fate
        /\ out' \in Seq(Ids) /\ left' \in Nat
        /\ refs' \in [Ids -> Nat] /\ locked' \in Nat /\ sample' \in 0..MaxSamples
    BY <1>3, ResidualEffect
  <2>2. UNCHANGED <<prev, ch, holders, outstanding, made, pcm>>
    BY <1>3 DEF ReadResidual
  <2>3. empty' \in 0..(MaxEmpty + 1) /\ want' \in ReadSizes \cup {0}
    BY <2>1
  <2> QED
    BY <1>t, <2>1, <2>2, <2>3
<1>4. ASSUME NEW n \in ReadSizes, ReadMore(n)
      PROVE  DataOK'
  BY <1>t, <1>4 DEF ReadMore, ReadPC
<1>5. CASE Request
  <2>1. /\ sample' = sample /\ left' = left /\ out' = out /\ refs' = refs
        /\ locked' = locked /\ ch' = ch /\ made' = made /\ prev' = prev
        /\ UNCHANGED <<holders, pcm>>
    BY <1>5 DEF Request
  <2>2. CASE Return("error") /\ UNCHANGED outstanding
    BY <2>1, <2>2, <1>r
  <2>3. CASE /\ empty <= MaxEmpty /\ outstanding' = outstanding + 1 /\ pc' = "arm"
             /\ UNCHANGED <<want, empty, fate>>
    <3>1. outstanding' \in 0..MaxOutstanding
      BY <1>t, <1>5, <2>3 DEF Request, IInv, AnswerInv, TypeOK
    <3> QED
      BY <1>t, <2>1, <2>3, <3>1 DEF ReadPC
  <2> QED
    BY <1>5, <2>2, <2>3 DEF Request
<1>6. CASE Arm
  <2>1. UNCHANGED Kept
    BY <1>6 DEF Arm
  <2>2. \/ Return("timeout")
        \/ pc' = "wait" /\ UNCHANGED <<want, empty, fate>>
    BY <1>6 DEF Arm
  <2>3. CASE pc' = "wait" /\ UNCHANGED <<want, empty, fate>>
    BY <1>t, <2>1, <2>3 DEF ReadPC
  <2> QED
    BY <2>1, <2>2, <2>3, <1>r
<1>7. CASE Timeout
  <2>1. UNCHANGED Kept /\ Return("timeout")
    BY <1>7 DEF Timeout
  <2> QED
    BY <2>1, <1>r
<1>8. ASSUME NEW d \in Delivery, Take(d),
             TakeTerminal(d) \/ TakeNothing(d) \/ TakeBroken(d) \/ TakeRepeat(d)
                \/ TakeSample(d)
      PROVE  DataOK'
  <2>1. pc = "wait" /\ ch' \in Seq(Delivery) /\ Len(ch') = 0
    BY <1>t, <1>8, TakeEmpties
  <2>2. Released(refs, d.id) \in [Ids -> Nat]
    <3>1. d.id \in Ids => refs[d.id] > 0
      BY <1>t, <1>8, TakeEmpties, ReferencedIds
    <3> QED
      BY <1>t, <3>1, ReleasedType
  <2>3. empty + 1 \in 0..(MaxEmpty + 1)
    BY <1>t, <2>1 DEF IInv, ServingInv
  <2>4. CASE TakeTerminal(d)
    BY <1>t, <2>1, <2>2, <2>4 DEF TakeTerminal, Return
  <2>5. CASE TakeNothing(d)
    BY <1>t, <2>1, <2>3, <2>5 DEF TakeNothing, ReadPC
  <2>6. CASE TakeBroken(d)
    <3>1. made[d.id].time \in Times
      BY <1>8, <2>6, TakenIsMade DEF TakeBroken
    <3>2. prev' \in {<<>>} \cup {<<t>> : t \in Times}
      BY <1>t, <2>6, <3>1 DEF TakeBroken
    <3> QED
      BY <1>t, <2>1, <2>2, <2>6, <3>2 DEF TakeBroken, Return
  <2>7. CASE TakeRepeat(d)
    BY <1>t, <2>1, <2>2, <2>3, <2>7 DEF TakeRepeat, ReadPC
  <2>8. CASE TakeSample(d)
    <3>1. /\ pc' = "idle" /\ want' = 0 /\ empty' = 0 /\ fate' = fate
          /\ out' \in Seq(Ids) /\ left' \in Nat /\ prev' \in {<<t>> : t \in Times}
          /\ refs' \in [Ids -> Nat] /\ locked' \in Nat /\ sample' \in 0..MaxSamples
      BY <2>8, SampleEffect
    <3> QED
      BY <1>t, <2>1, <2>8, <3>1 DEF TakeSample
  <2> QED
    BY <1>8, <2>4, <2>5, <2>6, <2>7, <2>8
<1>9. CASE Close
  <2>1. Released(refs, sample) \in [Ids -> Nat]
    BY <1>t, ReferencedIds, ReleasedType
  <2>2. locked' \in Nat
    BY <1>t, <1>9 DEF Close, IInv, RefsExact
  <2> QED
    BY <1>t, <1>9, <2>1, <2>2 DEF Close, ClosePC
<1>10. ASSUME NEW h, ReleaseCallback(h),
              ReleaseReader \/ ReleaseAttributes \/ ReleaseStream
       PROVE  DataOK'
  BY <1>t, <1>10, ReleaseCallbackEffect
     DEF ReleaseReader, ReleaseAttributes, ReleaseStream, ClosePC
<1>11. CASE Deliver
  <2>1. /\ ch' \in Seq(Delivery) /\ Len(ch') <= 1 /\ refs' \in [Ids -> Nat]
        /\ made' \in Seq([time : Times, size : Sizes, kind : Kind])
        /\ Len(made') <= MaxSamples /\ pcm' \in Seq(Ids)
        /\ outstanding > 0 /\ outstanding' = outstanding - 1
    BY <1>11, DeliverEffect
  <2> QED
    BY <1>t, <1>11, <2>1 DEF Deliver
<1>12. CASE Stall \/ DeadlinePasses
  BY <1>t, <1>12 DEF Stall, DeadlinePasses
<1> QED
  BY <1>1, <1>2, <1>3, <1>4, <1>5, <1>6, <1>7, <1>8, <1>9, <1>10, <1>11, <1>12
     DEF Next, Reading, Closing, Calling, Receive, TakeTerminal, TakeNothing, TakeBroken,
         TakeRepeat, TakeSample, ReleaseReader, ReleaseAttributes, ReleaseStream

\* Every step keeps the types.
LEMMA TypeStep == IInv /\ [Next]_vars => TypeOK'
<1> SUFFICES ASSUME IInv, [Next]_vars PROVE TypeOK'
  OBVIOUS
<1> QED
  BY FlagsStep, DataStep, TypeParts DEF TypeOK, FlagsOK, DataOK

\* No step releases a sample twice or forgets to: each reference that comes or
\* goes is that of the sample served or of the one in the channel.
LEMMA RefsStep == IInv /\ [Next]_vars => RefsExact'
<1> SUFFICES ASSUME IInv, [Next]_vars PROVE RefsExact'
  OBVIOUS
<1> DEFINE Exact ==
      /\ \A i \in Ids :
            refs[i] = (IF sample = i THEN 1 ELSE 0)
                      + (IF i \in Undelivered THEN 1 ELSE 0)
      /\ locked = IF buffer THEN 1 ELSE 0
      /\ buffer <=> sample # 0
<1>t. TypeOK /\ Exact /\ refs \in [Ids -> Nat]
  BY DEF IInv, RefsExact, TypeOK
<1> SUFFICES Exact'
  BY TypeStep DEF RefsExact
<1> USE DEF readerVars, workerVars, cbVars, nativeVars
<1>1. CASE UNCHANGED <<sample, buffer, ch, refs, locked>>
  BY <1>t, <1>1 DEF Undelivered
<1>2. CASE UNCHANGED vars \/ ReadExpired \/ Request \/ Arm \/ Timeout \/ Stall
           \/ DeadlinePasses
  BY <1>1, <1>2 DEF vars, ReadExpired, Request, Arm, Timeout, Stall, DeadlinePasses
<1>3. ASSUME NEW n \in ReadSizes, ReadResidual(n)
      PROVE  Exact'
  <2>1. Undelivered' = Undelivered
    BY <1>3 DEF ReadResidual, Undelivered
  <2>2. CASE left' = 0
    <3>1. /\ sample' = 0 /\ buffer' = FALSE /\ locked' = 0
          /\ refs' = Released(refs, sample) /\ sample \in Ids
      BY <1>3, <2>2, ResidualEffect
    <3> QED
      BY <1>t, <2>1, <3>1 DEF Released, Ids
  <2>3. CASE left' # 0
    <3>1. /\ sample' = sample /\ sample \in Ids /\ buffer' = TRUE /\ locked' = 1
          /\ refs' = refs
      BY <1>3, <2>3, ResidualEffect
    <3> QED
      BY <1>t, <2>1, <3>1 DEF Ids
  <2> QED
    BY <1>3, <2>2, <2>3, ResidualEffect
<1>4. ASSUME NEW n \in ReadSizes, ReadMore(n)
      PROVE  Exact'
  BY <1>1, <1>4 DEF ReadMore
<1>5. ASSUME NEW d \in Delivery, Take(d),
             TakeTerminal(d) \/ TakeNothing(d) \/ TakeBroken(d) \/ TakeRepeat(d)
                \/ TakeSample(d)
      PROVE  Exact'
  <2>1. Undelivered = {d.id} /\ Undelivered' = {} /\ pc = "wait"
    BY <1>t, <1>5, TakeEmpties
  <2>2. sample = 0
    BY <1>t, <2>1 DEF IInv, ServingInv, ReadPC, TypeOK
  <2>3. CASE TakeTerminal(d) \/ TakeBroken(d) \/ TakeRepeat(d)
    <3>1. refs' = Released(refs, d.id) /\ UNCHANGED <<sample, buffer, locked>>
      BY <2>3 DEF TakeTerminal, TakeBroken, TakeRepeat
    <3> QED
      BY <1>t, <2>1, <2>2, <3>1 DEF Released, Ids
  <2>4. CASE TakeNothing(d)
    <3>1. d.id = 0 /\ UNCHANGED <<refs, sample, buffer, locked>>
      BY <2>4 DEF TakeNothing
    <3> QED
      BY <1>t, <2>1, <2>2, <3>1 DEF Ids
  <2>5. CASE TakeSample(d)
    <3>1. CASE left' = 0
      <4>1. /\ sample' = 0 /\ buffer' = FALSE /\ locked' = 0
            /\ refs' = Released(refs, d.id)
        BY <2>5, <3>1, SampleEffect
      <4> QED
        BY <1>t, <2>1, <2>2, <4>1 DEF Released, Ids
    <3>2. CASE left' # 0
      <4>1. /\ sample' = d.id /\ d.id \in Ids /\ buffer' = TRUE /\ locked' = 1
            /\ refs' = refs
        BY <2>5, <3>2, SampleEffect
      <4> QED
        BY <1>t, <2>1, <2>2, <4>1 DEF Ids
    <3> QED
      BY <2>5, <3>1, <3>2, SampleEffect
  <2> QED
    BY <1>5, <2>3, <2>4, <2>5
<1>6. CASE Close
  <2>1. /\ locked' = IF buffer THEN locked - 1 ELSE locked
        /\ refs' = Released(refs, sample)
        /\ sample' = 0 /\ buffer' = FALSE /\ Undelivered' = Undelivered
    BY <1>6 DEF Close, Undelivered
  <2> QED
    BY <1>t, <2>1 DEF Released, Ids
<1>7. ASSUME NEW h, ReleaseCallback(h),
             ReleaseReader \/ ReleaseAttributes \/ ReleaseStream
      PROVE  Exact'
  <2>1. UNCHANGED <<sample, buffer, locked>>
    BY <1>7 DEF ReleaseReader, ReleaseAttributes, ReleaseStream
  <2>2. CASE UNCHANGED <<ch, refs>>
    BY <1>1, <2>1, <2>2
  <2>3. CASE ~UNCHANGED <<ch, refs>>
    <3>1. /\ Undelivered' = {}
          /\ \A i \in Ids :
                refs'[i] = IF i \in Undelivered THEN refs[i] - 1 ELSE refs[i]
      BY <1>7, <2>3, ReleaseCallbackEffect
    <3> QED
      BY <1>t, <2>1, <3>1
  <2> QED
    BY <2>2, <2>3
<1>8. CASE Deliver
  <2>1. UNCHANGED <<sample, buffer, locked>>
    BY <1>8 DEF Deliver
  <2>2. CASE UNCHANGED <<ch, refs>>
    BY <1>1, <2>1, <2>2
  <2>3. CASE ~UNCHANGED <<ch, refs>>
    <3>1. PICK d \in Delivery :
             /\ Undelivered = {} /\ Undelivered' = {d.id}
             /\ refs' = [i \in Ids |-> IF i = d.id THEN refs[i] + 1 ELSE refs[i]]
      BY <1>8, <2>3, DeliverEffect
    <3> QED
      BY <1>t, <2>1, <3>1
  <2> QED
    BY <2>2, <2>3
<1> QED
  BY <1>2, <1>3, <1>4, <1>5, <1>6, <1>7, <1>8
     DEF Next, Reading, Closing, Calling, Receive, TakeTerminal, TakeNothing, TakeBroken,
         TakeRepeat, TakeSample, ReleaseReader, ReleaseAttributes, ReleaseStream

\* Units are left exactly of the sample that is served, and a read in progress
\* has served the last one.
LEMMA ServingStep == IInv /\ [Next]_vars => ServingInv'
<1> SUFFICES ASSUME IInv, [Next]_vars PROVE ServingInv'
  OBVIOUS
<1>t. TypeOK /\ ServingInv
  BY DEF IInv, RefsExact
<1> USE BoundsAssumption
    DEF ServingInv, ReadPC, ClosePC, ClosedPC, readerVars, workerVars, cbVars, nativeVars
<1>1. CASE UNCHANGED vars \/ ReadExpired \/ Stall \/ DeadlinePasses
  BY <1>t, <1>1 DEF vars, ReadExpired, Return, Stall, DeadlinePasses
<1>2. ASSUME NEW n \in ReadSizes, ReadResidual(n)
      PROVE  ServingInv'
  <2>1. pc' = "idle" /\ left' \in Nat /\ UNCHANGED <<ch, made>>
        /\ (left' = 0 => sample' = 0) /\ (left' # 0 => sample' = sample)
        /\ sample \in Ids
    BY <1>2, ResidualEffect DEF ReadResidual
  <2> QED
    BY <1>t, <2>1 DEF Ids
<1>3. ASSUME NEW n \in ReadSizes, ReadMore(n)
      PROVE  ServingInv'
  BY <1>t, <1>3 DEF ReadMore
<1>4. CASE Request
  BY <1>t, <1>4 DEF Request, Return
<1>5. CASE Arm \/ Timeout
  BY <1>t, <1>5 DEF Arm, Timeout, Return
<1>6. ASSUME NEW d \in Delivery, Take(d),
             TakeTerminal(d) \/ TakeNothing(d) \/ TakeBroken(d) \/ TakeRepeat(d)
                \/ TakeSample(d)
      PROVE  ServingInv'
  <2>1. pc = "wait" /\ DOMAIN ch' = {}
    BY <1>t, <1>6, TakeEmpties
  <2>2. CASE TakeTerminal(d) \/ TakeBroken(d)
    BY <1>t, <2>1, <2>2 DEF TakeTerminal, TakeBroken, Return
  <2>3. CASE TakeNothing(d) \/ TakeRepeat(d)
    BY <1>t, <2>1, <2>3 DEF TakeNothing, TakeRepeat
  <2>4. CASE TakeSample(d)
    <3>1. pc' = "idle" /\ left' \in Nat /\ d.id \in Ids
          /\ (left' = 0 => sample' = 0) /\ (left' # 0 => sample' = d.id)
      BY <2>4, SampleEffect
    <3> QED
      BY <1>t, <2>1, <3>1 DEF Ids
  <2> QED
    BY <1>6, <2>2, <2>3, <2>4
<1>7. CASE Close
  BY <1>t, <1>7 DEF Close
<1>8. ASSUME NEW h, ReleaseCallback(h),
             ReleaseReader \/ ReleaseAttributes \/ ReleaseStream
      PROVE  ServingInv'
  <2>1. \A k \in DOMAIN ch' : ch'[k].id <= Len(made)
    <3>1. ch' = ch \/ ch' = <<>>
      BY <1>8, ReleaseCallbackEffect
    <3> QED
      BY <1>t, <3>1
  <2> QED
    BY <1>t, <1>8, <2>1 DEF ReleaseReader, ReleaseAttributes, ReleaseStream
<1>9. CASE Deliver
  <2>1. \A k \in DOMAIN ch' : ch'[k].id <= Len(made')
    <3>1. CASE UNCHANGED ch
      <4>1. \A k \in DOMAIN ch : ch[k].id \in Nat
        <5>1. ch \in Seq(Delivery)
          BY <1>t DEF TypeOK
        <5>2. \A d \in Delivery : d.id \in Nat
          BY DEF Delivery
        <5> QED
          BY <5>1, <5>2, ElementInSet
      <4>2. Len(made) <= Len(made') /\ Len(made) \in Nat /\ Len(made') \in Nat
        BY <1>t, <1>9, DeliverEffect DEF TypeOK
      <4> QED
        BY <1>t, <3>1, <4>1, <4>2
    <3>2. CASE ~UNCHANGED ch
      <4>1. PICK d \in Delivery : ch' = <<d>> /\ d.id <= Len(made')
        BY <1>9, <3>2, DeliverEffect
      <4> QED
        BY <4>1
    <3> QED
      BY <3>1, <3>2
  <2> QED
    BY <1>t, <1>9, <2>1 DEF Deliver
<1> QED
  BY <1>1, <1>2, <1>3, <1>4, <1>5, <1>6, <1>7, <1>8, <1>9
     DEF Next, Reading, Closing, Calling, Receive, TakeTerminal, TakeNothing, TakeBroken,
         TakeRepeat, TakeSample, ReleaseReader, ReleaseAttributes, ReleaseStream

\* Answers: a read that gives up, and only that, leaves one to come.
LEMMA AnswerStep == IInv /\ [Next]_vars => AnswerInv'
<1> SUFFICES ASSUME IInv, [Next]_vars PROVE AnswerInv'
  OBVIOUS
<1>t. TypeOK /\ AnswerInv /\ HolderInv /\ outstanding \in Nat /\ Len(ch) \in Nat
  BY BoundsAssumption DEF IInv, RefsExact, TypeOK
<1> USE BoundsAssumption
    DEF AnswerInv, readerVars, workerVars, cbVars, nativeVars
<1>1. CASE UNCHANGED vars \/ ReadExpired \/ Stall \/ DeadlinePasses
  BY <1>t, <1>1 DEF vars, ReadExpired, Return, Stall, DeadlinePasses
<1>2. ASSUME NEW n \in ReadSizes, ReadResidual(n)
      PROVE  AnswerInv'
  BY <1>t, <1>2, ResidualEffect DEF ReadResidual
<1>3. ASSUME NEW n \in ReadSizes, ReadMore(n)
      PROVE  AnswerInv'
  BY <1>t, <1>3 DEF ReadMore
<1>4. CASE Request
  BY <1>t, <1>4 DEF Request, Return
<1>5. CASE Arm
  BY <1>t, <1>5 DEF Arm, Return
<1>6. CASE Timeout
  BY <1>t, <1>6 DEF Timeout, Return
<1>7. ASSUME NEW d \in Delivery, Take(d),
             TakeTerminal(d) \/ TakeNothing(d) \/ TakeBroken(d) \/ TakeRepeat(d)
                \/ TakeSample(d)
      PROVE  AnswerInv'
  <2>1. pc = "wait" /\ Len(ch) = 1 /\ Len(ch') = 0
    BY <1>t, <1>7, TakeEmpties
  <2>2. pc' \in {"idle", "request"} /\ UNCHANGED <<outstanding, gaveUp>>
    BY <1>7 DEF TakeTerminal, TakeNothing, TakeBroken, TakeRepeat, TakeSample, CopyInto,
                ReturnData, Return
  <2> QED
    BY <1>t, <2>1, <2>2
<1>8. CASE Close
  BY <1>t, <1>8 DEF Close
<1>9. ASSUME NEW h, ReleaseCallback(h),
             ReleaseReader \/ ReleaseAttributes \/ ReleaseStream
      PROVE  AnswerInv'
  <2>1. Len(ch') \in Nat /\ Len(ch') <= Len(ch)
    <3>1. ch' = ch \/ Len(ch') = 0
      BY <1>9, ReleaseCallbackEffect
    <3> QED
      BY <1>t, <3>1
  <2>2. /\ pc \notin {"request", "arm", "wait"} /\ pc' \notin {"request", "arm", "wait"}
        /\ UNCHANGED <<outstanding, gaveUp>>
    BY <1>9 DEF ReleaseReader, ReleaseAttributes, ReleaseStream
  <2> QED
    BY <1>t, <2>1, <2>2
<1>10. CASE Deliver
  <2>1. UNCHANGED <<pc, gaveUp>> /\ outstanding' = outstanding - 1 /\ outstanding > 0
    BY <1>10 DEF Deliver
  <2>2. \/ Len(ch') = Len(ch)
        \/ Len(ch) = 0 /\ Len(ch') = 1
    BY <1>10, DeliverEffect
  <2>3. ~gaveUp => Len(ch) = 0
    BY <1>t, <2>1
  <2>4. ~gaveUp => Len(ch') = 1
    <3>1. Len(ch) = 0 => ch = <<>>
      BY <1>t, ChannelCases
    <3> QED
      BY <1>10, <2>3, <3>1, DeliverEffect
  <2> DEFINE m == Len(ch)  n == Len(ch')
  <2>5. /\ m \in Nat /\ n \in Nat /\ outstanding \in Nat
        /\ n = m \/ (m = 0 /\ n = 1)
        /\ ~gaveUp => m = 0 /\ n = 1
        /\ outstanding + m <= MaxOutstanding
        /\ pc = "request" => outstanding + m < MaxOutstanding
        /\ ~gaveUp => outstanding + m = IF pc \in {"arm", "wait"} THEN 1 ELSE 0
    BY <1>t, <2>2, <2>3, <2>4
  <2> HIDE DEF m, n
  <2>6. /\ outstanding' + n <= MaxOutstanding
        /\ pc = "request" => outstanding' + n < MaxOutstanding
        /\ ~gaveUp => outstanding' + n = IF pc \in {"arm", "wait"} THEN 1 ELSE 0
    BY <2>1, <2>5
  <2> QED
    BY <2>1, <2>6 DEF n
<1> QED
  BY <1>1, <1>2, <1>3, <1>4, <1>5, <1>6, <1>7, <1>8, <1>9, <1>10
     DEF Next, Reading, Closing, Calling, Receive, TakeTerminal, TakeNothing, TakeBroken,
         TakeRepeat, TakeSample, ReleaseReader, ReleaseAttributes, ReleaseStream

\* The callback is held by whoever has not released it yet; a reader that was
\* given up on never does.
LEMMA HolderStep == IInv /\ [Next]_vars => HolderInv'
<1> SUFFICES ASSUME IInv, [Next]_vars PROVE HolderInv'
  OBVIOUS
<1>t. TypeOK /\ HolderInv
  BY DEF IInv, RefsExact
<1>1. ASSUME UNCHANGED <<holders, pinned>>, UNCHANGED gaveUp \/ gaveUp',
             pc \notin ClosedPC, pc' \notin ClosedPC
      PROVE  HolderInv'
  BY <1>t, <1>1 DEF HolderInv, ReleasedBy, ClosedPC, ClosePC
<1>2. ASSUME UNCHANGED <<holders, pinned, gaveUp, pc>>
      PROVE  HolderInv'
  BY <1>t, <1>2 DEF HolderInv, ReleasedBy
<1> USE DEF ReadPC, ClosePC, ClosedPC, readerVars, workerVars, cbVars, nativeVars
<1>3. CASE UNCHANGED vars \/ Deliver \/ Stall \/ DeadlinePasses
  BY <1>2, <1>3 DEF vars, Deliver, Stall, DeadlinePasses
<1>4. CASE ReadExpired \/ Request
  BY <1>1, <1>4 DEF ReadExpired, Request, Return
<1>5. CASE Arm
  BY <1>1, <1>5 DEF Arm, Return
<1>6. CASE Timeout
  BY <1>1, <1>6 DEF Timeout, Return
<1>7. ASSUME NEW n \in ReadSizes, ReadResidual(n) \/ ReadMore(n)
      PROVE  HolderInv'
  BY <1>1, <1>7 DEF ReadResidual, ReadMore, CopyInto, ReturnData
<1>8. CASE Receive
  BY <1>1, <1>8 DEF Receive, Take, TakeTerminal, TakeNothing, TakeBroken, TakeRepeat,
                    TakeSample, CopyInto, ReturnData, Return
<1>9. CASE Close
  <2>1. /\ UNCHANGED <<holders, pinned, gaveUp>> /\ pc = "idle"
        /\ pc' = IF gaveUp THEN "relattributes" ELSE "relreader"
    BY <1>9 DEF Close
  <2> QED
    BY <1>t, <2>1 DEF HolderInv, ReleasedBy
<1>10. ASSUME NEW h, ReleaseCallback(h),
              \/ h = "reader" /\ ReleaseReader
              \/ h = "attributes" /\ ReleaseAttributes
              \/ h = "stream" /\ ReleaseStream
       PROVE  HolderInv'
  <2>1. holders' = holders \ {h} /\ (pinned' <=> holders' # {})
    <3>1. h \in holders
      BY <1>t, <1>10 DEF HolderInv, ReleasedBy, ReleaseReader, ReleaseAttributes,
                        ReleaseStream
    <3>2. CASE holders = {h}
      BY <1>10, <3>2, ReleaseCallbackEffect
    <3>3. CASE holders # {h}
      BY <1>t, <1>10, <3>1, <3>3, ReleaseCallbackEffect DEF HolderInv
    <3> QED
      BY <3>2, <3>3
  <2>2. UNCHANGED gaveUp
    BY <1>10 DEF ReleaseReader, ReleaseAttributes, ReleaseStream
  <2>3. CASE h = "reader" /\ ReleaseReader
    BY <1>t, <2>1, <2>2, <2>3 DEF HolderInv, ReleasedBy, ReleaseReader
  <2>4. CASE h = "attributes" /\ ReleaseAttributes
    BY <1>t, <2>1, <2>2, <2>4 DEF HolderInv, ReleasedBy, ReleaseAttributes
  <2>5. CASE h = "stream" /\ ReleaseStream
    BY <1>t, <2>1, <2>2, <2>5 DEF HolderInv, ReleasedBy, ReleaseStream
  <2> QED
    BY <1>10, <2>3, <2>4, <2>5
<1> QED
  BY <1>3, <1>4, <1>5, <1>6, <1>7, <1>8, <1>9, <1>10
     DEF Next, Reading, Closing, Calling, ReleaseReader, ReleaseAttributes, ReleaseStream

-----------------------------------------------------------------------------
(* Theorems. *)

\* The invariant holds in every state, whatever Media Foundation delivers and
\* whenever the owner gives up or closes.
THEOREM Invariance == Spec => []IInv
<1>1. IInv /\ [Next]_vars => IInv'
  BY RefsStep, ServingStep, AnswerStep, HolderStep DEF IInv
<1> QED
  BY <1>1, InitInv, PTL DEF Spec

\* Every native sample has exactly the references of those who still need it,
\* and a buffer is locked exactly while it is read: no branch of next,
\* copyInto, Close or the callback leaks one or releases one twice.
THEOREM ReferencesAreExact == Spec => []RefsExact
<1>1. IInv => RefsExact
  BY DEF IInv
<1> QED
  BY <1>1, Invariance, PTL

\* After Close nothing native is held, unless a read was given up.
THEOREM CloseReleasesAll == Spec => []ClosedHoldsNothing
<1>1. IInv => ClosedHoldsNothing
  <2> SUFFICES ASSUME IInv, pc = "closed"
               PROVE  /\ sample = 0 /\ locked = 0
                      /\ ~gaveUp => ~pinned /\ \A i \in Ids : refs[i] = 0
                      /\ \A i \in Ids : refs[i] > 0 => Undelivered = {i} /\ refs[i] = 1
    BY DEF ClosedHoldsNothing
  <2>1. TypeOK /\ RefsExact
    BY DEF IInv, RefsExact
  <2>2. sample = 0 /\ locked = 0
    BY <2>1 DEF IInv, ServingInv, RefsExact, TypeOK, ClosedPC
  <2>3. \A i \in Ids : refs[i] = IF i \in Undelivered THEN 1 ELSE 0
    BY <2>1, <2>2 DEF RefsExact, Ids
  <2>4. ASSUME ~gaveUp PROVE ~pinned /\ Undelivered = {}
    <3>1. ~pinned
      BY <2>4 DEF IInv, HolderInv, ReleasedBy
    <3>2. outstanding + Len(ch) = 0
      BY <2>4 DEF IInv, AnswerInv
    <3>3. Len(ch) = 0
      <4>1. outstanding \in Nat /\ Len(ch) \in Nat
        BY <2>1, BoundsAssumption DEF TypeOK
      <4> DEFINE n == Len(ch)
      <4> HIDE DEF n
      <4>2. n \in Nat /\ outstanding + n = 0
        BY <3>2, <4>1 DEF n
      <4> QED
        BY <4>1, <4>2 DEF n
    <3> QED
      BY <2>1, <3>1, <3>3, ChannelCases
  <2>5. \A i \in Undelivered : Undelivered = {i}
    BY <2>1, ChannelCases
  <2> QED
    BY <2>2, <2>3, <2>4, <2>5
<1> QED
  BY <1>1, Invariance, PTL

\* While an answer can still come the callback is referenced and pinned.
THEOREM CallbackOutlivesReads == Spec => []CallbackAlive
<1>1. IInv => CallbackAlive
  <2> SUFFICES ASSUME IInv, outstanding > 0
               PROVE  pinned /\ holders # {}
    BY DEF CallbackAlive
  <2>1. gaveUp \/ pc \in {"arm", "wait"}
    <3> DEFINE n == Len(ch)
    <3>1. n \in Nat /\ outstanding \in Nat
      BY BoundsAssumption DEF IInv, RefsExact, TypeOK
    <3>2. ~gaveUp => outstanding + n = IF pc \in {"arm", "wait"} THEN 1 ELSE 0
      BY DEF IInv, AnswerInv
    <3> HIDE DEF n
    <3> QED
      BY <3>1, <3>2
  <2>2. "reader" \in holders
    BY <2>1 DEF IInv, HolderInv, ReleasedBy
  <2> QED
    BY <2>2 DEF IInv, HolderInv
<1> QED
  BY <1>1, Invariance, PTL

\* Close only ever waits for a reader that has answered every read.
THEOREM CloseIsPrompt == Spec => []CloseNeverBlocks
<1>1. IInv => CloseNeverBlocks
  <2> SUFFICES ASSUME IInv, pc = "relreader" PROVE outstanding = 0
    BY DEF CloseNeverBlocks
  <2> DEFINE n == Len(ch)
  <2>1. n \in Nat /\ outstanding \in Nat
    BY BoundsAssumption DEF IInv, RefsExact, TypeOK
  <2>2. ~gaveUp
    BY DEF IInv, HolderInv
  <2>3. outstanding + n = 0
    BY <2>2 DEF IInv, AnswerInv
  <2> HIDE DEF n
  <2> QED
    BY <2>1, <2>3
<1> QED
  BY <1>1, Invariance, PTL

-----------------------------------------------------------------------------
(* SourceReader implements ReadCloser. *)

\* The PCM of n units of sample i.
Copies(i, n) == [j \in 1..n |-> i]

\* The timestamp of the last sample made, as prev has them.
LastTime == IF made = <<>> THEN <<>> ELSE <<made[Len(made)].time>>

\* What is still to come of a delivery nobody has received.
Pending(d) ==
    /\ d.kind = "end" => ended
    /\ d.id = 0 => pcm = out /\ prev = LastTime
    /\ d.id # 0 =>
          /\ LastTime = <<made[d.id].time>> /\ made[d.id].size \in Nat
          /\ IF d.kind = "ok" /\ prev # LastTime
             THEN pcm = out \o Copies(d.id, made[d.id].size)
             ELSE pcm = out

\* Until a Read fails, what was made and is usable is what the owner has, the
\* rest of the sample being served, and the sample in the channel.  After
\* io.EOF there is nothing left.
ServedInv ==
    pc \notin ClosedPC =>
        /\ fate = "none" =>
              /\ ~gaveUp
              /\ ch = <<>> => pcm = out \o Copies(sample, left) /\ prev = LastTime
              /\ \A d \in Delivery : ch = <<d>> => Pending(d)
        /\ fate = "eof" =>
              /\ ended /\ left = 0 /\ pcm = out
              /\ \A d \in Delivery : ch = <<d>> => d.id = 0

\* Copies are a sequence.
LEMMA CopiesAre ==
    ASSUME NEW i, NEW n \in Nat
    PROVE  /\ Copies(i, n) \in Seq({i}) /\ Len(Copies(i, n)) = n
           /\ \A j \in 1..n : Copies(i, n)[j] = i
           /\ i \in Ids => Copies(i, n) \in Seq(Ids)
           /\ n = 0 => Copies(i, n) = <<>>
<1>1. Copies(i, n) \in [1..n -> {i}]
  BY DEF Copies
<1>2. i \in Ids => Copies(i, n) \in [1..n -> Ids]
  BY DEF Copies
<1>3. Copies(i, n) \in Seq({i}) /\ Len(Copies(i, n)) = n
  BY <1>1
<1>4. n = 0 => Copies(i, n) = <<>>
  BY <1>3, EmptySeq
<1> QED
  BY <1>1, <1>2, <1>3, <1>4

\* A sequence without its end is a prefix of it.
LEMMA PrefixOfConcat ==
    ASSUME NEW S, NEW s \in Seq(S), NEW t \in Seq(S)
    PROVE  R!IsPrefix(s, s \o t) /\ R!IsPrefix(s, s)
<1> DEFINE n == Len(s)
<1>1. n \in Nat /\ Len(s \o t) = n + Len(t) /\ Len(t) \in Nat
  OBVIOUS
<1>2. \A i \in 1..n : (s \o t)[i] = s[i]
  BY <1>1
<1>3. SubSeq(s, 1, n) = s
  BY SubSeqFull
<1>4. SubSeq(s \o t, 1, n) = s
  <2>1. \A i \in 1..n : (s \o t)[i] \in S
    BY <1>1, <1>2
  <2> DEFINE u == SubSeq(s \o t, 1, n)
  <2>2. /\ u \in Seq(S) /\ Len(u) = IF 1 <= n THEN n - 1 + 1 ELSE 0
        /\ \A i \in 1..(n - 1 + 1) : u[i] = (s \o t)[1 + i - 1]
    <3> HIDE DEF n
    <3> QED
      BY <1>1, <2>1, SubSeqProperties
  <2> HIDE DEF u
  <2>3. Len(u) = n
    BY <1>1, <2>2
  <2>4. \A i \in 1..n : u[i] = s[i]
    <3> SUFFICES ASSUME NEW i \in 1..n PROVE u[i] = s[i]
      OBVIOUS
    <3>1. i \in 1..(n - 1 + 1) /\ 1 + i - 1 = i
      BY <1>1
    <3> QED
      BY <1>2, <2>2, <3>1
  <2>5. u = s
    BY <2>2, <2>3, <2>4, SeqEqual
  <2> QED
    BY <2>5 DEF u
<1> QED
  BY <1>1, <1>3, <1>4 DEF R!IsPrefix

\* Copies after copies are more copies.
LEMMA CopiesSplit ==
    ASSUME NEW i \in Ids, NEW c \in Nat, NEW n \in Nat, c <= n, NEW s \in Seq(Ids)
    PROVE  (s \o Copies(i, c)) \o Copies(i, n - c) = s \o Copies(i, n)
<1> DEFINE a == Copies(i, c)
           b == Copies(i, n - c)
           ab == Copies(i, n)
<1>1. /\ a \in Seq(Ids) /\ b \in Seq(Ids) /\ ab \in Seq(Ids) /\ n - c \in Nat
      /\ Len(a) = c /\ Len(b) = n - c /\ Len(ab) = n
      /\ \A j \in 1..c : a[j] = i
      /\ \A j \in 1..(n - c) : b[j] = i
      /\ \A j \in 1..n : ab[j] = i
  <2> DEFINE r == n - c
  <2>1. r \in Nat
    OBVIOUS
  <2> HIDE DEF r
  <2>2. /\ Copies(i, r) \in Seq(Ids) /\ Len(Copies(i, r)) = r
        /\ \A j \in 1..r : Copies(i, r)[j] = i
    BY <2>1, CopiesAre
  <2>3. /\ a \in Seq(Ids) /\ Len(a) = c /\ \A j \in 1..c : a[j] = i
    BY CopiesAre
  <2>4. /\ ab \in Seq(Ids) /\ Len(ab) = n /\ \A j \in 1..n : ab[j] = i
    BY CopiesAre
  <2> QED
    BY <2>1, <2>2, <2>3, <2>4 DEF r
<1> HIDE DEF a, b, ab
<1>2. /\ a \o b \in Seq(Ids) /\ Len(a \o b) = n
      /\ \A j \in 1..n : (a \o b)[j] = i
  <2>1. /\ a \o b \in Seq(Ids) /\ Len(a \o b) = c + (n - c)
        /\ \A j \in 1..(c + (n - c)) : (a \o b)[j] = IF j <= c THEN a[j] ELSE b[j - c]
    <3>1. /\ a \o b \in Seq(Ids) /\ Len(a \o b) = Len(a) + Len(b)
          /\ \A j \in 1..(Len(a) + Len(b)) :
                (a \o b)[j] = IF j <= Len(a) THEN a[j] ELSE b[j - Len(a)]
      <4>1. a \in Seq(Ids) /\ b \in Seq(Ids)
        BY <1>1
      <4> QED
        BY <4>1, ConcatProperties, Zenon
    <3>2. Len(a) = c /\ Len(b) = n - c
      BY <1>1
    <3>3. Len(a \o b) = c + (n - c)
      BY <3>1, <3>2, Zenon
    <3>4. ASSUME NEW j \in 1..(c + (n - c))
          PROVE  (a \o b)[j] = IF j <= c THEN a[j] ELSE b[j - c]
      <4>1. j \in 1..(Len(a) + Len(b))
        BY <3>2, Zenon
      <4>2. (a \o b)[j] = IF j <= Len(a) THEN a[j] ELSE b[j - Len(a)]
        BY <3>1, <4>1, Zenon
      <4> QED
        BY <3>2, <4>2, Zenon
    <3> QED
      BY <3>1, <3>3, <3>4, Zenon
  <2>2. c + (n - c) = n
    OBVIOUS
  <2>3. ASSUME NEW j \in 1..n PROVE (a \o b)[j] = i
    <3>1. CASE j <= c
      BY <1>1, <2>1, <2>2, <3>1
    <3>2. CASE j > c
      <4>1. j - c \in 1..(n - c)
        BY <3>2
      <4> QED
        BY <1>1, <2>1, <2>2, <3>2, <4>1
    <3>3. j <= c \/ j > c
      OBVIOUS
    <3> QED
      BY <3>1, <3>2, <3>3, Zenon
  <2> QED
    BY <2>1, <2>2, <2>3
<1>3. a \o b = ab
  BY <1>1, <1>2, SeqEqual
<1>4. (s \o a) \o b = s \o (a \o b)
  <2>1. s \in Seq(Ids) /\ a \in Seq(Ids) /\ b \in Seq(Ids)
    BY <1>1
  <2> QED
    BY <2>1, ConcatAssociative
<1> QED
  BY <1>3, <1>4 DEF a, b, ab

\* copyInto serves a sample from its start and keeps the rest of it.
LEMMA CopyIntoServes ==
    ASSUME TypeOK, NEW i \in Ids, NEW n \in Nat, NEW len \in Nat, NEW rfs,
           NEW lck, CopyInto(i, n, len, rfs, lck)
    PROVE  /\ out' \o Copies(sample', left') = out \o Copies(i, n)
           /\ R!IsPrefix(out, out') /\ R!IsPrefix(out', out \o Copies(i, n))
<1> DEFINE c == IF n < len THEN n ELSE len
<1>1. c \in Nat /\ n - c \in Nat /\ c <= n /\ (c = n <=> n - c = 0)
  OBVIOUS
<1>2. /\ out' = out \o Copies(i, c) /\ left' = n - c
      /\ sample' = IF c = n THEN 0 ELSE i
  BY DEF CopyInto, Copies
<1> HIDE DEF c
<1>3. out \in Seq(Ids) /\ Copies(i, c) \in Seq(Ids) /\ Copies(i, n - c) \in Seq(Ids)
  BY <1>1, CopiesAre DEF TypeOK
<1>4. out \o Copies(i, c) \in Seq(Ids)
  BY <1>3
<1>5. (out \o Copies(i, c)) \o Copies(i, n - c) = out \o Copies(i, n)
  <2>1. out \in Seq(Ids) /\ c \in Nat /\ c <= n
    BY <1>1, <1>3
  <2> QED
    BY <2>1, CopiesSplit
<1>6. Copies(sample', left') = Copies(i, n - c)
  BY <1>1, <1>2, CopiesAre
<1>7. R!IsPrefix(out, out \o Copies(i, c))
  BY <1>3, PrefixOfConcat
<1>8. R!IsPrefix(out \o Copies(i, c), (out \o Copies(i, c)) \o Copies(i, n - c))
  BY <1>3, <1>4, PrefixOfConcat
<1> QED
  BY <1>2, <1>5, <1>6, <1>7, <1>8

\* What the worker adds to the PCM.
LEMMA DeliverAudio ==
    ASSUME IInv, Deliver
    PROVE  \E d \in Delivery :
             /\ ended => d.kind = "end" /\ d.id = 0
             /\ ended' = (ended \/ d.kind = "end")
             /\ \/ ch # <<>> /\ UNCHANGED ch
                \/ ch = <<>> /\ ch' = <<d>>
             /\ d.id = 0 => made' = made /\ pcm' = pcm
             /\ d.id # 0 =>
                   /\ LastTime' = <<made'[d.id].time>> /\ made'[d.id].size \in Nat
                   /\ pcm' = IF d.kind = "ok" /\ LastTime # LastTime'
                             THEN pcm \o Copies(d.id, made'[d.id].size) ELSE pcm
<1>1. TypeOK
  BY DEF IInv, RefsExact
<1>2. PICK d \in Delivery, t \in Times, n \in Sizes :
          /\ ended => d.kind = "end" /\ d.id = 0
          /\ d.id \in {0, Len(made) + 1}
          /\ made' = IF d.id = 0 THEN made
                     ELSE Append(made, [time |-> t, size |-> n, kind |-> d.kind])
          /\ pcm' = IF d.id # 0 /\ Usable(d.kind, t)
                    THEN pcm \o [j \in 1..n |-> d.id] ELSE pcm
          /\ ended' = (ended \/ d.kind = "end")
          /\ OnReadSample(d)
  BY DEF Deliver
<1>3. \/ ch # <<>> /\ UNCHANGED ch
      \/ ch = <<>> /\ ch' = <<d>>
  BY <1>2 DEF OnReadSample
<1>4. ASSUME d.id # 0
      PROVE  /\ LastTime' = <<made'[d.id].time>> /\ made'[d.id].size \in Nat
             /\ pcm' = IF d.kind = "ok" /\ LastTime # LastTime'
                       THEN pcm \o Copies(d.id, made'[d.id].size) ELSE pcm
  <2> DEFINE e == [time |-> t, size |-> n, kind |-> d.kind]
  <2>1. /\ e.time = t /\ e.size = n /\ n \in Nat
    BY BoundsAssumption
  <2>2. /\ made \in Seq([time : Times, size : Sizes, kind : Kind])
        /\ e \in [time : Times, size : Sizes, kind : Kind]
    BY <1>1 DEF TypeOK, Delivery
  <2>3. made' = Append(made, e) /\ d.id = Len(made) + 1
    BY <1>2, <1>4
  <2> HIDE DEF e
  <2>4. /\ Len(made') = Len(made) + 1 /\ made'[Len(made) + 1] = e /\ made' # <<>>
    BY <2>2, <2>3
  <2>5. LastTime' = <<t>> /\ made'[d.id] = e
    BY <2>1, <2>3, <2>4 DEF LastTime
  <2>6. Usable(d.kind, t) <=> d.kind = "ok" /\ LastTime # <<t>>
    <3>1. CASE made = <<>>
      BY <3>1 DEF Usable, LastTime
    <3>2. CASE made # <<>>
      BY <3>2 DEF Usable, LastTime
    <3> QED
      BY <3>1, <3>2
  <2> QED
    BY <1>2, <1>4, <2>1, <2>5, <2>6 DEF Copies
<1> QED
  BY <1>2, <1>3, <1>4

\* Before a Read fails no more than one answer is under way, and while Read
\* waits for it there is no rest to serve.
LEMMA OneAnswer ==
    ASSUME IInv, ~gaveUp
    PROVE  /\ pc \notin {"arm", "wait"} => outstanding = 0 /\ ch = <<>>
           /\ outstanding > 0 => ch = <<>> /\ pc \in {"arm", "wait"} /\ left = 0
<1> DEFINE n == Len(ch)
<1>1. TypeOK /\ n \in Nat /\ outstanding \in Nat
  BY BoundsAssumption DEF IInv, RefsExact, TypeOK
<1>2. outstanding + n = IF pc \in {"arm", "wait"} THEN 1 ELSE 0
  BY DEF IInv, AnswerInv
<1>3. n = 0 => ch = <<>>
  BY <1>1, ChannelCases
<1>4. pc \in {"arm", "wait"} => left = 0
  BY DEF IInv, ServingInv, ReadPC
<1> HIDE DEF n
<1>5. /\ pc \notin {"arm", "wait"} => outstanding = 0 /\ n = 0
      /\ outstanding > 0 => n = 0 /\ pc \in {"arm", "wait"}
  BY <1>1, <1>2
<1> QED
  BY <1>3, <1>4, <1>5

\* With no rest to serve, the owner has all but what is in the channel.
LEMMA NoRest ==
    ASSUME TypeOK, left = 0
    PROVE  out \o Copies(sample, left) = out
<1>1. Copies(sample, left) = <<>> /\ out \in Seq(Ids)
  BY CopiesAre DEF TypeOK
<1> QED
  BY <1>1, ConcatEmptySeq

\* Every step keeps what is served, left and pending together.
LEMMA ServedStep == IInv /\ ServedInv /\ [Next]_vars => ServedInv'
<1> SUFFICES ASSUME IInv, ServedInv, [Next]_vars PROVE ServedInv'
  OBVIOUS
<1>t. TypeOK /\ ServingInv
  BY DEF IInv, RefsExact
<1> USE DEF readerVars, workerVars, cbVars, nativeVars
<1>1. ASSUME UNCHANGED <<ch, pcm, out, sample, left, prev, made, ended>>,
             pc \notin ClosedPC, UNCHANGED <<fate, gaveUp>>
      PROVE  ServedInv'
  BY <1>1 DEF ServedInv, Pending, LastTime, Copies
<1>2. ASSUME UNCHANGED <<ch, pcm, out, left, ended>>, pc \notin ClosedPC,
             NEW r \in {"error", "timeout"}, Return(r)
      PROVE  ServedInv'
  <2>1. fate' # "none" /\ (fate' = "eof" => fate = "eof")
    BY <1>2 DEF Return
  <2> QED
    BY <1>2, <2>1 DEF ServedInv
<1>3. CASE UNCHANGED vars
  BY <1>1, <1>3 DEF vars, ServedInv
<1>4. CASE ReadExpired \/ Request \/ Arm \/ Timeout
  <2>1. pc \notin ClosedPC /\ UNCHANGED <<ch, pcm, out, sample, left, prev, made, ended>>
    BY <1>4 DEF ReadExpired, Request, Arm, Timeout, ClosedPC, ClosePC
  <2>2. \/ Return("error") \/ Return("timeout")
        \/ UNCHANGED <<fate, gaveUp>>
    BY <1>4 DEF ReadExpired, Request, Arm, Timeout
  <2> QED
    BY <1>1, <1>2, <2>1, <2>2
<1>5. CASE Stall \/ DeadlinePasses \/ \E n \in ReadSizes : ReadMore(n)
  <2>1. UNCHANGED <<ch, pcm, out, sample, left, prev, made, ended, fate, gaveUp>>
        /\ (pc' \notin ClosedPC => pc \notin ClosedPC)
    BY <1>5 DEF Stall, DeadlinePasses, ReadMore, ClosedPC, ClosePC
  <2> QED
    BY <1>1, <2>1 DEF ServedInv
<1>6. CASE Close \/ Closing
  BY <1>6 DEF Close, Closing, ReleaseReader, ReleaseAttributes, ReleaseStream, ServedInv,
     ClosedPC, ClosePC
<1>7. ASSUME NEW n \in ReadSizes, ReadResidual(n)
      PROVE  ServedInv'
  <2>1. /\ pc = "idle" /\ pc \notin ClosedPC /\ left > 0 /\ fate' = fate
        /\ UNCHANGED <<pcm, prev, gaveUp, ch, made, ended>>
    BY <1>7 DEF ReadResidual, CopyInto, ReturnData, ClosedPC, ClosePC
  <2>2. out' \o Copies(sample', left') = out \o Copies(sample, left)
    <3>1. sample \in Ids /\ left \in Nat /\ n \in Nat
      BY <1>t, <1>7, ResidualEffect, BoundsAssumption DEF TypeOK
    <3>2. CopyInto(sample, left, n, refs, locked)
      BY <1>7 DEF ReadResidual
    <3> QED
      BY <1>t, <3>1, <3>2, CopyIntoServes
  <2>3. fate = "none" => ch = <<>>
    BY <2>1, OneAnswer DEF ServedInv
  <2>4. fate # "eof"
    BY <2>1 DEF ServedInv
  <2>5. LastTime' = LastTime
    BY <2>1 DEF LastTime
  <2>6. fate' = "none" =>
           ~gaveUp /\ ch' = <<>> /\ pcm' = (out \o Copies(sample, left))' /\ prev' = LastTime'
    <3>1. (out \o Copies(sample, left))' = out' \o Copies(sample', left')
      BY DEF Copies
    <3> QED
      BY <2>1, <2>2, <2>3, <2>5, <3>1 DEF ServedInv
  <2>7. \A d \in Delivery : <<d>> # <<>>
    OBVIOUS
  <2> QED
    BY <2>1, <2>4, <2>6, <2>7 DEF ServedInv
<1>8. ASSUME NEW d \in Delivery, Take(d),
             \/ TakeTerminal(d) \/ TakeNothing(d) \/ TakeBroken(d)
             \/ TakeRepeat(d) \/ TakeSample(d)
      PROVE  ServedInv'
  <2>1. pc = "wait" /\ pc \notin ClosedPC /\ ch = <<d>> /\ ch' = <<>>
    BY <1>t, <1>8, TakeEmpties DEF ClosedPC, ClosePC
  <2>2. left = 0 /\ UNCHANGED <<pcm, made, ended, gaveUp>>
    BY <1>t, <1>8, <2>1
       DEF ServingInv, ReadPC, TakeTerminal, TakeNothing, TakeBroken, TakeRepeat, TakeSample
  <2>3. /\ fate = "none" => ~gaveUp /\ Pending(d)
        /\ fate = "eof" => ended /\ pcm = out /\ d.id = 0
    BY <2>1 DEF ServedInv
  <2>4. /\ LastTime' = LastTime /\ out \o Copies(sample, left) = out
        /\ \A e \in Delivery : ch' # <<e>>
    BY <1>t, <2>1, <2>2, NoRest DEF LastTime
  <2>5. ASSUME UNCHANGED <<out, sample, left, fate>>,
               fate = "none" => pcm = out /\ prev' = LastTime
        PROVE  ServedInv'
    BY <2>1, <2>2, <2>3, <2>4, <2>5 DEF ServedInv, Copies
  <2>6. CASE TakeTerminal(d)
    <3>1. /\ UNCHANGED <<out, left>> /\ d.kind # "ok"
          /\ fate' = IF fate = "none" THEN (IF d.kind = "end" THEN "eof" ELSE "error") ELSE fate
      BY <2>6 DEF TakeTerminal, Return
    <3>2. fate' # "none"
      BY <3>1
    <3>3. fate' = "eof" => ended /\ pcm = out
      BY <2>3, <3>1 DEF Pending
    <3> QED
      BY <2>1, <2>2, <2>4, <3>1, <3>2, <3>3 DEF ServedInv
  <2>7. CASE TakeNothing(d)
    BY <2>3, <2>5, <2>7 DEF TakeNothing, Pending
  <2>8. CASE TakeBroken(d)
    <3>1. /\ UNCHANGED <<out, left>> /\ fate' # "none" /\ (fate' = "eof" => fate = "eof")
      BY <2>8 DEF TakeBroken, Return
    <3> QED
      BY <2>1, <2>2, <2>3, <2>4, <3>1 DEF ServedInv
  <2>9. CASE TakeRepeat(d)
    <3>1. /\ UNCHANGED <<out, sample, left, fate, prev>> /\ d.id # 0
          /\ prev = <<made[d.id].time>>
      BY <2>9 DEF TakeRepeat
    <3>2. fate = "none" => pcm = out /\ prev' = LastTime
      BY <2>3, <3>1 DEF Pending
    <3> QED
      BY <2>5, <3>1, <3>2
  <2>10. CASE TakeSample(d)
    <3>1. /\ d.id # 0 /\ d.kind = "ok" /\ prev # <<made[d.id].time>>
          /\ prev' = <<made[d.id].time>>
          /\ CopyInto(d.id, made[d.id].size, want, refs, locked + 1) /\ fate' = fate
      BY <2>10 DEF TakeSample, CopyInto, ReturnData
    <3>2. d.id \in Ids /\ made[d.id].size \in Nat /\ want \in Nat
      BY <1>t, <1>8, <3>1, TakenIsMade, BoundsAssumption DEF TypeOK
    <3>3. out' \o Copies(sample', left') = out \o Copies(d.id, made[d.id].size)
      BY <1>t, <3>1, <3>2, CopyIntoServes
    <3>4. fate = "none" =>
            prev' = LastTime /\ pcm = out \o Copies(d.id, made[d.id].size)
      BY <2>3, <3>1 DEF Pending
    <3>5. fate # "eof"
      BY <2>3, <3>1
    <3> QED
      BY <2>1, <2>2, <2>3, <2>4, <3>1, <3>3, <3>4, <3>5 DEF ServedInv
  <2> QED
    BY <1>8, <2>6, <2>7, <2>8, <2>9, <2>10
<1>9. CASE Deliver
  <2>1. UNCHANGED <<pc, sample, left, prev, gaveUp, out, fate>> /\ outstanding > 0
    BY <1>9 DEF Deliver
  <2>2. PICK d \in Delivery :
             /\ ended => d.kind = "end" /\ d.id = 0
             /\ ended' = (ended \/ d.kind = "end")
             /\ \/ ch # <<>> /\ UNCHANGED ch
                \/ ch = <<>> /\ ch' = <<d>>
             /\ d.id = 0 => made' = made /\ pcm' = pcm
             /\ d.id # 0 =>
                   /\ LastTime' = <<made'[d.id].time>> /\ made'[d.id].size \in Nat
                   /\ pcm' = IF d.kind = "ok" /\ LastTime # LastTime'
                             THEN pcm \o Copies(d.id, made'[d.id].size) ELSE pcm
    BY <1>9, DeliverAudio
  <2>3. ASSUME pc \notin ClosedPC, fate = "none"
        PROVE  /\ ch' = <<d>> /\ ~gaveUp
               /\ Pending(d)'
    <3>1. ~gaveUp
      BY <2>3 DEF ServedInv
    <3>2. ch = <<>> /\ left = 0
      BY <2>1, <3>1, OneAnswer
    <3>3. pcm = out /\ prev = LastTime
      BY <1>t, <2>3, <3>2, NoRest DEF ServedInv
    <3>4. ch' = <<d>>
      BY <2>2, <3>2
    <3>5. d.id = 0 => pcm' = out' /\ prev' = LastTime'
      BY <2>1, <2>2, <3>3 DEF LastTime
    <3>6. d.id # 0 =>
             /\ LastTime' = <<made'[d.id].time>> /\ made'[d.id].size \in Nat
             /\ pcm' = IF d.kind = "ok" /\ prev' # LastTime'
                       THEN out' \o Copies(d.id, made'[d.id].size) ELSE out'
      BY <2>1, <2>2, <3>3
    <3>7. d.kind = "end" => ended'
      BY <2>2
    <3> QED
      BY <3>1, <3>4, <3>5, <3>6, <3>7 DEF Pending, Copies
  <2>4. ASSUME pc \notin ClosedPC, fate = "eof"
        PROVE  /\ ended' /\ pcm' = out /\ left = 0
               /\ \A e \in Delivery : ch' = <<e>> => e.id = 0
    <3>1. /\ ended /\ left = 0 /\ pcm = out
          /\ \A e \in Delivery : ch = <<e>> => e.id = 0
      BY <2>4 DEF ServedInv
    <3>2. d.id = 0 /\ ended' /\ pcm' = pcm
      BY <2>2, <3>1
    <3>3. \A e \in Delivery : <<d>> = <<e>> => e = d
      OBVIOUS
    <3> QED
      BY <2>2, <3>1, <3>2, <3>3
  <2>5. \A e \in Delivery : <<d>> = <<e>> => e = d
    OBVIOUS
  <2>6. ch' = <<d>> => ch' # <<>>
    OBVIOUS
  <2> QED
    BY <2>1, <2>3, <2>4, <2>5, <2>6 DEF ServedInv
<1> QED
  BY <1>3, <1>4, <1>5, <1>6, <1>7, <1>8, <1>9
     DEF Next, Reading, Calling, Receive, TakeTerminal, TakeNothing, TakeBroken,
         TakeRepeat, TakeSample

\* It starts so.
LEMMA ServedInit == Init => ServedInv
<1> SUFFICES ASSUME Init PROVE ServedInv
  OBVIOUS
<1>1. out \o Copies(sample, left) = <<>>
  BY InitInv, NoRest DEF IInv, RefsExact, Init
<1>2. \A d \in Delivery : <<d>> # <<>>
  OBVIOUS
<1> QED
  BY <1>1, <1>2 DEF Init, ServedInv, LastTime

\* What the owner has been told, for each place it can be in.
LEMMA FateIs ==
    /\ pc \in ClosedPC => ReaderFate = "closed"
    /\ pc \notin ClosedPC =>
          /\ fate = "none" => ReaderFate = "open"
          /\ fate = "eof" => ReaderFate = "eof"
          /\ fate \in {"error", "timeout"} => ReaderFate = "failed"
  BY DEF ReaderFate, ClosedPC

\* The same after a step.
LEMMA FateWillBe ==
    /\ pc' \in ClosedPC => ReaderFate' = "closed"
    /\ pc' \notin ClosedPC =>
          /\ fate' = "none" => ReaderFate' = "open"
          /\ fate' = "eof" => ReaderFate' = "eof"
          /\ fate' \in {"error", "timeout"} => ReaderFate' = "failed"
  BY DEF ReaderFate, ClosedPC

\* A delivery only adds to the PCM, and to none that has ended.
LEMMA PcmGrows ==
    ASSUME IInv, Deliver
    PROVE  /\ R!IsPrefix(pcm, pcm')
           /\ ended => pcm' = pcm /\ ended'
<1>1. PICK d \in Delivery :
             /\ ended => d.kind = "end" /\ d.id = 0
             /\ ended' = (ended \/ d.kind = "end")
             /\ d.id = 0 => pcm' = pcm
             /\ d.id # 0 =>
                   /\ made'[d.id].size \in Nat
                   /\ pcm' = IF d.kind = "ok" /\ LastTime # LastTime'
                             THEN pcm \o Copies(d.id, made'[d.id].size) ELSE pcm
  BY DeliverAudio
<1>2. pcm \in Seq(Ids)
  BY DEF IInv, RefsExact, TypeOK
<1>3. ASSUME d.id # 0 PROVE Copies(d.id, made'[d.id].size) \in Seq(Ids)
  <2>1. d.id \in Ids
    BY <1>3, BoundsAssumption DEF Delivery, Ids
  <2> QED
    BY <1>1, <1>3, <2>1, CopiesAre
<1>4. R!IsPrefix(pcm, pcm)
  BY <1>2, PrefixOfConcat
<1>5. ASSUME d.id # 0 PROVE R!IsPrefix(pcm, pcm \o Copies(d.id, made'[d.id].size))
  BY <1>2, <1>3, <1>5, PrefixOfConcat
<1> QED
  BY <1>1, <1>4, <1>5

\* Every step is one of ReadCloser, or invisible there: Deliver decodes,
\* ReadResidual and TakeSample read until something failed, TakeTerminal may
\* end, every other way out of Read fails, and Close closes.
LEMMA RefinesNext == IInv /\ ServedInv /\ [Next]_vars => [R!Next]_(R!vars)
<1> SUFFICES ASSUME IInv, ServedInv, [Next]_vars PROVE R!Next \/ UNCHANGED R!vars
  BY DEF R!vars
<1>t. TypeOK /\ fate \in {"none", "eof", "error", "timeout"}
  BY DEF IInv, RefsExact, TypeOK
<1> USE DEF readerVars, workerVars, cbVars, nativeVars
<1>1. ASSUME UNCHANGED <<pcm, ended, out, ReaderFate>>
      PROVE  UNCHANGED R!vars
  BY <1>1 DEF R!vars
<1>2. ASSUME UNCHANGED <<pcm, ended, out>>, pc \notin ClosedPC, pc' \notin ClosedPC,
             NEW r \in {"error", "timeout"}, Return(r)
      PROVE  R!Next \/ UNCHANGED R!vars
  <2>1. CASE fate = "none"
    <3>1. ReaderFate = "open" /\ ReaderFate' = "failed"
      BY <1>2, <2>1, FateIs, FateWillBe DEF Return
    <3> QED
      BY <1>2, <3>1 DEF R!Fail, R!Next
  <2>2. CASE fate # "none"
    <3>1. fate' = fate
      BY <1>2, <2>2 DEF Return
    <3>2. ReaderFate' = ReaderFate
      BY <1>2, <3>1 DEF ReaderFate, ClosedPC
    <3> QED
      BY <1>1, <1>2, <3>2
  <2> QED
    BY <2>1, <2>2
<1>3. ASSUME UNCHANGED <<pcm, ended, out, fate>>, pc \in ClosedPC <=> pc' \in ClosedPC
      PROVE  UNCHANGED R!vars
  <2>1. ReaderFate' = ReaderFate
    BY <1>3 DEF ReaderFate, ClosedPC
  <2> QED
    BY <1>1, <1>3, <2>1
<1>4. ASSUME UNCHANGED <<pcm, ended, fate>>, pc \notin ClosedPC, pc' \notin ClosedPC,
             fate # "eof",
             fate = "none" => R!IsPrefix(out, out') /\ R!IsPrefix(out', pcm)
      PROVE  R!Next
  <2>1. CASE fate = "none"
    <3>1. ReaderFate = "open" /\ ReaderFate' = "open"
      BY <1>4, <2>1, FateIs, FateWillBe
    <3> QED
      BY <1>4, <2>1, <3>1 DEF R!Read, R!Next
  <2>2. CASE fate # "none"
    <3>1. ReaderFate = "failed" /\ ReaderFate' = "failed"
      BY <1>t, <1>4, <2>2, FateIs, FateWillBe
    <3> QED
      BY <1>4, <3>1 DEF R!ReadFailed, R!Next
  <2> QED
    BY <2>1, <2>2
<1>5. CASE UNCHANGED vars
  BY <1>3, <1>5 DEF vars
<1>6. CASE ReadExpired \/ Request \/ Arm \/ Timeout
  <2>1. pc \notin ClosedPC /\ pc' \notin ClosedPC /\ UNCHANGED <<pcm, ended, out>>
    BY <1>6 DEF ReadExpired, Request, Arm, Timeout, Return, ClosedPC, ClosePC
  <2>2. Return("error") \/ Return("timeout") \/ fate' = fate
    BY <1>6 DEF ReadExpired, Request, Arm, Timeout
  <2> QED
    BY <1>2, <1>3, <2>1, <2>2
<1>7. CASE Stall \/ DeadlinePasses \/ Closing \/ \E n \in ReadSizes : ReadMore(n)
  BY <1>3, <1>7 DEF Stall, DeadlinePasses, Closing, ReleaseReader, ReleaseAttributes,
     ReleaseStream, ReadMore, ClosedPC, ClosePC
<1>8. CASE Close
  <2>1. ReaderFate' = "closed" /\ UNCHANGED <<pcm, ended, out>>
    BY <1>8, FateWillBe DEF Close, ClosedPC, ClosePC
  <2> QED
    BY <2>1 DEF R!Close, R!Next
<1>9. ASSUME NEW n \in ReadSizes, ReadResidual(n)
      PROVE  R!Next
  <2>1. /\ pc = "idle" /\ pc' = "idle" /\ left > 0
        /\ UNCHANGED <<pcm, ended, fate>>
    BY <1>9 DEF ReadResidual, CopyInto, ReturnData
  <2>2. pc \notin ClosedPC /\ pc' \notin ClosedPC /\ fate # "eof"
    BY <2>1 DEF ServedInv, ClosedPC, ClosePC
  <2>3. R!IsPrefix(out, out') /\ R!IsPrefix(out', out \o Copies(sample, left))
    <3>1. sample \in Ids /\ left \in Nat /\ n \in Nat
      BY <1>t, <1>9, ResidualEffect, BoundsAssumption DEF TypeOK
    <3>2. CopyInto(sample, left, n, refs, locked)
      BY <1>9 DEF ReadResidual
    <3> QED
      BY <1>t, <3>1, <3>2, CopyIntoServes
  <2>4. fate = "none" => pcm = out \o Copies(sample, left)
    BY <2>1, <2>2, OneAnswer DEF ServedInv
  <2> QED
    BY <1>4, <2>1, <2>2, <2>3, <2>4
<1>10. ASSUME NEW d \in Delivery, Take(d),
             \/ TakeTerminal(d) \/ TakeNothing(d) \/ TakeBroken(d)
             \/ TakeRepeat(d) \/ TakeSample(d)
      PROVE  R!Next \/ UNCHANGED R!vars
  <2>1. pc = "wait" /\ pc \notin ClosedPC /\ ch = <<d>>
    BY <1>t, <1>10, TakeEmpties DEF ClosedPC, ClosePC
  <2>2. pc' \notin ClosedPC /\ UNCHANGED <<pcm, ended>>
    BY <1>10 DEF TakeTerminal, TakeNothing, TakeBroken, TakeRepeat, TakeSample, CopyInto,
       ReturnData, Return, ClosedPC, ClosePC
  <2>3. /\ fate = "none" => Pending(d)
        /\ fate = "eof" => d.id = 0
    BY <2>1 DEF ServedInv
  <2>4. CASE TakeTerminal(d)
    <3>1. out' = out /\ d.kind # "ok"
          /\ Return(IF d.kind = "end" THEN "eof" ELSE "error")
      BY <2>4 DEF TakeTerminal
    <3>2. CASE fate # "none"
      <4>1. fate' = fate
        BY <3>1, <3>2 DEF Return
      <4> QED
        BY <1>3, <2>1, <2>2, <3>1, <4>1
    <3>3. CASE d.kind # "end"
      BY <1>2, <2>1, <2>2, <3>1, <3>3
    <3>4. CASE fate = "none" /\ d.kind = "end"
      <4>1. fate' = "eof"
        BY <3>1, <3>4 DEF Return
      <4>2. ReaderFate = "open" /\ ReaderFate' = "eof"
        BY <2>1, <2>2, <3>4, <4>1, FateIs, FateWillBe
      <4>3. ended /\ pcm = out
        BY <2>3, <3>1, <3>4 DEF Pending
      <4> QED
        BY <2>2, <3>1, <4>2, <4>3 DEF R!End, R!Next
    <3> QED
      BY <3>2, <3>3, <3>4
  <2>5. CASE TakeNothing(d) \/ TakeRepeat(d)
    BY <1>3, <2>1, <2>2, <2>5 DEF TakeNothing, TakeRepeat
  <2>6. CASE TakeBroken(d)
    BY <1>2, <2>1, <2>2, <2>6 DEF TakeBroken
  <2>7. CASE TakeSample(d)
    <3>1. /\ d.id # 0 /\ d.kind = "ok" /\ prev # <<made[d.id].time>>
          /\ CopyInto(d.id, made[d.id].size, want, refs, locked + 1) /\ fate' = fate
      BY <2>7 DEF TakeSample, CopyInto, ReturnData
    <3>2. d.id \in Ids /\ made[d.id].size \in Nat /\ want \in Nat
      BY <1>t, <1>10, <3>1, TakenIsMade, BoundsAssumption DEF TypeOK
    <3>3. R!IsPrefix(out, out') /\ R!IsPrefix(out', out \o Copies(d.id, made[d.id].size))
      BY <1>t, <3>1, <3>2, CopyIntoServes
    <3>4. fate = "none" => pcm = out \o Copies(d.id, made[d.id].size)
      BY <2>3, <3>1 DEF Pending
    <3> QED
      BY <1>4, <2>1, <2>2, <2>3, <3>1, <3>3, <3>4
  <2> QED
    BY <1>10, <2>4, <2>5, <2>6, <2>7
<1>11. CASE Deliver
  <2>1. UNCHANGED <<pc, out, fate>>
    BY <1>11 DEF Deliver
  <2>2. ReaderFate' = ReaderFate
    BY <2>1 DEF ReaderFate
  <2>3. CASE ended
    <3>1. pcm' = pcm /\ ended' = ended
      BY <1>t, <1>11, <2>3, PcmGrows, DeliverEffect DEF TypeOK
    <3> QED
      BY <1>1, <2>1, <2>2, <3>1
  <2>4. CASE ~ended
    BY <1>11, <2>1, <2>2, <2>4, PcmGrows DEF R!Decode, R!Next
  <2> QED
    BY <2>3, <2>4
<1> QED
  BY <1>5, <1>6, <1>7, <1>8, <1>9, <1>10, <1>11
     DEF Next, Reading, Calling, Receive, TakeTerminal, TakeNothing, TakeBroken,
         TakeRepeat, TakeSample

\* Until a Read fails the owner gets what Media Foundation made, in order,
\* nothing twice and nothing left out, and io.EOF only for the whole of it.
THEOREM Implementation == Spec => ImplementsReadCloser
<1>1. Init => R!Init
  <2> SUFFICES ASSUME Init PROVE R!Init
    OBVIOUS
  <2>1. ReaderFate = "open"
    BY FateIs DEF Init, ClosedPC, ClosePC
  <2> QED
    BY <2>1 DEF Init, R!Init
<1>2. IInv /\ ServedInv /\ [Next]_vars => [R!Next]_(R!vars)
  BY RefinesNext
<1>3. Spec => []ServedInv
  BY ServedInit, ServedStep, Invariance, PTL DEF Spec
<1> QED
  BY <1>1, <1>2, <1>3, Invariance, PTL DEF Spec, R!Spec, ImplementsReadCloser
=============================================================================
