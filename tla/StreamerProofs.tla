--------------------------- MODULE StreamerProofs ---------------------------
(***************************************************************************)
(* Proofs about module Streamer, for PCM of any length with any number of  *)
(* channels, read by calls of Stream with slices of any size: the          *)
(* inductive invariant IInv, and the safety properties that follow from it. *)
(***************************************************************************)
EXTENDS Streamer, SequenceTheorems, TLAPS

\* Frame i of the whole PCM.
WholeFrame(i) ==
    LET first == (i - 1) * Frame
    IN <<first, IF channels = 1 THEN first ELSE first + 2>>

\* What was streamed are the first frames of the PCM, what is left over are the
\* bytes right behind them, and both are what was read.
CutInv ==
    Supported =>
        /\ pos = Len(out) * Frame + Len(partial)
        /\ \A i \in 1..Len(partial) : partial[i] = Len(out) * Frame + (i - 1)
        /\ \A i \in 1..Len(out) : out[i] = WholeFrame(i)

\* Bytes are left over only when all was read; a caller with room hears of an
\* end only then.
EndInv ==
    Supported =>
        /\ Len(partial) > 0 => done
        /\ done /\ ~closed => pos = total /\ (err <=> ending = "error")
        /\ ~closed /\ last.len > 0 /\ ~last.ok => done

IInv == TypeOK /\ CutInv /\ EndInv

-----------------------------------------------------------------------------
(* Arithmetic. *)

\* Division with a remainder.
LEMMA DivBounds ==
    ASSUME NEW p \in Nat \ {0}, NEW x \in Nat
    PROVE  /\ x \div p \in Nat /\ (x \div p) * p <= x /\ x < (x \div p) * p + p
           /\ x % p = x - (x \div p) * p
  OBVIOUS

\* Multiplication by a positive number.
LEMMA Multiples ==
    ASSUME NEW p \in Nat \ {0}, NEW a \in Int, NEW b \in Int
    PROVE  /\ a * p \in Int /\ (a + 1) * p = a * p + p /\ (a + b) * p = a * p + b * p
           /\ (a - 1) * p = a * p - p
           /\ a <= b => a * p <= b * p
           /\ a * p < b * p => a < b
           /\ 0 * p = 0
  OBVIOUS

\* The quotient is the one number with that remainder.
LEMMA DivUnique ==
    ASSUME NEW p \in Nat \ {0}, NEW x \in Nat, NEW q \in Int,
           q * p <= x, x < q * p + p
    PROVE  x \div p = q
<1> DEFINE r == x \div p
<1>1. r \in Int /\ r * p <= x /\ x < r * p + p
  BY DivBounds
<1> HIDE DEF r
<1>2. /\ r * p \in Int /\ q * p \in Int
      /\ (r + 1) * p = r * p + p /\ (q + 1) * p = q * p + p
      /\ r * p < (q + 1) * p => r < q + 1
      /\ q * p < (r + 1) * p => q < r + 1
  BY <1>1, Multiples
<1>3. r < q + 1 /\ q < r + 1
  BY <1>1, <1>2
<1> QED
  BY <1>1, <1>3 DEF r

\* A frame of s16le PCM has two bytes for each channel.
LEMMA FrameIs ==
    ASSUME TypeOK, Supported
    PROVE  /\ Frame \in Nat \ {0} /\ Frame >= 2 /\ channels \in Nat \ {0}
           /\ channels # 1 => channels > 1 /\ Frame >= 4
  BY StreamerAssumption DEF TypeOK, Supported, Frame

-----------------------------------------------------------------------------
(* A call of Stream that reads. *)

\* What it asks the reader for, what it gets, and the buffer it has then.
Room(len) == len * Frame - Len(partial)
Got(len) == IF Room(len) < total - pos THEN Room(len) ELSE total - pos
Buf(len) == partial \o [i \in 1..Got(len) |-> pos + i - 1]

\* The bytes in the buffer are those behind the frames streamed, without a gap.
LEMMA BufferIs ==
    ASSUME IInv, Supported, NEW len \in Nat \ {0}
    PROVE  /\ Got(len) \in Nat /\ Room(len) \in Nat /\ pos + Got(len) \in 0..total
           /\ Got(len) <= Room(len) /\ (Got(len) < Room(len) => pos + Got(len) = total)
           /\ Buf(len) \in Seq(0..(MaxTotal - 1))
           /\ Len(Buf(len)) = Len(partial) + Got(len)
           /\ Len(Buf(len)) \in Nat
           /\ pos + Got(len) = Len(out) * Frame + Len(Buf(len))
           /\ \A i \in 1..Len(Buf(len)) : Buf(len)[i] = Len(out) * Frame + (i - 1)
<1> DEFINE n == Got(len)
           p == Len(partial)
           new == [i \in 1..n |-> pos + i - 1]
           done0 == Len(out) * Frame
<1>1. /\ Frame \in Nat \ {0} /\ partial \in Seq(0..(MaxTotal - 1)) /\ p \in Nat
      /\ p < Frame /\ Len(out) \in Nat /\ pos \in 0..total /\ total \in 0..MaxTotal
      /\ MaxTotal \in Nat
  BY FrameIs, StreamerAssumption DEF IInv, TypeOK
<1>2. /\ pos = done0 + p /\ \A i \in 1..p : partial[i] = done0 + (i - 1)
  BY DEF IInv, CutInv
<1>3. done0 \in Nat
  <2>1. done0 \in Int /\ 0 * Frame <= Len(out) * Frame /\ 0 * Frame = 0
    BY <1>1, Multiples
  <2> QED
    BY <2>1
<1> HIDE DEF done0
<1>4. Room(len) \in Nat /\ n \in Nat /\ pos + n \in 0..total /\ n <= Room(len)
      /\ (n < Room(len) => pos + n = total)
  <2> DEFINE r == len * Frame
  <2>1. r \in Int /\ 1 * Frame <= r /\ 1 * Frame = Frame
    BY <1>1, Multiples
  <2> HIDE DEF r
  <2>2. Room(len) = r - p
    BY DEF Room, r
  <2>3. Room(len) \in Nat
    BY <1>1, <2>1, <2>2
  <2> QED
    BY <1>1, <2>3 DEF Got
<1> HIDE DEF n, p
<1>5. /\ new \in Seq(0..(MaxTotal - 1)) /\ Len(new) = n
      /\ \A i \in 1..n : new[i] = pos + i - 1
  <2>1. \A i \in 1..n : pos + i - 1 \in 0..(MaxTotal - 1)
    BY <1>1, <1>4
  <2> QED
    BY <1>4, <2>1
<1>6. Buf(len) = partial \o new
  BY DEF Buf, n
<1> HIDE DEF new
<1>7. /\ Buf(len) \in Seq(0..(MaxTotal - 1)) /\ Len(Buf(len)) = p + n
      /\ \A i \in 1..(p + n) : Buf(len)[i] = IF i <= p THEN partial[i] ELSE new[i - p]
  <2>1. /\ partial \o new \in Seq(0..(MaxTotal - 1))
        /\ Len(partial \o new) = Len(partial) + Len(new)
        /\ \A i \in 1..(Len(partial) + Len(new)) :
              (partial \o new)[i] = IF i <= Len(partial) THEN partial[i]
                                    ELSE new[i - Len(partial)]
    BY <1>1, <1>5, ConcatProperties, Zenon
  <2>2. Len(partial) + Len(new) = p + n
    BY <1>5 DEF p
  <2> QED
    BY <1>6, <2>1, <2>2, Zenon DEF p
<1>8. ASSUME NEW i \in 1..(p + n) PROVE Buf(len)[i] = done0 + (i - 1)
  <2>1. CASE i <= p
    <3>1. i \in 1..p /\ Buf(len)[i] = partial[i]
      BY <1>1, <1>4, <1>7, <2>1
    <3> QED
      BY <1>2, <3>1
  <2>2. CASE i > p
    <3>1. i - p \in 1..n /\ Buf(len)[i] = new[i - p]
      BY <1>1, <1>4, <1>7, <2>2
    <3>2. new[i - p] = pos + (i - p) - 1
      BY <1>5, <3>1
    <3> QED
      BY <1>1, <1>2, <1>3, <1>4, <3>1, <3>2
  <2> QED
    BY <1>1, <1>4, <2>1, <2>2
<1>9. Len(Buf(len)) = p + n /\ p + n \in Nat /\ pos + n = done0 + (p + n)
  BY <1>1, <1>2, <1>3, <1>4, <1>7
<1> QED
  BY <1>4, <1>7, <1>8, <1>9 DEF n, p, done0

\* A buffer of bytes that follow each other is cut into the frames that follow
\* each other, and what is behind the last.
LEMMA CutIs ==
    ASSUME TypeOK, Supported, NEW at \in Nat, NEW buf \in Seq(0..(MaxTotal - 1)),
           \A i \in 1..Len(buf) : buf[i] = at * Frame + (i - 1)
    PROVE  LET k == Len(buf) \div Frame
               rest == Len(buf) - k * Frame
           IN /\ k \in Nat /\ rest \in Nat /\ rest < Frame
              /\ Len(Frames(buf)) = k
              /\ Frames(buf) \in Seq((0..(MaxTotal - 1)) \X (0..(MaxTotal - 1)))
              /\ \A i \in 1..k : Frames(buf)[i] = WholeFrame(at + i)
              /\ Kept(buf) \in Seq(0..(MaxTotal - 1)) /\ Len(Kept(buf)) = rest
              /\ \A i \in 1..rest : Kept(buf)[i] = (at + k) * Frame + (i - 1)
<1> DEFINE L == Len(buf)
           k == L \div Frame
           rest == L - k * Frame
           M == 0..(MaxTotal - 1)
           a == at * Frame
<1>1. /\ Frame \in Nat \ {0} /\ Frame >= 2 /\ channels \in Nat \ {0}
      /\ channels # 1 => channels > 1 /\ Frame >= 4
  BY FrameIs
<1>2. L \in Nat
  OBVIOUS
<1>m. \A j \in 1..L : buf[j] \in M
  BY ElementOfSeq, Zenon
<1>3. /\ k \in Nat /\ k * Frame <= L /\ L < k * Frame + Frame /\ L % Frame = rest
  <2> HIDE DEF L
  <2> QED
    BY <1>1, <1>2, DivBounds
<1>4. k * Frame \in Int /\ a \in Int /\ (at + k) * Frame = a + k * Frame
  BY <1>1, <1>3, Multiples
<1> HIDE DEF k
<1>5. rest \in Nat /\ rest < Frame
  <2> DEFINE c == k * Frame
  <2>1. c \in Int /\ c <= L /\ L < c + Frame
    BY <1>3, <1>4
  <2> HIDE DEF c, L
  <2>2. L - c \in Nat /\ L - c < Frame
    BY <1>1, <1>2, <2>1
  <2> QED
    BY <2>2 DEF c
<1>6. ASSUME NEW i \in 1..k
      PROVE  LET base == (i - 1) * Frame + 1
             IN /\ base \in 1..L /\ (channels > 1 => base + 2 \in 1..L)
                /\ buf[base] = (at + i - 1) * Frame
                /\ (channels > 1 => buf[base + 2] = (at + i - 1) * Frame + 2)
  <2> DEFINE b == (i - 1) * Frame
  <2>1. /\ b \in Int /\ i * Frame = b + Frame /\ i * Frame <= k * Frame
        /\ 0 * Frame <= b /\ 0 * Frame = 0 /\ i * Frame \in Int
        /\ (at + (i - 1)) * Frame = a + b
    BY <1>1, <1>3, Multiples
  <2> HIDE DEF b, L
  <2>2. b + 1 \in 1..L /\ (channels > 1 => b + 3 \in 1..L)
    <3>1. /\ b \in Int /\ 0 <= b /\ b + Frame <= L /\ Frame \in Nat /\ 2 <= Frame
          /\ channels > 1 => 4 <= Frame
      <4> DEFINE c == k * Frame
                 e == i * Frame
      <4>1. e = b + Frame /\ e <= c /\ c <= L /\ c \in Int /\ e \in Int /\ b \in Int /\ 0 <= b
        BY <1>3, <1>4, <2>1
      <4> HIDE DEF c, e
      <4>2. channels > 1 => channels # 1
        BY <1>1
      <4> QED
        BY <1>1, <1>2, <4>1, <4>2
    <3> QED
      BY <1>2, <3>1
  <2>3. buf[b + 1] = a + b /\ (channels > 1 => buf[b + 3] = a + (b + 2))
    BY <1>4, <2>1, <2>2 DEF L
  <2>4. (b + 1) + 2 = b + 3 /\ at + i - 1 = at + (i - 1)
        /\ (a + b) + 2 = a + (b + 2)
    BY <1>4, <2>1
  <2> QED
    BY <2>1, <2>2, <2>3, <2>4 DEF b
<1>7. ASSUME NEW i \in 1..k
      PROVE  /\ Frames(buf)[i] = WholeFrame(at + i)
             /\ Frames(buf)[i] \in M \X M
  <2> DEFINE base == (i - 1) * Frame + 1
  <2>1. Frames(buf)[i] = <<buf[base], IF channels > 1 THEN buf[base + 2] ELSE buf[base]>>
    BY DEF Frames, k
  <2>2. /\ base \in 1..L /\ (channels > 1 => base + 2 \in 1..L)
        /\ buf[base] = (at + i - 1) * Frame
        /\ (channels > 1 => buf[base + 2] = (at + i - 1) * Frame + 2)
    BY <1>6
  <2> HIDE DEF base, M
  <2>3. buf[base] \in M /\ (channels > 1 => buf[base + 2] \in M)
    <3>1. \A j \in 1..L : buf[j] \in M
      BY <1>m
    <3> QED
      BY <2>2, <3>1
  <2>4. channels = 1 <=> ~(channels > 1)
    BY <1>1
  <2>5. Frames(buf)[i] = WholeFrame(at + i)
    BY <2>1, <2>2, <2>4 DEF WholeFrame
  <2> QED
    BY <2>1, <2>3, <2>5
<1>8. Len(Frames(buf)) = k /\ Frames(buf) \in Seq(M \X M)
  <2>1. Frames(buf) = [i \in 1..k |-> Frames(buf)[i]]
    BY DEF Frames, k
  <2>2. Frames(buf) \in [1..k -> M \X M]
    BY <1>7, <2>1
  <2> QED
    BY <1>3, <2>1, <2>2
<1>9. Kept(buf) = SubSeq(buf, k * Frame + 1, L)
  <2>1. L - (L % Frame) + 1 = k * Frame + 1
    BY <1>2, <1>3, <1>4
  <2> QED
    BY <2>1 DEF Kept
<1>10. /\ Kept(buf) \in Seq(M) /\ Len(Kept(buf)) = rest
       /\ \A i \in 1..rest : Kept(buf)[i] = buf[k * Frame + i]
  <2> DEFINE c == k * Frame
  <2>1. c \in 0..L /\ rest = L - c
    <3>1. 0 * Frame <= c /\ 0 * Frame = 0
      BY <1>1, <1>3, Multiples
    <3> QED
      BY <1>2, <1>3, <1>4, <3>1
  <2>2. Kept(buf) = SubSeq(buf, c + 1, L)
    BY <1>9
  <2> HIDE DEF c, rest
  <2>3. /\ Kept(buf) \in Seq(M) /\ Len(Kept(buf)) = L - c
        /\ \A i \in 1..(L - c) : Kept(buf)[i] = buf[c + i]
    <3> DEFINE first == c + 1
               sub == SubSeq(buf, first, L)
    <3>1. /\ \A j \in first..L : buf[j] \in M
          /\ first \in Int /\ L \in Int
      BY <1>2, <1>m, <2>1
    <3> HIDE DEF M, L, first
    <3>2. /\ sub \in Seq(M) /\ Len(sub) = IF first <= L THEN L - first + 1 ELSE 0
          /\ \A j \in 1..(L - first + 1) : sub[j] = buf[first + j - 1]
      BY ONLY <3>1, SubSeqProperties DEF sub
    <3> HIDE DEF sub
    <3>3. \A j \in 1..(L - c) : first + j - 1 = c + j /\ j \in 1..(L - first + 1)
      BY <1>2, <2>1 DEF first
    <3>4. Len(sub) = L - c
      BY <1>2, <2>1, <3>2 DEF first
    <3>5. \A j \in 1..(L - c) : sub[j] = buf[c + j]
      BY <3>2, <3>3, Zenon
    <3>6. Kept(buf) = sub
      BY <2>2 DEF sub, first, L
    <3> QED
      BY <3>2, <3>4, <3>5, <3>6
  <2> QED
    BY <2>1, <2>3 DEF c
<1>11. ASSUME NEW i \in 1..rest
       PROVE  Kept(buf)[i] = (at + k) * Frame + (i - 1)
  <2> DEFINE c == k * Frame
  <2>1. Kept(buf)[i] = buf[c + i]
    BY <1>10
  <2>2. c + i \in 1..L
    <3>1. 0 * Frame <= c /\ 0 * Frame = 0
      BY <1>1, <1>3, Multiples
    <3> QED
      BY <1>2, <1>3, <1>4, <1>5, <3>1
  <2>3. buf[c + i] = a + (c + i - 1)
    <3> HIDE DEF a, c
    <3>1. \A j \in 1..L : buf[j] = a + (j - 1)
      BY DEF a
    <3>2. c \in Int
      BY <1>4 DEF c
    <3> QED
      BY <2>2, <3>1, <3>2
  <2>4. c \in Int /\ (at + k) * Frame = a + c
    BY <1>4
  <2> HIDE DEF c, a
  <2>5. a \in Int
    BY <1>4
  <2> QED
    BY <1>5, <2>1, <2>3, <2>4, <2>5
<1> QED
  BY <1>3, <1>5, <1>7, <1>8, <1>10, <1>11 DEF k

-----------------------------------------------------------------------------
(* Every step keeps the invariant. *)

\* A call that reads streams whole frames, from where the last one ended.
LEMMA FramesStep ==
    ASSUME IInv, NEW len \in Nat, StreamFrames(len)
    PROVE  IInv'
<1> DEFINE buf == Buf(len)
           k == Len(buf) \div Frame
           rest == Len(buf) - k * Frame
           P == 0..(MaxTotal - 1)
           m == Len(out)
<1>1. /\ len \in Nat \ {0} /\ Supported /\ ~done
      /\ UNCHANGED <<inputVars, closed>>
      /\ pos' = pos + Got(len) /\ out' = out \o Frames(buf) /\ partial' = Kept(buf)
      /\ err' = Failed(Got(len) < Room(len))
      /\ last' = [len |-> len, ok |-> Len(buf) >= Frame]
      /\ done' = (Got(len) < Room(len) \/ Len(buf) < Frame)
  BY DEF StreamFrames, Room, Got, Buf
<1>2. /\ TypeOK /\ Frame \in Nat \ {0} /\ m \in Nat /\ out \in Seq(P \X P)
      /\ \A i \in 1..m : out[i] = WholeFrame(i)
      /\ Len(partial) \in Nat /\ Len(partial) < Frame
  BY <1>1, FrameIs DEF IInv, TypeOK, CutInv
<1>3. /\ Got(len) \in Nat /\ Room(len) \in Nat /\ pos + Got(len) \in 0..total
      /\ Got(len) <= Room(len) /\ (Got(len) < Room(len) => pos + Got(len) = total)
      /\ buf \in Seq(P)
      /\ Len(buf) = Len(partial) + Got(len) /\ Len(buf) \in Nat
      /\ pos + Got(len) = m * Frame + Len(buf)
      /\ \A i \in 1..Len(buf) : buf[i] = m * Frame + (i - 1)
  BY <1>1, BufferIs
<1>4. /\ k \in Nat /\ rest \in Nat /\ rest < Frame
      /\ Len(Frames(buf)) = k /\ Frames(buf) \in Seq(P \X P)
      /\ \A i \in 1..k : Frames(buf)[i] = WholeFrame(m + i)
      /\ Kept(buf) \in Seq(P) /\ Len(Kept(buf)) = rest
      /\ \A i \in 1..rest : Kept(buf)[i] = (m + k) * Frame + (i - 1)
  <2> HIDE DEF buf
  <2> QED
    BY <1>1, <1>2, <1>3, CutIs
<1>5. /\ Len(buf) = k * Frame + rest /\ k * Frame \in Nat /\ m * Frame \in Nat
      /\ (m + k) * Frame = m * Frame + k * Frame
  <2> HIDE DEF buf, k, m
  <2>1. k * Frame \in Int /\ m * Frame \in Int /\ (m + k) * Frame = m * Frame + k * Frame
        /\ 0 * Frame <= k * Frame /\ 0 * Frame <= m * Frame /\ 0 * Frame = 0
    <3>1. /\ Frame \in Nat \ {0} /\ m \in Int /\ k \in Int /\ 0 \in Int
          /\ 0 <= k /\ 0 <= m
      BY <1>2, <1>4
    <3> HIDE DEF rest
    <3> QED
      BY <3>1, Multiples
  <2> DEFINE c == k * Frame
  <2>2. c \in Int /\ rest = Len(buf) - c
    BY <2>1
  <2> HIDE DEF c, rest
  <2>3. Len(buf) = c + rest
    BY <1>3, <1>4, <2>2
  <2> QED
    BY <2>1, <2>3 DEF c
<1> HIDE DEF buf, k, rest, m
<1>6. Frame' = Frame /\ (\A i : WholeFrame(i)' = WholeFrame(i)) /\ Supported'
  BY <1>1 DEF Frame, WholeFrame, Supported, inputVars
<1>7. /\ out' \in Seq(P \X P) /\ Len(out') = m + k
      /\ \A i \in 1..(m + k) : out'[i] = WholeFrame(i)
  <2>1. /\ out' \in Seq(P \X P) /\ Len(out') = m + k
        /\ \A i \in 1..(m + k) : out'[i] = IF i <= m THEN out[i] ELSE Frames(buf)[i - m]
    <3> DEFINE fs == Frames(buf)
               PP == P \X P
    <3>1. fs \in Seq(PP) /\ out \in Seq(PP) /\ Len(fs) = k /\ Len(out) = m
          /\ out' = out \o fs
      BY <1>1, <1>2, <1>4 DEF m
    <3> HIDE DEF fs, PP
    <3>2. /\ out \o fs \in Seq(PP) /\ Len(out \o fs) = Len(out) + Len(fs)
          /\ \A i \in 1..(Len(out) + Len(fs)) :
                (out \o fs)[i] = IF i <= Len(out) THEN out[i] ELSE fs[i - Len(out)]
      BY <3>1, ConcatProperties, Zenon
    <3> QED
      BY <3>1, <3>2, Zenon DEF fs, PP
  <2>2. ASSUME NEW i \in 1..(m + k) PROVE out'[i] = WholeFrame(i)
    <3>1. CASE i <= m
      <4>1. i \in 1..m /\ out'[i] = out[i]
        BY <1>2, <1>4, <2>1, <3>1
      <4> QED
        BY <1>2, <4>1
    <3>2. CASE i > m
      <4>1. i - m \in 1..k /\ out'[i] = Frames(buf)[i - m] /\ m + (i - m) = i
        BY <1>2, <1>4, <2>1, <3>2
      <4> QED
        BY <1>4, <4>1
    <3> QED
      BY <1>2, <1>4, <3>1, <3>2
  <2> QED
    BY <2>1, <2>2
<1>8. partial' \in Seq(P) /\ Len(partial') = rest
      /\ \A i \in 1..rest : partial'[i] = (m + k) * Frame + (i - 1)
  BY <1>1, <1>4
<1>9. pos' = (m + k) * Frame + rest
  <2> DEFINE a == m * Frame
             b == k * Frame
  <2>1. /\ a \in Nat /\ b \in Nat /\ (m + k) * Frame = a + b
        /\ pos' = a + Len(buf) /\ Len(buf) = b + rest
    BY <1>1, <1>3, <1>5
  <2> HIDE DEF a, b
  <2>2. pos' = (a + b) + rest
    BY <1>4, <2>1
  <2> QED
    BY <2>1, <2>2
<1>10. Got(len) = Room(len) => Len(buf) = len * Frame /\ Len(buf) >= Frame /\ rest = 0
  <2> DEFINE r == len * Frame
  <2>1. r \in Int /\ 1 * Frame <= r /\ 1 * Frame = Frame
    BY <1>1, <1>2, Multiples
  <2>2. Room(len) = r - Len(partial)
    BY DEF Room
  <2> HIDE DEF r
  <2>3. Got(len) = Room(len) => Len(buf) = r
    BY <1>2, <1>3, <2>1, <2>2
  <2>4. Len(buf) = r => rest = 0
    <3> SUFFICES ASSUME Len(buf) = r PROVE rest = 0
      OBVIOUS
    <3>1. len * Frame <= Len(buf) /\ Len(buf) < len * Frame + Frame
      BY <1>2, <2>1 DEF r
    <3>2. k = len
      <4> DEFINE x == Len(buf)
      <4>1. /\ x \in Nat /\ Frame \in Nat \ {0} /\ len \in Int
            /\ len * Frame <= x /\ x < len * Frame + Frame
        BY <1>1, <1>2, <1>3, <3>1
      <4> HIDE DEF x
      <4>2. x \div Frame = len
        BY ONLY <4>1, DivUnique
      <4> QED
        BY <4>2 DEF k, x
    <3>3. Len(buf) = Len(buf) + rest
      BY <1>5, <3>2 DEF r
    <3> QED
      BY <1>3, <1>4, <3>3
  <2> QED
    BY <2>1, <2>3, <2>4 DEF r
<1>11. done' = (Got(len) < Room(len))
  <2>1. Len(buf) < Frame => Got(len) < Room(len)
    BY <1>2, <1>3, <1>10
  <2> QED
    BY <1>1, <2>1
<1>12. TypeOK'
  <2>1. /\ total' \in 0..MaxTotal /\ channels' \in ChannelCounts
        /\ sampleSize' \in SampleSizes /\ pos' \in 0..total'
    BY <1>1, <1>2, <1>3 DEF TypeOK, inputVars
  <2>2. partial' \in Seq(P) /\ Len(partial') < Frame' /\ out' \in Seq(P \X P)
    BY <1>4, <1>6, <1>7, <1>8
  <2>3. ending' \in Endings /\ err' \in BOOLEAN /\ done' \in BOOLEAN /\ closed' \in BOOLEAN
    BY <1>1, <1>2, <1>11 DEF TypeOK, Failed, inputVars
  <2>4. last' \in [len : Nat, ok : BOOLEAN]
    <3>1. (Len(buf) >= Frame) \in BOOLEAN
      OBVIOUS
    <3> QED
      BY <1>1, <3>1
  <2> QED
    BY <2>1, <2>2, <2>3, <2>4 DEF TypeOK
<1>13. CutInv'
  BY <1>6, <1>7, <1>8, <1>9 DEF CutInv
<1>14. EndInv'
  <2>1. Len(partial') > 0 => done'
    <3>1. /\ Got(len) \in Nat /\ Room(len) \in Nat /\ Got(len) <= Room(len)
          /\ Len(partial') = rest /\ (Got(len) = Room(len) => rest = 0)
      BY <1>3, <1>8, <1>10
    <3>2. Len(partial') > 0 => Got(len) < Room(len)
      BY <3>1
    <3> QED
      BY <1>11, <3>2, Zenon
  <2>2. done' => pos' = total' /\ (err' <=> ending' = "error")
    <3> SUFFICES ASSUME done' PROVE pos' = total' /\ (err' <=> ending' = "error")
      OBVIOUS
    <3>1. pos' = total' /\ Got(len) < Room(len)
      BY <1>1, <1>3, <1>11 DEF inputVars
    <3>2. (err' <=> ending = "error") /\ ending' = ending
      <4>1. err' = Failed(Got(len) < Room(len)) /\ ending' = ending /\ ending \in Endings
        BY <1>1, <1>2 DEF inputVars, TypeOK
      <4>2. Failed(Got(len) < Room(len)) <=> ending = "error"
        BY <3>1, <4>1 DEF Failed, Endings
      <4> QED
        BY <4>1, <4>2
    <3> QED
      BY <3>1, <3>2
  <2>3. ~last'.ok => done'
    <3>1. last'.ok = (Len(buf) >= Frame)
      BY <1>1
    <3>2. ~(Len(buf) >= Frame) => Got(len) < Room(len)
      BY <1>2, <1>3, <1>10
    <3> QED
      BY <1>11, <3>1, <3>2
  <2> QED
    BY <2>1, <2>2, <2>3 DEF EndInv
<1> QED
  BY <1>12, <1>13, <1>14 DEF IInv

\* The invariant holds at the start.
LEMMA InitInv == Init => IInv
<1> SUFFICES ASSUME Init PROVE IInv
  OBVIOUS
<1>1. /\ <<>> \in Seq(0..(MaxTotal - 1)) /\ Len(<<>>) = 0
      /\ <<>> \in Seq((0..(MaxTotal - 1)) \X (0..(MaxTotal - 1)))
  BY EmptySeq
<1>2. TypeOK
  <2>1. pos \in 0..total /\ total \in 0..MaxTotal
    BY StreamerAssumption DEF Init
  <2>2. Supported => Len(partial) < Frame
    BY <1>1, StreamerAssumption DEF Init, Supported, Frame
  <2>3. last \in [len : Nat, ok : BOOLEAN]
    BY DEF Init
  <2>4. /\ channels \in ChannelCounts /\ sampleSize \in SampleSizes
        /\ partial \in Seq(0..(MaxTotal - 1))
        /\ out \in Seq((0..(MaxTotal - 1)) \X (0..(MaxTotal - 1)))
    BY <1>1 DEF Init
  <2>5. ending \in Endings /\ err \in BOOLEAN /\ done \in BOOLEAN /\ closed \in BOOLEAN
    BY DEF Init
  <2> QED
    BY <2>1, <2>2, <2>3, <2>4, <2>5 DEF TypeOK
<1>3. CutInv
  <2>1. Supported => 0 * Frame = 0
    BY <1>2, FrameIs, Multiples
  <2> QED
    BY <1>1, <2>1 DEF Init, CutInv
<1>4. EndInv
  BY <1>1 DEF Init, EndInv
<1> QED
  BY <1>2, <1>3, <1>4 DEF IInv

\* Every step keeps it.
LEMMA NextInv == IInv /\ [Next]_vars => IInv'
<1> SUFFICES ASSUME IInv, [Next]_vars PROVE IInv'
  OBVIOUS
<1>1. ASSUME UNCHANGED <<inputVars, pos, partial, out>>
      PROVE  CutInv' /\ (Supported' <=> Supported)
  BY <1>1 DEF IInv, CutInv, WholeFrame, Frame, Supported, inputVars
<1>2. ASSUME UNCHANGED <<inputVars, pos, partial, out>>, err' \in BOOLEAN, done' \in BOOLEAN,
             last' \in [len : Nat, ok : BOOLEAN], closed' \in BOOLEAN
      PROVE  TypeOK'
  BY <1>2 DEF IInv, TypeOK, Frame, Supported, inputVars
<1>3. ASSUME NEW len \in Nat, StreamNothing(len)
      PROVE  IInv'
  <2>1. /\ UNCHANGED <<inputVars, pos, partial, err, done, out, closed>>
        /\ last' = [len |-> len, ok |-> FALSE] /\ (done \/ len = 0)
    BY <1>3 DEF StreamNothing
  <2>2. TypeOK'
    BY <1>2, <2>1 DEF IInv, TypeOK
  <2>3. EndInv'
    BY <1>1, <2>1 DEF IInv, EndInv, inputVars
  <2> QED
    BY <1>1, <2>1, <2>2, <2>3 DEF IInv
<1>4. ASSUME NEW len \in Nat, StreamUnsupported(len)
      PROVE  IInv'
  <2>1. /\ UNCHANGED <<inputVars, pos, partial, out, closed>> /\ ~Supported
        /\ last' = [len |-> len, ok |-> FALSE] /\ err' = TRUE /\ done' = TRUE
    BY <1>4 DEF StreamUnsupported
  <2>2. TypeOK'
    BY <1>2, <2>1 DEF IInv, TypeOK
  <2>3. EndInv'
    BY <1>1, <2>1 DEF EndInv
  <2> QED
    BY <1>1, <2>1, <2>2, <2>3 DEF IInv
<1>5. CASE Close
  <2>1. /\ UNCHANGED <<inputVars, pos, partial, err, out, last>>
        /\ done' = TRUE /\ closed' = TRUE
    BY <1>5 DEF Close
  <2>2. TypeOK'
    BY <1>2, <2>1 DEF IInv, TypeOK
  <2>3. EndInv'
    BY <2>1 DEF EndInv
  <2> QED
    BY <1>1, <2>1, <2>2, <2>3 DEF IInv
<1>6. CASE UNCHANGED vars
  <2>1. UNCHANGED <<inputVars, pos, partial, err, done, out, last, closed>>
    BY <1>6 DEF vars
  <2>2. TypeOK'
    BY <1>2, <2>1 DEF IInv, TypeOK
  <2>3. EndInv'
    BY <1>1, <2>1 DEF IInv, EndInv, inputVars
  <2> QED
    BY <1>1, <2>1, <2>2, <2>3 DEF IInv
<1>7. Lens \subseteq Nat
  BY StreamerAssumption
<1> QED
  BY <1>3, <1>4, <1>5, <1>6, <1>7, FramesStep DEF Next, Stream

-----------------------------------------------------------------------------
(* The theorems. *)

\* What was streamed, is left over and was read fit together between any two
\* calls.
THEOREM Invariance == Spec => []IInv
  BY InitInv, NextInv, PTL DEF Spec

\* Every byte that was read is in a frame or in the truncated one that ends the
\* audio.
THEOREM BytesAreConserved == Spec => []BytesConserved
<1>1. IInv => BytesConserved
  <2> SUFFICES ASSUME IInv PROVE BytesConserved
    OBVIOUS
  <2>1. partial # <<>> => Len(partial) > 0
    BY EmptySeq DEF IInv, TypeOK
  <2> QED
    BY <2>1 DEF IInv, CutInv, EndInv, BytesConserved
<1> QED
  BY <1>1, Invariance, PTL

\* There are as many frames in the whole PCM as were streamed, or more, and when
\* all was read as many.
LEMMA WholeIs ==
    ASSUME IInv, Supported
    PROVE  /\ Len(Whole) \in Nat /\ Len(out) <= Len(Whole)
           /\ pos = total => Len(out) = Len(Whole)
           /\ Whole = [i \in 1..Len(Whole) |-> WholeFrame(i)]
           /\ out = [i \in 1..Len(out) |-> WholeFrame(i)]
<1> DEFINE n == total \div Frame
           m == Len(out)
           c == m * Frame
<1>1. /\ Frame \in Nat \ {0} /\ total \in Nat /\ pos \in 0..total /\ m \in Nat
      /\ Len(partial) \in Nat /\ Len(partial) < Frame /\ pos = c + Len(partial)
      /\ \A i \in 1..m : out[i] = WholeFrame(i)
      /\ out = [i \in 1..m |-> out[i]]
  BY FrameIs, StreamerAssumption DEF IInv, TypeOK, CutInv
<1>2. n \in Nat /\ n * Frame <= total /\ total < n * Frame + Frame
  BY <1>1, DivBounds
<1>3. Whole = [i \in 1..n |-> WholeFrame(i)]
  BY DEF Whole, WholeFrame
<1> HIDE DEF n
<1>4. Len(Whole) = n
  BY <1>2, <1>3
<1> HIDE DEF m
<1>5. /\ c \in Int /\ n * Frame \in Int /\ (n + 1) * Frame = n * Frame + Frame
      /\ c < (n + 1) * Frame => m < n + 1
  <2>1. Frame \in Nat \ {0} /\ m \in Int /\ n \in Int /\ n + 1 \in Int
    BY <1>1, <1>2
  <2> QED
    BY ONLY <2>1, Multiples
<1>6. m <= n
  <2> DEFINE e == n * Frame
  <2>1. total < e + Frame /\ e \in Int /\ (n + 1) * Frame = e + Frame
    BY <1>2, <1>5
  <2> HIDE DEF c, e
  <2>2. c < e + Frame
    BY <1>1, <1>5, <2>1
  <2> QED
    BY <1>1, <1>2, <1>5, <2>1, <2>2
<1>7. pos = total => m = n
  <2> SUFFICES ASSUME pos = total PROVE m = n
    OBVIOUS
  <2>1. c <= total /\ total < c + Frame
    <3> HIDE DEF c
    <3> QED
      BY <1>1, <1>5
  <2> QED
    BY <1>1, <2>1, DivUnique DEF n
<1> QED
  BY <1>1, <1>2, <1>3, <1>4, <1>6, <1>7 DEF m

\* Whatever the sizes of the calls, what is streamed are the frames of the PCM
\* in order, none cut across two calls and none left out.
THEOREM FramesAreInOrder == Spec => []FramesInOrder
<1>1. IInv => FramesInOrder
  <2> SUFFICES ASSUME IInv, Supported PROVE IsPrefix(out, Whole)
    BY DEF FramesInOrder
  <2> DEFINE m == Len(out)
             w == Len(Whole)
  <2>1. /\ w \in Nat /\ m <= w /\ m \in Nat
        /\ Whole = [i \in 1..w |-> WholeFrame(i)] /\ out = [i \in 1..m |-> WholeFrame(i)]
    <3>1. m \in Nat
      BY DEF IInv, TypeOK
    <3> QED
      BY <3>1, WholeIs, Zenon
  <2> HIDE DEF m, w
  <2>2. SubSeq(out, 1, m) = [i \in 1..m |-> out[1 + i - 1]]
    BY <2>1
  <2>3. SubSeq(Whole, 1, m) = [i \in 1..m |-> Whole[1 + i - 1]]
    BY <2>1
  <2>4. \A i \in 1..m : out[1 + i - 1] = WholeFrame(i) /\ Whole[1 + i - 1] = WholeFrame(i)
    <3> SUFFICES ASSUME NEW i \in 1..m
                 PROVE  out[1 + i - 1] = WholeFrame(i) /\ Whole[1 + i - 1] = WholeFrame(i)
      OBVIOUS
    <3>1. 1 + i - 1 = i /\ i \in 1..w
      BY <2>1
    <3> QED
      BY <2>1, <3>1
  <2>5. SubSeq(out, 1, m) = SubSeq(Whole, 1, m)
    BY <2>2, <2>3, <2>4
  <2> QED
    BY <2>1, <2>5 DEF IsPrefix, m, w
<1> QED
  BY <1>1, Invariance, PTL

\* Streaming ends by itself only after every whole frame, and Err tells a
\* reader that failed from audio that ended.
THEOREM EndIsComplete == Spec => []EndsComplete
<1>1. IInv => EndsComplete
  <2> SUFFICES ASSUME IInv, Supported, ~closed, done \/ (last.len > 0 /\ ~last.ok)
               PROVE  out = Whole /\ (err <=> ending = "error")
    BY DEF EndsComplete
  <2>1. pos = total /\ (err <=> ending = "error")
    BY DEF IInv, EndInv
  <2> QED
    BY <2>1, WholeIs
<1> QED
  BY <1>1, Invariance, PTL
=============================================================================
