-------------------------- MODULE AudioToolboxProofs --------------------------
(***************************************************************************)
(* Proofs about module AudioToolbox, for files and buffers of any length,  *)
(* packets of any size that decode to any number of PCM packets, any       *)
(* number of descriptions and any requests of the converter: the inductive *)
(* invariant IInv and the safety properties.                               *)
(***************************************************************************)
EXTENDS AudioToolbox, SequenceTheorems, TLAPS

\* The order in which decode acquires what it does.
Acquired == <<"data", "file", "converter", "context">>

\* How much of it decode has, by how far it has come.
Taken ==
    CASE pc \in {"open", "returned"} -> 0
      [] pc \in {"format", "converter"} -> 2
      [] pc \in {"cookieSize", "cookie", "setCookie", "maxPacket", "context"} -> 3
      [] pc \in {"fill", "convert", "crashed"} -> 4
      [] OTHER -> Len(deferred)

\* What is live is what the deferred calls will give back, in the order in
\* which it was acquired.
LiveInv ==
    /\ Len(deferred) = Taken /\ Len(deferred) \in 0..4
    /\ \A i \in 1..Len(deferred) : deferred[i] = Acquired[i]
    /\ \A i \in 1..4 : Acquired[i] \in live <=> i <= Len(deferred)

\* The number that PCM packet j of the whole audio carries.
Unit(j) == ((j - 1) \div perPacket) + 1

\* PCM packets that the converter has put into a buffer.
Buffered == Len(out) + (IF pc = "convert" THEN Len(filled) ELSE 0)

\* What is collected, what is in the buffer and what the converter holds are,
\* one after the other, the PCM of the packets read so far.
PcmInv ==
    /\ \A j \in 1..Len(out) : out[j] = Unit(j)
    /\ pc = "convert" => \A j \in 1..Len(filled) : filled[j] = Unit(Len(out) + j)
    /\ pc \in Steps =>
          /\ \A j \in 1..Len(held) : held[j] = Unit(Buffered + j)
          /\ Buffered + Len(held) = nextPacket * perPacket
    /\ ended => nextPacket = Packets(len)
    /\ result # "none" => pc \in {"return", "returned"}
    /\ result = "pcm" => Len(out) = Packets(len) * perPacket

IInv == TypeOK /\ LiveInv /\ PcmInv /\ SliceInBounds

-----------------------------------------------------------------------------
(* Arithmetic. *)

\* Division with a remainder.
LEMMA DivBounds ==
    ASSUME NEW p \in Nat \ {0}, NEW x \in Int
    PROVE  x \div p \in Int /\ (x \div p) * p <= x /\ x < (x \div p) * p + p
  OBVIOUS

\* Multiplication by a positive number.
LEMMA Multiples ==
    ASSUME NEW p \in Nat \ {0}, NEW a \in Int, NEW b \in Int
    PROVE  /\ a * p \in Int /\ (a + 1) * p = a * p + p /\ (a + b) * p = a * p + b * p
           /\ a <= b => a * p <= b * p
           /\ a * p < b * p => a < b
  OBVIOUS

\* The quotient is the one number with that remainder.
LEMMA DivUnique ==
    ASSUME NEW p \in Nat \ {0}, NEW x \in Int, NEW q \in Int,
           q * p <= x, x < q * p + p
    PROVE  x \div p = q
<1> DEFINE r == x \div p
<1>1. r \in Int /\ r * p <= x /\ x < r * p + p
  BY DivBounds
<1> HIDE DEF r
<1>2. /\ r * p \in Int /\ q * p \in Int
      /\ (r + 1) * p = r * p + p /\ (q + 1) * p = q * p + p
      /\ r * p < (q + 1) * p => r < q + 1
      /\ q * p < (r + 1) * p => q < r + 1
  BY <1>1, Multiples
<1>3. r < q + 1 /\ q < r + 1
  BY <1>1, <1>2
<1> QED
  BY <1>1, <1>3 DEF r

\* Whole multiples can be taken out of a quotient.
LEMMA DivShift ==
    ASSUME NEW p \in Nat \ {0}, NEW a \in Int, NEW x \in Int
    PROVE  (a * p + x) \div p = a + (x \div p)
<1> DEFINE q == x \div p
<1>1. q \in Int /\ q * p <= x /\ x < q * p + p
  BY DivBounds
<1> HIDE DEF q
<1>2. a * p \in Int /\ q * p \in Int /\ (a + q) * p = a * p + q * p
  BY <1>1, Multiples
<1>3. (a + q) * p <= a * p + x /\ a * p + x < (a + q) * p + p
  BY <1>1, <1>2
<1>4. (a * p + x) \div p = a + q
  BY <1>1, <1>2, <1>3, DivUnique
<1> QED
  BY <1>4 DEF q

\* A function on 1..n is a sequence.
LEMMA FunctionIsSeq ==
    ASSUME NEW S, NEW n \in Nat, NEW f, f = [j \in 1..n |-> f[j]],
           \A j \in 1..n : f[j] \in S
    PROVE  f \in Seq(S) /\ Len(f) = n
<1>1. f \in [1..n -> S]
  OBVIOUS
<1> QED
  BY <1>1

-----------------------------------------------------------------------------
(* The callbacks. *)

\* The slice that a read copies is one of the buffer.
LEMMA SliceIsOne ==
    ASSUME NEW l \in Nat, NEW p \in Int, NEW n \in Nat
    PROVE  /\ First(l, p) \in 0..l /\ Past(l, p, n) \in 0..l
           /\ First(l, p) <= Past(l, p, n)
           /\ 0 <= p /\ p <= l => /\ First(l, p) = p
                                  /\ Past(l, p, n) <= p + n
  BY DEF First, Past, Lesser

\* A read of n packets copies packets of the file, as many at most, from
\* nextPacket on.
LEMMA PacketsReadAre ==
    ASSUME TypeOK, NEW n \in Nat \ {0}
    PROVE  LET got == PacketsRead(n) IN
           /\ got \in Seq(1..Packets(len)) /\ Len(got) \in 0..n
           /\ nextPacket + Len(got) <= Packets(len)
           /\ \A i \in 1..Len(got) : got[i] = nextPacket + i
<1> DEFINE B == PacketBytes
           at == nextPacket * B
           bytes == Piece(len, at, n * B)
           m == Past(len, at, n * B) - at
           k == m \div B
           got == PacketsRead(n)
<1>1. len \in Nat /\ B \in Nat \ {0} /\ nextPacket \in Nat /\ nextPacket <= len \div B
      /\ len \div B \in Int /\ (len \div B) * B <= len
  BY ToolboxAssumption, DivBounds DEF TypeOK, Packets
<1>2. at \in Nat /\ n * B \in Nat /\ at <= len
  <2>1. at <= (len \div B) * B /\ (len \div B) * B \in Int /\ at \in Int
    BY <1>1, Multiples
  <2>2. 0 * B <= at /\ 0 * B <= n * B /\ n * B \in Int
    BY <1>1, Multiples
  <2> QED
    BY <1>1, <2>1, <2>2
<1> HIDE DEF B, at
<1>3. /\ First(len, at) = at /\ Past(len, at, n * B) \in 0..len
      /\ at <= Past(len, at, n * B) /\ Past(len, at, n * B) <= at + n * B
  <2> DEFINE c == n * B
  <2>1. c \in Nat
    BY <1>2
  <2> HIDE DEF c
  <2>2. /\ First(len, at) <= Past(len, at, c)
        /\ 0 <= at /\ at <= len => /\ First(len, at) = at
                                  /\ Past(len, at, c) <= at + c
        /\ Past(len, at, c) \in 0..len
    <3>1. len \in Nat /\ at \in Int /\ c \in Nat
      BY <1>1, <1>2, <2>1
    <3> QED
      BY ONLY <3>1, SliceIsOne
  <2>3. 0 <= at /\ at <= len
    BY <1>1, <1>2
  <2> QED
    BY <2>2, <2>3 DEF c
<1>4. bytes = [i \in 1..m |-> at + i - 1] /\ m \in Nat
  BY <1>1, <1>2, <1>3 DEF Piece
<1>5. Len(bytes) = m
  BY <1>4
<1>6. m <= n * B /\ at + m <= len
  BY <1>1, <1>2, <1>3
<1> HIDE DEF m, bytes
<1>7. k \in Int /\ k * B <= m /\ m < k * B + B
  BY <1>1, <1>4, DivBounds
<1> HIDE DEF k
<1>8. /\ k * B \in Int /\ (k + 1) * B = k * B + B /\ n * B \in Int
      /\ k * B < (n + 1) * B => k < n + 1
      /\ (n + 1) * B = n * B + B
      /\ 0 * B < (k + 1) * B => 0 < k + 1
      /\ 0 * B = 0
  BY <1>1, <1>7, Multiples
<1>9. k \in 0..n
  BY <1>1, <1>4, <1>6, <1>7, <1>8
<1>10. nextPacket + k <= len \div B
  <2> DEFINE L == len \div B
  <2>1. L \in Int /\ len < L * B + B
    BY <1>1, DivBounds
  <2> HIDE DEF L
  <2>2. /\ (nextPacket + k) * B = nextPacket * B + k * B /\ (L + 1) * B = L * B + B
        /\ (nextPacket + k) * B < (L + 1) * B => nextPacket + k < L + 1
        /\ L * B \in Int
    BY <1>1, <1>7, <2>1, Multiples
  <2>3. at + k * B <= len
    BY <1>1, <1>2, <1>4, <1>6, <1>7, <1>8
  <2>4. nextPacket + k < L + 1
    BY <1>1, <1>2, <1>8, <2>1, <2>2, <2>3 DEF at
  <2> QED
    BY <1>1, <1>9, <2>1, <2>4 DEF L
<1>11. got = [i \in 1..k |-> Packets(bytes[i * B]) + 1]
  BY <1>5 DEF PacketsRead, Packets, at, bytes, k, B
<1>12. ASSUME NEW i \in 1..k PROVE Packets(bytes[i * B]) + 1 = nextPacket + i
  <2>1. /\ i * B \in Int /\ i * B <= k * B /\ 1 * B <= i * B /\ 1 * B = B
        /\ ((i - 1) + 1) * B = (i - 1) * B + B /\ (i - 1) * B \in Int
        /\ (nextPacket + (i - 1)) * B = nextPacket * B + (i - 1) * B
    BY <1>1, <1>7, Multiples
  <2>2. i * B \in 1..m /\ bytes[i * B] = at + i * B - 1
    BY <1>1, <1>2, <1>4, <1>7, <1>8, <2>1
  <2>3. (i - 1) + 1 = i
    OBVIOUS
  <2>4. /\ (nextPacket + (i - 1)) * B <= at + i * B - 1
        /\ at + i * B - 1 < (nextPacket + (i - 1)) * B + B
    BY <1>1, <1>2, <2>1, <2>3 DEF at
  <2>5. (at + i * B - 1) \div B = nextPacket + (i - 1)
    <3> DEFINE x == at + i * B - 1
               q == nextPacket + (i - 1)
    <3>1. x \in Int /\ q \in Int /\ q * B <= x /\ x < q * B + B
      BY <1>1, <1>2, <2>1, <2>4
    <3> HIDE DEF x, q
    <3>2. x \div B = q
      BY <1>1, <3>1, DivUnique
    <3> QED
      BY <3>2 DEF x, q
  <2> QED
    BY <1>1, <2>2, <2>5 DEF Packets, B
<1>13. /\ Len(got) = k /\ \A i \in 1..k : got[i] = nextPacket + i
  BY <1>9, <1>11, <1>12
<1>14. got \in Seq(1..Packets(len))
  <2>1. \A i \in 1..k : nextPacket + i \in 1..Packets(len)
    BY <1>1, <1>9, <1>10 DEF Packets, B
  <2>2. got = [i \in 1..k |-> nextPacket + i]
    BY <1>11, <1>12
  <2> QED
    BY <1>9, <2>1, <2>2
<1> QED
  BY <1>9, <1>10, <1>13, <1>14 DEF Packets, B

-----------------------------------------------------------------------------
(* Every step keeps the invariant. *)

\* A stack without its last element.
LEMMA Popped ==
    ASSUME NEW S, NEW s \in Seq(S), Len(s) > 0
    PROVE  /\ SubSeq(s, 1, Len(s) - 1) \in Seq(S)
           /\ Len(SubSeq(s, 1, Len(s) - 1)) = Len(s) - 1
           /\ \A i \in 1..(Len(s) - 1) : SubSeq(s, 1, Len(s) - 1)[i] = s[i]
<1> DEFINE m == Len(s) - 1
<1>1. m \in Nat /\ \A i \in 1..m : s[i] \in S
  OBVIOUS
<1> HIDE DEF m
<1>2. /\ SubSeq(s, 1, m) \in Seq(S) /\ Len(SubSeq(s, 1, m)) = IF 1 <= m THEN m - 1 + 1 ELSE 0
      /\ \A i \in 1..(m - 1 + 1) : SubSeq(s, 1, m)[i] = s[1 + i - 1]
  BY <1>1, SubSeqProperties
<1>3. Len(SubSeq(s, 1, m)) = m
  BY <1>1, <1>2
<1>4. \A i \in 1..m : SubSeq(s, 1, m)[i] = s[i]
  BY <1>1, <1>2
<1> QED
  BY <1>2, <1>3, <1>4 DEF m

\* What is acquired and given back.
LEMMA LiveStep ==
    ASSUME IInv, Next
    PROVE  LiveInv' /\ live' \subseteq Resources /\ deferred' \in Seq(Resources)
<1>t. LiveInv /\ live \subseteq Resources /\ deferred \in Seq(Resources)
  BY DEF IInv, TypeOK
<1>a. /\ Acquired[1] = "data" /\ Acquired[2] = "file"
      /\ Acquired[3] = "converter" /\ Acquired[4] = "context"
  BY DEF Acquired
<1>l. Len(deferred) \in Nat
  BY <1>t
<1>u. ASSUME UNCHANGED heldVars, Taken' = Taken
      PROVE  LiveInv' /\ live' \subseteq Resources /\ deferred' \in Seq(Resources)
  BY <1>t, <1>u DEF LiveInv, heldVars
<1>1. CASE Open
  <2>1. CASE pc' = "returned" /\ UNCHANGED heldVars
    <3>1. Taken' = 0 /\ Taken = 0
      BY <1>1, <2>1 DEF Open, Taken
    <3> QED
      BY <1>u, <2>1, <3>1
  <2>2. CASE pc' = "format" /\ live' = {"data", "file"} /\ deferred' = Dispose
    <3>1. Taken' = 2
      BY <2>2 DEF Taken
    <3>2. /\ deferred' \in Seq(Resources) /\ Len(deferred') = 2
          /\ deferred'[1] = "data" /\ deferred'[2] = "file"
      BY <2>2 DEF Dispose, Resources
    <3> QED
      BY <1>a, <2>2, <3>1, <3>2 DEF LiveInv, Resources
  <2> QED
    BY <1>1, <2>1, <2>2 DEF Open
<1>2. CASE SetUp
  <2>1. /\ pc \in DOMAIN After /\ pc' \in After[pc]
        /\ \/ pc \in Resources /\ live' = live \cup {pc} /\ deferred' = Append(deferred, pc)
           \/ pc \notin Resources /\ UNCHANGED heldVars
    BY <1>2 DEF SetUp, Defer
  <2>2. \/ pc = "format" /\ pc' = "converter"
        \/ pc = "converter" /\ pc' = "cookieSize"
        \/ /\ pc \in {"cookieSize", "cookie", "setCookie"}
           /\ pc' \in {"cookie", "maxPacket", "setCookie"}
        \/ pc = "maxPacket" /\ pc' = "context"
        \/ pc = "context" /\ pc' = "fill"
    <3>1. /\ DOMAIN After = {"format", "converter", "cookieSize", "cookie", "setCookie",
                             "maxPacket", "context"}
          /\ After["format"] = {"converter"} /\ After["converter"] = {"cookieSize"}
          /\ After["cookieSize"] = {"cookie", "maxPacket"} /\ After["cookie"] = {"setCookie"}
          /\ After["setCookie"] = {"maxPacket"} /\ After["maxPacket"] = {"context"}
          /\ After["context"] = {"fill"}
      BY DEF After
    <3> QED
      BY <2>1, <3>1
  <2>3. CASE pc \notin {"converter", "context"}
    <3>1. UNCHANGED heldVars /\ Taken' = Taken
      BY <2>1, <2>2, <2>3 DEF Resources, Taken
    <3> QED
      BY <1>u, <3>1
  <2>4. CASE pc \in {"converter", "context"}
    <3>1. live' = live \cup {pc} /\ deferred' = Append(deferred, pc) /\ pc \in Resources
      BY <2>1, <2>4 DEF Resources
    <3>2. /\ deferred' \in Seq(Resources) /\ Len(deferred') = Len(deferred) + 1
          /\ \A i \in 1..Len(deferred) : deferred'[i] = deferred[i]
          /\ deferred'[Len(deferred) + 1] = pc
      BY <1>t, <3>1, AppendProperties
    <3>3. Len(deferred) = (IF pc = "converter" THEN 2 ELSE 3) /\ Taken' = Len(deferred) + 1
      <4>1. CASE pc = "converter"
        <5>1. Taken = 2 /\ pc' = "cookieSize"
          BY <2>2, <4>1 DEF Taken
        <5>2. Taken' = 3
          BY <5>1 DEF Taken
        <5> QED
          BY <1>t, <4>1, <5>1, <5>2 DEF LiveInv
      <4>2. CASE pc = "context"
        <5>1. Taken = 3 /\ pc' = "fill"
          BY <2>2, <4>2 DEF Taken
        <5>2. Taken' = 4
          BY <5>1 DEF Taken
        <5> QED
          BY <1>t, <4>2, <5>1, <5>2 DEF LiveInv
      <4> QED
        BY <2>4, <4>1, <4>2
    <3>4. \A i \in 1..Len(deferred') : deferred'[i] = Acquired[i]
      BY <1>t, <1>a, <2>4, <3>2, <3>3 DEF LiveInv
    <3>5. \A i \in 1..4 : Acquired[i] \in live' <=> i <= Len(deferred')
      BY <1>t, <1>a, <2>4, <3>1, <3>2, <3>3 DEF LiveInv
    <3>6. live' \subseteq Resources
      BY <1>t, <3>1
    <3> QED
      BY <3>2, <3>3, <3>4, <3>5, <3>6 DEF LiveInv
  <2> QED
    BY <2>3, <2>4
<1>3. CASE Fail
  <2>1. UNCHANGED heldVars /\ pc' = "return"
    BY <1>3 DEF Fail
  <2>2. Taken' = Len(deferred)
    BY <2>1 DEF Taken, heldVars
  <2> QED
    BY <1>t, <1>u, <2>1, <2>2 DEF LiveInv
<1>4. CASE Fill \/ Convert \/ Collect \/ InputDataProcFails
  <2>1. UNCHANGED heldVars /\ pc \in {"fill", "convert"}
        /\ pc' \in {"fill", "convert", "crashed", "return"}
    BY <1>4 DEF Fill, Convert, Collect, FillReturns, InputDataProcFails, NeedsMore
  <2>2. Len(deferred) = 4 /\ Taken = 4
    BY <1>t, <2>1 DEF LiveInv, Taken
  <2>3. Taken' = 4
    BY <2>1, <2>2 DEF Taken, heldVars
  <2> QED
    BY <1>u, <2>1, <2>2, <2>3
<1>5. CASE Return
  <2> DEFINE n == Len(deferred)
  <2>1. pc = "return"
    BY <1>5 DEF Return
  <2>2. CASE n = 0 /\ pc' = "returned" /\ UNCHANGED heldVars
    <3>1. Taken' = 0 /\ Taken = 0
      BY <2>1, <2>2 DEF Taken
    <3> QED
      BY <1>u, <2>2, <3>1
  <2>3. CASE /\ n > 0 /\ pc' = pc /\ live' = live \ {deferred[n]}
             /\ deferred' = SubSeq(deferred, 1, n - 1)
    <3>1. /\ deferred' \in Seq(Resources) /\ Len(deferred') = n - 1
          /\ \A i \in 1..(n - 1) : deferred'[i] = deferred[i]
      BY <1>t, <2>3, Popped
    <3>2. Taken' = Len(deferred')
      BY <2>1, <2>3 DEF Taken
    <3>3. n \in 1..4 /\ deferred[n] = Acquired[n]
      BY <1>t, <1>l, <2>3 DEF LiveInv
    <3>4. \A i \in 1..Len(deferred') : deferred'[i] = Acquired[i]
      BY <1>t, <3>1, <3>3 DEF LiveInv
    <3>5. \A i \in 1..4 : Acquired[i] \in live' <=> i <= Len(deferred')
      BY <1>t, <1>a, <2>3, <3>1, <3>3 DEF LiveInv
    <3>6. live' \subseteq Resources
      BY <1>t, <2>3
    <3>7. Len(deferred') \in 0..4
      BY <3>1, <3>3
    <3> QED
      BY <3>1, <3>2, <3>4, <3>5, <3>6, <3>7 DEF LiveInv
  <2> QED
    BY <1>5, <2>2, <2>3 DEF Return
<1>6. ASSUME NEW n \in Requests, InputDataProc(n)
      PROVE  LiveInv' /\ live' \subseteq Resources /\ deferred' \in Seq(Resources)
  <2>1. UNCHANGED heldVars /\ pc' = pc
    BY <1>6 DEF InputDataProc
  <2> QED
    BY <1>u, <2>1 DEF Taken, heldVars
<1>7. ASSUME NEW p \in Places, NEW n \in Looks, Look(p, n)
      PROVE  LiveInv' /\ live' \subseteq Resources /\ deferred' \in Seq(Resources)
  <2>1. UNCHANGED heldVars /\ pc' = pc
    BY <1>7 DEF Look
  <2> QED
    BY <1>u, <2>1 DEF Taken, heldVars
<1> QED
  BY <1>1, <1>2, <1>3, <1>4, <1>5, <1>6, <1>7 DEF Next, Decoding

\* What the converter is handed by a read: PCM that goes on where the last
\* ended.
LEMMA ReadEffect ==
    ASSUME TypeOK, NEW n \in Nat \ {0}, ReadPackets(Cap(n))
    PROVE  /\ nextPacket' \in 0..Packets(len) /\ described' \in 0..Descriptions
           /\ held' \in Seq(1..Packets(len))
           /\ nextPacket * perPacket + Len(held') = nextPacket' * perPacket
           /\ \A j \in 1..Len(held') : held'[j] = Unit(nextPacket * perPacket + j)
           /\ ended' \in BOOLEAN /\ (ended' => nextPacket' = Packets(len))
           /\ slice' \in Int \X Int
           /\ 0 <= slice'[1] /\ slice'[1] <= slice'[2] /\ slice'[2] <= len
<1> DEFINE got == PacketsRead(Cap(n))
           g == Len(got)
<1>0. /\ len \in Nat /\ perPacket \in Nat \ {0} /\ nextPacket \in 0..Packets(len)
      /\ Descriptions \in Nat \ {0} /\ PacketBytes \in Nat \ {0}
      /\ Packets(len) \in Int
  BY ToolboxAssumption, DivBounds DEF TypeOK, Packets
<1>1. Cap(n) \in Nat \ {0} /\ (vbr => Cap(n) <= Descriptions)
  BY <1>0 DEF Cap, Lesser
<1>2. /\ got \in Seq(1..Packets(len)) /\ g \in 0..Cap(n)
      /\ nextPacket + g <= Packets(len)
      /\ \A i \in 1..g : got[i] = nextPacket + i
  BY <1>1, PacketsReadAre
<1>3. /\ nextPacket' = nextPacket + g /\ described' = (IF vbr THEN g ELSE 0)
      /\ held' = Decoded(got)
      /\ ended' = (got = <<>> /\ nextPacket >= Packets(len))
      /\ slice' = <<First(len, nextPacket * PacketBytes),
                   Past(len, nextPacket * PacketBytes, Cap(n) * PacketBytes)>>
  BY DEF ReadPackets, Size
<1>4. got = <<>> => g = 0
  OBVIOUS
<1> HIDE DEF got
<1>5. g \in Nat
  BY <1>1, <1>2
<1>6. held' = [j \in 1..(g * perPacket) |-> got[((j - 1) \div perPacket) + 1]]
  BY <1>3 DEF Decoded
<1>7. /\ g * perPacket \in Nat
      /\ (nextPacket + g) * perPacket = nextPacket * perPacket + g * perPacket
      /\ nextPacket * perPacket \in Int
  <2>1. 0 * perPacket <= g * perPacket /\ g * perPacket \in Int /\ 0 * perPacket = 0
    BY <1>0, <1>5, Multiples
  <2> QED
    BY <1>0, <1>5, <2>1, Multiples
<1>8. ASSUME NEW j \in 1..(g * perPacket)
      PROVE  /\ ((j - 1) \div perPacket) + 1 \in 1..g
             /\ held'[j] = Unit(nextPacket * perPacket + j)
  <2> DEFINE q == (j - 1) \div perPacket
  <2>1. /\ q \in Int /\ q * perPacket <= j - 1 /\ j - 1 < q * perPacket + perPacket
        /\ j \in Int /\ 1 <= j /\ j <= g * perPacket
    BY <1>0, <1>7, DivBounds
  <2>2. (nextPacket * perPacket + (j - 1)) \div perPacket = nextPacket + q
    <3>1. j - 1 \in Int /\ nextPacket \in Int
      BY <1>0, <2>1
    <3>2. \A a, x \in Int : (a * perPacket + x) \div perPacket = a + (x \div perPacket)
      BY <1>0, DivShift
    <3> QED
      BY <3>1, <3>2, Zenon
  <2> HIDE DEF q
  <2>3. /\ q * perPacket < g * perPacket => q < g
        /\ (0 - 1) * perPacket < q * perPacket => 0 - 1 < q
        /\ (0 - 1 + 1) * perPacket = (0 - 1) * perPacket + perPacket
        /\ 0 * perPacket = 0 /\ q * perPacket \in Int /\ (0 - 1) * perPacket \in Int
        /\ 0 * perPacket < (q + 1) * perPacket => 0 < q + 1
        /\ (q + 1) * perPacket = q * perPacket + perPacket
    BY <1>0, <1>5, <2>1, Multiples
  <2>4. q + 1 \in 1..g
    BY <1>0, <1>5, <1>7, <2>1, <2>3
  <2>5. held'[j] = got[q + 1]
    BY <1>6 DEF q
  <2>6. held'[j] = nextPacket + (q + 1)
    BY <1>2, <2>4, <2>5
  <2>7. (nextPacket * perPacket + j) - 1 = nextPacket * perPacket + (j - 1)
    BY <1>7, <2>1
  <2>8. Unit(nextPacket * perPacket + j) = nextPacket + q + 1
    <3>1. Unit(nextPacket * perPacket + j)
             = (((nextPacket * perPacket + j) - 1) \div perPacket) + 1
      BY DEF Unit
    <3> QED
      BY <2>2, <2>7, <3>1, Zenon
  <2> QED
    BY <1>0, <2>1, <2>4, <2>6, <2>8 DEF q
<1>9. held' \in Seq(1..Packets(len)) /\ Len(held') = g * perPacket
  <2>1. \A i \in 1..g : got[i] \in 1..Packets(len)
    BY <1>0, <1>2
  <2> DEFINE N == g * perPacket
  <2>2. \A j \in 1..N : held'[j] \in 1..Packets(len)
    BY <1>6, <1>8, <2>1
  <2>3. N \in Nat /\ held' = [j \in 1..N |-> held'[j]]
    BY <1>6, <1>7
  <2> HIDE DEF N
  <2>4. held' \in Seq(1..Packets(len)) /\ Len(held') = N
    BY <2>2, <2>3, FunctionIsSeq
  <2> QED
    BY <2>4 DEF N
<1>10. slice' \in Int \X Int /\ 0 <= slice'[1] /\ slice'[1] <= slice'[2] /\ slice'[2] <= len
  <2> DEFINE a == nextPacket * PacketBytes
             b == Cap(n) * PacketBytes
  <2>1. a \in Int /\ b \in Nat
    <3>1. 0 * PacketBytes <= b /\ b \in Int /\ 0 * PacketBytes = 0 /\ a \in Int
      BY <1>0, <1>1, Multiples
    <3> QED
      BY <3>1
  <2>2. slice' = <<First(len, a), Past(len, a, b)>>
    BY <1>3
  <2> HIDE DEF a, b
  <2>3. /\ First(len, a) \in 0..len /\ Past(len, a, b) \in 0..len
        /\ First(len, a) <= Past(len, a, b)
    BY <1>0, <2>1, SliceIsOne
  <2> QED
    BY <1>0, <2>2, <2>3
<1>11. nextPacket' \in 0..Packets(len) /\ described' \in 0..Descriptions
  <2>1. /\ nextPacket' = nextPacket + g /\ described' = (IF vbr THEN g ELSE 0)
        /\ g <= Cap(n) /\ nextPacket + g <= Packets(len)
    BY <1>2, <1>3
  <2> QED
    BY <1>0, <1>1, <1>5, <2>1
<1>12. nextPacket * perPacket + Len(held') = nextPacket' * perPacket
  BY <1>3, <1>7, <1>9
<1>13. ended' \in BOOLEAN /\ (ended' => nextPacket' = Packets(len))
  <2>1. ended' \in BOOLEAN
    BY <1>3
  <2>2. ended' => g = 0 /\ nextPacket >= Packets(len)
    BY <1>3, <1>4 DEF got
  <2>3. ended' => nextPacket' = Packets(len)
    BY <1>0, <1>3, <2>2
  <2> QED
    BY <2>1, <2>3
<1> QED
  BY <1>8, <1>9, <1>10, <1>11, <1>12, <1>13

\* What the converter puts into the buffer is what it held, in order.
LEMMA ConvertEffect ==
    ASSUME IInv, Convert
    PROVE  /\ filled' \in Seq(1..Packets(len)) /\ held' \in Seq(1..Packets(len))
           /\ Len(filled') <= PacketsPerLoop
           /\ Len(filled') + Len(held') = Len(filled) + Len(held)
           /\ \A j \in 1..Len(filled') : filled'[j] = Unit(Len(out) + j)
           /\ \A j \in 1..Len(held') : held'[j] = Unit(Len(out) + Len(filled') + j)
<1> DEFINE k == Lesser(Len(held), PacketsPerLoop - Len(filled))
           S == 1..Packets(len)
<1>1. /\ held \in Seq(S) /\ filled \in Seq(S) /\ out \in Seq(S)
      /\ Len(filled) <= PacketsPerLoop /\ PacketsPerLoop \in Nat
  BY ToolboxAssumption DEF IInv, TypeOK
<1>2. /\ k > 0 /\ filled' = filled \o SubSeq(held, 1, k)
      /\ held' = SubSeq(held, k + 1, Len(held)) /\ pc = "convert"
  BY DEF Convert
<1>3. /\ \A j \in 1..Len(filled) : filled[j] = Unit(Len(out) + j)
      /\ \A j \in 1..Len(held) : held[j] = Unit(Len(out) + Len(filled) + j)
  BY <1>2 DEF IInv, PcmInv, Steps, Buffered
<1>4. k \in 1..Len(held) /\ Len(filled) + k <= PacketsPerLoop
  BY <1>1, <1>2 DEF Lesser
<1> HIDE DEF k, S
<1>5. /\ SubSeq(held, 1, k) \in Seq(S) /\ Len(SubSeq(held, 1, k)) = k
      /\ \A j \in 1..k : SubSeq(held, 1, k)[j] = held[j]
  BY <1>1, <1>4
<1>6. /\ held' \in Seq(S) /\ Len(held') = Len(held) - k
      /\ \A j \in 1..(Len(held) - k) : held'[j] = held[k + j]
  BY <1>1, <1>2, <1>4
<1>7. /\ filled' \in Seq(S) /\ Len(filled') = Len(filled) + k
      /\ \A j \in 1..Len(filled) : filled'[j] = filled[j]
      /\ \A j \in (Len(filled) + 1)..(Len(filled) + k) : filled'[j] = held[j - Len(filled)]
  <2>1. /\ filled' \in Seq(S) /\ Len(filled') = Len(filled) + k
        /\ \A j \in 1..(Len(filled) + k) :
              filled'[j] = IF j <= Len(filled) THEN filled[j]
                           ELSE SubSeq(held, 1, k)[j - Len(filled)]
    BY <1>1, <1>2, <1>5
  <2> QED
    BY <1>1, <1>4, <1>5, <2>1
<1>8. Len(out) \in Nat /\ Len(filled) \in Nat /\ Len(held) \in Nat /\ k \in Nat
  BY <1>1, <1>4
<1>9. ASSUME NEW j \in 1..Len(filled') PROVE filled'[j] = Unit(Len(out) + j)
  <2>1. CASE j <= Len(filled)
    BY <1>3, <1>7, <1>8, <2>1
  <2>2. CASE j > Len(filled)
    <3>1. /\ j - Len(filled) \in 1..Len(held) /\ filled'[j] = held[j - Len(filled)]
          /\ Len(out) + Len(filled) + (j - Len(filled)) = Len(out) + j
      BY <1>4, <1>7, <1>8, <2>2
    <3> QED
      BY <1>3, <3>1
  <2> QED
    BY <1>7, <1>8, <2>1, <2>2
<1>10. ASSUME NEW j \in 1..Len(held') PROVE held'[j] = Unit(Len(out) + Len(filled') + j)
  <2>1. /\ k + j \in 1..Len(held) /\ held'[j] = held[k + j]
        /\ Len(out) + Len(filled) + (k + j) = Len(out) + Len(filled') + j
    BY <1>4, <1>6, <1>7, <1>8
  <2> QED
    BY <1>3, <2>1
<1>11. Len(filled') <= PacketsPerLoop /\ Len(filled') + Len(held') = Len(filled) + Len(held)
  BY <1>1, <1>4, <1>6, <1>7, <1>8
<1> QED
  BY <1>6, <1>7, <1>9, <1>10, <1>11 DEF S

\* What is collected is what was in the buffer, after what was collected.
LEMMA CollectEffect ==
    ASSUME IInv, Collect
    PROVE  /\ out' \in Seq(1..Packets(len)) /\ Len(out') = Len(out) + Len(filled)
           /\ \A j \in 1..Len(out') : out'[j] = Unit(j)
<1>1. filled \in Seq(1..Packets(len)) /\ out \in Seq(1..Packets(len))
  BY DEF IInv, TypeOK
<1>2. out' = out \o filled /\ pc = "convert"
  BY DEF Collect, FillReturns
<1>3. /\ \A j \in 1..Len(out) : out[j] = Unit(j)
      /\ \A j \in 1..Len(filled) : filled[j] = Unit(Len(out) + j)
  BY <1>2 DEF IInv, PcmInv
<1>4. /\ out' \in Seq(1..Packets(len)) /\ Len(out') = Len(out) + Len(filled)
      /\ \A j \in 1..(Len(out) + Len(filled)) :
            out'[j] = IF j <= Len(out) THEN out[j] ELSE filled[j - Len(out)]
  BY <1>1, <1>2
<1>5. ASSUME NEW j \in 1..Len(out') PROVE out'[j] = Unit(j)
  <2>0. Len(out) \in Nat /\ Len(filled) \in Nat
    BY <1>1
  <2>1. CASE j <= Len(out)
    BY <1>3, <1>4, <2>0, <2>1
  <2>2. CASE j > Len(out)
    <3>1. /\ j - Len(out) \in 1..Len(filled) /\ out'[j] = filled[j - Len(out)]
          /\ Len(out) + (j - Len(out)) = j
      BY <1>4, <2>0, <2>2
    <3> QED
      BY <1>3, <3>1
  <2> QED
    BY <1>4, <2>0, <2>1, <2>2
<1> QED
  BY <1>4, <1>5

\* The types.
LEMMA TypeStep ==
    ASSUME IInv, Next
    PROVE  TypeOK' /\ SliceInBounds'
<1>t. TypeOK /\ SliceInBounds
  BY DEF IInv
<1>l. live' \subseteq Resources /\ deferred' \in Seq(Resources)
  BY LiveStep
<1>d. Descriptions \in Nat /\ PacketsPerLoop \in Nat /\ Requests \subseteq Nat \ {0}
      /\ Looks \subseteq Nat /\ Places \subseteq Int /\ len \in Nat
  BY ToolboxAssumption DEF IInv, TypeOK
<1> USE DEF TypeOK, SliceInBounds, fileVars, convVars
<1>1. CASE Open
  BY <1>t, <1>l, <1>1 DEF Open, Steps
<1>2. CASE SetUp
  <2>1. pc' \in Steps
    BY <1>2 DEF SetUp, After, Steps
  <2> QED
    BY <1>t, <1>l, <1>2, <2>1 DEF SetUp
<1>3. CASE Fail \/ InputDataProcFails \/ Return
  BY <1>t, <1>l, <1>3 DEF Fail, InputDataProcFails, Return
<1>4. CASE Fill
  <2>1. <<>> \in Seq(1..Packets(len)) /\ Len(<<>>) = 0
    BY EmptySeq
  <2> QED
    BY <1>t, <1>l, <1>d, <1>4, <2>1 DEF Fill, Steps
<1>5. CASE Convert
  <2>1. /\ filled' \in Seq(1..Packets(len)) /\ held' \in Seq(1..Packets(len))
        /\ Len(filled') <= PacketsPerLoop
    BY <1>5, ConvertEffect
  <2> QED
    BY <1>t, <1>l, <1>5, <2>1 DEF Convert
<1>6. CASE Collect
  <2>1. out' \in Seq(1..Packets(len))
    BY <1>6, CollectEffect
  <2>2. pc' \in {"return", "fill"} /\ result' \in {"pcm", result}
    BY <1>6 DEF Collect
  <2> QED
    BY <1>t, <1>l, <1>6, <2>1, <2>2 DEF Collect, Steps
<1>7. ASSUME NEW n \in Requests, InputDataProc(n)
      PROVE  TypeOK' /\ SliceInBounds'
  <2>1. /\ nextPacket' \in 0..Packets(len) /\ described' \in 0..Descriptions
        /\ held' \in Seq(1..Packets(len)) /\ ended' \in BOOLEAN
        /\ slice' \in Int \X Int
        /\ 0 <= slice'[1] /\ slice'[1] <= slice'[2] /\ slice'[2] <= len
    <3>1. n \in Nat \ {0} /\ ReadPackets(Cap(n))
      BY <1>d, <1>7 DEF InputDataProc
    <3> QED
      BY <1>t, <3>1, ReadEffect
  <2>2. described' \in Nat /\ described' <= Descriptions
    BY <1>d, <2>1
  <2> QED
    BY <1>t, <1>l, <1>7, <2>1, <2>2 DEF InputDataProc
<1>8. ASSUME NEW p \in Places, NEW n \in Looks, Look(p, n)
      PROVE  TypeOK' /\ SliceInBounds'
  <2>1. /\ First(len, p) \in 0..len /\ Past(len, p, n) \in 0..len
        /\ First(len, p) <= Past(len, p, n)
    <3>1. p \in Int /\ n \in Nat /\ len \in Nat
      BY <1>d
    <3> QED
      BY ONLY <3>1, SliceIsOne
  <2>2. /\ slice' \in Int \X Int
        /\ 0 <= slice'[1] /\ slice'[1] <= slice'[2] /\ slice'[2] <= len
    BY <1>d, <1>8, <2>1 DEF Look
  <2> QED
    BY <1>t, <1>l, <1>8, <2>2 DEF Look
<1> QED
  BY <1>1, <1>2, <1>3, <1>4, <1>5, <1>6, <1>7, <1>8 DEF Next, Decoding

\* The PCM.
LEMMA PcmStep ==
    ASSUME IInv, Next
    PROVE  PcmInv'
<1>t. TypeOK /\ PcmInv
  BY DEF IInv
<1>n. Len(out) \in Nat /\ Len(filled) \in Nat /\ Len(held) \in Nat
  BY <1>t DEF TypeOK
<1> USE DEF fileVars, convVars
<1>1. ASSUME UNCHANGED <<fileVars, convVars, out, filled>>, pc # "convert", pc' # "convert",
             pc \in Steps \/ pc' \notin Steps, result' = result \/ result' = "error",
             result' # "none" => pc' \in {"return", "returned"}
      PROVE  PcmInv'
  BY <1>t, <1>1 DEF PcmInv, Unit, Buffered, Packets
<1>2. CASE Open
  <2>1. pc = "open" /\ pc' \in {"format", "returned"} /\ "open" \in Steps
        /\ (pc' = "returned" \/ result' = result)
    BY <1>2 DEF Open, Steps
  <2> QED
    BY <1>t, <1>1, <1>2, <2>1 DEF Open, PcmInv
<1>3. CASE SetUp
  <2>1. pc \in DOMAIN After /\ pc' \in After[pc] /\ UNCHANGED <<fileVars, convVars, out, filled, result>>
    BY <1>3 DEF SetUp
  <2>2. pc \in Steps \ {"convert"} /\ pc' # "convert" /\ pc \notin {"return", "returned"}
    BY <2>1 DEF After, Steps
  <2> QED
    BY <1>t, <1>1, <2>1, <2>2 DEF PcmInv
<1>4. CASE Fail \/ InputDataProcFails
  <2>1. /\ UNCHANGED <<fileVars, convVars, out, filled>> /\ pc' \notin Steps
        /\ \/ pc' = "return" /\ result' = "error"
           \/ pc' = "crashed" /\ result' = result /\ pc = "convert"
    BY <1>4 DEF Fail, InputDataProcFails, NeedsMore, Steps
  <2> QED
    BY <1>t, <2>1 DEF PcmInv, Unit, Packets, Steps
<1>5. CASE Return
  <2>1. pc = "return" /\ pc' \in {"return", "returned"} /\ pc' \notin Steps
        /\ UNCHANGED <<fileVars, convVars, out, filled, result>>
    BY <1>5 DEF Return, Steps
  <2> QED
    BY <1>t, <1>1, <2>1 DEF PcmInv
<1>6. CASE Fill
  <2>1. /\ pc = "fill" /\ pc' = "convert" /\ Len(filled') = 0
        /\ UNCHANGED <<fileVars, convVars, out, result>> /\ pc \in Steps
    BY <1>6, EmptySeq DEF Fill, Steps
  <2>2. Buffered' = Buffered
    BY <1>n, <2>1 DEF Buffered
  <2> QED
    BY <1>t, <1>n, <2>1, <2>2 DEF PcmInv, Unit, Packets
<1>7. CASE Convert
  <2>1. /\ Len(filled') + Len(held') = Len(filled) + Len(held)
        /\ \A j \in 1..Len(filled') : filled'[j] = Unit(Len(out) + j)
        /\ \A j \in 1..Len(held') : held'[j] = Unit(Len(out) + Len(filled') + j)
        /\ Len(filled') \in Nat /\ Len(held') \in Nat
    BY <1>7, ConvertEffect
  <2>2. /\ UNCHANGED <<fileVars, pc, nextPacket, ended, out, result>> /\ pc = "convert"
        /\ pc \in Steps
    BY <1>7 DEF Convert, Steps
  <2>3. Buffered' = Len(out) + Len(filled') /\ Buffered = Len(out) + Len(filled)
    BY <2>2 DEF Buffered
  <2>4. Buffered' + Len(held') = nextPacket' * perPacket'
    <3>1. Buffered + Len(held) = nextPacket * perPacket
      BY <1>t, <2>2 DEF PcmInv
    <3>2. Buffered' + Len(held') = Buffered + Len(held)
      <4>1. /\ Len(filled') + Len(held') = Len(filled) + Len(held)
            /\ Len(filled') \in Nat /\ Len(held') \in Nat
        BY <2>1
      <4> QED
        BY <1>n, <2>3, <4>1
    <3> QED
      BY <2>2, <3>1, <3>2, Zenon
  <2> QED
    BY <1>t, <2>1, <2>2, <2>3, <2>4 DEF PcmInv, Unit, Packets
<1>8. CASE Collect
  <2>1. /\ Len(out') = Len(out) + Len(filled) /\ \A j \in 1..Len(out') : out'[j] = Unit(j)
    BY <1>8, CollectEffect
  <2>2. /\ UNCHANGED <<fileVars, convVars, filled>> /\ pc = "convert" /\ pc \in Steps
        /\ \/ Len(filled) < PacketsPerLoop /\ pc' = "return" /\ result' = "pcm"
           \/ pc' = "fill" /\ result' = result
    BY <1>8 DEF Collect, FillReturns, Steps
  <2>3. Buffered = Len(out) + Len(filled) /\ Buffered' = Len(out') /\ Buffered' = Buffered
    <3>1. Buffered = Len(out) + Len(filled)
      BY <2>2 DEF Buffered
    <3>2. Buffered' = Len(out') + 0
      BY <2>2 DEF Buffered
    <3> QED
      BY <1>n, <2>1, <3>1, <3>2
  <2>4. result' = "pcm" => Len(out') = Packets(len) * perPacket
    <3>1. CASE pc' = "fill"
      BY <1>t, <2>2, <3>1 DEF PcmInv
    <3>2. CASE Len(filled) < PacketsPerLoop
      <4>1. ended /\ Len(held) = 0
        BY <1>n, <1>8, <3>2, EmptySeq, ToolboxAssumption DEF Collect, FillReturns
      <4> QED
        BY <1>t, <1>n, <2>1, <2>2, <2>3, <4>1 DEF PcmInv
    <3> QED
      BY <2>2, <3>1, <3>2
  <2> QED
    BY <1>t, <2>1, <2>2, <2>3, <2>4 DEF PcmInv, Unit, Packets
<1>9. ASSUME NEW n \in Requests, InputDataProc(n)
      PROVE  PcmInv'
  <2>1. /\ nextPacket * perPacket + Len(held') = nextPacket' * perPacket
        /\ \A j \in 1..Len(held') : held'[j] = Unit(nextPacket * perPacket + j)
        /\ ended' => nextPacket' = Packets(len)
    <3>1. n \in Nat \ {0} /\ ReadPackets(Cap(n))
      BY <1>9, ToolboxAssumption DEF InputDataProc
    <3> QED
      BY <1>t, <3>1, ReadEffect
  <2>2. /\ UNCHANGED <<fileVars, pc, out, filled, result>> /\ pc = "convert" /\ pc \in Steps
        /\ Len(held) = 0
    BY <1>9, EmptySeq DEF InputDataProc, NeedsMore, Steps
  <2>3. Buffered' = Buffered /\ Buffered = nextPacket * perPacket
    <3>1. Buffered + Len(held) = nextPacket * perPacket /\ Buffered \in Nat
      BY <1>t, <1>n, <2>2 DEF PcmInv, Buffered
    <3> QED
      BY <2>2, <3>1 DEF Buffered
  <2> QED
    BY <1>t, <2>1, <2>2, <2>3 DEF PcmInv, Unit, Packets
<1>10. ASSUME NEW p \in Places, NEW n \in Looks, Look(p, n)
       PROVE  PcmInv'
  BY <1>t, <1>10 DEF Look, PcmInv, Unit, Packets, Buffered
<1> QED
  BY <1>2, <1>3, <1>4, <1>5, <1>6, <1>7, <1>8, <1>9, <1>10 DEF Next, Decoding

\* The invariant holds at the start.
LEMMA InitInv ==
    Init => IInv
<1> SUFFICES ASSUME Init PROVE IInv
  OBVIOUS
<1>1. /\ len \in Nat /\ len \in 0..MaxLen /\ PacketBytes \in Nat \ {0}
      /\ PerPacket \subseteq Nat /\ PacketsPerLoop \in Nat /\ Descriptions \in Nat
  BY ToolboxAssumption DEF Init
<1>2. <<>> \in Seq(1..Packets(len)) /\ Len(<<>>) = 0
  BY EmptySeq
<1>3. 0 \in 0..Packets(len)
  <2>1. /\ len \div PacketBytes \in Int
        /\ len < (len \div PacketBytes) * PacketBytes + PacketBytes
    BY <1>1, DivBounds
  <2>2. /\ ((len \div PacketBytes) + 1) * PacketBytes
             = (len \div PacketBytes) * PacketBytes + PacketBytes
        /\ 0 * PacketBytes < ((len \div PacketBytes) + 1) * PacketBytes
             => 0 < (len \div PacketBytes) + 1
        /\ 0 * PacketBytes = 0 /\ (len \div PacketBytes) * PacketBytes \in Int
    BY <1>1, <2>1, Multiples
  <2> QED
    BY <1>1, <2>1, <2>2 DEF Packets
<1>4. TypeOK
  <2>1. /\ len \in 0..MaxLen /\ cap \in {len, len + PacketBytes} /\ slice \in Int \X Int
        /\ perPacket \in PerPacket /\ nextPacket \in 0..Packets(len) /\ described \in Nat
    BY <1>3 DEF Init
  <2>2. /\ held \in Seq(1..Packets(len)) /\ filled \in Seq(1..Packets(len))
        /\ out \in Seq(1..Packets(len)) /\ Len(filled) <= PacketsPerLoop
    BY <1>1, <1>2 DEF Init
  <2>3. /\ vbr \in BOOLEAN /\ ended \in BOOLEAN /\ live \subseteq Resources
        /\ deferred \in Seq(Resources)
        /\ pc \in Steps \cup {"return", "returned", "crashed"}
        /\ result \in {"none", "pcm", "error"}
    BY EmptySeq DEF Init, Steps
  <2> QED
    BY <2>1, <2>2, <2>3 DEF TypeOK
<1>5. LiveInv /\ SliceInBounds
  <2>1. Len(deferred) = 0 /\ Taken = 0 /\ live = {}
    BY EmptySeq DEF Init, Taken
  <2> QED
    BY <1>1, <2>1 DEF Init, LiveInv, SliceInBounds
<1>6. PcmInv
  <2>1. nextPacket * perPacket = 0
    BY <1>1 DEF Init
  <2> QED
    BY <1>2, <2>1 DEF Init, PcmInv, Buffered
<1> QED
  BY <1>4, <1>5, <1>6 DEF IInv

\* Every step keeps it.
LEMMA NextInv ==
    IInv /\ [Next]_vars => IInv'
<1> SUFFICES ASSUME IInv, [Next]_vars PROVE IInv'
  OBVIOUS
<1>1. CASE Next
  BY <1>1, TypeStep, LiveStep, PcmStep DEF IInv
<1>2. CASE UNCHANGED vars
  <2>1. TypeOK' /\ SliceInBounds'
    BY <1>2 DEF IInv, TypeOK, SliceInBounds, vars, fileVars, heldVars, convVars, Packets
  <2>2. LiveInv'
    BY <1>2 DEF IInv, LiveInv, Taken, vars, heldVars
  <2>3. PcmInv'
    BY <1>2 DEF IInv, PcmInv, Unit, Buffered, vars, fileVars, convVars, Packets
  <2> QED
    BY <2>1, <2>2, <2>3 DEF IInv
<1> QED
  BY <1>1, <1>2

-----------------------------------------------------------------------------
(* The theorems. *)

\* What decode has acquired follows from how far it has come, and what it
\* collected, buffered and converted is the PCM of the packets read so far.
THEOREM Invariance == Spec => []IInv
  BY InitInv, NextInv, PTL DEF Spec

\* The PCM of the whole file is the number of each packet, perPacket times.
LEMMA WholeIsUnits ==
    ASSUME TypeOK
    PROVE  LET all == Decoded([i \in 1..Packets(len) |-> i])
           IN all = [j \in 1..(Packets(len) * perPacket) |-> Unit(j)]
<1> DEFINE n == Packets(len)
           packets == [i \in 1..n |-> i]
<1>1. n \in Nat /\ perPacket \in Nat \ {0}
  <2>1. n \in Int /\ nextPacket \in 0..n
    BY ToolboxAssumption, DivBounds DEF TypeOK, Packets
  <2> QED
    BY <2>1, ToolboxAssumption DEF TypeOK
<1> HIDE DEF n
<1>2. Len(packets) = n
  BY <1>1
<1>3. n * perPacket \in Int
  BY <1>1, Multiples
<1>4. ASSUME NEW j \in 1..(n * perPacket)
      PROVE  packets[((j - 1) \div perPacket) + 1] = Unit(j)
  <2> DEFINE q == (j - 1) \div perPacket
  <2>1. q \in Int /\ q * perPacket <= j - 1 /\ j - 1 < q * perPacket + perPacket
    BY <1>1, <1>3, DivBounds
  <2> HIDE DEF q
  <2>2. /\ q * perPacket < n * perPacket => q < n
        /\ 0 * perPacket = 0 /\ q * perPacket \in Int
        /\ 0 * perPacket < (q + 1) * perPacket => 0 < q + 1
        /\ (q + 1) * perPacket = q * perPacket + perPacket
    BY <1>1, <2>1, Multiples
  <2>3. q + 1 \in 1..n
    BY <1>1, <1>3, <2>1, <2>2
  <2>4. packets[q + 1] = q + 1
    BY <2>3
  <2> QED
    BY <2>4 DEF q, Unit
<1>5. Decoded(packets)
        = [j \in 1..(n * perPacket) |-> packets[((j - 1) \div perPacket) + 1]]
  BY <1>2, Zenon DEF Decoded
<1> HIDE DEF packets
<1>6. Decoded(packets) = [j \in 1..(n * perPacket) |-> Unit(j)]
  BY <1>4, <1>5
<1> QED
  BY <1>6 DEF n, packets

\* A decode that succeeds has the PCM of every packet of the file, once and in
\* order, wherever buffers fill up.
THEOREM DecodeIsComplete == Spec => []DecodesAll
<1>1. IInv => DecodesAll
  <2> SUFFICES ASSUME IInv, result = "pcm"
               PROVE  out = Decoded([i \in 1..Packets(len) |-> i])
    BY DEF DecodesAll, IInv
  <2>1. /\ out \in Seq(1..Packets(len)) /\ Len(out) = Packets(len) * perPacket
        /\ \A j \in 1..Len(out) : out[j] = Unit(j)
    BY DEF IInv, TypeOK, PcmInv
  <2>2. out = [j \in 1..Len(out) |-> Unit(j)]
    <3>1. out = [j \in 1..Len(out) |-> out[j]]
      BY <2>1
    <3> QED
      BY <2>1, <3>1
  <2>3. Decoded([i \in 1..Packets(len) |-> i])
          = [j \in 1..(Packets(len) * perPacket) |-> Unit(j)]
    BY WholeIsUnits DEF IInv
  <2> QED
    BY <2>1, <2>2, <2>3, Zenon
<1> QED
  BY <1>1, Invariance, PTL

\* AudioToolbox finds the buffer behind an open file, and the context while it
\* converts.
THEOREM CallbacksFindTheirHandles == Spec => []CallbacksHaveHandles
<1>1. IInv => CallbacksHaveHandles
  <2> SUFFICES ASSUME IInv PROVE CallbacksHaveHandles
    OBVIOUS
  <2> DEFINE n == Len(deferred)
  <2>1. /\ "data" \in live <=> 1 <= n
        /\ "file" \in live <=> 2 <= n
        /\ "converter" \in live <=> 3 <= n
        /\ "context" \in live <=> 4 <= n
    <3>1. \A i \in 1..4 : Acquired[i] \in live <=> i <= n
      BY DEF IInv, LiveInv
    <3>2. /\ Acquired[1] = "data" /\ Acquired[2] = "file"
          /\ Acquired[3] = "converter" /\ Acquired[4] = "context"
      BY DEF Acquired
    <3> QED
      BY <3>1, <3>2
  <2>2. n \in 0..4 /\ live \subseteq Resources
    BY DEF IInv, LiveInv, TypeOK
  <2>3. pc = "convert" => n = 4
    BY DEF IInv, LiveInv, Taken
  <2> HIDE DEF n
  <2>4. "file" \in live => "data" \in live
    BY <2>1, <2>2
  <2>5. ASSUME pc = "convert" PROVE Resources \subseteq live
    <3>1. "data" \in live /\ "file" \in live /\ "converter" \in live /\ "context" \in live
      BY <2>1, <2>3, <2>5
    <3> QED
      BY <3>1 DEF Resources
  <2> QED
    BY <2>2, <2>4, <2>5 DEF CallbacksHaveHandles
<1> QED
  BY <1>1, Invariance, PTL

\* Whatever step fails, decode has given back all it acquired when it returns:
\* what is live is what its deferred calls give back, and they have all run.
THEOREM DecodeLeavesNothing == Spec => []NothingLeft
<1>1. IInv => NothingLeft
  <2> SUFFICES ASSUME IInv, pc = "returned" PROVE live = {}
    BY DEF NothingLeft
  <2>1. Len(deferred) = 0 /\ live \subseteq Resources
    BY DEF IInv, LiveInv, Taken, TypeOK
  <2>2. \A i \in 1..4 : Acquired[i] \notin live
    BY <2>1 DEF IInv, LiveInv
  <2> QED
    BY <2>1, <2>2 DEF Resources, Acquired
<1> QED
  BY <1>1, Invariance, PTL

\* No callback from C overruns the buffer or the descriptions, wherever and
\* however much the file or the converter asks for.
THEOREM CallbacksStayInBounds == Spec => []SliceInBounds
<1>1. IInv => SliceInBounds
  BY DEF IInv
<1> QED
  BY <1>1, Invariance, PTL
=============================================================================
