--------------------------- MODULE BusToWebProofs ---------------------------
(***************************************************************************)
(* Frames: velbusd reads back each message that is written, whatever bytes *)
(* follow it.  Streams of frames: for any messages, however the serial     *)
(* line and the TCP stream are read in pieces, velbusd and velbusweb take  *)
(* each message once and in order.                                         *)
(***************************************************************************)
EXTENDS BusToWeb, Induction, SequenceTheorems

Header(m) == <<STX, 248 + m.prio, m.address, 64 * m.rtr + Len(m.data)>>
Summed(m) == Header(m) \o m.data
Trailer(m) == <<Checksum(Summed(m)), ETX>>

\* A byte is a number.
LEMMA ByteFact == \A b \in Byte : b \in Int
  BY DEF Byte

\* Where the elements of two sequences are when they are joined.
LEMMA Joined ==
    ASSUME NEW S, NEW s \in Seq(S), NEW t \in Seq(S)
    PROVE  /\ s \o t \in Seq(S) /\ Len(s \o t) = Len(s) + Len(t)
           /\ \A i \in 1 .. Len(s) : (s \o t)[i] = s[i]
           /\ \A i \in 1 .. Len(t) : (s \o t)[Len(s) + i] = t[i]
<1>1. Len(s) \in Nat /\ Len(t) \in Nat
  BY LenProperties
<1>2. /\ s \o t \in Seq(S) /\ Len(s \o t) = Len(s) + Len(t)
      /\ \A i \in 1 .. Len(s) + Len(t) :
            (s \o t)[i] = IF i <= Len(s) THEN s[i] ELSE t[i - Len(s)]
  BY ConcatProperties
<1> QED
  BY <1>1, <1>2

\* A part in the middle of a sequence can be cut out of it.
LEMMA CutOut ==
    ASSUME NEW S, NEW s \in Seq(S), NEW t \in Seq(S), NEW u \in Seq(S)
    PROVE  SubSeq(s \o t \o u, Len(s) + 1, Len(s) + Len(t)) = t
<1> DEFINE whole == s \o t \o u
           cut == SubSeq(whole, Len(s) + 1, Len(s) + Len(t))
<1>1. Len(s) \in Nat /\ Len(t) \in Nat /\ Len(u) \in Nat
  BY LenProperties
<1>2. /\ s \o t \in Seq(S) /\ Len(s \o t) = Len(s) + Len(t)
      /\ \A i \in 1 .. Len(t) : (s \o t)[Len(s) + i] = t[i]
  BY Joined
<1>3. /\ whole \in Seq(S) /\ Len(whole) = Len(s) + Len(t) + Len(u)
      /\ \A i \in 1 .. Len(s) + Len(t) : whole[i] = (s \o t)[i]
  BY <1>2, Joined
<1>4. \A i \in 1 .. Len(t) : whole[Len(s) + i] = t[i]
  BY <1>1, <1>2, <1>3
<1>5. \A i \in Len(s) + 1 .. Len(s) + Len(t) : whole[i] \in S
  BY <1>1, <1>3, ElementOfSeq
<1> HIDE DEF whole
<1>6. /\ cut \in Seq(S) /\ Len(cut) = Len(t)
      /\ \A i \in 1 .. Len(t) : cut[i] = whole[Len(s) + i]
  <2>1. /\ cut \in Seq(S)
        /\ Len(cut) = IF Len(s) + 1 <= Len(s) + Len(t) THEN Len(s) + Len(t) - (Len(s) + 1) + 1
                      ELSE 0
        /\ \A i \in 1 .. Len(s) + Len(t) - (Len(s) + 1) + 1 :
              cut[i] = whole[Len(s) + 1 + i - 1]
    BY <1>1, <1>5, SubSeqProperties
  <2> HIDE DEF cut
  <2> QED
    BY <1>1, <2>1
<1> HIDE DEF cut
<1>7. cut = t
  BY <1>4, <1>6, SeqEqual
<1> QED
  BY <1>7 DEF cut, whole

\* So can the front, and what is after it.
LEMMA CutFront ==
    ASSUME NEW S, NEW s \in Seq(S), NEW t \in Seq(S)
    PROVE  /\ SubSeq(s \o t, 1, Len(s)) = s
           /\ SubSeq(s \o t, Len(s) + 1, Len(s \o t)) = t
<1>1. <<>> \in Seq(S) /\ Len(<<>>) = 0
  BY EmptySeq
<1>2. <<>> \o s = s /\ s \o t \in Seq(S) /\ s \o t \o <<>> = s \o t
      /\ Len(s \o t) = Len(s) + Len(t) /\ Len(s) \in Nat
  BY ConcatEmptySeq, ConcatProperties, LenProperties
<1>3. SubSeq(<<>> \o s \o t, Len(<<>>) + 1, Len(<<>>) + Len(s)) = s
  BY <1>1, CutOut
<1>4. SubSeq(s \o t \o <<>>, Len(s) + 1, Len(s) + Len(t)) = t
  BY <1>1, CutOut
<1> QED
  BY <1>1, <1>2, <1>3, <1>4

\* Where the parts of a message are.
LEMMA Layout ==
    ASSUME NEW m \in AnyMessage, NEW rest \in Seq(Byte)
    PROVE  LET msges == message(m) \o rest
               n == Len(m.data)
           IN /\ n \in 0 .. 15 /\ Len(rest) \in Nat
              /\ Len(msges) = 6 + n + Len(rest)
              /\ msges[1] = STX /\ msges[2] = 248 + m.prio /\ msges[3] = m.address
              /\ msges[4] = 64 * m.rtr + n
              /\ msges[5 + n] = Checksum(Summed(m)) /\ msges[6 + n] = ETX
              /\ SubSeq(msges, 1, 4 + n) = Summed(m)
              /\ SubSeq(msges, 5, 4 + n) = m.data
              /\ SubSeq(msges, 1, 6 + n) = message(m)
              /\ SubSeq(msges, 7 + n, Len(msges)) = rest
<1> DEFINE n == Len(m.data)
           sum == Checksum(Summed(m))
           S == Int \cup {sum}
           msges == message(m) \o rest
<1>0. m.prio \in Int /\ m.address \in Int /\ m.rtr \in Int /\ m.data \in Seq(Byte)
  <2>1. m.prio \in 0 .. 3 /\ m.address \in Byte /\ m.rtr \in {0, 1}
        /\ m.data \in Seq(Byte)
    BY DEF AnyMessage
  <2> QED
    BY <2>1, ByteFact
<1>1. m.data \in Seq(S) /\ rest \in Seq(S)
  <2>1. Byte \subseteq S
    BY DEF Byte
  <2> QED
    BY <1>0, <2>1, SeqMonotonic
<1>2. n \in Nat /\ n <= 15 /\ Len(rest) \in Nat
  BY <1>0, LenProperties DEF AnyMessage
<1>3. Header(m) \in Seq(S) /\ Len(Header(m)) = 4
      /\ Header(m)[1] = STX /\ Header(m)[2] = 248 + m.prio
      /\ Header(m)[3] = m.address /\ Header(m)[4] = 64 * m.rtr + n
  <2>0. 64 * m.rtr + n \in Int /\ 248 + m.prio \in Int /\ m.address \in Int
        /\ STX \in Int
    <3> HIDE DEF n, S, msges
    <3> QED
      BY <1>0, <1>2 DEF STX
  <2>1. 64 * m.rtr + n \in S /\ 248 + m.prio \in S /\ m.address \in S /\ STX \in S
    BY <2>0
  <2> HIDE DEF S
  <2> QED
    BY <2>1 DEF Header
<1>4. Trailer(m) \in Seq(S) /\ Len(Trailer(m)) = 2
      /\ Trailer(m)[1] = sum /\ Trailer(m)[2] = ETX
  <2>1. sum \in S /\ ETX \in S
    BY DEF ETX
  <2> HIDE DEF S
  <2> QED
    BY <2>1 DEF Trailer
<1>5. message(m) = Summed(m) \o Trailer(m)
  BY DEF message, Summed, Header, Trailer
<1> HIDE DEF S, sum, n
<1>j. ASSUME NEW s \in Seq(S), NEW t \in Seq(S)
      PROVE  /\ s \o t \in Seq(S) /\ Len(s \o t) = Len(s) + Len(t)
             /\ \A i \in 1 .. Len(s) : (s \o t)[i] = s[i]
             /\ \A i \in 1 .. Len(t) : (s \o t)[Len(s) + i] = t[i]
  BY Joined
<1>6. /\ Summed(m) \in Seq(S) /\ Len(Summed(m)) = 4 + n
      /\ \A i \in 1 .. 4 : Summed(m)[i] = Header(m)[i]
  <2>1. /\ Summed(m) \in Seq(S)
        /\ Len(Summed(m)) = Len(Header(m)) + Len(m.data)
        /\ \A i \in 1 .. Len(Header(m)) : Summed(m)[i] = Header(m)[i]
    BY <1>1, <1>3, <1>j, Zenon DEF Summed
  <2> QED
    BY <1>3, <2>1, Zenon DEF n
<1>7. /\ message(m) \in Seq(S) /\ Len(message(m)) = 6 + n
      /\ \A i \in 1 .. 4 : message(m)[i] = Header(m)[i]
      /\ message(m)[5 + n] = sum /\ message(m)[6 + n] = ETX
  <2>1. /\ Summed(m) \o Trailer(m) \in Seq(S)
        /\ Len(Summed(m) \o Trailer(m)) = Len(Summed(m)) + Len(Trailer(m))
        /\ \A i \in 1 .. Len(Summed(m)) : (Summed(m) \o Trailer(m))[i] = Summed(m)[i]
        /\ \A i \in 1 .. Len(Trailer(m)) :
              (Summed(m) \o Trailer(m))[Len(Summed(m)) + i] = Trailer(m)[i]
    BY <1>4, <1>6, <1>j, Zenon
  <2>2. /\ message(m) \in Seq(S)
        /\ Len(message(m)) = Len(Summed(m)) + Len(Trailer(m))
        /\ \A i \in 1 .. Len(Summed(m)) : message(m)[i] = Summed(m)[i]
        /\ \A i \in 1 .. Len(Trailer(m)) :
              message(m)[Len(Summed(m)) + i] = Trailer(m)[i]
    BY <1>5, <2>1, Zenon
  <2>3. Len(message(m)) = 6 + n /\ \A i \in 1 .. 4 : message(m)[i] = Header(m)[i]
    BY <1>2, <1>4, <1>6, <2>2
  <2>4. 1 \in 1 .. Len(Trailer(m)) /\ 2 \in 1 .. Len(Trailer(m))
        /\ Len(Summed(m)) + 1 = 5 + n /\ Len(Summed(m)) + 2 = 6 + n
    BY <1>2, <1>4, <1>6
  <2>5. message(m)[5 + n] = Trailer(m)[1] /\ message(m)[6 + n] = Trailer(m)[2]
    BY <2>2, <2>4
  <2> QED
    BY <1>4, <2>2, <2>3, <2>5
<1>8. /\ msges \in Seq(S) /\ Len(msges) = 6 + n + Len(rest)
      /\ \A i \in 1 .. 6 + n : msges[i] = message(m)[i]
  <2>1. /\ msges \in Seq(S) /\ Len(msges) = Len(message(m)) + Len(rest)
        /\ \A i \in 1 .. Len(message(m)) : msges[i] = message(m)[i]
    BY <1>1, <1>7, <1>j, Zenon
  <2> HIDE DEF msges
  <2> QED
    BY <1>7, <2>1, Zenon
<1>9. Trailer(m) \o rest \in Seq(S)
  BY <1>1, <1>4, ConcatProperties
<1>10. msges = Summed(m) \o (Trailer(m) \o rest)
  <2>1. (Summed(m) \o Trailer(m)) \o rest = Summed(m) \o (Trailer(m) \o rest)
    <3>1. ASSUME NEW s \in Seq(S), NEW t \in Seq(S), NEW u \in Seq(S)
          PROVE  (s \o t) \o u = s \o (t \o u)
      BY ConcatAssociative
    <3> QED
      BY <1>1, <1>4, <1>6, <3>1, Zenon
  <2> QED
    BY <1>5, <2>1, Zenon
<1>11. msges = Header(m) \o m.data \o (Trailer(m) \o rest)
  BY <1>10 DEF Summed
<1>12. SubSeq(msges, 1, 4 + n) = Summed(m)
  <2>1. SubSeq(Summed(m) \o (Trailer(m) \o rest), 1, Len(Summed(m))) = Summed(m)
    BY <1>6, <1>9, CutFront
  <2> HIDE DEF msges
  <2> QED
    BY <1>6, <1>10, <2>1
<1>13. SubSeq(msges, 5, 4 + n) = m.data
  <2>1. SubSeq(Header(m) \o m.data \o (Trailer(m) \o rest), Len(Header(m)) + 1,
               Len(Header(m)) + Len(m.data)) = m.data
    <3>1. \A t, u \in Seq(S) :
             SubSeq(Header(m) \o t \o u, Len(Header(m)) + 1, Len(Header(m)) + Len(t)) = t
      BY <1>3, CutOut
    <3> QED
      BY <1>1, <1>9, <3>1, Zenon
  <2>2. Len(m.data) = n /\ 4 + 1 = 5
    BY DEF n
  <2> HIDE DEF msges
  <2> QED
    BY <1>3, <1>11, <2>1, <2>2
<1>14. SubSeq(msges, 1, 6 + n) = message(m)
       /\ SubSeq(msges, 7 + n, Len(msges)) = rest
  <2>1. 6 + n + 1 = 7 + n
    BY <1>2
  <2>2. SubSeq(msges, 1, Len(message(m))) = message(m)
        /\ SubSeq(msges, Len(message(m)) + 1, Len(msges)) = rest
    BY <1>1, <1>7, CutFront
  <2> HIDE DEF msges
  <2> QED
    BY <1>7, <2>1, <2>2
<1> HIDE DEF msges
<1>15. 1 \in 1 .. 4 /\ 2 \in 1 .. 4 /\ 3 \in 1 .. 4 /\ 4 \in 1 .. 4
       /\ \A i \in 1 .. 4 : i \in 1 .. 6 + n
       /\ 5 + n \in 1 .. 6 + n /\ 6 + n \in 1 .. 6 + n
  BY <1>2
<1>16. msges[1] = STX /\ msges[2] = 248 + m.prio /\ msges[3] = m.address
       /\ msges[4] = 64 * m.rtr + n
  BY <1>3, <1>7, <1>8, <1>15
<1>17. msges[5 + n] = sum /\ msges[6 + n] = ETX
  BY <1>7, <1>8, <1>15
<1>18. n \in 0 .. 15
  BY <1>2
<1> QED
  BY <1>2, <1>8, <1>12, <1>13, <1>14, <1>16, <1>17, <1>18 DEF sum, n, msges

\* Each message that is written is read back, and exactly what follows it is
\* left, for every message and whatever follows (VelbusMessage.cpp 11-97).
THEOREM ReadsBack ==
    ASSUME NEW m \in AnyMessage, NEW rest \in Seq(Byte)
    PROVE  LET msges == message(m) \o rest
           IN /\ HasFrame(msges)
              /\ Contents(msges) = m
              /\ Frame(msges) = message(m)
              /\ Consumed(msges) = rest
<1> DEFINE n == Len(m.data)
           msges == message(m) \o rest
<1>1. /\ n \in 0 .. 15 /\ Len(rest) \in Nat
      /\ Len(msges) = 6 + n + Len(rest)
      /\ msges[1] = STX /\ msges[2] = 248 + m.prio /\ msges[3] = m.address
      /\ msges[4] = 64 * m.rtr + n
      /\ msges[5 + n] = Checksum(Summed(m)) /\ msges[6 + n] = ETX
      /\ SubSeq(msges, 1, 4 + n) = Summed(m)
      /\ SubSeq(msges, 5, 4 + n) = m.data
      /\ SubSeq(msges, 1, 6 + n) = message(m)
      /\ SubSeq(msges, 7 + n, Len(msges)) = rest
  BY Layout
<1>2. m.prio \in 0 .. 3 /\ m.rtr \in {0, 1}
  BY DEF AnyMessage
<1> HIDE DEF msges, n
<1>n. n \in 0 .. 15
  BY <1>1
<1>3. FrameLength(msges) = 6 + n
  <2>1. (64 * m.rtr + n) % 16 = n
    <3>1. CASE m.rtr = 0
      BY <1>n, <3>1
    <3>2. CASE m.rtr = 1
      BY <1>n, <3>2
    <3> QED
      BY <1>2, <3>1, <3>2
  <2> QED
    BY <1>1, <2>1 DEF FrameLength
<1>4. HasHeader(msges)
  BY <1>1, <1>2 DEF HasHeader
<1>5. ~InsufficientData(msges)
  BY <1>1, <1>3 DEF InsufficientData
<1>6. HasTrailer(msges)
  <2>1. FrameLength(msges) - 1 = 5 + n /\ FrameLength(msges) - 2 = 4 + n
    BY <1>1, <1>3
  <2> QED
    BY <1>1, <1>3, <2>1 DEF HasTrailer
<1>7. Contents(msges) = m
  <2>1. FrameLength(msges) - 2 = 4 + n
    BY <1>1, <1>3
  <2>2. (248 + m.prio) % 4 = m.prio /\ (64 * m.rtr + n) \div 64 = m.rtr
    <3>1. (248 + m.prio) % 4 = m.prio
      BY <1>2
    <3>2. CASE m.rtr = 0
      BY <1>1, <3>1, <3>2
    <3>3. CASE m.rtr = 1
      BY <1>1, <3>1, <3>3
    <3> QED
      BY <1>2, <3>2, <3>3
  <2>3. Contents(msges) = [prio |-> m.prio, address |-> m.address, rtr |-> m.rtr,
                           data |-> m.data]
    BY <1>1, <2>1, <2>2 DEF Contents
  <2> QED
    BY <2>3 DEF AnyMessage
<1>8. Frame(msges) = message(m) /\ Consumed(msges) = rest
  <2>1. FrameLength(msges) + 1 = 7 + n
    BY <1>1, <1>3
  <2> QED
    BY <1>1, <1>3, <2>1 DEF Frame, Consumed
<1> QED
  BY <1>4, <1>5, <1>6, <1>7, <1>8 DEF HasFrame, msges

-----------------------------------------------------------------------------
(* What is written.                                                        *)

\* The sum of bytes is a number: by induction over how many were added, first
\* that the sums exist and then that they are numbers.
LEMMA SumIsNumber ==
    ASSUME NEW q \in Seq(Int)
    PROVE  Sum(q) \in Int
<1> DEFINE n == Len(q)
           Adds(g, k) == g = [i \in 0 .. k |-> IF i = 0 THEN 0 ELSE g[i - 1] + q[i]]
           Upto == {k \in Nat : \E g : Adds(g, k)}
           f == CHOOSE g : Adds(g, n)
           Good == {k \in Nat : k <= n => f[k] \in Int}
<1>1. n \in Nat /\ \A i \in 1 .. n : q[i] \in Int
  BY ElementOfSeq, LenProperties
<1>2. 0 \in Upto
  <2>1. Adds([i \in 0 .. 0 |-> 0], 0)
    OBVIOUS
  <2> QED
    BY <2>1
<1>3. \A k \in Upto \cap Nat : k + 1 \in Upto
  <2> TAKE k \in Upto \cap Nat
  <2>1. PICK g : Adds(g, k)
    OBVIOUS
  <2> DEFINE h == [i \in 0 .. k + 1 |-> IF i <= k THEN g[i] ELSE g[k] + q[k + 1]]
  <2>2. \A i \in 0 .. k : h[i] = g[i]
    OBVIOUS
  <2>3. \A i \in 0 .. k + 1 : h[i] = IF i = 0 THEN 0 ELSE h[i - 1] + q[i]
    <3> TAKE i \in 0 .. k + 1
    <3>1. CASE i <= k
      <4>1. i \in 0 .. k /\ (i # 0 => i - 1 \in 0 .. k)
        BY <3>1
      <4>2. g[i] = IF i = 0 THEN 0 ELSE g[i - 1] + q[i]
        BY <2>1, <4>1
      <4> HIDE DEF h
      <4> QED
        BY <2>2, <4>1, <4>2
    <3>2. CASE i = k + 1
      <4>1. h[i] = g[k] + q[k + 1] /\ h[i - 1] = g[k] /\ i # 0
        BY <3>2
      <4> HIDE DEF h
      <4> QED
        BY <3>2, <4>1
    <3> QED
      BY <3>1, <3>2
  <2>4. Adds(h, k + 1)
    <3>1. h = [i \in 0 .. k + 1 |-> h[i]]
      OBVIOUS
    <3> HIDE DEF h
    <3> QED
      BY <2>3, <3>1
  <2>5. \E e : Adds(e, k + 1)
    <3> HIDE DEF h, Adds
    <3> QED
      BY <2>4
  <2> HIDE DEF Adds
  <2> QED
    BY <2>5
<1>4. Adds(f, n)
  <2>1. n \in Upto
    <3> HIDE DEF Upto, n
    <3> QED
      BY <1>1, <1>2, <1>3, SetInduction
  <2> QED
    BY <2>1
<1>5. 0 \in Good /\ \A k \in Good \cap Nat : k + 1 \in Good
  <2> HIDE DEF f
  <2>1. \A i \in 0 .. n : f[i] = IF i = 0 THEN 0 ELSE f[i - 1] + q[i]
    BY <1>4
  <2> HIDE DEF n
  <2>2. f[0] = 0
    BY <1>1, <2>1
  <2>3. ASSUME NEW k \in Good \cap Nat, k + 1 <= n
        PROVE  f[k + 1] \in Int
    <3>1. k + 1 \in 1 .. n /\ k + 1 # 0 /\ (k + 1) - 1 = k /\ k <= n
      BY <1>1, <2>3
    <3>2. f[k + 1] = f[k] + q[k + 1]
      BY <2>1, <3>1
    <3> QED
      BY <1>1, <3>1, <3>2
  <2> QED
    BY <2>2, <2>3
<1>6. n \in Good
  <2> HIDE DEF Good, n
  <2> QED
    BY <1>1, <1>5, SetInduction
<1>7. Sum(q) = f[n]
  BY DEF Sum
<1> QED
  BY <1>1, <1>6, <1>7

\* So a message is bytes.
LEMMA MessageIsBytes ==
    ASSUME NEW m \in AnyMessage
    PROVE  /\ message(m) \in Seq(Byte)
           /\ Len(message(m)) = 6 + Len(m.data)
           /\ Len(m.data) \in 0 .. 15
           /\ create_message(m) = message(m)
<1>0. m.prio \in 0 .. 3 /\ m.address \in Byte /\ m.rtr \in {0, 1}
      /\ m.data \in Seq(Byte) /\ Len(m.data) <= 15
  BY DEF AnyMessage
<1>1. m.prio \in 0 .. 3 /\ m.address \in Byte /\ m.rtr \in {0, 1} /\ m.data \in Seq(Byte)
      /\ Len(m.data) \in 0 .. 15
  <2>1. \A n \in Nat : n <= 15 => n \in 0 .. 15
    OBVIOUS
  <2>2. Len(m.data) \in Nat
    BY <1>0, LenProperties
  <2> QED
    BY <1>0, <2>1, <2>2, Zenon
<1>2. Header(m) \in Seq(Byte) /\ Len(Header(m)) = 4
  <2>1. STX \in Byte /\ 248 + m.prio \in Byte /\ 64 * m.rtr + Len(m.data) \in Byte
    <3>1. \A p \in 0 .. 3, r \in {0, 1}, n \in 0 .. 15 :
             248 + p \in 0 .. 255 /\ 64 * r + n \in 0 .. 255
      OBVIOUS
    <3>2. STX \in Byte
      BY DEF STX, Byte
    <3> QED
      BY <1>1, <3>1, <3>2, Zenon DEF Byte
  <2> HIDE DEF STX
  <2> QED
    BY <1>1, <2>1 DEF Header
<1>3. Summed(m) \in Seq(Byte) /\ Len(Summed(m)) = 4 + Len(m.data)
  <2>1. /\ Header(m) \o m.data \in Seq(Byte)
        /\ Len(Header(m) \o m.data) = Len(Header(m)) + Len(m.data)
    BY <1>1, <1>2, Joined
  <2> QED
    BY <1>2, <2>1 DEF Summed
<1>4. Checksum(Summed(m)) \in Byte
  <2>1. Summed(m) \in Seq(Int)
    <3>1. Byte \subseteq Int
      BY DEF Byte
    <3> QED
      BY <1>3, <3>1, SeqMonotonic
  <2>2. Sum(Summed(m)) \in Int
    BY <2>1, SumIsNumber
  <2> QED
    BY <2>2 DEF Checksum, Byte
<1>5. Trailer(m) \in Seq(Byte) /\ Len(Trailer(m)) = 2
  <2>1. ETX \in Byte
    BY DEF ETX, Byte
  <2> QED
    BY <1>4, <2>1 DEF Trailer
<1>6. message(m) = Summed(m) \o Trailer(m) /\ create_message(m) = message(m)
  BY DEF message, create_message, Summed, Header, Trailer
<1>7. message(m) \in Seq(Byte) /\ Len(message(m)) = (4 + Len(m.data)) + 2
  <2>1. /\ Summed(m) \o Trailer(m) \in Seq(Byte)
        /\ Len(Summed(m) \o Trailer(m)) = Len(Summed(m)) + Len(Trailer(m))
    BY <1>3, <1>5, Joined
  <2> QED
    BY <1>3, <1>5, <1>6, <2>1
<1> QED
  BY <1>1, <1>6, <1>7

\* The bytes of messages are built up one message after the other.
LEMMA BytesBuilt ==
    ASSUME NEW d \in Seq(AnyMessage)
    PROVE  \E f : /\ Bytes(d) = f[Len(d)] /\ f[0] = <<>>
                  /\ \A i \in 1 .. Len(d) : f[i] = f[i - 1] \o message(d[i])
                  /\ \A i \in 0 .. Len(d) : f[i] \in Seq(Byte)
<1> DEFINE n == Len(d)
           Adds(g, k) == g = [i \in 0 .. k |->
                                 IF i = 0 THEN <<>> ELSE g[i - 1] \o create_message(d[i])]
           Upto == {k \in Nat : \E g : Adds(g, k)}
           f == CHOOSE g : Adds(g, n)
           Good == {k \in Nat : k <= n => f[k] \in Seq(Byte)}
<1>1. n \in Nat /\ \A i \in 1 .. n : d[i] \in AnyMessage
  BY ElementOfSeq, LenProperties
<1>2. 0 \in Upto
  <2>1. Adds([i \in 0 .. 0 |-> <<>>], 0)
    OBVIOUS
  <2> QED
    BY <2>1
<1>3. \A k \in Upto \cap Nat : k + 1 \in Upto
  <2> TAKE k \in Upto \cap Nat
  <2>1. PICK g : Adds(g, k)
    OBVIOUS
  <2> DEFINE h == [i \in 0 .. k + 1 |->
                      IF i <= k THEN g[i] ELSE g[k] \o create_message(d[k + 1])]
  <2>2. \A i \in 0 .. k : h[i] = g[i]
    OBVIOUS
  <2>3. \A i \in 0 .. k + 1 :
           h[i] = IF i = 0 THEN <<>> ELSE h[i - 1] \o create_message(d[i])
    <3> TAKE i \in 0 .. k + 1
    <3>1. CASE i <= k
      <4>1. i \in 0 .. k /\ (i # 0 => i - 1 \in 0 .. k)
        BY <3>1
      <4>2. g[i] = IF i = 0 THEN <<>> ELSE g[i - 1] \o create_message(d[i])
        BY <2>1, <4>1
      <4> HIDE DEF h
      <4> QED
        BY <2>2, <4>1, <4>2
    <3>2. CASE i = k + 1
      <4>1. h[i] = g[k] \o create_message(d[k + 1]) /\ h[i - 1] = g[k] /\ i # 0
        BY <3>2
      <4> HIDE DEF h
      <4> QED
        BY <3>2, <4>1
    <3> QED
      BY <3>1, <3>2
  <2>4. Adds(h, k + 1)
    <3>1. h = [i \in 0 .. k + 1 |-> h[i]]
      OBVIOUS
    <3> HIDE DEF h
    <3> QED
      BY <2>3, <3>1
  <2>5. \E e : Adds(e, k + 1)
    <3> HIDE DEF h, Adds
    <3> QED
      BY <2>4
  <2> HIDE DEF Adds
  <2> QED
    BY <2>5
<1>4. Adds(f, n)
  <2>1. n \in Upto
    <3> HIDE DEF Upto, n
    <3> QED
      BY <1>1, <1>2, <1>3, SetInduction
  <2> QED
    BY <2>1
<1>5. Bytes(d) = f[n]
  BY DEF Bytes
<1> HIDE DEF f
<1>6. \A i \in 0 .. n : f[i] = IF i = 0 THEN <<>> ELSE f[i - 1] \o create_message(d[i])
  BY <1>4
<1> HIDE DEF n
<1>7. f[0] = <<>> /\ \A i \in 1 .. n : f[i] = f[i - 1] \o message(d[i])
  <2>1. 0 \in 0 .. n
    BY <1>1
  <2>2. ASSUME NEW i \in 1 .. n
        PROVE  f[i] = f[i - 1] \o message(d[i])
    <3>1. i \in 0 .. n /\ i # 0
      BY <1>1
    <3>2. f[i] = f[i - 1] \o create_message(d[i])
      BY <1>6, <3>1
    <3>3. create_message(d[i]) = message(d[i])
      BY <1>1, MessageIsBytes
    <3> QED
      BY <3>2, <3>3
  <2> QED
    BY <1>6, <2>1, <2>2
<1>8. 0 \in Good /\ \A k \in Good \cap Nat : k + 1 \in Good
  <2>1. 0 \in Good
    <3>1. <<>> \in Seq(Byte)
      BY EmptySeq
    <3> QED
      BY <1>7, <3>1
  <2>2. ASSUME NEW k \in Good \cap Nat, k + 1 <= n
        PROVE  f[k + 1] \in Seq(Byte)
    <3>1. k + 1 \in 1 .. n /\ (k + 1) - 1 = k /\ k <= n
      BY <1>1, <2>2
    <3>2. f[k + 1] = f[k] \o message(d[k + 1])
      BY <1>7, <3>1
    <3>3. f[k] \in Seq(Byte) /\ message(d[k + 1]) \in Seq(Byte)
      BY <1>1, <3>1, MessageIsBytes
    <3> QED
      BY <3>2, <3>3, ConcatProperties
  <2> QED
    BY <2>1, <2>2
<1>9. \A i \in 0 .. n : f[i] \in Seq(Byte)
  <2>1. ASSUME NEW i \in 0 .. n PROVE i \in Good
    <3>1. i \in Nat
      BY <1>1
    <3> HIDE DEF Good
    <3> QED
      BY <1>8, <3>1, SetInduction
  <2> QED
    BY <1>1, <2>1
<1> QED
  BY <1>5, <1>7, <1>9 DEF n

LEMMA BytesTyped ==
    ASSUME NEW d \in Seq(AnyMessage)
    PROVE  Bytes(d) \in Seq(Byte)
<1>1. PICK f : /\ Bytes(d) = f[Len(d)] /\ f[0] = <<>>
               /\ \A i \in 1 .. Len(d) : f[i] = f[i - 1] \o message(d[i])
               /\ \A i \in 0 .. Len(d) : f[i] \in Seq(Byte)
  BY BytesBuilt
<1>2. Len(d) \in 0 .. Len(d)
  BY LenProperties
<1> QED
  BY <1>1, <1>2

LEMMA BytesEmpty == Bytes(<<>>) = <<>>
<1>1. <<>> \in Seq(AnyMessage) /\ Len(<<>>) = 0
  BY EmptySeq
<1>2. PICK f : Bytes(<<>>) = f[Len(<<>>)] /\ f[0] = <<>>
  BY <1>1, BytesBuilt
<1> QED
  BY <1>1, <1>2

\* A message more at the end.
LEMMA BytesAppend ==
    ASSUME NEW d \in Seq(AnyMessage), NEW m \in AnyMessage
    PROVE  Bytes(Append(d, m)) = Bytes(d) \o message(m)
<1> DEFINE e == Append(d, m)
           n == Len(d)
<1>1. /\ e \in Seq(AnyMessage) /\ Len(e) = n + 1 /\ n \in Nat /\ e[n + 1] = m
      /\ \A i \in 1 .. n : e[i] = d[i]
  BY AppendProperties, LenProperties
<1>2. PICK f : /\ Bytes(d) = f[Len(d)] /\ f[0] = <<>>
               /\ \A i \in 1 .. Len(d) : f[i] = f[i - 1] \o message(d[i])
               /\ \A i \in 0 .. Len(d) : f[i] \in Seq(Byte)
  BY BytesBuilt
<1> HIDE DEF e
<1>3. PICK g : /\ Bytes(e) = g[Len(e)] /\ g[0] = <<>>
               /\ \A i \in 1 .. Len(e) : g[i] = g[i - 1] \o message(e[i])
               /\ \A i \in 0 .. Len(e) : g[i] \in Seq(Byte)
  BY <1>1, BytesBuilt
<1> DEFINE Same == {k \in Nat : k <= n => g[k] = f[k]}
<1>4. 0 \in Same
  BY <1>2, <1>3
<1>5. \A k \in Same \cap Nat : k + 1 \in Same
  <2> SUFFICES ASSUME NEW k \in Same \cap Nat, k + 1 <= n
               PROVE  g[k + 1] = f[k + 1]
    OBVIOUS
  <2>1. k + 1 \in 1 .. n /\ k + 1 \in 1 .. n + 1 /\ (k + 1) - 1 = k /\ k <= n
    BY <1>1
  <2>2. g[k + 1] = g[k] \o message(e[k + 1]) /\ f[k + 1] = f[k] \o message(d[k + 1])
    BY <1>1, <1>2, <1>3, <2>1
  <2> QED
    BY <1>1, <2>1, <2>2
<1>6. n \in Same
  <2> HIDE DEF Same, n
  <2> QED
    BY <1>1, <1>4, <1>5, SetInduction
<1>7. g[n + 1] = g[n] \o message(m)
  <2>1. n + 1 \in 1 .. Len(e) /\ (n + 1) - 1 = n
    BY <1>1
  <2> QED
    BY <1>1, <1>3, <2>1
<1>8. Bytes(e) = g[n + 1] /\ Bytes(d) = f[n]
  BY <1>1, <1>2, <1>3
<1>9. g[n] = f[n]
  BY <1>1, <1>6
<1>10. Bytes(e) = Bytes(d) \o message(m)
  <2> HIDE DEF n
  <2> QED
    BY <1>7, <1>8, <1>9
<1> QED
  BY <1>10 DEF e

\* A message less at the front.
LEMMA BytesHead ==
    ASSUME NEW d \in Seq(AnyMessage), d # <<>>
    PROVE  /\ Head(d) \in AnyMessage /\ Tail(d) \in Seq(AnyMessage)
           /\ Bytes(d) = message(Head(d)) \o Bytes(Tail(d))
<1> DEFINE e == Tail(d)
           n == Len(e)
           c == message(Head(d))
<1>1. /\ e \in Seq(AnyMessage) /\ Head(d) \in AnyMessage /\ Head(d) = d[1]
      /\ n \in Nat /\ Len(d) = n + 1
      /\ \A i \in 1 .. n : e[i] = d[i + 1]
  OBVIOUS
<1>c. c \in Seq(Byte)
  BY <1>1, MessageIsBytes
<1>2. PICK f : /\ Bytes(d) = f[Len(d)] /\ f[0] = <<>>
               /\ \A i \in 1 .. Len(d) : f[i] = f[i - 1] \o message(d[i])
               /\ \A i \in 0 .. Len(d) : f[i] \in Seq(Byte)
  BY BytesBuilt
<1> HIDE DEF e
<1>3. PICK g : /\ Bytes(e) = g[Len(e)] /\ g[0] = <<>>
               /\ \A i \in 1 .. Len(e) : g[i] = g[i - 1] \o message(e[i])
               /\ \A i \in 0 .. Len(e) : g[i] \in Seq(Byte)
  BY <1>1, BytesBuilt
<1> DEFINE Same == {k \in Nat : k <= n => f[k + 1] = c \o g[k]}
<1>4. 0 \in Same
  <2>1. f[1] = f[0] \o message(d[1])
    <3>1. 1 \in 1 .. Len(d) /\ 1 - 1 = 0
      BY <1>1
    <3> QED
      BY <1>2, <3>1
  <2>2. <<>> \o c = c /\ c \o <<>> = c
    BY <1>c, ConcatEmptySeq
  <2>3. f[0 + 1] = c \o g[0]
    BY <1>1, <1>2, <1>3, <2>1, <2>2
  <2> QED
    BY <2>3
<1> HIDE DEF c
<1>5. \A k \in Same \cap Nat : k + 1 \in Same
  <2> SUFFICES ASSUME NEW k \in Same \cap Nat, k + 1 <= n
               PROVE  f[(k + 1) + 1] = c \o g[k + 1]
    OBVIOUS
  <2>1. /\ k + 1 \in 1 .. n /\ (k + 1) + 1 \in 1 .. n + 1
        /\ ((k + 1) + 1) - 1 = k + 1 /\ (k + 1) - 1 = k /\ k <= n /\ k \in 0 .. n
    BY <1>1
  <2>2. /\ f[(k + 1) + 1] = f[k + 1] \o message(d[(k + 1) + 1])
        /\ g[k + 1] = g[k] \o message(e[k + 1])
        /\ d[(k + 1) + 1] = e[k + 1]
        /\ f[k + 1] = c \o g[k]
        /\ g[k] \in Seq(Byte)
    BY <1>1, <1>2, <1>3, <2>1
  <2>3. message(e[k + 1]) \in Seq(Byte)
    <3>1. e[k + 1] \in AnyMessage
      BY <1>1, <2>1, ElementOfSeq
    <3> QED
      BY <3>1, MessageIsBytes
  <2>4. (c \o g[k]) \o message(e[k + 1]) = c \o (g[k] \o message(e[k + 1]))
    <3>1. ASSUME NEW s \in Seq(Byte), NEW t \in Seq(Byte), NEW u \in Seq(Byte)
          PROVE  (s \o t) \o u = s \o (t \o u)
      BY ConcatAssociative
    <3> QED
      BY <1>c, <2>2, <2>3, <3>1, Zenon
  <2> QED
    BY <2>2, <2>4
<1>6. n \in Same
  <2> HIDE DEF Same, n
  <2> QED
    BY <1>1, <1>4, <1>5, SetInduction
<1>7. f[n + 1] = c \o g[n]
  BY <1>1, <1>6
<1> QED
  BY <1>1, <1>2, <1>3, <1>7 DEF e, c
-----------------------------------------------------------------------------
(* What is read of it.                                                     *)

LEMMA BytesJoined ==
    ASSUME NEW s \in Seq(Byte), NEW t \in Seq(Byte)
    PROVE  /\ s \o t \in Seq(Byte) /\ Len(s \o t) = Len(s) + Len(t)
           /\ \A i \in 1 .. Len(s) : (s \o t)[i] = s[i]
           /\ \A i \in 1 .. Len(t) : (s \o t)[Len(s) + i] = t[i]
  BY Joined

LEMMA JoinedAgain ==
    ASSUME NEW s \in Seq(Byte), NEW t \in Seq(Byte), NEW u \in Seq(Byte)
    PROVE  (s \o t) \o u = s \o (t \o u)
  BY ConcatAssociative

\* A piece of the stream goes from what is on its way to what has arrived.
LEMMA PieceArrives ==
    ASSUME NEW u \in Seq(Byte), NEW w \in Seq(Byte), NEW k \in 1 .. Len(w)
    PROVE  /\ u \o SubSeq(w, 1, k) \in Seq(Byte)
           /\ Len(u \o SubSeq(w, 1, k)) = Len(u) + k
           /\ SubSeq(w, k + 1, Len(w)) \in Seq(Byte)
           /\ (u \o SubSeq(w, 1, k)) \o SubSeq(w, k + 1, Len(w)) = u \o w
<1> DEFINE front == SubSeq(w, 1, k)
           back == SubSeq(w, k + 1, Len(w))
<1>1. k \in Nat /\ Len(w) \in Nat /\ 1 <= k /\ k <= Len(w)
      /\ \A i \in 1 .. Len(w) : w[i] \in Byte
  BY LenProperties, ElementOfSeq
<1>2. /\ front \in Seq(Byte) /\ Len(front) = k
      /\ \A i \in 1 .. k : front[i] = w[i]
  OBVIOUS
<1>3. /\ back \in Seq(Byte) /\ Len(back) = Len(w) - k
      /\ \A i \in 1 .. Len(w) - k : back[i] = w[k + i]
  OBVIOUS
<1> HIDE DEF front, back
<1>4. front \o back = w
  <2>1. /\ front \o back \in Seq(Byte) /\ Len(front \o back) = k + (Len(w) - k)
        /\ \A i \in 1 .. k : (front \o back)[i] = front[i]
        /\ \A i \in 1 .. Len(w) - k : (front \o back)[k + i] = back[i]
    <3>1. /\ front \o back \in Seq(Byte)
          /\ Len(front \o back) = Len(front) + Len(back)
          /\ \A i \in 1 .. Len(front) : (front \o back)[i] = front[i]
          /\ \A i \in 1 .. Len(back) : (front \o back)[Len(front) + i] = back[i]
      BY <1>2, <1>3, BytesJoined, Zenon
    <3>2. Len(front) = k /\ Len(back) = Len(w) - k
      BY <1>2, <1>3
    <3> QED
      BY <3>1, <3>2, Zenon
  <2> DEFINE whole == front \o back
  <2> HIDE DEF whole
  <2>2. ASSUME NEW i \in 1 .. Len(w)
        PROVE  whole[i] = w[i]
    <3>1. CASE i <= k
      <4>1. i \in 1 .. k
        BY <1>1, <3>1
      <4> QED
        BY <1>2, <2>1, <4>1 DEF whole
    <3>2. CASE ~(i <= k)
      <4>1. i - k \in 1 .. Len(w) - k /\ k + (i - k) = i
        BY <1>1, <3>2
      <4> QED
        BY <1>3, <2>1, <4>1 DEF whole
    <3> QED
      BY <3>1, <3>2
  <2>3. whole \in Seq(Byte) /\ Len(whole) = Len(w)
    BY <1>1, <2>1 DEF whole
  <2>4. whole = w
    BY <2>2, <2>3, SeqEqual
  <2> QED
    BY <2>4 DEF whole
<1>5. (u \o front) \o back = u \o w
  <2>1. (u \o front) \o back = u \o (front \o back)
    BY <1>2, <1>3, JoinedAgain, Zenon
  <2> QED
    BY <1>4, <2>1
<1>6. u \o front \in Seq(Byte) /\ Len(u \o front) = Len(u) + k
  BY <1>2, Joined
<1> QED
  BY <1>3, <1>5, <1>6 DEF front, back

\* Where a stream begins with c, so does what has arrived of it.
LEMMA FrontAgrees ==
    ASSUME NEW u \in Seq(Byte), NEW w \in Seq(Byte),
           NEW c \in Seq(Byte), NEW rest \in Seq(Byte), u \o w = c \o rest
    PROVE  \A i \in 1 .. Len(u) : i <= Len(c) => u[i] = c[i]
<1>1. Len(u) \in Nat /\ Len(c) \in Nat
  BY LenProperties
<1>2. /\ \A i \in 1 .. Len(u) : (u \o w)[i] = u[i]
      /\ \A i \in 1 .. Len(c) : (c \o rest)[i] = c[i]
  BY Joined
<1>3. ASSUME NEW i \in 1 .. Len(u), i <= Len(c)
      PROVE  u[i] = c[i]
  <2>1. i \in 1 .. Len(c)
    BY <1>1, <1>3
  <2>2. (u \o w)[i] = u[i] /\ (c \o rest)[i] = c[i]
    BY <1>2, <2>1
  <2> QED
    BY <2>2
<1> QED
  BY <1>3

\* What a frame at the front says is a message, and the frame is how that
\* message is written.
LEMMA FrameIsMessage ==
    ASSUME NEW b \in Seq(Byte), HasFrame(b)
    PROVE  /\ Contents(b) \in AnyMessage
           /\ Frame(b) = message(Contents(b))
           /\ Consumed(b) \in Seq(Byte)
<1> DEFINE n == b[4] % 16
           m == Contents(b)
           head == SubSeq(b, 1, 4 + n)
           data == SubSeq(b, 5, 4 + n)
<1> HIDE DEF n, m, head, data
<1>0. Len(b) \in Nat /\ \A i \in 1 .. Len(b) : b[i] \in 0 .. 255
  BY LenProperties, ElementOfSeq DEF Byte
<1>h. /\ ~(Len(b) < 6) /\ ~(Len(b) < FrameLength(b)) /\ b[1] = STX /\ HasTrailer(b)
      /\ b[2] \div 4 = 62 /\ (b[4] \div 16) \in {0, 4}
  BY DEF HasFrame, HasHeader, InsufficientData
<1>3. b[1] \in 0 .. 255 /\ b[2] \in 0 .. 255 /\ b[3] \in 0 .. 255 /\ b[4] \in 0 .. 255
  <2>1. ~(Len(b) < 6)
    BY <1>h
  <2>2. 1 \in 1 .. Len(b) /\ 2 \in 1 .. Len(b) /\ 3 \in 1 .. Len(b) /\ 4 \in 1 .. Len(b)
    BY <1>0, <2>1
  <2> QED
    BY <1>0, <2>2, Zenon
<1>4. n \in 0 .. 15 /\ FrameLength(b) = 6 + n
  <2>1. \A x \in 0 .. 255 : x % 16 \in 0 .. 15
    OBVIOUS
  <2> QED
    BY <1>3, <2>1 DEF FrameLength, n
<1>1. Len(b) \in Nat /\ \A i \in 1 .. Len(b) : b[i] \in 0 .. 255
  BY <1>0
<1>2. /\ Len(b) >= 6 /\ b[1] = STX /\ b[2] \div 4 = 62 /\ (b[4] \div 16) \in {0, 4}
      /\ Len(b) >= 6 + n /\ HasTrailer(b)
  <2>1. Len(b) >= 6 /\ Len(b) >= 6 + n
    BY <1>0, <1>4, <1>h
  <2> QED
    BY <1>h, <2>1
<1>5. b[2] % 4 \in 0 .. 3 /\ 248 + (b[2] % 4) = b[2]
  <2>1. \A x \in 0 .. 255 : x \div 4 = 62 => x % 4 \in 0 .. 3 /\ 248 + (x % 4) = x
    OBVIOUS
  <2> QED
    BY <1>2, <1>3, <2>1
<1>6. b[4] \div 64 \in {0, 1} /\ 64 * (b[4] \div 64) + n = b[4]
  <2>1. \A x \in 0 .. 255 : (x \div 16) \in {0, 4} =>
           x \div 64 \in {0, 1} /\ 64 * (x \div 64) + (x % 16) = x
    OBVIOUS
  <2> QED
    BY <1>2, <1>3, <2>1 DEF n
<1>7. /\ data \in Seq(Byte) /\ Len(data) = n
      /\ \A i \in 1 .. n : data[i] = b[4 + i]
  <2>1. \A i \in 5 .. 4 + n : b[i] \in Byte
    BY <1>1, <1>2, <1>4 DEF Byte
  <2>2. /\ data \in Seq(Byte)
        /\ Len(data) = IF 5 <= 4 + n THEN (4 + n) - 5 + 1 ELSE 0
        /\ \A i \in 1 .. (4 + n) - 5 + 1 : data[i] = b[5 + i - 1]
    BY <1>4, <2>1, SubSeqProperties DEF data
  <2> QED
    BY <1>4, <2>2
<1>8. /\ head \in Seq(Byte) /\ Len(head) = 4 + n
      /\ \A i \in 1 .. 4 + n : head[i] = b[i]
  <2>1. \A i \in 1 .. 4 + n : b[i] \in Byte
    BY <1>1, <1>2, <1>4 DEF Byte
  <2>2. /\ head \in Seq(Byte)
        /\ Len(head) = IF 1 <= 4 + n THEN (4 + n) - 1 + 1 ELSE 0
        /\ \A i \in 1 .. (4 + n) - 1 + 1 : head[i] = b[1 + i - 1]
    BY <1>4, <2>1, SubSeqProperties DEF head
  <2> QED
    BY <1>4, <2>2
<1>9. m = [prio |-> b[2] % 4, address |-> b[3], rtr |-> b[4] \div 64, data |-> data]
  <2>1. (6 + n) - 2 = 4 + n
    BY <1>4
  <2> QED
    BY <1>4, <2>1 DEF Contents, m, data
<1>10. m \in AnyMessage
  <2>1. b[3] \in Byte /\ n <= 15
    BY <1>3, <1>4 DEF Byte
  <2> QED
    BY <1>5, <1>6, <1>7, <1>9, <2>1 DEF AnyMessage
<1>11. Header(m) = <<b[1], b[2], b[3], b[4]>>
  <2>1. m.prio = b[2] % 4 /\ m.address = b[3] /\ m.rtr = b[4] \div 64 /\ Len(m.data) = n
    BY <1>7, <1>9
  <2> QED
    BY <1>2, <1>5, <1>6, <2>1 DEF Header
<1>12. Summed(m) = head
  <2> DEFINE first == <<b[1], b[2], b[3], b[4]>>
             whole == first \o data
  <2>1. first \in Seq(Byte) /\ Len(first) = 4
        /\ first[1] = b[1] /\ first[2] = b[2] /\ first[3] = b[3] /\ first[4] = b[4]
    BY <1>3 DEF Byte
  <2> HIDE DEF first
  <2>2. /\ whole \in Seq(Byte) /\ Len(whole) = Len(first) + Len(data)
        /\ \A i \in 1 .. Len(first) : whole[i] = first[i]
        /\ \A i \in 1 .. Len(data) : whole[Len(first) + i] = data[i]
    BY <1>7, <2>1, BytesJoined, Zenon DEF whole
  <2> HIDE DEF whole
  <2>3. ASSUME NEW i \in 1 .. 4 + n
        PROVE  whole[i] = b[i]
    <3>1. CASE i <= 4
      <4>1. i = 1 \/ i = 2 \/ i = 3 \/ i = 4
        BY <1>4, <3>1
      <4>2. i \in 1 .. Len(first)
        BY <2>1, <4>1
      <4> QED
        BY <2>1, <2>2, <4>1, <4>2
    <3>2. CASE ~(i <= 4)
      <4>1. i - 4 \in 1 .. n /\ 4 + (i - 4) = i
        BY <1>4, <3>2
      <4>2. whole[4 + (i - 4)] = data[i - 4]
        BY <1>7, <2>1, <2>2, <4>1
      <4>3. data[i - 4] = b[4 + (i - 4)]
        BY <1>7, <4>1
      <4> QED
        BY <4>1, <4>2, <4>3
    <3> QED
      BY <3>1, <3>2
  <2>4. whole \in Seq(Byte) /\ Len(whole) = Len(head) /\ Len(whole) = 4 + n
    BY <1>4, <1>7, <1>8, <2>1, <2>2
  <2>5. whole = head
    BY <1>8, <2>3, <2>4, SeqEqual
  <2>6. m.data = data
    BY <1>9
  <2> QED
    BY <1>11, <2>5, <2>6 DEF Summed, whole, first
<1>13. b[5 + n] = Checksum(head) /\ b[6 + n] = ETX
  <2>1. (6 + n) - 1 = 5 + n /\ (6 + n) - 2 = 4 + n
    BY <1>4
  <2> QED
    BY <1>2, <1>4, <2>1 DEF HasTrailer, head
<1>14. message(m) = head \o <<b[5 + n], b[6 + n]>>
  <2>1. message(m) = Summed(m) \o <<Checksum(Summed(m)), ETX>>
    BY DEF message, Summed, Header
  <2> QED
    BY <1>12, <1>13, <2>1
<1>15. Frame(b) = SubSeq(b, 1, 6 + n)
  BY <1>4 DEF Frame
<1>16. Frame(b) = head \o <<b[5 + n], b[6 + n]>>
  <2> DEFINE last == <<b[5 + n], b[6 + n]>>
             whole == head \o last
             frame == SubSeq(b, 1, 6 + n)
  <2>0. 5 + n \in 1 .. Len(b) /\ 6 + n \in 1 .. Len(b)
    BY <1>1, <1>2, <1>4
  <2>1. last \in Seq(Byte) /\ Len(last) = 2 /\ last[1] = b[5 + n] /\ last[2] = b[6 + n]
    <3>1. b[5 + n] \in Byte /\ b[6 + n] \in Byte
      BY <1>1, <2>0 DEF Byte
    <3> QED
      BY <3>1
  <2> HIDE DEF last
  <2>2. /\ whole \in Seq(Byte) /\ Len(whole) = Len(head) + Len(last)
        /\ \A i \in 1 .. Len(head) : whole[i] = head[i]
        /\ \A i \in 1 .. Len(last) : whole[Len(head) + i] = last[i]
    BY <1>8, <2>1, BytesJoined, Zenon DEF whole
  <2>3. /\ frame \in Seq(Byte) /\ Len(frame) = 6 + n
        /\ \A i \in 1 .. 6 + n : frame[i] = b[i]
    <3>1. \A i \in 1 .. 6 + n : b[i] \in Byte
      BY <1>1, <1>2, <1>4 DEF Byte
    <3>2. /\ frame \in Seq(Byte)
          /\ Len(frame) = IF 1 <= 6 + n THEN (6 + n) - 1 + 1 ELSE 0
          /\ \A i \in 1 .. (6 + n) - 1 + 1 : frame[i] = b[1 + i - 1]
      BY <1>4, <3>1, SubSeqProperties
    <3> HIDE DEF frame
    <3> QED
      BY <1>4, <3>2
  <2> HIDE DEF whole, frame
  <2>4. ASSUME NEW i \in 1 .. 6 + n
        PROVE  whole[i] = b[i]
    <3>1. CASE i <= 4 + n
      <4>1. i \in 1 .. 4 + n
        BY <1>4, <3>1
      <4> QED
        BY <1>8, <2>2, <4>1
    <3>2. CASE ~(i <= 4 + n)
      <4>1. i = 5 + n \/ i = 6 + n
        BY <1>4, <3>2
      <4>2. whole[(4 + n) + 1] = last[1] /\ whole[(4 + n) + 2] = last[2]
        <5>1. 1 \in 1 .. Len(last) /\ 2 \in 1 .. Len(last)
          BY <2>1
        <5> QED
          BY <1>8, <2>2, <5>1
      <4>3. (4 + n) + 1 = 5 + n /\ (4 + n) + 2 = 6 + n
        BY <1>4
      <4> QED
        BY <2>1, <4>1, <4>2, <4>3
    <3> QED
      BY <3>1, <3>2
  <2>5. Len(whole) = 6 + n
    BY <1>4, <1>8, <2>1, <2>2
  <2>6. whole = frame
    BY <2>2, <2>3, <2>4, <2>5, SeqEqual
  <2> QED
    BY <1>15, <2>6 DEF whole, last, frame
<1>17. Consumed(b) \in Seq(Byte)
  <2>1. Consumed(b) = SubSeq(b, (6 + n) + 1, Len(b))
    BY <1>4 DEF Consumed
  <2>2. \A i \in (6 + n) + 1 .. Len(b) : b[i] \in Byte
    BY <1>1, <1>4 DEF Byte
  <2>3. SubSeq(b, (6 + n) + 1, Len(b)) \in Seq(Byte)
    BY <1>1, <1>4, <2>2, SubSeqProperties
  <2> QED
    BY <2>1, <2>3
<1> QED
  BY <1>10, <1>14, <1>16, <1>17 DEF m

\* What the first six bytes and the first message of a stream have in common.
Front(d, u, w) ==
    LET m == Head(d)
        n == Len(m.data)
        r == SubSeq(u, 7 + n, Len(u))
    IN /\ d # <<>> /\ m \in AnyMessage /\ Tail(d) \in Seq(AnyMessage)
       /\ m.prio \in 0 .. 3 /\ m.rtr \in {0, 1} /\ n \in 0 .. 15
       /\ u[1] = STX /\ u[2] = 248 + m.prio /\ u[3] = m.address
       /\ u[4] = 64 * m.rtr + n
       /\ Len(u) >= 6 + n =>
             /\ r \in Seq(Byte) /\ u = message(m) \o r
             /\ Bytes(Tail(d)) = r \o w

\* What has arrived of the stream of some messages: as soon as it could be a
\* frame its header is the first message's, and when it is as long as that
\* message's frame it begins with it.
LEMMA StreamFront ==
    ASSUME NEW d \in Seq(AnyMessage), NEW u \in Seq(Byte), NEW w \in Seq(Byte),
           Bytes(d) = u \o w, Len(u) >= 6
    PROVE  Front(d, u, w)
<1> DEFINE m == Head(d)
           n == Len(m.data)
           r == SubSeq(u, 7 + n, Len(u))
           c == message(m)
           rest == Bytes(Tail(d))
<1>1. Len(u) \in Nat /\ Len(w) \in Nat /\ u \o w \in Seq(Byte)
      /\ Len(u \o w) = Len(u) + Len(w)
  BY LenProperties, ConcatProperties
<1>2. d # <<>>
  <2> SUFFICES ASSUME d = <<>> PROVE FALSE
    OBVIOUS
  <2>1. Len(u \o w) = 0
    BY BytesEmpty, EmptySeq
  <2> QED
    BY <1>1, <2>1
<1>3. m \in AnyMessage /\ Tail(d) \in Seq(AnyMessage) /\ u \o w = c \o rest
  BY <1>2, BytesHead
<1>4. rest \in Seq(Byte) /\ c \in Seq(Byte) /\ Len(c) = 6 + n /\ n \in 0 .. 15
  BY <1>3, BytesTyped, MessageIsBytes
<1>5. m.prio \in 0 .. 3 /\ m.rtr \in {0, 1}
  BY <1>3 DEF AnyMessage
<1>6. c[1] = STX /\ c[2] = 248 + m.prio /\ c[3] = m.address /\ c[4] = 64 * m.rtr + n
  <2>1. <<>> \in Seq(Byte)
    BY EmptySeq
  <2>2. c \o <<>> = c
    BY <1>4, ConcatEmptySeq
  <2> DEFINE e == c \o <<>>
  <2>3. e[1] = STX /\ e[2] = 248 + m.prio /\ e[3] = m.address /\ e[4] = 64 * m.rtr + n
    BY <1>3, <2>1, Layout
  <2> HIDE DEF m, c
  <2> QED
    BY <2>2, <2>3
<1> HIDE DEF m, n, r, c, rest
<1>7. \A i \in 1 .. Len(u) : i <= Len(c) => u[i] = c[i]
  BY <1>3, <1>4, FrontAgrees
<1>8. u[1] = c[1] /\ u[2] = c[2] /\ u[3] = c[3] /\ u[4] = c[4]
  BY <1>1, <1>4, <1>7
<1>9. ASSUME Len(u) >= 6 + n
      PROVE  /\ SubSeq(u, 7 + n, Len(u)) \in Seq(Byte)
             /\ u = c \o SubSeq(u, 7 + n, Len(u))
             /\ rest = SubSeq(u, 7 + n, Len(u)) \o w
  <2> DEFINE k == Len(c)
             left == SubSeq(u, k + 1, Len(u))
  <2>1. k \in Nat /\ Len(u) \in Nat /\ k <= Len(u) /\ k + 1 = 7 + n
    BY <1>1, <1>4, <1>9
  <2>c. c \in Seq(Byte) /\ rest \in Seq(Byte)
    BY <1>4
  <2>2. /\ left \in Seq(Byte) /\ Len(left) = Len(u) - k
        /\ \A i \in 1 .. Len(u) - k : left[i] = u[k + i]
    <3> HIDE DEF k
    <3> QED
      BY <2>1
  <2> HIDE DEF left
  <2>3. /\ c \o left \in Seq(Byte) /\ Len(c \o left) = k + (Len(u) - k)
        /\ \A i \in 1 .. k : (c \o left)[i] = c[i]
        /\ \A i \in 1 .. Len(u) - k : (c \o left)[k + i] = left[i]
    <3>1. /\ c \o left \in Seq(Byte) /\ Len(c \o left) = Len(c) + Len(left)
          /\ \A i \in 1 .. Len(c) : (c \o left)[i] = c[i]
          /\ \A i \in 1 .. Len(left) : (c \o left)[Len(c) + i] = left[i]
      BY <2>2, <2>c, BytesJoined, Zenon
    <3>2. Len(left) = Len(u) - k
      BY <2>2
    <3> QED
      BY <3>1, <3>2, Zenon
  <2>4. \A i \in 1 .. Len(u) : i <= k => u[i] = c[i]
    BY <1>7
  <2>5. c \o left = u
    <3> DEFINE whole == c \o left
    <3> HIDE DEF whole, k
    <3>1. ASSUME NEW i \in 1 .. Len(u)
          PROVE  whole[i] = u[i]
      <4>1. CASE i <= k
        <5>1. i \in 1 .. k
          BY <2>1, <4>1
        <5> QED
          BY <2>3, <2>4, <4>1, <5>1 DEF whole
      <4>2. CASE ~(i <= k)
        <5>1. i - k \in 1 .. Len(u) - k /\ k + (i - k) = i
          BY <2>1, <4>2
        <5> QED
          BY <2>2, <2>3, <5>1 DEF whole
      <4> QED
        BY <4>1, <4>2
    <3>2. whole \in Seq(Byte) /\ Len(whole) = Len(u)
      BY <2>1, <2>3 DEF whole
    <3>3. whole = u
      BY <3>1, <3>2, SeqEqual
    <3> QED
      BY <3>3 DEF whole
  <2>6. c \o (left \o w) = c \o rest
    <3>1. (c \o left) \o w = c \o (left \o w)
      BY <2>2, <2>c, JoinedAgain, Zenon
    <3> QED
      BY <1>3, <2>5, <3>1
  <2>7. left \o w \in Seq(Byte)
    BY <2>2, ConcatProperties
  <2>8. left \o w = rest
    BY <2>6, <2>7, <2>c, ConcatSimplifications
  <2> QED
    BY <2>1, <2>2, <2>5, <2>8 DEF left
<1> QED
  BY <1>2, <1>3, <1>4, <1>5, <1>6, <1>8, <1>9 DEF m, n, r, c, rest, Front
-----------------------------------------------------------------------------
(* velbusweb: the client of velbusd.                                       *)

\* The inductive invariant of the client.  When a connection has ended inside
\* a frame nothing is promised, until velbusweb is started again.
ClientInv ==
    /\ torn \in BOOLEAN
    /\ ~torn =>
          /\ unprocessed_data \in Seq(Byte) /\ wire \in Seq(Byte)
          /\ due \in Seq(AnyMessage)
          /\ Bytes(due) = unprocessed_data \o wire
          /\ n_unprocessed_data = Len(unprocessed_data)
          /\ ~astray
          /\ ~processing => n_unprocessed_data <= 6

\* Where nothing was torn, the loop finds the first message, or waits for it.
LEMMA LoopFinds ==
    ASSUME ClientInv, ~torn, n_unprocessed_data > 6
    PROVE  /\ StartsFrame /\ due # <<>> /\ Tail(due) \in Seq(AnyMessage)
           /\ ~Incomplete =>
                 /\ At(5 + length) = ETX /\ ChecksumHolds
                 /\ Parsed = Head(due)
                 /\ DropFrame(unprocessed_data) \in Seq(Byte)
                 /\ Bytes(Tail(due)) = DropFrame(unprocessed_data) \o wire
<1> DEFINE u == unprocessed_data
           m == Head(due)
           n == Len(m.data)
           r == SubSeq(u, 7 + n, Len(u))
<1>1. /\ u \in Seq(Byte) /\ wire \in Seq(Byte) /\ due \in Seq(AnyMessage)
      /\ Bytes(due) = u \o wire /\ n_unprocessed_data = Len(u)
  BY DEF ClientInv
<1>2. Len(u) \in Nat /\ Len(u) >= 6
  BY <1>1, LenProperties
<1>3. /\ due # <<>> /\ m \in AnyMessage /\ Tail(due) \in Seq(AnyMessage)
      /\ m.prio \in 0 .. 3 /\ m.rtr \in {0, 1} /\ n \in 0 .. 15
      /\ u[1] = STX /\ u[2] = 248 + m.prio /\ u[3] = m.address
      /\ u[4] = 64 * m.rtr + n
      /\ Len(u) >= 6 + n =>
            /\ r \in Seq(Byte) /\ u = message(m) \o r
            /\ Bytes(Tail(due)) = r \o wire
  <2>1. /\ u \in Seq(Byte) /\ wire \in Seq(Byte) /\ due \in Seq(AnyMessage)
        /\ Bytes(due) = u \o wire /\ Len(u) >= 6
    BY <1>1, <1>2
  <2>2. Front(due, u, wire)
    <3> HIDE DEF u
    <3> QED
      BY <2>1, StreamFront
  <2> QED
    BY <2>2 DEF Front
<1> HIDE DEF n, r
<1>4. (248 + m.prio) \div 4 = 62 /\ (248 + m.prio) % 4 = m.prio
  <2>1. \A p \in 0 .. 3 : (248 + p) \div 4 = 62 /\ (248 + p) % 4 = p
    OBVIOUS
  <2> QED
    BY <1>3, <2>1
<1>5. (64 * m.rtr + n) % 16 = n /\ ((64 * m.rtr + n) \div 64) % 2 = m.rtr
  <2>1. \A b \in {0, 1}, k \in 0 .. 15 :
           (64 * b + k) % 16 = k /\ ((64 * b + k) \div 64) % 2 = b
    <3>1. \A k \in 0 .. 15 : k % 16 = k /\ (k \div 64) % 2 = 0
                             /\ (64 + k) % 16 = k /\ ((64 + k) \div 64) % 2 = 1
      OBVIOUS
    <3> QED
      BY <3>1
  <2> QED
    BY <1>3, <2>1
<1>6. At(0) = STX /\ At(1) = 248 + m.prio /\ At(2) = m.address
      /\ At(3) = 64 * m.rtr + n /\ length = n
  BY <1>3, <1>5 DEF At, length
<1>7. StartsFrame
  BY <1>4, <1>6 DEF StartsFrame
<1>8. ASSUME ~Incomplete
      PROVE  /\ At(5 + length) = ETX /\ ChecksumHolds
             /\ Parsed = m
             /\ DropFrame(u) \in Seq(Byte)
             /\ Bytes(Tail(due)) = DropFrame(u) \o wire
  <2>1. Len(u) >= 6 + n
    BY <1>1, <1>2, <1>3, <1>6, <1>8 DEF Incomplete
  <2>2. r \in Seq(Byte) /\ u = message(m) \o r /\ Bytes(Tail(due)) = r \o wire
    BY <1>3, <2>1
  <2>3. /\ u[5 + n] = Checksum(Summed(m)) /\ u[6 + n] = ETX
        /\ SubSeq(u, 1, 4 + n) = Summed(m)
        /\ SubSeq(u, 5, 4 + n) = m.data
    <3> HIDE DEF m
    <3> QED
      BY <1>3, <2>2, Layout DEF n
  <2>4. At(5 + length) = ETX /\ At(4 + length) = Checksum(Summed(m))
    <3>1. (5 + n) + 1 = 6 + n /\ (4 + n) + 1 = 5 + n
      BY <1>3
    <3> QED
      BY <1>6, <2>3, <3>1 DEF At
  <2>5. ChecksumHolds
    BY <1>6, <2>3, <2>4 DEF ChecksumHolds
  <2>6. DropFrame(u) = r
    BY <1>6 DEF DropFrame, r
  <2>7. Parsed = m
    <3>1. Parsed = [prio |-> m.prio, address |-> m.address, rtr |-> m.rtr, data |-> m.data]
      BY <1>4, <1>5, <1>6, <2>3 DEF Parsed
    <3>2. m = [prio |-> m.prio, address |-> m.address, rtr |-> m.rtr, data |-> m.data]
      <4> HIDE DEF m
      <4> QED
        BY <1>3 DEF AnyMessage
    <3> QED
      BY <3>1, <3>2
  <2> QED
    BY <2>2, <2>4, <2>5, <2>6, <2>7
<1> QED
  BY <1>3, <1>7, <1>8

LEMMA ClientStart ==
    ASSUME torn = FALSE, unprocessed_data = <<>>, wire = <<>>, due = <<>>,
           n_unprocessed_data = 0, astray = FALSE
    PROVE  ClientInv
<1>1. <<>> \in Seq(Byte) /\ <<>> \in Seq(AnyMessage) /\ Len(<<>>) = 0
  BY EmptySeq
<1>2. Bytes(<<>>) = <<>> \o <<>>
  <2>1. <<>> \o <<>> = <<>>
    BY <1>1, ConcatEmptySeq
  <2> QED
    BY <2>1, BytesEmpty
<1>3. /\ Bytes(due) = unprocessed_data \o wire
      /\ unprocessed_data \in Seq(Byte) /\ wire \in Seq(Byte) /\ due \in Seq(AnyMessage)
  BY <1>1, <1>2, Zenon
<1>4. n_unprocessed_data = Len(unprocessed_data) /\ n_unprocessed_data <= 6
  <2>1. 0 <= 6
    OBVIOUS
  <2> QED
    BY <1>1, <2>1, Zenon
<1>5. torn \in BOOLEAN
  OBVIOUS
<1> QED
  BY <1>3, <1>4, <1>5, Zenon DEF ClientInv

LEMMA ClientStutter ==
    ASSUME ClientInv,
           UNCHANGED <<wire, unprocessed_data, n_unprocessed_data, due, astray, torn>>,
           processing' = processing \/ n_unprocessed_data <= 6
    PROVE  ClientInv'
BY DEF ClientInv

\* A message is written to the connection.
LEMMA StreamGrows ==
    ASSUME ClientInv, NEW m \in AnyMessage,
           wire' = wire \o message(m), due' = Append(due, m),
           UNCHANGED <<unprocessed_data, n_unprocessed_data, processing, astray, torn>>
    PROVE  ClientInv'
<1> SUFFICES ASSUME ~torn
             PROVE  /\ wire' \in Seq(Byte) /\ due' \in Seq(AnyMessage)
                    /\ Bytes(due') = unprocessed_data \o wire'
  BY DEF ClientInv
<1>1. /\ unprocessed_data \in Seq(Byte) /\ wire \in Seq(Byte) /\ due \in Seq(AnyMessage)
      /\ Bytes(due) = unprocessed_data \o wire
  BY DEF ClientInv
<1>2. message(m) \in Seq(Byte)
  BY MessageIsBytes
<1>3. wire' \in Seq(Byte) /\ due' \in Seq(AnyMessage)
  BY <1>1, <1>2, ConcatProperties, AppendProperties
<1>4. Bytes(Append(due, m)) = Bytes(due) \o message(m)
  BY <1>1, BytesAppend
<1>5. (unprocessed_data \o wire) \o message(m) = unprocessed_data \o (wire \o message(m))
  BY <1>1, <1>2, JoinedAgain, Zenon
<1> QED
  BY <1>1, <1>3, <1>4, <1>5

\* The loop of process_data.
LEMMA LoopKeeps ==
    ASSUME ClientInv, process_data
    PROVE  ClientInv'
<1>1. CASE torn
  <2>1. torn' = torn
    BY DEF process_data, LosesSync, WaitsInLoop, EmitsFrame, EmitsBroken, process_message,
           ProcessDone, history
  <2> QED
    BY <1>1, <2>1 DEF ClientInv
<1>2. CASE ~torn
  <2>1. CASE ProcessDone
    <3>1. n_unprocessed_data <= 6
      <4>1. n_unprocessed_data \in Nat
        BY <1>2, LenProperties DEF ClientInv
      <4>2. ~(n_unprocessed_data > 6)
        BY <2>1 DEF ProcessDone, MoreToProcess
      <4> QED
        BY <4>1, <4>2
    <3> QED
      BY <2>1, <3>1, ClientStutter DEF ProcessDone, buffer, history
  <2> SUFFICES ASSUME LosesSync \/ WaitsInLoop \/ EmitsFrame \/ EmitsBroken
               PROVE  ClientInv'
    BY <2>1 DEF process_data
  <2>2. process_message /\ n_unprocessed_data > 6 /\ processing
    BY DEF LosesSync, WaitsInLoop, EmitsFrame, EmitsBroken, process_message, MoreToProcess
  <2>3. /\ StartsFrame /\ due # <<>> /\ Tail(due) \in Seq(AnyMessage)
        /\ ~Incomplete =>
              /\ At(5 + length) = ETX /\ ChecksumHolds
              /\ Parsed = Head(due)
              /\ DropFrame(unprocessed_data) \in Seq(Byte)
              /\ Bytes(Tail(due)) = DropFrame(unprocessed_data) \o wire
    BY <1>2, <2>2, LoopFinds
  <2>4. CASE WaitsInLoop
    BY <2>4, ClientStutter DEF WaitsInLoop, process_message, buffer
  <2>5. CASE EmitsFrame
    <3>1. /\ ~Incomplete
          /\ unprocessed_data' = DropFrame(unprocessed_data)
          /\ n_unprocessed_data' = Len(DropFrame(unprocessed_data))
          /\ UNCHANGED <<wire, processing, torn>>
      BY <2>5 DEF EmitsFrame, Keep, process_message
    <3>2. due' = Tail(due) /\ UNCHANGED astray
      BY <2>3, <2>5, <3>1 DEF EmitsFrame, Emit
    <3> QED
      BY <1>2, <2>2, <2>3, <3>1, <3>2 DEF ClientInv
  <2>6. ~LosesSync /\ ~EmitsBroken
    BY <2>3 DEF LosesSync, EmitsBroken
  <2> QED
    BY <2>4, <2>5, <2>6
<1> QED
  BY <1>1, <1>2

LEMMA SocketKeeps ==
    ASSUME ClientInv,
           Connect \/ Close \/ Restart \/ (\E k \in 1 .. Len(wire) : Data(k))
    PROVE  ClientInv'
<1>1. CASE Connect
  BY <1>1, ClientStutter DEF Connect, buffer, history
<1>2. CASE Restart
  <2>1. /\ torn' = FALSE /\ unprocessed_data' = <<>> /\ wire' = <<>> /\ due' = <<>>
        /\ n_unprocessed_data' = 0 /\ astray' = FALSE
    BY <1>2 DEF Restart
  <2>2. <<>> \in Seq(Byte) /\ <<>> \in Seq(AnyMessage) /\ Len(<<>>) = 0
    BY EmptySeq
  <2>3. Bytes(<<>>) = <<>> \o <<>>
    <3>1. <<>> \o <<>> = <<>>
      BY <2>2, ConcatEmptySeq
    <3> QED
      BY <3>1, BytesEmpty
  <2>4. /\ Bytes(due') = unprocessed_data' \o wire'
        /\ unprocessed_data' \in Seq(Byte) /\ wire' \in Seq(Byte)
        /\ due' \in Seq(AnyMessage)
    BY <2>1, <2>2, <2>3, Zenon
  <2>5. n_unprocessed_data' = Len(unprocessed_data') /\ n_unprocessed_data' <= 6
    <3>1. 0 <= 6
      OBVIOUS
    <3> QED
      BY <2>1, <2>2, <3>1, Zenon
  <2>6. torn' \in BOOLEAN
    BY <2>1
  <2> QED
    BY <2>1, <2>4, <2>5, <2>6, Zenon DEF ClientInv
<1>3. CASE Close
  <2>1. /\ torn' = (torn \/ unprocessed_data # <<>>) /\ wire' = <<>> /\ due' = <<>>
        /\ UNCHANGED <<unprocessed_data, n_unprocessed_data, processing, astray>>
    BY <1>3 DEF Close, buffer
  <2>2. torn' \in BOOLEAN
    BY <2>1
  <2>3. ASSUME ~torn'
        PROVE  /\ ~torn /\ unprocessed_data = <<>>
               /\ wire' \in Seq(Byte) /\ due' \in Seq(AnyMessage)
               /\ Bytes(due') = unprocessed_data' \o wire'
    <3>1. ~torn /\ unprocessed_data = <<>>
      BY <2>1, <2>3
    <3>2. <<>> \in Seq(Byte) /\ <<>> \in Seq(AnyMessage)
      BY EmptySeq
    <3>3. <<>> \o <<>> = <<>>
      BY <3>2, ConcatEmptySeq
    <3> QED
      BY <2>1, <3>1, <3>2, <3>3, BytesEmpty
  <2> QED
    BY <2>1, <2>2, <2>3 DEF ClientInv
<1>4. ASSUME NEW k \in 1 .. Len(wire), Data(k)
      PROVE  ClientInv'
  <2>1. /\ unprocessed_data' = unprocessed_data \o SubSeq(wire, 1, k)
        /\ n_unprocessed_data' = n_unprocessed_data + k
        /\ wire' = SubSeq(wire, k + 1, Len(wire))
        /\ processing' = TRUE /\ UNCHANGED <<due, astray, torn>>
    BY <1>4 DEF Data, history
  <2>2. ASSUME ~torn
        PROVE  /\ unprocessed_data' \in Seq(Byte) /\ wire' \in Seq(Byte)
               /\ Bytes(due) = unprocessed_data' \o wire'
               /\ n_unprocessed_data' = Len(unprocessed_data')
    <3>1. /\ unprocessed_data \in Seq(Byte) /\ wire \in Seq(Byte)
          /\ Bytes(due) = unprocessed_data \o wire
          /\ n_unprocessed_data = Len(unprocessed_data)
      BY <2>2 DEF ClientInv
    <3>2. /\ unprocessed_data \o SubSeq(wire, 1, k) \in Seq(Byte)
          /\ Len(unprocessed_data \o SubSeq(wire, 1, k)) = Len(unprocessed_data) + k
          /\ SubSeq(wire, k + 1, Len(wire)) \in Seq(Byte)
          /\ (unprocessed_data \o SubSeq(wire, 1, k)) \o SubSeq(wire, k + 1, Len(wire))
                = unprocessed_data \o wire
      BY <3>1, PieceArrives
    <3> QED
      BY <2>1, <3>1, <3>2, Zenon
  <2> QED
    BY <2>1, <2>2 DEF ClientInv
<1> QED
  BY <1>1, <1>2, <1>3, <1>4

\* What the properties say follows.
LEMMA ClientPromises ==
    ASSUME ClientInv
    PROVE  Conserved /\ Faithful /\ Prompt
<1>1. Conserved
  BY DEF ClientInv, Conserved
<1>2. Faithful
  BY DEF ClientInv, Faithful
<1>3. ASSUME ~torn, ~processing, wire = <<>>
      PROVE  Len(due) <= 1 /\ (due # <<>> => Head(due).data = <<>>)
  <2>1. /\ unprocessed_data \in Seq(Byte) /\ due \in Seq(AnyMessage)
        /\ Bytes(due) = unprocessed_data \o <<>>
        /\ n_unprocessed_data = Len(unprocessed_data) /\ n_unprocessed_data <= 6
    BY <1>3 DEF ClientInv
  <2>2. unprocessed_data \o <<>> = unprocessed_data
    BY <2>1, ConcatEmptySeq
  <2>3. Bytes(due) = unprocessed_data /\ Len(Bytes(due)) <= 6
    BY <2>1, <2>2
  <2>4. CASE due = <<>>
    BY <2>4
  <2>5. CASE due # <<>>
    <3>1. /\ Head(due) \in AnyMessage /\ Tail(due) \in Seq(AnyMessage)
          /\ Bytes(due) = message(Head(due)) \o Bytes(Tail(due))
      BY <2>1, <2>5, BytesHead
    <3>2. /\ message(Head(due)) \in Seq(Byte)
          /\ Len(message(Head(due))) = 6 + Len(Head(due).data)
          /\ Len(Head(due).data) \in 0 .. 15
          /\ Bytes(Tail(due)) \in Seq(Byte)
      BY <3>1, MessageIsBytes, BytesTyped
    <3>3. Len(Bytes(due)) = Len(message(Head(due))) + Len(Bytes(Tail(due)))
      BY <3>1, <3>2, ConcatProperties
    <3>4. Len(Bytes(Tail(due))) \in Nat
      BY <3>2, LenProperties
    <3>5. Len(Head(due).data) = 0 /\ Len(Bytes(Tail(due))) = 0
      BY <2>3, <3>2, <3>3, <3>4
    <3>6. Head(due).data = <<>>
      <4>1. Head(due).data \in Seq(Byte)
        BY <3>1 DEF AnyMessage
      <4> QED
        BY <3>5, <4>1, EmptySeq
    <3>7. Tail(due) = <<>>
      <4> SUFFICES ASSUME Tail(due) # <<>> PROVE FALSE
        OBVIOUS
      <4> DEFINE t == Tail(due)
      <4>0. t \in Seq(AnyMessage) /\ t # <<>>
        BY <3>1
      <4> HIDE DEF t
      <4>1. /\ Head(t) \in AnyMessage /\ Tail(t) \in Seq(AnyMessage)
            /\ Bytes(t) = message(Head(t)) \o Bytes(Tail(t))
        BY <4>0, BytesHead
      <4>2. /\ message(Head(t)) \in Seq(Byte) /\ Bytes(Tail(t)) \in Seq(Byte)
            /\ Len(message(Head(t))) = 6 + Len(Head(t).data)
            /\ Len(Head(t).data) \in 0 .. 15
        BY <4>1, MessageIsBytes, BytesTyped
      <4>3. Len(Bytes(t)) = Len(message(Head(t))) + Len(Bytes(Tail(t)))
            /\ Len(Bytes(Tail(t))) \in Nat
        BY <4>1, <4>2, ConcatProperties, LenProperties
      <4>4. Len(Bytes(t)) = 0
        BY <3>5 DEF t
      <4>5. \A a, b \in Nat : 6 + a + b # 0
        OBVIOUS
      <4>6. \A a \in 0 .. 15 : a \in Nat
        OBVIOUS
      <4>7. Len(Head(t).data) \in Nat
        BY <4>2, <4>6, Zenon
      <4>8. (6 + Len(Head(t).data)) + Len(Bytes(Tail(t))) = 0
        BY <4>2, <4>3, <4>4, Zenon
      <4> QED
        BY <4>3, <4>5, <4>7, <4>8, Zenon
    <3>8. Len(due) = 1
      <4>1. Len(Tail(due)) = Len(due) - 1 /\ Len(due) \in Nat
        BY <2>1, <2>5, HeadTailProperties, LenProperties
      <4>2. Len(Tail(due)) = 0
        BY <3>7, EmptySeq
      <4> QED
        BY <4>1, <4>2
    <3> QED
      BY <3>6, <3>8
  <2> QED
    BY <2>4, <2>5
<1>4. Prompt
  BY <1>3 DEF Prompt
<1> QED
  BY <1>1, <1>2, <1>4
-----------------------------------------------------------------------------
(* velbusd: the serial line.                                               *)

\* Until the line picks up noise, what has arrived of it and what has not are
\* the frames of the messages that velbusd has yet to parse.
LineInv ==
    /\ noises \in Nat
    /\ buf \in Seq(Byte) /\ line \in Seq(Byte) /\ unparsed \in Seq(AnyMessage)
    /\ noises = 0 => ~misread /\ Bytes(unparsed) = buf \o line

\* The inductive invariant of the way from the bus to velbusweb.
BusInv == ClientInv /\ LineInv

\* Where there was no noise, velbusd finds the first message, or waits for it.
LEMMA ParserFinds ==
    ASSUME LineInv, noises = 0
    PROVE  /\ ~FormError(buf)
           /\ HasFrame(buf) =>
                 /\ unparsed # <<>> /\ Contents(buf) = Head(unparsed)
                 /\ Tail(unparsed) \in Seq(AnyMessage)
                 /\ Bytes(Tail(unparsed)) = Consumed(buf) \o line
           /\ InsufficientData(buf) /\ line = <<>> => buf = <<>> /\ unparsed = <<>>
<1> DEFINE m == Head(unparsed)
           n == Len(m.data)
           r == SubSeq(buf, 7 + n, Len(buf))
<1>1. /\ buf \in Seq(Byte) /\ line \in Seq(Byte) /\ unparsed \in Seq(AnyMessage)
      /\ Bytes(unparsed) = buf \o line /\ Len(buf) \in Nat
  BY LenProperties DEF LineInv
<1>2. ASSUME Len(buf) >= 6
      PROVE  /\ unparsed # <<>> /\ m \in AnyMessage /\ Tail(unparsed) \in Seq(AnyMessage)
             /\ m.prio \in 0 .. 3 /\ m.rtr \in {0, 1} /\ n \in 0 .. 15
             /\ buf[1] = STX /\ buf[2] = 248 + m.prio /\ buf[3] = m.address
             /\ buf[4] = 64 * m.rtr + n
             /\ Len(buf) >= 6 + n =>
                   /\ r \in Seq(Byte) /\ buf = message(m) \o r
                   /\ Bytes(Tail(unparsed)) = r \o line
  <2>1. /\ buf \in Seq(Byte) /\ line \in Seq(Byte) /\ unparsed \in Seq(AnyMessage)
        /\ Bytes(unparsed) = buf \o line /\ Len(buf) >= 6
    BY <1>1, <1>2
  <2>2. Front(unparsed, buf, line)
    BY <2>1, StreamFront
  <2> QED
    BY <2>2 DEF Front
<1> HIDE DEF m, n, r
<1>3. ASSUME Len(buf) >= 6
      PROVE  HasHeader(buf) /\ FrameLength(buf) = 6 + n
  <2>1. \A p \in 0 .. 3 : (248 + p) \div 4 = 62
    OBVIOUS
  <2>2. \A b \in {0, 1}, k \in 0 .. 15 :
           (64 * b + k) % 16 = k /\ (64 * b + k) \div 16 \in {0, 4}
    <3>1. \A k \in 0 .. 15 : k % 16 = k /\ k \div 16 = 0
                             /\ (64 + k) % 16 = k /\ (64 + k) \div 16 = 4
      OBVIOUS
    <3> QED
      BY <3>1
  <2>3. (248 + m.prio) \div 4 = 62 /\ (64 * m.rtr + n) % 16 = n
        /\ (64 * m.rtr + n) \div 16 \in {0, 4}
    BY <1>2, <1>3, <2>1, <2>2
  <2> QED
    BY <1>2, <1>3, <2>3 DEF HasHeader, FrameLength
<1>4. ASSUME Len(buf) >= 6, ~InsufficientData(buf)
      PROVE  /\ unparsed # <<>> /\ Tail(unparsed) \in Seq(AnyMessage)
             /\ HasFrame(buf) /\ Contents(buf) = m
             /\ Bytes(Tail(unparsed)) = Consumed(buf) \o line
  <2>1. n \in 0 .. 15
    BY <1>2, <1>4
  <2>2. ~(Len(buf) < 6 + n)
    BY <1>3, <1>4 DEF InsufficientData
  <2>3. Len(buf) >= 6 + n
    BY <1>1, <2>1, <2>2
  <2>4. /\ m \in AnyMessage /\ r \in Seq(Byte) /\ buf = message(m) \o r
        /\ Bytes(Tail(unparsed)) = r \o line
    BY <1>2, <1>4, <2>3
  <2>5. HasFrame(buf) /\ Contents(buf) = m /\ Consumed(buf) = r
    BY <2>4, ReadsBack
  <2> QED
    BY <1>2, <1>4, <2>4, <2>5
<1>5. ~InsufficientData(buf) => Len(buf) >= 6
  BY <1>1 DEF InsufficientData
<1>6. ~FormError(buf)
  BY <1>4, <1>5 DEF FormError
<1>7. ASSUME HasFrame(buf)
      PROVE  /\ unparsed # <<>> /\ Contents(buf) = Head(unparsed)
             /\ Tail(unparsed) \in Seq(AnyMessage)
             /\ Bytes(Tail(unparsed)) = Consumed(buf) \o line
  BY <1>4, <1>5, <1>7 DEF HasFrame, m
<1>8. ASSUME InsufficientData(buf), line = <<>>
      PROVE  buf = <<>> /\ unparsed = <<>>
  <2>1. buf \o <<>> = buf
    BY <1>1, ConcatEmptySeq
  <2>2. Bytes(unparsed) = buf
    BY <1>1, <1>8, <2>1
  <2>3. CASE unparsed = <<>>
    BY <2>2, <2>3, BytesEmpty
  <2>4. CASE unparsed # <<>>
    <3>1. /\ m \in AnyMessage /\ Tail(unparsed) \in Seq(AnyMessage)
          /\ buf = message(m) \o Bytes(Tail(unparsed))
      BY <1>1, <2>2, <2>4, BytesHead DEF m
    <3>2. Bytes(Tail(unparsed)) \in Seq(Byte)
      BY <3>1, BytesTyped
    <3>3. HasFrame(buf)
      BY <3>1, <3>2, ReadsBack
    <3> QED
      BY <1>8, <3>3 DEF HasFrame
  <2> QED
    BY <2>3, <2>4
<1> QED
  BY <1>6, <1>7, <1>8

LEMMA LineStutter ==
    ASSUME LineInv, UNCHANGED line_vars
    PROVE  LineInv'
BY DEF LineInv, line_vars

LEMMA ClientAside ==
    ASSUME ClientInv, UNCHANGED client_vars
    PROVE  ClientInv'
BY ClientStutter DEF client_vars

LEMMA BusWritesKeeps ==
    ASSUME LineInv, BusWrites
    PROVE  LineInv'
<1>1. PICK m \in Message : line' = line \o message(m) /\ unparsed' = Append(unparsed, m)
  BY DEF BusWrites
<1>2. UNCHANGED <<buf, misread, noises>>
  BY DEF BusWrites
<1>3. m \in AnyMessage /\ message(m) \in Seq(Byte)
  BY MessageAssumption, MessageIsBytes
<1>4. /\ buf \in Seq(Byte) /\ line \in Seq(Byte) /\ unparsed \in Seq(AnyMessage)
      /\ noises \in Nat
  BY DEF LineInv
<1>5. line' \in Seq(Byte) /\ unparsed' \in Seq(AnyMessage)
  BY <1>1, <1>3, <1>4, ConcatProperties, AppendProperties
<1>6. ASSUME noises = 0
      PROVE  ~misread /\ Bytes(unparsed') = buf \o line'
  <2>1. ~misread /\ Bytes(unparsed) = buf \o line
    BY <1>6 DEF LineInv
  <2>2. Bytes(Append(unparsed, m)) = Bytes(unparsed) \o message(m)
    BY <1>3, <1>4, BytesAppend
  <2>3. (buf \o line) \o message(m) = buf \o (line \o message(m))
    BY <1>3, <1>4, JoinedAgain, Zenon
  <2> QED
    BY <1>1, <2>1, <2>2, <2>3
<1> QED
  BY <1>2, <1>4, <1>5, <1>6 DEF LineInv

LEMMA NoiseKeeps ==
    ASSUME LineInv, PicksUpNoise
    PROVE  LineInv'
<1>1. PICK bytes \in Noise : line' = line \o bytes
  BY DEF PicksUpNoise
<1>2. noises' = noises + 1 /\ UNCHANGED <<buf, unparsed, misread>>
  BY DEF PicksUpNoise
<1>3. bytes \in Seq(Byte)
  BY NoiseAssumption
<1>4. /\ buf \in Seq(Byte) /\ line \in Seq(Byte) /\ unparsed \in Seq(AnyMessage)
      /\ noises \in Nat
  BY DEF LineInv
<1>5. line' \in Seq(Byte)
  BY <1>1, <1>3, <1>4, ConcatProperties
<1>6. noises' \in Nat /\ noises' # 0
  BY <1>2, <1>4
<1> QED
  BY <1>2, <1>4, <1>5, <1>6 DEF LineInv

LEMMA ArrivalKeeps ==
    ASSUME LineInv, NEW k \in 1 .. Len(line), SerialArrives(k)
    PROVE  LineInv'
<1>1. /\ buf' = buf \o SubSeq(line, 1, k) /\ line' = SubSeq(line, k + 1, Len(line))
      /\ UNCHANGED <<unparsed, misread, noises>>
  BY DEF SerialArrives
<1>2. /\ buf \in Seq(Byte) /\ line \in Seq(Byte) /\ unparsed \in Seq(AnyMessage)
      /\ noises \in Nat
  BY DEF LineInv
<1>3. /\ buf \o SubSeq(line, 1, k) \in Seq(Byte)
      /\ SubSeq(line, k + 1, Len(line)) \in Seq(Byte)
      /\ (buf \o SubSeq(line, 1, k)) \o SubSeq(line, k + 1, Len(line)) = buf \o line
  BY <1>2, PieceArrives
<1>4. buf' \in Seq(Byte) /\ line' \in Seq(Byte) /\ buf' \o line' = buf \o line
  BY <1>1, <1>3, Zenon
<1> QED
  BY <1>1, <1>2, <1>4 DEF LineInv

LEMMA DropKeeps ==
    ASSUME LineInv, DropsByte
    PROVE  LineInv'
<1>1. FormError(buf) /\ buf' = Tail(buf) /\ UNCHANGED <<line, unparsed, misread, noises>>
  BY DEF DropsByte, WithoutByte
<1>2. noises # 0
  BY <1>1, ParserFinds
<1>3. Tail(buf) \in Seq(Byte)
  <2>1. buf \in Seq(Byte) /\ ~(Len(buf) < 6)
    BY <1>1 DEF LineInv, FormError, InsufficientData
  <2>2. buf # <<>>
    <3>1. Len(<<>>) = 0 /\ 0 < 6
      BY EmptySeq
    <3> QED
      BY <2>1, <3>1, Zenon
  <2> QED
    BY <2>1, <2>2, HeadTailProperties
<1> QED
  BY <1>1, <1>2, <1>3 DEF LineInv

LEMMA ParseKeeps ==
    ASSUME LineInv, Parses
    PROVE  LineInv'
<1>1. /\ HasFrame(buf) /\ buf' = Consumed(buf) /\ UNCHANGED <<line, noises>>
      /\ IF unparsed # <<>> /\ Head(unparsed) = Contents(buf)
         THEN unparsed' = Tail(unparsed) /\ UNCHANGED misread
         ELSE misread' = TRUE /\ UNCHANGED unparsed
  BY DEF Parses
<1>2. /\ buf \in Seq(Byte) /\ line \in Seq(Byte) /\ unparsed \in Seq(AnyMessage)
      /\ noises \in Nat
  BY DEF LineInv
<1>3. Consumed(buf) \in Seq(Byte)
  BY <1>1, <1>2, FrameIsMessage
<1>4. unparsed' \in Seq(AnyMessage)
  <2>1. CASE unparsed # <<>> /\ Head(unparsed) = Contents(buf)
    <3>1. unparsed' = Tail(unparsed)
      BY <1>1, <2>1
    <3> QED
      BY <1>2, <2>1, <3>1, HeadTailProperties
  <2>2. CASE ~(unparsed # <<>> /\ Head(unparsed) = Contents(buf))
    BY <1>1, <1>2, <2>2
  <2> QED
    BY <2>1, <2>2
<1>5. ASSUME noises = 0
      PROVE  ~misread' /\ Bytes(unparsed') = Consumed(buf) \o line
  <2>1. /\ unparsed # <<>> /\ Contents(buf) = Head(unparsed)
        /\ Bytes(Tail(unparsed)) = Consumed(buf) \o line
    BY <1>1, <1>5, ParserFinds
  <2>2. ~misread
    BY <1>5 DEF LineInv
  <2> QED
    BY <1>1, <2>1, <2>2
<1> QED
  BY <1>1, <1>2, <1>3, <1>4, <1>5 DEF LineInv

\* What velbusd relays is a message, written as it came.
LEMMA RelayKeeps ==
    ASSUME BusInv, Relays
    PROVE  BusInv'
<1>1. LineInv'
  BY ParseKeeps DEF BusInv, Relays
<1>2. HasFrame(buf) /\ buf \in Seq(Byte)
  BY DEF BusInv, LineInv, Relays, Parses
<1>3. Contents(buf) \in AnyMessage /\ Frame(buf) = message(Contents(buf))
  BY <1>2, FrameIsMessage
<1>4. UNCHANGED <<unprocessed_data, n_unprocessed_data, processing, astray, torn>>
  BY DEF Relays, buffer
<1>5. CASE socket
  <2>1. wire' = wire \o message(Contents(buf)) /\ due' = Append(due, Contents(buf))
    BY <1>3, <1>5 DEF Relays
  <2> QED
    BY <1>1, <1>3, <1>4, <2>1, StreamGrows DEF BusInv
<1>6. CASE ~socket
  <2>1. UNCHANGED <<wire, due>>
    BY <1>6 DEF Relays
  <2> QED
    BY <1>1, <1>4, <2>1, ClientStutter DEF BusInv
<1> QED
  BY <1>5, <1>6

LEMMA BusStart ==
    ASSUME BusInit
    PROVE  BusInv
<1>1. ClientInv
  BY ClientStart DEF BusInit, Init
<1>2. LineInv
  <2>1. /\ line = <<>> /\ buf = <<>> /\ unparsed = <<>> /\ misread = FALSE /\ noises = 0
    BY DEF BusInit
  <2>2. <<>> \in Seq(Byte) /\ <<>> \in Seq(AnyMessage)
    BY EmptySeq
  <2>3. Bytes(<<>>) = <<>> \o <<>>
    <3>1. <<>> \o <<>> = <<>>
      BY <2>2, ConcatEmptySeq
    <3> QED
      BY <3>1, BytesEmpty
  <2>4. Bytes(unparsed) = buf \o line
    BY <2>1, <2>3, Zenon
  <2> QED
    BY <2>1, <2>2, <2>4 DEF LineInv
<1> QED
  BY <1>1, <1>2 DEF BusInv

LEMMA BusStep ==
    ASSUME BusInv, [BusNext]_<<vars, line_vars>>
    PROVE  BusInv'
<1> USE DEF BusInv
<1>1. CASE BusWrites
  BY <1>1, BusWritesKeeps, ClientAside DEF BusWrites
<1>2. CASE PicksUpNoise
  BY <1>2, NoiseKeeps, ClientAside DEF PicksUpNoise
<1>3. ASSUME NEW k \in 1 .. Len(line), SerialArrives(k) PROVE BusInv'
  BY <1>3, ArrivalKeeps, ClientAside DEF SerialArrives
<1>4. CASE DropsByte
  BY <1>4, DropKeeps, ClientAside DEF DropsByte
<1>5. CASE KeepsFlowControl
  BY <1>5, ParseKeeps, ClientAside DEF KeepsFlowControl
<1>6. CASE Relays
  BY <1>6, RelayKeeps
<1>7. CASE Client
  BY <1>7, LineStutter, LoopKeeps, SocketKeeps DEF Client
<1>8. CASE UNCHANGED <<vars, line_vars>>
  BY <1>8, LineStutter, ClientStutter DEF vars
<1> QED
  BY <1>1, <1>2, <1>3, <1>4, <1>5, <1>6, <1>7, <1>8 DEF BusNext
-----------------------------------------------------------------------------
(* The theorems.                                                           *)

\* However the bytes of the serial line and of the connection are cut into
\* pieces, and whatever noise velbusd took for messages, the client's buffer
\* and the connection hold the frames still to be emitted, until a connection
\* ends inside a frame (velbus.js 38-125); and as long as the line is clean,
\* velbusd's buffer and the line hold the messages still to be parsed.
THEOREM StreamsKept == BusSpec => []BusInv
<1>1. BusInit => BusInv
  BY BusStart
<1>2. BusInv /\ [BusNext]_<<vars, line_vars>> => BusInv'
  BY BusStep
<1> QED
  BY <1>1, <1>2, PTL DEF BusSpec

\* No byte of a message is lost, doubled or moved in velbusweb's buffer.
THEOREM NothingLost == BusSpec => []Conserved
<1>1. BusInv => Conserved
  BY ClientPromises DEF BusInv
<1> QED
  BY <1>1, StreamsKept, PTL

\* velbusweb emits the messages that velbusd relayed, in order, and nothing else.
THEOREM InOrder == BusSpec => []Faithful
<1>1. BusInv => Faithful
  BY ClientPromises DEF BusInv
<1> QED
  BY <1>1, StreamsKept, PTL

\* When all has arrived at most one message without data waits in the buffer.
THEOREM Emitted == BusSpec => []Prompt
<1>1. BusInv => Prompt
  BY ClientPromises DEF BusInv
<1> QED
  BY <1>1, StreamsKept, PTL

\* On a line without noise velbusd parses each message of the bus once and in
\* order, and nothing else; with noise that only holds of some (see the run).
THEOREM CleanLineRead == BusSpec => [](noises = 0 => NeverMisread)
<1>1. BusInv => (noises = 0 => NeverMisread)
  BY DEF BusInv, LineInv, NeverMisread
<1> QED
  BY <1>1, StreamsKept, PTL

\* On a line without noise velbusd holds nothing back: when it waits for more
\* it has relayed every message that has arrived, and its buffer is empty.
THEOREM CleanLineEmptied == BusSpec => [](noises = 0 => HeldBack)
<1>1. BusInv => (noises = 0 => HeldBack)
  BY ParserFinds DEF BusInv, HeldBack
<1> QED
  BY <1>1, StreamsKept, PTL

\* The client alone, with a velbusd that may write any message at any time.
THEOREM ClientKept == Spec => []ClientInv
<1>1. Init => ClientInv
  BY ClientStart DEF Init
<1>2. ClientInv /\ [Next]_vars => ClientInv'
  <2> SUFFICES ASSUME ClientInv, [Next]_vars PROVE ClientInv'
    OBVIOUS
  <2>1. CASE VelbusdWrites
    <3>1. PICK m \in Message : wire' = wire \o create_message(m) /\ due' = Append(due, m)
      BY <2>1 DEF VelbusdWrites
    <3>2. m \in AnyMessage /\ create_message(m) = message(m)
      BY MessageAssumption, MessageIsBytes
    <3>3. UNCHANGED <<unprocessed_data, n_unprocessed_data, processing, astray, torn>>
      BY <2>1 DEF VelbusdWrites, buffer
    <3> QED
      BY <3>1, <3>2, <3>3, StreamGrows
  <2>2. CASE UNCHANGED vars
    BY <2>2, ClientStutter DEF vars
  <2> QED
    BY <2>1, <2>2, LoopKeeps, SocketKeeps DEF Next
<1> QED
  BY <1>1, <1>2, PTL DEF Spec
-----------------------------------------------------------------------------
(* Types.                                                                  *)

\* The buffer holds what is counted, also after a broken frame.
TypeInv == BusTypeOK /\ n_unprocessed_data <= Len(unprocessed_data)

LEMMA LeastOne ==
    ASSUME NEW S \in SUBSET Nat, S # {}
    PROVE  Min(S) \in S
<1> DEFINE Below == {k \in Nat : \A x \in S : k <= x}
<1> SUFFICES \E x \in S : x \in Below
  BY DEF Min
<1> SUFFICES ASSUME \A x \in S : x \notin Below PROVE FALSE
  OBVIOUS
<1>1. 0 \in Below
  OBVIOUS
<1>2. ASSUME NEW k \in Below \cap Nat PROVE k + 1 \in Below
  <2> SUFFICES ASSUME NEW x \in S PROVE k + 1 <= x
    OBVIOUS
  <2>1. k <= x /\ x # k /\ x \in Nat
    OBVIOUS
  <2> QED
    BY <2>1
<1>3. PICK x \in S : TRUE
  OBVIOUS
<1>4. x + 1 \in Below
  <2> HIDE DEF Below
  <2>1. x + 1 \in Nat
    OBVIOUS
  <2> QED
    BY <1>1, <1>2, <2>1, SetInduction
<1> QED
  BY <1>4

LEMMA EndIsBytes ==
    ASSUME NEW u \in Seq(Byte), NEW a \in Nat \ {0}
    PROVE  SubSeq(u, a, Len(u)) \in Seq(Byte)
<1>1. Len(u) \in Nat
  BY LenProperties
<1>2. \A i \in a .. Len(u) : i \in 1 .. Len(u)
  BY <1>1
<1>3. \A i \in a .. Len(u) : u[i] \in Byte
  BY <1>2, ElementOfSeq
<1> QED
  BY <1>1, <1>3, SubSeqProperties

LEMMA ResyncedBytes ==
    ASSUME NEW u \in Seq(Byte), u # <<>>
    PROVE  Resynced(u) \in Seq(Byte)
<1> DEFINE rest == Tail(u)
           next == {i \in 1 .. Len(rest) : rest[i] = STX}
<1>1. rest \in Seq(Byte) /\ Len(rest) \in Nat
  BY HeadTailProperties, LenProperties
<1>2. Resynced(u) = IF next = {} THEN <<>> ELSE SubSeq(rest, Min(next), Len(rest))
  BY DEF Resynced
<1>3. CASE next = {}
  BY <1>2, <1>3
<1>4. CASE next # {}
  <2>1. next \in SUBSET Nat /\ 0 \notin next
    OBVIOUS
  <2> HIDE DEF next, rest
  <2>2. Min(next) \in Nat \ {0}
    BY <1>4, <2>1, LeastOne
  <2> QED
    BY <1>1, <1>2, <1>4, <2>2, EndIsBytes
<1> QED
  BY <1>3, <1>4

\* What process_message leaves in the buffer.
LEMMA LoopKeepsTypes ==
    ASSUME TypeInv, process_message,
           LosesSync \/ WaitsInLoop \/ EmitsFrame \/ EmitsBroken
    PROVE  /\ unprocessed_data' \in Seq(Byte) /\ n_unprocessed_data' \in Int
           /\ n_unprocessed_data' <= Len(unprocessed_data')
           /\ due' \in Seq(AnyMessage) /\ astray' \in BOOLEAN
<1> DEFINE u == unprocessed_data
           n == n_unprocessed_data
<1>1. u \in Seq(Byte) /\ n \in Int /\ n <= Len(u) /\ Len(u) \in Nat /\ n > 6
      /\ due \in Seq(AnyMessage) /\ astray \in BOOLEAN
  BY LenProperties DEF TypeInv, BusTypeOK, TypeOK, process_message, MoreToProcess
<1>2. u # <<>> /\ 4 \in 1 .. Len(u)
  BY <1>1, EmptySeq
<1>3. length \in Nat
  <2>1. u[4] \in Byte
    BY <1>1, <1>2, ElementOfSeq
  <2>2. u[4] % 16 \in Nat
    BY <2>1 DEF Byte
  <2>3. At(3) = u[4]
    BY DEF At
  <2> QED
    BY <2>2, <2>3 DEF length
<1>4. Resynced(u) \in Seq(Byte) /\ Len(Resynced(u)) \in Nat
  BY <1>1, <1>2, ResyncedBytes, LenProperties
<1>5. ASSUME NEW m, Emit(m)
      PROVE  due' \in Seq(AnyMessage) /\ astray' \in BOOLEAN
  <2>1. due # <<>> => Tail(due) \in Seq(AnyMessage)
    BY <1>1, HeadTailProperties
  <2> QED
    BY <1>1, <1>5, <2>1 DEF Emit
<1>6. \A b \in Seq(Byte) : DropFrame(b) \in Seq(Byte)
  <2>1. 7 + length \in Nat \ {0}
    BY <1>3
  <2> QED
    BY <2>1, EndIsBytes DEF DropFrame
<1>7. \A b \in Seq(Byte) : Len(b) \in Nat
  BY LenProperties
<1>8. CASE LosesSync
  <2>1. /\ unprocessed_data' = Resynced(u) /\ n_unprocessed_data' = Len(Resynced(u))
        /\ UNCHANGED <<due, astray>>
    BY <1>8 DEF LosesSync, Keep
  <2> QED
    BY <1>1, <1>4, <2>1
<1>9. CASE WaitsInLoop
  BY <1>1, <1>9 DEF WaitsInLoop, buffer
<1>10. CASE EmitsFrame
  <2>1. /\ unprocessed_data' = DropFrame(u) /\ n_unprocessed_data' = Len(DropFrame(u))
        /\ Emit(Parsed)
    BY <1>10 DEF EmitsFrame, Keep
  <2> QED
    BY <1>1, <1>5, <1>6, <1>7, <2>1
<1>11. CASE EmitsBroken
  <2> DEFINE r == Resynced(u)
  <2>1. /\ unprocessed_data' = DropFrame(r) /\ n_unprocessed_data' = Len(r) - (6 + length)
        /\ Emit(Parsed)
    BY <1>11 DEF EmitsBroken
  <2>2. /\ DropFrame(r) = SubSeq(r, 7 + length, Len(r))
        /\ r \in Seq(Byte) /\ Len(r) \in Nat
    BY <1>4 DEF DropFrame
  <2> HIDE DEF r
  <2>3. Len(r) - (6 + length) <= Len(DropFrame(r))
    <3>1. \A i \in 7 + length .. Len(r) : i \in 1 .. Len(r)
      BY <1>3, <2>2
    <3>2. \A i \in 7 + length .. Len(r) : r[i] \in Byte
      BY <2>2, <3>1, ElementOfSeq
    <3>3. Len(SubSeq(r, 7 + length, Len(r))) =
             IF 7 + length <= Len(r) THEN Len(r) - (7 + length) + 1 ELSE 0
      <4>1. 7 + length \in Int /\ Len(r) \in Int
        BY <1>3, <2>2
      <4> QED
        BY <3>2, <4>1, SubSeqProperties
    <3> QED
      BY <1>3, <2>2, <3>3
  <2>4. Len(r) - (6 + length) \in Int
    BY <1>3, <2>2
  <2> QED
    BY <1>5, <1>6, <2>1, <2>2, <2>3, <2>4
<1> QED
  BY <1>8, <1>9, <1>10, <1>11

LEMMA ClientKeepsTypes ==
    ASSUME TypeInv, Client
    PROVE  TypeInv'
<1> USE DEF TypeInv, BusTypeOK, TypeOK
<1>1. UNCHANGED line_vars
  BY DEF Client
<1>2. CASE process_data
  <2>1. CASE ProcessDone
    BY <1>1, <2>1 DEF ProcessDone, line_vars, buffer, history, counters
  <2>2. CASE LosesSync \/ WaitsInLoop \/ EmitsFrame \/ EmitsBroken
    <3>1. process_message
      BY <2>2 DEF LosesSync, WaitsInLoop, EmitsFrame, EmitsBroken
    <3>2. UNCHANGED <<socket, wire, processing, torn, sent, cuts, starts>>
      BY <3>1 DEF process_message, counters
    <3> QED
      BY <1>1, <2>2, <3>1, <3>2, LoopKeepsTypes DEF line_vars
  <2> QED
    BY <1>2, <2>1, <2>2 DEF process_data
<1>3. CASE Connect
  BY <1>1, <1>3 DEF Connect, line_vars, buffer, history, counters
<1>4. CASE Close
  <2>1. cuts' \in 0 .. MaxCuts
    BY <1>4, BoundAssumption DEF Close
  <2>2. <<>> \in Seq(Byte) /\ <<>> \in Seq(AnyMessage)
    BY EmptySeq
  <2> QED
    BY <1>1, <1>4, <2>1, <2>2 DEF Close, line_vars, buffer
<1>5. CASE Restart
  <2>1. starts' \in 1 .. MaxStarts
    BY <1>5, BoundAssumption DEF Restart
  <2>2. <<>> \in Seq(Byte) /\ <<>> \in Seq(AnyMessage) /\ Len(<<>>) = 0
    BY EmptySeq
  <2>3. /\ socket' = FALSE /\ processing' = FALSE /\ wire' = <<>>
        /\ unprocessed_data' = <<>> /\ n_unprocessed_data' = 0
        /\ due' = <<>> /\ astray' = FALSE /\ torn' = FALSE
        /\ UNCHANGED <<sent, cuts>>
    BY <1>5 DEF Restart
  <2>4. n_unprocessed_data' <= Len(unprocessed_data')
    BY <2>2, <2>3
  <2>5. /\ wire' \in Seq(Byte) /\ unprocessed_data' \in Seq(Byte)
        /\ due' \in Seq(AnyMessage)
    BY <2>2, <2>3, Zenon
  <2>6. n_unprocessed_data' \in Int
    BY <2>3
  <2>7. TypeOK'
    BY <2>1, <2>3, <2>5, <2>6
  <2> QED
    BY <1>1, <2>4, <2>7 DEF line_vars
<1>6. ASSUME NEW k \in 1 .. Len(wire), Data(k) PROVE TypeInv'
  <2> DEFINE u == unprocessed_data \o SubSeq(wire, 1, k)
  <2>1. /\ u \in Seq(Byte) /\ Len(u) = Len(unprocessed_data) + k
        /\ SubSeq(wire, k + 1, Len(wire)) \in Seq(Byte)
    BY PieceArrives
  <2>2. /\ unprocessed_data' = u /\ n_unprocessed_data' = n_unprocessed_data + k
        /\ wire' = SubSeq(wire, k + 1, Len(wire)) /\ processing' = TRUE
        /\ UNCHANGED <<socket, due, astray, torn, sent, cuts, starts>>
    BY <1>6 DEF Data, history, counters
  <2>3. n_unprocessed_data' \in Int /\ n_unprocessed_data' <= Len(u)
    <3>1. Len(unprocessed_data) \in Nat /\ Len(wire) \in Nat
      BY LenProperties
    <3> QED
      BY <2>1, <2>2, <3>1
  <2> QED
    BY <1>1, <2>1, <2>2, <2>3 DEF line_vars
<1> QED
  BY <1>2, <1>3, <1>4, <1>5, <1>6 DEF Client

LEMMA LineKeepsTypes ==
    ASSUME TypeInv,
           BusWrites \/ PicksUpNoise \/ (\E k \in 1 .. Len(line) : SerialArrives(k))
             \/ DropsByte \/ KeepsFlowControl \/ Relays
    PROVE  TypeInv'
<1> USE DEF TypeInv, BusTypeOK, TypeOK
<1>1. CASE BusWrites
  <2>1. PICK m \in Message : line' = line \o message(m) /\ unparsed' = Append(unparsed, m)
    BY <1>1 DEF BusWrites
  <2>2. message(m) \in Seq(Byte)
    BY MessageAssumption, MessageIsBytes
  <2>3. line' \in Seq(Byte) /\ unparsed' \in Seq(Message)
    BY <2>1, <2>2, ConcatProperties, AppendProperties
  <2>4. sent' \in 0 .. MaxSent
    BY <1>1, BoundAssumption DEF BusWrites
  <2> QED
    BY <1>1, <2>3, <2>4 DEF BusWrites, client_vars
<1>2. CASE PicksUpNoise
  <2>1. PICK bytes \in Noise : line' = line \o bytes
    BY <1>2 DEF PicksUpNoise
  <2>2. line' \in Seq(Byte)
    BY <2>1, NoiseAssumption, ConcatProperties
  <2>3. noises' \in 0 .. MaxNoise
    BY <1>2, NoiseAssumption DEF PicksUpNoise
  <2> QED
    BY <1>2, <2>2, <2>3 DEF PicksUpNoise, client_vars
<1>3. ASSUME NEW k \in 1 .. Len(line), SerialArrives(k) PROVE TypeInv'
  <2>1. /\ buf \o SubSeq(line, 1, k) \in Seq(Byte)
        /\ SubSeq(line, k + 1, Len(line)) \in Seq(Byte)
    BY PieceArrives
  <2> QED
    BY <1>3, <2>1 DEF SerialArrives, client_vars
<1>4. CASE DropsByte
  <2>1. buf # <<>>
    <3>1. ~(Len(buf) < 6)
      BY <1>4 DEF DropsByte, FormError, InsufficientData
    <3> QED
      BY <3>1, EmptySeq
  <2>2. buf' \in Seq(Byte)
    BY <1>4, <2>1, HeadTailProperties DEF DropsByte, WithoutByte
  <2> QED
    BY <1>4, <2>2 DEF DropsByte, client_vars
<1>5. CASE KeepsFlowControl \/ Relays
  <2>0. Parses
    BY <1>5 DEF KeepsFlowControl, Relays
  <2>1. HasFrame(buf) /\ buf' = Consumed(buf) /\ UNCHANGED <<sent, line, noises>>
    BY <2>0 DEF Parses
  <2>2. /\ Contents(buf) \in AnyMessage /\ Frame(buf) = message(Contents(buf))
        /\ Consumed(buf) \in Seq(Byte)
    BY <2>1, FrameIsMessage
  <2>3. unparsed' \in Seq(Message) /\ misread' \in BOOLEAN
    <3>1. unparsed # <<>> => Tail(unparsed) \in Seq(Message)
      BY HeadTailProperties
    <3> QED
      BY <2>0, <3>1 DEF Parses
  <2>4. CASE KeepsFlowControl
    BY <2>1, <2>2, <2>3, <2>4 DEF KeepsFlowControl, client_vars
  <2>5. CASE Relays
    <3>1. Frame(buf) \in Seq(Byte)
      BY <2>2, MessageIsBytes
    <3>2. wire \o Frame(buf) \in Seq(Byte) /\ Append(due, Contents(buf)) \in Seq(AnyMessage)
      BY <2>2, <3>1, ConcatProperties, AppendProperties
    <3>3. wire' \in Seq(Byte) /\ due' \in Seq(AnyMessage)
      BY <2>5, <3>2 DEF Relays
    <3> QED
      BY <2>1, <2>2, <2>3, <2>5, <3>3 DEF Relays, buffer
  <2> QED
    BY <1>5, <2>4, <2>5
<1> QED
  BY <1>1, <1>2, <1>3, <1>4, <1>5

\* Every byte and every message has its type, also when a connection ended
\* inside a frame and what follows is cut in the wrong places.
THEOREM BusTypes == BusSpec => []BusTypeOK
<1>1. BusInit => TypeInv
  <2> SUFFICES ASSUME BusInit PROVE TypeInv
    OBVIOUS
  <2>1. /\ <<>> \in Seq(Byte) /\ <<>> \in Seq(AnyMessage) /\ <<>> \in Seq(Message)
        /\ Len(<<>>) = 0
    BY EmptySeq
  <2>2. 0 \in 0 .. MaxSent /\ 0 \in 0 .. MaxCuts /\ 1 \in 1 .. MaxStarts /\ 0 \in 0 .. MaxNoise
    BY BoundAssumption, NoiseAssumption
  <2>3. /\ wire = <<>> /\ unprocessed_data = <<>> /\ due = <<>>
        /\ n_unprocessed_data = 0 /\ sent = 0 /\ cuts = 0 /\ starts = 1
        /\ socket = FALSE /\ processing = FALSE /\ astray = FALSE /\ torn = FALSE
        /\ line = <<>> /\ buf = <<>> /\ unparsed = <<>> /\ misread = FALSE /\ noises = 0
    BY DEF BusInit, Init
  <2>4. /\ wire \in Seq(Byte) /\ unprocessed_data \in Seq(Byte) /\ due \in Seq(AnyMessage)
        /\ line \in Seq(Byte) /\ buf \in Seq(Byte) /\ unparsed \in Seq(Message)
    BY <2>1, <2>3, Zenon
  <2>5. n_unprocessed_data \in Int /\ n_unprocessed_data <= Len(unprocessed_data)
    BY <2>1, <2>3
  <2>6. TypeOK
    BY <2>2, <2>3, <2>4, <2>5 DEF TypeOK
  <2> QED
    BY <2>2, <2>3, <2>4, <2>5, <2>6 DEF TypeInv, BusTypeOK
<1>2. TypeInv /\ [BusNext]_<<vars, line_vars>> => TypeInv'
  <2> SUFFICES ASSUME TypeInv, [BusNext]_<<vars, line_vars>> PROVE TypeInv'
    OBVIOUS
  <2>1. CASE UNCHANGED <<vars, line_vars>>
    BY <2>1 DEF vars, line_vars, TypeInv, BusTypeOK, TypeOK
  <2> QED
    BY <2>1, ClientKeepsTypes, LineKeepsTypes DEF BusNext
<1>3. TypeInv => BusTypeOK
  BY DEF TypeInv
<1> QED
  BY <1>1, <1>2, <1>3, PTL DEF BusSpec
=============================================================================
