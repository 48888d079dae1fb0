--------------------------- MODULE HDLCFramingProofs ---------------------------
(***************************************************************************)
(* Proofs about the framing: no frame is made of parts (FramesEndAsSent,   *)
(* FramesAreSent), and reception recovers (FramesAreFoundAgain).  First    *)
(* what a frame looks like byte by byte, then the invariant StationInv     *)
(* with GotSound, and InStep for the second theorem.                       *)
(***************************************************************************)
EXTENDS HDLCFraming, SequenceTheorems, Induction

(***************************************************************************)
(* The bytes of a frame.                                                   *)
(***************************************************************************)
\* What a content is made of, its CRC, what is on the line, what is stored.
DataBytes == {<<"FF">>} \union {<<"ctl", n>> : n \in Nat}
               \union UNION {Range(payload) : payload \in Payloads}
CrcBytes == {<<"hi", content>> : content \in Seq(DataBytes)}
              \union {<<"lo", content>> : content \in Seq(DataBytes)}
LineBytes == DataBytes \union CrcBytes \union {Flag, Escape, <<"00">>, <<"5E">>, <<"5D">>}
StoredBytes == LineBytes \union {Xor(b) : b \in LineBytes}

IsHi(b) == b[1] = "hi"

\* Only a CRC has a high byte.
LEMMA DataIsPlain == \A b \in DataBytes : ~IsHi(b)
<1>1. \A payload \in Payloads : \A b \in Range(payload) : ~IsHi(b)
  BY BytesAssumption DEF IsHi
<1>2. ~IsHi(<<"FF">>) /\ \A n \in Nat : ~IsHi(<<"ctl", n>>)
  BY DEF IsHi
<1> QED
  BY <1>1, <1>2 DEF DataBytes

LEMMA XorIsPlain == \A b : ~IsHi(Xor(b))
  BY DEF IsHi, Xor

LEMMA ContentType ==
  ASSUME NEW n \in Nat, NEW payload \in Payloads
  PROVE  /\ Content(n, payload) \in Seq(DataBytes)
         /\ Len(Content(n, payload)) >= 2
         /\ Content(n, payload)[2] = <<"ctl", n>>
<1>1. payload \in Seq(DataBytes)
  <2>1. payload \in Seq(Range(payload)) /\ Range(payload) \subseteq DataBytes
    BY BytesAssumption DEF DataBytes
  <2> QED
    BY <2>1, SeqMonotonic
<1>2. <<<<"FF">>, <<"ctl", n>>>> \in Seq(DataBytes)
  BY DEF DataBytes
<1> QED
  BY <1>1, <1>2 DEF Content

\* One byte as it is sent.
LEMMA SendByteType ==
  ASSUME NEW b \in DataBytes \union CrcBytes
  PROVE  /\ SendByte(b) \in Seq(LineBytes)
         /\ b \in {Flag, Escape} => SendByte(b) = <<Escape, Xor(b)>> /\ Xor(Xor(b)) = b
                                    /\ Xor(b) \in LineBytes /\ Xor(b) \notin {Flag, Escape}
         /\ b \notin {Flag, Escape} => SendByte(b) = <<b>>
<1>1. CASE b \in {Flag, Escape}
  <2>1. Xor(b) \in {<<"5E">>, <<"5D">>} /\ Xor(Xor(b)) = b
    BY <1>1 DEF Xor, Flag, Escape
  <2> QED
    BY <1>1, <2>1 DEF SendByte, LineBytes, Flag, Escape
<1>2. CASE b \notin {Flag, Escape}
  BY <1>2 DEF SendByte, LineBytes
<1> QED
  BY <1>1, <1>2

\* f[i] is the concatenation of the first i sequences of s.
Flattens(f, s) ==
  /\ f[1] = s[1]
  /\ \A i \in 2..Len(s) : f[i] = f[i - 1] \o s[i]
  /\ FlattenSeq(s) = f[Len(s)]

\* FlattenSeq appends the sequences one after the other.
LEMMA Flattened ==
  ASSUME NEW A, NEW s \in Seq(Seq(A)), Len(s) > 0
  PROVE  \E f \in [1..Len(s) -> Seq(A)] : Flattens(f, s)
<1> DEFINE Flat(f) == f = [i \in 1..Len(s) |-> IF i = 1 THEN s[i] ELSE f[i - 1] \o s[i]]
           g == [k \in Nat |-> [t \in Seq(A) |-> IF k \in 1..Len(s) - 1 THEN t \o s[k + 1] ELSE t]]
<1>1. /\ Len(s) - 1 \in Nat /\ s[1] \in Seq(A)
      /\ \A i \in 1..Len(s) : s[i] \in Seq(A)
  OBVIOUS
<1>2. \A k \in Nat : \A t \in Seq(A) : g[k][t] \in Seq(A)
  BY <1>1
<1>3. g \in [Nat -> [Seq(A) -> Seq(A)]]
  BY <1>2
<1> HIDE DEF g
<1>4. PICK h \in [0..Len(s) - 1 -> Seq(A)] : Follows(h, s[1], g, Len(s) - 1)
  BY <1>1, <1>3, Recursion
<1>5. h[0] = s[1] /\ \A k \in 1..Len(s) - 1 : h[k] = h[k - 1] \o s[k + 1]
  <2>1. ASSUME NEW k \in 1..Len(s) - 1 PROVE h[k] = h[k - 1] \o s[k + 1]
    <3>1. h[k] = g[k][h[k - 1]]
      BY <1>4 DEF Follows
    <3>2. k \in Nat /\ h[k - 1] \in Seq(A)
      <4>1. k \in Nat /\ k - 1 \in 0..Len(s) - 1
        BY <1>1
      <4> QED
        BY <4>1
    <3>3. g[k][h[k - 1]] = h[k - 1] \o s[k + 1]
      BY <3>2 DEF g
    <3> QED
      BY <3>1, <3>3, Zenon
  <2> QED
    BY <1>4, <2>1 DEF Follows
<1> DEFINE f0 == [i \in 1..Len(s) |-> h[i - 1]]
<1>6. f0 \in [1..Len(s) -> Seq(A)]
  BY <1>1
<1>7. ASSUME NEW i \in 1..Len(s)
      PROVE  f0[i] = IF i = 1 THEN s[i] ELSE f0[i - 1] \o s[i]
  <2>1. CASE i = 1
    BY <1>5, <2>1
  <2>2. CASE i # 1
    <3>1. i - 1 \in 1..Len(s) - 1 /\ i - 1 \in 1..Len(s) /\ (i - 1) + 1 = i
      BY <2>2
    <3>2. h[i - 1] = h[(i - 1) - 1] \o s[(i - 1) + 1]
      BY <1>5, <3>1
    <3> QED
      BY <2>2, <3>1, <3>2
  <2> QED
    BY <2>1, <2>2
<1>8. Flat(f0)
  BY <1>6, <1>7
<1> DEFINE f1 == CHOOSE f : Flat(f)
<1>10. Flat(f1)
  <2> HIDE DEF Flat, f0
  <2> QED
    BY <1>8
<1>11. FlattenSeq(s) = f1[Len(s)]
  BY DEF FlattenSeq
<1> QED
  <2>1. \A i \in 1..Len(s) : f1[i] = IF i = 1 THEN s[i] ELSE f1[i - 1] \o s[i]
    <3> HIDE DEF f1
    <3> QED
      BY <1>10
  <2>2. DOMAIN f1 = 1..Len(s) /\ f1 = [i \in 1..Len(s) |-> f1[i]]
    <3> HIDE DEF f1
    <3> QED
      BY <1>10
  <2> HIDE DEF f1, Flat, f0
  <2> DEFINE N == Len(s) - 1
             S == {k \in 0..N : f1[k + 1] \in Seq(A)}
  <2>3. 0 \in S
    BY <1>1, <2>1
  <2>4. ASSUME NEW k \in 0..N - 1, k \in S PROVE k + 1 \in S
    <3>1. (k + 1) + 1 \in 1..Len(s) /\ (k + 1) + 1 # 1 /\ ((k + 1) + 1) - 1 = k + 1
      BY <1>1
    <3>2. f1[(k + 1) + 1] = f1[k + 1] \o s[(k + 1) + 1]
      BY <2>1, <3>1
    <3>3. f1[k + 1] \in Seq(A) /\ s[(k + 1) + 1] \in Seq(A)
      BY <1>1, <2>4, <3>1
    <3>4. f1[(k + 1) + 1] \in Seq(A)
      BY <3>2, <3>3
    <3> QED
      BY <3>1, <3>4
  <2>5. 0..N \subseteq S
    <3> HIDE DEF S, N
    <3>1. N \in Nat
      BY <1>1 DEF N
    <3> QED
      BY <2>3, <2>4, <3>1, BoundedInduction
  <2>6. ASSUME NEW i \in 1..Len(s) PROVE f1[i] \in Seq(A)
    <3>1. i - 1 \in 0..N /\ (i - 1) + 1 = i
      OBVIOUS
    <3> QED
      BY <2>5, <3>1
  <2>7. f1 \in [1..Len(s) -> Seq(A)]
    BY <2>2, <2>6
  <2>8. f1[1] = s[1] /\ \A i \in 2..Len(s) : f1[i] = f1[i - 1] \o s[i]
    <3>1. 1 \in 1..Len(s) /\ \A i \in 2..Len(s) : i \in 1..Len(s) /\ i # 1
      BY <1>1
    <3> QED
      BY <2>1, <3>1, Zenon
  <2> QED
    BY <1>11, <2>7, <2>8 DEF Flattens

\* The content with its CRC.
Body(content) == content \o Crc(content)

\* e[k] is what is sent for the first k bytes of the body.
Stuffed(content, e) ==
  /\ e \in [0..Len(content) + 2 -> Seq(LineBytes)]
  /\ e[0] = <<>>
  /\ \A k \in 1..Len(content) + 2 : e[k] = e[k - 1] \o SendByte(Body(content)[k])
  /\ Framed(content) = <<Flag>> \o e[Len(content) + 2] \o <<Flag>>

LEMMA BodyType ==
  ASSUME NEW content \in Seq(DataBytes)
  PROVE  /\ Body(content) \in Seq(DataBytes \union CrcBytes)
         /\ Len(Body(content)) = Len(content) + 2
         /\ \A i \in 1..Len(content) : Body(content)[i] = content[i]
         /\ Body(content)[Len(content) + 1] = <<"hi", content>>
         /\ Body(content)[Len(content) + 2] = <<"lo", content>>
<1>1. content \in Seq(DataBytes \union CrcBytes)
  BY SeqMonotonic
<1>2. Crc(content) \in Seq(DataBytes \union CrcBytes)
  BY DEF Crc, CrcBytes
<1> QED
  BY <1>1, <1>2 DEF Body, Crc

LEMMA StuffedExists ==
  ASSUME NEW content \in Seq(DataBytes)
  PROVE  \E e : Stuffed(content, e)
<1> DEFINE n == Len(content) + 2
           s == [i \in 1..n |-> SendByte(Body(content)[i])]
<1>1. n \in Nat /\ n > 0 /\ Len(Body(content)) = n
  BY BodyType
<1>2. s \in Seq(Seq(LineBytes)) /\ Len(s) = n
  <2>1. \A i \in 1..n : SendByte(Body(content)[i]) \in Seq(LineBytes)
    BY <1>1, BodyType, SendByteType
  <2> QED
    BY <1>1, <2>1
<1>3. PICK f \in [1..n -> Seq(LineBytes)] : Flattens(f, s)
  <2> HIDE DEF s, n
  <2>1. \E f \in [1..Len(s) -> Seq(LineBytes)] : Flattens(f, s)
    BY <1>1, <1>2, Flattened
  <2> QED
    BY <1>2, <2>1
<1> HIDE DEF n
<1> DEFINE e == [k \in 0..n |-> IF k = 0 THEN <<>> ELSE f[k]]
<1>4. e \in [0..n -> Seq(LineBytes)] /\ e[0] = <<>> /\ \A k \in 1..n : e[k] = f[k]
  BY <1>1
<1>5. ASSUME NEW k \in 1..n PROVE e[k] = e[k - 1] \o SendByte(Body(content)[k])
  <2>1. s[k] = SendByte(Body(content)[k])
    BY <1>1
  <2>2. s[k] \in Seq(LineBytes)
    BY <1>1, <1>2
  <2> HIDE DEF s, e
  <2>3. CASE k = 1
    <3>1. e[k] = s[k] /\ e[k - 1] = <<>>
      BY <1>3, <1>4, <2>3 DEF Flattens
    <3> QED
      BY <2>1, <2>2, <3>1
  <2>4. CASE k # 1
    <3>1. k \in 2..Len(s) /\ k - 1 \in 1..n
      BY <1>1, <1>2, <2>4
    <3>2. f[k] = f[k - 1] \o s[k] /\ e[k] = f[k] /\ e[k - 1] = f[k - 1]
      BY <1>3, <1>4, <3>1 DEF Flattens
    <3> QED
      BY <2>1, <3>2
  <2> QED
    BY <2>3, <2>4
<1>6. Framed(content) = <<Flag>> \o e[n] \o <<Flag>>
  <2>1. FlattenSeq(s) = f[n] /\ e[n] = f[n]
    BY <1>1, <1>2, <1>3, <1>4 DEF Flattens
  <2>2. Framed(content) = <<Flag>> \o FlattenSeq(s) \o <<Flag>>
    BY DEF Framed, Body, n
  <2> QED
    BY <2>1, <2>2
<1>7. Stuffed(content, e)
  <2> HIDE DEF e
  <2> QED
    BY <1>4, <1>5, <1>6 DEF Stuffed, n
<1> QED
  BY <1>7

LEMMA StuffedType ==
  ASSUME NEW content, NEW e, Stuffed(content, e), NEW k \in 0..Len(content) + 2
  PROVE  e[k] \in Seq(LineBytes)
<1>1. e \in [0..Len(content) + 2 -> Seq(LineBytes)]
  BY DEF Stuffed
<1> QED
  BY <1>1

LEMMA StuffedStep ==
  ASSUME NEW content, NEW e, Stuffed(content, e), NEW k \in 1..Len(content) + 2
  PROVE  e[k] = e[k - 1] \o SendByte(Body(content)[k])
<1>1. \A i \in 1..Len(content) + 2 : e[i] = e[i - 1] \o SendByte(Body(content)[i])
  BY DEF Stuffed
<1> QED
  BY <1>1

Extends(t, s) == Len(s) <= Len(t) /\ \A i \in 1..Len(s) : t[i] = s[i]

\* What has been sent stays sent.
LEMMA StuffedExtends ==
  ASSUME NEW content \in Seq(DataBytes), NEW e, Stuffed(content, e),
         NEW j \in 0..Len(content) + 2, NEW k \in 0..j
  PROVE  Extends(e[j], e[k])
<1> DEFINE n == Len(content) + 2
           N == j - k
           S == {d \in 0..N : Extends(e[k + d], e[k])}
<1>1. n \in Nat /\ N \in Nat /\ k + N = j
  OBVIOUS
<1>2. 0 \in S
  BY DEF Stuffed, Extends
<1>3. ASSUME NEW d \in 0..N - 1, d \in S PROVE d + 1 \in S
  <2>1. k + d \in 0..n /\ k + (d + 1) \in 1..n /\ (k + (d + 1)) - 1 = k + d
    OBVIOUS
  <2> DEFINE b == SendByte(Body(content)[k + (d + 1)])
  <2>2. b \in Seq(LineBytes)
    BY <2>1, BodyType, SendByteType
  <2>3. e[k + (d + 1)] = e[k + d] \o b
    BY <2>1, StuffedStep
  <2>4. e[k + d] \in Seq(LineBytes) /\ e[k] \in Seq(LineBytes)
    BY <2>1, StuffedType
  <2> HIDE DEF b
  <2>5. Extends(e[k + d], e[k])
    BY <1>3
  <2>6. Extends(e[k + (d + 1)], e[k])
    BY <2>2, <2>3, <2>4, <2>5 DEF Extends
  <2> QED
    BY <2>6
<1>4. 0..N \subseteq S
  <2> HIDE DEF S, N
  <2> QED
    BY <1>1, <1>2, <1>3, BoundedInduction
<1>5. N \in 0..N
  BY <1>1
<1>6. N \in S
  BY <1>4, <1>5
<1> QED
  BY <1>1, <1>6

\* Where the bytes of the body are in the frame.
LEMMA FrameBytes ==
  ASSUME NEW content \in Seq(DataBytes), NEW e, Stuffed(content, e)
  PROVE  LET n == Len(content) + 2
             F == Framed(content)
         IN  /\ F \in Seq(LineBytes) /\ Len(F) = Len(e[n]) + 2
             /\ F[1] = Flag /\ F[Len(F)] = Flag
             /\ \A i \in 1..Len(e[n]) : F[i + 1] = e[n][i]
<1> DEFINE n == Len(content) + 2
<1>1. e[n] \in Seq(LineBytes)
  BY StuffedType
<1>2. <<Flag>> \in Seq(LineBytes)
  BY DEF LineBytes
<1>3. Framed(content) = <<Flag>> \o e[n] \o <<Flag>>
  BY DEF Stuffed
<1> HIDE DEF n
<1> DEFINE F == Framed(content)
           head == <<Flag>> \o e[n]
<1>4. head \in Seq(LineBytes) /\ Len(head) = Len(e[n]) + 1 /\ head[1] = Flag
      /\ \A i \in 1..Len(e[n]) : head[i + 1] = e[n][i]
  BY <1>1, <1>2
<1>5. F = head \o <<Flag>>
  BY <1>3
<1> HIDE DEF F, head
<1>6. F \in Seq(LineBytes) /\ Len(F) = Len(head) + 1 /\ F[Len(head) + 1] = Flag
      /\ \A i \in 1..Len(head) : F[i] = head[i]
  BY <1>2, <1>4, <1>5
<1>7. /\ F \in Seq(LineBytes) /\ Len(F) = Len(e[n]) + 2 /\ F[1] = Flag /\ F[Len(F)] = Flag
      /\ \A i \in 1..Len(e[n]) : F[i + 1] = e[n][i]
  BY <1>1, <1>4, <1>6
<1> QED
  BY <1>7 DEF n, F

BytePlaced(content, e, k) ==
  LET b == Body(content)[k]
  IN  /\ Len(e[k - 1]) \in Nat /\ Len(e[k]) \in Nat
      /\ Len(e[k]) = Len(e[k - 1]) + Len(SendByte(b))
      /\ Len(e[k]) <= Len(e[Len(content) + 2])
      /\ \A i \in 1..Len(SendByte(b)) :
           Framed(content)[Len(e[k - 1]) + 1 + i] = SendByte(b)[i]

LEMMA FrameByte ==
  ASSUME NEW content \in Seq(DataBytes), NEW e, Stuffed(content, e),
         NEW k \in 1..Len(content) + 2
  PROVE  BytePlaced(content, e, k)
<1> DEFINE n == Len(content) + 2
           b == SendByte(Body(content)[k])
<1>1. b \in Seq(LineBytes)
  BY BodyType, SendByteType
<1>2. e[k - 1] \in Seq(LineBytes) /\ e[k] \in Seq(LineBytes) /\ e[k] = e[k - 1] \o b
  <2>1. k \in 0..Len(content) + 2 /\ k - 1 \in 0..Len(content) + 2
    OBVIOUS
  <2> QED
    BY <2>1, StuffedType, StuffedStep
<1>3. Extends(e[n], e[k]) /\ e[n] \in Seq(LineBytes)
  BY StuffedExtends, StuffedType
<1>4. \A i \in 1..Len(e[n]) : Framed(content)[i + 1] = e[n][i]
  BY FrameBytes
<1> HIDE DEF b, n
<1>5. Len(e[k]) = Len(e[k - 1]) + Len(b) /\ \A i \in 1..Len(b) : e[k][Len(e[k - 1]) + i] = b[i]
  BY <1>1, <1>2
<1>6. ASSUME NEW i \in 1..Len(b) PROVE Framed(content)[Len(e[k - 1]) + 1 + i] = b[i]
  <2>1. Len(e[k - 1]) + i \in 1..Len(e[k]) /\ Len(e[k - 1]) + i \in 1..Len(e[n])
    BY <1>1, <1>2, <1>3, <1>5 DEF Extends
  <2>2. Framed(content)[(Len(e[k - 1]) + i) + 1] = e[n][Len(e[k - 1]) + i]
    BY <1>4, <2>1
  <2>3. e[n][Len(e[k - 1]) + i] = b[i]
    BY <1>3, <1>5, <2>1 DEF Extends
  <2> QED
    BY <1>2, <2>2, <2>3
<1>7. Len(e[k - 1]) \in Nat /\ Len(e[k]) \in Nat /\ Len(e[k]) <= Len(e[n])
  BY <1>2, <1>3 DEF Extends
<1> QED
  BY <1>5, <1>6, <1>7 DEF b, n, BytePlaced

NoHi(s) == \A i \in 1..Len(s) : ~IsHi(s[i])

LEMMA NoHiConcat ==
  ASSUME NEW A, NEW s \in Seq(A), NEW t \in Seq(A), NoHi(s), NoHi(t)
  PROVE  NoHi(s \o t)
<1> SUFFICES ASSUME NEW i \in 1..Len(s \o t) PROVE ~IsHi((s \o t)[i])
  BY DEF NoHi
<1>1. CASE i <= Len(s)
  <2>1. i \in 1..Len(s) /\ (s \o t)[i] = s[i]
    BY <1>1
  <2> QED
    BY <2>1, Zenon DEF NoHi
<1>2. CASE ~(i <= Len(s))
  <2>1. i - Len(s) \in 1..Len(t) /\ (s \o t)[i] = t[i - Len(s)]
    BY <1>2
  <2> QED
    BY <2>1, Zenon DEF NoHi
<1> QED
  BY <1>1, <1>2

\* The data of a frame as it is sent has no high byte,
LEMMA DataHasNoHi ==
  ASSUME NEW content \in Seq(DataBytes), NEW e, Stuffed(content, e)
  PROVE  NoHi(e[Len(content)])
<1> DEFINE N == Len(content)
           S == {k \in 0..N : NoHi(e[k])}
<1>1. N \in Nat
  OBVIOUS
<1>2. 0 \in S
  BY DEF Stuffed, NoHi
<1>3. ASSUME NEW k \in 0..N - 1, k \in S PROVE k + 1 \in S
  <2>1. k + 1 \in 1..N /\ k + 1 \in 1..N + 2 /\ k \in 0..N + 2 /\ (k + 1) - 1 = k
    OBVIOUS
  <2> DEFINE b == Body(content)[k + 1]
  <2>2. b \in DataBytes
    <3>1. b = content[k + 1]
      BY <2>1, BodyType
    <3>2. content[k + 1] \in DataBytes
      BY <2>1
    <3> QED
      BY <3>1, <3>2
  <2>3. e[k + 1] = e[k] \o SendByte(b) /\ e[k] \in Seq(LineBytes)
    BY <2>1, StuffedStep, StuffedType
  <2> HIDE DEF b
  <2>4. SendByte(b) \in Seq(LineBytes) /\ NoHi(SendByte(b))
    <3>1. ~IsHi(b) /\ ~IsHi(Xor(b)) /\ ~IsHi(Escape)
      BY <2>2, DataIsPlain, XorIsPlain DEF IsHi, Escape
    <3>2. SendByte(b) = <<Escape, Xor(b)>> \/ SendByte(b) = <<b>>
      BY DEF SendByte
    <3>3. SendByte(b) \in Seq(LineBytes)
      BY <2>2, SendByteType
    <3> QED
      BY <3>1, <3>2, <3>3 DEF NoHi
  <2>5. NoHi(e[k])
    BY <1>3
  <2>6. NoHi(e[k + 1])
    BY <2>3, <2>4, <2>5, NoHiConcat
  <2> QED
    BY <2>1, <2>6
<1>4. 0..N \subseteq S
  <2> HIDE DEF S, N
  <2> QED
    BY <1>1, <1>2, <1>3, BoundedInduction
<1>5. N \in S
  BY <1>1, <1>4
<1> QED
  BY <1>5

\* so the frame has one, which tells the content.
LEMMA FrameHi ==
  ASSUME NEW content \in Seq(DataBytes)
  PROVE  \E p \in Nat : \A i \in 1..Len(Framed(content)) :
           IsHi(Framed(content)[i]) => i = p /\ Framed(content)[i] = <<"hi", content>>
<1>1. PICK e : Stuffed(content, e)
  BY StuffedExists
<1> DEFINE N == Len(content)
           F == Framed(content)
           hi == <<"hi", content>>
           lo == <<"lo", content>>
<1>2. N \in Nat /\ N + 1 \in 1..N + 2 /\ N + 2 \in 1..N + 2 /\ N \in 0..N + 2
      /\ (N + 2) - 1 = N + 1 /\ (N + 1) - 1 = N
  OBVIOUS
<1>3. SendByte(hi) = <<hi>> /\ SendByte(lo) = <<lo>> /\ hi \in LineBytes /\ lo \in LineBytes
  BY DEF SendByte, Flag, Escape, LineBytes, CrcBytes
<1>4. e[N + 1] = e[N] \o <<hi>> /\ e[N + 2] = e[N + 1] \o <<lo>>
  <2>1. Body(content)[N + 1] = hi /\ Body(content)[N + 2] = lo
    BY BodyType
  <2>2. e[N + 1] = e[(N + 1) - 1] \o SendByte(Body(content)[N + 1])
    BY <1>1, <1>2, StuffedStep
  <2>3. e[N + 2] = e[(N + 2) - 1] \o SendByte(Body(content)[N + 2])
    BY <1>1, <1>2, StuffedStep
  <2> QED
    BY <1>2, <1>3, <2>1, <2>2, <2>3
<1>5. e[N] \in Seq(LineBytes) /\ NoHi(e[N])
  BY <1>1, <1>2, StuffedType, DataHasNoHi
<1>6. /\ Len(F) = Len(e[N + 2]) + 2 /\ F[1] = Flag /\ F[Len(F)] = Flag
      /\ \A i \in 1..Len(e[N + 2]) : F[i + 1] = e[N + 2][i]
  BY <1>1, FrameBytes
<1>7. ~IsHi(Flag) /\ ~IsHi(lo)
  BY DEF IsHi, Flag
<1> HIDE DEF N, F, hi, lo
<1>8. /\ Len(e[N + 2]) = Len(e[N]) + 2 /\ Len(e[N]) \in Nat
      /\ \A i \in 1..Len(e[N + 2]) : IsHi(e[N + 2][i]) => i = Len(e[N]) + 1 /\ e[N + 2][i] = hi
  <2>1. e[N + 1] \in Seq(LineBytes) /\ Len(e[N + 1]) = Len(e[N]) + 1
        /\ e[N + 1][Len(e[N]) + 1] = hi /\ \A i \in 1..Len(e[N]) : e[N + 1][i] = e[N][i]
    BY <1>3, <1>4, <1>5
  <2>2. Len(e[N + 2]) = Len(e[N + 1]) + 1 /\ e[N + 2][Len(e[N + 1]) + 1] = lo
        /\ \A i \in 1..Len(e[N + 1]) : e[N + 2][i] = e[N + 1][i]
    BY <1>3, <1>4, <2>1
  <2>3. ASSUME NEW i \in 1..Len(e[N + 2]), IsHi(e[N + 2][i])
        PROVE  i = Len(e[N]) + 1 /\ e[N + 2][i] = hi
    <3>1. CASE i \in 1..Len(e[N])
      <4>1. e[N + 2][i] = e[N][i]
        BY <1>5, <2>1, <2>2, <3>1
      <4> QED
        BY <1>5, <2>3, <3>1, <4>1, Zenon DEF NoHi
    <3>2. CASE i = Len(e[N]) + 1
      BY <1>5, <2>1, <2>2, <3>2
    <3>3. CASE i = Len(e[N]) + 2
      BY <1>7, <2>1, <2>2, <2>3, <3>3
    <3> QED
      BY <1>5, <2>1, <2>2, <3>1, <3>2, <3>3
  <2> QED
    BY <1>5, <2>1, <2>2, <2>3
<1>9. ASSUME NEW i \in 1..Len(F), IsHi(F[i])
      PROVE  i = Len(e[N]) + 2 /\ F[i] = hi
  <2>1. i # 1 /\ i # Len(F)
    BY <1>6, <1>7, <1>9
  <2>2. i - 1 \in 1..Len(e[N + 2]) /\ (i - 1) + 1 = i
    BY <1>6, <1>8, <2>1
  <2>3. F[i] = e[N + 2][i - 1]
    BY <1>6, <2>2
  <2> QED
    BY <1>8, <1>9, <2>2, <2>3
<1>10. Len(e[N]) + 2 \in Nat
  BY <1>8
<1> QED
  BY <1>9, <1>10 DEF F, hi

(***************************************************************************)
(* The invariant.                                                          *)
(***************************************************************************)
\* The last frame the peer has sent, the only one that is on the line.
Newest == Len(sent)

SentFrames ==
  /\ sent \in Seq(Seq(DataBytes)) /\ Newest <= MaxFrames
  /\ \A n \in 1..Newest : \E payload \in Payloads : sent[n] = Content(n, payload)

\* On the line is the rest of one frame, with at most one high byte, its own.
HiOnLine == \E i \in 1..Len(line) : IsHi(line[i].byte)

LineSound ==
  /\ line \in Seq([byte : LineBytes, ends : Nat])
  /\ line # <<>> => Newest > 0
  /\ \A i \in 1..Len(line) :
       /\ line[i].ends = IF i = Len(line) THEN Newest ELSE 0
       /\ IsHi(line[i].byte) => line[i].byte = <<"hi", sent[Newest]>>
  /\ \A i, j \in 1..Len(line) : IsHi(line[i].byte) /\ IsHi(line[j].byte) => i = j

\* A high byte in the buffer was taken from the line.
HiStored ==
  \A i \in 1..Len(buffer) : IsHi(buffer[i]) =>
    \E n \in 1..Newest : buffer[i] = <<"hi", sent[n]>> /\ (n = Newest => ~HiOnLine)

\* Within a packet the generator was fed what is in the buffer, behind one frame of
\* our own at most.
BufferSound ==
  /\ inPacket \in BOOLEAN /\ unEscaping \in BOOLEAN
  /\ buffer \in Seq(StoredBytes) /\ Len(buffer) <= maxPacketSize
  /\ HiStored
  /\ inPacket => \/ crcgen = buffer
                 \/ \E content \in OwnContents : crcgen = content \o buffer

\* Part is the whole, or what is left of it behind a frame of our own.
EndOf(part, whole) == whole = part \/ \E content \in OwnContents : whole = content \o part

\* What was handed on, and that it is older than every high byte still to be used.
Handed(f) ==
  /\ f \in [1..Len(got) -> 1..Newest]
  /\ \A i \in 1..Len(got) : EndOf(got[i], sent[f[i]]) /\ i <= f[i]
  /\ \A i, j \in 1..Len(got) : i < j => f[i] < f[j]
  /\ HiOnLine => \A i \in 1..Len(got) : f[i] < Newest
  /\ \A k \in 1..Len(buffer), n \in 1..Newest :
       buffer[k] = <<"hi", sent[n]>> => \A i \in 1..Len(got) : f[i] < n

GotSound == got \in Seq(Seq(StoredBytes)) /\ \E f : Handed(f)

Counters ==
  /\ noise \in 0..MaxNoise /\ own \in 0..MaxOwn /\ clear \in Int /\ clear >= -1
  /\ clear <= Newest /\ (line # <<>> => clear < Newest)

StationInv == SentFrames /\ LineSound /\ BufferSound /\ Counters

FramingInv == StationInv /\ GotSound

(***************************************************************************)
(* Resynchronisation.                                                      *)
(***************************************************************************)
Current == sent[Newest]
PartsOf(content) == CHOOSE e : Stuffed(content, e)
Parts == PartsOf(Current)

\* How many bytes of the frame have been taken from the line.
Taken == Len(Framed(Current)) - Len(line)

\* The receiver has taken the first k bytes of the body, and maybe an escape.
Before(k) ==
  /\ \/ ~unEscaping /\ Taken = 1 + Len(Parts[k])
     \/ /\ unEscaping /\ Taken = 2 + Len(Parts[k])
        /\ k < Len(Current) + 2 /\ Body(Current)[k + 1] \in {Flag, Escape}
  /\ inPacket /\ k > 0 => buffer # <<>>
  /\ clear >= 1 /\ Len(Current) + 2 <= maxPacketSize =>
       inPacket /\ buffer = SubSeq(Body(Current), 1, k) /\ crcgen = buffer

Between == ~unEscaping /\ (inPacket => buffer = <<>> /\ crcgen = <<>>)

InStep ==
  /\ line # <<>> /\ clear >= 0 =>
       /\ Taken >= 0
       /\ \A i \in 1..Len(line) : line[i].byte = Framed(Current)[Taken + i]
       /\ Taken > 0 => \E k \in 0..Len(Current) + 2 : Before(k)
  /\ clear >= 1 /\ (line = <<>> \/ Taken = 0) => Between

LEMMA InitFraming == Init => FramingInv
<1> SUFFICES ASSUME Init PROVE FramingInv
  OBVIOUS
<1>1. SentFrames
  BY FramingAssumption DEF Init, SentFrames, Newest
<1>2. LineSound
  BY DEF Init, LineSound, Newest
<1>3. BufferSound
  <2>1. buffer = <<>> /\ <<>> \in Seq(StoredBytes) /\ Len(buffer) = 0
    BY DEF Init
  <2>2. inPacket \in BOOLEAN /\ unEscaping \in BOOLEAN /\ ~inPacket
    BY DEF Init
  <2>3. Len(buffer) <= maxPacketSize
    BY <2>1, FramingAssumption
  <2>4. 1..Len(buffer) = {}
    BY <2>1
  <2> QED
    BY <2>1, <2>2, <2>3, <2>4, Zenon DEF BufferSound, HiStored
<1>4. GotSound
  <2>1. Handed(<<>>)
    BY DEF Init, Handed, HiOnLine, Newest
  <2> QED
    BY <2>1 DEF Init, GotSound
<1>5. Counters
  BY FramingAssumption DEF Init, Counters, Newest
<1> QED
  BY <1>1, <1>2, <1>3, <1>4, <1>5 DEF FramingInv, StationInv

\* Different frames have different contents, by their numbers.
LEMMA ContentsDiffer ==
  ASSUME SentFrames, NEW m \in 1..Newest, NEW n \in 1..Newest, sent[m] = sent[n]
  PROVE  m = n
<1>1. PICK p \in Payloads : sent[m] = Content(m, p)
  BY DEF SentFrames
<1>2. PICK q \in Payloads : sent[n] = Content(n, q)
  BY DEF SentFrames
<1>3. m \in Nat /\ n \in Nat
  BY DEF SentFrames, Newest
<1>4. sent[m][2] = <<"ctl", m>> /\ sent[n][2] = <<"ctl", n>>
  BY <1>1, <1>2, <1>3, ContentType
<1> QED
  BY <1>4

\* A byte is taken from the line.
LEMMA TailSound ==
  ASSUME LineSound, line # <<>>, line' = Tail(line), sent' = sent
  PROVE  LineSound' /\ (HiOnLine' => HiOnLine) /\ (IsHi(Head(line).byte) => ~HiOnLine')
<1>1. /\ line' \in Seq([byte : LineBytes, ends : Nat]) /\ Len(line') = Len(line) - 1
      /\ Len(line) \in Nat /\ Len(line) >= 1 /\ Head(line) = line[1]
      /\ \A i \in 1..Len(line') : line'[i] = line[i + 1] /\ i + 1 \in 1..Len(line)
  BY DEF LineSound
<1>2. Newest' = Newest /\ Newest > 0
  BY DEF Newest, LineSound
<1>3. ASSUME NEW i \in 1..Len(line')
      PROVE  /\ line'[i].ends = IF i = Len(line') THEN Newest' ELSE 0
             /\ IsHi(line'[i].byte) => line'[i].byte = <<"hi", sent'[Newest']>>
  <2>1. line'[i] = line[i + 1] /\ i + 1 \in 1..Len(line) /\ (i = Len(line') <=> i + 1 = Len(line))
    BY <1>1
  <2>2. line[i + 1].ends = IF i + 1 = Len(line) THEN Newest ELSE 0
    BY <2>1 DEF LineSound
  <2>3. IsHi(line[i + 1].byte) => line[i + 1].byte = <<"hi", sent[Newest]>>
    BY <2>1 DEF LineSound
  <2>4. line'[i].ends = IF i = Len(line') THEN Newest' ELSE 0
    BY <1>2, <2>1, <2>2
  <2>5. IsHi(line'[i].byte) => line'[i].byte = <<"hi", sent'[Newest']>>
    BY <1>2, <2>1, <2>3
  <2> QED
    BY <2>4, <2>5
<1>4. ASSUME NEW i \in 1..Len(line'), NEW j \in 1..Len(line'),
             IsHi(line'[i].byte), IsHi(line'[j].byte)
      PROVE  i = j
  <2>1. i + 1 = j + 1
    BY <1>1, <1>4 DEF LineSound
  <2> QED
    BY <2>1
<1>5. LineSound'
  BY <1>1, <1>2, <1>3, <1>4 DEF LineSound
<1>6. HiOnLine' => HiOnLine
  BY <1>1 DEF HiOnLine
<1>7. IsHi(Head(line).byte) => ~HiOnLine'
  <2> SUFFICES ASSUME IsHi(line[1].byte), NEW i \in 1..Len(line'), IsHi(line'[i].byte)
               PROVE  FALSE
    BY <1>1 DEF HiOnLine
  <2>1. 1 \in 1..Len(line) /\ i + 1 \in 1..Len(line) /\ IsHi(line[i + 1].byte)
    BY <1>1
  <2>2. \A m, n \in 1..Len(line) : IsHi(line[m].byte) /\ IsHi(line[n].byte) => m = n
    BY DEF LineSound
  <2>3. 1 = i + 1
    BY <2>1, <2>2
  <2> QED
    BY <2>1, <2>3
<1> QED
  BY <1>5, <1>6, <1>7

\* The line after the peer has sent a frame.
FrameLine(content, n) ==
  LET F == Framed(content)
  IN  [i \in 1..Len(F) |-> [byte |-> F[i], ends |-> IF i = Len(F) THEN n ELSE 0]]

LEMMA PeerWrites ==
  ASSUME StationInv, PeerSends
  PROVE  \E payload \in Payloads :
           LET content == Content(Newest + 1, payload)
           IN  /\ content \in Seq(DataBytes) /\ Newest + 1 \in Nat /\ Newest < MaxFrames
               /\ sent' = Append(sent, content) /\ Newest' = Newest + 1
               /\ Framed(content) \in Seq(LineBytes)
               /\ line = <<>> /\ line' = FrameLine(content, Newest + 1)
<1>1. sent \in Seq(Seq(DataBytes)) /\ Newest \in Nat /\ line = <<>> /\ Newest < MaxFrames
  BY DEF PeerSends, StationInv, SentFrames, Newest
<1>2. PICK payload \in Payloads :
        LET content == Content(Len(sent) + 1, payload)
            frame   == Framed(content)
        IN  /\ sent' = Append(sent, content)
            /\ line' = line \o [i \in DOMAIN frame |->
                 [byte |-> frame[i], ends |-> IF i = Len(frame) THEN Len(sent') ELSE 0]]
  BY DEF PeerSends
<1> DEFINE content == Content(Newest + 1, payload)
           F == Framed(content)
<1>3. content \in Seq(DataBytes)
  BY <1>1, ContentType
<1>4. F \in Seq(LineBytes)
  BY <1>3, StuffedExists, FrameBytes
<1>5. sent' = Append(sent, content) /\ Newest' = Newest + 1
  <2>1. sent' = Append(sent, content)
    BY <1>2 DEF Newest
  <2> HIDE DEF content
  <2> QED
    BY <1>1, <1>3, <2>1 DEF Newest
<1>6. line' = FrameLine(content, Newest + 1)
  <2>1. line' = line \o [i \in DOMAIN F |->
                  [byte |-> F[i], ends |-> IF i = Len(F) THEN Newest' ELSE 0]]
    BY <1>2 DEF Newest
  <2> HIDE DEF F, content
  <2>2. DOMAIN F = 1..Len(F) /\ Len(F) \in Nat
    BY <1>4
  <2> DEFINE w == [i \in 1..Len(F) |-> [byte |-> F[i], ends |-> IF i = Len(F) THEN Newest' ELSE 0]]
  <2>3. w \in Seq([byte : LineBytes, ends : Nat])
    <3>1. \A i \in 1..Len(F) : F[i] \in LineBytes
      BY <1>4
    <3>2. Newest' \in Nat
      BY <1>1, <1>5
    <3> DEFINE R == [byte : LineBytes, ends : Nat]
    <3>3. \A i \in 1..Len(F) : w[i] \in R
      BY <3>1, <3>2
    <3> HIDE DEF R
    <3>4. w \in [1..Len(F) -> R]
      BY <3>3
    <3> HIDE DEF w
    <3>5. w \in Seq(R)
      BY <2>2, <3>4
    <3> QED
      BY <3>5 DEF R
  <2>4. line' = w
    <3>1. line' = <<>> \o w
      BY <1>1, <2>1, <2>2
    <3> HIDE DEF w
    <3> QED
      BY <2>3, <3>1
  <2> QED
    BY <1>5, <2>4 DEF FrameLine, F
<1> QED
  BY <1>1, <1>3, <1>4, <1>5, <1>6

\* What a new frame on the line leaves of the invariant.
LEMMA PeerKeeps == ASSUME StationInv, PeerSends PROVE StationInv' /\ (GotSound => GotSound')
<1>1. PICK payload \in Payloads :
        LET content == Content(Newest + 1, payload)
        IN  /\ content \in Seq(DataBytes) /\ Newest + 1 \in Nat /\ Newest < MaxFrames
            /\ sent' = Append(sent, content) /\ Newest' = Newest + 1
            /\ Framed(content) \in Seq(LineBytes)
            /\ line = <<>> /\ line' = FrameLine(content, Newest + 1)
  BY PeerWrites
<1> DEFINE content == Content(Newest + 1, payload)
           F == Framed(content)
<1>2. UNCHANGED <<inPacket, unEscaping, buffer, crcgen, got, own, noise, clear>>
  BY DEF PeerSends
<1>3. /\ sent \in Seq(Seq(DataBytes)) /\ content \in Seq(DataBytes) /\ Newest = Len(sent)
      /\ Newest \in Nat /\ Newest < MaxFrames /\ Newest' = Newest + 1
      /\ sent' = Append(sent, content)
  BY <1>1 DEF StationInv, SentFrames, Newest
<1>4. /\ F \in Seq(LineBytes) /\ line' = FrameLine(content, Newest + 1)
      /\ Framed(content) = F
  BY <1>1
<1>5. content = Content(Newest + 1, payload)
  OBVIOUS
<1> HIDE DEF content, F
<1>6. /\ sent' \in Seq(Seq(DataBytes)) /\ Len(sent') = Newest + 1
      /\ sent'[Newest + 1] = content /\ \A n \in 1..Newest : sent'[n] = sent[n]
  BY <1>3
<1>7. SentFrames'
  <2>1. ASSUME NEW n \in 1..Newest' PROVE \E p \in Payloads : sent'[n] = Content(n, p)
    <3>1. CASE n = Newest + 1
      BY <1>5, <1>6, <3>1
    <3>2. CASE n # Newest + 1
      <4>1. n \in 1..Newest
        BY <1>3, <3>2
      <4> QED
        BY <1>6, <4>1 DEF StationInv, SentFrames
    <3> QED
      BY <3>1, <3>2
  <2>2. Newest' <= MaxFrames
    BY <1>3, FramingAssumption
  <2> QED
    BY <1>6, <2>1, <2>2 DEF SentFrames
<1>8. LineSound'
  <2>1. /\ Len(line') = Len(F) /\ Len(F) \in Nat
        /\ \A i \in 1..Len(F) : line'[i].byte = F[i]
                                /\ line'[i].ends = IF i = Len(F) THEN Newest' ELSE 0
    BY <1>3, <1>4 DEF FrameLine
  <2>2. line' \in Seq([byte : LineBytes, ends : Nat])
    <3> DEFINE R == [byte : LineBytes, ends : Nat]
    <3>1. \A i \in 1..Len(F) : line'[i] \in R
      BY <1>3, <1>4 DEF FrameLine
    <3> HIDE DEF R
    <3>2. line' \in [1..Len(F) -> R]
      BY <1>4, <3>1 DEF FrameLine
    <3>3. Len(F) \in Nat
      BY <2>1
    <3>4. line' \in Seq(R)
      <4> DEFINE m == Len(F)
      <4>1. m \in Nat /\ line' \in [1..m -> R]
        BY <3>2, <3>3
      <4> HIDE DEF m
      <4> QED
        BY <4>1
    <3> QED
      BY <3>4 DEF R
  <2>3. PICK p \in Nat : \A i \in 1..Len(F) : IsHi(F[i]) => i = p /\ F[i] = <<"hi", content>>
    BY <1>3, <1>4, FrameHi
  <2>4. ASSUME NEW i \in 1..Len(line')
        PROVE  /\ line'[i].ends = IF i = Len(line') THEN Newest' ELSE 0
               /\ IsHi(line'[i].byte) => line'[i].byte = <<"hi", sent'[Newest']>>
    <3>1. line'[i].byte = F[i] /\ line'[i].ends = IF i = Len(F) THEN Newest' ELSE 0
      BY <2>1
    <3>2. IsHi(F[i]) => F[i] = <<"hi", content>>
      BY <2>1, <2>3
    <3> QED
      BY <1>3, <1>6, <2>1, <3>1, <3>2
  <2>5. ASSUME NEW i \in 1..Len(line'), NEW j \in 1..Len(line'),
               IsHi(line'[i].byte), IsHi(line'[j].byte)
        PROVE  i = j
    <3>1. line'[i].byte = F[i] /\ line'[j].byte = F[j] /\ i \in 1..Len(F) /\ j \in 1..Len(F)
      BY <2>1
    <3> QED
      BY <2>3, <2>5, <3>1
  <2>6. Newest' > 0
    BY <1>3
  <2> QED
    BY <2>2, <2>4, <2>5, <2>6 DEF LineSound
<1>9. BufferSound'
  <2>1. ASSUME NEW i \in 1..Len(buffer), IsHi(buffer[i])
        PROVE  \E n \in 1..Newest' : buffer[i] = <<"hi", sent'[n]>> /\ (n = Newest' => ~HiOnLine')
    <3>1. PICK n \in 1..Newest : buffer[i] = <<"hi", sent[n]>>
      BY <2>1 DEF StationInv, BufferSound, HiStored
    <3>2. n \in 1..Newest' /\ n # Newest' /\ sent'[n] = sent[n]
      BY <1>3, <1>6
    <3> QED
      BY <3>1, <3>2
  <2>2. /\ inPacket \in BOOLEAN /\ unEscaping \in BOOLEAN
        /\ buffer \in Seq(StoredBytes) /\ Len(buffer) <= maxPacketSize
        /\ inPacket => crcgen = buffer \/ \E c \in OwnContents : crcgen = c \o buffer
    BY DEF StationInv, BufferSound
  <2> QED
    BY <1>2, <2>1, <2>2 DEF BufferSound, HiStored
<1>10. ASSUME GotSound PROVE GotSound'
  <2>1. got \in Seq(Seq(StoredBytes))
    BY <1>10 DEF GotSound
  <2>2. PICK f : Handed(f)
    BY <1>10 DEF GotSound
  <2>3. /\ f \in [1..Len(got) -> 1..Newest]
        /\ \A i \in 1..Len(got) : EndOf(got[i], sent[f[i]]) /\ i <= f[i]
        /\ \A i, j \in 1..Len(got) : i < j => f[i] < f[j]
    BY <2>2 DEF Handed
  <2>4. \A i \in 1..Len(got) : f[i] \in 1..Newest /\ f[i] \in 1..Newest' /\ f[i] < Newest'
    <3>1. \A i \in 1..Len(got) : f[i] \in 1..Newest
      BY <2>3
    <3>2. Newest \in Nat /\ Newest' = Newest + 1
      BY <1>3
    <3>3. \A m \in 1..Newest : m \in 1..Newest' /\ m < Newest'
      BY <3>2
    <3> QED
      BY <3>1, <3>3, Zenon
  <2>5. f \in [1..Len(got) -> 1..Newest']
    BY <2>3, <2>4
  <2>6. \A i \in 1..Len(got) : EndOf(got[i], sent'[f[i]])
    BY <1>6, <2>3, <2>4
  <2>7. ASSUME NEW k \in 1..Len(buffer), NEW n \in 1..Newest', buffer[k] = <<"hi", sent'[n]>>,
               NEW i \in 1..Len(got)
        PROVE  f[i] < n
    <3>1. CASE n = Newest'
      BY <2>4, <3>1
    <3>2. CASE n # Newest'
      <4>1. n \in 1..Newest /\ buffer[k] = <<"hi", sent[n]>>
        BY <1>3, <1>6, <2>7, <3>2
      <4> QED
        BY <2>2, <4>1 DEF Handed
    <3> QED
      BY <3>1, <3>2
  <2>8. Handed(f)'
    BY <1>2, <2>3, <2>4, <2>5, <2>6, <2>7 DEF Handed
  <2> QED
    BY <1>2, <2>1, <2>8 DEF GotSound
<1>11. Counters'
  <2>1. line = <<>> /\ Counters
    BY <1>1 DEF StationInv
  <2> QED
    BY <1>2, <1>3, <2>1 DEF Counters
<1> QED
  BY <1>7, <1>8, <1>9, <1>10, <1>11 DEF StationInv

(***************************************************************************)
(* What a step takes from the line into the buffer.                        *)
(***************************************************************************)
\* The high bytes of the new buffer were there, or one has left the line.
HiFlows ==
  \A k \in 1..Len(buffer') : IsHi(buffer'[k]) =>
    \/ \E j \in 1..Len(buffer) : buffer[j] = buffer'[k]
    \/ buffer'[k] = <<"hi", sent[Newest]>> /\ Newest > 0 /\ HiOnLine /\ ~HiOnLine'

LEMMA HiKept ==
  ASSUME StationInv, sent' = sent, HiOnLine' => HiOnLine, HiFlows
  PROVE  HiStored'
<1>1. Newest' = Newest /\ Newest \in Nat
  BY DEF Newest, StationInv, SentFrames
<1>2. ASSUME NEW k \in 1..Len(buffer'), IsHi(buffer'[k])
      PROVE  \E n \in 1..Newest : buffer'[k] = <<"hi", sent[n]>> /\ (n = Newest => ~HiOnLine')
  <2>1. CASE \E j \in 1..Len(buffer) : buffer[j] = buffer'[k]
    <3>1. PICK j \in 1..Len(buffer) : buffer[j] = buffer'[k]
      BY <2>1
    <3>2. PICK n \in 1..Newest : buffer[j] = <<"hi", sent[n]>> /\ (n = Newest => ~HiOnLine)
      BY <1>2, <3>1 DEF StationInv, BufferSound, HiStored
    <3> QED
      BY <3>1, <3>2
  <2>2. CASE buffer'[k] = <<"hi", sent[Newest]>> /\ Newest > 0 /\ HiOnLine /\ ~HiOnLine'
    BY <1>1, <2>2
  <2> QED
    BY <1>2, <2>1, <2>2 DEF HiFlows
<1> QED
  BY <1>1, <1>2 DEF HiStored

LEMMA GotKept ==
  ASSUME StationInv, GotSound, sent' = sent, got' = got, HiOnLine' => HiOnLine, HiFlows
  PROVE  GotSound'
<1>1. Newest' = Newest /\ Newest \in Nat
  BY DEF Newest, StationInv, SentFrames
<1>2. PICK f : Handed(f)
  BY DEF GotSound
<1>3. ASSUME NEW k \in 1..Len(buffer'), NEW n \in 1..Newest, buffer'[k] = <<"hi", sent[n]>>,
             NEW i \in 1..Len(got)
      PROVE  f[i] < n
  <2>1. IsHi(buffer'[k])
    BY <1>3 DEF IsHi
  <2>2. CASE \E j \in 1..Len(buffer) : buffer[j] = buffer'[k]
    BY <1>2, <1>3, <2>2 DEF Handed
  <2>3. CASE buffer'[k] = <<"hi", sent[Newest]>> /\ Newest > 0 /\ HiOnLine /\ ~HiOnLine'
    <3>1. sent[n] = sent[Newest] /\ Newest \in 1..Newest
      BY <1>1, <1>3, <2>3
    <3>2. n = Newest
      BY <3>1, ContentsDiffer DEF StationInv
    <3> QED
      BY <1>2, <2>3, <3>2 DEF Handed
  <2> QED
    BY <2>1, <2>2, <2>3 DEF HiFlows
<1>4. Handed(f)'
  BY <1>1, <1>2, <1>3 DEF Handed
<1> QED
  BY <1>4 DEF GotSound

LEMMA SentKept ==
  ASSUME SentFrames, sent' = sent
  PROVE  SentFrames'
  BY DEF SentFrames, Newest

LEMMA OwnKeeps == ASSUME StationInv, SendOwn PROVE StationInv' /\ (GotSound => GotSound')
<1>1. PICK content \in OwnContents : buffer' = <<>> /\ crcgen' = content
  BY DEF SendOwn, Sending
<1>2. UNCHANGED <<line, inPacket, unEscaping, sent, got, noise>> /\ Newest' = Newest
  BY DEF SendOwn, Newest
<1>3. HiFlows /\ (HiOnLine' => HiOnLine)
  BY <1>1, <1>2 DEF HiFlows, HiOnLine
<1>4. LineSound'
  BY <1>2 DEF StationInv, LineSound
<1>5. BufferSound'
  <2>1. HiStored'
    BY <1>2, <1>3, HiKept
  <2>2. <<>> \in Seq(StoredBytes) /\ Len(<<>>) <= maxPacketSize
    BY FramingAssumption
  <2>3. content \o <<>> = content
    BY BytesAssumption
  <2>4. inPacket' \in BOOLEAN /\ unEscaping' \in BOOLEAN
    BY <1>2 DEF StationInv, BufferSound
  <2>5. \E c \in OwnContents : crcgen' = c \o buffer'
    BY <1>1, <2>3
  <2> QED
    BY <1>1, <2>1, <2>2, <2>4, <2>5 DEF BufferSound
<1>6. Counters'
  <2>1. own' = own + 1 /\ own < MaxOwn /\ (clear' = -1 \/ clear' = clear)
    BY DEF SendOwn
  <2>2. Newest \in Nat
    BY DEF StationInv, SentFrames, Newest
  <2> QED
    BY <1>2, <2>1, <2>2, FramingAssumption DEF StationInv, Counters
<1> QED
  BY <1>2, <1>3, <1>4, <1>5, <1>6, GotKept, SentKept DEF StationInv

LEMMA HeadOf ==
  ASSUME NEW R, NEW s \in Seq(R), s # <<>>
  PROVE  /\ Len(s) \in Nat /\ Len(s) >= 1 /\ 1 \in 1..Len(s)
         /\ Head(s) = s[1] /\ s[1] \in R /\ Len(Tail(s)) = Len(s) - 1
         /\ Tail(s) \in Seq(R) /\ \A i \in 1..Len(Tail(s)) : Tail(s)[i] = s[i + 1]
  OBVIOUS

LEMMA NoiseKeeps == ASSUME StationInv, Noise PROVE StationInv' /\ (GotSound => GotSound')
<1>1. /\ UNCHANGED <<inPacket, unEscaping, buffer, crcgen, sent, got, own>> /\ Newest' = Newest
      /\ line # <<>> /\ noise < MaxNoise /\ noise' = noise + 1
  BY DEF Noise, Newest
<1>2. Newest \in Nat /\ Newest > 0
  BY <1>1 DEF StationInv, SentFrames, LineSound, Newest
<1>3. LineSound' /\ (HiOnLine' => HiOnLine) /\ clear' \in {0, -1}
  <2>1. CASE line' = Tail(line) /\ clear' = IF Head(line).ends # 0 THEN 0 ELSE -1
    BY <1>1, <2>1, TailSound DEF StationInv
  <2>2. ASSUME NEW b \in {Flag, Escape, <<"00">>}, line' = [line EXCEPT ![1].byte = b], clear' = -1
        PROVE  LineSound' /\ (HiOnLine' => HiOnLine) /\ clear' \in {0, -1}
    <3>1. b \in LineBytes /\ ~IsHi(b)
      BY DEF LineBytes, IsHi, Flag, Escape
    <3>2. line \in Seq([byte : LineBytes, ends : Nat]) /\ Len(line) \in Nat
      BY DEF StationInv, LineSound
    <3>3. line' \in Seq([byte : LineBytes, ends : Nat]) /\ Len(line') = Len(line)
          /\ \A i \in 1..Len(line) : /\ line'[i].ends = line[i].ends
                                     /\ i # 1 => line'[i].byte = line[i].byte
                                     /\ i = 1 => line'[i].byte = b
      <4> DEFINE R == [byte : LineBytes, ends : Nat]
                 x == [line[1] EXCEPT !.byte = b]
      <4>1. line[1] \in R /\ Len(line) >= 1
        BY <1>1, <3>2, HeadOf
      <4>2. x \in R /\ x.byte = b /\ x.ends = line[1].ends
        BY <3>1, <4>1
      <4>3. line' = [line EXCEPT ![1] = x]
        BY <2>2
      <4>4. line \in Seq(R)
        BY <3>2
      <4> HIDE DEF R, x
      <4>5. line' \in Seq(R) /\ Len(line') = Len(line)
            /\ \A i \in 1..Len(line) : line'[i] = IF i = 1 THEN x ELSE line[i]
        BY <4>1, <4>2, <4>3, <4>4
      <4>6. line' \in Seq([byte : LineBytes, ends : Nat])
        BY <4>5 DEF R
      <4> QED
        BY <4>2, <4>5, <4>6
    <3>4. \A i \in 1..Len(line) : IsHi(line'[i].byte) => line'[i].byte = line[i].byte
      BY <3>1, <3>3, Zenon
    <3>5. HiOnLine' => HiOnLine
      BY <3>3, <3>4 DEF HiOnLine
    <3>6. LineSound'
      <4>1. ASSUME NEW i \in 1..Len(line')
            PROVE  /\ line'[i].ends = IF i = Len(line') THEN Newest ELSE 0
                   /\ IsHi(line'[i].byte) => line'[i].byte = <<"hi", sent[Newest]>>
        <5>1. i \in 1..Len(line) /\ (i = Len(line') <=> i = Len(line))
              /\ line'[i].ends = line[i].ends
          BY <3>3
        <5>2. line[i].ends = IF i = Len(line) THEN Newest ELSE 0
          BY <5>1 DEF StationInv, LineSound
        <5>3. IsHi(line[i].byte) => line[i].byte = <<"hi", sent[Newest]>>
          BY <5>1 DEF StationInv, LineSound
        <5>4. IsHi(line'[i].byte) => line'[i].byte = <<"hi", sent[Newest]>>
          BY <3>4, <5>1, <5>3, Zenon
        <5> QED
          BY <5>1, <5>2, <5>4, Zenon
      <4>2. ASSUME NEW i \in 1..Len(line'), NEW j \in 1..Len(line'),
                   IsHi(line'[i].byte), IsHi(line'[j].byte)
            PROVE  i = j
        <5>1. i \in 1..Len(line) /\ j \in 1..Len(line) /\ IsHi(line[i].byte) /\ IsHi(line[j].byte)
          BY <3>3, <3>4, <4>2
        <5> QED
          BY <5>1 DEF StationInv, LineSound
      <4> QED
        BY <1>1, <1>2, <3>3, <4>1, <4>2 DEF LineSound
    <3> QED
      BY <2>2, <3>5, <3>6
  <2> QED
    BY <2>1, <2>2 DEF Noise
<1>4. HiFlows
  BY <1>1 DEF HiFlows
<1>5. BufferSound'
  <2>1. HiStored'
    BY <1>1, <1>3, <1>4, HiKept
  <2> QED
    BY <1>1, <2>1 DEF StationInv, BufferSound
<1>6. Counters'
  BY <1>1, <1>2, <1>3, FramingAssumption DEF StationInv, Counters
<1> QED
  BY <1>1, <1>3, <1>4, <1>5, <1>6, GotKept, SentKept DEF StationInv

\* The line and the counters after a byte was taken.
LEMMA TakeKeeps ==
  ASSUME StationInv, ProcessData
  PROVE  /\ line # <<>> /\ UNCHANGED <<sent, own, noise>> /\ Newest' = Newest /\ Newest > 0
         /\ SentFrames' /\ LineSound' /\ Counters' /\ (HiOnLine' => HiOnLine)
         /\ Head(line).byte \in LineBytes
         /\ IsHi(Head(line).byte) =>
              HiOnLine /\ ~HiOnLine' /\ Head(line).byte = <<"hi", sent[Newest]>>
<1>1. line # <<>> /\ line' = Tail(line) /\ UNCHANGED <<sent, own, noise>> /\ Newest' = Newest
  BY DEF ProcessData, Newest
<1>2. Newest \in Nat /\ Newest > 0
  BY <1>1 DEF StationInv, SentFrames, LineSound, Newest
<1>3. LineSound' /\ (HiOnLine' => HiOnLine) /\ (IsHi(Head(line).byte) => ~HiOnLine')
  BY <1>1, TailSound DEF StationInv
<1>4. /\ 1 \in 1..Len(line) /\ Head(line) = line[1] /\ line[1] \in [byte : LineBytes, ends : Nat]
      /\ Len(line) \in Nat /\ Len(line') = Len(line) - 1
  <2>1. line \in Seq([byte : LineBytes, ends : Nat])
    BY DEF StationInv, LineSound
  <2> QED
    BY <1>1, <2>1, HeadOf
<1>5. IsHi(Head(line).byte) => HiOnLine /\ Head(line).byte = <<"hi", sent[Newest]>>
  BY <1>4 DEF StationInv, LineSound, HiOnLine
<1>6. Counters'
  <2>1. clear' = IF Head(line).ends # 0 THEN clear + 1 ELSE clear
    BY DEF ProcessData
  <2>2. Head(line).ends = IF 1 = Len(line) THEN Newest ELSE 0
    <3>1. \A i \in 1..Len(line) : line[i].ends = IF i = Len(line) THEN Newest ELSE 0
      BY DEF StationInv, LineSound
    <3> QED
      BY <1>4, <3>1, Zenon
  <2>3. CASE Len(line) = 1
    <3>1. line' = <<>>
      BY <1>1, <1>3, <1>4, <2>3 DEF LineSound
    <3> QED
      BY <1>1, <1>2, <2>1, <2>2, <2>3, <3>1 DEF StationInv, Counters
  <2>4. CASE Len(line) # 1
    <3>1. clear' = clear
      BY <2>1, <2>2, <2>4
    <3> QED
      BY <1>1, <3>1 DEF StationInv, Counters
  <2> QED
    BY <2>3, <2>4
<1> QED
  BY <1>1, <1>2, <1>3, <1>4, <1>5, <1>6, SentKept DEF StationInv

LEMMA StoreKeeps ==
  ASSUME StationInv, ProcessData, unEscaping' = FALSE,
         NEW b, b = Head(line).byte \/ b = Xor(Head(line).byte), Store(b)
  PROVE  StationInv' /\ (GotSound => GotSound')
<1>1. /\ line # <<>> /\ UNCHANGED <<sent, own, noise>> /\ Newest' = Newest /\ Newest > 0
      /\ SentFrames' /\ LineSound' /\ Counters' /\ (HiOnLine' => HiOnLine)
      /\ Head(line).byte \in LineBytes
      /\ IsHi(Head(line).byte) =>
           HiOnLine /\ ~HiOnLine' /\ Head(line).byte = <<"hi", sent[Newest]>>
  BY TakeKeeps
<1>2. b \in StoredBytes
  BY <1>1 DEF StoredBytes
<1>3. IsHi(b) => HiOnLine /\ ~HiOnLine' /\ b = <<"hi", sent[Newest]>>
  <2>1. ~IsHi(Xor(Head(line).byte))
    BY XorIsPlain
  <2> QED
    BY <1>1, <2>1, Zenon
<1>4. /\ buffer \in Seq(StoredBytes) /\ Len(buffer) <= maxPacketSize
      /\ inPacket \in BOOLEAN /\ inPacket' = inPacket /\ got' = got
      /\ inPacket => crcgen = buffer \/ \E content \in OwnContents : crcgen = content \o buffer
  BY DEF StationInv, BufferSound, Store
<1>5. /\ buffer' \in Seq(StoredBytes) /\ Len(buffer') <= maxPacketSize
      /\ \A k \in 1..Len(buffer') : buffer'[k] = b \/ \E j \in 1..Len(buffer) : buffer'[k] = buffer[j]
  <2>1. CASE HasRoom
    <3>1. buffer' = Append(buffer, b) /\ Len(buffer) < maxPacketSize
      BY <2>1 DEF Store, HasRoom
    <3> QED
      BY <1>2, <1>4, <3>1, FramingAssumption
  <2>2. CASE ~HasRoom
    BY <1>4, <2>2 DEF Store
  <2> QED
    BY <2>1, <2>2
<1>6. inPacket' => crcgen' = buffer' \/ \E content \in OwnContents : crcgen' = content \o buffer'
  <2>0. CASE ~HasRoom
    <3>1. buffer' = buffer /\ crcgen' = crcgen
      BY <2>0 DEF Store
    <3> QED
      BY <1>4, <3>1, Zenon
  <2>1. HasRoom => buffer' = Append(buffer, b) /\ crcgen' = Append(crcgen, b)
    BY DEF Store
  <2>2. ASSUME HasRoom, NEW content \in OwnContents, crcgen = content \o buffer
        PROVE  crcgen' = content \o buffer'
    <3>1. content \in Seq(Range(content))
      BY BytesAssumption
    <3>2. content \in Seq(Range(content) \union StoredBytes)
          /\ buffer \in Seq(Range(content) \union StoredBytes)
      BY <1>4, <3>1, SeqMonotonic
    <3>3. b \in Range(content) \union StoredBytes
      BY <1>2
    <3> HIDE DEF StoredBytes
    <3>4. Append(content \o buffer, b) = content \o Append(buffer, b)
      <4> DEFINE A == Range(content) \union StoredBytes
      <4>1. content \in Seq(A) /\ buffer \in Seq(A) /\ b \in A
        BY <3>2, <3>3
      <4> HIDE DEF A
      <4> QED
        BY <4>1
    <3> QED
      BY <2>1, <2>2, <3>4
  <2>3. HasRoom /\ crcgen = buffer => crcgen' = buffer'
    BY <2>1
  <2> QED
    BY <1>4, <2>0, <2>2, <2>3, Zenon
<1>7. HiFlows
  BY <1>1, <1>3, <1>5 DEF HiFlows
<1>8. BufferSound'
  <2>1. HiStored'
    BY <1>1, <1>7, HiKept
  <2> QED
    BY <1>4, <1>5, <1>6, <2>1 DEF BufferSound
<1> QED
  BY <1>1, <1>4, <1>7, <1>8, GotKept DEF StationInv

\* What is left when the buffer stays or is cleared and nothing is handed on.
LEMMA IdleKeeps ==
  ASSUME StationInv, ProcessData, got' = got, inPacket' \in BOOLEAN, unEscaping' \in BOOLEAN,
         buffer' \in {buffer, <<>>},
         inPacket' => crcgen' = buffer' \/ (inPacket /\ UNCHANGED <<buffer, crcgen>>)
  PROVE  StationInv' /\ (GotSound => GotSound')
<1>1. /\ UNCHANGED <<sent, own, noise>> /\ Newest' = Newest
      /\ SentFrames' /\ LineSound' /\ Counters' /\ (HiOnLine' => HiOnLine)
  BY TakeKeeps
<1>2. HiFlows
  BY DEF HiFlows
<1>3. BufferSound'
  <2>1. HiStored'
    BY <1>1, <1>2, HiKept
  <2>2. <<>> \in Seq(StoredBytes) /\ Len(<<>>) <= maxPacketSize
    BY FramingAssumption
  <2>3. buffer' \in Seq(StoredBytes) /\ Len(buffer') <= maxPacketSize
    BY <2>2 DEF StationInv, BufferSound
  <2>4. inPacket' => crcgen' = buffer' \/ \E content \in OwnContents : crcgen' = content \o buffer'
    BY DEF StationInv, BufferSound
  <2> QED
    BY <2>1, <2>3, <2>4 DEF BufferSound
<1> QED
  BY <1>1, <1>2, <1>3, GotKept DEF StationInv

\* The frame that is right: its CRC names the content.
Right == SubSeq(buffer, Len(buffer) - 1, Len(buffer)) = Crc(MinusTwo(crcgen))

LEMMA RightIsSent ==
  ASSUME StationInv, inPacket, Len(buffer) >= 4, Right
  PROVE  /\ SubSeq(buffer, 1, Len(buffer) - 2) \in Seq(StoredBytes)
         /\ \E n \in 1..Newest : /\ EndOf(SubSeq(buffer, 1, Len(buffer) - 2), sent[n])
                                 /\ buffer[Len(buffer) - 1] = <<"hi", sent[n]>>
                                 /\ n = Newest => ~HiOnLine
<1> DEFINE l == Len(buffer)
           M == MinusTwo(crcgen)
           part == SubSeq(buffer, 1, l - 2)
<1>1. buffer \in Seq(StoredBytes) /\ l \in Nat /\ part \in Seq(StoredBytes)
  BY DEF StationInv, BufferSound
<1>2. buffer[l - 1] = <<"hi", M>>
  <2>1. SubSeq(buffer, l - 1, l)[1] = buffer[l - 1]
    BY <1>1
  <2>2. Crc(M)[1] = <<"hi", M>>
    BY DEF Crc
  <2>3. SubSeq(buffer, l - 1, l) = Crc(M)
    BY DEF Right
  <2> HIDE DEF M
  <2> QED
    BY <2>1, <2>2, <2>3
<1>3. PICK n \in 1..Newest : buffer[l - 1] = <<"hi", sent[n]>> /\ (n = Newest => ~HiOnLine)
  <2>1. IsHi(buffer[l - 1]) /\ l - 1 \in 1..l
    BY <1>1, <1>2 DEF IsHi
  <2> QED
    BY <2>1 DEF StationInv, BufferSound, HiStored
<1>4. M = sent[n]
  BY <1>2, <1>3
<1>5. EndOf(part, M)
  <2>1. CASE crcgen = buffer
    BY <2>1 DEF MinusTwo, EndOf
  <2>2. ASSUME NEW content \in OwnContents, crcgen = content \o buffer PROVE M = content \o part
    <3> DEFINE A == Range(content) \union StoredBytes
    <3>1. content \in Seq(A) /\ buffer \in Seq(A)
      <4>1. content \in Seq(Range(content))
        BY BytesAssumption
      <4> QED
        BY <1>1, <4>1, SeqMonotonic
    <3> HIDE DEF A
    <3>2. M = SubSeq(content \o buffer, 1, Len(content \o buffer) - 2)
      BY <2>2 DEF MinusTwo
    <3> HIDE DEF M
    <3> DEFINE whole == content \o buffer
               k == Len(content)
    <3>3. /\ whole \in Seq(A) /\ Len(whole) = k + l /\ k \in Nat
          /\ \A i \in 1..k : whole[i] = content[i]
          /\ \A i \in 1..l : whole[k + i] = buffer[i]
      BY <3>1
    <3>4. part \in Seq(A) /\ Len(part) = l - 2 /\ \A i \in 1..l - 2 : part[i] = buffer[i]
      BY <3>1
    <3>5. M = SubSeq(whole, 1, (k + l) - 2)
      BY <3>2, <3>3
    <3> HIDE DEF whole, part
    <3>6. /\ M \in Seq(A) /\ Len(M) = (k + l) - 2
          /\ \A i \in 1..(k + l) - 2 : M[i] = whole[i]
      BY <1>1, <3>3, <3>5
    <3> DEFINE other == content \o part
    <3>7. /\ other \in Seq(A) /\ Len(other) = (k + l) - 2
          /\ \A i \in 1..k : other[i] = content[i]
          /\ \A i \in 1..l - 2 : other[k + i] = part[i]
      <4>1. content \in Seq(A) /\ part \in Seq(A) /\ Len(part) = l - 2 /\ k \in Nat /\ l - 2 \in Nat
        BY <1>1, <3>1, <3>3, <3>4
      <4> HIDE DEF k
      <4>2. other \in Seq(A)
        BY <4>1
      <4>3. Len(other) = Len(content) + Len(part)
        BY <4>1
      <4>4. \A i \in 1..Len(content) : other[i] = content[i]
        BY <4>1
      <4>5. \A i \in 1..Len(part) : other[Len(content) + i] = part[i]
        BY <4>1
      <4>6. Len(content) = k /\ Len(part) = l - 2 /\ l \in Nat
        BY <1>1, <4>1 DEF k
      <4>7. Len(other) = (k + l) - 2
        BY <4>1, <4>3, <4>6
      <4>8. \A i \in 1..l - 2 : other[k + i] = part[i]
        BY <4>5, <4>6, Zenon
      <4> QED
        BY <4>2, <4>4, <4>6, <4>7, <4>8, Zenon
    <3> HIDE DEF other
    <3>8. ASSUME NEW i \in 1..(k + l) - 2 PROVE M[i] = other[i]
      <4>1. CASE i <= k
        BY <1>1, <3>3, <3>6, <3>7, <4>1
      <4>2. CASE i > k
        <5>1. i - k \in 1..l - 2 /\ i - k \in 1..l /\ k + (i - k) = i
          BY <1>1, <3>3, <4>2
        <5>2. whole[k + (i - k)] = buffer[i - k] /\ other[k + (i - k)] = part[i - k]
              /\ part[i - k] = buffer[i - k]
          BY <3>3, <3>4, <3>7, <5>1
        <5> QED
          BY <3>6, <5>1, <5>2
      <4> QED
        BY <3>3, <4>1, <4>2
    <3> HIDE DEF k
    <3>9. M = other
      BY <3>6, <3>7, <3>8
    <3> QED
      BY <3>9 DEF other
  <2> QED
    BY <2>1, <2>2 DEF StationInv, BufferSound, EndOf
<1> HIDE DEF M, part
<1>6. EndOf(part, sent[n])
  BY <1>4, <1>5
<1> QED
  BY <1>1, <1>3, <1>6 DEF part

LEMMA AcceptKeeps ==
  ASSUME StationInv, ProcessData, UNCHANGED unEscaping, inPacket, inPacket' = FALSE,
         Len(buffer) >= 4, Right, got' = Append(got, SubSeq(buffer, 1, Len(buffer) - 2)),
         buffer' = <<>>
  PROVE  StationInv' /\ (GotSound => GotSound')
<1>1. /\ UNCHANGED <<sent, own, noise>> /\ Newest' = Newest
      /\ SentFrames' /\ LineSound' /\ Counters' /\ (HiOnLine' => HiOnLine)
  BY TakeKeeps
<1>2. BufferSound'
  <2>1. HiStored'
    BY DEF HiStored
  <2>2. <<>> \in Seq(StoredBytes) /\ Len(<<>>) <= maxPacketSize
    BY FramingAssumption
  <2>3. unEscaping' \in BOOLEAN
    BY DEF StationInv, BufferSound
  <2> QED
    BY <2>1, <2>2, <2>3 DEF BufferSound
<1>3. ASSUME GotSound PROVE GotSound'
  <2> DEFINE content == SubSeq(buffer, 1, Len(buffer) - 2)
  <2>1. PICK n \in 1..Newest : /\ EndOf(content, sent[n]) /\ content \in Seq(StoredBytes)
                               /\ buffer[Len(buffer) - 1] = <<"hi", sent[n]>>
                               /\ n = Newest => ~HiOnLine
    BY <1>3, RightIsSent
  <2>2. Len(buffer) - 1 \in 1..Len(buffer)
    BY DEF StationInv, BufferSound
  <2>3. got' = Append(got, content)
    OBVIOUS
  <2> HIDE DEF content
  <2>4. PICK f : Handed(f)
    BY <1>3 DEF GotSound
  <2>5. /\ got \in Seq(Seq(StoredBytes)) /\ Len(got) \in Nat /\ Newest \in Nat
        /\ f \in [1..Len(got) -> 1..Newest]
        /\ \A i \in 1..Len(got) : f[i] \in 1..Newest /\ EndOf(got[i], sent[f[i]]) /\ i <= f[i] /\ f[i] < n
        /\ \A i, j \in 1..Len(got) : i < j => f[i] < f[j]
    <3>1. got \in Seq(Seq(StoredBytes)) /\ Newest \in Nat
      BY <1>3 DEF StationInv, GotSound, SentFrames, Newest
    <3>2. \A i \in 1..Len(got) : f[i] < n
      BY <2>1, <2>2, <2>4 DEF Handed
    <3>3. f \in [1..Len(got) -> 1..Newest]
      BY <2>4 DEF Handed
    <3>4. \A i \in 1..Len(got) : EndOf(got[i], sent[f[i]]) /\ i <= f[i]
      BY <2>4 DEF Handed
    <3>5. \A i, j \in 1..Len(got) : i < j => f[i] < f[j]
      BY <2>4 DEF Handed
    <3>6. \A i \in 1..Len(got) : f[i] \in 1..Newest
      BY <3>3
    <3>7. Len(got) \in Nat
      BY <3>1
    <3> QED
      BY <3>1, <3>2, <3>3, <3>4, <3>5, <3>6, <3>7, Zenon
  <2> DEFINE N == Len(got) + 1
             h == [i \in 1..N |-> IF i = N THEN n ELSE f[i]]
  <2>6. /\ got' \in Seq(Seq(StoredBytes)) /\ Len(got') = N /\ got'[N] = content
        /\ \A i \in 1..Len(got) : got'[i] = got[i]
    <3> DEFINE A == Seq(StoredBytes)
    <3>1. got \in Seq(A) /\ content \in A
      BY <2>1, <2>5
    <3> HIDE DEF A
    <3>2. /\ got' \in Seq(A) /\ Len(got') = N /\ got'[N] = content
          /\ \A i \in 1..Len(got) : got'[i] = got[i]
      <4>1. /\ Append(got, content) \in Seq(A) /\ Len(Append(got, content)) = Len(got) + 1
            /\ Append(got, content)[Len(got) + 1] = content
            /\ \A i \in 1..Len(got) : Append(got, content)[i] = got[i]
        BY <3>1, AppendProperties
      <4> QED
        BY <2>3, <4>1, Zenon
    <3> QED
      BY <3>2 DEF A
  <2>7. /\ h[N] = n /\ N \in 1..N
        /\ \A i \in 1..N : i # N => i \in 1..Len(got) /\ h[i] = f[i]
        /\ DOMAIN h = 1..N /\ h = [i \in 1..N |-> h[i]]
    BY <2>5
  <2> HIDE DEF h
  <2>8. \A i \in 1..N : h[i] \in 1..Newest
    BY <2>1, <2>5, <2>7
  <2>9. h \in [1..N -> 1..Newest]
    BY <2>7, <2>8
  <2>10. N <= n
    <3>1. CASE Len(got) = 0
      BY <2>1, <2>5, <3>1
    <3>2. CASE Len(got) # 0
      <4>1. Len(got) \in 1..Len(got)
        BY <2>5, <3>2
      <4>2. Len(got) <= f[Len(got)] /\ f[Len(got)] < n /\ f[Len(got)] \in 1..Newest
        BY <2>5, <4>1, Zenon
      <4>3. Len(got) \in Nat /\ n \in Nat /\ f[Len(got)] \in Nat
        BY <2>1, <2>5, <4>2
      <4> QED
        BY <4>2, <4>3
    <3> QED
      BY <3>1, <3>2
  <2>11. ASSUME NEW i \in 1..N PROVE EndOf(got'[i], sent[h[i]]) /\ i <= h[i] /\ h[i] <= n
    <3>1. CASE i = N
      <4>1. h[i] = n /\ got'[i] = content
        BY <2>6, <2>7, <3>1, Zenon
      <4>2. i <= n /\ n <= n
        BY <2>1, <2>5, <2>10, <3>1
      <4>3. EndOf(content, sent[n])
        BY <2>1
      <4> QED
        BY <4>1, <4>2, <4>3, Zenon
    <3>2. CASE i # N
      <4>1. i \in 1..Len(got) /\ h[i] = f[i]
        BY <2>7, <3>2, Zenon
      <4>2. EndOf(got[i], sent[f[i]]) /\ i <= f[i] /\ f[i] < n /\ f[i] \in 1..Newest
        BY <2>5, <4>1, Zenon
      <4>3. got'[i] = got[i]
        BY <2>6, <4>1, Zenon
      <4>4. f[i] \in Nat /\ n \in Nat
        BY <2>1, <2>5, <4>2
      <4>5. f[i] <= n
        BY <4>2, <4>4
      <4> QED
        BY <4>1, <4>2, <4>3, <4>5, Zenon
    <3> QED
      BY <3>1, <3>2
  <2>12. ASSUME NEW i \in 1..N, NEW j \in 1..N, i < j PROVE h[i] < h[j]
    <3>1. i # N /\ i \in 1..Len(got)
      BY <2>5, <2>12
    <3>2. CASE j = N
      BY <2>5, <2>7, <3>1, <3>2
    <3>3. CASE j # N
      BY <2>5, <2>7, <2>12, <3>1, <3>3
    <3> QED
      BY <3>2, <3>3
  <2>13. HiOnLine' => \A i \in 1..N : h[i] < Newest
    <3> SUFFICES ASSUME HiOnLine', NEW i \in 1..N PROVE h[i] < Newest
      OBVIOUS
    <3>1. n < Newest
      BY <1>1, <2>1, <2>5
    <3>2. h[i] <= n /\ h[i] \in 1..Newest
      BY <2>8, <2>11
    <3> QED
      BY <2>1, <2>5, <3>1, <3>2
  <2>14. \E g : Handed(g)'
    <3>0. PICK g : g = h
      OBVIOUS
    <3>1. 1..Len(buffer') = {}
      OBVIOUS
    <3>2. Len(got') = N
      BY <2>6
    <3> HIDE DEF N
    <3>3. g \in [1..Len(got') -> 1..Newest']
      BY <1>1, <2>9, <3>0, <3>2
    <3>4. \A i \in 1..Len(got') : EndOf(got'[i], sent'[g[i]]) /\ i <= g[i]
      BY <1>1, <2>11, <3>0, <3>2
    <3>5. \A i, j \in 1..Len(got') : i < j => g[i] < g[j]
      BY <2>12, <3>0, <3>2
    <3>6. HiOnLine' => \A i \in 1..Len(got') : g[i] < Newest'
      BY <1>1, <2>13, <3>0, <3>2, Zenon
    <3>7. \A k \in 1..Len(buffer'), m \in 1..Newest' :
            buffer'[k] = <<"hi", sent'[m]>> => \A i \in 1..Len(got') : g[i] < m
      BY <3>1, Zenon
    <3>8. Handed(g)'
      BY <3>3, <3>4, <3>5, <3>6, <3>7, Zenon DEF Handed
    <3> QED
      BY <3>8, Zenon
  <2>15. GotSound'
    BY <2>6, <2>14 DEF GotSound
  <2> QED
    BY <2>15
<1> QED
  BY <1>1, <1>2, <1>3 DEF StationInv

LEMMA ProcessKeeps ==
  ASSUME StationInv, ProcessData
  PROVE  StationInv' /\ (GotSound => GotSound')
<1> DEFINE b == Head(line).byte
<1>1. inPacket \in BOOLEAN /\ unEscaping \in BOOLEAN
  BY DEF StationInv, BufferSound
<1>2. CASE b = Escape
  <2>1. unEscaping' = TRUE /\ UNCHANGED <<inPacket, buffer, crcgen, got>>
    BY <1>2 DEF ProcessData
  <2> QED
    BY <1>1, <2>1, IdleKeeps
<1>3. CASE b # Escape /\ b = Flag /\ ~unEscaping
  <2>1. FrameFlag /\ UNCHANGED unEscaping
    BY <1>3 DEF ProcessData
  <2>2. CASE ~inPacket
    <3>1. inPacket' = TRUE /\ buffer' = <<>> /\ crcgen' = <<>> /\ got' = got
      BY <2>1, <2>2 DEF FrameFlag
    <3> QED
      BY <1>1, <2>1, <3>1, IdleKeeps
  <2>3. CASE inPacket /\ buffer = <<>>
    <3>1. UNCHANGED <<inPacket, buffer, crcgen, got>>
      BY <2>1, <2>3 DEF FrameFlag
    <3> QED
      BY <1>1, <2>1, <2>3, <3>1, IdleKeeps
  <2>4. CASE inPacket /\ buffer # <<>>
    <3>1. inPacket' = FALSE /\ PreProcessPacket
      BY <2>1, <2>4 DEF FrameFlag
    <3>2. CASE Len(buffer) < 4
      <4>1. UNCHANGED <<buffer, crcgen, got>>
        BY <3>1, <3>2 DEF PreProcessPacket
      <4> QED
        BY <1>1, <2>1, <3>1, <4>1, IdleKeeps
    <3>3. CASE ~(Len(buffer) < 4) /\ ~Right
      <4>1. buffer' = <<>> /\ got' = got
        BY <3>1, <3>3 DEF PreProcessPacket, Right, Sending
      <4> QED
        BY <1>1, <2>1, <3>1, <4>1, IdleKeeps
    <3>4. CASE ~(Len(buffer) < 4) /\ Right
      <4>1. got' = Append(got, SubSeq(buffer, 1, Len(buffer) - 2)) /\ buffer' = <<>>
        BY <3>1, <3>4 DEF PreProcessPacket, Right
      <4>2. Len(buffer) >= 4
        BY <3>4 DEF StationInv, BufferSound
      <4> QED
        BY <2>1, <2>4, <3>1, <3>4, <4>1, <4>2, AcceptKeeps
    <3> QED
      BY <3>2, <3>3, <3>4
  <2> QED
    BY <2>2, <2>3, <2>4
<1>4. CASE b # Escape /\ ~(b = Flag /\ ~unEscaping)
  <2>1. Store(IF unEscaping THEN Xor(b) ELSE b) /\ unEscaping' = FALSE
    BY <1>4 DEF ProcessData
  <2>2. CASE unEscaping
    <3>1. Store(Xor(b))
      BY <2>1, <2>2
    <3> QED
      BY <2>1, <3>1, StoreKeeps
  <2>3. CASE ~unEscaping
    <3>1. Store(b)
      BY <2>1, <2>3
    <3> QED
      BY <2>1, <3>1, StoreKeeps
  <2> QED
    BY <2>2, <2>3
<1> QED
  BY <1>2, <1>3, <1>4

LEMMA StutterKeeps == ASSUME StationInv, UNCHANGED vars PROVE StationInv' /\ (GotSound => GotSound')
<1>1. SentFrames' /\ LineSound' /\ Counters'
  BY DEF StationInv, vars, SentFrames, LineSound, Counters, Newest
<1>2. HiFlows /\ HiOnLine' = HiOnLine /\ sent' = sent /\ got' = got
  BY DEF vars, HiFlows, HiOnLine
<1>3. BufferSound'
  <2>1. HiStored'
    BY <1>2, HiKept
  <2> QED
    BY <2>1 DEF StationInv, BufferSound, vars
<1> QED
  BY <1>1, <1>2, <1>3, GotKept DEF StationInv

LEMMA StationInvariant == Spec => []StationInv
<1>1. Init => StationInv
  BY InitFraming DEF FramingInv
<1>2. StationInv /\ [Next]_vars => StationInv'
  BY PeerKeeps, OwnKeeps, ProcessKeeps, NoiseKeeps, StutterKeeps DEF Next
<1> QED
  BY <1>1, <1>2, PTL DEF Spec

LEMMA FramingInvariant == Spec => []FramingInv
<1>1. FramingInv /\ [Next]_vars => FramingInv'
  BY PeerKeeps, OwnKeeps, ProcessKeeps, NoiseKeeps, StutterKeeps DEF Next, FramingInv
<1> QED
  BY InitFraming, <1>1, PTL DEF Spec

(***************************************************************************)
(* The receiver in step with the frame.                                    *)
(***************************************************************************)
LEMMA InFrame ==
  ASSUME StationInv, Newest > 0
  PROVE  Current \in Seq(DataBytes) /\ Len(Current) >= 2 /\ Stuffed(Current, Parts)
<1>1. Newest \in 1..Newest
  BY DEF StationInv, SentFrames, Newest
<1>2. PICK payload \in Payloads : Current = Content(Newest, payload)
  BY <1>1 DEF StationInv, SentFrames, Current
<1>3. Newest \in Nat
  BY <1>1
<1>4. Current \in Seq(DataBytes) /\ Len(Current) >= 2
  BY <1>2, <1>3, ContentType
<1>5. \E e : Stuffed(Current, e)
  BY <1>4, StuffedExists
<1>6. Stuffed(Current, Parts)
  BY <1>5 DEF Parts, PartsOf
<1> QED
  BY <1>4, <1>6

\* The byte that is next, when k bytes of the body were taken.
LastFlag(k) ==
  k = Len(Current) + 2 /\ ~unEscaping /\ Head(line).byte = Flag /\ Len(line) = 1

FirstHalf(k) ==
  /\ k < Len(Current) + 2 /\ ~unEscaping /\ Head(line).byte = Escape /\ Len(line) > 1
  /\ Body(Current)[k + 1] \in {Flag, Escape} /\ Taken = 1 + Len(Parts[k])

WholeByte(k) ==
  /\ k < Len(Current) + 2 /\ Len(line) > 1 /\ Taken = Len(Parts[k + 1])
  /\ Head(line).byte \notin {Flag, Escape}
  /\ Body(Current)[k + 1] = IF unEscaping THEN Xor(Head(line).byte) ELSE Head(line).byte

LEMMA NextByte ==
  ASSUME StationInv, line # <<>>, clear >= 0, InStep,
         NEW k \in 0..Len(Current) + 2, Before(k)
  PROVE  LastFlag(k) \/ FirstHalf(k) \/ WholeByte(k)
<1> DEFINE n == Len(Current) + 2
           F == Framed(Current)
<1>1. Current \in Seq(DataBytes) /\ Stuffed(Current, Parts) /\ n \in Nat
  BY InFrame DEF StationInv, LineSound
<1>2. Len(line) \in Nat /\ Len(line) >= 1 /\ 1 \in 1..Len(line) /\ Head(line) = line[1]
  <2>1. line \in Seq([byte : LineBytes, ends : Nat])
    BY DEF StationInv, LineSound
  <2> QED
    BY <2>1, HeadOf
<1>3. Head(line).byte = F[Taken + 1]
  BY <1>2 DEF InStep
<1>4. /\ Len(F) = Len(Parts[n]) + 2 /\ F[Len(F)] = Flag /\ Len(Parts[n]) \in Nat
      /\ Len(F) = Taken + Len(line)
  <2>1. Len(F) = Len(Parts[n]) + 2 /\ F[Len(F)] = Flag
    BY <1>1, FrameBytes
  <2>2. Parts[n] \in Seq(LineBytes)
    BY <1>1, StuffedType
  <2> HIDE DEF F
  <2>3. Len(Parts[n]) \in Nat
    BY <2>2
  <2> QED
    BY <1>2, <2>1, <2>3 DEF Taken, F
<1> HIDE DEF F
<1>5. Taken = IF unEscaping THEN 2 + Len(Parts[k]) ELSE 1 + Len(Parts[k])
  BY DEF Before
<1>6. CASE k = n
  <2>1. ~unEscaping
    BY <1>6 DEF Before
  <2>2. Len(line) = 1 /\ Taken + 1 = Len(F)
    <3>1. Taken = 1 + Len(Parts[n])
      BY <1>5, <1>6, <2>1
    <3>2. Len(F) = Len(Parts[n]) + 2 /\ Len(Parts[n]) \in Nat /\ Len(F) = Taken + Len(line)
      BY <1>4
    <3> DEFINE x == Len(Parts[n])
               y == Len(line)
    <3>3. Len(F) = x + 2 /\ x \in Nat /\ Len(F) = Taken + y /\ Taken = 1 + x /\ y \in Nat
      BY <1>2, <3>1, <3>2
    <3> HIDE DEF x, y
    <3>4. y = 1 /\ Taken + 1 = Len(F)
      BY <3>3
    <3> QED
      BY <3>4 DEF y
  <2> QED
    BY <1>3, <1>4, <1>6, <2>1, <2>2 DEF LastFlag
<1>7. CASE k # n
  <2> DEFINE b == Body(Current)[k + 1]
             d == SendByte(b)
  <2>1. k + 1 \in 1..n /\ (k + 1) - 1 = k /\ k < n
    BY <1>1, <1>7
  <2>2. b \in DataBytes \union CrcBytes
    <3>1. Body(Current) \in Seq(DataBytes \union CrcBytes) /\ Len(Body(Current)) = n
      BY <1>1, BodyType
    <3> QED
      BY <2>1, <3>1
  <2>3. /\ Len(Parts[k]) \in Nat /\ Len(Parts[k + 1]) \in Nat
        /\ Len(Parts[k + 1]) = Len(Parts[k]) + Len(d)
        /\ Len(Parts[k + 1]) <= Len(Parts[n])
        /\ \A i \in 1..Len(d) : F[Len(Parts[k]) + 1 + i] = d[i]
    <3> DEFINE j == k + 1
    <3>1. /\ Len(Parts[j - 1]) \in Nat /\ Len(Parts[j]) \in Nat
          /\ Len(Parts[j]) = Len(Parts[j - 1]) + Len(SendByte(Body(Current)[j]))
          /\ Len(Parts[j]) <= Len(Parts[n])
          /\ \A i \in 1..Len(SendByte(Body(Current)[j])) :
               Framed(Current)[Len(Parts[j - 1]) + 1 + i] = SendByte(Body(Current)[j])[i]
      <4>1. j \in 1..Len(Current) + 2
        BY <2>1
      <4> HIDE DEF j
      <4>2. BytePlaced(Current, Parts, j)
        BY <1>1, <4>1, FrameByte
      <4> QED
        BY <4>2 DEF BytePlaced
    <3>2. j - 1 = k /\ j = k + 1
      BY <2>1
    <3> HIDE DEF j
    <3> QED
      BY <3>1, <3>2 DEF F
  <2>4. /\ b \in {Flag, Escape} => /\ d = <<Escape, Xor(b)>> /\ Xor(Xor(b)) = b
                                   /\ Xor(b) \notin {Flag, Escape}
        /\ b \notin {Flag, Escape} => d = <<b>>
    BY <2>2, SendByteType
  <2> HIDE DEF b, d
  <2>5. CASE b \notin {Flag, Escape}
    <3>1. d = <<b>> /\ ~unEscaping
      BY <2>4, <2>5 DEF Before, b
    <3>2. Len(d) = 1 /\ d[1] = b
      BY <3>1
    <3>3. F[Len(Parts[k]) + 1 + 1] = b /\ Taken = 1 + Len(Parts[k])
      BY <1>5, <2>3, <3>1, <3>2
    <3>4. Taken = Len(Parts[k + 1]) /\ Taken + 1 = Len(Parts[k]) + 1 + 1 /\ Len(line) > 1
      BY <1>2, <1>4, <2>3, <3>2, <3>3
    <3>5. Head(line).byte = b
      BY <1>3, <3>3, <3>4
    <3> QED
      BY <2>1, <2>5, <3>1, <3>4, <3>5 DEF WholeByte, b
  <2>6. CASE b \in {Flag, Escape}
    <3>1. Len(d) = 2 /\ d[1] = Escape /\ d[2] = Xor(b)
      BY <2>4, <2>6
    <3>2. F[Len(Parts[k]) + 1 + 1] = Escape /\ F[Len(Parts[k]) + 1 + 2] = Xor(b)
      BY <2>3, <3>1
    <3>3. CASE unEscaping
      <4>1. Taken = 2 + Len(Parts[k]) /\ Taken + 1 = Len(Parts[k]) + 1 + 2
        BY <1>5, <2>3, <3>3
      <4>2. Taken = Len(Parts[k + 1]) /\ Len(line) > 1
        BY <1>2, <1>4, <2>3, <3>1, <4>1
      <4>3. Head(line).byte = Xor(b)
        BY <1>3, <3>2, <4>1
      <4> QED
        BY <2>1, <2>4, <2>6, <3>3, <4>2, <4>3 DEF WholeByte, b
    <3>4. CASE ~unEscaping
      <4>1. Taken = 1 + Len(Parts[k]) /\ Taken + 1 = Len(Parts[k]) + 1 + 1
        BY <1>5, <2>3, <3>4
      <4>2. Len(line) > 1
        BY <1>2, <1>4, <2>3, <3>1, <4>1
      <4>3. Head(line).byte = Escape
        BY <1>3, <3>2, <4>1
      <4> QED
        BY <2>1, <2>6, <3>4, <4>1, <4>2, <4>3 DEF FirstHalf, b
    <3> QED
      BY <3>3, <3>4
  <2> QED
    BY <2>5, <2>6
<1> QED
  BY <1>6, <1>7

\* One byte more of the body is in the buffer.
LEMMA BodyStored ==
  ASSUME StationInv, line # <<>>, NEW k \in 0..Len(Current) + 1, Before(k),
         Store(Body(Current)[k + 1]), unEscaping' = FALSE, sent' = sent, clear' = clear,
         Taken' = 1 + Len(Parts[k + 1])
  PROVE  Before(k + 1)'
<1> DEFINE n == Len(Current) + 2
           b == Body(Current)[k + 1]
<1>1. Current \in Seq(DataBytes)
  BY InFrame DEF StationInv, LineSound
<1>2. Current' = Current /\ Parts' = Parts
  BY DEF Current, Parts, Newest
<1>3. inPacket' /\ k + 1 > 0 => buffer' # <<>>
  <2>1. buffer \in Seq(StoredBytes) /\ Len(buffer) \in Nat
    BY DEF StationInv, BufferSound
  <2>2. CASE HasRoom
    BY <2>1, <2>2 DEF Store
  <2>3. CASE ~HasRoom
    <3>1. Len(buffer) > 0 /\ buffer' = buffer
      BY <2>1, <2>3, FramingAssumption DEF HasRoom, Store
    <3> QED
      BY <3>1
  <2> QED
    BY <2>2, <2>3
<1>4. ASSUME clear >= 1, Len(Current) + 2 <= maxPacketSize
      PROVE  inPacket' /\ buffer' = SubSeq(Body(Current), 1, k + 1) /\ crcgen' = buffer'
  <2>1. inPacket /\ buffer = SubSeq(Body(Current), 1, k) /\ crcgen = buffer
    BY <1>4 DEF Before
  <2> DEFINE A == DataBytes \union CrcBytes
             B == Body(Current)
  <2>2. B \in Seq(A) /\ Len(B) = n /\ k + 1 \in 1..Len(B) /\ k \in Nat
    BY <1>1, BodyType
  <2> HIDE DEF A, B
  <2>3. Len(SubSeq(B, 1, k)) = k /\ Append(SubSeq(B, 1, k), B[k + 1]) = SubSeq(B, 1, k + 1)
    BY <2>2
  <2>4. HasRoom
    BY <1>1, <1>4, <2>1, <2>2, <2>3, FramingAssumption DEF HasRoom, B
  <2>5. buffer' = Append(buffer, B[k + 1]) /\ crcgen' = Append(crcgen, B[k + 1])
        /\ inPacket' = inPacket
    BY <2>4 DEF Store, B
  <2> QED
    BY <2>1, <2>3, <2>5 DEF B
<1> QED
  BY <1>2, <1>3, <1>4 DEF Before

LEMMA PeerInStep == ASSUME StationInv, InStep, PeerSends PROVE InStep'
<1>1. PICK payload \in Payloads :
        LET content == Content(Newest + 1, payload)
        IN  /\ content \in Seq(DataBytes) /\ Newest + 1 \in Nat /\ Newest < MaxFrames
            /\ sent' = Append(sent, content) /\ Newest' = Newest + 1
            /\ Framed(content) \in Seq(LineBytes)
            /\ line = <<>> /\ line' = FrameLine(content, Newest + 1)
  BY PeerWrites
<1>2. UNCHANGED <<inPacket, unEscaping, buffer, crcgen, clear>>
  BY DEF PeerSends
<1> DEFINE content == Content(Newest + 1, payload)
           F == Framed(content)
<1>3. /\ sent \in Seq(Seq(DataBytes)) /\ content \in Seq(DataBytes) /\ sent' = Append(sent, content)
      /\ Newest = Len(sent) /\ Newest' = Newest + 1
      /\ F \in Seq(LineBytes) /\ line = <<>> /\ line' = FrameLine(content, Newest + 1)
  BY <1>1 DEF StationInv, SentFrames, Newest
<1>4. F = Framed(content)
  OBVIOUS
<1> HIDE DEF content, F
<1>5. Current' = content
  <2>1. sent'[Len(sent) + 1] = content
    BY <1>3
  <2> QED
    BY <1>3, <2>1 DEF Current
<1>6. Len(line') = Len(F) /\ Len(F) \in Nat /\ \A i \in 1..Len(F) : line'[i].byte = F[i]
  BY <1>3, <1>4 DEF FrameLine
<1>7. Taken' = 0
  <2>1. Taken' = Len(Framed(Current')) - Len(line')
    BY DEF Taken
  <2> QED
    BY <1>4, <1>5, <1>6, <2>1
<1>8. \A i \in 1..Len(line') : line'[i].byte = Framed(Current')[Taken' + i]
  BY <1>4, <1>5, <1>6, <1>7
<1>9. clear' >= 1 => Between'
  <2>1. clear >= 1 => Between
    BY <1>3 DEF InStep
  <2> QED
    BY <1>2, <2>1 DEF Between
<1> QED
  BY <1>7, <1>8, <1>9 DEF InStep

LEMMA OwnInStep == ASSUME StationInv, InStep, SendOwn PROVE InStep'
<1>1. /\ UNCHANGED <<line, inPacket, unEscaping, sent>> /\ Current' = Current /\ Parts' = Parts
      /\ Taken' = Taken /\ clear' = IF inPacket THEN -1 ELSE clear
  BY DEF SendOwn, Current, Parts, Taken, Newest
<1>2. CASE inPacket
  <2>1. clear' = -1
    BY <1>1, <1>2
  <2> QED
    BY <2>1 DEF InStep
<1>3. CASE ~inPacket
  <2>1. clear' = clear /\ ~inPacket'
    BY <1>1, <1>3
  <2>2. ASSUME NEW k \in 0..Len(Current) + 2, Before(k) PROVE Before(k)'
    BY <1>1, <1>3, <2>1, <2>2 DEF Before
  <2>3. Between => Between'
    BY <1>1, <2>1 DEF Between
  <2> QED
    BY <1>1, <2>1, <2>2, <2>3 DEF InStep
<1> QED
  BY <1>2, <1>3

LEMMA NoiseInStep == ASSUME StationInv, InStep, Noise PROVE InStep'
<1>1. line # <<>> /\ line \in Seq([byte : LineBytes, ends : Nat])
  BY DEF Noise, StationInv, LineSound
<1>2. CASE clear' = -1
  BY <1>2 DEF InStep
<1>3. CASE line' = Tail(line) /\ Head(line).ends # 0 /\ clear' = 0
  <2>1. line' = <<>>
    <3>1. \A i \in 1..Len(line) : line[i].ends = IF i = Len(line) THEN Newest ELSE 0
      BY DEF StationInv, LineSound
    <3>2. 1 = Len(line)
      BY <1>1, <1>3, <3>1, HeadOf
    <3> QED
      BY <1>1, <1>3, <3>2, HeadOf
  <2> QED
    BY <1>3, <2>1 DEF InStep
<1> QED
  BY <1>2, <1>3 DEF Noise

LEMMA ProcessInStep == ASSUME StationInv, InStep, ProcessData PROVE InStep'
<1> DEFINE n == Len(Current) + 2
           b == Head(line).byte
<1>1. /\ line # <<>> /\ line' = Tail(line) /\ sent' = sent
      /\ clear' = IF Head(line).ends # 0 THEN clear + 1 ELSE clear
  BY DEF ProcessData
<1>2. /\ Len(line) \in Nat /\ Len(line) >= 1 /\ 1 \in 1..Len(line) /\ Head(line) = line[1]
      /\ Len(line') = Len(line) - 1 /\ \A i \in 1..Len(line') : line'[i] = line[i + 1]
      /\ line' \in Seq([byte : LineBytes, ends : Nat])
  <2>1. line \in Seq([byte : LineBytes, ends : Nat])
    BY DEF StationInv, LineSound
  <2> QED
    BY <1>1, <2>1, HeadOf
<1>3. Current' = Current /\ Parts' = Parts /\ Newest > 0 /\ Newest \in Nat
  BY <1>1 DEF Current, Parts, Newest, StationInv, LineSound, SentFrames
<1>4. Current \in Seq(DataBytes) /\ Stuffed(Current, Parts) /\ n \in Nat
  BY <1>3, InFrame
<1>5. Head(line).ends = IF Len(line) = 1 THEN Newest ELSE 0
  <2>1. \A i \in 1..Len(line) : line[i].ends = IF i = Len(line) THEN Newest ELSE 0
    BY DEF StationInv, LineSound
  <2> QED
    BY <1>2, <2>1
<1>6. Len(line) > 1 => clear' = clear
  BY <1>1, <1>2, <1>5
<1>7. Len(line) = 1 => line' = <<>> /\ clear' = clear + 1
  <2>1. Len(line) = 1 => line' = <<>>
    BY <1>2
  <2> QED
    BY <1>1, <1>3, <1>5, <2>1
<1>8. Len(Framed(Current)) \in Nat /\ Len(Framed(Current)) >= 2 /\ Framed(Current)[1] = Flag
  <2>1. /\ Framed(Current) \in Seq(LineBytes) /\ Framed(Current)[1] = Flag
        /\ Len(Framed(Current)) = Len(Parts[n]) + 2 /\ Parts[n] \in Seq(LineBytes)
    BY <1>4, FrameBytes, StuffedType
  <2> QED
    BY <2>1
<1>9. Taken' = Taken + 1 /\ Taken \in Int
  <2>1. Taken' = Len(Framed(Current')) - Len(line') /\ Taken = Len(Framed(Current)) - Len(line)
    BY DEF Taken
  <2> QED
    BY <1>2, <1>3, <1>8, <2>1
<1>10. CASE ~(clear >= 0)
  <2>1. clear = -1
    BY <1>10 DEF StationInv, Counters
  <2> QED
    BY <1>1, <1>2, <1>6, <1>7, <2>1 DEF InStep
<1>11. CASE clear >= 0
  <2>1. Taken >= 0 /\ \A i \in 1..Len(line) : line[i].byte = Framed(Current)[Taken + i]
    BY <1>1, <1>11 DEF InStep
  <2>2. \A i \in 1..Len(line') : line'[i].byte = Framed(Current')[Taken' + i]
    <3> SUFFICES ASSUME NEW i \in 1..Len(line')
                 PROVE  line'[i].byte = Framed(Current')[Taken' + i]
      OBVIOUS
    <3>1. line'[i] = line[i + 1] /\ i + 1 \in 1..Len(line)
      BY <1>2
    <3>2. line[i + 1].byte = Framed(Current)[Taken + (i + 1)] /\ Taken + (i + 1) = Taken' + i
      BY <1>9, <2>1, <3>1
    <3> QED
      BY <1>3, <3>1, <3>2
  <2>3. Taken' > 0
    BY <1>9, <2>1
  <2>4. SUFFICES /\ line' # <<>> => \E k \in 0..n : Before(k)'
                 /\ clear' >= 1 /\ line' = <<>> => Between'
    BY <1>3, <1>9, <2>1, <2>2, <2>3 DEF InStep
  <2>5. CASE Taken = 0
    <3>1. b = Flag
      <4>1. line[1].byte = Framed(Current)[Taken + 1]
        BY <1>2, <2>1
      <4> QED
        BY <1>2, <1>8, <2>5, <4>1
    <3>2. Len(line) > 1
      <4>1. Taken = Len(Framed(Current)) - Len(line)
        BY DEF Taken
      <4> QED
        BY <1>2, <1>8, <2>5, <4>1
    <3>3. clear' = clear /\ line' # <<>>
      BY <1>2, <1>6, <3>2
    <3>4. Len(Parts[0]) = 0 /\ Len(Parts'[0]) = 0
      BY <1>3, <1>4 DEF Stuffed
    <3>5. unEscaping \in BOOLEAN /\ inPacket \in BOOLEAN
      BY DEF StationInv, BufferSound
    <3>6. ~unEscaping'
      BY <3>1, <3>5 DEF ProcessData, Flag, Escape
    <3>7. clear >= 1 => inPacket' /\ buffer' = <<>> /\ crcgen' = <<>>
      <4> SUFFICES ASSUME clear >= 1 PROVE inPacket' /\ buffer' = <<>> /\ crcgen' = <<>>
        OBVIOUS
      <4>1. Between
        BY <2>5 DEF InStep
      <4>2. FrameFlag
        BY <3>1, <4>1 DEF ProcessData, Between, Flag, Escape
      <4> QED
        BY <4>1, <4>2 DEF Between, FrameFlag
    <3>8. SubSeq(Body(Current), 1, 0) = <<>>
      <4>1. Body(Current) \in Seq(DataBytes \union CrcBytes)
        BY <1>4, BodyType
      <4> QED
        BY <4>1
    <3>9. Before(0)'
      <4>1. Taken' = 1 + Len(Parts'[0])
        BY <1>9, <2>5, <3>4
      <4>2. clear' >= 1 => inPacket' /\ buffer' = SubSeq(Body(Current'), 1, 0) /\ crcgen' = buffer'
        BY <1>3, <3>3, <3>7, <3>8
      <4>3. ~(0 > 0)
        OBVIOUS
      <4> QED
        BY <3>6, <4>1, <4>2, <4>3, Zenon DEF Before
    <3>10. 0 \in 0..n
      BY <1>4
    <3> QED
      BY <3>3, <3>9, <3>10
  <2>6. CASE Taken # 0
    <3>1. PICK k \in 0..n : Before(k)
      BY <1>1, <1>9, <1>11, <2>1, <2>6 DEF InStep
    <3>2. CASE LastFlag(k)
      <4>1. line' = <<>> /\ b = Flag /\ ~unEscaping /\ k = n
        BY <1>7, <3>2 DEF LastFlag
      <4>2. FrameFlag /\ UNCHANGED unEscaping
        BY <4>1 DEF ProcessData, Flag, Escape
      <4>3. inPacket => buffer # <<>>
        BY <1>4, <3>1, <4>1 DEF Before
      <4>4. ~inPacket \/ inPacket' = FALSE
        BY <4>2, <4>3 DEF FrameFlag
      <4>5. ~inPacket => buffer' = <<>> /\ crcgen' = <<>>
        BY <4>2 DEF FrameFlag
      <4> QED
        BY <4>1, <4>2, <4>4, <4>5 DEF Between
    <3>3. CASE FirstHalf(k)
      <4>1. /\ k < n /\ ~unEscaping /\ b = Escape /\ Len(line) > 1
            /\ Body(Current)[k + 1] \in {Flag, Escape} /\ Taken = 1 + Len(Parts[k])
        BY <3>3 DEF FirstHalf
      <4>2. unEscaping' = TRUE /\ UNCHANGED <<inPacket, buffer, crcgen>>
        BY <4>1 DEF ProcessData
      <4>3. clear' = clear /\ line' # <<>>
        BY <1>2, <1>6, <4>1
      <4>4. Len(Parts[k]) \in Nat
        BY <1>4, <3>1, StuffedType
      <4>5. Taken' = 2 + Len(Parts[k])
        BY <1>9, <4>1, <4>4
      <4>6. Before(k)'
        BY <1>3, <3>1, <4>1, <4>2, <4>3, <4>5 DEF Before
      <4> QED
        BY <3>1, <4>3, <4>6
    <3>4. CASE WholeByte(k)
      <4>1. /\ k < n /\ Len(line) > 1 /\ Taken = Len(Parts[k + 1]) /\ b \notin {Flag, Escape}
            /\ Body(Current)[k + 1] = IF unEscaping THEN Xor(b) ELSE b
        BY <3>4 DEF WholeByte
      <4>2. Store(Body(Current)[k + 1]) /\ unEscaping' = FALSE
        BY <4>1 DEF ProcessData
      <4>3. clear' = clear /\ line' # <<>>
        BY <1>2, <1>6, <4>1
      <4>4. k \in 0..Len(Current) + 1 /\ k + 1 \in 0..n
        BY <1>4, <4>1
      <4>5. Taken' = 1 + Len(Parts[k + 1])
        BY <1>9, <4>1
      <4>6. Before(k + 1)'
        BY <1>1, <3>1, <4>2, <4>3, <4>4, <4>5, BodyStored
      <4> QED
        BY <4>3, <4>4, <4>6
    <3> QED
      BY <1>1, <1>11, <3>1, <3>2, <3>3, <3>4, NextByte
  <2> QED
    BY <2>5, <2>6
<1> QED
  BY <1>10, <1>11

LEMMA InStepInvariant == Spec => [](StationInv /\ InStep)
<1>1. Init => InStep
  BY DEF Init, InStep
<1>2. InStep /\ UNCHANGED vars => InStep'
  BY DEF vars, InStep, Between, Before, Taken, Parts, Current, Newest
<1>3. StationInv /\ InStep /\ [Next]_vars => InStep'
  BY <1>2, PeerInStep, OwnInStep, NoiseInStep, ProcessInStep DEF Next
<1> QED
  BY <1>1, <1>3, StationInvariant, PTL DEF Spec

LEMMA PairOf == ASSUME NEW A, NEW s \in Seq(A), Len(s) = 2 PROVE s = <<s[1], s[2]>>
  OBVIOUS

\* The last byte of a frame that came undisturbed, behind one that did.
LEMMA FrameAccepted ==
  ASSUME StationInv, InStep, ProcessData, Head(line).ends # 0, clear >= 1,
         Len(sent[Head(line).ends]) + 2 <= maxPacketSize
  PROVE  got' = Append(got, sent[Head(line).ends])
<1> DEFINE n == Len(Current) + 2
           B == Body(Current)
           A == DataBytes \union CrcBytes
<1>1. line # <<>>
  BY DEF ProcessData
<1>2. /\ Len(line) \in Nat /\ Len(line) >= 1 /\ 1 \in 1..Len(line) /\ Head(line) = line[1]
  <2>1. line \in Seq([byte : LineBytes, ends : Nat])
    BY DEF StationInv, LineSound
  <2> QED
    BY <1>1, <2>1, HeadOf
<1>3. Len(line) = 1 /\ Head(line).ends = Newest
  <2>1. \A i \in 1..Len(line) : line[i].ends = IF i = Len(line) THEN Newest ELSE 0
    BY DEF StationInv, LineSound
  <2> QED
    BY <1>2, <2>1
<1>4. Newest > 0
  BY <1>1 DEF StationInv, LineSound
<1>5. /\ Current \in Seq(DataBytes) /\ Stuffed(Current, Parts) /\ n \in Nat /\ Len(Current) >= 2
      /\ Len(Current) \in Nat
  BY <1>4, InFrame
<1>6. Taken > 0
  <2>1. Len(Framed(Current)) = Len(Parts[n]) + 2 /\ Parts[n] \in Seq(LineBytes)
    BY <1>5, FrameBytes, StuffedType
  <2>2. Taken = Len(Framed(Current)) - Len(line)
    BY DEF Taken
  <2> QED
    BY <1>3, <2>1, <2>2
<1> clear >= 0
  BY DEF StationInv, Counters
<1>7. PICK k \in 0..n : Before(k)
  BY <1>1, <1>6 DEF InStep
<1>8. LastFlag(k)
  <2>1. ~(Len(line) > 1)
    BY <1>3
  <2>2. LastFlag(k) \/ FirstHalf(k) \/ WholeByte(k)
    BY <1>1, <1>7, NextByte
  <2> QED
    BY <2>1, <2>2, Zenon DEF FirstHalf, WholeByte
<1>9. k = n /\ ~unEscaping /\ Head(line).byte = Flag
  BY <1>8 DEF LastFlag
<1>10. FrameFlag
  BY <1>9 DEF ProcessData, Flag, Escape
<1>11. n <= maxPacketSize /\ Current = sent[Head(line).ends]
  BY <1>3 DEF Current
<1>12. inPacket /\ buffer = SubSeq(B, 1, n) /\ crcgen = buffer
  BY <1>7, <1>9, <1>11 DEF Before
<1>13. /\ B \in Seq(A) /\ Len(B) = n /\ B[n - 1] = <<"hi", Current>> /\ B[n] = <<"lo", Current>>
       /\ \A i \in 1..Len(Current) : B[i] = Current[i]
  <2>1. n - 1 = Len(Current) + 1
    BY <1>5
  <2> QED
    BY <1>5, <2>1, BodyType
<1> HIDE DEF B, A
<1>14. buffer = B /\ crcgen = B /\ Len(buffer) = n
  BY <1>12, <1>13
<1>15. SubSeq(B, 1, n - 2) = Current
  <2> DEFINE s == SubSeq(B, 1, n - 2)
  <2>1. s \in Seq(A) /\ Len(s) = n - 2 /\ \A i \in 1..n - 2 : s[i] = B[i]
    BY <1>5, <1>13
  <2>2. n - 2 = Len(Current)
    BY <1>5
  <2> HIDE DEF s
  <2>3. s = Current
    BY <1>5, <1>13, <2>1, <2>2
  <2> QED
    BY <2>3 DEF s
<1>16. SubSeq(B, n - 1, n) = <<B[n - 1], B[n]>>
  <2> HIDE DEF n
  <2>1. n \in Nat /\ n >= 4 /\ B \in Seq(A) /\ Len(B) = n
    BY <1>5, <1>13 DEF n
  <2>2. /\ SubSeq(B, n - 1, n) \in Seq(A) /\ Len(SubSeq(B, n - 1, n)) = 2
        /\ SubSeq(B, n - 1, n)[1] = B[n - 1] /\ SubSeq(B, n - 1, n)[2] = B[n]
    BY <2>1
  <2> QED
    BY <2>2, PairOf
<1>17. Right
  <2>1. MinusTwo(crcgen) = Current
    BY <1>13, <1>14, <1>15 DEF MinusTwo
  <2> QED
    BY <1>13, <1>14, <1>16, <2>1 DEF Right, Crc
<1>18. buffer # <<>> /\ ~(Len(buffer) < 4)
  BY <1>5, <1>14
<1>19. PreProcessPacket
  BY <1>10, <1>12, <1>18 DEF FrameFlag
<1>20. got' = Append(got, SubSeq(buffer, 1, Len(buffer) - 2))
  BY <1>17, <1>18, <1>19 DEF PreProcessPacket, Right
<1> QED
  BY <1>11, <1>14, <1>15, <1>20

(***************************************************************************)
(* The theorems.                                                           *)
(***************************************************************************)
\* Every variable keeps its type; the buffer is never longer than the packet size,
\* and no more is handed on than was sent.
THEOREM FramingTypeCorrect == Spec => []TypeOK
<1>1. ASSUME FramingInv PROVE TypeOK
  <2>1. inPacket \in BOOLEAN /\ unEscaping \in BOOLEAN /\ Len(buffer) <= maxPacketSize
    BY <1>1 DEF FramingInv, StationInv, BufferSound
  <2>2. PICK f : Handed(f)
    BY <1>1 DEF FramingInv, GotSound
  <2>3. Len(got) \in Nat /\ Newest \in Nat /\ Newest <= MaxFrames
    BY <1>1 DEF FramingInv, StationInv, GotSound, SentFrames, Newest
  <2>4. Len(got) <= Newest
    <3>1. CASE Len(got) = 0
      BY <2>3, <3>1
    <3>2. CASE Len(got) # 0
      <4>1. Len(got) \in 1..Len(got)
        BY <2>3, <3>2
      <4>2. Len(got) <= f[Len(got)] /\ f[Len(got)] \in 1..Newest
        BY <2>2, <4>1 DEF Handed
      <4> QED
        BY <2>3, <4>2
    <3> QED
      BY <3>1, <3>2
  <2>5. noise \in 0..MaxNoise /\ own \in 0..MaxOwn /\ clear \in -1..MaxFrames
    BY <1>1, <2>3, FramingAssumption DEF FramingInv, StationInv, Counters
  <2> QED
    BY <2>1, <2>4, <2>5 DEF TypeOK, Newest
<1> QED
  BY <1>1, FramingInvariant, PTL

\* Whatever is lost, changed or sent in between, a handler is given the content of a
\* frame that the peer sent, or what is left of one behind its beginning that equals a
\* frame of our own; in their order and each at most once.
EndsOfSentFrames ==
  \E f \in [1..Len(got) -> 1..Len(sent)] :
    /\ \A i \in 1..Len(got) : EndOf(got[i], sent[f[i]])
    /\ \A i, j \in 1..Len(got) : i < j => f[i] < f[j]

THEOREM FramesEndAsSent == Spec => []EndsOfSentFrames
<1>1. ASSUME FramingInv PROVE EndsOfSentFrames
  BY <1>1 DEF FramingInv, GotSound, Handed, EndsOfSentFrames, Newest
<1> QED
  BY <1>1, FramingInvariant, PTL

\* No frame the station sends is the beginning of one it receives.
OwnUnlike ==
  \A content \in OwnContents, payload \in Payloads, n \in 1..MaxFrames :
    ~IsPrefix(content, Content(n, payload))

LEMMA EndIsWhole ==
  ASSUME OwnUnlike, SentFrames, NEW n \in 1..Newest, NEW part \in Seq(StoredBytes),
         EndOf(part, sent[n])
  PROVE  part = sent[n]
<1> SUFFICES ASSUME NEW content \in OwnContents, sent[n] = content \o part PROVE FALSE
  BY DEF EndOf
<1> DEFINE A == Range(content) \union StoredBytes
<1>1. content \in Seq(A) /\ part \in Seq(A)
  <2>1. content \in Seq(Range(content))
    BY BytesAssumption
  <2> QED
    BY <2>1, SeqMonotonic
<1> HIDE DEF A
<1> DEFINE whole == content \o part
<1>2. /\ whole \in Seq(A) /\ Len(content) <= Len(whole) /\ Len(content) \in Nat
      /\ \A i \in 1..Len(content) : whole[i] = content[i]
  BY <1>1
<1> HIDE DEF whole
<1>3. IsPrefix(content, whole)
  BY <1>1, <1>2 DEF IsPrefix
<1>4. PICK p \in Payloads : sent[n] = Content(n, p)
  BY DEF SentFrames
<1>5. n \in 1..MaxFrames
  BY FramingAssumption DEF SentFrames, Newest
<1> QED
  BY <1>3, <1>4, <1>5 DEF OwnUnlike, whole

\* A handler is given only contents that the peer framed, in their order and each
\* at most once.
THEOREM FramesAreSent == ASSUME OwnUnlike PROVE Spec => []OnlySentFrames
<1>1. ASSUME FramingInv PROVE OnlySentFrames
  <2>1. PICK f : Handed(f)
    BY <1>1 DEF FramingInv, GotSound
  <2>2. f \in [1..Len(got) -> 1..Newest] /\ \A i \in 1..Len(got) : f[i] \in 1..Newest
    BY <2>1 DEF Handed
  <2>3. ASSUME NEW i \in 1..Len(got) PROVE got[i] = sent[f[i]]
    <3>1. got[i] \in Seq(StoredBytes)
      BY <1>1 DEF FramingInv, GotSound
    <3>2. EndOf(got[i], sent[f[i]])
      BY <2>1 DEF Handed
    <3> QED
      BY <1>1, <2>2, <3>1, <3>2, EndIsWhole DEF FramingInv, StationInv
  <2>4. \A i, j \in 1..Len(got) : i < j => f[i] < f[j]
    BY <2>1 DEF Handed
  <2> QED
    BY <2>2, <2>3, <2>4 DEF OnlySentFrames, Newest
<1> QED
  BY <1>1, FramingInvariant, PTL

\* When a frame has come undisturbed, and the one before it too, it is handed on,
\* whatever was lost, changed or sent before.
THEOREM FramesAreFoundAgain == Spec => Resynchronises
<1>1. StationInv /\ InStep =>
        [ProcessData /\ Head(line).ends # 0 /\ clear >= 1
           /\ Len(sent[Head(line).ends]) + 2 <= maxPacketSize
         => got' = Append(got, sent[Head(line).ends])]_vars
  BY FrameAccepted
<1> QED
  BY <1>1, InStepInvariant, PTL DEF Resynchronises

================================================================================
