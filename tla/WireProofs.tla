------------------------------ MODULE WireProofs -------------------------------
(***************************************************************************)
(* What Wire does to its buffers, for every size of them.                  *)
(***************************************************************************)
EXTENDS Wire, TLAPS

Pcs == {"idle", "copy", "length", "store", "index", "txlength", "end", "ended"}

Types ==
  /\ rxBuffer \in [Places -> Bytes] /\ rxBufferIndex \in 0..BufferLength
  /\ rxBufferLength \in 0..BufferLength
  /\ txBuffer \in [Places -> Bytes] /\ txBufferIndex \in 0..BufferLength + 1
  /\ txBufferLength \in 0..BufferLength + 1 /\ held \in 0..BufferLength + 1
  /\ transmitting \in BOOLEAN
  /\ pc \in Pcs /\ calls \in Nat /\ transfers \in Nat
  /\ data \in Seq(Bytes) /\ Len(data) <= BufferLength /\ copied \in 0..BufferLength
  /\ wanted \in Seq(Bytes) /\ taken \in Seq(Bytes) /\ mixed \in BOOLEAN
  /\ written \in Seq(Bytes) /\ sent \in Seq(Bytes) /\ asked \in BOOLEAN
  /\ torn \in BOOLEAN

\* Whatever comes between its steps, write() increments an index that is not past
\* the buffer: an index that is past it goes with a length that ends every write().
TxLimit ==
  /\ pc \in {"store", "index"} => txBufferIndex <= BufferLength
  /\ pc = "index" => held <= BufferLength
  /\ pc = "txlength" /\ txBufferIndex > BufferLength => held = txBufferIndex
  /\ pc # "txlength" /\ txBufferLength < BufferLength
       => txBufferIndex <= BufferLength

\* If nothing comes between the steps of write(), the index and the length differ
\* only between its two assignments, and there is room for the byte being written.
TxRoom ==
  /\ torn => asked
  /\ ~torn =>
       /\ txBufferIndex <= BufferLength /\ txBufferLength <= BufferLength
       /\ pc # "txlength" => txBufferIndex = txBufferLength
       /\ pc \in {"store", "index"} => txBufferLength < BufferLength
       /\ pc \in {"index", "txlength"} => held = txBufferIndex

(***************************************************************************)
(* Operators.                                                              *)
(***************************************************************************)
LEMMA StoreType ==
  ASSUME NEW buffer \in [Places -> Bytes], NEW i, NEW b \in Bytes
  PROVE  Store(buffer, i, b) \in [Places -> Bytes]
BY DEF Store

LEMMA FilledType ==
  ASSUME NEW buffer \in [Places -> Bytes], NEW bytes \in Seq(Bytes)
  PROVE  Filled(buffer, bytes) \in [Places -> Bytes]
<1> SUFFICES ASSUME NEW p \in Places
             PROVE  (IF p < Len(bytes) THEN bytes[p + 1] ELSE buffer[p]) \in Bytes
  BY DEF Filled
<1>1. p \in Nat
  BY WireAssumption DEF Places
<1> QED BY <1>1

LEMMA ContentType ==
  ASSUME NEW buffer \in [Places -> Bytes], NEW len \in 0..BufferLength
  PROVE  /\ Content(buffer, len) \in Seq(Bytes)
         /\ Len(Content(buffer, len)) = len
         /\ \A k \in 1..len : Content(buffer, len)[k] = buffer[k - 1]
<1>1. \A k \in 1..len : k - 1 \in Places
  BY WireAssumption DEF Places
<1>2. len \in Nat
  BY WireAssumption
<1> QED BY <1>1, <1>2 DEF Content

LEMMA EmptyType == <<>> \in Seq(Bytes) /\ Len(<<>>) = 0
OBVIOUS

LEMMA TransferType ==
  ASSUME NEW who \in {"device", "foreign", "reply"}, NEW n \in Nat, NEW len \in Nat
  PROVE  Transfer(who, n, len) \in Seq(Bytes) /\ Len(Transfer(who, n, len)) = len
<1>1. \A k \in 1..len : <<who, n, k>> \in Bytes
  BY DEF Bytes
<1> QED BY <1>1 DEF Transfer

(***************************************************************************)
(* The indices stay within the buffers.                                    *)
(***************************************************************************)
Bounds == Types /\ TxLimit /\ TxRoom

LEMMA InitBounds == Init => Bounds
<1> SUFFICES ASSUME Init PROVE Bounds
  OBVIOUS
<1>1. Nothing \in Bytes
  BY DEF Nothing, Bytes
<1>2. [p \in Places |-> Nothing] \in [Places -> Bytes]
  BY <1>1
<1>3. rxBuffer \in [Places -> Bytes] /\ txBuffer \in [Places -> Bytes]
  BY <1>2 DEF Init
<1>4. /\ data \in Seq(Bytes) /\ Len(data) = 0
      /\ wanted \in Seq(Bytes) /\ taken \in Seq(Bytes)
      /\ written \in Seq(Bytes) /\ sent \in Seq(Bytes)
  BY EmptyType DEF Init
<1> HIDE DEF Init
<1>5. /\ rxBufferIndex = 0 /\ rxBufferLength = 0
      /\ txBufferIndex = 0 /\ txBufferLength = 0 /\ copied = 0
      /\ calls = 0 /\ transfers = 0 /\ pc = "idle" /\ held = 0 /\ ~torn
      /\ transmitting \in BOOLEAN /\ mixed \in BOOLEAN /\ asked \in BOOLEAN
      /\ torn \in BOOLEAN
  BY DEF Init
<1> QED BY <1>3, <1>4, <1>5, WireAssumption DEF Bounds, Types, TxLimit, TxRoom, Pcs

LEMMA SketchBounds == Bounds /\ Sketch => Bounds'
<1> SUFFICES ASSUME Bounds, Sketch PROVE Bounds'
  OBVIOUS
<1> USE WireAssumption DEF Bounds, Types, TxLimit, TxRoom, Pcs, rx, tx, driver, request, output
<1>1. CASE RequestFrom
  <2>1. PICK quantity \in Quantities : \E read \in 0..Clamp(quantity) :
          data' = Transfer("device", calls', read)
    BY <1>1 DEF RequestFrom
  <2> PICK read \in 0..Clamp(quantity) : data' = Transfer("device", calls', read)
    BY <2>1
  <2>2. read \in 0..BufferLength /\ calls' \in Nat
    BY <1>1 DEF RequestFrom, Clamp
  <2>3. data' \in Seq(Bytes) /\ Len(data') <= BufferLength
    BY <2>1, <2>2, TransferType, SMTT(20)
  <2>4. wanted' \in Seq(Bytes) /\ taken' \in Seq(Bytes)
    BY <1>1, EmptyType DEF RequestFrom
  <2>5. /\ pc = "idle" /\ pc' = "copy" /\ copied' = 0 /\ mixed' \in BOOLEAN
        /\ UNCHANGED <<rx, tx, held, transfers, output>>
    BY <1>1 DEF RequestFrom
  <2> QED BY <2>2, <2>3, <2>4, <2>5, SMTT(20)
<1>2. CASE CopyByte
  <2>1. data[copied + 1] \in Bytes
    BY <1>2 DEF CopyByte
  <2>2. rxBuffer' \in [Places -> Bytes]
    <3>1. rxBuffer' = Store(rxBuffer, copied, data[copied + 1])
      BY <1>2 DEF CopyByte
    <3>2. rxBuffer \in [Places -> Bytes]
      OBVIOUS
    <3> QED BY <2>1, <3>1, <3>2, StoreType
  <2>3. copied' \in 0..BufferLength
    BY <1>2 DEF CopyByte
  <2>4. UNCHANGED <<rxBufferIndex, rxBufferLength, tx, pc, calls, data, held,
                    transfers, request, output>>
    BY <1>2 DEF CopyByte
  <2> QED BY <2>2, <2>3, <2>4
<1>3. CASE ResetIndex
  BY <1>3 DEF ResetIndex
<1>4. CASE SetLength
  BY <1>4 DEF SetLength
<1>5. CASE Read
  <2>1. Nothing \in Bytes
    BY DEF Nothing, Bytes
  <2>2. rxBufferIndex < rxBufferLength => rxBuffer[rxBufferIndex] \in Bytes
    BY DEF Places
  <2>3. taken' \in Seq(Bytes)
    <3>1. PICK b \in Bytes : taken' = Append(taken, b)
      BY <1>5, <2>1, <2>2 DEF Read
    <3> QED BY <3>1
  <2>4. rxBufferIndex' \in 0..BufferLength
    BY <1>5 DEF Read
  <2> QED BY <1>5, <2>3, <2>4 DEF Read
<1>6. CASE BeginTransmission
  <2>1. written' \in Seq(Bytes)
    BY <1>6, EmptyType DEF BeginTransmission
  <2>2. transmitting' \in BOOLEAN /\ asked' \in BOOLEAN /\ torn' \in BOOLEAN
        /\ ~torn'
    BY <1>6 DEF BeginTransmission
  <2>3. /\ pc = "idle" /\ calls' \in Nat /\ txBufferIndex' = 0 /\ txBufferLength' = 0
        /\ UNCHANGED <<rx, txBuffer, pc, driver, held, transfers, request, sent>>
    BY <1>6 DEF BeginTransmission
  <2> QED BY <2>1, <2>2, <2>3
<1>7. CASE WriteStore
  <2> DEFINE b == <<"sketch", calls, Len(written) + 1>>
  <2>1. b \in Bytes
    BY DEF Bytes
  <2>2. written' = Append(written, b) /\ written'[Len(written')] = b
    BY <1>7, <2>1 DEF WriteStore
  <2>3. txBuffer' \in [Places -> Bytes]
    BY <1>7, <2>1, <2>2, StoreType DEF WriteStore
  <2>4. written' \in Seq(Bytes)
    BY <2>1, <2>2
  <2>5. /\ pc = "store" /\ pc' = "index" /\ held' = txBufferIndex
        /\ UNCHANGED <<rx, txBufferIndex, txBufferLength, transmitting, calls, driver,
                       transfers, request, sent, asked, torn>>
    BY <1>7 DEF WriteStore
  <2> HIDE DEF b
  <2> QED BY <2>3, <2>4, <2>5
<1>13. CASE WriteTest
  BY <1>13 DEF WriteTest, RoomToWrite
<1>8. CASE WriteIndex
  BY <1>8 DEF WriteIndex
<1>9. CASE WriteLength
  BY <1>9 DEF WriteLength
<1>10. CASE EndTransmission
  <2>1. data' \in Seq(Bytes) /\ Len(data') <= BufferLength
    BY <1>10, ContentType, SMTT(20) DEF EndTransmission
  <2>2. sent' \in Seq(Bytes)
    BY <1>10, EmptyType DEF EndTransmission
  <2>3. /\ pc = "idle" /\ pc' \in {"end", "ended"}
        /\ UNCHANGED <<rx, tx, calls, copied, held, transfers, request, written,
                       asked, torn>>
    BY <1>10 DEF EndTransmission
  <2> QED BY <2>1, <2>2, <2>3
<1>11. CASE WriteTo
  <2>1. Len(data) \in 0..BufferLength
    OBVIOUS
  <2>2. sent' \in Seq(Bytes)
    BY <1>11, <2>1, ContentType DEF WriteTo
  <2> QED BY <1>11, <2>2 DEF WriteTo
<1>12. CASE Transmitted
  <2>1. data' \in Seq(Bytes) /\ Len(data') = 0
    BY <1>12, EmptyType DEF Transmitted
  <2>2. /\ txBufferIndex' = 0 /\ txBufferLength' = 0
        /\ transmitting' \in BOOLEAN /\ pc' = "idle" /\ torn' \in BOOLEAN /\ ~torn'
        /\ UNCHANGED <<rx, txBuffer, calls, copied, held, transfers, request, written,
                       sent, asked>>
    BY <1>12 DEF Transmitted
  <2> QED BY <2>1, <2>2
<1> QED BY <1>1, <1>2, <1>3, <1>4, <1>5, <1>6, <1>7, <1>8, <1>9, <1>10, <1>11, <1>12,
          <1>13
        DEF Sketch

LEMMA ServicesBounds == Bounds /\ (OnReceiveService \/ OnRequestService) => Bounds'
<1> SUFFICES ASSUME Bounds, OnReceiveService \/ OnRequestService PROVE Bounds'
  OBVIOUS
<1> USE WireAssumption DEF Bounds, Types, TxLimit, TxRoom, Pcs, rx, tx, driver, request, output
<1>1. CASE OnReceiveService
  <2>1. PICK len \in 0..BufferLength :
          IF RxBufferInUse THEN UNCHANGED <<rx, mixed, callback>>
                           ELSE Receive(Transfer("foreign", transfers', len))
    BY <1>1 DEF OnReceiveService
  <2>2. transfers' \in Nat
    BY <1>1 DEF OnReceiveService
  <2> DEFINE bytes == Transfer("foreign", transfers', len)
  <2>3. bytes \in Seq(Bytes) /\ Len(bytes) = len
    BY <2>2, TransferType
  <2> HIDE DEF bytes
  <2>4. /\ rxBuffer' \in [Places -> Bytes] /\ mixed' \in BOOLEAN
        /\ rxBufferIndex' \in 0..BufferLength /\ rxBufferLength' \in 0..BufferLength
    <3>1. CASE RxBufferInUse
      BY <3>1, <2>1
    <3>2. CASE ~RxBufferInUse
      <4>1. Receive(bytes)
        BY <3>2, <2>1 DEF bytes
      <4>2. rxBuffer' \in [Places -> Bytes]
        BY <4>1, <2>3, FilledType DEF Receive
      <4>3. mixed' \in BOOLEAN
        BY <4>1 DEF Receive
      <4>4. rxBufferIndex' \in 0..len /\ rxBufferLength' = len
        BY <4>1, <2>3 DEF Receive
      <4> QED BY <4>2, <4>3, <4>4
    <3> QED BY <3>1, <3>2
  <2> QED BY <1>1, <2>2, <2>4 DEF OnReceiveService
<1>2. CASE OnRequestService
  <2>1. transfers' \in Nat /\ asked' \in BOOLEAN
    BY <1>2 DEF OnRequestService
  <2>2. txBuffer' \in [Places -> Bytes]
    <3>1. CASE transmitting
      <4>1. PICK n \in 0..BufferLength :
              txBuffer' = Filled(txBuffer, Transfer("reply", transfers', n))
        BY <1>2, <3>1 DEF OnRequestService
      <4> DEFINE reply == Transfer("reply", transfers', n)
      <4>2. n \in Nat
        OBVIOUS
      <4>3. reply \in Seq(Bytes)
        BY <2>1, <4>2, TransferType
      <4> HIDE DEF reply
      <4> QED BY <4>1, <4>3, FilledType DEF reply
    <3>2. CASE ~transmitting
      BY <1>2, <3>2 DEF OnRequestService
    <3> QED BY <3>1, <3>2
  <2>3. txBufferIndex' \in 0..BufferLength /\ txBufferLength' = txBufferIndex'
    BY <1>2 DEF OnRequestService
  <2>4. /\ asked' /\ torn' \in BOOLEAN
        /\ torn' = (torn \/ pc \in {"store", "index", "txlength"})
        /\ UNCHANGED <<rx, transmitting, pc, calls, driver, held, request, written,
                       sent>>
    BY <1>2 DEF OnRequestService
  <2>5. Types'
    BY <2>1, <2>2, <2>3, <2>4
  <2>6. TxLimit'
    BY <2>3, <2>4
  <2>7. TxRoom'
    <3>1. pc' = pc /\ (~torn' => pc \notin {"store", "index", "txlength"})
      BY <2>4, Zenon
    <3>2. /\ txBufferIndex' <= BufferLength /\ txBufferLength' <= BufferLength
          /\ txBufferIndex' = txBufferLength'
      BY <2>3
    <3> QED BY <2>4, <3>1, <3>2, Zenon DEF TxRoom
  <2> QED BY <2>5, <2>6, <2>7
<1> QED BY <1>1, <1>2

LEMMA NextBounds == Bounds /\ [Next]_vars => Bounds'
<1>1. Bounds /\ UNCHANGED vars => Bounds'
  BY DEF vars, Bounds, Types, TxLimit, TxRoom, rx, tx, driver, request, output
<1> QED BY <1>1, SketchBounds, ServicesBounds DEF Next

\* For every size of the buffers, and whatever callbacks that write as much as they
\* like come between the steps of write(), no index is past its buffer, except by
\* one after a callback between the test for room and the assignments it guards.
THEOREM BuffersHold == Spec => []WithinBuffers
<1>1. Bounds => WithinBuffers
  BY WireAssumption DEF Bounds, Types, TxRoom, WithinBuffers
<1> QED BY <1>1, InitBounds, NextBounds, PTL DEF Spec

(***************************************************************************)
(* What the sketch reads after requestFrom.                                *)
(***************************************************************************)
\* Of the bytes from the device, the first n are in rxBuffer.
Holds(bytes, n) == \A p \in Places : p < n => rxBuffer[p] = bytes[p + 1]

\* What is known of rxBuffer while twi_readFrom copies, and after requestFrom: the
\* bytes not yet taken are there, and being in use they stay.
RxKnows ==
  /\ pc \in {"copy", "length"} => wanted = <<>> /\ taken = <<>>
  /\ pc = "copy" => copied <= Len(data) /\ (~mixed => Holds(data, copied))
  /\ pc = "length" =>
       /\ copied = Len(data)
       /\ ~mixed => Holds(data, copied) /\ (copied > 0 => rxBufferIndex = 0)
  /\ Len(taken) <= Len(wanted)
  /\ ~mixed =>
       /\ \A k \in 1..Len(taken) : taken[k] = wanted[k]
       /\ Len(taken) < Len(wanted) =>
            /\ rxBufferIndex = Len(taken) /\ rxBufferLength = Len(wanted)
            /\ Holds(wanted, Len(wanted))

LEMMA InitRxKnows == Init => RxKnows
BY DEF Init, RxKnows

\* Nothing that RxKnows speaks of has changed.
LEMMA RxKnowsStays ==
  ASSUME RxKnows, UNCHANGED <<rx, request>>,
         UNCHANGED <<pc, driver>> \/ {pc, pc'} \cap {"copy", "length"} = {}
  PROVE  RxKnows'
BY DEF RxKnows, Holds, rx, request, driver

LEMMA SketchRxKnows == Bounds /\ RxKnows /\ Sketch => RxKnows'
<1> SUFFICES ASSUME Bounds, RxKnows, Sketch PROVE RxKnows'
  OBVIOUS
<1>1. CASE RequestFrom
  <2>1. /\ pc' = "copy" /\ copied' = 0 /\ wanted' = <<>> /\ taken' = <<>>
    BY <1>1 DEF RequestFrom
  <2>2. Len(data') >= 0
    <3>1. Bounds'
      BY SketchBounds
    <3> QED BY <3>1 DEF Bounds, Types
  <2> QED BY <2>1, <2>2 DEF RxKnows, Holds, Places
<1>2. CASE CopyByte
  <2>1. /\ pc = "copy" /\ copied < Len(data) /\ copied' = copied + 1
        /\ rxBuffer' = Store(rxBuffer, copied, data[copied + 1])
        /\ UNCHANGED <<pc, data, request>>
    BY <1>2 DEF CopyByte
  <2>2. \A p \in Places : rxBuffer'[p] = IF p = copied THEN data[p + 1] ELSE rxBuffer[p]
    BY <2>1 DEF Store
  <2>3. ~mixed => Holds(data, copied)'
    <3> SUFFICES ASSUME ~mixed, NEW p \in Places, p < copied + 1
                 PROVE  rxBuffer'[p] = data[p + 1]
      BY <2>1 DEF Holds
    <3>1. p < copied \/ p = copied
      BY WireAssumption DEF Places, Bounds, Types
    <3> QED BY <2>1, <2>2, <3>1 DEF RxKnows, Holds
  <2>4. Len(data) \in Nat /\ copied \in Nat
    BY WireAssumption DEF Bounds, Types
  <2>5. UNCHANGED <<wanted, taken, mixed>>
    BY <2>1 DEF request
  <2> QED BY <2>1, <2>3, <2>4, <2>5 DEF RxKnows
<1>3. CASE ResetIndex
  BY <1>3 DEF ResetIndex, RxKnows, Holds, driver, request
<1>4. CASE SetLength
  BY <1>4 DEF SetLength, RxKnows, Holds, driver, Bounds, Types
<1>5. CASE Read
  <2>1. /\ pc = "idle" /\ pc' = "idle" /\ Len(taken) < Len(wanted)
        /\ UNCHANGED <<rxBuffer, rxBufferLength, wanted, mixed>>
    BY <1>5 DEF Read
  <2>2. PICK b \in Bytes : taken' = Append(taken, b)
    <3>1. Nothing \in Bytes
      BY DEF Nothing, Bytes
    <3>2. rxBufferIndex < rxBufferLength => rxBuffer[rxBufferIndex] \in Bytes
      BY WireAssumption DEF Places, Bounds, Types
    <3> QED BY <1>5, <3>1, <3>2 DEF Read
  <2>3. /\ Len(taken') = Len(taken) + 1
        /\ \A k \in 1..Len(taken) : taken'[k] = taken[k]
    BY <2>2 DEF Bounds, Types
  <2>4. ~mixed => /\ rxBufferIndex' = Len(taken')
                  /\ taken'[Len(taken')] = wanted[Len(taken')]
    <3> SUFFICES ASSUME ~mixed
                 PROVE  /\ rxBufferIndex' = Len(taken')
                        /\ taken'[Len(taken')] = wanted[Len(taken')]
      OBVIOUS
    <3>1. /\ rxBufferIndex = Len(taken) /\ rxBufferIndex < rxBufferLength
          /\ rxBufferIndex \in Places
          /\ rxBuffer[rxBufferIndex] = wanted[Len(taken) + 1]
      BY <2>1, WireAssumption DEF RxKnows, Holds, Bounds, Types, Places
    <3> QED BY <1>5, <2>3, <3>1 DEF Read, Bounds, Types
  <2>5. ~mixed => \A k \in 1..Len(taken') : taken'[k] = wanted[k]
    <3> SUFFICES ASSUME ~mixed, NEW k \in 1..Len(taken') PROVE taken'[k] = wanted[k]
      OBVIOUS
    <3>1. Len(taken) \in Nat
      BY DEF Bounds, Types
    <3>2. k \in 1..Len(taken) \/ k = Len(taken')
      BY <2>3, <3>1
    <3> QED BY <2>3, <2>4, <3>2 DEF RxKnows
  <2>6. ~mixed => rxBufferLength = Len(wanted) /\ Holds(wanted, Len(wanted))
    BY <2>1 DEF RxKnows
  <2>7. Holds(wanted, Len(wanted)) => Holds(wanted, Len(wanted))'
    BY <2>1 DEF Holds
  <2>8. Len(taken') <= Len(wanted)
    BY <2>1, <2>3 DEF Bounds, Types
  <2> QED BY <2>1, <2>4, <2>5, <2>6, <2>7, <2>8 DEF RxKnows
<1>6. CASE BeginTransmission
  BY <1>6, RxKnowsStays DEF BeginTransmission
<1>7. CASE WriteStore
  BY <1>7, RxKnowsStays DEF WriteStore
<1>13. CASE WriteTest
  BY <1>13, RxKnowsStays DEF WriteTest
<1>8. CASE WriteIndex
  BY <1>8, RxKnowsStays DEF WriteIndex
<1>9. CASE WriteLength
  BY <1>9, RxKnowsStays DEF WriteLength
<1>10. CASE EndTransmission
  BY <1>10, RxKnowsStays DEF EndTransmission
<1>11. CASE WriteTo
  BY <1>11, RxKnowsStays DEF WriteTo
<1>12. CASE Transmitted
  BY <1>12, RxKnowsStays DEF Transmitted
<1> QED BY <1>1, <1>2, <1>3, <1>4, <1>5, <1>6, <1>7, <1>8, <1>9, <1>10, <1>11, <1>12,
          <1>13
        DEF Sketch

\* A callback leaves alone what is in use; a buffer that is not in use has no byte
\* the sketch still wants, unless they are being copied, which mixed records.
LEMMA ServicesRxKnows ==
  Bounds /\ RxKnows /\ (OnReceiveService \/ OnRequestService) => RxKnows'
<1> SUFFICES ASSUME Bounds, RxKnows, OnReceiveService \/ OnRequestService PROVE RxKnows'
  OBVIOUS
<1>1. CASE OnReceiveService
  <2>1. UNCHANGED <<pc, data, copied, wanted, taken>>
    BY <1>1 DEF OnReceiveService, driver
  <2>2. CASE UNCHANGED <<rx, mixed>>
    BY <2>1, <2>2, RxKnowsStays DEF request, driver
  <2>3. CASE ~RxBufferInUse /\ mixed' = (mixed \/ (pc \in {"copy", "length"} /\ copied > 0))
    <3>1. ~mixed => Len(taken) = Len(wanted)
      BY <2>3 DEF RxKnows, RxBufferInUse, Bounds, Types
    <3>2. CASE mixed'
      BY <2>1, <3>2 DEF RxKnows
    <3>3. CASE ~mixed'
      <4>1. ~mixed /\ (pc \in {"copy", "length"} => copied = 0)
        <5>1. ~mixed /\ ~(pc \in {"copy", "length"} /\ copied > 0)
          BY <2>3, <3>3
        <5> QED BY <5>1, WireAssumption DEF Bounds, Types
      <4>2. pc \in {"copy", "length"} => Holds(data, copied)'
        BY <2>1, <4>1 DEF Holds, Places
      <4> QED BY <2>1, <3>1, <4>1, <4>2 DEF RxKnows, Bounds, Types
    <3> QED BY <3>2, <3>3
  <2> QED BY <1>1, <2>2, <2>3 DEF OnReceiveService, Receive
<1>2. CASE OnRequestService
  BY <1>2, RxKnowsStays DEF OnRequestService
<1> QED BY <1>1, <1>2

\* For every size of the buffers, the sketch reads what the device sent, in order:
\* onReceiveService can spoil a request only while twi_readFrom copies it.
THEOREM RequestHolds == Spec => []RequestIntact
<1>1. Init => Bounds /\ RxKnows
  BY InitBounds, InitRxKnows
<1>2. Bounds /\ RxKnows /\ [Next]_vars => (Bounds /\ RxKnows)'
  <2> SUFFICES ASSUME Bounds, RxKnows, [Next]_vars PROVE Bounds' /\ RxKnows'
    OBVIOUS
  <2>1. CASE UNCHANGED vars
    <3>1. UNCHANGED <<rx, request, pc, driver>>
      BY <2>1 DEF vars
    <3> QED BY <3>1, NextBounds, RxKnowsStays
  <2>2. CASE Next
    <3>1. Sketch \/ OnReceiveService \/ OnRequestService
      BY <2>2 DEF Next
    <3> QED BY <3>1, NextBounds, SketchRxKnows, ServicesRxKnows
  <2> QED BY <2>1, <2>2
<1>3. RxKnows => RequestIntact
  BY DEF RxKnows, RequestIntact
<1> QED BY <1>1, <1>2, <1>3, PTL DEF Spec

(***************************************************************************)
(* What endTransmission sends.                                             *)
(***************************************************************************)
InTxBuffer(bytes) == \A p \in Places : p < Len(bytes) => txBuffer[p] = bytes[p + 1]

\* Without a request of a foreign master, txBuffer holds what the sketch has
\* written, and index and length follow, one assignment after the other.
TxKnows ==
  ~asked =>
    /\ transmitting /\ pc # "ended" => InTxBuffer(written)
    /\ transmitting /\ pc \notin {"index", "txlength"} => txBufferLength = Len(written)
    /\ pc = "store" => transmitting
    /\ pc = "index" => transmitting /\ txBufferIndex + 1 = Len(written)
    /\ pc = "txlength" => transmitting /\ txBufferIndex = Len(written)
    /\ pc = "end" => transmitting /\ Len(data) = Len(written)
    /\ pc = "ended" => sent = written

LEMMA InitTxKnows == Init => TxKnows
BY DEF Init, TxKnows

\* Nothing that TxKnows speaks of has changed.
LEMMA TxKnowsStays ==
  ASSUME TxKnows, UNCHANGED <<tx, written, asked>>,
         UNCHANGED <<pc, data, sent>>
         \/ {pc, pc'} \cap {"store", "index", "txlength", "end", "ended"} = {}
  PROVE  TxKnows'
BY DEF TxKnows, InTxBuffer, tx

LEMMA SketchTxKnows == Bounds /\ TxKnows /\ Sketch => TxKnows'
<1> SUFFICES ASSUME Bounds, TxKnows, Sketch PROVE TxKnows'
  OBVIOUS
<1>1. CASE RequestFrom
  BY <1>1, TxKnowsStays DEF RequestFrom, output
<1>2. CASE CopyByte
  BY <1>2, TxKnowsStays DEF CopyByte, output
<1>3. CASE ResetIndex
  BY <1>3, TxKnowsStays DEF ResetIndex, output
<1>4. CASE SetLength
  BY <1>4, TxKnowsStays DEF SetLength, output
<1>5. CASE Read
  BY <1>5, TxKnowsStays DEF Read, output
<1>6. CASE BeginTransmission
  <2>1. /\ pc = "idle" /\ pc' = "idle" /\ txBufferLength' = 0 /\ written' = <<>>
    BY <1>6 DEF BeginTransmission
  <2> QED BY <2>1 DEF TxKnows, InTxBuffer, Places
<1>7. CASE WriteStore
  <2> DEFINE b == <<"sketch", calls, Len(written) + 1>>
  <2>1. /\ pc = "store" /\ pc' = "index" /\ UNCHANGED transmitting
        /\ txBuffer' = Store(txBuffer, txBufferIndex, written'[Len(written')])
        /\ UNCHANGED <<txBufferIndex, asked>>
    BY <1>7 DEF WriteStore
  <2>2. b \in Bytes /\ written' = Append(written, b)
    BY <1>7 DEF WriteStore, Bytes, Bounds, Types
  <2> HIDE DEF b
  <2>3. /\ Len(written') = Len(written) + 1
        /\ \A k \in 1..Len(written) : written'[k] = written[k]
    BY <2>2 DEF Bounds, Types
  <2>4. ~asked => /\ transmitting /\ txBufferIndex = Len(written)
                  /\ InTxBuffer(written)
    BY <2>1 DEF TxKnows, Bounds, TxRoom
  <2>5. ~asked => InTxBuffer(written)'
    <3> SUFFICES ASSUME ~asked, NEW p \in Places, p < Len(written')
                 PROVE  txBuffer'[p] = written'[p + 1]
      BY DEF InTxBuffer
    <3>1. CASE p = txBufferIndex
      BY <2>1, <2>3, <2>4, <3>1 DEF Store
    <3>2. CASE p # txBufferIndex
      <4>1. p < Len(written) /\ p + 1 \in 1..Len(written)
        BY <2>3, <2>4, <3>2, WireAssumption DEF Places, Bounds, Types
      <4> QED BY <2>1, <2>3, <2>4, <3>2, <4>1 DEF Store, InTxBuffer
    <3> QED BY <3>1, <3>2
  <2> QED BY <2>1, <2>3, <2>4, <2>5 DEF TxKnows
<1>13. CASE WriteTest
  BY <1>13 DEF WriteTest, TxKnows, InTxBuffer, tx, output
<1>8. CASE WriteIndex
  BY <1>8 DEF WriteIndex, TxKnows, InTxBuffer, output, Bounds, TxRoom
<1>9. CASE WriteLength
  BY <1>9 DEF WriteLength, TxKnows, InTxBuffer, output, Bounds, TxRoom
<1>10. CASE EndTransmission
  <2>1. /\ pc = "idle" /\ transmitting /\ UNCHANGED <<tx, written, asked>>
    BY <1>10 DEF EndTransmission, output
  <2>2. ~asked => pc' = "end" /\ Len(data') = txBufferLength
    <3>1. ~asked => txBufferLength \in 0..BufferLength
      BY WireAssumption DEF Bounds, Types, TxRoom
    <3>2. txBuffer \in [Places -> Bytes]
      BY DEF Bounds, Types
    <3>3. CASE asked
      BY <3>3
    <3>4. CASE ~asked
      <4>1. ~(txBufferLength > BufferLength)
        BY <3>1, <3>4, WireAssumption
      <4>2. pc' = "end" /\ data' = Content(txBuffer, txBufferLength)
        BY <1>10, <4>1 DEF EndTransmission
      <4>3. Len(Content(txBuffer, txBufferLength)) = txBufferLength
        BY <3>1, <3>2, <3>4, ContentType
      <4> QED BY <4>2, <4>3
    <3> QED BY <3>3, <3>4
  <2> QED BY <2>1, <2>2 DEF TxKnows, InTxBuffer, tx
<1>11. CASE WriteTo
  <2>1. /\ pc = "end" /\ pc' = "ended" /\ UNCHANGED <<tx, written, asked>>
        /\ sent' = Content(txBuffer, Len(data))
    BY <1>11 DEF WriteTo
  <2>2. ~asked => sent' = written
    <3> SUFFICES ASSUME ~asked PROVE sent' = written
      OBVIOUS
    <3>1. Len(data) = Len(written) /\ InTxBuffer(written)
      BY <2>1 DEF TxKnows
    <3>2. \A k \in 1..Len(written) : k - 1 \in Places /\ txBuffer[k - 1] = written[k]
      BY <3>1, WireAssumption DEF InTxBuffer, Places, Bounds, Types
    <3>3. sent' = [k \in 1..Len(written) |-> written[k]]
      BY <2>1, <3>1, <3>2 DEF Content
    <3> QED BY <3>3 DEF Bounds, Types
  <2> QED BY <2>1, <2>2 DEF TxKnows, tx
<1>12. CASE Transmitted
  <2>1. ~transmitting' /\ pc' = "idle"
    BY <1>12 DEF Transmitted
  <2> QED BY <2>1 DEF TxKnows
<1> QED BY <1>1, <1>2, <1>3, <1>4, <1>5, <1>6, <1>7, <1>8, <1>9, <1>10, <1>11, <1>12,
          <1>13
        DEF Sketch

\* For every size of the buffers, what is sent is what the sketch has written since
\* beginTransmission, unless a foreign master asked for data in the meantime.
THEOREM TransmissionHolds == Spec => []TransmissionIntact
<1>1. Init => Bounds /\ TxKnows
  BY InitBounds, InitTxKnows
<1>2. Bounds /\ TxKnows /\ [Next]_vars => (Bounds /\ TxKnows)'
  <2> SUFFICES ASSUME Bounds, TxKnows, [Next]_vars PROVE Bounds' /\ TxKnows'
    OBVIOUS
  <2>1. CASE UNCHANGED vars
    <3>1. UNCHANGED <<tx, written, asked, pc, data, sent>>
      BY <2>1 DEF vars, driver, output
    <3> QED BY <3>1, NextBounds, TxKnowsStays
  <2>2. CASE Sketch
    BY <2>2, NextBounds, SketchTxKnows
  <2>3. CASE OnReceiveService
    <3>1. UNCHANGED <<tx, written, asked, pc, data, sent>>
      BY <2>3 DEF OnReceiveService, driver, output
    <3> QED BY <3>1, NextBounds, TxKnowsStays
  <2>4. CASE OnRequestService
    BY <2>4, NextBounds DEF OnRequestService, TxKnows
  <2> QED BY <2>1, <2>2, <2>3, <2>4 DEF Next
<1>3. TxKnows => TransmissionIntact
  BY DEF TxKnows, TransmissionIntact
<1> QED BY <1>1, <1>2, <1>3, PTL DEF Spec
================================================================================
