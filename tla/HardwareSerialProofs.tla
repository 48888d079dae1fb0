------------------------- MODULE HardwareSerialProofs -------------------------
(***************************************************************************)
(* Proofs about HardwareSerial, for every buffer size, every number of     *)
(* writes and arrivals and every choice of the other constants.            *)
(***************************************************************************)
EXTENDS HardwareSerial, SequenceTheorems, TLAPS

(***************************************************************************)
(* Ring indices: how a push or a pop changes the number of bytes in a ring *)
(* and the sequence they form, for every buffer size.                      *)
(***************************************************************************)

\* Inc wraps from the last slot to slot 0 and stays within the buffer.
LEMMA IncValue ==
  ASSUME NEW i \in Slots
  PROVE  /\ Inc(i) = IF i + 1 = BufferSize THEN 0 ELSE i + 1
         /\ Inc(i) \in Slots
  BY BufferSizeAssumption DEF Inc, Slots

\* Plus wraps once for a distance below the buffer size.
LEMMA PlusValue ==
  ASSUME NEW i \in Slots, NEW k \in 0 .. BufferSize - 1
  PROVE  /\ Plus(i, k) = IF i + k >= BufferSize THEN i + k - BufferSize
                                               ELSE i + k
         /\ Plus(i, k) \in Slots
  BY BufferSizeAssumption DEF Plus, Slots

\* available()'s expression is the distance from tail to head; the ring holds
\* at most BufferSize - 1 bytes.
LEMMA CountValue ==
  ASSUME NEW h \in Slots, NEW t \in Slots
  PROVE  /\ Count(h, t) = IF h >= t THEN h - t ELSE BufferSize + h - t
         /\ Count(h, t) \in 0 .. BufferSize - 1
  BY BufferSizeAssumption DEF Count, Slots

\* head = tail exactly when the ring is empty, and the slot after head is the
\* tail exactly when it is full.
LEMMA CountEmptyFull ==
  ASSUME NEW h \in Slots, NEW t \in Slots
  PROVE  /\ (Count(h, t) = 0) <=> (h = t)
         /\ (Count(h, t) = BufferSize - 1) <=> (Inc(h) = t)
<1>1. Count(h, t) = IF h >= t THEN h - t ELSE BufferSize + h - t
  BY CountValue
<1>2. Inc(h) = IF h + 1 = BufferSize THEN 0 ELSE h + 1
  BY IncValue
<1>3. QED BY <1>1, <1>2, BufferSizeAssumption DEF Slots

\* Advancing the head of a ring that is not full adds one byte.
LEMMA CountPush ==
  ASSUME NEW h \in Slots, NEW t \in Slots, Inc(h) # t
  PROVE  Count(Inc(h), t) = Count(h, t) + 1
<1>1. Inc(h) = (IF h + 1 = BufferSize THEN 0 ELSE h + 1) /\ Inc(h) \in Slots
  BY IncValue
<1>2. Count(h, t) = IF h >= t THEN h - t ELSE BufferSize + h - t
  BY CountValue
<1>3. Count(Inc(h), t) = IF Inc(h) >= t THEN Inc(h) - t
                                        ELSE BufferSize + Inc(h) - t
  BY <1>1, CountValue
<1>4. QED BY <1>1, <1>2, <1>3, BufferSizeAssumption DEF Slots

\* Advancing the tail of a ring that is not empty removes one byte.
LEMMA CountPop ==
  ASSUME NEW h \in Slots, NEW t \in Slots, h # t
  PROVE  Count(h, Inc(t)) = Count(h, t) - 1
<1>1. Inc(t) = (IF t + 1 = BufferSize THEN 0 ELSE t + 1) /\ Inc(t) \in Slots
  BY IncValue
<1>2. Count(h, t) = IF h >= t THEN h - t ELSE BufferSize + h - t
  BY CountValue
<1>3. Count(h, Inc(t)) = IF h >= Inc(t) THEN h - Inc(t)
                                        ELSE BufferSize + h - Inc(t)
  BY <1>1, CountValue
<1>4. QED BY <1>1, <1>2, <1>3, BufferSizeAssumption DEF Slots

\* The byte k places after the tail is not in the head's slot, which is the
\* first free one.
LEMMA PlusBelowHead ==
  ASSUME NEW h \in Slots, NEW t \in Slots
  PROVE  /\ Plus(t, Count(h, t)) = h
         /\ \A k \in 0 .. Count(h, t) - 1 : Plus(t, k) \in Slots \ {h}
<1>1. /\ Count(h, t) = IF h >= t THEN h - t ELSE BufferSize + h - t
      /\ Count(h, t) \in 0 .. BufferSize - 1
  BY CountValue
<1>2. Plus(t, Count(h, t)) = h
  <2>1. Plus(t, Count(h, t))
          = IF t + Count(h, t) >= BufferSize THEN t + Count(h, t) - BufferSize
                                             ELSE t + Count(h, t)
    BY <1>1, PlusValue
  <2>2. QED BY <1>1, <2>1, BufferSizeAssumption DEF Slots
<1>3. ASSUME NEW k \in 0 .. Count(h, t) - 1
      PROVE  Plus(t, k) \in Slots \ {h}
  <2>1. k \in 0 .. BufferSize - 1 BY <1>1, BufferSizeAssumption
  <2>2. /\ Plus(t, k) = IF t + k >= BufferSize THEN t + k - BufferSize
                                               ELSE t + k
        /\ Plus(t, k) \in Slots
    BY <2>1, PlusValue
  <2>3. QED BY <1>1, <2>2, BufferSizeAssumption DEF Slots
<1>4. QED BY <1>2, <1>3

\* Distances from the next slot are one less.
LEMMA PlusInc ==
  ASSUME NEW t \in Slots, NEW k \in 0 .. BufferSize - 2
  PROVE  Plus(Inc(t), k) = Plus(t, k + 1)
<1>1. Inc(t) = (IF t + 1 = BufferSize THEN 0 ELSE t + 1) /\ Inc(t) \in Slots
  BY IncValue
<1>2. k \in 0 .. BufferSize - 1 /\ k + 1 \in 0 .. BufferSize - 1
  BY BufferSizeAssumption
<1>3. Plus(Inc(t), k) = IF Inc(t) + k >= BufferSize
                        THEN Inc(t) + k - BufferSize ELSE Inc(t) + k
  BY <1>1, <1>2, PlusValue
<1>4. Plus(t, k + 1) = IF t + (k + 1) >= BufferSize
                       THEN t + (k + 1) - BufferSize ELSE t + (k + 1)
  BY <1>2, PlusValue
<1>5. QED BY <1>1, <1>3, <1>4, BufferSizeAssumption DEF Slots

\* The contents are a sequence of the buffer's values, as long as Count says.
LEMMA ContentsType ==
  ASSUME NEW buf \in [Slots -> Nat], NEW h \in Slots, NEW t \in Slots
  PROVE  /\ Contents(buf, h, t) \in Seq(Nat)
         /\ Len(Contents(buf, h, t)) = Count(h, t)
         /\ \A k \in 1 .. Count(h, t) :
              Contents(buf, h, t)[k] = buf[Plus(t, k - 1)]
<1>1. Count(h, t) \in Nat BY CountValue, BufferSizeAssumption
<1>2. ASSUME NEW k \in 1 .. Count(h, t) PROVE buf[Plus(t, k - 1)] \in Nat
  BY <1>1, PlusBelowHead
<1>3. QED BY <1>1, <1>2 DEF Contents

\* Storing a byte in the head's slot and advancing the head appends it.
LEMMA ContentsPush ==
  ASSUME NEW buf \in [Slots -> Nat], NEW h \in Slots, NEW t \in Slots,
         NEW x \in Nat, Inc(h) # t
  PROVE  Contents([buf EXCEPT ![h] = x], Inc(h), t)
           = Append(Contents(buf, h, t), x)
<1> DEFINE b == [buf EXCEPT ![h] = x]
           old == Contents(buf, h, t)
           new == Contents(b, Inc(h), t)
           n == Count(h, t)
<1>1. b \in [Slots -> Nat] /\ Inc(h) \in Slots BY IncValue
<1>2. n \in Nat /\ Count(Inc(h), t) = n + 1
  BY CountPush, CountValue, BufferSizeAssumption
<1>3. old \in Seq(Nat) /\ Len(old) = n BY ContentsType
<1>4. new \in Seq(Nat) /\ Len(new) = n + 1 BY <1>1, <1>2, ContentsType
<1>5. Append(old, x) \in Seq(Nat) /\ Len(Append(old, x)) = n + 1 BY <1>3
<1>6. ASSUME NEW k \in 1 .. n + 1 PROVE new[k] = Append(old, x)[k]
  <2>1. new[k] = b[Plus(t, k - 1)]
    <3>1. \A j \in 1 .. Count(Inc(h), t) : new[j] = b[Plus(t, j - 1)]
      BY <1>1, ContentsType
    <3>2. QED BY <3>1, <1>2
  <2>2. CASE k = n + 1
    <3>1. Plus(t, k - 1) = h BY <2>2, <1>2, PlusBelowHead
    <3>2. Append(old, x)[k] = x BY <2>2, <1>2, <1>3
    <3>3. QED BY <2>1, <3>1, <3>2
  <2>3. CASE k # n + 1
    <3>1. k \in 1 .. n /\ k - 1 \in 0 .. n - 1 BY <2>3, <1>2
    <3>2. Plus(t, k - 1) \in Slots \ {h} BY <3>1, PlusBelowHead
    <3>3. b[Plus(t, k - 1)] = buf[Plus(t, k - 1)] BY <3>2
    <3>4. old[k] = buf[Plus(t, k - 1)] BY <3>1, ContentsType
    <3>5. Append(old, x)[k] = old[k] BY <3>1, <1>2, <1>3
    <3>6. QED BY <2>1, <3>3, <3>4, <3>5
  <2>4. QED BY <2>2, <2>3
<1>7. \A k \in 1 .. Len(new) : new[k] = Append(old, x)[k] BY <1>4, <1>6
<1> HIDE DEF new, old
<1>8. new = Append(old, x) BY <1>4, <1>5, <1>7, SeqEqual
<1>9. QED BY <1>8 DEF new, old

\* Advancing the tail removes the oldest byte, which is in the tail's slot.
LEMMA ContentsPop ==
  ASSUME NEW buf \in [Slots -> Nat], NEW h \in Slots, NEW t \in Slots, h # t
  PROVE  /\ Contents(buf, h, t) # <<>>
         /\ Head(Contents(buf, h, t)) = buf[t]
         /\ Contents(buf, h, Inc(t)) = Tail(Contents(buf, h, t))
<1> DEFINE old == Contents(buf, h, t)
           new == Contents(buf, h, Inc(t))
           n == Count(h, t)
<1>1. n \in 1 .. BufferSize - 1 /\ Count(h, Inc(t)) = n - 1
  BY CountPop, CountValue, CountEmptyFull, BufferSizeAssumption
<1>2. Inc(t) \in Slots BY IncValue
<1>3. old \in Seq(Nat) /\ Len(old) = n BY ContentsType
<1>4. new \in Seq(Nat) /\ Len(new) = n - 1 BY <1>1, <1>2, ContentsType
<1>5. old # <<>> BY <1>1, <1>3
<1>6. old[1] = buf[t]
  <2>1. old[1] = buf[Plus(t, 1 - 1)] BY <1>1, ContentsType
  <2>2. Plus(t, 0) = t BY PlusValue, BufferSizeAssumption DEF Slots
  <2>3. QED BY <2>1, <2>2
<1>7. ASSUME NEW k \in 1 .. n - 1 PROVE new[k] = old[k + 1]
  <2>1. k - 1 \in 0 .. BufferSize - 2 /\ k + 1 \in 1 .. n
    BY <1>1, BufferSizeAssumption
  <2>2. Plus(Inc(t), k - 1) = Plus(t, (k - 1) + 1) BY <2>1, PlusInc
  <2>3. old[k + 1] = buf[Plus(t, (k + 1) - 1)] BY <2>1, ContentsType
  <2>4. new[k] = buf[Plus(Inc(t), k - 1)] BY <1>1, <1>2, ContentsType
  <2>5. (k - 1) + 1 = (k + 1) - 1 OBVIOUS
  <2>6. QED BY <2>2, <2>3, <2>4, <2>5
<1>8. /\ Tail(old) \in Seq(Nat) /\ Len(Tail(old)) = n - 1
      /\ \A k \in 1 .. n - 1 : Tail(old)[k] = old[k + 1]
  BY <1>3, <1>5, HeadTailProperties
<1> HIDE DEF new, old
<1>9. new = Tail(old) BY <1>1, <1>4, <1>7, <1>8, SeqEqual
<1>10. Head(old) = buf[t] BY <1>3, <1>5, <1>6
<1>11. QED BY <1>5, <1>9, <1>10 DEF new, old

------------------------------------------------------------------------------
\* Type correctness

BeginChanges == {"setRxen", "setTxen", "setRxcie", "clearUdrie"}
EndChanges   == {"endRxen", "endTxen", "endRxcie", "endUdrie"}

\* The handler's step, wherever it is called from, keeps the types.
LEMMA IrqType ==
  ASSUME TypeOK, TxUdrEmptyIrq
  PROVE  /\ txTail' = Inc(txTail) /\ txTail' \in Slots
         /\ wire' \in Seq(Nat)
         /\ udr' \in BOOLEAN /\ txc' \in BOOLEAN /\ udrie' \in BOOLEAN
         /\ wiped' \in BOOLEAN
<1>1. txTail' \in Slots /\ txBuf[txTail] \in Nat
  BY IncValue DEF TypeOK, TxUdrEmptyIrq, TxIrq
<1>2. wire' \in Seq(Nat) BY <1>1 DEF TypeOK, TxUdrEmptyIrq, TxIrq, StoreUdr
<1>3. /\ udr' \in BOOLEAN /\ txc' \in BOOLEAN /\ udrie' \in BOOLEAN
      /\ wiped' \in BOOLEAN
  BY Zenon DEF TypeOK, TxUdrEmptyIrq, TxIrq, StoreUdr
<1>4. QED BY <1>1, <1>2, <1>3 DEF TxUdrEmptyIrq, TxIrq

\* A counter that is below its limit may be incremented.
LEMMA BelowDepth ==
  ASSUME NEW n \in Nat, n <= 2, n # 2
  PROVE  n + 1 <= 2
  OBVIOUS

\* A change of UCSRB leads to the next one, to the sketch or to end()'s rest.
LEMMA ChangeNext ==
  ASSUME pc \in Changes
  PROVE  /\ AfterChange[pc] \in Changes \cup {"idle", "discard"}
         /\ pc \in BeginChanges =>
              AfterChange[pc] \in BeginChanges \cup {"idle"}
         /\ pc \in EndChanges =>
              AfterChange[pc] \in (EndChanges \ {"endRxen"}) \cup {"discard"}
         /\ pc \in BeginChanges \cup EndChanges
  BY DEF Changes, AfterChange, BeginChanges, EndChanges

\* A receiver that takes a byte only below its depth stays within it.
LEMMA ReceiverPush ==
  ASSUME NEW S, NEW s \in Seq(S), NEW e \in S, Len(s) <= ReceiverDepth,
         NEW t, t = IF Len(s) = ReceiverDepth THEN s ELSE Append(s, e)
  PROVE  t \in Seq(S) /\ Len(t) <= ReceiverDepth
<1>1. Len(s) \in Nat BY LenProperties
<1>2. Append(s, e) \in Seq(S) /\ Len(Append(s, e)) = Len(s) + 1 OBVIOUS
<1>3. CASE Len(s) = 2 BY <1>3 DEF ReceiverDepth
<1>4. CASE Len(s) # 2
  <2>1. t = Append(s, e) BY <1>4 DEF ReceiverDepth
  <2>2. Len(s) + 1 <= 2 BY <1>1, <1>4, BelowDepth DEF ReceiverDepth
  <2>3. QED BY <1>2, <2>1, <2>2 DEF ReceiverDepth
<1>5. QED BY <1>3, <1>4

\* Every step of the port keeps the types.
LEMMA TypeStep == TypeOK /\ [Next]_vars => TypeOK'
<1> SUFFICES ASSUME TypeOK, [Next]_vars PROVE TypeOK'
  OBVIOUS
<1> USE DEF TypeOK, Calls, txSame, rxSame, portVars, txVars, txHwVars, rxVars,
            rxHwVars
<1>1. CASE CliSei BY <1>1, BoundsAssumption DEF CliSei
<1>2. CASE Begin
  <2>1. "setRxen" \in Changes BY DEF Changes, AfterChange
  <2>2. /\ pc' = "setRxen" /\ written' = FALSE
        /\ UNCHANGED <<sregI, portVars, txHead, txTail, txBuf, udrie, nWritten,
                       raced, txHwVars, rxVars, rxHwVars>>
    BY <1>2 DEF Begin
  <2>3. QED BY <2>1, <2>2, ZenonT(30)
<1>3. CASE CallWrite BY <1>3 DEF CallWrite, Call
<1>4. CASE CallFlush BY <1>4 DEF CallFlush, Call
<1>5. CASE CallEnd BY <1>5 DEF CallEnd, Call
<1>6. CASE CallRead BY <1>6 DEF CallRead, Call
<1>7. CASE CallPeek BY <1>7 DEF CallPeek, Call
<1>8. CASE Available
  <2>1. Count(rxHead, rxTail) \in Nat BY CountValue, BufferSizeAssumption
  <2>2. QED BY <1>8, <2>1 DEF Available
<1>9. CASE WriteStep
  <2>1. CASE WriteTestEmpty BY <2>1 DEF WriteTestEmpty
  <2>2. CASE WriteTestUdre BY <2>2 DEF WriteTestUdre
  <2>3. CASE WriteDirect
    <3>1. udr' = TRUE /\ wiped' = FALSE /\ wire' \in Seq(Nat)
      BY <2>3 DEF WriteDirect, StoreUdr
    <3>2. pc' = "clearTxc" /\ UNCHANGED <<txVars, shift, txc>> /\ txSame
      BY <2>3 DEF WriteDirect
    <3>3. QED BY <3>1, <3>2
  <2>4. CASE WriteClearTxc BY <2>4 DEF WriteClearTxc
  <2>5. CASE WriteWait 
    <3>1. TxUdrEmptyIrq /\ txSame /\ UNCHANGED pc BY <2>5 DEF WriteWait
    <3>2. UNCHANGED <<shift, txHead, txBuf, written, nWritten, raced>>
      BY <3>1 DEF TxUdrEmptyIrq, TxIrq
    <3>3. UNCHANGED <<pc, sregI, portVars, rxVars, rxHwVars>>
      BY <3>1 DEF txSame
    <3>4. /\ txTail' \in Slots /\ wire' \in Seq(Nat)
          /\ udr' \in BOOLEAN /\ txc' \in BOOLEAN /\ udrie' \in BOOLEAN
          /\ wiped' \in BOOLEAN
      BY <3>1, IrqType
    <3>5. QED BY <3>2, <3>3, <3>4
  <2>6. CASE WriteRoom BY <2>6 DEF WriteRoom
  <2>7. CASE WriteStore BY <2>7 DEF WriteStore
  <2>8. CASE WritePublish BY <2>8, IncValue DEF WritePublish
  <2>9. CASE WriteEnable BY <2>9 DEF WriteEnable
  <2>10. QED BY <1>9, <2>1, <2>2, <2>3, <2>4, <2>5, <2>6, <2>7, <2>8, <2>9
         DEF WriteStep
<1>10. CASE FlushPoll BY <1>10, IrqType DEF FlushPoll, TxUdrEmptyIrq, TxIrq
<1>11. CASE FlushReturn \/ FlushTestWritten
  BY <1>11, SMTT(20) DEF FlushReturn, FlushTestWritten
<1>12. CASE EndDrained
  <2>1. "endRxen" \in Changes BY DEF Changes, AfterChange
  <2>2. QED BY <1>12, <2>1 DEF EndDrained
<1>13. CASE EndDiscard BY <1>13 DEF EndDiscard
<1>25. CASE UcsrbLoad BY <1>25 DEF UcsrbLoad
<1>26. CASE UcsrbStore
  <2>1. /\ rxFifo' \in Seq([byte : Nat, upe : BOOLEAN])
        /\ Len(rxFifo') <= ReceiverDepth
    BY <1>26 DEF UcsrbStore, ReceiverDepth
  <2>2. pc' \in Changes \cup {"idle", "discard"}
    BY <1>26, ChangeNext DEF UcsrbStore
  <2>3. /\ loaded' \in BOOLEAN /\ ucsrb' \in BOOLEAN
        /\ rxen' \in BOOLEAN /\ rxcie' \in BOOLEAN
        /\ udrie' \in BOOLEAN /\ raced' \in BOOLEAN
    BY <1>26, Zenon DEF UcsrbStore
  <2>4. UNCHANGED <<sregI, txHead, txTail, txBuf, written, nWritten, txHwVars,
                    rxVars, nArrived>>
    BY <1>26 DEF UcsrbStore
  <2>5. QED BY <2>1, <2>2, <2>3, <2>4
<1>14. CASE ReadTestEmpty BY <1>14 DEF ReadTestEmpty
<1>15. CASE ReadTake BY <1>15 DEF ReadTake
<1>16. CASE ReadAdvance BY <1>16, IncValue DEF ReadAdvance
<1>17. CASE Peek BY <1>17 DEF Peek
<1>18. CASE TxInterrupt
  <2>1. /\ txTail' \in Slots /\ wire' \in Seq(Nat)
        /\ udr' \in BOOLEAN /\ txc' \in BOOLEAN /\ udrie' \in BOOLEAN
        /\ wiped' \in BOOLEAN
    BY <1>18, IrqType DEF TxInterrupt
  <2>2. UNCHANGED <<shift, txHead, txBuf, written, nWritten, raced>>
    BY <1>18 DEF TxInterrupt, TxUdrEmptyIrq, TxIrq
  <2>3. txSame /\ UNCHANGED pc BY <1>18 DEF TxInterrupt
  <2>4. QED BY <2>1, <2>2, <2>3
<1>19. CASE RxInterrupt
  <2>1. /\ Head(rxFifo) \in [byte : Nat, upe : BOOLEAN]
        /\ Tail(rxFifo) \in Seq([byte : Nat, upe : BOOLEAN])
        /\ Len(Tail(rxFifo)) <= ReceiverDepth
    <3> DEFINE S == [byte : Nat, upe : BOOLEAN]
    <3>1. rxFifo \in Seq(S) /\ rxFifo # <<>> /\ Len(rxFifo) <= ReceiverDepth
      BY <1>19 DEF RxInterrupt, RxInterruptIf
    <3> HIDE DEF S
    <3>2. /\ Head(rxFifo) \in S /\ Tail(rxFifo) \in Seq(S)
          /\ Len(Tail(rxFifo)) = Len(rxFifo) - 1
      BY <3>1, HeadTailProperties
    <3>3. Len(rxFifo) \in Nat BY <3>1, LenProperties
    <3>4. Len(Tail(rxFifo)) <= ReceiverDepth
      BY <3>1, <3>2, <3>3 DEF ReceiverDepth
    <3>5. QED BY <3>2, <3>4 DEF S
  <2>2. rxHead' \in Slots /\ rxBuf' \in [Slots -> Nat] /\ lastIn' \in Nat
    BY <1>19, <2>1, IncValue DEF RxInterrupt, RxInterruptIf
  <2>3. /\ rxFifo' = Tail(rxFifo)
        /\ UNCHANGED <<pc, sregI, portVars, txVars, txHwVars, rxTail, c, got,
                       promised, nArrived>>
    BY <1>19 DEF RxInterrupt, RxInterruptIf
  <2>4. /\ rxFifo' \in Seq([byte : Nat, upe : BOOLEAN])
        /\ Len(rxFifo') <= ReceiverDepth
    <3> HIDE DEF TypeOK
    <3>1. QED BY <2>1, <2>3
  <2>5. QED BY <2>2, <2>3, <2>4, SMTT(20)
<1>20. CASE LoadShift
  <2>1. /\ udr' \in BOOLEAN /\ shift' \in BOOLEAN
        /\ txSame /\ UNCHANGED <<pc, txVars, txc, wire, wiped>>
    BY <1>20 DEF LoadShift
  <2>2. QED BY <2>1
<1>21. CASE ShiftDone
  <2>1. /\ udr' \in BOOLEAN /\ shift' \in BOOLEAN /\ txc' \in BOOLEAN
        /\ txSame /\ UNCHANGED <<pc, txVars, wire, wiped>>
    BY <1>21 DEF ShiftDone
  <2>2. QED BY <2>1
<1>22. CASE Arrive
  <2>1. nArrived' \in Nat BY <1>22 DEF Arrive
  <2>2. PICK upe \in ParityErrors :
          rxFifo' = IF Len(rxFifo) = ReceiverDepth THEN rxFifo
                    ELSE Append(rxFifo, [byte |-> nArrived', upe |-> upe])
    BY <1>22 DEF Arrive
  <2> DEFINE S == [byte : Nat, upe : BOOLEAN]
             e == [byte |-> nArrived', upe |-> upe]
  <2>3. e \in S /\ rxFifo \in Seq(S) /\ Len(rxFifo) <= ReceiverDepth
    BY <2>1, BoundsAssumption
  <2>4. /\ rxFifo' \in Seq([byte : Nat, upe : BOOLEAN])
        /\ Len(rxFifo') <= ReceiverDepth
    <3> HIDE DEF S, TypeOK
    <3>1. rxFifo' \in Seq(S) /\ Len(rxFifo') <= ReceiverDepth
      BY <2>2, <2>3, ReceiverPush
    <3>2. QED BY <3>1 DEF S
  <2>5. QED BY <1>22, <2>1, <2>4 DEF Arrive
<1>23. CASE UNCHANGED vars BY <1>23 DEF vars
<1>24. QED
  BY <1>1, <1>2, <1>3, <1>4, <1>5, <1>6, <1>7, <1>8, <1>9, <1>10, <1>11,
     <1>12, <1>13, <1>14, <1>15, <1>16, <1>17, <1>18, <1>19, <1>20, <1>21,
     <1>22, <1>23, <1>25, <1>26 DEF Next, Sketch, MainStep

\* Every variable keeps its type, and the receiver holds at most two bytes.
THEOREM TypeCorrect == Spec => []TypeOK
<1>1. Init => TypeOK
  BY BufferSizeAssumption, BoundsAssumption
  DEF Init, TypeOK, Slots, Calls, ReceiverDepth
<1>2. QED BY <1>1, TypeStep, PTL DEF Spec
------------------------------------------------------------------------------
\* The transmit ring

\* The bytes in the ring are the accepted ones that are not on the wire yet.
Queued ==
  /\ Len(wire) + Count(txHead, txTail) = Accepted
  /\ \A k \in 1 .. Len(wire) : wire[k] = k
  /\ \A k \in 0 .. Count(txHead, txTail) - 1 :
       txBuf[Plus(txTail, k)] = Len(wire) + 1 + k

\* What write() has established before each of its steps.
WriteKnows ==
  /\ pc \in {"probe", "direct"} => txHead = txTail
  /\ pc = "direct" => ~udr
  /\ pc \in {"store", "publish"} => Inc(txHead) # txTail
  /\ pc = "publish" => txBuf[txHead] = nWritten

TxRing == ~raced => Queued /\ WriteKnows /\ (udrie => txHead # txTail)

Special == {"write", "probe", "direct", "room", "store", "publish"}

\* A step that leaves the ring and the wire alone and does not move write()
\* preserves TxRing; it may disable the interrupt or empty the data register.
LEMMA TxFrame ==
  ASSUME TypeOK, TxRing,
         UNCHANGED <<txHead, txTail, txBuf, wire, raced, nWritten>>,
         udrie' => udrie, udr' => udr,
         pc' = pc \/ (pc \notin Special /\ pc' \notin Special)
  PROVE  TxRing'
<1>1. Accepted' = Accepted BY DEF Accepted, Special
<1>2. Queued' <=> Queued BY <1>1 DEF Queued
<1>3. WriteKnows => WriteKnows' BY DEF WriteKnows, Special
<1>4. QED BY <1>2, <1>3 DEF TxRing

\* The handler, entered with a byte in the ring, moves the oldest one to the
\* wire and leaves the interrupt enabled only if another is queued.
LEMMA IrqTx ==
  ASSUME TypeOK, TxRing, TxUdrEmptyIrq, pc' = pc, ~udr,
         ~raced => txHead # txTail
  PROVE  TxRing'
<1> SUFFICES ASSUME ~raced
             PROVE  Queued' /\ WriteKnows' /\ (udrie' => txHead' # txTail')
  BY DEF TxRing, TxUdrEmptyIrq, TxIrq
<1> DEFINE n == Count(txHead, txTail)
           L == Len(wire)
<1>1. /\ txHead \in Slots /\ txTail \in Slots /\ txHead # txTail
      /\ txTail' = Inc(txTail) /\ txTail' \in Slots
      /\ txHead' = txHead /\ txBuf' = txBuf /\ nWritten' = nWritten
  BY IrqType DEF TypeOK, TxUdrEmptyIrq, TxIrq
<1>2. n \in 1 .. BufferSize - 1 /\ Count(txHead', txTail') = n - 1
  BY <1>1, CountPop, CountValue, CountEmptyFull, BufferSizeAssumption
<1>3. wire \in Seq(Nat) /\ L \in Nat /\ txBuf[txTail] \in Nat
  BY <1>1 DEF TypeOK
<1>4. wire' = Append(wire, txBuf[txTail]) BY DEF TxUdrEmptyIrq, TxIrq, StoreUdr
<1>5. /\ Len(wire') = L + 1 /\ wire'[L + 1] = txBuf[txTail]
      /\ \A k \in 1 .. L : wire'[k] = wire[k]
  BY <1>3, <1>4
<1>6. Queued /\ WriteKnows BY DEF TxRing
<1>7. txBuf[txTail] = L + 1
  <2>1. Plus(txTail, 0) = txTail
    BY <1>1, PlusValue, BufferSizeAssumption DEF Slots
  <2>2. txBuf[Plus(txTail, 0)] = L + 1 + 0 BY <1>2, <1>6 DEF Queued
  <2>3. QED BY <1>3, <2>1, <2>2
<1>8. \A k \in 1 .. Len(wire') : wire'[k] = k
  BY <1>3, <1>5, <1>6, <1>7 DEF Queued
<1>9. ASSUME NEW k \in 0 .. n - 2
      PROVE  txBuf[Plus(txTail', k)] = L + 2 + k
  <2>1. k \in 0 .. BufferSize - 2 /\ k + 1 \in 0 .. n - 1
    BY <1>2, BufferSizeAssumption
  <2>2. Plus(txTail', k) = Plus(txTail, k + 1) BY <1>1, <2>1, PlusInc
  <2>3. txBuf[Plus(txTail, k + 1)] = L + 1 + (k + 1)
    BY <1>6, <2>1 DEF Queued
  <2>4. L + 1 + (k + 1) = L + 2 + k BY <1>3
  <2>5. QED BY <2>2, <2>3, <2>4
<1>10. Queued'
  <2>1. Accepted' = Accepted BY <1>1 DEF Accepted
  <2>2. L + n = Accepted BY <1>6 DEF Queued
  <2>3. Len(wire') + Count(txHead', txTail') = Accepted'
    BY <1>2, <1>3, <1>5, <2>1, <2>2
  <2>4. ASSUME NEW k \in 0 .. Count(txHead', txTail') - 1
        PROVE  txBuf'[Plus(txTail', k)] = Len(wire') + 1 + k
    <3>1. k \in 0 .. n - 2 BY <1>2
    <3>2. txBuf[Plus(txTail', k)] = L + 2 + k BY <3>1, <1>9
    <3>3. L + 2 + k = (L + 1) + 1 + k BY <1>3
    <3>4. QED BY <1>1, <1>5, <3>2, <3>3
  <2>5. QED BY <1>8, <2>3, <2>4 DEF Queued
<1>11. WriteKnows'
  <2>1. pc \notin {"probe", "direct"} BY <1>1, <1>6 DEF WriteKnows
  <2>2. Inc(txHead') # txTail'
    <3>1. Count(txHead', txTail') # BufferSize - 1 BY <1>2
    <3>2. QED BY <1>1, <3>1, CountEmptyFull
  <2>3. QED BY <1>1, <1>6, <2>1, <2>2 DEF WriteKnows
<1>12. udrie' => txHead' # txTail' BY <1>1 DEF TxUdrEmptyIrq, TxIrq
<1>13. QED BY <1>10, <1>11, <1>12
\* The shortcut stores the byte in the empty data register of an idle ring.
LEMMA DirectTx == TypeOK /\ TxRing /\ WriteDirect => TxRing'
<1> SUFFICES ASSUME TypeOK, TxRing, WriteDirect, ~raced PROVE TxRing'
  BY DEF TxRing, WriteDirect, txVars
<1>1. /\ pc = "direct" /\ pc' = "clearTxc"
      /\ UNCHANGED <<txHead, txTail, txBuf, udrie, nWritten, raced>>
  BY DEF WriteDirect, txVars
<1>2. Queued /\ WriteKnows /\ (udrie => txHead # txTail) BY DEF TxRing
<1>3. txHead = txTail /\ ~udr BY <1>1, <1>2 DEF WriteKnows
<1>4. Count(txHead, txTail) = 0 BY <1>3, CountEmptyFull DEF TypeOK
<1>5. wire' = Append(wire, nWritten) BY <1>3 DEF WriteDirect, StoreUdr
<1>6. wire \in Seq(Nat) /\ Len(wire) \in Nat /\ nWritten \in Nat
  BY DEF TypeOK
<1>7. Len(wire) = nWritten - 1
  BY <1>1, <1>2, <1>4, <1>6 DEF Queued, Accepted
<1>8. Len(wire') = nWritten /\ \A k \in 1 .. Len(wire') : wire'[k] = k
  BY <1>2, <1>5, <1>6, <1>7 DEF Queued
<1>9. Queued' BY <1>1, <1>4, <1>6, <1>8 DEF Queued, Accepted
<1>10. QED BY <1>1, <1>2, <1>9 DEF TxRing, WriteKnows

\* Publishing the head moves the byte of write() into the ring.
LEMMA PublishTx == TypeOK /\ TxRing /\ WritePublish => TxRing'
<1> SUFFICES ASSUME TypeOK, TxRing, WritePublish, ~raced PROVE TxRing'
  BY DEF TxRing, WritePublish
<1> DEFINE n == Count(txHead, txTail)
<1>1. /\ pc = "publish" /\ pc' = "enable" /\ txHead' = Inc(txHead)
      /\ UNCHANGED <<txTail, txBuf, udrie, nWritten, raced, wire>>
  BY DEF WritePublish, txHwVars
<1>2. Queued /\ WriteKnows BY DEF TxRing
<1>3. /\ txHead \in Slots /\ txTail \in Slots /\ txHead' \in Slots
      /\ Inc(txHead) # txTail /\ txBuf[txHead] = nWritten
  BY <1>1, <1>2, IncValue DEF TypeOK, WriteKnows
<1>4. n \in Nat /\ Count(txHead', txTail') = n + 1
  BY <1>1, <1>3, CountPush, CountValue, BufferSizeAssumption
<1>5. Len(wire) \in Nat /\ nWritten \in Nat /\ Len(wire) + n = nWritten - 1
  BY <1>1, <1>2 DEF TypeOK, Queued, Accepted
<1>6. Len(wire') + Count(txHead', txTail') = Accepted'
  BY <1>1, <1>4, <1>5 DEF Accepted
<1>7. ASSUME NEW k \in 0 .. n
      PROVE  txBuf[Plus(txTail, k)] = Len(wire) + 1 + k
  <2>1. CASE k = n
    <3>1. Plus(txTail, k) = txHead BY <2>1, <1>3, PlusBelowHead
    <3>2. QED BY <3>1, <2>1, <1>3, <1>4, <1>5
  <2>2. CASE k # n
    <3>1. k \in 0 .. n - 1 BY <2>2, <1>4
    <3>2. QED BY <3>1, <1>2 DEF Queued
  <2>3. QED BY <2>1, <2>2
<1>8. Queued'
  <2>1. \A k \in 0 .. Count(txHead', txTail') - 1 :
          txBuf'[Plus(txTail', k)] = Len(wire') + 1 + k
    BY <1>1, <1>4, <1>7
  <2>2. QED BY <1>1, <1>2, <1>6, <2>1 DEF Queued
<1>9. txHead' # txTail' BY <1>1, <1>3
<1>10. QED BY <1>1, <1>8, <1>9 DEF TxRing, WriteKnows

\* Storing the byte in the free slot disturbs no queued byte.
LEMMA StoreTx == TypeOK /\ TxRing /\ WriteStore => TxRing'
<1> SUFFICES ASSUME TypeOK, TxRing, WriteStore, ~raced PROVE TxRing'
  BY DEF TxRing, WriteStore
<1>1. /\ pc = "store" /\ pc' = "publish"
      /\ txBuf' = [txBuf EXCEPT ![txHead] = nWritten]
      /\ UNCHANGED <<txHead, txTail, udrie, nWritten, raced, wire>>
  BY DEF WriteStore, txHwVars
<1>2. Queued /\ WriteKnows /\ (udrie => txHead # txTail) BY DEF TxRing
<1>3. txHead \in Slots /\ txTail \in Slots /\ txBuf \in [Slots -> Nat]
  BY DEF TypeOK
<1>4. \A k \in 0 .. Count(txHead, txTail) - 1 :
        txBuf'[Plus(txTail, k)] = txBuf[Plus(txTail, k)]
  BY <1>1, <1>3, PlusBelowHead
<1>5. Accepted' = Accepted BY <1>1 DEF Accepted
<1>6. Queued' BY <1>1, <1>2, <1>4, <1>5 DEF Queued
<1>7. WriteKnows' BY <1>1, <1>2, <1>3 DEF WriteKnows
<1>8. QED BY <1>1, <1>2, <1>6, <1>7 DEF TxRing

\* Every step preserves TxRing.
LEMMA TxStep == TypeOK /\ TypeOK' /\ TxRing /\ [Next]_vars => TxRing'
<1> SUFFICES ASSUME TypeOK, TypeOK', TxRing, [Next]_vars PROVE TxRing'
  OBVIOUS
<1> USE DEF txVars, txHwVars, Special
<1>1. CASE CliSei BY <1>1, TxFrame DEF CliSei
<1>2. CASE Begin BY <1>2, TxFrame DEF Begin
<1>3. CASE CallWrite
  <2>1. /\ pc = "idle" /\ pc' = "write" /\ nWritten' = nWritten + 1
        /\ UNCHANGED <<txHead, txTail, txBuf, udrie, raced, wire, udr>>
    BY <1>3 DEF CallWrite, Call
  <2>2. Accepted' = Accepted BY <2>1 DEF Accepted, TypeOK
  <2>3. Queued => Queued' BY <2>1, <2>2 DEF Queued
  <2>4. QED BY <2>1, <2>3 DEF TxRing, WriteKnows
<1>4. CASE CallFlush BY <1>4, TxFrame DEF CallFlush, Call
<1>5. CASE CallEnd BY <1>5, TxFrame DEF CallEnd, Call
<1>6. CASE CallRead BY <1>6, TxFrame DEF CallRead, Call
<1>7. CASE CallPeek BY <1>7, TxFrame DEF CallPeek, Call
<1>8. CASE Available BY <1>8, TxFrame DEF Available
<1>9. CASE WriteStep
  <2>1. CASE WriteTestEmpty \/ WriteTestUdre \/ WriteRoom
    <3>1. /\ pc \in Special /\ pc' \in Special \ {"publish"}
          /\ pc' = "probe" => txHead = txTail
          /\ pc' = "direct" => pc = "probe" /\ ~udr
          /\ pc' = "store" => Inc(txHead) # txTail
          /\ UNCHANGED <<txHead, txTail, txBuf, udrie, raced, wire, udr,
                         nWritten>>
      BY <2>1 DEF WriteTestEmpty, WriteTestUdre, WriteRoom
    <3>2. Accepted' = Accepted BY <3>1 DEF Accepted
    <3>3. Queued => Queued' BY <3>1, <3>2 DEF Queued
    <3>4. WriteKnows => WriteKnows' BY <3>1 DEF WriteKnows
    <3>5. QED BY <3>1, <3>3, <3>4 DEF TxRing
  <2>2. CASE WriteDirect BY <2>2, DirectTx
  <2>3. CASE WriteClearTxc BY <2>3, TxFrame DEF WriteClearTxc
  <2>4. CASE WriteWait
    <3>1. Inc(txHead) = txTail => txHead # txTail
      <4>1. txHead \in Slots BY DEF TypeOK
      <4>2. Inc(txHead) = IF txHead + 1 = BufferSize THEN 0 ELSE txHead + 1
        BY <4>1, IncValue
      <4>3. QED BY <4>1, <4>2, BufferSizeAssumption DEF Slots
    <3>2. QED BY <2>4, <3>1, IrqTx DEF WriteWait
  <2>5. CASE WriteStore BY <2>5, StoreTx
  <2>6. CASE WritePublish BY <2>6, PublishTx
  <2>7. CASE WriteEnable
    <3>1. /\ pc = "enable" /\ pc' = "idle" /\ raced' = (raced \/ txHead = txTail)
          /\ UNCHANGED <<txHead, txTail, txBuf, nWritten, wire>>
      BY <2>7 DEF WriteEnable
    <3>2. Accepted' = Accepted BY <3>1 DEF Accepted
    <3>3. Queued => Queued' BY <3>1, <3>2 DEF Queued
    <3>4. QED BY <3>1, <3>3 DEF TxRing, WriteKnows
  <2>8. QED BY <1>9, <2>1, <2>2, <2>3, <2>4, <2>5, <2>6, <2>7 DEF WriteStep
<1>10. CASE FlushPoll BY <1>10, IrqTx DEF FlushPoll, TxRing
<1>11. CASE FlushReturn \/ FlushTestWritten
  BY <1>11, TxFrame DEF FlushReturn, FlushTestWritten
<1>12. CASE EndDrained BY <1>12, TxFrame DEF EndDrained
<1>13. CASE EndDiscard BY <1>13, TxFrame DEF EndDiscard
<1>25. CASE UcsrbLoad BY <1>25, TxFrame DEF UcsrbLoad
<1>26. CASE UcsrbStore
  <2>1. /\ UNCHANGED <<txHead, txTail, txBuf, wire, nWritten>>
        /\ raced' = (raced \/ (udrie' /\ txHead = txTail))
        /\ pc \in Changes /\ pc' = AfterChange[pc]
    BY <1>26 DEF UcsrbStore
  <2>2. pc \notin Special \cup {"idle"} /\ pc' \notin Special
    BY <2>1, ChangeNext DEF Changes, AfterChange
  <2>3. Accepted' = Accepted BY <2>1, <2>2 DEF Accepted
  <2>4. Queued => Queued' BY <2>1, <2>3 DEF Queued
  <2>5. WriteKnows' BY <2>2 DEF WriteKnows
  <2>6. QED BY <2>1, <2>4, <2>5 DEF TxRing
<1>14. CASE ReadTestEmpty BY <1>14, TxFrame DEF ReadTestEmpty, rxSame
<1>15. CASE ReadTake BY <1>15, TxFrame DEF ReadTake, rxSame
<1>16. CASE ReadAdvance BY <1>16, TxFrame DEF ReadAdvance, rxSame
<1>17. CASE Peek BY <1>17, TxFrame DEF Peek, rxSame
<1>18. CASE TxInterrupt BY <1>18, IrqTx DEF TxInterrupt, TxRing
<1>19. CASE RxInterrupt BY <1>19, TxFrame DEF RxInterrupt, RxInterruptIf
<1>20. CASE LoadShift BY <1>20, TxFrame DEF LoadShift
<1>21. CASE ShiftDone BY <1>21, TxFrame DEF ShiftDone
<1>22. CASE Arrive BY <1>22, TxFrame DEF Arrive
<1>23. CASE UNCHANGED vars BY <1>23, TxFrame DEF vars
<1>24. QED
  BY <1>1, <1>2, <1>3, <1>4, <1>5, <1>6, <1>7, <1>8, <1>9, <1>10, <1>11,
     <1>12, <1>13, <1>14, <1>15, <1>16, <1>17, <1>18, <1>19, <1>20, <1>21,
     <1>22, <1>23, <1>25, <1>26 DEF Next, Sketch, MainStep

\* The port starts well typed, with an empty ring and an empty wire.
LEMMA InitTxRing == Init => TypeOK /\ TxRing
<1> SUFFICES ASSUME Init PROVE TypeOK /\ TxRing
  OBVIOUS
<1>1. TypeOK
  BY BufferSizeAssumption, BoundsAssumption
  DEF Init, TypeOK, Slots, Calls, ReceiverDepth
<1>2. Count(txHead, txTail) = 0 BY <1>1, CountEmptyFull DEF Init, TypeOK
<1>3. Queued BY <1>2 DEF Init, Queued, Accepted
<1>4. QED BY <1>1, <1>3 DEF Init, TxRing, WriteKnows

------------------------------------------------------------------------------
\* The interrupt enable and the completion flag

\* Queued bytes have their interrupt, and TXC is set only while the transmitter
\* is idle; both need to know what a call has checked on its way in.
SignalInv ==
  /\ pc \notin Changes \cup {"idle", "discard"} => rxen
  /\ pc \in (EndChanges \ {"endRxen"}) \cup {"discard"} => ~rxen
  /\ pc \in BeginChanges => ~written
  /\ pc = "drain" => written
  /\ rxen /\ written => txHead = txTail \/ udrie \/ pc = "enable"
  /\ txc => (~udr /\ ~shift) \/ pc = "clearTxc"
  /\ ~raced => (udrie => txHead # txTail)
  /\ ~raced => (pc \in EndChanges \cup {"discard"} => txHead = txTail)
  /\ ~raced /\ ~Rebegin =>
       /\ ~rxen \/ pc \in BeginChanges => txHead = txTail
       /\ txHead # txTail => (udrie /\ written) \/ pc = "enable"

\* The handler keeps the interrupt enabled while a byte is left.
LEMMA IrqSignal ==
  ASSUME TypeOK, SignalInv, TxUdrEmptyIrq,
         udrie \/ (pc = "room" /\ txHead # txTail), UNCHANGED <<pc, rxen>>
  PROVE  SignalInv'
<1>1. /\ udrie' <=> udrie /\ txHead # txTail'
      /\ txHead' = txHead /\ written' = written /\ raced' = raced
      /\ pc' = pc /\ rxen' = rxen /\ ~txc'
  BY Zenon DEF TxUdrEmptyIrq, TxIrq
<1>2. "room" \notin Changes /\ "enable" \notin Changes
  BY DEF Changes, AfterChange
<1>3. ~raced => txHead # txTail BY DEF SignalInv
<1>4. (rxen /\ written => txHead = txTail \/ udrie \/ pc = "enable")'
  <2>1. CASE udrie BY <1>1, <2>1
  <2>2. CASE ~udrie
    <3>1. pc # "enable" BY <2>2
    <3>2. ~(rxen /\ written) BY <2>2, <3>1 DEF SignalInv
    <3>3. QED BY <1>1, <3>2
  <2>3. QED BY <2>1, <2>2
<1>5. (~raced => (udrie => txHead # txTail))' BY <1>1
<1>6. (~raced => (pc \in EndChanges \cup {"discard"} => txHead = txTail))'
  BY <1>1, <1>3 DEF SignalInv
<1>7. (~raced /\ ~Rebegin =>
         /\ ~rxen \/ pc \in BeginChanges => txHead = txTail
         /\ txHead # txTail => (udrie /\ written) \/ pc = "enable")'
  <2> SUFFICES ASSUME ~raced, ~Rebegin
               PROVE  rxen /\ pc \notin BeginChanges
                      /\ ((udrie /\ written) \/ pc = "enable")
    BY <1>1
  <2>1. QED BY <1>3 DEF SignalInv
<1>8. /\ pc \notin Changes \cup {"idle", "discard"} => rxen
      /\ pc \in (EndChanges \ {"endRxen"}) \cup {"discard"} => ~rxen
      /\ pc \in BeginChanges => ~written
      /\ pc = "drain" => written
  BY DEF SignalInv
<1>9. QED BY <1>1, <1>4, <1>5, <1>6, <1>7, <1>8 DEF SignalInv

\* Every step preserves SignalInv.
LEMMA SignalStep == TypeOK /\ TxRing /\ SignalInv /\ [Next]_vars => SignalInv'
<1> SUFFICES ASSUME TypeOK, TxRing, SignalInv, [Next]_vars PROVE SignalInv'
  OBVIOUS
<1> USE DEF portVars, txVars, txHwVars, SignalInv
<1> USE DEF Changes, AfterChange, BeginChanges, EndChanges
<1>1. CASE CliSei BY <1>1 DEF CliSei
<1>2. CASE Begin BY <1>2 DEF Begin
<1>3. CASE CallWrite BY <1>3 DEF CallWrite, Call
<1>4. CASE CallFlush BY <1>4 DEF CallFlush, Call
<1>5. CASE CallEnd BY <1>5 DEF CallEnd, Call
<1>6. CASE CallRead BY <1>6 DEF CallRead, Call
<1>7. CASE CallPeek BY <1>7 DEF CallPeek, Call
<1>8. CASE Available BY <1>8 DEF Available
<1>9. CASE WriteStep
  <2>1. CASE WriteTestEmpty BY <2>1 DEF WriteTestEmpty, txSame
  <2>2. CASE WriteTestUdre BY <2>2 DEF WriteTestUdre, txSame
  <2>3. CASE WriteDirect BY <2>3 DEF WriteDirect, txSame
  <2>4. CASE WriteClearTxc BY <2>4 DEF WriteClearTxc, txSame
  <2>5. CASE WriteWait
    <3>1. Inc(txHead) = txTail => txHead # txTail
      <4>1. txHead \in Slots BY DEF TypeOK
      <4>2. Inc(txHead) = IF txHead + 1 = BufferSize THEN 0 ELSE txHead + 1
        BY <4>1, IncValue
      <4>3. QED BY <4>1, <4>2, BufferSizeAssumption DEF Slots
    <3> HIDE DEF SignalInv
    <3>2. QED BY <2>5, <3>1, IrqSignal DEF WriteWait, txSame
  <2>6. CASE WriteRoom BY <2>6 DEF WriteRoom, txSame
  <2>7. CASE WriteStore BY <2>7 DEF WriteStore, txSame
  <2>8. CASE WritePublish
    <3>1. pc' = "enable" /\ pc = "publish" /\ rxen' = rxen
          /\ UNCHANGED <<txTail, written, udrie, raced, udr, shift, txc>>
          /\ rxen
      BY <2>8 DEF WritePublish, txSame
    <3>2. ~raced => txHead' # txTail'
      BY <3>1, <2>8 DEF WritePublish, TxRing, WriteKnows
    <3>3. QED BY <3>1, <3>2
  <2>9. CASE WriteEnable BY <2>9 DEF WriteEnable, txSame
  <2>10. QED BY <1>9, <2>1, <2>2, <2>3, <2>4, <2>5, <2>6, <2>7, <2>8, <2>9
         DEF WriteStep
<1>10. CASE FlushPoll BY <1>10, IrqSignal DEF FlushPoll, txSame
<1>11. CASE FlushReturn \/ FlushTestWritten
  BY <1>11 DEF FlushReturn, FlushTestWritten, txSame
<1>12. CASE EndDrained BY <1>12 DEF EndDrained, txSame
<1>13. CASE EndDiscard BY <1>13 DEF EndDiscard
<1>25. CASE UcsrbLoad BY <1>25 DEF UcsrbLoad
<1>26. CASE UcsrbStore BY <1>26, ChangeNext DEF UcsrbStore
<1>14. CASE ReadTestEmpty BY <1>14 DEF ReadTestEmpty, rxSame
<1>15. CASE ReadTake BY <1>15 DEF ReadTake, rxSame
<1>16. CASE ReadAdvance BY <1>16 DEF ReadAdvance, rxSame
<1>17. CASE Peek BY <1>17 DEF Peek, rxSame
<1>18. CASE TxInterrupt BY <1>18, IrqSignal DEF TxInterrupt, txSame
<1>19. CASE RxInterrupt BY <1>19 DEF RxInterrupt, RxInterruptIf
<1>20. CASE LoadShift BY <1>20 DEF LoadShift, txSame
<1>21. CASE ShiftDone BY <1>21 DEF ShiftDone, txSame
<1>22. CASE Arrive BY <1>22 DEF Arrive
<1>23. CASE UNCHANGED vars BY <1>23 DEF vars
<1>24. QED
  BY <1>1, <1>2, <1>3, <1>4, <1>5, <1>6, <1>7, <1>8, <1>9, <1>10, <1>11,
     <1>12, <1>13, <1>14, <1>15, <1>16, <1>17, <1>18, <1>19, <1>20, <1>21,
     <1>22, <1>23, <1>25, <1>26 DEF Next, Sketch, MainStep

\* The transmit side's inductive invariant.
TxInv == TypeOK /\ TxRing /\ SignalInv

LEMMA TxInvariant == Spec => []TxInv
<1>1. Init => TxInv
  BY InitTxRing, BufferSizeAssumption DEF Init, TxInv, SignalInv
<1>2. TxInv /\ [Next]_vars => TxInv'
  BY TypeStep, TxStep, SignalStep DEF TxInv
<1>3. QED BY <1>1, <1>2, PTL DEF Spec

\* Unless UDRIE was set on an empty ring, the line carries the written bytes in order, none lost or repeated.
THEOREM TxFifoCorrect == Spec => []TxFifo
<1>1. TxInv => TxFifo BY DEF TxInv, TxRing, Queued, TxFifo
<1>2. QED BY <1>1, TxInvariant, PTL

\* A queued byte always has its interrupt enabled or about to be.
THEOREM NoStallCorrect == Spec => []NoStall
<1>1. TxInv => NoStall BY DEF TxInv, SignalInv, NoStall
<1>2. QED BY <1>1, TxInvariant, PTL

\* flush()'s loop ends only when everything written has left the UART.
THEOREM FlushCorrect == Spec => []FlushComplete
<1>1. TxInv => FlushComplete
  BY DEF TxInv, SignalInv, FlushComplete, Changes, AfterChange, EndChanges,
     BeginChanges
<1>2. QED BY <1>1, TxInvariant, PTL
------------------------------------------------------------------------------
\* The receive ring implements LossyFifo

rxq == Contents(rxBuf, rxHead, rxTail)

\* What read() has established before each of its steps, and that the bytes
\* waiting in the receiver are newer than any it has delivered.
RxInv ==
  /\ pc \in {"take", "advance"} => rxHead # rxTail
  /\ pc = "advance" => c = rxBuf[rxTail]
  /\ promised <= Count(rxHead, rxTail)
  /\ lastIn <= nArrived
  /\ \A i \in 1 .. Len(rxFifo) :
       /\ lastIn < rxFifo[i].byte /\ rxFifo[i].byte <= nArrived
       /\ \A j \in 1 .. i - 1 : rxFifo[j].byte < rxFifo[i].byte

RxAbs == <<rxq, lastIn, got>>

\* A step that leaves the receive side alone and does not enter read()'s body
\* preserves RxInv and is a stutter of the queue.
LEMMA RxFrame ==
  ASSUME RxInv, UNCHANGED <<rxVars, rxHwVars>>,
         pc' = pc \/ pc' \notin {"take", "advance"}
  PROVE  RxInv' /\ UNCHANGED RxAbs
<1>1. UNCHANGED <<rxHead, rxTail, rxBuf, c, got, lastIn, promised, rxFifo,
                  nArrived>>
  BY DEF rxVars, rxHwVars
<1>2. QED BY <1>1 DEF RxInv, RxAbs, rxq

\* The handler takes the oldest waiting byte and offers it to the queue, or
\* discards it for its parity.
LEMMA RxIrqStep ==
  ASSUME TypeOK, RxInv, RxInterrupt
  PROVE  RxInv' /\ (RxQueue!Offer \/ UNCHANGED RxAbs)
<1> DEFINE S == [byte : Nat, upe : BOOLEAN]
           b == Head(rxFifo).byte
<1>1. /\ rxFifo \in Seq(S) /\ rxFifo # <<>> /\ rxFifo' = Tail(rxFifo)
      /\ pc' = pc /\ rxTail' = rxTail
      /\ UNCHANGED <<c, got, promised, nArrived>>
  BY DEF RxInterrupt, RxInterruptIf, TypeOK
<1>2. rxHead \in Slots /\ rxTail \in Slots /\ rxBuf \in [Slots -> Nat]
      /\ lastIn \in Nat /\ nArrived \in Nat /\ promised \in Nat
  BY DEF TypeOK
<1> HIDE DEF S
<1>3. /\ Len(rxFifo') = Len(rxFifo) - 1 /\ Len(rxFifo) \in Nat \ {0}
      /\ \A i \in 1 .. Len(rxFifo') : rxFifo'[i] = rxFifo[i + 1]
      /\ Head(rxFifo) \in S /\ Head(rxFifo) = rxFifo[1]
      /\ \A i \in 1 .. Len(rxFifo) : rxFifo[i] \in S
  BY <1>1, HeadTailProperties, EmptySeq, ElementOfSeq
<1>4. b \in Nat /\ \A i \in 1 .. Len(rxFifo) : rxFifo[i].byte \in Nat
  BY <1>3 DEF S
<1> HIDE DEF b
<1>5. lastIn < b /\ b <= nArrived BY <1>3 DEF RxInv, b
<1>6. \A i \in 1 .. Len(rxFifo') :
        /\ b < rxFifo'[i].byte /\ lastIn < rxFifo'[i].byte
        /\ rxFifo'[i].byte <= nArrived
        /\ \A j \in 1 .. i - 1 : rxFifo'[j].byte < rxFifo'[i].byte
  <2> SUFFICES ASSUME NEW i \in 1 .. Len(rxFifo')
               PROVE  /\ b < rxFifo'[i].byte /\ lastIn < rxFifo'[i].byte
                      /\ rxFifo'[i].byte <= nArrived
                      /\ \A j \in 1 .. i - 1 : rxFifo'[j].byte < rxFifo'[i].byte
    OBVIOUS
  <2>1. i + 1 \in 1 .. Len(rxFifo) /\ rxFifo'[i] = rxFifo[i + 1]
    BY <1>3
  <2>2. /\ lastIn < rxFifo[i + 1].byte /\ rxFifo[i + 1].byte <= nArrived
        /\ \A j \in 1 .. (i + 1) - 1 : rxFifo[j].byte < rxFifo[i + 1].byte
    BY <2>1 DEF RxInv
  <2>3. 1 \in 1 .. (i + 1) - 1 BY <1>3
  <2>4. b < rxFifo[i + 1].byte BY <1>3, <2>2, <2>3 DEF b
  <2>5. ASSUME NEW j \in 1 .. i - 1
        PROVE  rxFifo'[j].byte < rxFifo'[i].byte
    <3>1. j + 1 \in 1 .. (i + 1) - 1 /\ j \in 1 .. Len(rxFifo') BY <1>3
    <3>2. rxFifo'[j] = rxFifo[j + 1] BY <1>3, <3>1
    <3>3. QED BY <2>1, <2>2, <3>1, <3>2
  <2>6. QED BY <2>1, <2>2, <2>4, <2>5
<1>7. CASE Head(rxFifo).upe
  <2>1. UNCHANGED <<rxHead, rxBuf, lastIn>> BY <1>7 DEF RxInterrupt, RxInterruptIf
  <2>2. RxInv' BY <1>1, <1>6, <2>1 DEF RxInv
  <2>3. QED BY <1>1, <2>1, <2>2 DEF RxAbs, rxq
<1>8. CASE ~Head(rxFifo).upe /\ Inc(rxHead) # rxTail
  <2>1. /\ lastIn' = b /\ rxBuf' = [rxBuf EXCEPT ![rxHead] = b]
        /\ rxHead' = Inc(rxHead)
    BY <1>8 DEF RxInterrupt, RxInterruptIf, b
  <2>2. Count(rxHead', rxTail') = Count(rxHead, rxTail) + 1
        /\ Count(rxHead, rxTail) \in 0 .. BufferSize - 2
        /\ Count(rxHead, rxTail) \in Nat
    BY <1>1, <1>2, <1>8, <2>1, CountPush, CountValue, CountEmptyFull,
       BufferSizeAssumption
  <2>3. rxq' = Append(rxq, b) /\ Len(rxq) < BufferSize - 1
    <3>1. rxq' = Append(rxq, b)
      BY <1>1, <1>2, <1>4, <1>8, <2>1, ContentsPush DEF rxq
    <3>2. Len(rxq) = Count(rxHead, rxTail) BY <1>2, ContentsType DEF rxq
    <3>3. QED BY <3>1, <3>2, <2>2, BufferSizeAssumption
  <2>4. RxInv'
    <3>1. pc \in {"take", "advance"} => rxHead' # rxTail'
      BY <1>1, <1>8, <2>1
    <3>2. pc = "advance" => c' = rxBuf'[rxTail']
      BY <1>1, <1>2, <2>1 DEF RxInv
    <3>3. promised' <= Count(rxHead', rxTail')
      BY <1>1, <1>2, <2>2 DEF RxInv
    <3>4. QED BY <1>1, <1>5, <1>6, <2>1, <3>1, <3>2, <3>3 DEF RxInv
  <2>5. RxQueue!Offer
    BY <1>1, <1>5, <2>1, <2>3 DEF RxQueue!Offer, rxq
  <2>6. QED BY <2>4, <2>5
<1>9. CASE ~Head(rxFifo).upe /\ Inc(rxHead) = rxTail
  <2>1. lastIn' = b /\ rxBuf' = rxBuf /\ rxHead' = rxHead
    BY <1>9 DEF RxInterrupt, RxInterruptIf, b
  <2>2. rxq' = rxq /\ Len(rxq) = BufferSize - 1
    BY <1>1, <1>2, <1>9, <2>1, ContentsType, CountEmptyFull DEF rxq
  <2>3. RxInv' BY <1>1, <1>5, <1>6, <2>1 DEF RxInv
  <2>4. RxQueue!Offer
    <3>1. ~(Len(rxq) < BufferSize - 1) BY <2>2, BufferSizeAssumption
    <3>2. QED BY <1>1, <1>5, <2>1, <2>2, <3>1 DEF RxQueue!Offer, rxq
  <2>5. QED BY <2>3, <2>4
<1>10. QED BY <1>7, <1>8, <1>9
\* An arriving byte is newer than every waiting one.
LEMMA ArriveStep ==
  ASSUME TypeOK, RxInv, Arrive
  PROVE  RxInv' /\ UNCHANGED RxAbs
<1> DEFINE S == [byte : Nat, upe : BOOLEAN]
<1>1. /\ UNCHANGED <<pc, rxHead, rxTail, rxBuf, c, got, lastIn, promised>>
      /\ nArrived' = nArrived + 1 /\ nArrived \in Nat /\ lastIn \in Nat
      /\ rxFifo \in Seq(S)
  BY DEF Arrive, rxVars, TypeOK
<1>2. PICK upe \in ParityErrors :
        rxFifo' = IF Len(rxFifo) = ReceiverDepth THEN rxFifo
                  ELSE Append(rxFifo, [byte |-> nArrived', upe |-> upe])
  BY DEF Arrive
<1> DEFINE e == [byte |-> nArrived', upe |-> upe]
<1>3. e \in S /\ e.byte = nArrived + 1 BY <1>1, BoundsAssumption
<1>4. \A i \in 1 .. Len(rxFifo) : rxFifo[i] \in S BY <1>1, ElementOfSeq
<1>5. \A i \in 1 .. Len(rxFifo) : rxFifo[i].byte \in Nat BY <1>4
<1> HIDE DEF S, e
<1>6. CASE rxFifo' = rxFifo BY <1>1, <1>5, <1>6 DEF RxInv, RxAbs, rxq
<1>7. CASE rxFifo' = Append(rxFifo, e)
  <2>1. /\ Len(rxFifo) \in Nat /\ Len(rxFifo') = Len(rxFifo) + 1
        /\ rxFifo'[Len(rxFifo) + 1] = e
        /\ \A i \in 1 .. Len(rxFifo) : rxFifo'[i] = rxFifo[i]
    BY <1>1, <1>3, <1>7, LenProperties
  <2>2. ASSUME NEW i \in 1 .. Len(rxFifo')
        PROVE  /\ lastIn' < rxFifo'[i].byte /\ rxFifo'[i].byte <= nArrived'
               /\ \A j \in 1 .. i - 1 : rxFifo'[j].byte < rxFifo'[i].byte
    <3>1. CASE i = Len(rxFifo) + 1
      <4>1. rxFifo'[i].byte = nArrived + 1 BY <3>1, <2>1, <1>3
      <4>2. ASSUME NEW j \in 1 .. i - 1
            PROVE  rxFifo'[j].byte < rxFifo'[i].byte
        <5>1. j \in 1 .. Len(rxFifo) BY <3>1, <2>1
        <5>2. rxFifo'[j] = rxFifo[j] BY <5>1, <2>1
        <5>3. rxFifo[j].byte <= nArrived BY <5>1 DEF RxInv
        <5>4. QED BY <4>1, <5>1, <5>2, <5>3, <1>1, <1>5
      <4>3. QED BY <4>1, <4>2, <1>1 DEF RxInv
    <3>2. CASE i # Len(rxFifo) + 1
      <4>1. i \in 1 .. Len(rxFifo) BY <3>2, <2>1
      <4>2. rxFifo'[i] = rxFifo[i]
            /\ \A j \in 1 .. i - 1 : rxFifo'[j] = rxFifo[j]
        BY <4>1, <2>1
      <4>3. /\ lastIn < rxFifo[i].byte /\ rxFifo[i].byte <= nArrived
            /\ \A j \in 1 .. i - 1 : rxFifo[j].byte < rxFifo[i].byte
        BY <4>1 DEF RxInv
      <4>4. QED BY <4>1, <4>2, <4>3, <1>1, <1>5
    <3>3. QED BY <3>1, <3>2
  <2>3. RxInv' BY <1>1, <2>2 DEF RxInv
  <2>4. QED BY <1>1, <2>3 DEF RxAbs, rxq
<1>8. QED BY <1>2, <1>6, <1>7 DEF e

\* read() moves the tail over the byte it has loaded.
LEMMA AdvanceStep ==
  ASSUME TypeOK, RxInv, ReadAdvance
  PROVE  RxInv' /\ RxQueue!Read
<1>1. /\ pc = "advance" /\ pc' = "idle" /\ rxTail' = Inc(rxTail) /\ got' = c
      /\ UNCHANGED <<rxHead, rxBuf, c, lastIn, rxFifo, nArrived>>
      /\ promised' = IF promised > 0 THEN promised - 1 ELSE 0
  BY DEF ReadAdvance, rxSame, rxHwVars
<1>2. /\ rxHead \in Slots /\ rxTail \in Slots /\ rxBuf \in [Slots -> Nat]
      /\ promised \in Nat
  BY DEF TypeOK
<1>3. rxHead # rxTail /\ c = rxBuf[rxTail] /\ promised <= Count(rxHead, rxTail)
  BY <1>1 DEF RxInv
<1>4. /\ rxq # <<>> /\ Head(rxq) = rxBuf[rxTail] /\ rxq' = Tail(rxq)
  BY <1>1, <1>2, <1>3, ContentsPop DEF rxq
<1>5. /\ Count(rxHead', rxTail') = Count(rxHead, rxTail) - 1
      /\ Count(rxHead, rxTail) \in 1 .. BufferSize - 1
  BY <1>1, <1>2, <1>3, CountPop, CountValue, CountEmptyFull,
     BufferSizeAssumption
<1>6. promised' <= Count(rxHead', rxTail')
  BY <1>1, <1>2, <1>3, <1>5, BufferSizeAssumption
<1>7. RxInv' BY <1>1, <1>6 DEF RxInv
<1>8. RxQueue!Read BY <1>1, <1>3, <1>4 DEF RxQueue!Read, rxq
<1>9. QED BY <1>7, <1>8

\* end() empties the ring.
LEMMA EndStep ==
  ASSUME TypeOK, RxInv, EndDiscard
  PROVE  RxInv' /\ RxQueue!Clear
<1>1. /\ pc' = "idle" /\ rxHead' = rxTail /\ rxTail' = rxTail
      /\ promised' = 0
      /\ UNCHANGED <<rxFifo, rxBuf, c, got, lastIn, nArrived>>
  BY DEF EndDiscard, rxHwVars
<1>2. rxTail \in Slots /\ rxBuf \in [Slots -> Nat] BY DEF TypeOK
<1>3. Count(rxTail, rxTail) = 0 BY <1>2, CountEmptyFull
<1>4. rxq' = <<>>
  <2>1. /\ Contents(rxBuf, rxTail, rxTail) \in Seq(Nat)
        /\ Len(Contents(rxBuf, rxTail, rxTail)) = 0
    BY <1>2, <1>3, ContentsType
  <2>2. Contents(rxBuf, rxTail, rxTail) = <<>> BY <2>1, EmptySeq
  <2>3. QED BY <1>1, <2>2 DEF rxq
<1>5. RxInv' BY <1>1, <1>3 DEF RxInv
<1>6. RxQueue!Clear BY <1>1, <1>4 DEF RxQueue!Clear, rxq
<1>7. QED BY <1>5, <1>6
\* Every step preserves RxInv and is a step or a stutter of the queue.
LEMMA RxStep ==
  TypeOK /\ RxInv /\ [Next]_vars => RxInv' /\ [RxQueue!Next]_RxAbs
<1> SUFFICES ASSUME TypeOK, RxInv, [Next]_vars
             PROVE  RxInv' /\ (RxQueue!Next \/ UNCHANGED RxAbs)
  OBVIOUS
<1>1. CASE CliSei BY <1>1, RxFrame DEF CliSei
<1>2. CASE Begin BY <1>2, RxFrame DEF Begin
<1>3. CASE CallWrite BY <1>3, RxFrame DEF CallWrite, Call
<1>4. CASE CallFlush BY <1>4, RxFrame DEF CallFlush, Call
<1>5. CASE CallEnd BY <1>5, RxFrame DEF CallEnd, Call
<1>6. CASE CallRead BY <1>6, RxFrame DEF CallRead, Call
<1>7. CASE CallPeek BY <1>7, RxFrame DEF CallPeek, Call
<1>8. CASE Available
  <2>1. Count(rxHead, rxTail) \in Nat
    BY CountValue, BufferSizeAssumption DEF TypeOK
  <2>2. QED BY <1>8, <2>1 DEF Available, RxInv, RxAbs, rxq, rxHwVars
<1>9. CASE WriteStep
  <2>1. pc' \notin {"take", "advance"} /\ UNCHANGED <<rxVars, rxHwVars>>
    BY <1>9 DEF WriteStep, WriteTestEmpty, WriteTestUdre, WriteDirect,
       WriteClearTxc, WriteWait, WriteRoom, WriteStore, WritePublish,
       WriteEnable, txSame
  <2>2. QED BY <2>1, RxFrame
<1>10. CASE FlushPoll BY <1>10, RxFrame DEF FlushPoll, txSame
<1>11. CASE FlushReturn \/ FlushTestWritten
  BY <1>11, RxFrame DEF FlushReturn, FlushTestWritten, txSame
<1>12. CASE EndDrained BY <1>12, RxFrame DEF EndDrained, txSame
<1>13. CASE EndDiscard BY <1>13, EndStep DEF RxQueue!Next
<1>25. CASE UcsrbLoad BY <1>25, RxFrame DEF UcsrbLoad, Changes, AfterChange
<1>26. CASE UcsrbStore
  <2>1. /\ pc' \in Changes \cup {"idle", "discard"}
        /\ UNCHANGED <<rxVars, nArrived>>
        /\ rxFifo' = rxFifo \/ rxFifo' = <<>>
    BY <1>26, ChangeNext DEF UcsrbStore
  <2>2. pc' \notin {"take", "advance"} BY <2>1 DEF Changes, AfterChange
  <2>3. RxInv' BY <2>1, <2>2 DEF RxInv, rxVars
  <2>4. UNCHANGED RxAbs BY <2>1 DEF RxAbs, rxq, rxVars
  <2>5. QED BY <2>3, <2>4
<1>14. CASE ReadTestEmpty
  <2>1. /\ UNCHANGED <<rxHead, rxTail, rxBuf, c, lastIn, promised, rxFifo,
                       nArrived>>
        /\ pc' \in {"idle", "take"} /\ (pc' = "take" => rxHead # rxTail)
    BY <1>14 DEF ReadTestEmpty, rxSame, rxHwVars
  <2>2. RxInv' BY <2>1 DEF RxInv
  <2>3. CASE rxHead = rxTail
    <3>1. Count(rxHead, rxTail) = 0 BY <2>3, CountEmptyFull DEF TypeOK
    <3>2. rxq \in Seq(Nat) /\ Len(rxq) = 0
      BY <3>1, ContentsType DEF rxq, TypeOK
    <3>3. rxq = <<>> BY <3>2, EmptySeq
    <3>4. got' = 0 /\ rxq' = rxq BY <1>14, <2>1, <2>3 DEF ReadTestEmpty, rxq
    <3>5. RxQueue!Read BY <2>1, <3>3, <3>4 DEF RxQueue!Read, rxq
    <3>6. QED BY <2>2, <3>5 DEF RxQueue!Next
  <2>4. CASE rxHead # rxTail
    <3>1. UNCHANGED RxAbs
      BY <1>14, <2>1, <2>4 DEF ReadTestEmpty, RxAbs, rxq
    <3>2. QED BY <2>2, <3>1
  <2>5. QED BY <2>3, <2>4
<1>15. CASE ReadTake
  BY <1>15 DEF ReadTake, rxSame, rxHwVars, RxInv, RxAbs, rxq
<1>16. CASE ReadAdvance BY <1>16, AdvanceStep DEF RxQueue!Next
<1>17. CASE Peek
  <2>1. /\ UNCHANGED <<rxHead, rxTail, rxBuf, c, lastIn, promised, rxFifo,
                       nArrived>>
        /\ pc' = "idle"
        /\ got' = IF rxHead = rxTail THEN 0 ELSE rxBuf[rxTail]
    BY <1>17 DEF Peek, rxSame, rxHwVars
  <2>2. RxInv' BY <2>1 DEF RxInv
  <2>3. rxq' = rxq /\ got' = IF rxq = <<>> THEN 0 ELSE Head(rxq)
    <3>1. CASE rxHead = rxTail
      <4>1. Count(rxHead, rxTail) = 0 BY <3>1, CountEmptyFull DEF TypeOK
      <4>2. rxq \in Seq(Nat) /\ Len(rxq) = 0
        BY <4>1, ContentsType DEF rxq, TypeOK
      <4>3. rxq = <<>> BY <4>2, EmptySeq
      <4>4. QED BY <2>1, <3>1, <4>3 DEF rxq
    <3>2. CASE rxHead # rxTail
      <4>1. rxq # <<>> /\ Head(rxq) = rxBuf[rxTail]
        BY <3>2, ContentsPop DEF rxq, TypeOK
      <4>2. QED BY <2>1, <3>2, <4>1 DEF rxq
    <3>3. QED BY <3>1, <3>2
  <2>4. RxQueue!Peek BY <2>1, <2>3 DEF RxQueue!Peek, rxq
  <2>5. QED BY <2>2, <2>4 DEF RxQueue!Next
<1>18. CASE TxInterrupt BY <1>18, RxFrame DEF TxInterrupt, txSame
<1>19. CASE RxInterrupt BY <1>19, RxIrqStep DEF RxQueue!Next
<1>20. CASE LoadShift BY <1>20, RxFrame DEF LoadShift, txSame
<1>21. CASE ShiftDone BY <1>21, RxFrame DEF ShiftDone, txSame
<1>22. CASE Arrive BY <1>22, ArriveStep
<1>23. CASE UNCHANGED vars BY <1>23, RxFrame DEF vars
<1>24. QED
  BY <1>1, <1>2, <1>3, <1>4, <1>5, <1>6, <1>7, <1>8, <1>9, <1>10, <1>11,
     <1>12, <1>13, <1>14, <1>15, <1>16, <1>17, <1>18, <1>19, <1>20, <1>21,
     <1>22, <1>23, <1>25, <1>26 DEF Next, Sketch, MainStep

\* The port starts with an empty receive ring.
LEMMA InitRx == Init => RxInv /\ RxQueue!Init
<1> SUFFICES ASSUME Init PROVE RxInv /\ RxQueue!Init
  OBVIOUS
<1>1. /\ rxHead \in Slots /\ rxTail \in Slots /\ rxBuf \in [Slots -> Nat]
      /\ rxHead = rxTail
  BY BufferSizeAssumption DEF Init, Slots
<1>2. Count(rxHead, rxTail) = 0 BY <1>1, CountEmptyFull
<1>3. rxq \in Seq(Nat) /\ Len(rxq) = 0 BY <1>1, <1>2, ContentsType DEF rxq
<1>4. rxq = <<>> BY <1>3, EmptySeq
<1>5. RxInv BY <1>2 DEF Init, RxInv
<1>6. QED BY <1>4, <1>5 DEF Init, RxQueue!Init, rxq

\* After available() returns n, the next n reads return a byte.
THEOREM AvailableCorrect == Spec => []AvailablePromise
<1>1. TypeOK /\ RxInv /\ [Next]_vars => (TypeOK /\ RxInv)'
  BY TypeStep, RxStep
<1>2. RxInv => AvailablePromise BY DEF RxInv, AvailablePromise
<1>3. QED BY <1>1, <1>2, InitTxRing, InitRx, PTL DEF Spec

\* The receive ring implements the bounded queue that drops only when full.
THEOREM RxRefinement == Spec => RxIsLossyFifo
<1>1. TypeOK /\ RxInv /\ [Next]_vars => (TypeOK /\ RxInv)'
  BY TypeStep, RxStep
<1>2. RxAbs = <<Contents(rxBuf, rxHead, rxTail), lastIn, got>>
  BY DEF RxAbs, rxq
<1>3. TypeOK /\ RxInv /\ [Next]_vars
        => [RxQueue!Next]_<<Contents(rxBuf, rxHead, rxTail), lastIn, got>>
  BY <1>2, RxStep DEF RxAbs, rxq
<1>4. QED
  BY <1>1, <1>3, InitTxRing, InitRx, PTL DEF Spec, RxIsLossyFifo, RxQueue!Spec
==============================================================================
