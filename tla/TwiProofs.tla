------------------------------- MODULE TwiProofs -------------------------------
(***************************************************************************)
(* Proofs about the two-wire driver, for every buffer length: first as a   *)
(* slave, whatever the main thread does meanwhile, then as a master.       *)
(***************************************************************************)
EXTENDS Twi, TLAPS

Pending(codes) == twint /\ status \in codes

(***************************************************************************)
(* The unit.  A status that waits for the handler belongs to the mode the  *)
(* unit is in, and the interrupt is off only between two calls joined by a *)
(* repeated start, until the second one has written its address.           *)
(***************************************************************************)
Joined == twsta /\ ~twint /\ mode \in {"mt", "mr"}

UnitSound ==
  /\ twint \in BOOLEAN /\ twie \in BOOLEAN
  /\ twie <=> ~inRepStart /\ pc # "address"
  /\ ~twie => Joined \/ Pending({"REP_START", "BUS_ERROR"})
  /\ ~(inRepStart /\ pc = "address")
  /\ Pending({"MT_SLA_ACK", "MT_DATA_ACK"}) => mode = "mt"
  /\ Pending({"MR_SLA_ACK", "MR_DATA_ACK", "MR_DATA_NACK"}) => mode = "mr"
  /\ Pending({"SR_SLA_ACK", "SR_DATA_ACK"}) => mode = "sr"
  /\ Pending({"ST_SLA_ACK", "ST_DATA_ACK"}) => mode = "st"
  /\ mode = "sr" /\ twint => status \in {"SR_SLA_ACK", "SR_DATA_ACK"}
  /\ mode = "st" /\ twint => status \in {"ST_SLA_ACK", "ST_DATA_ACK"}

LEMMA InitUnit == Init => UnitSound
BY DEF Init, UnitSound, Pending

LEMMA NextUnit == UnitSound /\ [Next]_vars => UnitSound'
<1> SUFFICES ASSUME UnitSound, [Next]_vars PROVE UnitSound'
  OBVIOUS
<1> USE DEF UnitSound, Pending, Joined
<1>1. CASE MainStep
  <2>1. CASE Start
    <3>1. CASE inRepStart
      BY <2>1, <3>1 DEF Start, Main, twcr
    <3>2. CASE ~inRepStart
      BY <2>1, <3>2 DEF Start, Main, Write
    <3> QED BY <3>1, <3>2
  <2>2. CASE SendOn
    BY <2>2 DEF SendOn, Main, Write, driver
  <2>3. CASE CallReadFrom \/ CallWriteTo \/ WaitReady \/ Claim \/ Return
    <3>1. UNCHANGED <<unit, inRepStart>> /\ pc # "address" /\ pc' # "address"
      BY <2>3 DEF CallReadFrom, CallWriteTo, Call, WaitReady, Claim, Return, Main, driver
    <3> QED BY <3>1 DEF unit, twcr
  <2> QED BY <1>1, <2>1, <2>2, <2>3 DEF MainStep
<1>2. CASE Isr
  <2> USE DEF Interrupt, Reply, Write
  <2>1. CASE StartSent
    BY <2>1 DEF StartSent, driver
  <2>2. CASE MasterTransmit
    BY <2>2 DEF call, MasterTransmit, EndTransfer, Stop
  <2>3. CASE MasterReceive
    BY <2>3 DEF call, MasterReceive, driver
  <2>4. CASE MasterReceiveLast
    BY <2>4 DEF call, MasterReceiveLast, EndTransfer, Stop
  <2>5. CASE TransferFails
    BY <2>5 DEF call, TransferFails, ReleaseBus, Stop
  <2>6. CASE SlaveReceiveBegins \/ SlaveReceiveByte \/ SlaveReceiveRefused
    <3>1. /\ twie /\ twint' = FALSE /\ twie' = TRUE /\ mode' = mode
          /\ UNCHANGED <<pc, inRepStart>>
      BY <2>6 DEF call, SlaveReceiveBegins, SlaveReceiveByte, SlaveReceiveRefused, driver
    <3> QED BY <3>1
  <2>7. CASE SlaveReceiveStop
    BY <2>7 DEF call, SlaveReceiveStop, Stop
  <2>8. CASE SlaveTransmitBegins \/ SlaveTransmitByte \/ SlaveTransmitEnds
    <3>1. /\ twie /\ twint' = FALSE /\ twie' = TRUE /\ mode' = mode
          /\ UNCHANGED <<pc, inRepStart>>
      BY <2>8 DEF call, SlaveTransmitBegins, SlaveTransmitByte, SlaveTransmitEnds, driver
    <3> QED BY <3>1
  <2> QED BY <1>2, <2>1, <2>2, <2>3, <2>4, <2>5, <2>6, <2>7, <2>8 DEF Isr
<1>3. CASE Bus
  <2> USE DEF Unit, Raise, twcr
  <2>1. CASE SendStart \/ SendAddress \/ SendByte \/ ReceiveByte
    <3>1. UNCHANGED <<pc, inRepStart, twie>>
      BY <2>1 DEF SendStart, SendAddress, SendByte, ReceiveByte, driver, call
    <3>2. /\ ~twint /\ twint' = TRUE
          /\ \/ mode \in {"mt", "mr"} /\ twsta /\ mode' = "start" /\ status' = "REP_START"
             \/ mode = "idle" /\ mode' = "start" /\ status' = "START"
             \/ ~(mode \in {"mt", "mr"} /\ twsta) /\ mode' = "mt"
                /\ status' \in {"MT_SLA_ACK", "MT_SLA_NACK", "MT_DATA_ACK", "MT_DATA_NACK"}
             \/ ~(mode \in {"mt", "mr"} /\ twsta) /\ mode' = "mr"
                /\ status' \in {"MR_SLA_ACK", "MR_SLA_NACK", "MR_DATA_ACK", "MR_DATA_NACK"}
      BY <2>1 DEF SendStart, SendAddress, SendByte, ReceiveByte
    <3> QED BY <3>1, <3>2
  <2>2. CASE Addressed \/ LoseArbitration
    <3>1. UNCHANGED <<pc, inRepStart, twie>>
      BY <2>2 DEF call, Addressed, LoseArbitration, Address, driver
    <3>2. /\ ~twint /\ twint' = TRUE /\ ~(mode \in {"mt", "mr"} /\ twsta)
          /\ \/ mode' = "sr" /\ status' = "SR_SLA_ACK"
             \/ mode' = "st" /\ status' = "ST_SLA_ACK"
             \/ mode' = "idle" /\ status' = "ARB_LOST"
      BY <2>2 DEF Addressed, LoseArbitration, Address
    <3> QED BY <3>1, <3>2
  <2>3. CASE ForeignWrites \/ ForeignReads
    <3>1. UNCHANGED <<pc, inRepStart, twie>>
      BY <2>3 DEF call, ForeignWrites, ForeignReads, driver
    <3>2. /\ ~twint /\ twint' = TRUE /\ mode \in {"sr", "st"}
          /\ \/ mode' = "sr" /\ status' = "SR_DATA_ACK"
             \/ mode' = "st" /\ status' = "ST_DATA_ACK"
             \/ /\ mode' = "idle"
                /\ status' \in {"SR_DATA_NACK", "SR_STOP", "ST_LAST_DATA", "ST_DATA_NACK"}
      BY <2>3 DEF ForeignWrites, ForeignReads
    <3> QED BY <3>1, <3>2
  <2>4. CASE BusError
    BY <2>4 DEF call, BusError, driver
  <2> QED BY <1>3, <2>1, <2>2, <2>3, <2>4 DEF Bus
<1>4. CASE UNCHANGED vars
  BY <1>4 DEF vars, driver, call, unit, twcr
<1> QED BY <1>1, <1>2, <1>3, <1>4 DEF Next

(***************************************************************************)
(* Slave receiver.                                                         *)
(***************************************************************************)
\* The receive buffer holds the first bytes of the k that were acknowledged.
RxHolds(k) ==
  /\ rxIndex = SmallerOf(k, BufferLength)
  /\ \A i \in Index : i < rxIndex => rxBuffer[i] = i + 1

\* How far the handler is behind the bus: a byte that waits for it is in TWDR.
ReceiveSound ==
  /\ rxBuffer \in [Index -> Nat] /\ accepted \in Nat
  /\ Pending({"SR_SLA_ACK"}) => accepted = 0
  /\ mode = "sr" /\ ~twint => RxHolds(accepted)
  /\ Pending({"SR_DATA_ACK"}) =>
       accepted > 0 /\ twdr = accepted /\ RxHolds(accepted - 1)
  /\ Pending({"SR_STOP"}) => RxHolds(accepted)

LEMMA InitReceive == Init => ReceiveSound
<1> SUFFICES ASSUME Init PROVE ReceiveSound
  OBVIOUS
<1>1. rxBuffer \in [Index -> Nat]
  BY DEF Init
<1>2. accepted = 0 /\ mode = "idle" /\ twint = FALSE
  BY DEF Init
<1> QED BY <1>1, <1>2 DEF ReceiveSound, Pending

\* What a step that is not about the slave receiver must leave alone.
LEMMA ReceiveFrame ==
  ASSUME ReceiveSound, UNCHANGED <<rxBuffer, rxIndex, accepted>>,
         mode' # "sr", twint' => status' \notin {"SR_SLA_ACK", "SR_DATA_ACK", "SR_STOP"}
  PROVE  ReceiveSound'
BY DEF ReceiveSound, Pending

LEMMA ReceiveStands ==
  ASSUME ReceiveSound,
         UNCHANGED <<rxBuffer, rxIndex, accepted, mode, twint, status, twdr>>
  PROVE  ReceiveSound'
BY DEF ReceiveSound, Pending, RxHolds

\* The call writes TWCR, which is all that it does to the unit.
LEMMA ReceiveGoesOn ==
  ASSUME UnitSound, ReceiveSound, twint => ~twie, twint' = FALSE,
         UNCHANGED <<rxBuffer, rxIndex, accepted, mode>>
  PROVE  ReceiveSound'
<1>1. CASE mode = "sr"
  <2>1. ~twint
    BY <1>1 DEF UnitSound, Pending, Joined
  <2>2. RxHolds(accepted)
    BY <1>1, <2>1 DEF ReceiveSound
  <2> QED BY <2>2 DEF ReceiveSound, Pending, RxHolds
<1>2. CASE mode # "sr"
  BY <1>2, ReceiveFrame
<1> QED BY <1>1, <1>2

LEMMA NextReceive == UnitSound /\ ReceiveSound /\ [Next]_vars => ReceiveSound'
<1> SUFFICES ASSUME UnitSound, ReceiveSound, [Next]_vars PROVE ReceiveSound'
  OBVIOUS
<1>1. CASE MainStep
  <2>1. CASE Start /\ inRepStart
    <3>1. UNCHANGED <<slave, mode, status, accepted, twint>>
      BY <2>1 DEF Start
    <3>2. mode # "sr" /\ ~Pending({"SR_SLA_ACK", "SR_DATA_ACK", "SR_STOP"})
      BY <2>1 DEF UnitSound, Pending, Joined
    <3> QED BY <3>1, <3>2, ReceiveFrame DEF slave, Pending
  <2>2. CASE Start /\ ~inRepStart
    <3>1. UNCHANGED <<slave, mode, status, accepted>> /\ twint' = FALSE
      BY <2>2 DEF Start, Write
    <3> QED BY <2>2, <3>1, ReceiveGoesOn DEF Start, Main, slave
  <2>3. CASE SendOn
    <3>1. UNCHANGED <<slave, mode, status, other>> /\ twint' = FALSE
      BY <2>3 DEF SendOn, Write
    <3> QED BY <2>3, <3>1, ReceiveGoesOn DEF SendOn, Main, slave, other
  <2>4. CASE CallReadFrom \/ CallWriteTo \/ WaitReady \/ Claim \/ Return
    <3>1. UNCHANGED <<slave, unit, other>>
      BY <2>4 DEF CallReadFrom, CallWriteTo, Call, WaitReady, Claim, Return
    <3> QED BY <3>1, ReceiveStands DEF slave, unit, other
  <2> QED BY <1>1, <2>1, <2>2, <2>3, <2>4 DEF MainStep
<1>2. CASE Isr
  <2>1. CASE SlaveReceiveBegins
    <3>1. accepted = 0
      BY <2>1 DEF SlaveReceiveBegins, Interrupt, ReceiveSound, Pending
    <3>2. /\ rxIndex' = 0 /\ twint' = FALSE /\ UNCHANGED <<rxBuffer, accepted>>
      BY <2>1 DEF SlaveReceiveBegins, Reply, Write, other
    <3> QED BY <3>1, <3>2, TwiAssumption
        DEF ReceiveSound, Pending, RxHolds, SmallerOf, Index
  <2>2. CASE SlaveReceiveByte
    <3>1. /\ accepted \in Nat /\ accepted > 0 /\ twdr = accepted
          /\ RxHolds(accepted - 1) /\ rxBuffer \in [Index -> Nat]
      BY <2>2 DEF SlaveReceiveByte, Interrupt, ReceiveSound, Pending
    <3>2. twint' = FALSE /\ UNCHANGED accepted
      BY <2>2 DEF SlaveReceiveByte, Reply, Write, other
    <3>3. CASE rxIndex < BufferLength
      <4>1. /\ rxBuffer' = [rxBuffer EXCEPT ![rxIndex] = twdr]
            /\ rxIndex' = rxIndex + 1
        BY <2>2, <3>3 DEF SlaveReceiveByte, RoomInRxBuffer
      <4>2. rxIndex = accepted - 1 /\ rxIndex' = SmallerOf(accepted, BufferLength)
        BY <3>1, <3>3, <4>1, TwiAssumption DEF RxHolds, SmallerOf
      <4>3. rxBuffer' \in [Index -> Nat]
        BY <3>1, <4>1
      <4>4. \A i \in Index : i < rxIndex' => rxBuffer'[i] = i + 1
        BY <3>1, <4>1, <4>2, TwiAssumption DEF RxHolds, Index
      <4> QED BY <3>1, <3>2, <4>2, <4>3, <4>4 DEF ReceiveSound, Pending, RxHolds
    <3>4. CASE ~(rxIndex < BufferLength)
      <4>1. UNCHANGED <<rxBuffer, rxIndex>>
        BY <2>2, <3>4 DEF SlaveReceiveByte, RoomInRxBuffer
      <4>2. rxIndex = SmallerOf(accepted, BufferLength)
        BY <3>1, <3>4, TwiAssumption DEF RxHolds, SmallerOf
      <4> QED BY <3>1, <3>2, <4>1, <4>2 DEF ReceiveSound, Pending, RxHolds
    <3> QED BY <3>3, <3>4
  <2>3. CASE SlaveReceiveStop
    <3>1. /\ rxBuffer' = [i \in Index |-> IF i = rxIndex THEN 0 ELSE rxBuffer[i]]
          /\ twint' = FALSE /\ mode' = "idle" /\ UNCHANGED accepted
      BY <2>3 DEF SlaveReceiveStop, Stop, Write
    <3>2. rxBuffer' \in [Index -> Nat]
      BY <3>1 DEF ReceiveSound
    <3> QED BY <3>1, <3>2 DEF ReceiveSound, Pending
  <2>4. CASE \/ StartSent \/ MasterTransmit \/ MasterReceive \/ MasterReceiveLast
             \/ TransferFails \/ SlaveReceiveRefused
             \/ SlaveTransmitBegins \/ SlaveTransmitByte \/ SlaveTransmitEnds
    <3> USE DEF Interrupt, StartSent, MasterTransmit, MasterReceive, MasterReceiveLast,
                TransferFails, SlaveReceiveRefused, SlaveTransmitBegins,
                SlaveTransmitByte, SlaveTransmitEnds
    <3>1. twint /\ status \notin {"SR_SLA_ACK", "SR_DATA_ACK"}
      BY <2>4
    <3>2. mode # "sr"
      BY <3>1 DEF UnitSound
    <3>3. twint' = FALSE /\ mode' \in {mode, "idle"}
      BY <2>4 DEF EndTransfer, Reply, Stop, ReleaseBus, Write
    <3>4. UNCHANGED <<rxBuffer, rxIndex, accepted>>
      BY <2>4 DEF slave, other
    <3> HIDE DEF Interrupt, StartSent, MasterTransmit, MasterReceive, MasterReceiveLast,
                TransferFails, SlaveReceiveRefused, SlaveTransmitBegins,
                SlaveTransmitByte, SlaveTransmitEnds
    <3> QED BY <3>2, <3>3, <3>4, ReceiveFrame
  <2> QED BY <1>2, <2>1, <2>2, <2>3, <2>4 DEF Isr
<1>3. CASE Bus
  <2>1. CASE ForeignWrites
    <3>1. /\ RxHolds(accepted) /\ accepted \in Nat /\ mode = "sr" /\ ~twint
          /\ UNCHANGED <<rxBuffer, rxIndex>> /\ twint' = TRUE
      BY <2>1 DEF ForeignWrites, Unit, Raise, ReceiveSound, slave
    <3>2. CASE status' = "SR_DATA_ACK"
      <4>1. accepted' = accepted + 1 /\ twdr' = accepted'
        BY <2>1, <3>2 DEF ForeignWrites, Raise
      <4> QED BY <3>1, <3>2, <4>1 DEF ReceiveSound, Pending, RxHolds
    <3>3. CASE status' \in {"SR_DATA_NACK", "SR_STOP"}
      <4>1. accepted' = accepted
        BY <2>1, <3>3 DEF ForeignWrites, Raise
      <4> QED BY <3>1, <3>3, <4>1 DEF ReceiveSound, Pending, RxHolds
    <3> QED BY <2>1, <3>2, <3>3 DEF ForeignWrites, Raise
  <2>2. CASE Addressed \/ LoseArbitration
    <3> USE DEF Addressed, LoseArbitration, Address, Unit, Raise
    <3>1. UNCHANGED <<rxBuffer, rxIndex>> /\ twint' = TRUE
      BY <2>2 DEF slave
    <3>2. CASE status' = "SR_SLA_ACK"
      <4>1. accepted' = 0
        BY <2>2, <3>2
      <4> QED BY <3>1, <3>2, <4>1 DEF ReceiveSound, Pending
    <3>3. CASE status' # "SR_SLA_ACK"
      <4>1. mode' # "sr" /\ status' \in {"ST_SLA_ACK", "ARB_LOST"} /\ accepted' = accepted
        BY <2>2, <3>3
      <4> QED BY <3>1, <4>1, ReceiveFrame
    <3> QED BY <3>2, <3>3
  <2>3. CASE SendStart \/ SendAddress \/ SendByte \/ ReceiveByte \/ ForeignReads \/ BusError
    <3>1. UNCHANGED <<rxBuffer, rxIndex, accepted>> /\ mode' # "sr"
      BY <2>3 DEF SendStart, SendAddress, SendByte, ReceiveByte, ForeignReads, BusError,
                  Raise, slave, other
    <3>2. status' \notin {"SR_SLA_ACK", "SR_DATA_ACK", "SR_STOP"}
      BY <2>3 DEF SendStart, SendAddress, SendByte, ReceiveByte, ForeignReads, BusError,
                  Raise
    <3> QED BY <3>1, <3>2, ReceiveFrame
  <2> QED BY <1>3, <2>1, <2>2, <2>3 DEF Bus
<1>4. CASE UNCHANGED vars
  BY <1>4, ReceiveStands DEF vars, slave, unit, other
<1> QED BY <1>1, <1>2, <1>3, <1>4 DEF Next

\* The callback is handed what the buffer holds, whatever buffer[rxIndex] is.
LEMMA StopHands ==
  ReceiveSound /\ SlaveReceiveStop => handed' = Upto(SmallerOf(accepted, BufferLength))
<1> SUFFICES ASSUME ReceiveSound, SlaveReceiveStop
             PROVE  handed' = Upto(SmallerOf(accepted, BufferLength))
  OBVIOUS
<1>1. RxHolds(accepted) /\ accepted \in Nat
  BY DEF SlaveReceiveStop, Interrupt, ReceiveSound, Pending
<1>2. rxIndex = SmallerOf(accepted, BufferLength) /\ rxIndex \in 0..BufferLength
  BY <1>1, TwiAssumption DEF RxHolds, SmallerOf
<1>3. /\ rxBuffer' = [i \in Index |-> IF i = rxIndex THEN 0 ELSE rxBuffer[i]]
      /\ handed' = [k \in 1..rxIndex |-> rxBuffer'[k - 1]]
  BY DEF SlaveReceiveStop
<1>4. \A k \in 1..rxIndex : k - 1 \in Index /\ k - 1 < rxIndex /\ k - 1 # rxIndex
  BY <1>2, TwiAssumption DEF Index
<1>5. \A k \in 1..rxIndex : rxBuffer'[k - 1] = k
  BY <1>1, <1>2, <1>3, <1>4, TwiAssumption DEF RxHolds
<1> QED BY <1>2, <1>3, <1>5 DEF Upto

\* "put byte in buffer and ack, otherwise nack": whatever calls the main thread
\* makes meanwhile, the callback gets the acknowledged bytes, in order, as many
\* as the buffer holds.
THEOREM ReceiveKeeps == Spec => AckedBytesKept
<1>1. Init => UnitSound /\ ReceiveSound
  BY InitUnit, InitReceive
<1>2. UnitSound /\ ReceiveSound /\ [Next]_vars => (UnitSound /\ ReceiveSound)'
  BY NextUnit, NextReceive
<1>3. ReceiveSound /\ [Next]_vars =>
        [SlaveReceiveStop => handed' = Upto(SmallerOf(accepted, BufferLength))]_vars
  BY StopHands
<1> QED BY <1>1, <1>2, <1>3, PTL DEF Spec, AckedBytesKept

(***************************************************************************)
(* Slave transmitter.                                                      *)
(***************************************************************************)
Promised == IF offered \in 1..BufferLength THEN Upto(offered) ELSE <<0>>

\* What the foreign master has read is the beginning of what it was promised.
Exact ==
  /\ read \in Seq(Nat) /\ Len(read) <= Len(Promised)
  /\ \A k \in 1..Len(read) : read[k] = Promised[k]

Loaded ==
  /\ txLength = Len(Promised)
  /\ \A i \in Index : i < txLength => txBuffer[i] = Promised[i + 1]

\* The byte in TWDR is the next one, and TWEA says whether another follows.
OneAhead ==
  /\ Exact /\ Loaded
  /\ txIndex = Len(read) + 1 /\ txIndex <= Len(Promised)
  /\ twdr = Promised[txIndex]
  /\ twea <=> txIndex < Len(Promised)

InStep == Exact /\ Loaded /\ txIndex = Len(read) /\ txIndex < Len(Promised)

\* The driver is the slave transmitter only while the unit is, or until the
\* handler sees how the transfer ended.
TransmitterSound ==
  state = "STX" =>
    /\ twie
    /\ \/ mode = "st" /\ (twint => status = "ST_DATA_ACK")
       \/ Pending({"ST_LAST_DATA", "ST_DATA_NACK", "BUS_ERROR"})

TransmitSound ==
  /\ txBuffer \in [Index -> Nat]
  /\ TransmitterSound
  /\ mode = "st" /\ ~intruded =>
       /\ Pending({"ST_SLA_ACK"}) => read = <<>>
       /\ ~twint => OneAhead
       /\ Pending({"ST_DATA_ACK"}) => InStep
  /\ state = "STX" /\ ~intruded => Exact /\ txIndex \in 0..Len(Promised)

LEMMA PromisedType ==
  /\ Upto(1) = <<1>>
  /\ \A len \in 1..BufferLength : /\ Upto(len) \in Seq(Nat) /\ Len(Upto(len)) = len
                                  /\ \A k \in 1..len : Upto(len)[k] = k
  /\ Promised \in Seq(Nat) /\ Len(Promised) \in 1..BufferLength
<1>1. \A len \in 1..BufferLength : /\ Upto(len) \in Seq(Nat) /\ Len(Upto(len)) = len
                                   /\ \A k \in 1..len : Upto(len)[k] = k
  BY TwiAssumption DEF Upto
<1>2. Upto(1) = <<1>>
  BY DEF Upto
<1>3. <<0>> \in Seq(Nat) /\ Len(<<0>>) = 1
  OBVIOUS
<1> QED BY <1>1, <1>2, <1>3, TwiAssumption DEF Promised

LEMMA InitTransmit == Init => TransmitSound
<1> SUFFICES ASSUME Init PROVE TransmitSound
  OBVIOUS
<1>1. txBuffer \in [Index -> Nat]
  BY DEF Init
<1>2. state = "READY" /\ mode = "idle"
  BY DEF Init
<1> QED BY <1>1, <1>2 DEF TransmitSound, TransmitterSound

\* A step after which neither the unit nor the driver is a slave transmitter.
LEMMA TransmitLeaves ==
  ASSUME txBuffer' \in [Index -> Nat], mode' # "st", state' # "STX"
  PROVE  TransmitSound'
BY DEF TransmitSound, TransmitterSound

LEMMA TransmitStands ==
  ASSUME TransmitSound, UNCHANGED <<slave, unit, read, offered, intruded>>,
         state' = state \/ state' # "STX"
  PROVE  TransmitSound'
<1> USE DEF slave, unit, twcr
<1>1. UNCHANGED Promised
  BY DEF Promised
<1>2. /\ Exact' <=> Exact
      /\ Loaded' <=> Loaded
  BY <1>1 DEF Exact, Loaded
<1>3. /\ OneAhead' <=> OneAhead
      /\ InStep' <=> InStep
  BY <1>1, <1>2 DEF OneAhead, InStep
<1> QED BY <1>1, <1>2, <1>3 DEF TransmitSound, TransmitterSound, Pending

LEMMA MainTransmit ==
  ASSUME UnitSound, TransmitSound, MainStep
  PROVE  TransmitSound'
<1>1. CASE Start /\ ~inRepStart
  <2>1. /\ UNCHANGED <<slave, mode, state, status, read, offered>> /\ twint' = FALSE
        /\ twie' = TRUE /\ intruded' = (mode \in {"sr", "st"})
    BY <1>1 DEF Start, Write, other
  <2>2. state = "STX" => mode = "st"
    BY <1>1 DEF TransmitSound, TransmitterSound, Start, Main, Pending
  <2>3. txBuffer' \in [Index -> Nat]
    BY <2>1 DEF TransmitSound, slave
  <2>4. CASE mode = "st"
    BY <2>1, <2>3, <2>4 DEF TransmitSound, TransmitterSound
  <2>5. CASE mode # "st"
    BY <2>1, <2>2, <2>3, <2>5, TransmitLeaves
  <2> QED BY <2>4, <2>5
<1>2. CASE (Start /\ inRepStart) \/ SendOn
  <2>1. UNCHANGED <<slave, mode, state>>
    BY <1>2 DEF Start, SendOn, driver
  <2>2. ~twie /\ mode # "st"
    BY <1>2 DEF SendOn, Main, UnitSound, Pending, Joined
  <2>3. state # "STX"
    BY <2>2 DEF TransmitSound, TransmitterSound
  <2>4. txBuffer' \in [Index -> Nat]
    BY <2>1 DEF TransmitSound, slave
  <2> QED BY <2>1, <2>2, <2>3, <2>4, TransmitLeaves
<1>3. CASE Claim
  <2>1. state' # "STX" /\ UNCHANGED <<slave, unit, read, offered, intruded>>
    BY <1>3 DEF Claim, other
  <2> QED BY <2>1, TransmitStands
<1>4. CASE CallReadFrom \/ CallWriteTo \/ WaitReady \/ Return
  <2>1. state' = state /\ UNCHANGED <<slave, unit, read, offered, intruded>>
    BY <1>4 DEF CallReadFrom, CallWriteTo, Call, WaitReady, Return, other, driver
  <2> QED BY <2>1, TransmitStands
<1> QED BY <1>1, <1>2, <1>3, <1>4 DEF MainStep

LEMMA BeginsTransmit ==
  ASSUME TransmitSound, UnitSound, SlaveTransmitBegins
  PROVE  TransmitSound'
<1>1. mode = "st" /\ Pending({"ST_SLA_ACK"}) /\ twie
  BY DEF SlaveTransmitBegins, Interrupt, UnitSound, Pending
<1>2. /\ state' = "STX" /\ mode' = "st" /\ twint' = FALSE /\ twie'
      /\ txIndex' = 1 /\ twdr' = txBuffer'[0] /\ (twea' <=> 1 < txLength')
      /\ UNCHANGED <<read, intruded>>
  BY <1>1 DEF SlaveTransmitBegins, Reply, Write
<1>3. PICK len \in SlaveReplies :
        /\ offered' = len
        /\ IF Transmitted(len) = 0
           THEN txLength' = 1 /\ txBuffer' = [txBuffer EXCEPT ![0] = 0]
           ELSE /\ txLength' = Transmitted(len)
                /\ txBuffer' = [i \in Index |-> IF i < len THEN i + 1 ELSE txBuffer[i]]
  BY DEF SlaveTransmitBegins
<1>4. len \in 0..255 /\ 0 \in Index /\ txBuffer \in [Index -> Nat]
  BY TwiAssumption DEF Index, TransmitSound
<1>5. txBuffer' \in [Index -> Nat] /\ Loaded' /\ txLength' \in Nat /\ txLength' >= 1
  <2>1. CASE len \in 1..BufferLength
    <3>1. Promised' = Upto(len)
      BY <1>3, <2>1 DEF Promised
    <3>2. txLength' = len /\ txBuffer' = [i \in Index |-> IF i < len THEN i + 1 ELSE txBuffer[i]]
      BY <1>3, <2>1, TwiAssumption DEF Transmitted
    <3>3. txBuffer' \in [Index -> Nat]
      BY <1>4, <3>2 DEF Index
    <3>4. \A i \in Index : i < len => txBuffer'[i] = Upto(len)[i + 1]
      BY <2>1, <3>2, PromisedType DEF Index
    <3> QED BY <2>1, <3>1, <3>2, <3>3, <3>4, PromisedType DEF Loaded
  <2>2. CASE len \notin 1..BufferLength
    <3>1. Promised' = <<0>>
      BY <1>3, <2>2 DEF Promised
    <3>2. txLength' = 1 /\ txBuffer' = [txBuffer EXCEPT ![0] = 0]
      BY <1>3, <1>4, <2>2, TwiAssumption DEF Transmitted
    <3>3. txBuffer' \in [Index -> Nat]
      BY <1>4, <3>2
    <3>4. \A i \in Index : i < 1 => txBuffer'[i] = <<0>>[i + 1]
      BY <1>4, <3>2 DEF Index
    <3> QED BY <3>1, <3>2, <3>3, <3>4 DEF Loaded
  <2> QED BY <2>1, <2>2
<1>6. CASE intruded
  BY <1>2, <1>5, <1>6 DEF TransmitSound, TransmitterSound
<1>7. CASE ~intruded
  <2>1. read' = <<>>
    BY <1>1, <1>2, <1>7 DEF TransmitSound
  <2>2. txLength' = Len(Promised)' /\ twdr' = Promised'[1]
    BY <1>2, <1>4, <1>5 DEF Loaded
  <2>3. Exact'
    BY <1>5, <2>1, <2>2 DEF Exact
  <2>4. OneAhead'
    BY <1>2, <1>5, <2>1, <2>2, <2>3 DEF OneAhead
  <2>5. txIndex' \in 0..Len(Promised)'
    BY <1>2, <1>5, <2>2
  <2> QED BY <1>2, <1>5, <2>3, <2>4, <2>5 DEF TransmitSound, TransmitterSound, Pending
<1> QED BY <1>6, <1>7

LEMMA ByteTransmits ==
  ASSUME TransmitSound, UnitSound, SlaveTransmitByte
  PROVE  TransmitSound'
<1>1. mode = "st" /\ Pending({"ST_DATA_ACK"}) /\ twie
  BY DEF SlaveTransmitByte, Interrupt, UnitSound, Pending
<1>2. /\ twdr' \in TxBytes(txIndex) /\ txIndex' = (txIndex + 1) % 256
      /\ (twea' <=> txIndex' < txLength) /\ twint' = FALSE /\ twie' /\ mode' = "st"
      /\ UNCHANGED <<state, txBuffer, txLength, read, offered, intruded>>
  BY <1>1 DEF SlaveTransmitByte, Reply, Write, MoreToSend, driver, other
<1>3. UNCHANGED Promised
  BY <1>2 DEF Promised
<1>4. UNCHANGED <<Exact, Loaded>>
  BY <1>2, <1>3 DEF Exact, Loaded
<1>5. CASE intruded
  BY <1>2, <1>5 DEF TransmitSound, TransmitterSound
<1>6. CASE ~intruded
  <2>1. InStep
    BY <1>1, <1>6 DEF TransmitSound
  <2>2. /\ Len(read) \in Nat /\ txIndex = Len(read) /\ txIndex < Len(Promised)
        /\ Len(Promised) \in 1..BufferLength /\ txLength = Len(Promised)
    BY <2>1, PromisedType DEF InStep, Exact, Loaded
  <2>3. txIndex \in Index /\ txIndex' = txIndex + 1
    BY <1>2, <2>2, TwiAssumption DEF Index
  <2>4. twdr' = Promised[txIndex + 1]
    BY <1>2, <2>1, <2>2, <2>3 DEF TxBytes, InStep, Loaded
  <2>5. OneAhead'
    BY <1>2, <1>3, <1>4, <2>1, <2>2, <2>3, <2>4 DEF OneAhead, InStep
  <2>6. txIndex' \in 0..Len(Promised)'
    BY <1>3, <2>2, <2>3
  <2> QED BY <1>2, <2>5, <2>6 DEF TransmitSound, TransmitterSound, Pending, OneAhead
<1> QED BY <1>5, <1>6

LEMMA IsrTransmit ==
  ASSUME TransmitSound, UnitSound, Isr
  PROVE  TransmitSound'
<1>1. CASE SlaveTransmitBegins
  BY <1>1, BeginsTransmit
<1>2. CASE SlaveTransmitByte
  BY <1>2, ByteTransmits
<1>3. CASE SlaveTransmitEnds
  <2>1. state' = "READY" /\ twint' = FALSE
        /\ UNCHANGED <<txBuffer, mode>> /\ Pending({"ST_DATA_NACK", "ST_LAST_DATA"})
    BY <1>3 DEF SlaveTransmitEnds, Interrupt, Pending, Reply, Write, slave
  <2>2. mode # "st"
    BY <2>1 DEF UnitSound, Pending
  <2> QED BY <2>1, <2>2, TransmitLeaves DEF TransmitSound
<1>4. CASE \/ StartSent \/ MasterTransmit \/ MasterReceive \/ MasterReceiveLast
           \/ TransferFails \/ SlaveReceiveBegins \/ SlaveReceiveByte
           \/ SlaveReceiveStop \/ SlaveReceiveRefused
  <2> USE DEF Interrupt, StartSent, MasterTransmit, MasterReceive, MasterReceiveLast,
              TransferFails, SlaveReceiveBegins, SlaveReceiveByte, SlaveReceiveStop,
              SlaveReceiveRefused
  <2>1. /\ twint
        /\ status \notin {"ST_SLA_ACK", "ST_DATA_ACK", "ST_LAST_DATA", "ST_DATA_NACK"}
    BY <1>4
  <2>2. mode # "st"
    BY <2>1 DEF UnitSound
  <2>3. state # "STX" \/ status = "BUS_ERROR"
    BY <2>1, <2>2 DEF TransmitSound, TransmitterSound, Pending
  <2>4. state' \in {state, "READY", "SRX"} /\ (status = "BUS_ERROR" => state' = "READY")
    BY <1>4 DEF EndTransfer, driver
  <2>5. mode' \in {mode, "idle"} /\ UNCHANGED txBuffer
    BY <1>4 DEF EndTransfer, Reply, Stop, ReleaseBus, slave
  <2> HIDE DEF Interrupt, StartSent, MasterTransmit, MasterReceive, MasterReceiveLast,
              TransferFails, SlaveReceiveBegins, SlaveReceiveByte, SlaveReceiveStop,
              SlaveReceiveRefused
  <2> QED BY <2>2, <2>3, <2>4, <2>5, TransmitLeaves DEF TransmitSound
<1> QED BY <1>1, <1>2, <1>3, <1>4 DEF Isr

LEMMA ReadTransmits ==
  ASSUME TransmitSound, UnitSound, ForeignReads
  PROVE  TransmitSound'
<1>1. /\ mode = "st" /\ ~twint /\ twint' = TRUE /\ read' = Append(read, twdr)
      /\ \/ twea /\ status' = "ST_DATA_ACK" /\ mode' = "st"
         \/ status' \in {"ST_LAST_DATA", "ST_DATA_NACK"} /\ mode' = "idle"
      /\ UNCHANGED <<twie, state, txBuffer, txIndex, txLength, offered, intruded>>
  BY DEF ForeignReads, Unit, Raise, driver, slave, twcr
<1>2. TransmitterSound' /\ txBuffer' \in [Index -> Nat]
  BY <1>1 DEF TransmitSound, TransmitterSound, Pending
<1>3. CASE intruded
  BY <1>1, <1>2, <1>3 DEF TransmitSound
<1>4. CASE ~intruded
  <2>1. OneAhead
    BY <1>1, <1>4 DEF TransmitSound
  <2>2. UNCHANGED Promised /\ Promised \in Seq(Nat) /\ Len(Promised) \in Nat
    BY <1>1, PromisedType DEF Promised
  <2>3. /\ read \in Seq(Nat) /\ Len(read) \in Nat /\ txIndex = Len(read) + 1
        /\ txIndex <= Len(Promised) /\ twdr = Promised[txIndex]
    BY <2>1 DEF OneAhead, Exact
  <2>4. twdr \in Nat
    BY <2>2, <2>3
  <2>5. /\ read' \in Seq(Nat) /\ Len(read') = txIndex
        /\ \A k \in 1..Len(read) : read'[k] = read[k]
        /\ read'[txIndex] = twdr
    BY <1>1, <2>3, <2>4
  <2>6. \A k \in 1..txIndex : k \in 1..Len(read) \/ k = txIndex
    BY <2>3
  <2>7. \A k \in 1..txIndex : read'[k] = Promised[k]
    BY <2>1, <2>3, <2>5, <2>6 DEF OneAhead, Exact
  <2>8. Exact'
    BY <2>2, <2>3, <2>5, <2>7 DEF Exact
  <2>9. twea => InStep'
    BY <1>1, <2>1, <2>2, <2>3, <2>5, <2>8 DEF InStep, OneAhead, Loaded
  <2>10. txIndex' \in 0..Len(Promised)'
    BY <1>1, <2>2, <2>3
  <2> QED BY <1>1, <1>2, <2>8, <2>9, <2>10 DEF TransmitSound, Pending
<1> QED BY <1>3, <1>4

LEMMA BusTransmit ==
  ASSUME TransmitSound, UnitSound, Bus
  PROVE  TransmitSound'
<1> USE DEF Unit, Raise
<1>1. CASE ForeignReads
  BY <1>1, ReadTransmits
<1>2. CASE Addressed \/ LoseArbitration
  <2> USE DEF Addressed, LoseArbitration, Address
  <2>1. ~twint /\ mode # "st" /\ twint' = TRUE /\ UNCHANGED <<state, txBuffer>>
    BY <1>2 DEF driver, slave
  <2>2. state # "STX"
    BY <2>1 DEF TransmitSound, TransmitterSound, Pending
  <2>3. mode' = "st" => status' = "ST_SLA_ACK" /\ read' = <<>>
    BY <1>2, <2>1
  <2> HIDE DEF Addressed, LoseArbitration, Address
  <2> QED BY <2>1, <2>2, <2>3 DEF TransmitSound, TransmitterSound, Pending
<1>3. CASE SendStart \/ SendAddress \/ SendByte \/ ReceiveByte \/ ForeignWrites
  <2> USE DEF SendStart, SendAddress, SendByte, ReceiveByte, ForeignWrites
  <2>1. ~twint /\ mode # "st" /\ mode' # "st" /\ UNCHANGED <<state, txBuffer>>
    BY <1>3 DEF driver, slave
  <2>2. state # "STX"
    BY <2>1 DEF TransmitSound, TransmitterSound, Pending
  <2> QED BY <2>1, <2>2, TransmitLeaves DEF TransmitSound
<1>4. CASE BusError
  <2>1. /\ mode' = "idle" /\ twint' = TRUE /\ status' = "BUS_ERROR"
        /\ UNCHANGED <<state, twie, slave, read, offered, intruded>>
    BY <1>4 DEF BusError, driver, other, twcr
  <2>2. UNCHANGED <<Promised, Exact>>
    BY <2>1 DEF Promised, Exact
  <2> QED BY <2>1, <2>2 DEF TransmitSound, TransmitterSound, Pending, slave
<1> QED BY <1>1, <1>2, <1>3, <1>4 DEF Bus

LEMMA NextTransmit == UnitSound /\ TransmitSound /\ [Next]_vars => TransmitSound'
<1>1. TransmitSound /\ UNCHANGED vars => TransmitSound'
  BY TransmitStands DEF vars, driver, other
<1> QED BY <1>1, MainTransmit, IsrTransmit, BusTransmit DEF Next

LEMMA SoundExact == TransmitSound => SlaveTransmitExact
<1> SUFFICES ASSUME TransmitSound, state = "STX", ~intruded
             PROVE  /\ Len(read) <= Len(Promised) /\ txIndex <= Len(Promised)
                    /\ \A k \in 1..Len(read) : read[k] = Promised[k]
  BY DEF SlaveTransmitExact, Promised
<1> QED BY PromisedType DEF TransmitSound, Exact

\* The foreign master reads what the callback offered, or one filler byte, and
\* the handler takes nothing from behind it, unless the main thread wrote TWCR
\* during the transfer.
THEOREM TransmitsExactly == Spec => []SlaveTransmitExact
<1>1. Init => UnitSound /\ TransmitSound
  BY InitUnit, InitTransmit
<1>2. UnitSound /\ TransmitSound /\ [Next]_vars => (UnitSound /\ TransmitSound)'
  BY NextUnit, NextTransmit
<1>3. TransmitSound => SlaveTransmitExact
  BY SoundExact
<1> QED BY <1>1, <1>2, <1>3, PTL DEF Spec

(***************************************************************************)
(* The driver as the only master of its bus, with any number of calls, bus *)
(* errors and repeated starts.                                             *)
(***************************************************************************)
OneMaster == MaxTransfers = 0 /\ 0 \notin ReadLengths

asked == request.len
Reading == request.op = "read"

Types ==
  /\ n \in Nat /\ transfers \in Nat
  /\ request \in [op : {"read", "write"}, len : 0..255, stop : BOOLEAN]
  /\ pc \in {"idle", "wait", "claim", "start", "address", "spin"}
  /\ masterBuffer \in [Index -> Nat]
  /\ masterIndex \in 0 .. (IF Collided THEN 255 ELSE BufferLength)
  /\ twint \in BOOLEAN /\ twsta \in BOOLEAN /\ twea \in BOOLEAN /\ twie \in BOOLEAN
  /\ Reading => asked >= 1

\* Between two calls the bus is free, or the unit is about to repeat the start
\* (or has, or a bus error has kept it from that) with its interrupt off.
Rest == mode = "idle" /\ ~twint /\ ~twsta /\ twie /\ ~inRepStart

Engaged ==
  /\ ~twie
  /\ \/ mode \in {"mt", "mr"} /\ twsta /\ ~twint
     \/ mode \in {"start", "idle"} /\ twint

Joint == inRepStart /\ Engaged

Free == Rest \/ Joint

SentFirst(k) == sent = [i \in 1..k |-> Byte(n, i)]
ReadFirst(k) == \A i \in Index : i < k => masterBuffer[i] = Byte(n, i + 1)

\* What the call has set before its start.
Claimed ==
  /\ asked <= BufferLength /\ error = "none" /\ result = "none"
  /\ IF Reading
     THEN slarw = TwRead /\ masterLength = asked - 1
     ELSE /\ slarw = TwWrite /\ masterLength = asked
          /\ \A i \in Index : i < asked => masterBuffer[i] = Byte(n, i + 1)

Fresh == sent = <<>> /\ arrived = 0

\* The unit sends a start or the address, or waits for a start that is lost.
Opening ==
  /\ masterIndex = 0 /\ Fresh
  /\ \/ mode = "idle" /\ ~twint
     \/ mode \in {"mt", "mr"} /\ ~twint /\ twsta
     \/ mode = "start" /\ twint /\ status \in {"START", "REP_START"}
     \/ mode = "start" /\ ~twint /\ ~twsta /\ twdr = slarw

Failing ==
  /\ twint
  /\ \/ ~Reading /\ status = "MT_SLA_NACK" /\ outcome = "addrNack"
     \/ ~Reading /\ status = "MT_DATA_NACK" /\ outcome = "dataNack"
     \/ Reading /\ status = "MR_SLA_NACK" /\ outcome = "addrNack"
     \/ status = "BUS_ERROR" /\ outcome = "error"

\* How far the handler is behind the device, byte by byte.
Writing ==
  /\ masterIndex <= asked
  /\ \/ Opening
     \/ Failing
     \/ /\ mode = "mt" /\ twint /\ status \in {"MT_SLA_ACK", "MT_DATA_ACK"}
        /\ SentFirst(masterIndex)
     \/ /\ mode = "mt" /\ ~twint /\ ~twsta
        /\ masterIndex >= 1 /\ twdr = Byte(n, masterIndex)
        /\ SentFirst(masterIndex - 1)

ReadingBytes ==
  /\ masterIndex <= asked /\ ReadFirst(masterIndex) /\ arrived \in 0..asked
  /\ \/ Opening
     \/ Failing
     \/ /\ mode = "mr" /\ twint /\ status = "MR_SLA_ACK"
        /\ masterIndex = 0 /\ arrived = 0
     \/ /\ mode = "mr" /\ ~twint /\ ~twsta
        /\ arrived = masterIndex /\ masterIndex < asked
        /\ twea <=> masterIndex < asked - 1
     \/ /\ mode = "mr" /\ twint /\ status \in {"MR_DATA_ACK", "MR_DATA_NACK"}
        /\ arrived = masterIndex + 1 /\ twdr = Byte(n, arrived)
        /\ IF status = "MR_DATA_ACK" THEN masterIndex < asked - 1
                                     ELSE masterIndex = asked - 1

Underway ==
  /\ Spinning /\ twie /\ ~inRepStart
  /\ mode \in {"idle", "start", "mt", "mr"}
  /\ Claimed
  /\ IF Reading THEN ReadingBytes ELSE Writing

\* The unit sends what TWDR held before the call: nothing is known of what the
\* device does, but the handler follows the unit to the end of the transfer.
Astray ==
  /\ Collided /\ Spinning /\ twie /\ ~inRepStart /\ ~twsta
  /\ asked <= BufferLength /\ result = "none"
  /\ masterLength \in 0..BufferLength /\ arrived \in Nat
  /\ mode \in {"idle", "start", "mt", "mr"}
  /\ twint => \/ mode = "mt" /\ status \in {"MT_SLA_ACK", "MT_DATA_ACK"}
              \/ mode = "mr" /\ status = "MR_SLA_ACK"
              \/ /\ mode = "mr" /\ status \in {"MR_DATA_ACK", "MR_DATA_NACK"}
                 /\ twdr \in Nat
              \/ status \in {"MT_SLA_NACK", "MT_DATA_NACK", "MR_SLA_NACK", "BUS_ERROR"}

Finished ==
  /\ state = "READY" /\ Free /\ asked <= BufferLength /\ result = "none"
  /\ Reading /\ ~Collided =>
       /\ masterIndex <= asked /\ ReadFirst(masterIndex) /\ arrived \in 0..asked
       /\ outcome = "" => masterIndex = asked
  /\ ~Reading /\ ~Collided =>
       /\ error = "none" => SentFirst(asked)
       /\ error \in {"addrNack", "dataNack"} => outcome = error /\ Rest

Returned ==
  /\ state = "READY" /\ Free
  /\ WriteHonest /\ ReadHonest
  /\ Reading /\ ~Collided => arrived <= asked
  /\ result \in {"addrNack", "dataNack"} /\ ~Collided => Rest

Before == state = "READY" /\ Free /\ Fresh /\ result = "none" /\ asked <= BufferLength

Ready == Spinning /\ Free /\ Fresh /\ Claimed /\ masterIndex = 0 /\ ~Collided

\* TWDR holds the address, unless it was written too early.
Addressing ==
  /\ Spinning /\ ~inRepStart /\ Engaged /\ Fresh /\ Claimed /\ masterIndex = 0
  /\ ~Collided => twint /\ twdr = slarw

MasterInv ==
  /\ Types
  /\ pc = "idle" => Returned
  /\ pc \in {"wait", "claim"} => Before
  /\ pc = "start" => Ready
  /\ pc = "address" => Addressing
  /\ pc = "spin" => Underway \/ Astray \/ Finished

LEMMA ByteType == \A k \in Nat : n \in Nat => Byte(n, k) \in Nat
BY TwiAssumption DEF Byte

LEMMA InitHolds == Init => MasterInv
<1> SUFFICES ASSUME Init PROVE MasterInv
  OBVIOUS
<1>1. masterBuffer \in [Index -> Nat] /\ result = "none" /\ pc = "idle"
  BY DEF Init
<1>2. request = NoRequest
  BY DEF Init
<1>3. /\ request \in [op : {"read", "write"}, len : 0..255, stop : BOOLEAN]
      /\ request.op = "write"
  BY <1>2 DEF NoRequest
<1>4. Free /\ state = "READY"
  BY DEF Init, Free, Rest
<1>5. /\ n = 0 /\ transfers = 0 /\ masterIndex = 0
      /\ twint = FALSE /\ twsta = FALSE /\ twea = TRUE /\ twie = TRUE
  BY DEF Init
<1>6. Types
  <2>1. n \in Nat /\ transfers \in Nat /\ masterIndex \in 0..BufferLength
    BY <1>5, TwiAssumption
  <2>2. twint \in BOOLEAN /\ twsta \in BOOLEAN /\ twea \in BOOLEAN /\ twie \in BOOLEAN
    BY <1>5
  <2>3. ~Reading /\ pc \in {"idle", "wait", "claim", "start", "address", "spin"}
    BY <1>1, <1>3 DEF Reading
  <2>4. ~Collided
    BY DEF Init, Collided
  <2> QED BY <1>1, <1>3, <2>1, <2>2, <2>3, <2>4 DEF Types
<1>7. Returned
  BY <1>1, <1>3, <1>4 DEF Returned, WriteHonest, ReadHonest, Reading
<1> QED BY <1>1, <1>6, <1>7 DEF MasterInv

(***************************************************************************)
(* The main thread.                                                        *)
(***************************************************************************)
LEMMA CallKeeps ==
  ASSUME OneMaster, MasterInv, CallReadFrom \/ CallWriteTo
  PROVE  MasterInv'
<1>1. PICK op \in {"read", "write"}, k \in 0..255, stop \in BOOLEAN :
        (op = "read" => k >= 1) /\ Call(op, k, stop)
  BY TwiAssumption DEF OneMaster, CallReadFrom, CallWriteTo
<1>2. /\ pc = "idle" /\ n' = n + 1 /\ request' = [op |-> op, len |-> k, stop |-> stop]
      /\ data' = <<>> /\ Fresh'
      /\ UNCHANGED <<driver, master, slave, unit, other, Collided>>
      /\ \/ k > BufferLength /\ pc' = "idle" /\ result' = "tooLong"
         \/ k <= BufferLength /\ pc' = "wait" /\ result' = "none"
  <2>1. /\ pc = "idle" /\ n' = n + 1 /\ request' = [op |-> op, len |-> k, stop |-> stop]
        /\ data' = <<>> /\ sent' = <<>> /\ arrived' = 0
        /\ UNCHANGED <<driver, master, slave, unit, other, Collided>>
    BY <1>1 DEF Call, Main, Collided
  <2>2. IF k > BufferLength THEN pc' = "idle" /\ result' = "tooLong"
                            ELSE pc' = "wait" /\ result' = "none"
    BY <1>1 DEF Call
  <2> QED BY <2>1, <2>2, TwiAssumption DEF Fresh
<1>3. state' = "READY" /\ Free'
  BY <1>2 DEF MasterInv, Returned, Free, Rest, Joint, Engaged, driver, unit, twcr
<1>4. request'.len = k /\ request'.op = op
  BY <1>2
<1>5. Types'
  <2>1. Types
    BY DEF MasterInv
  <2>2. request' \in [op : {"read", "write"}, len : 0..255, stop : BOOLEAN]
    BY <1>1, <1>2
  <2>3. n' \in Nat /\ pc' \in {"idle", "wait"}
    BY <1>2, <2>1 DEF Types
  <2>4. UNCHANGED <<transfers, masterBuffer, masterIndex, twint, twsta, twea, twie, Collided>>
    BY <1>2 DEF master, unit, twcr, other
  <2>5. Reading' => request'.len >= 1
    BY <1>1, <1>4 DEF Reading
  <2> QED BY <2>1, <2>2, <2>3, <2>4, <2>5 DEF Types, asked
<1>6. CASE pc' = "wait"
  <2>1. Before'
    BY <1>2, <1>3, <1>4, <1>6, TwiAssumption DEF Before, asked
  <2> QED BY <1>5, <1>6, <2>1 DEF MasterInv
<1>7. CASE pc' = "idle"
  <2>1. Returned'
    BY <1>1, <1>2, <1>3, <1>4, <1>7 DEF Returned, WriteHonest, ReadHonest, Fresh, asked
  <2> QED BY <1>5, <1>7, <2>1 DEF MasterInv
<1> QED BY <1>2, <1>6, <1>7

LEMMA WaitReadyKeeps == MasterInv /\ WaitReady => MasterInv'
<1> SUFFICES ASSUME MasterInv, WaitReady PROVE MasterInv'
  OBVIOUS
<1>1. /\ pc = "wait" /\ pc' = "claim"
      /\ UNCHANGED <<driver, master, slave, n, request, result, data, unit, own, other,
                     Collided>>
  BY DEF WaitReady, Main, Collided
<1>2. Types'
  <2>1. Types
    BY DEF MasterInv
  <2> QED BY <1>1, <2>1 DEF Types, Reading, asked, master, unit, twcr, other
<1>3. Before'
  BY <1>1 DEF MasterInv, Before, Fresh, Free, Rest, Joint, Engaged, asked, driver, unit, twcr, own
<1> QED BY <1>1, <1>2, <1>3 DEF MasterInv

LEMMA ClaimKeeps == MasterInv /\ Claim => MasterInv'
<1> SUFFICES ASSUME MasterInv, Claim PROVE MasterInv'
  OBVIOUS
<1>1. /\ pc = "claim" /\ pc' = "start" /\ Before /\ Types
      /\ error' = "none" /\ masterIndex' = 0 /\ ~Collided'
      /\ UNCHANGED <<inRepStart, n, request, result, unit, own, other>>
  BY DEF Claim, Main, MasterInv, Collided
<1>2. Fresh' /\ Free' /\ result' = "none" /\ asked <= BufferLength /\ asked' = asked
      /\ Reading' = Reading
  BY <1>1 DEF Before, Fresh, Free, Rest, Joint, Engaged, asked, Reading, unit, twcr, own
<1>3. CASE Reading
  <2>1. /\ state' = "MRX" /\ slarw' = TwRead /\ masterLength' = MasterLength(asked)
        /\ masterBuffer' = masterBuffer
    BY <1>3 DEF Claim, Reading, asked
  <2>2. asked \in 1..255 /\ MasterLength(asked) = asked - 1
    BY <1>1, <1>3 DEF Types, MasterLength, asked
  <2>3. Ready'
    BY <1>1, <1>2, <1>3, <2>1, <2>2 DEF Ready, Spinning, Claimed, Reading
  <2>4. Types'
    BY <1>1, <1>2, <2>1, TwiAssumption DEF Types, unit, twcr, other
  <2> QED BY <1>1, <2>3, <2>4 DEF MasterInv
<1>4. CASE ~Reading
  <2>1. /\ state' = "MTX" /\ slarw' = TwWrite /\ masterLength' = asked
        /\ masterBuffer' = [i \in Index |-> IF i < asked THEN Byte(n, i + 1)
                                            ELSE masterBuffer[i]]
    BY <1>4 DEF Claim, Reading, asked
  <2>2. masterBuffer' \in [Index -> Nat]
    BY <1>1, <2>1, ByteType, TwiAssumption DEF Types, Index
  <2>3. Ready'
    BY <1>1, <1>2, <1>4, <2>1 DEF Ready, Spinning, Claimed, Reading
  <2>4. Types'
    BY <1>1, <1>2, <2>2, TwiAssumption DEF Types, unit, twcr, other
  <2> QED BY <1>1, <2>3, <2>4 DEF MasterInv
<1> QED BY <1>3, <1>4

\* The call waits for its transfer, which begins with a start or the address.
LEMMA Opens ==
  ASSUME Types, Claimed, Spinning, Opening', pc' = "spin", ~inRepStart', twie' = TRUE,
         twint' \in BOOLEAN, twsta' \in BOOLEAN, twea' \in BOOLEAN,
         UNCHANGED <<state, slarw, error, master, n, request, result, mode, own, transfers>>
  PROVE  MasterInv'
<1>1. UNCHANGED <<asked, Reading, Spinning, Claimed>>
  BY DEF asked, Reading, Spinning, Claimed, master
<1>2. masterIndex' = 0 /\ arrived' = 0
  BY DEF Opening, Fresh
<1>3. asked \in Nat /\ ReadFirst(masterIndex)'
  <2>1. asked \in Nat
    BY DEF Types, asked
  <2>2. \A i \in Index : ~(i < 0)
    BY TwiAssumption DEF Index
  <2> QED BY <1>2, <2>1, <2>2 DEF ReadFirst
<1>4. mode' \in {"idle", "start", "mt", "mr"}
  BY DEF Opening
<1>5. Underway'
  BY <1>1, <1>2, <1>3, <1>4 DEF Underway, Writing, ReadingBytes
<1>6. masterIndex' \in 0 .. (IF Collided' THEN 255 ELSE BufferLength)
  BY <1>2, TwiAssumption
<1>7. Types'
  BY <1>1, <1>6 DEF Types, master
<1> QED BY <1>5, <1>7 DEF MasterInv

LEMMA StartKeeps == MasterInv /\ Start => MasterInv'
<1> SUFFICES ASSUME MasterInv, Start PROVE MasterInv'
  OBVIOUS
<1>1. pc = "start" /\ Ready /\ Types
  BY DEF Start, Main, MasterInv
<1>2. UNCHANGED <<state, slarw, error, master, n, request, result, mode, status, own, transfers>>
  BY DEF Start
<1>3. CASE inRepStart
  <2>1. /\ pc' = "address" /\ ~inRepStart' /\ UNCHANGED <<twint, twsta, twea, twie>>
        /\ IF twint THEN twdr' = slarw /\ ~Collided' ELSE Collided'
    BY <1>3 DEF Start, twcr, Collided
  <2>2. Engaged'
    BY <1>1, <1>2, <1>3, <2>1 DEF Ready, Free, Rest, Joint, Engaged
  <2>3. UNCHANGED <<asked, Reading, Spinning, Claimed, Fresh>>
    BY <1>2 DEF asked, Reading, Spinning, Claimed, Fresh, master, own
  <2>4. Addressing'
    BY <1>1, <1>2, <2>1, <2>2, <2>3 DEF Addressing, Ready, master
  <2>5. masterIndex' \in 0 .. (IF Collided' THEN 255 ELSE BufferLength)
    BY <1>1, <1>2, TwiAssumption DEF Ready, master
  <2>6. Types'
    BY <1>1, <1>2, <2>1, <2>3, <2>5 DEF Types, master
  <2> QED BY <2>1, <2>4, <2>6 DEF MasterInv
<1>4. CASE ~inRepStart
  <2>1. /\ pc' = "spin" /\ ~inRepStart' /\ twint' = FALSE /\ twsta' = TRUE
        /\ twea' = TRUE /\ twie' = TRUE
    BY <1>4 DEF Start, Write
  <2>2. mode = "idle"
    BY <1>1, <1>4 DEF Ready, Free, Rest, Joint
  <2>3. Opening'
    BY <1>1, <1>2, <2>1, <2>2 DEF Opening, Fresh, Ready, master, own
  <2> QED BY <1>1, <1>2, <2>1, <2>3, Opens DEF Ready
<1> QED BY <1>3, <1>4

LEMMA SendOnKeeps == MasterInv /\ SendOn => MasterInv'
<1> SUFFICES ASSUME MasterInv, SendOn PROVE MasterInv'
  OBVIOUS
<1>1. /\ pc = "address" /\ Addressing /\ Types /\ pc' = "spin" /\ ~inRepStart'
      /\ twint' = FALSE /\ twea' = TRUE /\ twie' = TRUE /\ twsta' \in BOOLEAN
      /\ twsta' => ~twint
      /\ UNCHANGED <<state, slarw, error, master, n, request, result, mode, own, transfers,
                     twdr>>
  <2>1. pc = "address" /\ Addressing /\ Types
    BY DEF SendOn, Main, MasterInv
  <2>2. /\ pc' = "spin"
        /\ UNCHANGED <<state, slarw, error, inRepStart, master, n, request, result, mode,
                       own, transfers, twdr>>
    BY DEF SendOn, driver, other
  <2>3. /\ twint' = FALSE /\ twea' = TRUE /\ twie' = TRUE /\ twsta' \in BOOLEAN
        /\ twsta' => ~twint
    BY DEF SendOn, Write
  <2> QED BY <2>1, <2>2, <2>3 DEF Addressing
<1>2. Opening' => MasterInv'
  BY <1>1, Opens DEF Addressing
<1>3. /\ Fresh' /\ masterIndex' = 0 /\ slarw' = slarw
      /\ UNCHANGED <<asked, Reading, Spinning>>
  BY <1>1 DEF Addressing, Fresh, asked, Reading, Spinning, master, own
<1>4. CASE mode = "idle"
  BY <1>1, <1>2, <1>3, <1>4 DEF Opening
<1>5. CASE mode = "start" /\ ~Collided
  <2>1. twint /\ twdr = slarw /\ ~twsta'
    BY <1>1, <1>5 DEF Addressing
  <2> QED BY <1>1, <1>2, <1>3, <1>5, <2>1 DEF Opening
<1>6. CASE mode \in {"mt", "mr"} /\ twsta'
  BY <1>1, <1>2, <1>3, <1>6 DEF Opening
<1>7. CASE mode \in {"start", "mt", "mr"} /\ ~twsta' /\ Collided
  <2>1. Collided'
    BY <1>7 DEF SendOn, Collided
  <2>2. masterLength' \in 0..BufferLength /\ asked <= BufferLength /\ result = "none"
    <3>1. asked \in Nat /\ (Reading => asked >= 1) /\ BufferLength \in Nat
      BY <1>1, TwiAssumption DEF Types, asked
    <3>2. /\ asked <= BufferLength /\ masterLength' = masterLength /\ result = "none"
          /\ masterLength = IF Reading THEN asked - 1 ELSE asked
      BY <1>1 DEF Addressing, Claimed, master
    <3> QED BY <3>1, <3>2
  <2>3. Astray'
    <3>1. Spinning' /\ arrived' \in Nat
      BY <1>1, <1>3 DEF Addressing, Fresh
    <3> QED BY <1>1, <1>3, <1>7, <2>1, <2>2, <3>1 DEF Astray
  <2>4. masterIndex' \in 0..255
    BY <1>3
  <2>5. Types'
    BY <1>1, <1>3, <2>1, <2>4 DEF Types, master
  <2> QED BY <1>1, <2>3, <2>5 DEF MasterInv
<1>8. mode \in {"idle", "start", "mt", "mr"} /\ (mode = "start" => ~twsta')
  BY <1>1 DEF Addressing, Engaged
<1>9. mode \in {"mt", "mr"} => Collided
  BY <1>1 DEF Addressing, Engaged
<1> QED BY <1>1, <1>4, <1>5, <1>6, <1>7, <1>8, <1>9

LEMMA ReturnKeeps == MasterInv /\ Return => MasterInv'
<1> SUFFICES ASSUME MasterInv, Return PROVE MasterInv'
  OBVIOUS
<1>1. /\ pc = "spin" /\ pc' = "idle" /\ ~Spinning /\ Types
      /\ UNCHANGED <<driver, master, slave, n, request, unit, own, other, Collided>>
  BY DEF Return, Main, MasterInv, Collided
<1>2. Finished
  BY <1>1 DEF MasterInv, Underway, Astray
<1>3. Types'
  BY <1>1 DEF Types, Reading, asked, master, unit, twcr, other
<1>4. /\ state' = "READY" /\ Free' /\ (Rest => Rest')
      /\ UNCHANGED <<asked, Reading, arrived, sent, outcome>>
  BY <1>1, <1>2 DEF Finished, Free, Rest, Joint, Engaged, asked, Reading, driver, unit, twcr, own
<1>5. CASE Collided
  <2>1. Returned'
    BY <1>1, <1>4, <1>5 DEF Returned, WriteHonest, ReadHonest
  <2> QED BY <1>1, <1>3, <2>1 DEF MasterInv
<1>6. CASE ~Collided
  <2>1. CASE Reading
    <3>1. /\ result' = "read"
          /\ data' = [k \in 1..SmallerOf(masterIndex, asked) |-> masterBuffer[k - 1]]
      BY <2>1 DEF Return, Reading, asked
    <3>2. masterIndex \in Nat /\ asked \in Nat
      BY <1>1, TwiAssumption DEF Types, asked
    <3>3. masterIndex <= asked /\ asked <= BufferLength
      BY <1>2, <1>6, <2>1 DEF Finished
    <3>4. arrived <= asked /\ ReadFirst(masterIndex) /\ (outcome = "" => masterIndex = asked)
      <4>1. ReadFirst(masterIndex) /\ (outcome = "" => masterIndex = asked)
        BY <1>2, <1>6, <2>1 DEF Finished
      <4>2. arrived \in 0..asked
        BY <1>2, <1>6, <2>1 DEF Finished
      <4>3. arrived <= asked
        BY <3>2, <4>2
      <4> QED BY <4>1, <4>3
    <3>5. SmallerOf(masterIndex, asked) = masterIndex
      BY <3>2, <3>3 DEF SmallerOf
    <3>6. \A k \in 1..masterIndex : masterBuffer[k - 1] = Byte(n, k)
      <4>1. \A k \in 1..masterIndex : k - 1 \in Index /\ k - 1 < masterIndex /\ (k - 1) + 1 = k
        BY <3>2, <3>3, TwiAssumption DEF Index
      <4> QED BY <3>4, <4>1 DEF ReadFirst
    <3>7. data' = [k \in 1..masterIndex |-> Byte(n, k)]
      BY <3>1, <3>5, <3>6
    <3>8. Len(data') = masterIndex
      BY <3>2, <3>7
    <3>9. n' = n /\ request' = request
      BY <1>1
    <3>10. ReadHonest'
      BY <1>4, <3>4, <3>7, <3>8, <3>9 DEF ReadHonest, asked
    <3>11. Returned'
      BY <1>4, <3>1, <3>4, <3>10 DEF Returned, WriteHonest
    <3> QED BY <1>1, <1>3, <3>11 DEF MasterInv
  <2>2. CASE ~Reading
    <3>1. result' = IF error = "none" THEN "ok"
                    ELSE IF error \in {"addrNack", "dataNack"} THEN error ELSE "other"
      BY <2>2 DEF Return, Reading
    <3>2. /\ error = "none" => SentFirst(asked)
          /\ error \in {"addrNack", "dataNack"} => outcome = error /\ Rest
      BY <1>2, <1>6, <2>2 DEF Finished
    <3>3. WriteHonest'
      BY <1>1, <1>4, <3>1, <3>2 DEF WriteHonest, SentFirst, asked
    <3>4. ReadHonest'
      BY <3>1 DEF ReadHonest
    <3>5. Returned'
      BY <1>4, <2>2, <3>1, <3>2, <3>3, <3>4 DEF Returned
    <3> QED BY <1>1, <1>3, <3>5 DEF MasterInv
  <2> QED BY <2>1, <2>2
<1> QED BY <1>5, <1>6

(***************************************************************************)
(* The bus between two calls.                                              *)
(***************************************************************************)
LEMMA EngagedBus ==
  ASSUME OneMaster, Types, Rest \/ Engaged, Bus
  PROVE  /\ ~Rest /\ Engaged'
         /\ UNCHANGED <<driver, master, call, twcr, sent, arrived, transfers>>
         /\ twint' = TRUE /\ (outcome' = outcome \/ outcome' = "error")
         /\ ~twint
<1> USE DEF Unit, Raise, Rest, Engaged, twcr
<1>1. ~Addressed /\ ~LoseArbitration
  BY DEF Addressed, LoseArbitration, OneMaster, Types
<1>2. ~SendAddress /\ ~SendByte /\ ~ReceiveByte /\ ~ForeignWrites /\ ~ForeignReads
  BY DEF SendAddress, SendByte, ReceiveByte, ForeignWrites, ForeignReads
<1>3. CASE SendStart
  <2>1. /\ twsta /\ ~twint /\ mode' = "start" /\ twint' = TRUE
        /\ UNCHANGED <<driver, master, call, twsta, twea, twie, own, other>>
    BY <1>3 DEF SendStart
  <2>2. ~Rest /\ Engaged'
    BY <2>1
  <2> QED BY <2>1, <2>2 DEF own, other
<1>4. CASE BusError
  BY <1>4 DEF BusError, other
<1> QED BY <1>1, <1>2, <1>3, <1>4 DEF Bus

LEMMA FreeBus ==
  ASSUME OneMaster, Types, Free, Bus
  PROVE  /\ ~Rest /\ Free'
         /\ UNCHANGED <<driver, master, call, twcr, sent, arrived, transfers>>
         /\ twint' = TRUE /\ (outcome' = outcome \/ outcome' = "error")
<1>1. Rest \/ Engaged
  BY DEF Free, Joint
<1>2. /\ ~Rest /\ Engaged'
      /\ UNCHANGED <<driver, master, call, twcr, sent, arrived, transfers>>
      /\ twint' = TRUE /\ (outcome' = outcome \/ outcome' = "error")
  BY <1>1, EngagedBus
<1>3. Free'
  BY <1>2 DEF Free, Joint, driver
<1> QED BY <1>2, <1>3

LEMMA FreeIsr == Free \/ Engaged => ~Isr
BY DEF Free, Rest, Joint, Engaged, Isr, Interrupt, StartSent, MasterTransmit,
       MasterReceive, MasterReceiveLast, TransferFails, SlaveReceiveBegins,
       SlaveReceiveByte, SlaveReceiveStop, SlaveReceiveRefused, SlaveTransmitBegins,
       SlaveTransmitByte, SlaveTransmitEnds

LEMMA AddressingBus ==
  ASSUME OneMaster, MasterInv, pc = "address", Bus
  PROVE  MasterInv'
<1>1. Addressing /\ Types
  BY DEF MasterInv
<1>2. /\ Engaged' /\ ~twint /\ twint' = TRUE
      /\ UNCHANGED <<driver, master, call, twcr, sent, arrived, transfers>>
  BY <1>1, EngagedBus DEF Addressing
<1>3. UNCHANGED <<asked, Reading, Fresh, Spinning, Claimed, Collided, pc, masterIndex,
                  inRepStart>>
  BY <1>2 DEF asked, Reading, Fresh, Spinning, Claimed, Collided, driver, master, call
<1>4. Types'
  BY <1>1, <1>2, <1>3 DEF Types, master, call, twcr
<1>5. Addressing'
  BY <1>1, <1>2, <1>3 DEF Addressing
<1> QED BY <1>3, <1>4, <1>5 DEF MasterInv

LEMMA FreeKeeps ==
  ASSUME OneMaster, MasterInv, Free, pc # "address", pc = "spin" => Finished, Bus
  PROVE  MasterInv'
<1>1. /\ ~Rest /\ Free'
      /\ UNCHANGED <<driver, master, call, twcr, sent, arrived, transfers>>
      /\ twint' = TRUE /\ (outcome' = outcome \/ outcome' = "error")
  BY FreeBus DEF MasterInv
<1>2. UNCHANGED <<asked, Reading, Fresh, Spinning, Claimed, Collided>>
  BY <1>1 DEF asked, Reading, Fresh, Spinning, Claimed, Collided, driver, master, call
<1>3. Types'
  BY <1>1, <1>2 DEF MasterInv, Types, master, call, twcr
<1>4. CASE pc = "idle"
  <2>1. /\ Returned /\ pc' = "idle" /\ state' = state
        /\ UNCHANGED <<n, request, result, data, sent, arrived>>
    BY <1>1, <1>4 DEF MasterInv, call, driver
  <2>2. WriteHonest' /\ ReadHonest'
    BY <1>1, <1>2, <2>1 DEF Returned, WriteHonest, ReadHonest
  <2>3. Returned'
    BY <1>1, <1>2, <2>1, <2>2 DEF Returned
  <2> QED BY <1>3, <2>1, <2>3 DEF MasterInv
<1>5. CASE pc \in {"wait", "claim"}
  <2>1. Before /\ pc' = pc /\ state' = state /\ result' = result
    BY <1>1, <1>5 DEF MasterInv, call, driver
  <2> QED BY <1>1, <1>2, <1>3, <1>5, <2>1 DEF MasterInv, Before
<1>6. CASE pc = "start"
  <2>1. Ready /\ pc' = pc /\ masterIndex' = masterIndex
    BY <1>1, <1>6 DEF MasterInv, call, master
  <2> QED BY <1>1, <1>2, <1>3, <1>6, <2>1 DEF MasterInv, Ready
<1>7. CASE pc = "spin"
  <2>1. /\ Finished /\ pc' = pc /\ state' = state
        /\ UNCHANGED <<n, result, error, masterIndex, masterBuffer, sent, arrived>>
    BY <1>1, <1>7 DEF call, driver, master
  <2>2. Finished'
    BY <1>1, <1>2, <2>1 DEF Finished, ReadFirst, SentFirst
  <2> QED BY <1>3, <1>7, <2>1, <2>2 DEF MasterInv
<1> QED BY <1>4, <1>5, <1>6, <1>7 DEF MasterInv, Types

(***************************************************************************)
(* The handler during a call.                                              *)
(***************************************************************************)
LEMMA SpinStep ==
  ASSUME Types', pc' = "spin", Underway' \/ Finished'
  PROVE  MasterInv'
BY DEF MasterInv

LEMMA Sizes ==
  ASSUME Types, Claimed
  PROVE  /\ asked \in Nat /\ asked <= BufferLength /\ BufferLength < 255
         /\ BufferLength \in Nat /\ masterIndex \in Nat
         /\ Reading => asked >= 1
BY TwiAssumption DEF Types, Claimed, asked

LEMMA IndexFits ==
  ASSUME Types, Underway
  PROVE  masterIndex \in 0..BufferLength
<1>1. masterIndex <= asked /\ Claimed
  BY DEF Underway, Writing, ReadingBytes
<1> QED BY <1>1, Sizes

\* Nothing that the handler or the bus does during a call touches the request.
LEMMA CallFrame ==
  ASSUME UNCHANGED call
  PROVE  UNCHANGED <<pc, n, request, result, data, restart, asked, Reading, Collided>>
BY DEF call, asked, Reading, Collided

LEMMA TypesKept ==
  ASSUME Types, UNCHANGED <<call, transfers>>, masterBuffer' \in [Index -> Nat],
         masterIndex' \in 0..BufferLength, twint' \in BOOLEAN, twsta' \in BOOLEAN,
         twea' \in BOOLEAN, twie' \in BOOLEAN
  PROVE  Types'
<1>1. masterIndex' \in 0 .. (IF Collided' THEN 255 ELSE BufferLength)
  BY TwiAssumption
<1> QED BY <1>1, CallFrame DEF Types

\* Also if the call came too early: the handler writes the address again.
LEMMA StartSentKeeps ==
  ASSUME MasterInv, pc = "spin", Underway, StartSent
  PROVE  MasterInv'
<1>1. /\ UNCHANGED <<driver, master, pc, n, request, result, own, transfers, mode>>
      /\ twdr' = slarw /\ twint' = FALSE /\ twsta' = FALSE /\ twea' = TRUE /\ twie' = TRUE
  BY DEF StartSent, Reply, Write, other
<1>2. /\ twint /\ status \in {"START", "REP_START"} /\ Types
  BY DEF StartSent, Interrupt, MasterInv
<1>3. Opening /\ mode = "start"
  BY <1>2 DEF Underway, Writing, ReadingBytes, Opening, Failing
<1>4. Opening'
  BY <1>1, <1>3 DEF Opening, Fresh, driver, master, own
<1> QED BY <1>1, <1>2, <1>4, Opens DEF Underway, driver

\* The end of a transfer frees the bus.
LEMMA EndsFree ==
  ASSUME EndTransfer, ~inRepStart, mode \in {"mt", "mr"}
  PROVE  /\ state' = "READY" /\ Free' /\ twint' = FALSE
         /\ twsta' \in BOOLEAN /\ twea' \in BOOLEAN /\ twie' \in BOOLEAN
BY DEF EndTransfer, Stop, Write, Free, Rest, Joint, Engaged

LEMMA MasterTransmitKeeps ==
  ASSUME MasterInv, pc = "spin", Underway, MasterTransmit
  PROVE  MasterInv'
<1>1. /\ UNCHANGED <<slarw, sendStop, error, masterBuffer, masterLength, call, own, transfers>>
      /\ UNCHANGED <<pc, n, request, result, asked, Reading>>
  BY CallFrame DEF MasterTransmit, other
<1>2. twint /\ status \in {"MT_SLA_ACK", "MT_DATA_ACK"} /\ Types /\ Claimed /\ ~inRepStart
  BY DEF MasterTransmit, Interrupt, MasterInv, Underway
<1>3. ~Reading /\ mode = "mt" /\ SentFirst(masterIndex) /\ masterIndex <= asked
  BY <1>2 DEF Underway, Writing, ReadingBytes, Opening, Failing
<1>4. masterLength = asked /\ error = "none"
  BY <1>2, <1>3 DEF Claimed
<1>5. CASE masterIndex < masterLength
  <2>1. /\ twdr' = masterBuffer[masterIndex] /\ masterIndex' = masterIndex + 1
        /\ twint' = FALSE /\ twsta' = FALSE /\ twea' = TRUE /\ twie' = TRUE
        /\ UNCHANGED <<state, inRepStart, mode>>
    BY <1>5 DEF MasterTransmit, Reply, Write
  <2>2. masterIndex \in Index /\ masterIndex < asked /\ masterIndex' \in 0..BufferLength
    BY <1>2, <1>4, <1>5, <2>1, Sizes DEF Index
  <2>3. twdr' = Byte(n, masterIndex')
    BY <1>2, <1>3, <2>1, <2>2 DEF Claimed
  <2>4. sent' = [i \in 1..(masterIndex' - 1) |-> Byte(n', i)]
    <3>1. masterIndex' - 1 = masterIndex /\ sent' = sent /\ n' = n
      BY <1>1, <1>2, <2>1, Sizes DEF own
    <3> QED BY <1>3, <3>1 DEF SentFirst
  <2>5. masterIndex' >= 1 /\ masterIndex' <= asked
    BY <1>2, <2>1, <2>2, Sizes
  <2>6. Writing'
    BY <1>1, <1>3, <2>1, <2>3, <2>4, <2>5 DEF Writing, SentFirst
  <2>7. Claimed' /\ Spinning'
    BY <1>1, <1>2, <1>3, <2>1 DEF Claimed, Spinning, Underway
  <2>8. Underway'
    BY <1>1, <1>2, <1>3, <2>1, <2>6, <2>7 DEF Underway
  <2>9. Types'
    BY <1>1, <1>2, <2>1, <2>2, TypesKept DEF Types
  <2> QED BY <1>1, <2>8, <2>9, SpinStep
<1>6. CASE ~(masterIndex < masterLength)
  <2>1. EndTransfer /\ UNCHANGED masterIndex
    BY <1>6 DEF MasterTransmit
  <2>2. /\ state' = "READY" /\ Free' /\ twint' = FALSE
        /\ twsta' \in BOOLEAN /\ twea' \in BOOLEAN /\ twie' \in BOOLEAN
    BY <1>2, <1>3, <2>1, EndsFree
  <2>3. masterIndex = asked
    BY <1>2, <1>3, <1>4, <1>6, Sizes
  <2>4. SentFirst(asked)' /\ error' = "none"
    BY <1>1, <1>3, <1>4, <2>3 DEF SentFirst, own
  <2>5. Finished'
    BY <1>1, <1>2, <1>3, <2>2, <2>4 DEF Finished, Claimed
  <2>6. masterBuffer' \in [Index -> Nat] /\ masterIndex' \in 0..BufferLength
    BY <1>1, <1>2, <2>1, IndexFits DEF Types
  <2>7. Types'
    BY <1>1, <1>2, <2>2, <2>6, TypesKept
  <2> QED BY <1>1, <2>5, <2>7, SpinStep
<1> QED BY <1>5, <1>6

\* A byte is stored below the length of the call, which fits the buffer.
LEMMA StoreKeeps ==
  ASSUME Types, Claimed, StoreReceived, UNCHANGED n, masterIndex < asked,
         ReadFirst(masterIndex), twdr = Byte(n, masterIndex + 1)
  PROVE  /\ masterIndex' = masterIndex + 1 /\ masterIndex' \in 0..BufferLength
         /\ masterBuffer' \in [Index -> Nat]
         /\ ReadFirst(masterIndex)'
<1>1. /\ masterBuffer' = [i \in Index |-> IF i = masterIndex THEN twdr ELSE masterBuffer[i]]
      /\ masterIndex' = (masterIndex + 1) % 256
  BY DEF StoreReceived
<1>2. masterIndex' = masterIndex + 1 /\ masterIndex' \in 0..BufferLength
  BY <1>1, Sizes
<1>3. twdr \in Nat
  BY Sizes, ByteType DEF Types
<1>4. masterBuffer' \in [Index -> Nat]
  BY <1>1, <1>3 DEF Types
<1>5. \A i \in Index : i < masterIndex' => masterBuffer'[i] = Byte(n, i + 1)
  <2> SUFFICES ASSUME NEW i \in Index, i < masterIndex' PROVE masterBuffer'[i] = Byte(n, i + 1)
    OBVIOUS
  <2>1. i < masterIndex \/ i = masterIndex
    BY <1>2, Sizes DEF Index
  <2>2. CASE i = masterIndex
    BY <1>1, <2>2
  <2>3. CASE i < masterIndex /\ i # masterIndex
    BY <1>1, <2>3 DEF ReadFirst
  <2>4. i < masterIndex => i # masterIndex
    BY Sizes DEF Index
  <2> QED BY <2>1, <2>2, <2>3, <2>4
<1> QED BY <1>2, <1>4, <1>5 DEF ReadFirst

LEMMA MasterReceiveKeeps ==
  ASSUME MasterInv, pc = "spin", Underway, MasterReceive
  PROVE  MasterInv'
<1>1. /\ UNCHANGED <<driver, masterLength, call, twdr, own, transfers, mode>>
      /\ UNCHANGED <<pc, n, request, result, asked, Reading>>
      /\ twint' = FALSE /\ twsta' = FALSE /\ twie' = TRUE
      /\ twea' = (masterIndex' < masterLength)
  BY CallFrame DEF MasterReceive, Reply, Write, other
<1>2. twint /\ status \in {"MR_SLA_ACK", "MR_DATA_ACK"} /\ Types /\ Claimed
  BY DEF MasterReceive, Interrupt, MasterInv, Underway
<1>3. Reading /\ mode = "mr" /\ masterIndex <= asked /\ arrived \in 0..asked
  BY <1>2 DEF Underway, Writing, ReadingBytes, Opening, Failing
<1>4. ReadFirst(masterIndex)
  BY <1>3 DEF Underway, ReadingBytes
<1>5. /\ masterIndex' \in 0..BufferLength /\ masterBuffer' \in [Index -> Nat]
      /\ arrived = masterIndex' /\ masterIndex' < asked
  <2>1. CASE status = "MR_SLA_ACK"
    <3>1. UNCHANGED <<masterBuffer, masterIndex>>
      BY <2>1 DEF MasterReceive
    <3>2. masterIndex = 0 /\ arrived = 0
      BY <1>2, <1>3, <2>1 DEF Underway, ReadingBytes, Opening, Failing
    <3> QED BY <1>2, <1>3, <3>1, <3>2, Sizes DEF Types
  <2>2. CASE status = "MR_DATA_ACK"
    <3>1. StoreReceived
      BY <2>2 DEF MasterReceive
    <3>2. masterIndex < asked - 1 /\ arrived = masterIndex + 1 /\ twdr = Byte(n, arrived)
      BY <1>2, <1>3, <2>2 DEF Underway, ReadingBytes, Opening, Failing
    <3>3. masterIndex < asked /\ twdr = Byte(n, masterIndex + 1)
      BY <1>2, <3>2, Sizes
    <3> QED BY <1>1, <1>2, <1>4, <3>1, <3>2, <3>3, StoreKeeps, Sizes
  <2> QED BY <1>2, <2>1, <2>2
<1>6. ReadFirst(masterIndex)'
  <2>1. CASE status = "MR_SLA_ACK"
    <3>1. UNCHANGED <<masterBuffer, masterIndex>>
      BY <2>1 DEF MasterReceive
    <3> QED BY <1>1, <1>4, <3>1 DEF ReadFirst
  <2>2. CASE status = "MR_DATA_ACK"
    <3>1. StoreReceived
      BY <2>2 DEF MasterReceive
    <3>2. masterIndex < asked - 1 /\ arrived = masterIndex + 1 /\ twdr = Byte(n, arrived)
      BY <1>2, <1>3, <2>2 DEF Underway, ReadingBytes, Opening, Failing
    <3>3. masterIndex < asked /\ twdr = Byte(n, masterIndex + 1)
      BY <1>2, <3>2, Sizes
    <3> QED BY <1>1, <1>2, <1>4, <3>1, <3>3, StoreKeeps
  <2> QED BY <1>2, <2>1, <2>2
<1>7. Claimed' /\ Spinning' /\ masterLength = asked - 1
  BY <1>1, <1>2, <1>3 DEF Claimed, Spinning, Underway, driver
<1>8. masterIndex' <= asked' /\ arrived' \in 0..asked' /\ arrived' = masterIndex'
      /\ masterIndex' < asked' /\ (twea' <=> masterIndex' < asked' - 1)
  <2>1. arrived' = arrived /\ asked' = asked
    BY <1>1 DEF own
  <2>2. masterIndex' \in Nat /\ asked \in Nat
    BY <1>2, <1>5, Sizes
  <2>3. masterIndex' <= asked
    BY <1>5, <2>2
  <2>4. twea' <=> masterIndex' < asked - 1
    BY <1>1, <1>7
  <2> QED BY <1>3, <1>5, <2>1, <2>3, <2>4
<1>9. ReadingBytes'
  BY <1>1, <1>3, <1>6, <1>8 DEF ReadingBytes
<1>10. Underway'
  BY <1>1, <1>3, <1>7, <1>9 DEF Underway, driver
<1>11. twea' \in BOOLEAN
  BY <1>1
<1>12. Types'
  BY <1>1, <1>2, <1>5, <1>11, TypesKept
<1> QED BY <1>1, <1>10, <1>12, SpinStep

LEMMA MasterReceiveLastKeeps ==
  ASSUME MasterInv, pc = "spin", Underway, MasterReceiveLast
  PROVE  MasterInv'
<1>1. /\ UNCHANGED <<slarw, sendStop, error, call, own, transfers>>
      /\ UNCHANGED <<pc, n, request, result, asked, Reading>>
      /\ StoreReceived /\ EndTransfer
  BY CallFrame DEF MasterReceiveLast, other
<1>2. twint /\ status = "MR_DATA_NACK" /\ Types /\ Claimed /\ ~inRepStart
  BY DEF MasterReceiveLast, Interrupt, MasterInv, Underway
<1>3. /\ Reading /\ mode = "mr" /\ arrived \in 0..asked
      /\ masterIndex = asked - 1 /\ arrived = masterIndex + 1 /\ twdr = Byte(n, arrived)
  BY <1>2 DEF Underway, Writing, ReadingBytes, Opening, Failing
<1>4. ReadFirst(masterIndex)
  BY <1>3 DEF Underway, ReadingBytes
<1>5. masterIndex < asked /\ twdr = Byte(n, masterIndex + 1)
  BY <1>2, <1>3, Sizes
<1>6. /\ masterIndex' = masterIndex + 1 /\ masterIndex' \in 0..BufferLength
      /\ masterBuffer' \in [Index -> Nat]
  BY <1>1, <1>2, <1>4, <1>5, StoreKeeps
<1>7. ReadFirst(masterIndex)'
  BY <1>1, <1>2, <1>4, <1>5, StoreKeeps
<1>8. /\ state' = "READY" /\ Free' /\ twint' = FALSE
      /\ twsta' \in BOOLEAN /\ twea' \in BOOLEAN /\ twie' \in BOOLEAN
  BY <1>1, <1>2, <1>3, EndsFree
<1>9. masterIndex' = asked' /\ arrived' \in 0..asked' /\ asked' <= BufferLength
  <2>1. masterIndex' = asked
    BY <1>2, <1>3, <1>6, Sizes
  <2> QED BY <1>1, <1>2, <1>3, <2>1, Sizes DEF own
<1>10. asked' \in Nat
  BY <1>1, <1>2, Sizes
<1>11. masterIndex' <= asked'
  BY <1>9, <1>10
<1>12. Finished'
  BY <1>1, <1>2, <1>3, <1>7, <1>8, <1>9, <1>11 DEF Finished, Claimed
<1>13. Types'
  BY <1>1, <1>2, <1>6, <1>8, TypesKept
<1> QED BY <1>1, <1>12, <1>13, SpinStep

LEMMA TransferFailsKeeps ==
  ASSUME MasterInv, pc = "spin", Underway, TransferFails
  PROVE  MasterInv'
<1>1. /\ UNCHANGED <<inRepStart, master, call, own, transfers>>
      /\ UNCHANGED <<pc, n, request, result, asked, Reading>>
      /\ error' = ErrorOf(status) /\ state' = "READY"
  BY CallFrame DEF TransferFails, other
<1>2. /\ twint /\ Types /\ Claimed /\ ~inRepStart
      /\ status \in {"MT_SLA_NACK", "MT_DATA_NACK", "MR_SLA_NACK", "ARB_LOST", "BUS_ERROR"}
  BY DEF TransferFails, Interrupt, MasterInv, Underway
<1>3. Failing
  BY <1>2 DEF Underway, Writing, ReadingBytes, Opening
<1>4. Stop
  BY <1>3 DEF Failing, TransferFails
<1>5. Rest' /\ Free' /\ twint' = FALSE /\ twsta' = FALSE /\ twea' = TRUE /\ twie' = TRUE
  BY <1>1, <1>2, <1>4 DEF Stop, Write, Rest, Free
<1>6. outcome' = outcome /\ outcome # "" /\ arrived' = arrived /\ asked' <= BufferLength
      /\ result' = "none"
  BY <1>1, <1>2, <1>3 DEF Failing, own, Claimed
<1>7. Finished'
  <2>1. CASE Reading
    <3>1. masterIndex <= asked /\ arrived \in 0..asked
      BY <2>1 DEF Underway, ReadingBytes
    <3>2. ReadFirst(masterIndex)'
      BY <1>1, <2>1 DEF Underway, ReadingBytes, ReadFirst, master
    <3>3. masterIndex' = masterIndex
      BY <1>1 DEF master
    <3> QED BY <1>1, <1>5, <1>6, <2>1, <3>1, <3>2, <3>3 DEF Finished
  <2>2. CASE ~Reading
    <3>1. error' # "none" /\ (error' \in {"addrNack", "dataNack"} => outcome' = error')
      BY <1>1, <1>3, <1>6, <2>2 DEF Failing, ErrorOf
    <3> QED BY <1>1, <1>5, <1>6, <2>2, <3>1 DEF Finished
  <2> QED BY <2>1, <2>2
<1>8. masterBuffer' \in [Index -> Nat] /\ masterIndex' \in 0..BufferLength
  BY <1>1, <1>2, IndexFits DEF Types, master
<1>9. Types'
  BY <1>1, <1>2, <1>5, <1>8, TypesKept
<1> QED BY <1>1, <1>7, <1>9, SpinStep

LEMMA IsrKeeps ==
  ASSUME MasterInv, pc = "spin", Underway, Isr
  PROVE  MasterInv'
<1>1. ~twint \/ status \in {"START", "REP_START", "MT_SLA_ACK", "MT_DATA_ACK", "MR_SLA_ACK",
        "MR_DATA_ACK", "MR_DATA_NACK", "MT_SLA_NACK", "MT_DATA_NACK", "MR_SLA_NACK",
        "BUS_ERROR"}
  BY DEF Underway, Writing, ReadingBytes, Opening, Failing
<1>2. /\ ~SlaveReceiveBegins /\ ~SlaveReceiveByte /\ ~SlaveReceiveStop
      /\ ~SlaveReceiveRefused /\ ~SlaveTransmitBegins /\ ~SlaveTransmitByte
      /\ ~SlaveTransmitEnds
  BY <1>1 DEF Interrupt, SlaveReceiveBegins, SlaveReceiveByte, SlaveReceiveStop,
              SlaveReceiveRefused, SlaveTransmitBegins, SlaveTransmitByte,
              SlaveTransmitEnds
<1> QED BY <1>2, StartSentKeeps, MasterTransmitKeeps, MasterReceiveKeeps,
           MasterReceiveLastKeeps, TransferFailsKeeps DEF Isr

(***************************************************************************)
(* The bus during a call.                                                  *)
(***************************************************************************)
\* A step of the bus leaves the driver alone, so the call stays under way if
\* the unit and the device are where the handler expects them.
LEMMA BusStep ==
  ASSUME MasterInv, pc = "spin", Underway, UNCHANGED <<driver, master, call, twcr, transfers>>,
         twint' = TRUE, mode' \in {"idle", "start", "mt", "mr"},
         Reading => /\ arrived' \in 0..asked
                    /\ \/ Opening' \/ Failing'
                       \/ /\ mode' = "mr" /\ status' = "MR_SLA_ACK"
                          /\ masterIndex = 0 /\ arrived' = 0
                       \/ /\ mode' = "mr" /\ status' \in {"MR_DATA_ACK", "MR_DATA_NACK"}
                          /\ arrived' = masterIndex + 1 /\ twdr' = Byte(n, arrived')
                          /\ IF status' = "MR_DATA_ACK" THEN masterIndex < asked - 1
                                                        ELSE masterIndex = asked - 1,
         ~Reading => \/ Opening' \/ Failing'
                     \/ /\ mode' = "mt" /\ status' \in {"MT_SLA_ACK", "MT_DATA_ACK"}
                        /\ sent' = [i \in 1..masterIndex |-> Byte(n, i)]
  PROVE  MasterInv'
<1>1. /\ UNCHANGED <<pc, n, request, result, asked, Reading>>
      /\ UNCHANGED <<state, slarw, error, inRepStart, masterBuffer, masterIndex,
                     masterLength, twsta, twea, twie>>
  BY CallFrame DEF driver, master, twcr
<1>2. UNCHANGED <<Claimed, Spinning>>
  BY <1>1 DEF Claimed, Spinning
<1>3. Types'
  <2>1. masterIndex' \in 0..BufferLength /\ masterBuffer' \in [Index -> Nat]
    BY <1>1, IndexFits DEF MasterInv, Types
  <2>2. /\ Types /\ twint' \in BOOLEAN
        /\ twsta' \in BOOLEAN /\ twea' \in BOOLEAN /\ twie' \in BOOLEAN
    BY <1>1 DEF MasterInv, Types
  <2> QED BY <2>1, <2>2, TypesKept
<1>4. CASE Reading
  <2>1. masterIndex <= asked
    BY <1>4 DEF Underway, ReadingBytes
  <2>2. ReadFirst(masterIndex)'
    BY <1>1, <1>4 DEF Underway, ReadingBytes, ReadFirst
  <2>3. ReadingBytes'
    BY <1>1, <1>4, <2>1, <2>2 DEF ReadingBytes
  <2> QED BY <1>1, <1>2, <1>3, <1>4, <2>3, SpinStep DEF Underway
<1>5. CASE ~Reading
  <2>1. masterIndex <= asked
    BY <1>5 DEF Underway, Writing
  <2>2. Writing'
    BY <1>1, <1>5, <2>1 DEF Writing, SentFirst
  <2> QED BY <1>1, <1>2, <1>3, <1>5, <2>2, SpinStep DEF Underway
<1> QED BY <1>4, <1>5

LEMMA BusKeeps ==
  ASSUME OneMaster, MasterInv, pc = "spin", Underway, Bus
  PROVE  MasterInv'
<1> USE DEF Unit, Raise
<1>1. Types /\ Claimed /\ (Reading => arrived \in 0..asked)
  BY DEF MasterInv, Underway, ReadingBytes
<1>2. ~Addressed /\ ~LoseArbitration /\ ~ForeignWrites /\ ~ForeignReads
  BY <1>1 DEF Addressed, LoseArbitration, ForeignWrites, ForeignReads, OneMaster, Types,
              Underway
<1>3. CASE SendStart
  <2>1. /\ ~twint /\ twsta /\ twint' = TRUE /\ UNCHANGED <<arrived, sent>>
        /\ mode' = "start" /\ status' \in {"START", "REP_START"}
        /\ UNCHANGED <<driver, master, call, twcr, transfers>>
    BY <1>3 DEF SendStart, own, other
  <2>2. Opening
    BY <2>1 DEF Underway, Writing, ReadingBytes, Opening, Failing
  <2>3. Opening' /\ mode' = "start"
    BY <2>1, <2>2 DEF Opening, Fresh, master
  <2> QED BY <1>1, <2>1, <2>3, BusStep
<1>4. CASE SendAddress
  <2>1. /\ ~twint /\ mode = "start" /\ twint' = TRUE /\ UNCHANGED <<arrived, sent>>
        /\ UNCHANGED <<driver, master, call, twcr, transfers>>
        /\ \/ Says(TwWrite) /\ status' = "MT_SLA_ACK" /\ mode' = "mt"
           \/ Says(TwRead) /\ status' = "MR_SLA_ACK" /\ mode' = "mr"
           \/ Says(TwWrite) /\ status' = "MT_SLA_NACK" /\ mode' = "mt" /\ outcome' = "addrNack"
           \/ Says(TwRead) /\ status' = "MR_SLA_NACK" /\ mode' = "mr" /\ outcome' = "addrNack"
    BY <1>4 DEF SendAddress, other
  <2>2. Opening /\ twdr = slarw
    BY <2>1 DEF Underway, Writing, ReadingBytes, Opening, Failing
  <2>3. IF Reading THEN ~Says(TwWrite) ELSE ~Says(TwRead)
    BY <1>1, <2>2 DEF Claimed, Says, TwRead, TwWrite
  <2>4. masterIndex = 0 /\ sent' = <<>> /\ arrived' = 0
    BY <2>1, <2>2 DEF Opening, Fresh
  <2>5. sent' = [i \in 1..masterIndex |-> Byte(n, i)]
    BY <2>4
  <2>6. UNCHANGED Reading
    BY <2>1, CallFrame
  <2>7. CASE Reading
    BY <1>1, <2>1, <2>3, <2>4, <2>6, <2>7, BusStep DEF Failing
  <2>8. CASE ~Reading
    BY <2>1, <2>3, <2>5, <2>6, <2>8, BusStep DEF Failing
  <2> QED BY <2>7, <2>8
<1>5. CASE SendByte
  <2>1. /\ ~twint /\ ~twsta /\ mode = "mt" /\ twint' = TRUE /\ mode' = "mt"
        /\ UNCHANGED <<driver, master, call, twcr, transfers, arrived>>
        /\ \/ status' = "MT_DATA_ACK" /\ sent' = Append(sent, twdr)
           \/ status' = "MT_DATA_NACK" /\ outcome' = "dataNack"
    BY <1>5 DEF SendByte, other
  <2>2. ~Reading /\ masterIndex >= 1 /\ twdr = Byte(n, masterIndex)
    BY <2>1 DEF Underway, Writing, ReadingBytes, Opening, Failing
  <2>3. sent = [i \in 1..(masterIndex - 1) |-> Byte(n, i)]
    BY <2>1, <2>2 DEF Underway, Writing, Opening, Failing, SentFirst
  <2>4. Append(sent, twdr) = [i \in 1..masterIndex |-> Byte(n, i)]
    BY <1>1, <2>2, <2>3, Sizes
  <2>5. UNCHANGED Reading
    BY <2>1, CallFrame
  <2> QED BY <2>1, <2>2, <2>4, <2>5, BusStep DEF Failing
<1>6. CASE ReceiveByte
  <2>1. /\ ~twint /\ ~twsta /\ mode = "mr" /\ twint' = TRUE /\ mode' = "mr"
        /\ arrived' = arrived + 1 /\ twdr' = Byte(n, arrived')
        /\ status' = IF twea THEN "MR_DATA_ACK" ELSE "MR_DATA_NACK"
        /\ UNCHANGED <<driver, master, call, twcr, transfers>>
    BY <1>6 DEF ReceiveByte, other
  <2>2. Reading /\ arrived = masterIndex /\ masterIndex < asked
    BY <2>1 DEF Underway, Writing, ReadingBytes, Opening, Failing
  <2>3. twea <=> masterIndex < asked - 1
    BY <2>1, <2>2 DEF Underway, ReadingBytes, Opening, Failing
  <2>4. arrived' = masterIndex + 1 /\ arrived' \in 0..asked
    BY <1>1, <2>1, <2>2, Sizes
  <2>5. ~(masterIndex < asked - 1) => masterIndex = asked - 1
    BY <1>1, <2>2, Sizes
  <2>6. IF status' = "MR_DATA_ACK" THEN masterIndex < asked - 1 ELSE masterIndex = asked - 1
    BY <2>1, <2>3, <2>5
  <2> QED BY <2>1, <2>2, <2>4, <2>6, BusStep
<1>7. CASE BusError
  <2>1. /\ twint' = TRUE /\ mode' = "idle" /\ status' = "BUS_ERROR" /\ outcome' = "error"
        /\ UNCHANGED <<driver, master, call, twcr, transfers, sent, arrived>>
    BY <1>7 DEF BusError, other
  <2>2. Failing'
    BY <2>1 DEF Failing
  <2> QED BY <1>1, <2>1, <2>2, BusStep
<1> QED BY <1>2, <1>3, <1>4, <1>5, <1>6, <1>7 DEF Bus

(***************************************************************************)
(* A call that came too early, while the unit sends what it had in TWDR.   *)
(***************************************************************************)
LEMMA AstraySpins ==
  ASSUME Types, Collided, pc = "spin", UNCHANGED <<call, transfers>>,
         masterBuffer' \in [Index -> Nat], masterIndex' \in 0..255, twint' \in BOOLEAN,
         twsta' \in BOOLEAN, twea' \in BOOLEAN, twie' \in BOOLEAN,
         Astray' \/ Finished'
  PROVE  MasterInv'
<1>1. Types'
  BY CallFrame DEF Types
<1> QED BY <1>1, CallFrame DEF MasterInv

LEMMA AstrayEnds ==
  ASSUME Types, Astray, pc = "spin", UNCHANGED <<call, transfers>>,
         masterBuffer' \in [Index -> Nat], masterIndex' \in 0..255,
         EndTransfer, mode \in {"mt", "mr"}
  PROVE  MasterInv'
<1>1. /\ state' = "READY" /\ Free' /\ twint' = FALSE
      /\ twsta' \in BOOLEAN /\ twea' \in BOOLEAN /\ twie' \in BOOLEAN
  BY EndsFree DEF Astray
<1>2. Finished'
  BY <1>1, CallFrame DEF Astray, Finished
<1> QED BY <1>1, <1>2, AstraySpins DEF Astray

\* The handler stores a byte, wherever that is, and the call goes on.
LEMMA AstrayStore ==
  ASSUME Types, StoreReceived, twdr \in Nat
  PROVE  masterBuffer' \in [Index -> Nat] /\ masterIndex' \in 0..255
<1>1. masterIndex \in 0..255
  BY TwiAssumption DEF Types
<1>2. masterIndex' \in 0..255
  BY <1>1 DEF StoreReceived
<1>3. masterBuffer' \in [Index -> Nat]
  BY DEF StoreReceived, Types
<1> QED BY <1>2, <1>3

LEMMA AstrayIsr ==
  ASSUME MasterInv, pc = "spin", Astray, Isr
  PROVE  MasterInv'
<1> USE DEF Interrupt
<1>1. /\ Types /\ Collided /\ masterIndex \in 0..255 /\ masterBuffer \in [Index -> Nat]
      /\ masterLength \in 0..BufferLength
  BY TwiAssumption DEF MasterInv, Types, Astray
<1>2. \/ MasterTransmit \/ MasterReceive \/ MasterReceiveLast \/ TransferFails
  BY DEF Astray, Isr, StartSent, SlaveReceiveBegins, SlaveReceiveByte, SlaveReceiveStop,
         SlaveReceiveRefused, SlaveTransmitBegins, SlaveTransmitByte, SlaveTransmitEnds
<1>3. CASE MasterTransmit
  <2>1. /\ UNCHANGED <<call, transfers, masterBuffer, masterLength, arrived>> /\ mode = "mt"
        /\ twint
    BY <1>3 DEF MasterTransmit, other, own, Astray
  <2>2. CASE masterIndex < masterLength
    <3>1. /\ masterIndex' = masterIndex + 1 /\ UNCHANGED <<state, inRepStart, mode>>
          /\ twint' = FALSE /\ twsta' = FALSE /\ twea' = TRUE /\ twie' = TRUE
      BY <1>3, <2>2 DEF MasterTransmit, Reply, Write
    <3>2. masterIndex' \in 0..255
      BY <1>1, <2>2, <3>1, TwiAssumption
    <3>3. Astray'
      BY <2>1, <3>1, CallFrame DEF Astray, Spinning, Reading
    <3> QED BY <1>1, <2>1, <3>1, <3>2, <3>3, AstraySpins
  <2>3. CASE ~(masterIndex < masterLength)
    <3>1. EndTransfer /\ masterIndex' = masterIndex
      BY <1>3, <2>3 DEF MasterTransmit
    <3> QED BY <1>1, <2>1, <3>1, AstrayEnds
  <2> QED BY <2>2, <2>3
<1>4. CASE MasterReceive
  <2>1. /\ UNCHANGED <<call, transfers, masterLength, arrived, mode, state, inRepStart>>
        /\ twint' = FALSE /\ twsta' = FALSE /\ twie' = TRUE
        /\ twea' = (masterIndex' < masterLength)
    BY <1>4 DEF MasterReceive, Reply, Write, other, own, driver
  <2>2. masterBuffer' \in [Index -> Nat] /\ masterIndex' \in 0..255
    <3>1. CASE status = "MR_DATA_ACK"
      <4>1. twdr \in Nat
        BY <1>4, <3>1 DEF MasterReceive, Astray
      <4> QED BY <1>1, <1>4, <3>1, <4>1, AstrayStore DEF MasterReceive
    <3>2. CASE status # "MR_DATA_ACK"
      BY <1>1, <1>4, <3>2 DEF MasterReceive
    <3> QED BY <3>1, <3>2
  <2>3. Astray'
    BY <2>1, CallFrame DEF Astray, Spinning, Reading
  <2>4. twea' \in BOOLEAN
    BY <2>1
  <2> QED BY <1>1, <2>1, <2>2, <2>3, <2>4, AstraySpins
<1>5. CASE MasterReceiveLast
  <2>1. /\ UNCHANGED <<call, transfers>> /\ mode = "mr" /\ twdr \in Nat
        /\ StoreReceived /\ EndTransfer
    BY <1>5 DEF MasterReceiveLast, other, Astray
  <2>2. masterBuffer' \in [Index -> Nat] /\ masterIndex' \in 0..255
    BY <1>1, <2>1, AstrayStore
  <2> QED BY <1>1, <2>1, <2>2, AstrayEnds
<1>6. CASE TransferFails
  <2>1. /\ UNCHANGED <<call, transfers, inRepStart, masterBuffer, masterIndex>>
        /\ state' = "READY" /\ Stop
    BY <1>6 DEF TransferFails, other, master, Astray
  <2>2. Rest' /\ twint' = FALSE /\ twsta' = FALSE /\ twea' = TRUE /\ twie' = TRUE
    BY <2>1 DEF Stop, Write, Rest, Astray
  <2>3. Finished'
    BY <2>1, <2>2, CallFrame DEF Finished, Free, Astray
  <2> QED BY <1>1, <2>1, <2>2, <2>3, AstraySpins
<1> QED BY <1>2, <1>3, <1>4, <1>5, <1>6

LEMMA AstrayBus ==
  ASSUME OneMaster, MasterInv, pc = "spin", Astray, Bus
  PROVE  MasterInv'
<1> USE DEF Unit, Raise, twcr
<1>1. Types /\ Collided /\ arrived \in Nat /\ masterIndex \in 0..255 /\ n \in Nat
  BY TwiAssumption DEF MasterInv, Types, Astray
<1>2. ~Addressed /\ ~LoseArbitration /\ ~ForeignWrites /\ ~ForeignReads /\ ~SendStart
  <2>1. ~Addressed /\ ~LoseArbitration
    BY <1>1 DEF Addressed, LoseArbitration, OneMaster, Types
  <2>2. ~ForeignWrites /\ ~ForeignReads /\ ~SendStart
    BY DEF ForeignWrites, ForeignReads, SendStart, Astray
  <2> QED BY <2>1, <2>2
<1>3. /\ UNCHANGED <<driver, master, call, twsta, twea, twie, transfers>> /\ twint' = TRUE
      /\ arrived' \in Nat
      /\ \/ mode' = "mt" /\ status' \in {"MT_SLA_ACK", "MT_DATA_ACK"}
         \/ mode' = "mr" /\ status' = "MR_SLA_ACK"
         \/ mode' = "mr" /\ status' \in {"MR_DATA_ACK", "MR_DATA_NACK"} /\ twdr' \in Nat
         \/ /\ mode' \in {"idle", "mt", "mr"}
            /\ status' \in {"MT_SLA_NACK", "MT_DATA_NACK", "MR_SLA_NACK", "BUS_ERROR"}
  <2>1. CASE SendAddress \/ SendByte
    BY <1>1, <2>1 DEF SendAddress, SendByte, other
  <2>2. CASE ReceiveByte
    <3>1. arrived' \in Nat /\ twdr' = Byte(n, arrived')
      BY <1>1, <2>2 DEF ReceiveByte
    <3>2. twdr' \in Nat
      BY <1>1, <3>1, ByteType
    <3> QED BY <2>2, <3>1, <3>2 DEF ReceiveByte, other
  <2>3. CASE BusError
    BY <1>1, <2>3 DEF BusError, other
  <2> QED BY <1>2, <2>1, <2>2, <2>3 DEF Bus
<1>4. Astray'
  BY <1>3, CallFrame DEF Astray, Spinning, Reading, driver, master
<1>5. /\ masterBuffer' \in [Index -> Nat] /\ masterIndex' \in 0..255
      /\ twsta' \in BOOLEAN /\ twea' \in BOOLEAN /\ twie' \in BOOLEAN
  BY <1>1, <1>3 DEF Types, master
<1> QED BY <1>1, <1>3, <1>4, <1>5, AstraySpins

(***************************************************************************)
(* The theorems.                                                           *)
(***************************************************************************)
LEMMA NextKeeps == OneMaster /\ MasterInv /\ [Next]_vars => MasterInv'
<1> SUFFICES ASSUME OneMaster, MasterInv, [Next]_vars PROVE MasterInv'
  OBVIOUS
<1>1. pc = "spin" => Underway \/ Astray \/ Finished
  BY DEF MasterInv
<1>2. \/ pc = "spin" /\ (Underway \/ Astray)
      \/ pc = "address" /\ Engaged
      \/ pc # "address" /\ Free /\ (pc = "spin" => Finished)
  BY <1>1 DEF MasterInv, Types, Returned, Before, Ready, Addressing, Finished
<1>3. CASE MainStep
  BY <1>3, CallKeeps, WaitReadyKeeps, ClaimKeeps, StartKeeps, SendOnKeeps, ReturnKeeps
     DEF MainStep
<1>4. CASE Isr
  BY <1>2, <1>4, FreeIsr, IsrKeeps, AstrayIsr
<1>5. CASE Bus
  BY <1>2, <1>5, FreeKeeps, AddressingBus, BusKeeps, AstrayBus
<1>6. CASE UNCHANGED vars
  <2>1. UNCHANGED <<state, slarw, inRepStart, error, masterBuffer, masterIndex, masterLength,
                    pc, n, request, result, data, restart, mode, twint, status, twsta, twea, twie,
                    twdr, sent, arrived, outcome, transfers>>
    BY <1>6 DEF vars, driver, master, call, unit, twcr, own, other
  <2>2. UNCHANGED <<asked, Reading, Engaged, Collided, Free, Rest, Fresh, Spinning, Claimed,
                    Opening, Failing>>
    BY <2>1 DEF asked, Reading, Engaged, Collided, Free, Rest, Joint, Fresh, Spinning,
                Claimed, Opening, Failing
  <2>3. Underway' = Underway /\ Astray' = Astray /\ Finished' = Finished
    BY <2>1, <2>2 DEF Underway, Astray, Writing, ReadingBytes, Finished, SentFirst, ReadFirst
  <2>4. UNCHANGED <<Returned, Before, Ready, Addressing, Types>>
    BY <2>1, <2>2 DEF Returned, Before, Ready, Addressing, Types, WriteHonest, ReadHonest
  <2> QED BY <2>1, <2>3, <2>4 DEF MasterInv
<1> QED BY <1>3, <1>4, <1>5, <1>6 DEF Next

\* The strengthened invariant: between calls the bus is free, and during a call the
\* handler is at most one byte behind the device, unless the call came too early for
\* its repeated start and the unit sends what it had.
THEOREM MasterHolds == ASSUME OneMaster PROVE Spec => []MasterInv
<1>1. MasterInv /\ [Next]_vars => MasterInv'
  BY NextKeeps
<1> QED BY InitHolds, <1>1, PTL DEF Spec

LEMMA InvHonest == ASSUME MasterInv PROVE WriteHonest /\ ReadHonest
<1>1. pc = "idle" => WriteHonest /\ ReadHonest
  BY DEF MasterInv, Returned
<1>2. pc # "idle" => result = "none"
  BY DEF MasterInv, Types, Before, Ready, Addressing, Underway, Astray, Claimed, Finished
<1> QED BY <1>1, <1>2 DEF WriteHonest, ReadHonest

\* twi_writeTo returns 0 only if the device acknowledged every byte of this call,
\* in order, and 2 and 3 only for the errors they stand for.
THEOREM WritesHonestly == ASSUME OneMaster PROVE Spec => []WriteHonest
<1>1. MasterInv => WriteHonest
  BY InvHonest
<1> QED BY <1>1, MasterHolds, PTL

\* twi_readFrom returns the bytes of this call, and all of them if nothing went
\* wrong on the bus.
THEOREM ReadsHonestly == ASSUME OneMaster PROVE Spec => []ReadHonest
<1>1. MasterInv => ReadHonest
  BY InvHonest
<1> QED BY <1>1, MasterHolds, PTL

LEMMA InvNoExtraByte == ASSUME MasterInv PROVE NoExtraByte
<1> SUFFICES ASSUME ~Collided, pc # "wait", Reading PROVE arrived <= asked
  BY DEF NoExtraByte, Reading, asked
<1>1. Types /\ asked \in 0..255
  BY DEF MasterInv, Types, asked
<1>2. CASE pc \in {"claim", "start", "address"}
  <2>1. arrived = 0
    BY <1>2 DEF MasterInv, Before, Ready, Addressing, Fresh
  <2> QED BY <1>1, <2>1
<1>3. CASE pc = "spin"
  <2>1. arrived \in 0..asked
    BY <1>3 DEF MasterInv, Underway, ReadingBytes, Astray, Finished
  <2> QED BY <1>1, <2>1
<1>4. CASE pc = "idle"
  BY <1>4 DEF MasterInv, Returned
<1> QED BY <1>1, <1>2, <1>3, <1>4 DEF Types

\* The device sends no byte beyond those the call asked for.
THEOREM ReadsNoExtra == ASSUME OneMaster PROVE Spec => []NoExtraByte
<1>1. MasterInv => NoExtraByte
  BY InvNoExtraByte
<1> QED BY <1>1, MasterHolds, PTL

\* The handler stays within masterBuffer.
THEOREM StaysInBuffer == ASSUME OneMaster PROVE Spec => []FitsBuffer
<1>1. MasterInv => FitsBuffer
  <2>1. MasterInv /\ ~Collided => masterIndex \in 0..BufferLength
    BY DEF MasterInv, Types
  <2> QED BY <2>1, TwiAssumption DEF FitsBuffer
<1> QED BY <1>1, MasterHolds, PTL

\* When a call that asked for a stop has returned, the bus is free.
THEOREM ReleasesBus == ASSUME OneMaster PROVE Spec => []BusReleased
<1>1. MasterInv => BusReleased
  BY DEF MasterInv, Returned, Free, Rest, Joint, Engaged, BusReleased
<1> QED BY <1>1, MasterHolds, PTL
(***************************************************************************)
(* Types, for any number of masters, if no call asks for no bytes: the     *)
(* handler would then put all bytes up to the 256th behind the buffer.     *)
(***************************************************************************)
NoEmptyRead == 0 \notin ReadLengths

Requests == [op : {"read", "write"}, len : 0..255, stop : BOOLEAN]

\* TWDR holds a byte, not an address, when the handler stores it and when the board
\* answers as a slave.
DataSound ==
  /\ request \in Requests /\ masterLength <= BufferLength
  /\ pc \in {"wait", "claim"} =>
       request.len <= BufferLength /\ (request.op = "read" => request.len > 0)
  /\ mode = "mt" /\ twint =>
       status \in {"MT_SLA_ACK", "MT_DATA_ACK", "MT_SLA_NACK", "MT_DATA_NACK"}
  /\ mode = "st" /\ ~twint => twdr \in Nat
  /\ Pending({"MR_DATA_ACK", "MR_DATA_NACK"}) => twdr \in Nat

DriverInv == TypeOK /\ DataSound /\ UnitSound /\ ReceiveSound

DriverTyped ==
  /\ state \in States /\ slarw \in {TwRead, TwWrite}
  /\ sendStop \in BOOLEAN /\ inRepStart \in BOOLEAN
  /\ error \in {"none", "addrNack", "dataNack", "lost", "bus"}
MasterTyped ==
  masterBuffer \in [Index -> Nat] /\ masterIndex \in 0..255 /\ masterLength \in 0..255
SlaveTyped ==
  /\ txBuffer \in [Index -> Nat] /\ txIndex \in 0..255 /\ txLength \in 0..BufferLength
  /\ rxBuffer \in [Index -> Nat] /\ rxIndex \in 0..BufferLength
CallTyped ==
  /\ pc \in {"idle", "wait", "claim", "start", "address", "spin"} /\ n \in 0..MaxCalls
  /\ restart \in {"none", "collided", "lost"}
  /\ result \in {"none", "tooLong", "ok", "addrNack", "dataNack", "other", "read"}
UnitTyped ==
  /\ mode \in {"idle", "start", "mt", "mr", "sr", "st"}
  /\ twint \in BOOLEAN /\ twsta \in BOOLEAN /\ twea \in BOOLEAN /\ twie \in BOOLEAN
  /\ twdr \in Nat \union {TwRead, TwWrite}
OwnTyped == sent \in Seq(Nat \union {TwRead, TwWrite}) /\ arrived \in Nat
OtherTyped == read \in Seq(Nat) /\ handed \in Seq(Nat) /\ intruded \in BOOLEAN

LEMMA Bounds ==
  /\ BufferLength \in Nat /\ BufferLength > 0 /\ BufferLength < 255
  /\ MaxCalls \in Nat /\ 0 \in Index
BY TwiAssumption DEF Index

LEMMA TypeParts ==
  TypeOK <=> /\ DriverTyped /\ MasterTyped /\ SlaveTyped /\ CallTyped /\ UnitTyped
             /\ OwnTyped /\ OtherTyped
BY DEF TypeOK, DriverTyped, MasterTyped, SlaveTyped, CallTyped, UnitTyped, OwnTyped,
       OtherTyped

LEMMA TypePartsNext ==
  /\ DriverTyped' /\ MasterTyped' /\ SlaveTyped' /\ CallTyped' /\ UnitTyped'
  /\ OwnTyped' /\ OtherTyped'
  => TypeOK'
BY DEF TypeOK, DriverTyped, MasterTyped, SlaveTyped, CallTyped, UnitTyped, OwnTyped,
       OtherTyped

LEMMA TypeFrames ==
  /\ DriverTyped /\ UNCHANGED driver => DriverTyped'
  /\ MasterTyped /\ UNCHANGED master => MasterTyped'
  /\ SlaveTyped /\ UNCHANGED slave => SlaveTyped'
  /\ CallTyped /\ UNCHANGED call => CallTyped'
  /\ UnitTyped /\ UNCHANGED unit => UnitTyped'
  /\ OwnTyped /\ UNCHANGED own => OwnTyped'
  /\ OtherTyped /\ UNCHANGED other => OtherTyped'
<1>1. DriverTyped /\ UNCHANGED driver => DriverTyped'
  BY DEF DriverTyped, driver
<1>2. MasterTyped /\ UNCHANGED master => MasterTyped'
  BY DEF MasterTyped, master
<1>3. SlaveTyped /\ UNCHANGED slave => SlaveTyped'
  BY DEF SlaveTyped, slave
<1>4. CallTyped /\ UNCHANGED call => CallTyped'
  BY DEF CallTyped, call
<1>5. UnitTyped /\ UNCHANGED unit => UnitTyped'
  BY DEF UnitTyped, unit, twcr
<1>6. OwnTyped /\ UNCHANGED own => OwnTyped'
  BY DEF OwnTyped, own
<1>7. OtherTyped /\ UNCHANGED other => OtherTyped'
  BY DEF OtherTyped, other
<1> QED BY <1>1, <1>2, <1>3, <1>4, <1>5, <1>6, <1>7

LEMMA InitTyped == Init => TypeOK /\ DataSound
<1> SUFFICES ASSUME Init PROVE TypeOK /\ DataSound
  OBVIOUS
<1>1. DriverTyped
  <2>1. state = "READY" /\ slarw = TwWrite /\ sendStop = TRUE /\ inRepStart = FALSE
        /\ error = "none"
    BY DEF Init
  <2> QED BY <2>1 DEF DriverTyped, States
<1>2. MasterTyped
  <2>1. /\ masterBuffer \in [Index -> Nat]
    BY DEF Init
  <2>2. masterIndex = 0 /\ masterLength = 0
    BY DEF Init
  <2> QED BY <2>1, <2>2 DEF MasterTyped
<1>3. SlaveTyped
  <2>1. txBuffer \in [Index -> Nat] /\ rxBuffer \in [Index -> Nat]
    BY DEF Init
  <2>2. txIndex = 0 /\ txLength = 0 /\ rxIndex = 0
    BY DEF Init
  <2> QED BY <2>1, <2>2, Bounds DEF SlaveTyped
<1>4. UnitTyped
  BY DEF Init, UnitTyped
<1>5. CallTyped
  <2>1. pc = "idle" /\ n = 0 /\ result = "none" /\ restart = "none"
    BY DEF Init
  <2> QED BY <2>1, Bounds DEF CallTyped
<1>6. OwnTyped /\ OtherTyped
  <2>1. sent = <<>> /\ read = <<>> /\ handed = <<>>
    BY DEF Init
  <2>2. arrived = 0 /\ intruded = FALSE
    BY DEF Init
  <2>3. <<>> \in Seq(Nat) /\ <<>> \in Seq(Nat \union {TwRead, TwWrite})
    OBVIOUS
  <2> QED BY <2>1, <2>2, <2>3, Zenon DEF OwnTyped, OtherTyped
<1>7. DataSound
  <2>1. request = NoRequest
    BY DEF Init
  <2>2. request \in Requests
    BY <2>1 DEF Requests, NoRequest
  <2>3. pc = "idle" /\ mode = "idle" /\ masterLength = 0 /\ twint = FALSE
    BY DEF Init
  <2> QED BY <2>2, <2>3, Bounds DEF DataSound, Pending
<1> QED BY <1>1, <1>2, <1>3, <1>4, <1>5, <1>6, <1>7, TypeParts

LEMMA MainTyped ==
  ASSUME NoEmptyRead, DriverInv, MainStep
  PROVE  TypeOK' /\ DataSound'
<1> USE DEF DriverInv
<1>0. /\ DriverTyped /\ MasterTyped /\ SlaveTyped /\ CallTyped /\ UnitTyped
      /\ OwnTyped /\ OtherTyped
  BY TypeParts
<1>1. CASE CallReadFrom \/ CallWriteTo
  <2>1. PICK op \in {"read", "write"}, len \in 0..255, stop \in BOOLEAN :
          Call(op, len, stop) /\ (op = "read" => len > 0)
    BY <1>1, TwiAssumption DEF CallReadFrom, CallWriteTo, NoEmptyRead
  <2>10. n < MaxCalls /\ n' = n + 1 /\ sent' = <<>> /\ arrived' = 0
         /\ restart' = restart
    BY <2>1 DEF Call
  <2>11. IF len > BufferLength THEN pc' = "idle" /\ result' = "tooLong"
                               ELSE pc' = "wait" /\ result' = "none"
    BY <2>1 DEF Call
  <2>2. CallTyped'
    BY <1>0, <2>10, <2>11, Bounds DEF CallTyped
  <2>3. OwnTyped'
    BY <2>10 DEF OwnTyped
  <2>4. UNCHANGED <<driver, master, slave, unit, other>>
    BY <2>1 DEF Call
  <2>5. TypeOK'
    BY <1>0, <2>2, <2>3, <2>4, TypePartsNext, TypeFrames
  <2>12. request' = [op |-> op, len |-> len, stop |-> stop]
    BY <2>1 DEF Call
  <2>6. request' \in Requests
    BY <2>1, <2>12 DEF Requests
  <2>7. pc' = "wait" => request'.len <= BufferLength /\ (request'.op = "read" => request'.len > 0)
    BY <2>1, <2>11, <2>12, Bounds
  <2>8. pc' \in {"wait", "idle"}
    BY <2>11
  <2>9. DataSound'
    BY <2>4, <2>6, <2>7, <2>8 DEF DataSound, Pending, master, unit, twcr
  <2> QED BY <2>5, <2>9
<1>2. CASE WaitReady
  <2>1. CallTyped' /\ UNCHANGED <<driver, master, slave, unit, own, other>>
    BY <1>0, <1>2 DEF WaitReady, CallTyped
  <2>2. DataSound'
    BY <1>2 DEF WaitReady, Main, DataSound, Pending, master, unit, twcr
  <2> QED BY <1>0, <2>1, <2>2, TypePartsNext, TypeFrames
<1>3. CASE Claim
  <2>0. /\ request.len \in 0..BufferLength /\ (request.op = "read" => request.len > 0)
        /\ request \in Requests
    BY <1>3 DEF Claim, Main, DataSound, Requests
  <2>1. masterBuffer' \in [Index -> Nat]
    <3>1. CASE request.op = "read"
      BY <1>0, <1>3, <3>1 DEF Claim, MasterTyped
    <3>2. CASE request.op # "read"
      <4>1. \A i \in Index : Byte(n, i + 1) \in Nat
        BY <1>0, ByteType DEF CallTyped, Index
      <4> QED BY <1>0, <1>3, <3>2, <4>1 DEF Claim, MasterTyped
    <3> QED BY <3>1, <3>2
  <2>2. masterLength' \in 0..255 /\ masterLength' <= BufferLength
    <3>1. CASE request.op = "read"
      <4>1. (request.len - 1) % 256 = request.len - 1
        BY <2>0, <3>1, Bounds
      <4>2. masterLength' = request.len - 1
        BY <1>3, <3>1, <4>1 DEF Claim, MasterLength
      <4> QED BY <2>0, <3>1, <4>2, Bounds
    <3>2. CASE request.op # "read"
      <4>1. masterLength' = request.len
        BY <1>3, <3>2 DEF Claim
      <4> QED BY <2>0, <4>1, Bounds
    <3> QED BY <3>1, <3>2
  <2>3. DriverTyped'
    BY <1>0, <1>3, <2>0 DEF Claim, DriverTyped, States, Requests
  <2>4. CallTyped' /\ masterIndex' = 0 /\ UNCHANGED <<slave, unit, own, other>>
    BY <1>0, <1>3 DEF Claim, CallTyped
  <2>5. MasterTyped'
    BY <2>1, <2>2, <2>4 DEF MasterTyped
  <2>6. DataSound'
    BY <1>3, <2>0, <2>2, <2>4 DEF Claim, DataSound, Pending, unit, twcr
  <2> QED BY <1>0, <2>3, <2>4, <2>5, <2>6, TypePartsNext, TypeFrames
<1>4. CASE Start
  <2>1. twint => mode \notin {"mt", "st"}
    BY <1>4 DEF Start, Main, UnitSound, DataSound, Pending, Joined
  <2>2. DriverTyped' /\ CallTyped'
    BY <1>0, <1>4 DEF Start, DriverTyped, CallTyped
  <2>3. UnitTyped'
    BY <1>0, <1>4 DEF Start, UnitTyped, DriverTyped, Write, twcr
  <2>4. OtherTyped' /\ UNCHANGED <<master, slave, own, mode, status, request>>
    <3>1. UNCHANGED <<master, slave, own, mode, status, request, read, handed>>
      BY <1>4 DEF Start
    <3>2. intruded' = intruded \/ intruded' = (mode \in {"sr", "st"})
      BY <1>4 DEF Start
    <3>3. intruded' \in BOOLEAN
      <4>1. intruded \in BOOLEAN
        BY <1>0 DEF OtherTyped
      <4>2. (mode \in {"sr", "st"}) \in BOOLEAN
        OBVIOUS
      <4> QED BY <3>2, <4>1, <4>2, Zenon
    <3> QED BY <1>0, <3>1, <3>3 DEF OtherTyped
  <2>5. CASE inRepStart
    <3>1. twint' = twint /\ pc' = "address" /\ mode # "st"
      BY <1>4, <2>5 DEF Start, UnitSound, Pending, Joined
    <3>2. ~Pending({"MR_DATA_ACK", "MR_DATA_NACK"})
      BY <1>4, <2>5 DEF UnitSound, Pending, Joined
    <3>3. DataSound'
      BY <2>4, <3>1, <3>2 DEF DataSound, Pending, master
    <3> QED BY <1>0, <2>2, <2>3, <2>4, <3>3, TypePartsNext, TypeFrames
  <2>6. CASE ~inRepStart
    <3>1. twint' = FALSE /\ pc' = "spin" /\ twdr' = twdr
      BY <1>4, <2>6 DEF Start, Write
    <3>2. DataSound'
      BY <2>1, <2>4, <3>1 DEF DataSound, Pending, master
    <3> QED BY <1>0, <2>2, <2>3, <2>4, <3>2, TypePartsNext, TypeFrames
  <2> QED BY <2>5, <2>6
<1>5. CASE SendOn
  <2>1. /\ pc' = "spin" /\ twint' = FALSE /\ twea' = TRUE /\ twie' = TRUE
        /\ twsta' \in BOOLEAN /\ restart' \in {"lost", restart}
        /\ UNCHANGED <<driver, master, slave, n, request, result, mode, twdr, own, other>>
    BY <1>5 DEF SendOn, Write
  <2>2. twint => mode # "st"
    BY <1>5 DEF SendOn, Main, UnitSound, Pending, Joined
  <2>3. CallTyped' /\ UnitTyped'
    BY <1>0, <2>1 DEF CallTyped, UnitTyped
  <2>4. DataSound'
    BY <2>1, <2>2 DEF DataSound, Pending, master
  <2> QED BY <1>0, <2>1, <2>3, <2>4, TypePartsNext, TypeFrames
<1>6. CASE Return
  <2>1. CallTyped' /\ UNCHANGED <<driver, master, slave, unit, own, other>>
    BY <1>0, <1>6 DEF Return, CallTyped
  <2>2. DataSound'
    BY <1>6, <2>1 DEF Return, DataSound, Pending, master, unit, twcr
  <2> QED BY <1>0, <2>1, <2>2, TypePartsNext, TypeFrames
<1> QED BY <1>1, <1>2, <1>3, <1>4, <1>5, <1>6 DEF MainStep

\* What the handler writes to the unit.
LEMMA WriteTyped ==
  ASSUME NEW sta \in BOOLEAN, NEW ea \in BOOLEAN, NEW ie \in BOOLEAN, Write(sta, ea, ie),
         UnitTyped, mode' \in {mode, "idle"}, twdr' \in Nat \union {TwRead, TwWrite}
  PROVE  UnitTyped'
BY DEF Write, UnitTyped

LEMMA ReplyTyped ==
  ASSUME NEW ack, Reply(ack), ack \in BOOLEAN, UnitTyped, twdr' \in Nat \union {TwRead, TwWrite}
  PROVE  UnitTyped'
BY DEF Reply, Write, UnitTyped

LEMMA EndTyped ==
  ASSUME EndTransfer, UnitTyped, DriverTyped, UNCHANGED <<slarw, sendStop, error, twdr>>
  PROVE  UnitTyped' /\ DriverTyped'
<1>1. DriverTyped'
  BY DEF EndTransfer, DriverTyped, States
<1>2. UnitTyped'
  BY DEF EndTransfer, Stop, Write, UnitTyped
<1> QED BY <1>1, <1>2

LEMMA IsrTyped ==
  ASSUME DriverInv, Isr
  PROVE  TypeOK' /\ DataSound'
<1> USE DEF DriverInv
<1>0. /\ DriverTyped /\ MasterTyped /\ SlaveTyped /\ CallTyped /\ UnitTyped
      /\ OwnTyped /\ OtherTyped
  BY TypeParts
<1> DEFINE Quiet ==
      /\ UNCHANGED <<pc, request, masterLength>> /\ twint' = FALSE
      /\ mode' = "st" => twdr' \in Nat
<1>00. Quiet => DataSound'
  BY DEF DataSound, Pending
<1>1. CASE StartSent
  <2>1. /\ twdr' \in {TwRead, TwWrite} /\ Reply(TRUE) /\ restart' = "none"
        /\ UNCHANGED <<driver, master, slave, pc, n, request, result, own, other>>
    BY <1>0, <1>1 DEF StartSent, DriverTyped
  <2>2. UnitTyped'
    BY <1>0, <2>1, WriteTyped DEF Reply
  <2>3. CallTyped'
    BY <1>0, <2>1 DEF CallTyped
  <2>4. mode # "st"
    BY <1>1 DEF StartSent, Interrupt, DataSound, UnitSound
  <2>5. Quiet
    BY <2>1, <2>4 DEF Reply, Write, master
  <2> QED BY <1>0, <1>00, <2>1, <2>2, <2>3, <2>5, TypePartsNext, TypeFrames
<1>2. CASE MasterTransmit
  <2>0. /\ mode = "mt" /\ UNCHANGED <<slarw, sendStop, error, masterBuffer, masterLength>>
        /\ UNCHANGED <<slave, call, own, other>>
    BY <1>2 DEF MasterTransmit, Interrupt, UnitSound, Pending
  <2>1. CASE masterIndex < masterLength
    <3>1. masterBuffer[masterIndex] \in Nat
      BY <1>0, <2>1, Bounds DEF MasterTyped, DataSound, Index
    <3>2. /\ twdr' \in Nat /\ masterIndex' = masterIndex + 1
          /\ UNCHANGED <<state, inRepStart>> /\ Reply(TRUE)
      BY <1>2, <2>1, <3>1 DEF MasterTransmit
    <3>3. UnitTyped'
      BY <1>0, <3>2, WriteTyped DEF Reply
    <3>4. DriverTyped'
      BY <1>0, <2>0, <3>2 DEF DriverTyped
    <3>5. MasterTyped'
      BY <1>0, <2>0, <2>1, <3>2 DEF MasterTyped
    <3>6. Quiet
      BY <2>0, <3>2 DEF call, Reply, Write
    <3> QED BY <1>0, <1>00, <2>0, <3>3, <3>4, <3>5, <3>6, TypePartsNext, TypeFrames
  <2>2. CASE ~(masterIndex < masterLength)
    <3>1. EndTransfer /\ UNCHANGED <<twdr, masterIndex>>
      BY <1>2, <2>2 DEF MasterTransmit
    <3>2. UnitTyped' /\ DriverTyped'
      BY <1>0, <2>0, <3>1, EndTyped
    <3>3. Quiet
      BY <2>0, <3>1, <3>2 DEF call, EndTransfer, Stop, Write
    <3>4. UNCHANGED master
      BY <2>0, <3>1 DEF master
    <3> QED BY <1>0, <1>00, <2>0, <3>2, <3>3, <3>4, TypePartsNext, TypeFrames
  <2> QED BY <2>1, <2>2
<1>3. CASE MasterReceive \/ MasterReceiveLast
  <2>0. mode = "mr" /\ UNCHANGED <<masterLength, twdr, slarw, sendStop, error>>
        /\ UNCHANGED <<slave, call, own, other>>
    BY <1>3 DEF MasterReceive, MasterReceiveLast, Interrupt, UnitSound, Pending, driver
  <2>5. MasterTyped'
    <3>1. CASE status = "MR_SLA_ACK"
      <4>1. UNCHANGED <<masterBuffer, masterIndex>>
        BY <1>3, <3>1 DEF MasterReceive, MasterReceiveLast, Interrupt
      <4> QED BY <1>0, <2>0, <4>1 DEF MasterTyped
    <3>2. CASE status # "MR_SLA_ACK"
      <4>1. StoreReceived /\ twint /\ status \in {"MR_DATA_ACK", "MR_DATA_NACK"}
        BY <1>3, <3>2 DEF MasterReceive, MasterReceiveLast, Interrupt
      <4>2. twdr \in Nat
        BY <4>1 DEF DataSound, Pending
      <4>3. masterBuffer \in [Index -> Nat] /\ masterIndex \in 0..255 /\ masterLength \in 0..255
        BY <1>0 DEF MasterTyped
      <4>4. masterBuffer' \in [Index -> Nat]
        BY <4>1, <4>2, <4>3 DEF StoreReceived
      <4>5. masterIndex' \in 0..255
        BY <4>1, <4>3 DEF StoreReceived
      <4> QED BY <2>0, <4>3, <4>4, <4>5 DEF MasterTyped
    <3> QED BY <3>1, <3>2
  <2>3. CASE MasterReceive
    <3>1. Reply(masterIndex' < masterLength) /\ UNCHANGED driver
      BY <2>3 DEF MasterReceive
    <3>2. UnitTyped'
      <4>1. (masterIndex' < masterLength) \in BOOLEAN
        OBVIOUS
      <4>2. twdr' \in Nat \union {TwRead, TwWrite}
        BY <1>0, <2>0 DEF UnitTyped
      <4> QED BY <1>0, <3>1, <4>1, <4>2, ReplyTyped
    <3>3. Quiet
      BY <2>0, <3>1 DEF call, Reply, Write
    <3> QED BY <1>0, <1>00, <2>0, <2>5, <3>1, <3>2, <3>3, TypePartsNext, TypeFrames
  <2>4. CASE MasterReceiveLast
    <3>1. EndTransfer
      BY <2>4 DEF MasterReceiveLast
    <3>2. UnitTyped' /\ DriverTyped'
      BY <1>0, <2>0, <3>1, EndTyped
    <3>3. Quiet
      BY <2>0, <3>1 DEF call, EndTransfer, Stop, Write
    <3> QED BY <1>0, <1>00, <2>0, <2>5, <3>2, <3>3, TypePartsNext, TypeFrames
  <2> QED BY <1>3, <2>3, <2>4
<1>4. CASE TransferFails
  <2>1. error' \in {"none", "addrNack", "dataNack", "lost", "bus"}
    BY <1>0, <1>4 DEF TransferFails, Interrupt, ErrorOf, DriverTyped
  <2>2. /\ UNCHANGED <<slarw, sendStop, inRepStart, twdr>> /\ state' = "READY"
        /\ UNCHANGED <<master, slave, call, own, other>>
    BY <1>4 DEF TransferFails
  <2>3. DriverTyped'
    BY <1>0, <2>1, <2>2 DEF DriverTyped, States
  <2>4. Write(FALSE, TRUE, TRUE) /\ mode' \in {mode, "idle"}
    BY <1>4 DEF TransferFails, Stop, ReleaseBus
  <2>5. UnitTyped'
    BY <1>0, <2>2, <2>4, WriteTyped DEF UnitTyped
  <2>6. mode' \notin {"mt", "st"}
    BY <1>4 DEF TransferFails, Interrupt, Stop, ReleaseBus, DataSound, UnitSound
  <2>7. Quiet
    BY <2>2, <2>4, <2>6 DEF call, Write, master
  <2> QED BY <1>0, <1>00, <2>2, <2>3, <2>5, <2>7, TypePartsNext, TypeFrames
<1>5. CASE SlaveReceiveBegins \/ SlaveReceiveByte \/ SlaveReceiveStop \/ SlaveReceiveRefused
           \/ SlaveTransmitEnds
  <2> USE DEF SlaveReceiveBegins, SlaveReceiveByte, SlaveReceiveStop, SlaveReceiveRefused,
              SlaveTransmitEnds
  <2>1. UNCHANGED <<twdr, slarw, sendStop, inRepStart, error>>
    BY <1>5 DEF driver
  <2>2. UNCHANGED <<master, call, own>>
    BY <1>5
  <2>3. state' \in {state, "SRX", "READY"}
    BY <1>5 DEF driver
  <2>4. \E ea \in BOOLEAN : Write(FALSE, ea, TRUE) /\ mode' \in {mode, "idle"}
    BY <1>5 DEF Reply, Stop
  <2>5. mode \notin {"mt", "st"}
    BY <1>5 DEF Interrupt, DataSound, UnitSound
  <2>6. SlaveTyped'
    <3>1. rxIndex' \in 0..BufferLength
      <4>1. rxIndex \in 0..BufferLength
        BY <1>0 DEF SlaveTyped
      <4>2. \/ rxIndex' \in {rxIndex, 0}
            \/ rxIndex < BufferLength /\ rxIndex' = rxIndex + 1
        BY <1>5 DEF RoomInRxBuffer, slave
      <4> QED BY <4>1, <4>2, Bounds
    <3>2. rxBuffer' \in [Index -> Nat]
      <4>1. CASE SlaveReceiveByte
        <5>1. twdr \in Nat
          BY <4>1 DEF Interrupt, ReceiveSound, Pending
        <5> QED BY <1>0, <4>1, <5>1 DEF SlaveTyped
      <4>2. CASE SlaveReceiveStop
        BY <1>0, <4>2 DEF SlaveTyped
      <4> QED BY <1>0, <1>5, <4>1, <4>2 DEF SlaveTyped, slave
    <3>3. UNCHANGED <<txBuffer, txIndex, txLength>>
      BY <1>5 DEF slave
    <3> QED BY <1>0, <3>1, <3>2, <3>3 DEF SlaveTyped
  <2>7. OtherTyped'
    <3>1. CASE SlaveReceiveStop
      <4>1. handed' = [k \in 1..rxIndex |-> rxBuffer'[k - 1]]
        BY <3>1
      <4>2. rxIndex \in 0..BufferLength /\ rxBuffer' \in [Index -> Nat]
        BY <1>0, <2>6 DEF SlaveTyped
      <4>3. \A k \in 1..rxIndex : rxBuffer'[k - 1] \in Nat
        BY <4>2, Bounds DEF Index
      <4>4. handed' \in Seq(Nat)
        BY <4>1, <4>2, <4>3
      <4> QED BY <1>0, <3>1, <4>4 DEF OtherTyped
    <3> QED BY <1>0, <1>5, <3>1, TypeFrames
  <2> HIDE DEF SlaveReceiveBegins, SlaveReceiveByte, SlaveReceiveStop, SlaveReceiveRefused,
              SlaveTransmitEnds
  <2>8. DriverTyped'
    BY <1>0, <2>1, <2>3 DEF DriverTyped, States
  <2>9. UnitTyped'
    BY <1>0, <2>1, <2>4, WriteTyped DEF UnitTyped
  <2>10. Quiet
    BY <2>2, <2>4, <2>5 DEF call, Write, master
  <2> QED BY <1>0, <1>00, <2>2, <2>6, <2>7, <2>8, <2>9, <2>10, TypePartsNext, TypeFrames
<1>6. CASE SlaveTransmitBegins
  <2>1. PICK len \in SlaveReplies :
          IF Transmitted(len) = 0
          THEN txLength' = 1 /\ txBuffer' = [txBuffer EXCEPT ![0] = 0]
          ELSE /\ txLength' = Transmitted(len)
               /\ txBuffer' = [i \in Index |-> IF i < len THEN i + 1 ELSE txBuffer[i]]
    BY <1>6 DEF SlaveTransmitBegins
  <2>2. len \in 0..255 /\ txBuffer \in [Index -> Nat]
    BY <1>0, TwiAssumption DEF SlaveTyped
  <2>3. txBuffer' \in [Index -> Nat]
    <3>1. CASE Transmitted(len) = 0
      BY <2>1, <2>2, <3>1
    <3>2. CASE Transmitted(len) # 0
      <4>1. \A i \in Index : i + 1 \in Nat
        BY DEF Index
      <4> QED BY <2>1, <2>2, <3>2, <4>1
    <3> QED BY <3>1, <3>2
  <2>4. txLength' \in 0..BufferLength
    BY <2>1, <2>2, Bounds DEF Transmitted
  <2>5. /\ txIndex' = 1 /\ twdr' = txBuffer'[0] /\ Reply(txIndex' < txLength')
        /\ state' = "STX" /\ UNCHANGED <<slarw, sendStop, inRepStart, error>>
        /\ UNCHANGED <<rxBuffer, rxIndex, read, handed, intruded>>
        /\ UNCHANGED <<master, call, own>>
    BY <1>6 DEF SlaveTransmitBegins
  <2>6. twdr' \in Nat
    BY <2>3, <2>5, Bounds
  <2>7. SlaveTyped'
    BY <1>0, <2>3, <2>4, <2>5 DEF SlaveTyped
  <2>8. DriverTyped'
    BY <1>0, <2>5 DEF DriverTyped, States
  <2>9. OtherTyped'
    BY <1>0, <2>5 DEF OtherTyped
  <2>10. UnitTyped'
    <3>1. (txIndex' < txLength') \in BOOLEAN
      OBVIOUS
    <3> QED BY <1>0, <2>5, <2>6, <3>1, ReplyTyped
  <2>11. Quiet
    BY <2>5, <2>6 DEF call, Reply, Write, master
  <2> QED BY <1>0, <1>00, <2>5, <2>7, <2>8, <2>9, <2>10, <2>11, TypePartsNext, TypeFrames
<1>7. CASE SlaveTransmitByte
  <2>1. /\ twdr' \in TxBytes(txIndex) /\ txIndex' = (txIndex + 1) % 256
        /\ Reply(MoreToSend(txIndex'))
        /\ UNCHANGED <<txBuffer, txLength, rxBuffer, rxIndex>>
        /\ UNCHANGED <<driver, master, call, own, other>>
    BY <1>7 DEF SlaveTransmitByte
  <2>2. twdr' \in Nat
    BY <1>0, <2>1 DEF TxBytes, SlaveTyped
  <2>3. SlaveTyped'
    BY <1>0, <2>1 DEF SlaveTyped
  <2>4. UnitTyped'
    <3>1. MoreToSend(txIndex') \in BOOLEAN
      BY DEF MoreToSend
    <3> QED BY <1>0, <2>1, <2>2, <3>1, ReplyTyped
  <2>5. Quiet
    BY <2>1, <2>2 DEF call, Reply, Write, master
  <2> QED BY <1>0, <1>00, <2>1, <2>3, <2>4, <2>5, TypePartsNext, TypeFrames
<1> QED BY <1>1, <1>2, <1>3, <1>4, <1>5, <1>6, <1>7 DEF Isr

LEMMA BusTyped ==
  ASSUME DriverInv, Bus
  PROVE  TypeOK' /\ DataSound'
<1> USE DEF DriverInv
<1>0. /\ DriverTyped /\ MasterTyped /\ SlaveTyped /\ CallTyped /\ UnitTyped
      /\ OwnTyped /\ OtherTyped
  BY TypeParts
<1> USE DEF SendStart, SendAddress, SendByte, ReceiveByte, Addressed, LoseArbitration,
            Address, ForeignWrites, ForeignReads, BusError, Unit, Raise
<1>1. UNCHANGED <<driver, master, slave, call, twcr>> /\ twint' = TRUE /\ ~twint
  BY DEF Bus
<1>2. mode' = "mt" =>
        status' \in {"MT_SLA_ACK", "MT_DATA_ACK", "MT_SLA_NACK", "MT_DATA_NACK"}
  BY DEF Bus
<1>3. ReceiveByte \/ ForeignWrites \/ UNCHANGED twdr
  BY DEF Bus
<1>4. status' \in {"MR_DATA_ACK", "MR_DATA_NACK"} => ReceiveByte
  BY DEF Bus
<1>5. ReceiveByte => twdr' \in Nat /\ arrived' \in Nat /\ UNCHANGED sent
  BY <1>0, ByteType DEF OwnTyped, CallTyped
<1>6. ForeignWrites => twdr' \in Nat \union {TwRead, TwWrite}
  BY <1>0 DEF ReceiveSound, UnitTyped
<1>7. mode' \in {"idle", "start", "mt", "mr", "sr", "st"}
  BY DEF Bus
<1>8. OwnTyped'
  <2>1. CASE SendByte
    BY <1>0, <2>1 DEF OwnTyped, UnitTyped
  <2>2. SendByte \/ ReceiveByte \/ UNCHANGED <<sent, arrived>>
    BY DEF Bus, own
  <2> QED BY <1>0, <1>5, <2>1, <2>2 DEF OwnTyped
<1>9. OtherTyped'
  <2>1. CASE ForeignReads
    <3>1. read' \in Seq(Nat)
      BY <1>0, <2>1 DEF OtherTyped, DataSound
    <3> QED BY <1>0, <2>1, <3>1 DEF OtherTyped
  <2>2. CASE Addressed \/ LoseArbitration
    <3>1. read' \in {read, <<>>} /\ UNCHANGED handed /\ intruded' \in {intruded, FALSE}
      BY <2>2
    <3>2. <<>> \in Seq(Nat)
      OBVIOUS
    <3> QED BY <1>0, <3>1, <3>2, Zenon DEF OtherTyped
  <2>3. ForeignReads \/ Addressed \/ LoseArbitration \/ UNCHANGED <<read, handed, intruded>>
    BY DEF Bus, other
  <2> QED BY <1>0, <2>1, <2>2, <2>3 DEF OtherTyped
<1> HIDE DEF SendStart, SendAddress, SendByte, ReceiveByte, Addressed, LoseArbitration,
            Address, ForeignWrites, ForeignReads, BusError, Unit, Raise
<1>10. UnitTyped'
  BY <1>0, <1>1, <1>3, <1>5, <1>6, <1>7 DEF UnitTyped, twcr
<1>11. DataSound'
  BY <1>1, <1>2, <1>4, <1>5 DEF DataSound, Pending, master, call
<1> QED BY <1>0, <1>1, <1>8, <1>9, <1>10, <1>11, TypePartsNext, TypeFrames

\* Every variable has its type, among any number of masters: what the handler puts
\* into its buffers, hands to the sketch or sends as a slave is a byte, and never the
\* address that TWDR holds in between; and rxIndex and txLength stay within their
\* buffers.  The type says no more of masterIndex and txIndex than that they are bytes.
THEOREM DriverTypeCorrect == ASSUME NoEmptyRead PROVE Spec => []TypeOK
<1>1. Init => DriverInv
  BY InitTyped, InitUnit, InitReceive DEF DriverInv
<1>2. DriverInv /\ [Next]_vars => DriverInv'
  <2> SUFFICES ASSUME DriverInv, [Next]_vars PROVE DriverInv'
    OBVIOUS
  <2>1. UnitSound' /\ ReceiveSound'
    BY NextUnit, NextReceive DEF DriverInv
  <2>2. ASSUME UNCHANGED vars PROVE TypeOK' /\ DataSound'
    BY <2>2 DEF DriverInv, TypeOK, DataSound, Pending, vars, driver, master, slave, call,
                unit, twcr, own, other
  <2> QED BY <2>1, <2>2, MainTyped, IsrTyped, BusTyped DEF Next, DriverInv
<1>3. DriverInv => TypeOK
  BY DEF DriverInv
<1> QED BY <1>1, <1>2, <1>3, PTL DEF Spec
================================================================================
