---------------------------------- MODULE Twi ----------------------------------
(***************************************************************************)
(* The two-wire (I2C) driver twi.c of the AVR core: the main thread calls  *)
(* twi_readFrom and twi_writeTo and spins on twi_state, the TWI interrupt  *)
(* handler carries the transfer on, and also serves a foreign master that  *)
(* addresses this board as a slave.                                        *)
(*                                                                         *)
(* A call is a few steps, split where an interrupt in between matters; the *)
(* handler is one step per bus status.  The unit, the device the board     *)
(* addresses and the foreign master are external: they choose any outcome  *)
(* that the two-wire bus allows.  Interrupts are enabled.                  *)
(*                                                                         *)
(* The k-th byte of the n-th call is Byte(n, k), written or read; the k-th *)
(* byte of a transfer in slave mode is k; 0 is the filler byte.            *)
(***************************************************************************)
EXTENDS Integers, Sequences, FiniteSets

CONSTANTS BufferLength,    \* TWI_BUFFER_LENGTH
          MaxCalls,        \* bound: calls of twi_readFrom and twi_writeTo
          ReadLengths,     \* the lengths twi_readFrom is called with
          WriteLengths,    \* the lengths twi_writeTo is called with
          Stops,           \* the values of sendStop
          MaxTransfers,    \* bound: transfers started by the foreign master
          MaxForeignBytes, \* bound: bytes the foreign master writes in one
          SlaveReplies,    \* lengths the slave callback passes to twi_transmit;
                           \* 0: it does not call it
          BusErrors        \* TRUE: illegal start and stop conditions happen

ASSUME TwiAssumption ==
  /\ BufferLength \in Nat \ {0} /\ BufferLength < 255
  /\ MaxCalls \in Nat /\ Stops \subseteq BOOLEAN
  /\ ReadLengths \subseteq 0..255 /\ WriteLengths \subseteq 0..255
  /\ MaxTransfers \in Nat /\ MaxForeignBytes \in Nat
  /\ SlaveReplies \subseteq 0..255 /\ BusErrors \in BOOLEAN

VARIABLES
  \* twi.c
  state, slarw, sendStop, inRepStart, error,
  masterBuffer, masterIndex, masterLength,
  txBuffer, txIndex, txLength,
  rxBuffer, rxIndex,
  \* the call the main thread is in
  pc, n, request, result, data,
  restart,    \* what became of its repeated start: "collided", if the call wrote
              \* its address before that was on the bus; "lost", if it found a
              \* bus error instead; or "none"
  \* the unit: TWINT, TWSR, TWSTA, TWEA and TWIE of TWCR, TWDR
  mode, twint, status, twsta, twea, twie, twdr,
  \* history of the bus
  sent,       \* bytes of this call the addressed device acknowledged
  arrived,    \* bytes of this call the addressed device sent
  outcome,    \* how the bus ended this call, "" while it goes on
  transfers,  \* transfers the foreign master started
  accepted,   \* bytes of its transfer the unit acknowledged
  read,       \* bytes it read in its transfer
  offered,    \* the length the slave callback offered
  intruded,   \* the main thread went on with a call during its transfer
  handed      \* what the last slave callback was given

driver == <<state, slarw, sendStop, inRepStart, error>>
master == <<masterBuffer, masterIndex, masterLength>>
slave  == <<txBuffer, txIndex, txLength, rxBuffer, rxIndex>>
call   == <<pc, n, request, result, data, restart>>
twcr   == <<twsta, twea, twie>>
unit   == <<mode, twint, status, twcr, twdr>>
own    == <<sent, arrived, outcome>>
other  == <<transfers, accepted, read, offered, handed, intruded>>
vars   == <<driver, master, slave, call, unit, own, other>>

Index == 0 .. BufferLength - 1
Byte(m, k) == m * (BufferLength + 1) + k
TwRead == -1
TwWrite == -2
NoRequest == [op |-> "write", len |-> 0, stop |-> TRUE]
Upto(k) == [i \in 1..k |-> i]

Init ==
  /\ state = "READY" /\ slarw = TwWrite /\ sendStop = TRUE /\ inRepStart = FALSE
  /\ error = "none"
  /\ masterBuffer = [i \in Index |-> 0] /\ masterIndex = 0 /\ masterLength = 0
  /\ txBuffer = [i \in Index |-> 0] /\ txIndex = 0 /\ txLength = 0
  /\ rxBuffer = [i \in Index |-> 0] /\ rxIndex = 0
  /\ pc = "idle" /\ n = 0 /\ request = NoRequest /\ result = "none" /\ data = <<>>
  /\ restart = "none"
  \* twi_init() has run: the unit answers its address and may interrupt
  /\ mode = "idle" /\ twint = FALSE /\ status = "NO_INFO"
  /\ twsta = FALSE /\ twea = TRUE /\ twie = TRUE /\ twdr = 0
  /\ sent = <<>> /\ arrived = 0 /\ outcome = ""
  /\ transfers = 0 /\ accepted = 0 /\ read = <<>> /\ offered = 0 /\ handed = <<>>
  /\ intruded = FALSE

(***************************************************************************)
(* What is written to TWCR.  Each write sets TWINT, which lets the unit go *)
(* on.  twi_stop() waits for the stop condition, so that is part of it.    *)
(***************************************************************************)
Write(sta, ea, ie) ==
  twint' = FALSE /\ twsta' = sta /\ twea' = ea /\ twie' = ie

Reply(ack) == Write(FALSE, ack, TRUE) /\ UNCHANGED <<mode, status>>

Stop == Write(FALSE, TRUE, TRUE) /\ mode' = "idle" /\ UNCHANGED status

ReleaseBus == Write(FALSE, TRUE, TRUE) /\ UNCHANGED <<mode, status>>

(***************************************************************************)
(* The main thread.  It runs only while no interrupt is pending.           *)
(***************************************************************************)
Main(from) == pc = from /\ ~(twint /\ twie)

\* The length check that both functions start with.
Call(op, len, stop) ==
  /\ Main("idle") /\ n < MaxCalls
  /\ n' = n + 1
  /\ request' = [op |-> op, len |-> len, stop |-> stop]
  /\ IF len > BufferLength THEN pc' = "idle" /\ result' = "tooLong"
                           ELSE pc' = "wait" /\ result' = "none"
  /\ data' = <<>> /\ sent' = <<>> /\ arrived' = 0 /\ outcome' = ""
  /\ UNCHANGED <<driver, master, slave, restart, unit, other>>

CallReadFrom == \E len \in ReadLengths, stop \in Stops : Call("read", len, stop)
CallWriteTo == \E len \in WriteLengths, stop \in Stops : Call("write", len, stop)

\* while(TWI_READY != twi_state)
WaitReady ==
  /\ Main("wait") /\ state = "READY"
  /\ pc' = "claim"
  /\ UNCHANGED <<driver, master, slave, n, request, result, data, restart, unit, own,
                 other>>

\* Mutant: every byte that is read is acknowledged.
LastIsLength(len) == len

\* The bytes the handler acknowledges when it reads len: 255 for none.
MasterLength(len) == (len - 1) % 256

\* The call takes twi_state and fills the variables of the handler.
Claim ==
  /\ Main("claim")
  /\ pc' = "start"
  /\ sendStop' = request.stop /\ error' = "none" /\ masterIndex' = 0
  /\ restart' = "none"
  /\ IF request.op = "read"
     THEN /\ state' = "MRX" /\ slarw' = TwRead
          /\ masterLength' = MasterLength(request.len)
          /\ UNCHANGED masterBuffer
     ELSE /\ state' = "MTX" /\ slarw' = TwWrite
          /\ masterLength' = request.len
          /\ masterBuffer' = [i \in Index |-> IF i < request.len THEN Byte(n, i + 1)
                                              ELSE masterBuffer[i]]
  /\ UNCHANGED <<inRepStart, slave, n, request, result, data, unit, own, other>>

\* A start condition; or, if the handler has asked for a repeated start, the
\* address for it.  The call does not look whether that start is on the bus by
\* now ("we hope"): before that, TWDR ignores what is written.
Start ==
  /\ Main("start")
  /\ IF inRepStart
     THEN /\ pc' = "address" /\ inRepStart' = FALSE
          /\ twdr' = IF twint THEN slarw ELSE twdr
          /\ restart' = IF twint THEN "none" ELSE "collided"
          /\ UNCHANGED <<twint, twcr, intruded>>
     ELSE /\ pc' = "spin"
          /\ Write(TRUE, TRUE, TRUE)
          /\ intruded' = (mode \in {"sr", "st"})
          /\ UNCHANGED <<inRepStart, twdr, restart>>
  /\ UNCHANGED <<state, slarw, sendStop, error, master, slave, n, request, result,
                 data, mode, status, own, transfers, accepted, read, offered, handed>>

\* Mutant: the interrupt that the handler has turned off stays off.
InterruptStaysOff ==
  /\ Main("address")
  /\ pc' = "spin"
  /\ Write(FALSE, TRUE, FALSE)
  /\ UNCHANGED <<driver, master, slave, n, request, result, data, restart, mode, status,
                 twdr, own, other>>

\* TWCR is written: the unit sends what is in TWDR.  If it has not come to the
\* repeated start yet, either that goes out all the same or it is withdrawn.
SendOn ==
  /\ Main("address")
  /\ pc' = "spin"
  /\ \/ Write(FALSE, TRUE, TRUE)
     \/ ~twint /\ Write(TRUE, TRUE, TRUE)
  /\ restart' = IF mode = "idle" THEN "lost" ELSE restart
  /\ UNCHANGED <<driver, master, slave, n, request, result, data, mode, status, twdr,
                 own, other>>

SmallerOf(a, b) == IF a < b THEN a ELSE b

Spinning == state = IF request.op = "read" THEN "MRX" ELSE "MTX"

\* The loop ends, and the call says how it went.
Return ==
  /\ Main("spin") /\ ~Spinning
  /\ pc' = "idle"
  /\ IF request.op = "read"
     THEN /\ result' = "read"
          /\ data' = [k \in 1..SmallerOf(masterIndex, request.len) |-> masterBuffer[k - 1]]
     ELSE /\ result' = IF error = "none" THEN "ok"
                       ELSE IF error \in {"addrNack", "dataNack"} THEN error
                       ELSE "other"
          /\ UNCHANGED data
  /\ UNCHANGED <<driver, master, slave, n, request, restart, unit, own, other>>

MainStep ==
  CallReadFrom \/ CallWriteTo \/ WaitReady \/ Claim \/ Start \/ SendOn \/ Return

(***************************************************************************)
(* The interrupt handler, one action per group of cases.                   *)
(***************************************************************************)
Interrupt(codes) == twint /\ twie /\ status \in codes

StartSent ==
  /\ Interrupt({"START", "REP_START"})
  /\ twdr' = slarw /\ restart' = "none"
  /\ Reply(TRUE)
  /\ UNCHANGED <<driver, master, slave, pc, n, request, result, data, own, other>>

\* Mutant: the bus is released without a stop.
EndsWithoutStop ==
  /\ state' = "READY"
  /\ IF sendStop THEN ReleaseBus /\ UNCHANGED inRepStart
     ELSE /\ inRepStart' = TRUE
          /\ Write(TRUE, FALSE, FALSE) /\ UNCHANGED <<mode, status>>

\* A stop, or a repeated start that the next call will find on the bus.
EndTransfer ==
  /\ state' = "READY"
  /\ IF sendStop THEN Stop /\ UNCHANGED inRepStart
     ELSE /\ inRepStart' = TRUE
          /\ Write(TRUE, FALSE, FALSE) /\ UNCHANGED <<mode, status>>

MasterTransmit ==
  /\ Interrupt({"MT_SLA_ACK", "MT_DATA_ACK"})
  /\ IF masterIndex < masterLength
     THEN /\ twdr' = masterBuffer[masterIndex]
          /\ masterIndex' = masterIndex + 1
          /\ Reply(TRUE) /\ UNCHANGED <<state, inRepStart>>
     ELSE EndTransfer /\ UNCHANGED <<twdr, masterIndex>>
  /\ UNCHANGED <<slarw, sendStop, error, masterBuffer, masterLength, slave, call,
                 own, other>>

\* A byte beyond the buffer goes elsewhere in memory.
StoreReceived ==
  /\ masterBuffer' = [i \in Index |-> IF i = masterIndex THEN twdr ELSE masterBuffer[i]]
  /\ masterIndex' = (masterIndex + 1) % 256

MasterReceive ==
  /\ Interrupt({"MR_SLA_ACK", "MR_DATA_ACK"})
  /\ IF status = "MR_DATA_ACK" THEN StoreReceived
                               ELSE UNCHANGED <<masterBuffer, masterIndex>>
  /\ Reply(masterIndex' < masterLength)
  /\ UNCHANGED <<driver, masterLength, slave, call, twdr, own, other>>

\* Mutant: the last byte is not stored.
LastByteDropped ==
  /\ Interrupt({"MR_DATA_NACK"})
  /\ EndTransfer
  /\ UNCHANGED <<slarw, sendStop, error, master, slave, call, twdr, own, other>>

MasterReceiveLast ==
  /\ Interrupt({"MR_DATA_NACK"})
  /\ StoreReceived
  /\ EndTransfer
  /\ UNCHANGED <<slarw, sendStop, error, masterLength, slave, call, twdr, own, other>>

\* Mutant: the error of a refused address is not recorded.
ErrorForgotten(code) == error

\* twi_error as each status leaves it: MR_SLA_NACK sets none.
ErrorOf(code) ==
  CASE code = "MT_SLA_NACK"  -> "addrNack"
    [] code = "MT_DATA_NACK" -> "dataNack"
    [] code = "ARB_LOST"     -> "lost"
    [] code = "BUS_ERROR"    -> "bus"
    [] code = "MR_SLA_NACK"  -> error

\* Each of these gives up the bus: with a stop, or without one if it is lost.
TransferFails ==
  /\ Interrupt({"MT_SLA_NACK", "MT_DATA_NACK", "MR_SLA_NACK", "ARB_LOST", "BUS_ERROR"})
  /\ error' = ErrorOf(status)
  /\ state' = "READY"
  /\ IF status = "ARB_LOST" THEN ReleaseBus ELSE Stop
  /\ UNCHANGED <<slarw, sendStop, inRepStart, master, slave, call, twdr, own, other>>

\* Also after losing the arbitration to a master that addresses this board.
SlaveReceiveBegins ==
  /\ Interrupt({"SR_SLA_ACK"})
  /\ state' = "SRX" /\ rxIndex' = 0
  /\ Reply(TRUE)
  /\ UNCHANGED <<slarw, sendStop, inRepStart, error, master, txBuffer, txIndex,
                 txLength, rxBuffer, call, twdr, own, other>>

\* Mutants: the limit is one byte too low; there is none.
RoomForOneLess == rxIndex < BufferLength - 1
RoomUnchecked == TRUE

RoomInRxBuffer == rxIndex < BufferLength

SlaveReceiveByte ==
  /\ Interrupt({"SR_DATA_ACK"})
  /\ IF RoomInRxBuffer
     THEN /\ rxBuffer' = [rxBuffer EXCEPT ![rxIndex] = twdr]
          /\ rxIndex' = rxIndex + 1
          /\ Reply(TRUE)
     ELSE Reply(FALSE) /\ UNCHANGED <<rxBuffer, rxIndex>>
  /\ UNCHANGED <<driver, master, txBuffer, txIndex, txLength, call, twdr, own, other>>

\* twi_stop(), the callback, twi_releaseBus().
SlaveReceiveStop ==
  /\ Interrupt({"SR_STOP"})
  /\ rxBuffer' = [i \in Index |-> IF i = rxIndex THEN 0 ELSE rxBuffer[i]]
  /\ handed' = [k \in 1..rxIndex |-> rxBuffer'[k - 1]]
  /\ rxIndex' = 0 /\ state' = "READY"
  /\ Stop
  /\ UNCHANGED <<slarw, sendStop, inRepStart, error, master, txBuffer, txIndex,
                 txLength, call, twdr, own, transfers, accepted, read, offered,
                 intruded>>

SlaveReceiveRefused ==
  /\ Interrupt({"SR_DATA_NACK"})
  /\ Reply(FALSE)
  /\ UNCHANGED <<driver, master, slave, call, twdr, own, other>>

\* twi_transmit(), called by the callback, refuses what does not fit.
Transmitted(len) == IF len <= BufferLength THEN len ELSE 0

\* The callback offers its bytes; if none remain, a filler byte is sent.
SlaveTransmitBegins ==
  /\ Interrupt({"ST_SLA_ACK"})
  /\ state' = "STX"
  /\ \E len \in SlaveReplies :
       /\ offered' = len
       /\ IF Transmitted(len) = 0
          THEN txLength' = 1 /\ txBuffer' = [txBuffer EXCEPT ![0] = 0]
          ELSE /\ txLength' = Transmitted(len)
               /\ txBuffer' = [i \in Index |-> IF i < len THEN i + 1 ELSE txBuffer[i]]
  /\ txIndex' = 1 /\ twdr' = txBuffer'[0]
  /\ Reply(txIndex' < txLength')
  /\ UNCHANGED <<slarw, sendStop, inRepStart, error, master, rxBuffer, rxIndex, call,
                 own, transfers, accepted, read, handed, intruded>>

\* Mutant: the last byte is announced as if another followed.
AnotherFollows(next) == next <= txLength

MoreToSend(next) == next < txLength

\* A byte from behind the buffer is whatever the memory holds there.
TxBytes(i) == IF i \in Index THEN {txBuffer[i]} ELSE {0, 1}

SlaveTransmitByte ==
  /\ Interrupt({"ST_DATA_ACK"})
  /\ twdr' \in TxBytes(txIndex) /\ txIndex' = (txIndex + 1) % 256
  /\ Reply(MoreToSend(txIndex'))
  /\ UNCHANGED <<driver, master, txBuffer, txLength, rxBuffer, rxIndex, call, own, other>>

\* Mutant: the driver does not leave the slave transmitter's state.
StaysTransmitter ==
  /\ Interrupt({"ST_DATA_NACK", "ST_LAST_DATA"})
  /\ Reply(TRUE)
  /\ UNCHANGED <<driver, master, slave, call, twdr, own, other>>

SlaveTransmitEnds ==
  /\ Interrupt({"ST_DATA_NACK", "ST_LAST_DATA"})
  /\ state' = "READY"
  /\ Reply(TRUE)
  /\ UNCHANGED <<slarw, sendStop, inRepStart, error, master, slave, call, twdr, own,
                 other>>

Isr ==
  \/ StartSent \/ MasterTransmit \/ MasterReceive \/ MasterReceiveLast
  \/ TransferFails
  \/ SlaveReceiveBegins \/ SlaveReceiveByte \/ SlaveReceiveStop
  \/ SlaveReceiveRefused
  \/ SlaveTransmitBegins \/ SlaveTransmitByte \/ SlaveTransmitEnds

(***************************************************************************)
(* The unit and the bus.  mode is what the unit is engaged in: "idle", a   *)
(* start or an address ("start"), a transfer as master ("mt", "mr") or as  *)
(* slave ("sr", "st").  It stands still while TWINT is set.                *)
(***************************************************************************)
Unit(modes) == ~twint /\ mode \in modes

Raise(code, next) == twint' = TRUE /\ status' = code /\ mode' = next /\ UNCHANGED twcr

SendStart ==
  /\ twsta
  /\ \/ Unit({"idle"}) /\ Raise("START", "start")
     \/ Unit({"mt", "mr"}) /\ Raise("REP_START", "start")
  /\ UNCHANGED <<driver, master, slave, call, twdr, own, other>>

\* A byte that was left in TWDR is an address too, and says read or write.
Says(address) == twdr = address \/ twdr \notin {TwRead, TwWrite}

SendAddress ==
  /\ Unit({"start"})
  /\ \/ Says(TwWrite) /\ Raise("MT_SLA_ACK", "mt") /\ UNCHANGED outcome
     \/ Says(TwRead) /\ Raise("MR_SLA_ACK", "mr") /\ UNCHANGED outcome
     \/ Says(TwWrite) /\ Raise("MT_SLA_NACK", "mt") /\ outcome' = "addrNack"
     \/ Says(TwRead) /\ Raise("MR_SLA_NACK", "mr") /\ outcome' = "addrNack"
  /\ UNCHANGED <<driver, master, slave, call, twdr, sent, arrived, other>>

SendByte ==
  /\ Unit({"mt"}) /\ ~twsta
  /\ \/ /\ Raise("MT_DATA_ACK", "mt")
        /\ sent' = Append(sent, twdr) /\ UNCHANGED outcome
     \/ /\ Raise("MT_DATA_NACK", "mt")
        /\ outcome' = "dataNack" /\ UNCHANGED sent
  /\ UNCHANGED <<driver, master, slave, call, twdr, arrived, other>>

ReceiveByte ==
  /\ Unit({"mr"}) /\ ~twsta
  /\ arrived' = arrived + 1
  /\ twdr' = Byte(n, arrived')
  /\ Raise(IF twea THEN "MR_DATA_ACK" ELSE "MR_DATA_NACK", "mr")
  /\ UNCHANGED <<driver, master, slave, call, sent, outcome, other>>

\* The foreign master addresses this board.
Address ==
  /\ transfers' = transfers + 1
  /\ \/ Raise("SR_SLA_ACK", "sr") /\ accepted' = 0 /\ UNCHANGED read
     \/ Raise("ST_SLA_ACK", "st") /\ read' = <<>> /\ UNCHANGED accepted
  /\ intruded' = FALSE
  /\ UNCHANGED <<offered, handed>>

Addressed ==
  /\ transfers < MaxTransfers
  /\ Unit({"idle"}) /\ twea
  /\ Address
  /\ UNCHANGED <<driver, master, slave, call, twdr, own>>

\* The foreign master wins the bus, and may go on to address this board.
LoseArbitration ==
  /\ transfers < MaxTransfers
  /\ outcome' = "lost"
  /\ \/ /\ Unit({"start", "mt", "mr"}) /\ ~twsta
        /\ transfers' = transfers + 1
        /\ Raise("ARB_LOST", "idle")
        /\ UNCHANGED <<accepted, read, offered, handed, intruded>>
     \/ Unit({"start"}) /\ Address
  /\ UNCHANGED <<driver, master, slave, call, twdr, sent, arrived>>

ForeignWrites ==
  /\ Unit({"sr"})
  /\ \/ /\ twea /\ accepted < MaxForeignBytes
        /\ accepted' = accepted + 1 /\ twdr' = accepted'
        /\ Raise("SR_DATA_ACK", "sr")
     \/ /\ ~twea /\ accepted < MaxForeignBytes
        /\ Raise("SR_DATA_NACK", "idle") /\ UNCHANGED <<accepted, twdr>>
     \/ Raise("SR_STOP", "idle") /\ UNCHANGED <<accepted, twdr>>
  /\ UNCHANGED <<driver, master, slave, call, own, transfers, read, offered, handed,
                 intruded>>

ForeignReads ==
  /\ Unit({"st"})
  /\ read' = Append(read, twdr)
  /\ \/ twea /\ Raise("ST_DATA_ACK", "st")
     \/ ~twea /\ Raise("ST_LAST_DATA", "idle")
     \/ Raise("ST_DATA_NACK", "idle")
  /\ UNCHANGED <<driver, master, slave, call, twdr, own, transfers, accepted, offered,
                 handed, intruded>>

BusError ==
  /\ BusErrors
  /\ Unit({"start", "mt", "mr", "sr", "st"})
  /\ Raise("BUS_ERROR", "idle")
  /\ outcome' = "error"
  /\ UNCHANGED <<driver, master, slave, call, twdr, sent, arrived, other>>

Bus ==
  \/ SendStart \/ SendAddress \/ SendByte \/ ReceiveByte
  \/ Addressed \/ LoseArbitration \/ ForeignWrites \/ ForeignReads \/ BusError

Next == MainStep \/ Isr \/ Bus

Spec == Init /\ [][Next]_vars

\* The processor serves its interrupts and runs the call, the bus goes on.
FairSpec ==
  /\ Spec
  /\ WF_vars(WaitReady \/ Claim \/ Start \/ SendOn \/ Return)
  /\ WF_vars(Isr) /\ WF_vars(Bus)

(***************************************************************************)
(* Properties.                                                             *)
(***************************************************************************)
States == {"READY", "MRX", "MTX", "SRX", "STX"}

\* Every variable has its type.
TypeOK ==
  /\ state \in States /\ slarw \in {TwRead, TwWrite}
  /\ sendStop \in BOOLEAN /\ inRepStart \in BOOLEAN
  /\ error \in {"none", "addrNack", "dataNack", "lost", "bus"}
  /\ masterBuffer \in [Index -> Nat] /\ masterIndex \in 0..255
  /\ masterLength \in 0..255
  /\ txBuffer \in [Index -> Nat] /\ txIndex \in 0..255
  /\ txLength \in 0..BufferLength
  /\ rxBuffer \in [Index -> Nat] /\ rxIndex \in 0..BufferLength
  /\ pc \in {"idle", "wait", "claim", "start", "address", "spin"}
  /\ restart \in {"none", "collided", "lost"}
  /\ n \in 0..MaxCalls
  /\ result \in {"none", "tooLong", "ok", "addrNack", "dataNack", "other", "read"}
  /\ mode \in {"idle", "start", "mt", "mr", "sr", "st"}
  /\ twint \in BOOLEAN /\ twsta \in BOOLEAN /\ twea \in BOOLEAN /\ twie \in BOOLEAN
  /\ twdr \in Nat \union {TwRead, TwWrite}
  /\ sent \in Seq(Nat \union {TwRead, TwWrite}) /\ arrived \in Nat /\ read \in Seq(Nat)
  /\ handed \in Seq(Nat) /\ intruded \in BOOLEAN

\* The call wrote its address before the repeated start was on the bus, and the
\* handler has not written it again: the unit sends what TWDR held before.
Collided == restart = "collided"

\* What twi_writeTo returns is what the bus did: "0 .. success" only if the
\* device acknowledged every byte, in order, and 2 and 3 only for their errors.
WriteHonest ==
  ~Collided =>
    /\ result = "ok" => sent = [k \in 1..request.len |-> Byte(n, k)]
    /\ result \in {"addrNack", "dataNack"} => outcome = result

\* twi_readFrom returns the bytes of this call, in order, and all of them if
\* nothing went wrong on the bus.
ReadHonest ==
  ~Collided /\ result = "read" =>
    /\ data = [k \in 1..Len(data) |-> Byte(n, k)]
    /\ outcome = "" => Len(data) = request.len

\* No byte is clocked out of the device beyond those the call asked for.
NoExtraByte ==
  ~Collided /\ pc # "wait" /\ request.op = "read" => arrived <= request.len

\* "ensure data will fit into buffer": the handler stays within masterBuffer.
FitsBuffer == ~Collided => masterIndex <= BufferLength

\* When a call has returned and asked for a stop, the bus is free.
BusReleased ==
  pc = "idle" /\ ~inRepStart => mode \notin {"start", "mt", "mr"} /\ ~twsta

\* The foreign master reads what the callback offered, from its first byte,
\* and one filler byte if it offered nothing that fits; the handler takes no
\* byte from behind that.
SlaveTransmitExact ==
  LET promised == IF offered \in 1..BufferLength THEN Upto(offered) ELSE <<0>>
  IN  state = "STX" /\ ~intruded =>
        /\ Len(read) <= Len(promised) /\ txIndex <= Len(promised)
        /\ \A k \in 1..Len(read) : read[k] = promised[k]

\* "put byte in buffer and ack, otherwise nack": the callback is handed the bytes
\* that were acknowledged, in order, as many of them as the buffer holds.
AckedBytesKept ==
  [][SlaveReceiveStop => handed' = Upto(SmallerOf(accepted, BufferLength))]_vars

\* A byte was refused: the unit tells the driver nothing more of the transfer.
Refused == status = "SR_DATA_NACK"

\* A call waits for an answer that cannot come: a bus error had ended the
\* repeated start before the call, which cleared it unseen.
StartLost == pc = "spin" /\ restart = "lost"

\* Every call returns, whatever the bus and the other masters do, unless a byte
\* was refused or its repeated start was lost.
CallReturns == pc # "idle" ~> pc = "idle" \/ Refused \/ StartLost

\* The driver leaves its slave states again, unless a byte was refused.
SlaveLeaves == state \in {"SRX", "STX"} ~> state = "READY" \/ Refused
================================================================================
