--------------------------------- MODULE Wire ----------------------------------
(***************************************************************************)
(* The Wire library (TwoWire) on top of the two-wire driver: the sketch    *)
(* requests and transmits as a master, and the driver's interrupt handler  *)
(* calls onReceiveService and onRequestService when a foreign master has   *)
(* written to the board or wants to read from it.  Both use the same two   *)
(* buffers.                                                                *)
(*                                                                         *)
(* The driver itself is module Twi; here twi_readFrom and twi_writeTo are  *)
(* a wait, during which the callbacks may come, and the loop that copies.  *)
(* A byte is named by the transfer it belongs to and its place in it.      *)
(***************************************************************************)
EXTENDS Integers, Sequences

CONSTANTS BufferLength,   \* BUFFER_LENGTH, and TWI_BUFFER_LENGTH
          Quantities,     \* what requestFrom is asked for
          MaxCalls,       \* bound: requests and transmissions of the sketch
          MaxWrites,      \* bound: bytes written in one of them
          MaxTransfers    \* bound: transfers of the foreign master

ASSUME WireAssumption ==
  /\ BufferLength \in Nat \ {0} /\ Quantities \subseteq Nat
  /\ MaxCalls \in Nat /\ MaxWrites \in Nat /\ MaxTransfers \in Nat

VARIABLES
  rxBuffer, rxBufferIndex, rxBufferLength,
  txBuffer, txBufferIndex, txBufferLength, transmitting,
  \* the call the sketch is in, and what the driver works with
  pc, calls, data, copied,
  held,        \* the index that write() has in a register
  \* history
  transfers,   \* transfers of the foreign master
  wanted,      \* the bytes the last requestFrom returned
  taken,       \* what the sketch has read() of them
  mixed,       \* onReceiveService came while they were being copied
  written,     \* bytes write() accepted since beginTransmission
  sent,        \* what the driver was given to send
  asked,       \* onRequestService came since beginTransmission
  torn,        \* and it came between two steps of write()
  callback     \* what the last onReceive callback was told and what it read

rx      == <<rxBuffer, rxBufferIndex, rxBufferLength>>
tx      == <<txBuffer, txBufferIndex, txBufferLength, transmitting>>
driver  == <<data, copied>>
request == <<wanted, taken, mixed>>
output  == <<written, sent, asked, torn>>
vars    == <<rx, tx, pc, calls, driver, held, transfers, request, output, callback>>

Places == 0 .. BufferLength - 1
Nothing == <<"none", 0, 0>>
Bytes == {"none", "device", "foreign", "sketch", "reply"} \X Nat \X Nat
Transfer(who, n, len) == [k \in 1..len |-> <<who, n, k>>]
Store(buffer, i, b) == [p \in Places |-> IF p = i THEN b ELSE buffer[p]]
Filled(buffer, bytes) ==
  [p \in Places |-> IF p < Len(bytes) THEN bytes[p + 1] ELSE buffer[p]]
Content(buffer, len) == [k \in 1..len |-> buffer[k - 1]]

Init ==
  /\ rxBuffer = [p \in Places |-> Nothing] /\ rxBufferIndex = 0 /\ rxBufferLength = 0
  /\ txBuffer = [p \in Places |-> Nothing] /\ txBufferIndex = 0 /\ txBufferLength = 0
  /\ transmitting = FALSE
  /\ pc = "idle" /\ calls = 0 /\ data = <<>> /\ copied = 0 /\ held = 0
  /\ transfers = 0 /\ wanted = <<>> /\ taken = <<>> /\ mixed = FALSE
  /\ written = <<>> /\ sent = <<>> /\ asked = FALSE /\ torn = FALSE
  /\ callback = [told |-> <<>>, read |-> <<>>]

(***************************************************************************)
(* The sketch as a receiver.                                               *)
(***************************************************************************)
Clamp(quantity) == IF quantity > BufferLength THEN BufferLength ELSE quantity

\* twi_readFrom: the device answers with as many bytes, or fewer.
RequestFrom ==
  /\ pc = "idle" /\ calls < MaxCalls
  /\ calls' = calls + 1 /\ pc' = "copy" /\ copied' = 0
  /\ \E quantity \in Quantities : \E read \in 0..Clamp(quantity) :
       data' = Transfer("device", calls', read)
  /\ wanted' = <<>> /\ taken' = <<>> /\ mixed' = FALSE
  /\ UNCHANGED <<rx, tx, held, transfers, output, callback>>

\* Its loop copies to rxBuffer, byte by byte.
CopyByte ==
  /\ pc = "copy" /\ copied < Len(data)
  /\ rxBuffer' = Store(rxBuffer, copied, data[copied + 1])
  /\ copied' = copied + 1
  /\ UNCHANGED <<rxBufferIndex, rxBufferLength, tx, pc, calls, data, held, transfers,
                 request, output, callback>>

ResetIndex ==
  /\ pc = "copy" /\ copied = Len(data)
  /\ rxBufferIndex' = 0 /\ pc' = "length"
  /\ UNCHANGED <<rxBuffer, rxBufferLength, tx, calls, driver, held, transfers,
                 request, output, callback>>

SetLength ==
  /\ pc = "length"
  /\ rxBufferLength' = Len(data) /\ wanted' = data /\ pc' = "idle"
  /\ UNCHANGED <<rxBuffer, rxBufferIndex, tx, calls, driver, held, transfers,
                 taken, mixed, output, callback>>

\* read(), as often as requestFrom said; -1 if there is nothing.
Read ==
  /\ pc = "idle" /\ Len(taken) < Len(wanted)
  /\ IF rxBufferIndex < rxBufferLength
     THEN /\ taken' = Append(taken, rxBuffer[rxBufferIndex])
          /\ rxBufferIndex' = rxBufferIndex + 1
     ELSE taken' = Append(taken, Nothing) /\ UNCHANGED rxBufferIndex
  /\ UNCHANGED <<rxBuffer, rxBufferLength, tx, pc, calls, driver, held, transfers,
                 wanted, mixed, output, callback>>

(***************************************************************************)
(* The sketch as a transmitter.                                            *)
(***************************************************************************)
\* Mutant: the buffer keeps what an abandoned transmission left
BeginKeepsBuffer ==
  /\ pc = "idle" /\ calls < MaxCalls
  /\ calls' = calls + 1
  /\ transmitting' = TRUE /\ written' = <<>> /\ asked' = FALSE /\ torn' = FALSE
  /\ UNCHANGED <<rx, txBuffer, txBufferIndex, txBufferLength, pc, driver, held,
                 transfers, request, sent, callback>>

BeginTransmission ==
  /\ pc = "idle" /\ calls < MaxCalls
  /\ calls' = calls + 1
  /\ transmitting' = TRUE /\ txBufferIndex' = 0 /\ txBufferLength' = 0
  /\ written' = <<>> /\ asked' = FALSE /\ torn' = FALSE
  /\ UNCHANGED <<rx, txBuffer, pc, driver, held, transfers, request, sent, callback>>

\* Mutant: the test allows one byte more
RoomForOneMore == txBufferLength <= BufferLength

RoomToWrite == txBufferLength < BufferLength

\* write() tests the length, stores the byte, the index and the length.  None of
\* them is volatile: where it needs the index again it may use the register it has
\* it in or what a callback has left in memory.
WriteTest ==
  /\ pc = "idle" /\ transmitting /\ Len(written) < MaxWrites
  /\ pc' = IF RoomToWrite THEN "store" ELSE "idle"
  /\ UNCHANGED <<rx, tx, calls, driver, held, transfers, request, output, callback>>

\* Behind the buffer, the byte goes to memory that is not modelled.
WriteStore ==
  /\ pc = "store" /\ pc' = "index"
  /\ written' = Append(written, <<"sketch", calls, Len(written) + 1>>)
  /\ txBuffer' = Store(txBuffer, txBufferIndex, written'[Len(written')])
  /\ held' = txBufferIndex
  /\ UNCHANGED <<rx, txBufferIndex, txBufferLength, transmitting, calls, driver,
                 transfers, request, sent, asked, torn, callback>>

WriteIndex ==
  /\ pc = "index" /\ pc' = "txlength"
  /\ \E i \in {held, txBufferIndex} : txBufferIndex' = i + 1 /\ held' = i + 1
  /\ UNCHANGED <<rx, txBuffer, txBufferLength, transmitting, calls, driver, transfers,
                 request, output, callback>>

WriteLength ==
  /\ pc = "txlength" /\ pc' = "idle"
  /\ txBufferLength' \in {held, txBufferIndex} /\ held' = 0
  /\ UNCHANGED <<rx, txBuffer, txBufferIndex, transmitting, calls, driver, transfers,
                 request, output, callback>>

\* endTransmission calls twi_writeTo, which refuses more bytes than fit and waits
\* until the driver is ready
EndTransmission ==
  /\ pc = "idle" /\ transmitting
  /\ IF txBufferLength > BufferLength
     THEN pc' = "ended" /\ sent' = <<>> /\ UNCHANGED data
     ELSE pc' = "end" /\ data' = Content(txBuffer, txBufferLength) /\ UNCHANGED sent
  /\ UNCHANGED <<rx, tx, calls, copied, held, transfers, request, written, asked, torn,
                 callback>>

\* and then copies as many bytes as it was told.
WriteTo ==
  /\ pc = "end" /\ pc' = "ended"
  /\ sent' = Content(txBuffer, Len(data))
  /\ UNCHANGED <<rx, tx, calls, driver, held, transfers, request, written, asked, torn,
                 callback>>

Transmitted ==
  /\ pc = "ended" /\ pc' = "idle"
  /\ txBufferIndex' = 0 /\ txBufferLength' = 0 /\ transmitting' = FALSE
  /\ data' = <<>> /\ torn' = FALSE
  /\ UNCHANGED <<rx, txBuffer, calls, copied, held, transfers, request, written, sent,
                 asked, callback>>

Sketch ==
  \/ RequestFrom \/ CopyByte \/ ResetIndex \/ SetLength \/ Read
  \/ BeginTransmission \/ WriteTest \/ WriteStore \/ WriteIndex
  \/ WriteLength \/ EndTransmission \/ WriteTo \/ Transmitted

(***************************************************************************)
(* The callbacks, in the interrupt handler.                                *)
(***************************************************************************)
\* Mutant: data that is being read is overwritten
NeverInUse == FALSE

RxBufferInUse == rxBufferIndex < rxBufferLength

\* onReceiveService, and a callback that reads some of the bytes.
Receive(bytes) ==
  /\ rxBuffer' = Filled(rxBuffer, bytes)
  /\ rxBufferLength' = Len(bytes)
  /\ \E k \in 0..Len(bytes) :
       /\ rxBufferIndex' = k
       /\ callback' = [told |-> bytes, read |-> Content(rxBuffer', k)]
  /\ mixed' = (mixed \/ (pc \in {"copy", "length"} /\ copied > 0))

OnReceiveService ==
  /\ transfers < MaxTransfers /\ transfers' = transfers + 1
  /\ \E len \in 0..BufferLength :
       IF RxBufferInUse THEN UNCHANGED <<rx, mixed, callback>>
                        ELSE Receive(Transfer("foreign", transfers', len))
  /\ UNCHANGED <<tx, pc, calls, driver, held, wanted, taken, output>>

\* onRequestService, and a callback that writes as many bytes as it likes: while the
\* sketch is transmitting they go to the sketch's buffer, else to twi_transmit.
OnRequestService ==
  /\ transfers < MaxTransfers /\ transfers' = transfers + 1
  /\ IF transmitting
     THEN \E n \in 0..BufferLength :
            /\ txBuffer' = Filled(txBuffer, Transfer("reply", transfers', n))
            /\ txBufferIndex' = n /\ txBufferLength' = n
     ELSE txBufferIndex' = 0 /\ txBufferLength' = 0 /\ UNCHANGED txBuffer
  /\ asked' = TRUE /\ torn' = (torn \/ pc \in {"store", "index", "txlength"})
  /\ UNCHANGED <<rx, transmitting, pc, calls, driver, held, request, written, sent,
                 callback>>

Next == Sketch \/ OnReceiveService \/ OnRequestService

Spec == Init /\ [][Next]_vars

(***************************************************************************)
(* Properties.                                                             *)
(***************************************************************************)
\* The indices stay within the buffers.  If a foreign master asked for data between
\* two steps of write(), after its test that the buffer is not full, those of the
\* transmit buffer may be one past its end, but never more.
WithinBuffers ==
  LET most == IF torn THEN BufferLength + 1 ELSE BufferLength
  IN  /\ rxBufferLength <= BufferLength /\ rxBufferIndex <= BufferLength
      /\ txBufferLength <= most /\ txBufferIndex <= most

\* "rx buffer is in use by a master requestFrom() op": what the sketch reads
\* after requestFrom is what the device sent, though a foreign master writes at
\* any moment but that of the copying.
RequestIntact ==
  ~mixed => \A k \in 1..Len(taken) : taken[k] = wanted[k]

\* What is sent is what the sketch wrote since beginTransmission, in order, unless
\* a foreign master asked for data in the meantime.
TransmissionIntact == pc = "ended" /\ ~asked => sent = written
================================================================================
