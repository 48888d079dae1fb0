---------------------------- MODULE HardwareSerial ----------------------------
(***************************************************************************)
(* The AVR serial port: a sketch (the main thread) that calls begin, end,  *)
(* write, flush, available, peek and read, two interrupt handlers that     *)
(* share the transmit and receive rings with it, and the USART.            *)
(*                                                                         *)
(* A call is a sequence of steps, one per access to state the handlers     *)
(* also touch; an interrupt may come between any two of them while SREG_I  *)
(* is set.  A handler is one step: the AVR does not nest interrupts.       *)
(* Byte values are numbers: the n-th byte written is n, the n-th byte      *)
(* received is n, so loss, duplication and reordering show; 0 is junk.     *)
(***************************************************************************)
EXTENDS Rings, Sequences

CONSTANTS MaxWrites,     \* bound: calls of write()
          MaxArrivals,   \* bound: bytes that arrive on the RX pin
          IFlags,        \* values the sketch gives SREG_I (cli/sei)
          ParityErrors,  \* values of the UPE flag of an arriving byte
          Rebegin        \* TRUE: the sketch may call begin() twice

ASSUME BoundsAssumption ==
  /\ MaxWrites \in Nat /\ MaxArrivals \in Nat
  /\ IFlags \subseteq BOOLEAN /\ ParityErrors \subseteq BOOLEAN
  /\ Rebegin \in BOOLEAN

VARIABLES
  pc,        \* where the main thread is: "idle" in the sketch, or in a call
  sregI,     \* SREG_I
  rxen, rxcie,   \* RXEN and RXCIE; the port is open while RXEN is set
  loaded, ucsrb, \* main has loaded UCSRB to change it; UDRIE in that copy
  txHead, txTail, txBuf, written,
  udrie,     \* UDRIE: the data-register-empty interrupt is enabled
  udr,       \* the transmit data register is full (UDRE clear)
  shift,     \* the shift register is sending
  txc,       \* TXC: transmit complete
  rxHead, rxTail, rxBuf,
  rxFifo,    \* bytes waiting in the receiver, each with its parity flag
  c,         \* read()'s local c
  got,       \* what the last read() or peek() returned, 0 for -1
  \* history, read by no action
  nWritten,  \* calls of write() so far; the last byte written
  wire,      \* the bytes stored in the transmit data register
  raced,     \* UDRIE was once set while the transmit ring was empty
  wiped,     \* write() cleared TXC after the last byte had left
  nArrived,  \* bytes that arrived so far; the last byte received
  lastIn,    \* last byte _rx_complete_irq took without parity error
  promised   \* reads that available() has promised to succeed

portVars == <<rxen, rxcie, loaded, ucsrb>>
txVars   == <<txHead, txTail, txBuf, written, udrie, nWritten, raced>>
txHwVars == <<udr, shift, txc, wire, wiped>>
rxVars   == <<rxHead, rxTail, rxBuf, c, got, lastIn, promised>>
rxHwVars == <<rxFifo, nArrived>>
vars     == <<pc, sregI, portVars, txVars, txHwVars, rxVars, rxHwVars>>

Calls == {"write", "probe", "direct", "clearTxc", "room", "store", "publish",
          "enable", "flush", "drain", "end", "discard", "read", "take",
          "advance", "peek"}

\* The changes of UCSRB by begin() and end(), each with the step after it.
AfterChange ==
  [setRxen |-> "setTxen", setTxen |-> "setRxcie", setRxcie |-> "clearUdrie",
   clearUdrie |-> "idle",
   endRxen |-> "endTxen", endTxen |-> "endRxcie", endRxcie |-> "endUdrie",
   endUdrie |-> "discard"]

Changes == DOMAIN AfterChange

Init ==
  /\ pc = "idle" /\ sregI \in IFlags
  /\ rxen = FALSE /\ rxcie = FALSE /\ loaded = FALSE /\ ucsrb = FALSE
  /\ txHead = 0 /\ txTail = 0 /\ txBuf = [i \in Slots |-> 0]
  /\ written = FALSE /\ udrie = FALSE
  /\ udr = FALSE /\ shift = FALSE /\ txc = FALSE
  /\ rxHead = 0 /\ rxTail = 0 /\ rxBuf = [i \in Slots |-> 0]
  /\ rxFifo = <<>> /\ c = 0 /\ got = 0
  /\ nWritten = 0 /\ wire = <<>> /\ raced = FALSE /\ wiped = FALSE
  /\ nArrived = 0 /\ lastIn = 0 /\ promised = 0

------------------------------------------------------------------------------
\* The sketch between calls.

CliSei ==
  /\ pc = "idle"
  /\ sregI' \in IFlags
  /\ UNCHANGED <<pc, portVars, txVars, txHwVars, rxVars, rxHwVars>>

\* begin() up to its changes of UCSRB; it leaves both rings as they are, and
\* its stores to UCSRA, with TXC zero in them, leave TXC.
Begin ==
  /\ pc = "idle" /\ (rxen => Rebegin)
  /\ pc' = "setRxen"
  /\ written' = FALSE
  /\ UNCHANGED <<sregI, portVars, txHead, txTail, txBuf, udrie, nWritten,
                 raced, txHwVars, rxVars, rxHwVars>>

Call(entry) ==
  /\ pc = "idle" /\ rxen
  /\ pc' = entry
  /\ UNCHANGED <<sregI, portVars, txHwVars, rxVars, rxHwVars>>

CallWrite ==
  /\ nWritten < MaxWrites
  /\ Call("write")
  /\ nWritten' = nWritten + 1
  /\ UNCHANGED <<txHead, txTail, txBuf, written, udrie, raced>>

CallFlush == Call("flush") /\ UNCHANGED txVars
CallEnd   == Call("end")   /\ UNCHANGED txVars
CallRead  == Call("read")  /\ UNCHANGED txVars
CallPeek  == Call("peek")  /\ UNCHANGED txVars

Available ==
  /\ pc = "idle" /\ rxen
  /\ promised' = Count(rxHead, rxTail)
  /\ UNCHANGED <<pc, sregI, portVars, rxHead, rxTail, rxBuf, c, got, lastIn,
                 txVars, txHwVars, rxHwVars>>

------------------------------------------------------------------------------
\* begin() and end() change UCSRB by loading it and storing it with one bit set
\* or cleared; what the handler does to UDRIE in between is undone.

UcsrbLoad ==
  /\ pc \in Changes /\ ~loaded
  /\ loaded' = TRUE /\ ucsrb' = udrie
  /\ UNCHANGED <<pc, sregI, rxen, rxcie, txVars, txHwVars, rxVars, rxHwVars>>

\* Clearing RXEN empties the receiver; clearing TXEN lets a frame that is
\* being sent come to its end.
UcsrbStore ==
  /\ pc \in Changes /\ loaded
  /\ loaded' = FALSE /\ ucsrb' = FALSE
  /\ pc' = AfterChange[pc]
  /\ udrie' = (ucsrb /\ pc \notin {"clearUdrie", "endUdrie"})
  /\ rxen' = (pc = "setRxen" \/ (rxen /\ pc # "endRxen"))
  /\ rxcie' = (pc = "setRxcie" \/ (rxcie /\ pc # "endRxcie"))
  /\ rxFifo' = IF pc = "endRxen" THEN <<>> ELSE rxFifo
  /\ raced' = (raced \/ (udrie' /\ txHead = txTail))
  /\ UNCHANGED <<sregI, txHead, txTail, txBuf, written, nWritten, txHwVars,
                 rxVars, nArrived>>

------------------------------------------------------------------------------
\* _tx_udr_empty_irq(), entered by the interrupt or by a polling loop.

\* A store to UDR; the USART ignores it while the register is full.
StoreUdr(b) ==
  /\ udr' = TRUE
  /\ wire' = IF udr THEN wire ELSE Append(wire, b)
  /\ wiped' = FALSE

\* The handler, leaving TXC at newTxc and the interrupt enabled if more.
TxIrq(newTxc, more) ==
  /\ StoreUdr(txBuf[txTail])
  /\ txTail' = Inc(txTail)
  /\ txc' = newTxc
  /\ udrie' = (udrie /\ more)
  /\ UNCHANGED <<shift, txHead, txBuf, written, nWritten, raced>>

\* Mutants: the handler disables its interrupt though bytes are left; it does
\* not clear TXC.
IrqAlwaysDisables == TxIrq(FALSE, FALSE)
IrqKeepsTxc       == TxIrq(txc, txHead # Inc(txTail))

TxUdrEmptyIrq == TxIrq(FALSE, txHead # Inc(txTail))

------------------------------------------------------------------------------
\* write()

txSame == UNCHANGED <<sregI, portVars, rxVars, rxHwVars>>

WriteTestEmpty ==
  /\ pc = "write"
  /\ pc' = IF txHead = txTail THEN "probe" ELSE "room"
  /\ txSame /\ UNCHANGED <<txVars, txHwVars>>

\* Mutant: the shortcut does not look at UDRE.
UdreUnchecked ==
  /\ pc = "probe" /\ pc' = "direct"
  /\ txSame /\ UNCHANGED <<txVars, txHwVars>>

WriteTestUdre ==
  /\ pc = "probe"
  /\ pc' = IF udr THEN "room" ELSE "direct"
  /\ txSame /\ UNCHANGED <<txVars, txHwVars>>

WriteDirect ==
  /\ pc = "direct" /\ pc' = "clearTxc"
  /\ StoreUdr(nWritten)
  /\ txSame /\ UNCHANGED <<txVars, shift, txc>>

WriteClearTxc ==
  /\ pc = "clearTxc" /\ pc' = "idle"
  /\ txc' = FALSE
  /\ wiped' = (wiped \/ (~udr /\ ~shift))
  /\ txSame /\ UNCHANGED <<txVars, udr, shift, wire>>

\* Mutant: the loop polls only while interrupts are enabled.
WaitPollsInverted ==
  /\ pc = "room" /\ Inc(txHead) = txTail
  /\ sregI /\ ~udr
  /\ TxUdrEmptyIrq
  /\ txSame /\ UNCHANGED pc

\* The ring is full: with interrupts disabled the loop plays the handler.
WriteWait ==
  /\ pc = "room" /\ Inc(txHead) = txTail
  /\ ~sregI /\ ~udr
  /\ TxUdrEmptyIrq
  /\ txSame /\ UNCHANGED pc

\* Mutant: write() does not wait for a free slot.
RoomUnchecked ==
  /\ pc = "room" /\ pc' = "store"
  /\ txSame /\ UNCHANGED <<txVars, txHwVars>>

WriteRoom ==
  /\ pc = "room" /\ Inc(txHead) # txTail
  /\ pc' = "store"
  /\ txSame /\ UNCHANGED <<txVars, txHwVars>>

WriteStore ==
  /\ pc = "store" /\ pc' = "publish"
  /\ txBuf' = [txBuf EXCEPT ![txHead] = nWritten]
  /\ txSame
  /\ UNCHANGED <<txHead, txTail, written, udrie, nWritten, raced,
                 txHwVars>>

WritePublish ==
  /\ pc = "publish" /\ pc' = "enable"
  /\ txHead' = Inc(txHead)
  /\ txSame
  /\ UNCHANGED <<txTail, txBuf, written, udrie, nWritten, raced,
                 txHwVars>>

WriteEnable ==
  /\ pc = "enable" /\ pc' = "idle"
  /\ udrie' = TRUE /\ written' = TRUE
  /\ raced' = (raced \/ txHead = txTail)
  /\ txSame /\ UNCHANGED <<txHead, txTail, txBuf, nWritten, txHwVars>>

------------------------------------------------------------------------------
\* flush() and end()

\* Mutant: flush() waits on a port that has queued nothing.
FlushAlwaysWaits ==
  /\ pc = "flush" /\ pc' = "drain"
  /\ txSame /\ UNCHANGED <<txVars, txHwVars>>

\* A flush() of a port that has queued nothing since begin() returns at once.
FlushTestWritten ==
  /\ pc = "flush"
  /\ pc' = IF written THEN "drain" ELSE "idle"
  /\ txSame /\ UNCHANGED <<txVars, txHwVars>>

FlushPoll ==
  /\ pc = "drain" /\ udrie
  /\ ~sregI /\ ~udr
  /\ TxUdrEmptyIrq
  /\ txSame /\ UNCHANGED pc

FlushReturn ==
  /\ pc = "drain" /\ ~udrie /\ txc
  /\ pc' = "idle"
  /\ txSame /\ UNCHANGED <<txVars, txHwVars>>

\* end()'s loop has no polling: only the interrupt can empty the ring.
EndDrained ==
  /\ pc = "end" /\ txHead = txTail
  /\ pc' = "endRxen"
  /\ txSame /\ UNCHANGED <<txVars, txHwVars>>

\* "clear any received data", after UCSRB is changed.
EndDiscard ==
  /\ pc = "discard" /\ pc' = "idle"
  /\ rxHead' = rxTail /\ promised' = 0
  /\ UNCHANGED <<sregI, portVars, txVars, txHwVars, rxTail, rxBuf, c, got,
                 lastIn, rxHwVars>>

------------------------------------------------------------------------------
\* read() and peek()

rxSame == UNCHANGED <<sregI, portVars, txVars, txHwVars, rxHwVars>>

ReadTestEmpty ==
  /\ pc = "read"
  /\ IF rxHead = rxTail
     THEN pc' = "idle" /\ got' = 0
     ELSE pc' = "take" /\ UNCHANGED got
  /\ rxSame /\ UNCHANGED <<rxHead, rxTail, rxBuf, c, lastIn, promised>>

ReadTake ==
  /\ pc = "take" /\ pc' = "advance"
  /\ c' = rxBuf[rxTail]
  /\ rxSame /\ UNCHANGED <<rxHead, rxTail, rxBuf, got, lastIn, promised>>

ReadAdvance ==
  /\ pc = "advance" /\ pc' = "idle"
  /\ rxTail' = Inc(rxTail)
  /\ got' = c
  /\ promised' = IF promised > 0 THEN promised - 1 ELSE 0
  /\ rxSame /\ UNCHANGED <<rxHead, rxBuf, c, lastIn>>

\* Main owns the tail: peek()'s test and its load see the same oldest byte.
Peek ==
  /\ pc = "peek" /\ pc' = "idle"
  /\ got' = IF rxHead = rxTail THEN 0 ELSE rxBuf[rxTail]
  /\ rxSame /\ UNCHANGED <<rxHead, rxTail, rxBuf, c, lastIn, promised>>

------------------------------------------------------------------------------
\* Interrupts

TxInterrupt ==
  /\ sregI /\ udrie /\ ~udr
  /\ TxUdrEmptyIrq
  /\ txSame /\ UNCHANGED pc

\* The handler with the given test for room.
RxInterruptIf(room) ==
  /\ sregI /\ rxcie /\ rxFifo # <<>>
  /\ rxFifo' = Tail(rxFifo)
  /\ IF Head(rxFifo).upe
     THEN UNCHANGED <<rxHead, rxBuf, lastIn>>
     ELSE /\ lastIn' = Head(rxFifo).byte
          /\ IF room
             THEN /\ rxBuf' = [rxBuf EXCEPT ![rxHead] = Head(rxFifo).byte]
                  /\ rxHead' = Inc(rxHead)
             ELSE UNCHANGED <<rxHead, rxBuf>>
  /\ UNCHANGED <<pc, sregI, portVars, txVars, txHwVars, rxTail, c, got,
                 promised, nArrived>>

\* Mutants: no test for room; room kept for one byte too many.
RxNeverFull == RxInterruptIf(TRUE)
RxFullEarly == RxInterruptIf(Inc(Inc(rxHead)) # rxTail)

\* _rx_complete_irq(): a byte with a parity error, or for which the ring has
\* no room, is read from the USART and dropped.
RxInterrupt == RxInterruptIf(Inc(rxHead) # rxTail)

------------------------------------------------------------------------------
\* The USART (external).

ReceiverDepth == 2       \* bytes the receiver holds before it overruns

LoadShift ==
  /\ udr /\ ~shift
  /\ udr' = FALSE /\ shift' = TRUE
  /\ txSame /\ UNCHANGED <<pc, txVars, txc, wire, wiped>>

\* A frame takes far longer than the two instructions of the shortcut, so it
\* ends between them only if an interrupt delays the second.
ShiftDone ==
  /\ shift /\ (pc = "clearTxc" => sregI)
  /\ udr' = FALSE /\ shift' = udr /\ txc' = (txc \/ ~udr)
  /\ txSame /\ UNCHANGED <<pc, txVars, wire, wiped>>

Arrive ==
  /\ rxen /\ nArrived < MaxArrivals
  /\ nArrived' = nArrived + 1
  /\ \E upe \in ParityErrors :
       rxFifo' = IF Len(rxFifo) = ReceiverDepth THEN rxFifo
                 ELSE Append(rxFifo, [byte |-> nArrived', upe |-> upe])
  /\ UNCHANGED <<pc, sregI, portVars, txVars, txHwVars, rxVars>>

------------------------------------------------------------------------------
Sketch == CliSei \/ Begin \/ CallWrite \/ CallFlush \/ CallEnd \/ CallRead
          \/ CallPeek \/ Available

WriteStep == \/ WriteTestEmpty \/ WriteTestUdre \/ WriteDirect \/ WriteClearTxc
             \/ WriteWait \/ WriteRoom \/ WriteStore \/ WritePublish
             \/ WriteEnable

MainStep == \/ WriteStep \/ UcsrbLoad \/ UcsrbStore
            \/ FlushTestWritten \/ FlushPoll \/ FlushReturn
            \/ EndDrained \/ EndDiscard \/ ReadTestEmpty \/ ReadTake \/ ReadAdvance \/ Peek

Next == \/ Sketch \/ MainStep
        \/ TxInterrupt \/ RxInterrupt
        \/ LoadShift \/ ShiftDone \/ Arrive

Spec == Init /\ [][Next]_vars

\* A call keeps running, a pending enabled interrupt is served, and the
\* transmitter keeps shifting; the sketch and the line owe nothing.
Fairness == /\ WF_vars(MainStep) /\ WF_vars(TxInterrupt)
            /\ WF_vars(LoadShift) /\ WF_vars(ShiftDone)

FairSpec == Spec /\ Fairness
------------------------------------------------------------------------------
\* Properties

TypeOK ==
  /\ pc \in Calls \cup Changes \cup {"idle"} /\ sregI \in BOOLEAN
  /\ rxen \in BOOLEAN /\ rxcie \in BOOLEAN
  /\ loaded \in BOOLEAN /\ ucsrb \in BOOLEAN
  /\ txHead \in Slots /\ txTail \in Slots /\ txBuf \in [Slots -> Nat]
  /\ written \in BOOLEAN /\ udrie \in BOOLEAN
  /\ udr \in BOOLEAN /\ shift \in BOOLEAN /\ txc \in BOOLEAN
  /\ rxHead \in Slots /\ rxTail \in Slots /\ rxBuf \in [Slots -> Nat]
  /\ rxFifo \in Seq([byte : Nat, upe : BOOLEAN])
  /\ Len(rxFifo) <= ReceiverDepth
  /\ c \in Nat /\ got \in Nat
  /\ nWritten \in Nat /\ wire \in Seq(Nat)
  /\ raced \in BOOLEAN /\ wiped \in BOOLEAN
  /\ nArrived \in Nat /\ lastIn \in Nat /\ promised \in Nat

\* Bytes of completed stores: the byte of a write() in progress counts once it
\* is in the ring or in the data register.
Accepted ==
  IF pc \in {"write", "probe", "direct", "room", "store", "publish"}
  THEN nWritten - 1 ELSE nWritten

\* Unless UDRIE was set on an empty ring, by write() at line 230 or by a change
\* of UCSRB in begin() on an open port, the line carries the written bytes in
\* order, none lost or repeated, and what is not yet on the line is in the ring:
\* direct stores, handler and polling loops together.
TxFifo ==
  ~raced => /\ \A k \in 1 .. Len(wire) : wire[k] = k
            /\ Len(wire) + Count(txHead, txTail) = Accepted

\* Queued bytes never wait for an interrupt nobody enabled: the handler that
\* disables UDRIE and the write() that publishes a byte cannot miss each other.
\* (begin() on an open port with bytes queued strands them.)
NoStall ==
  ~Rebegin /\ ~raced => (txHead # txTail => udrie \/ pc = "enable")

\* When flush()'s loop ends, the ring, the data register and the shift register
\* are empty, as the comment after the loop says: no stale TXC lets it go.  A
\* flush() that does not wait leaves nothing in the ring (unless begin() on an
\* open port has forgotten what was written).
FlushComplete ==
  /\ pc = "drain" /\ ~udrie /\ txc => txHead = txTail /\ ~udr /\ ~shift
  /\ ~Rebegin /\ ~raced => (pc = "flush" /\ ~written => txHead = txTail)

\* After available() returns n, the next n calls of read() return a byte,
\* whatever arrives in between.
AvailablePromise == promised <= Count(rxHead, rxTail)

\* The comment in _tx_udr_empty_irq(): "If interrupts are enabled, there must
\* be more data in the output buffer".
DrieImpliesData == udrie => txHead # txTail

\* A write() that finds the ring full gets its slot, with interrupts enabled
\* or disabled.
WriteReturns == pc = "room" ~> pc = "store" \/ raced

\* flush() returns, with interrupts enabled or disabled, unless a write() has
\* cleared the TXC of a byte that ended between the store to UDR and the
\* clearing, and nothing was sent since.
FlushReturns == pc = "flush" ~> pc = "idle" \/ wiped

\* end() called with interrupts enabled returns.
EndReturns == pc = "end" /\ sregI ~> pc # "end" \/ raced

RxQueue == INSTANCE LossyFifo WITH
  Capacity <- BufferSize - 1, q <- Contents(rxBuf, rxHead, rxTail)

\* The receive ring is a bounded FIFO that drops a byte only when full.
RxIsLossyFifo == RxQueue!Spec
==============================================================================
