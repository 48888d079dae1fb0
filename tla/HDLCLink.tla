------------------------------- MODULE HDLCLink --------------------------------
(***************************************************************************)
(* The link layer of SerProHDLC: a master (the host side, with a transmit  *)
(* queue and two timers) and a slave (the embedded side) that exchange     *)
(* frames over a serial line.                                              *)
(*                                                                         *)
(* Each end runs one handler at a time, so a handler is one step, with     *)
(* everything it sends.  The line keeps the order of the frames; it loses  *)
(* or corrupts at most MaxLosses of them.  A timer that is armed may       *)
(* expire at any moment.  The packets the master's application submits are *)
(* 1, 2, 3, ...; 0 stands for a NULL slot and for a frame with no packet.  *)
(***************************************************************************)
EXTENDS Integers, Sequences, FiniteSets

CONSTANTS MaxPackets,    \* bound: packets submitted
          MaxConnects,   \* bound: calls of connect()
          MaxResets,     \* bound: resets of the slave
          MaxLosses,     \* bound: frames lost or corrupted
          Lossy,         \* the directions that lose frames
          Replies,       \* what the slave's application does with a packet
          ChanBound,     \* bound: frames on the line when a timer or an
                         \* application adds one
          SubmitEarly    \* TRUE: packets may be submitted while the link is down

ASSUME LinkAssumption ==
  /\ MaxPackets \in Nat /\ MaxConnects \in Nat /\ MaxResets \in Nat
  /\ MaxLosses \in Nat /\ ChanBound \in Nat
  /\ Lossy \subseteq {"toSlave", "toMaster"}
  /\ Replies \subseteq {"info", "ack", "defer"}
  /\ SubmitEarly \in BOOLEAN

VARIABLES
  toSlave, toMaster,   \* frames on the line
  \* the master
  mUp,                 \* LINK_FLAG_LINKUP
  mRx,                 \* rxNextSeqNum
  tx, ack, slots,      \* txQueue
  inputQueue,
  linkTimer, rexTimer, \* linktimer and retransmittimer are armed
  \* the slave
  sUp, sTx, sRx,       \* LINK_FLAG_LINKUP, txSeqNum, rxNextSeqNum
  owed,                \* replies the application deferred and has not sent
  \* history and bounds
  submitted, delivered, confirmed, connects, resets, losses,
  answerLost           \* a frame to the master was lost

lines      == <<toSlave, toMaster>>
txQueue    == <<tx, ack, slots>>
masterVars == <<mUp, mRx, txQueue, inputQueue, linkTimer, rexTimer>>
slaveVars  == <<sUp, sTx, sRx, owed>>
appVars    == <<submitted, delivered, confirmed>>
counts     == <<connects, resets, losses, answerLost>>
vars       == <<lines, masterVars, slaveVars, appVars, counts>>

Seqs == 0..7
Kinds == {"I", "RR", "REJ", "SNURM", "UA", "UI", "BAD"}
Frames == [kind : Kinds, ns : Seqs, nr : Seqs, body : 0..MaxPackets]

Plain(kind) == [kind |-> kind, ns |-> 0, nr |-> 0, body |-> 0]
IFrame(ns, nr, body) == [kind |-> "I", ns |-> ns, nr |-> nr, body |-> body]
Supervisory(kind, nr) == [kind |-> kind, ns |-> 0, nr |-> nr, body |-> 0]

\* Mutant: the mask is forgotten
NextSeqUnmasked(n) == n + 1

NextSeq(n) == (n + 1) % 8

Init ==
  /\ toSlave = <<>> /\ toMaster = <<>>
  /\ mUp = FALSE /\ mRx = 0 /\ tx = 0 /\ ack = 0 /\ slots = [i \in Seqs |-> 0]
  /\ inputQueue = <<>> /\ linkTimer = FALSE /\ rexTimer = FALSE
  /\ sUp = FALSE /\ sTx = 0 /\ sRx = 0 /\ owed = 0
  /\ submitted = 0 /\ delivered = <<>> /\ confirmed = 0
  /\ connects = 0 /\ resets = 0 /\ losses = 0 /\ answerLost = FALSE

LineHasRoom == Len(toSlave) + Len(toMaster) < ChanBound

\* The frame at the head of each line is taken by the station it is for.
MasterTakes(kind) ==
  /\ toMaster # <<>> /\ Head(toMaster).kind = kind
  /\ toMaster' = Tail(toMaster)

SlaveTakes(kind) ==
  /\ toSlave # <<>> /\ Head(toSlave).kind = kind
  /\ toSlave' = Tail(toSlave)

(***************************************************************************)
(* The master's transmit queue.  q is the record of its three fields.      *)
(***************************************************************************)
TxQueue == [tx |-> tx, ack |-> ack, slots |-> slots]
ToBeAcked(q) == (q.tx - q.ack) % 8
Latest(q) == (q.tx - 1) % 8          \* peekIndex()

Queue(q, p) ==
  [tx |-> NextSeq(q.tx), ack |-> q.ack, slots |-> [q.slots EXCEPT ![q.tx] = p]]

\* The slots ackUpTo(num) walks over: from ack up to num, not included.
Walked(q, num) == {i \in Seqs : (i - q.ack) % 8 < (num - q.ack) % 8}

AckUpTo(q, num) ==
  [tx |-> q.tx, ack |-> num,
   slots |-> [i \in Seqs |-> IF i \in Walked(q, num) THEN 0 ELSE q.slots[i]]]

\* How many packets ackUpTo(num) deletes.
Freed(q, num) == Cardinality({i \in Walked(q, num) : q.slots[i] # 0})

SetQueue(q) == tx' = q.tx /\ ack' = q.ack /\ slots' = q.slots

\* startXmit() with the queue at q and the next expected number rx; timer says
\* whether the retransmit timer is armed if nothing is sent.
StartXmit(q, rx, timer) ==
  IF ToBeAcked(q) > 0 /\ q.slots[Latest(q)] # 0
  THEN /\ toSlave' = Append(toSlave, IFrame(Latest(q), rx, q.slots[Latest(q)]))
       /\ rexTimer' = TRUE
  ELSE toSlave' = toSlave /\ rexTimer' = timer

\* Mutant: an acknowledged packet does not let the next one go
CheckXmitForgotten(q, rx, timer) ==
  SetQueue(q) /\ rexTimer' = timer /\ UNCHANGED <<inputQueue, toSlave>>

\* checkXmit(), and what it leaves of the queue it found at q.
CheckXmit(q, rx, timer) ==
  IF ToBeAcked(q) < 1 /\ inputQueue # <<>>
  THEN LET filled == Queue(q, Head(inputQueue))
       IN  /\ SetQueue(filled)
           /\ inputQueue' = Tail(inputQueue)
           /\ StartXmit(filled, rx, timer)
  ELSE /\ SetQueue(q)
       /\ rexTimer' = timer
       /\ UNCHANGED <<inputQueue, toSlave>>

(***************************************************************************)
(* The master.                                                             *)
(***************************************************************************)
\* queueTransmit()
Submit ==
  /\ submitted < MaxPackets /\ LineHasRoom
  /\ SubmitEarly \/ mUp
  /\ submitted' = submitted + 1
  /\ IF ToBeAcked(TxQueue) < 1
     THEN LET filled == Queue(TxQueue, submitted')
          IN  /\ SetQueue(filled)
              /\ StartXmit(filled, mRx, rexTimer)
              /\ UNCHANGED inputQueue
     ELSE /\ inputQueue' = Append(inputQueue, submitted')
          /\ UNCHANGED <<toSlave, txQueue, rexTimer>>
  /\ UNCHANGED <<toMaster, mUp, mRx, linkTimer, slaveVars, delivered, confirmed,
                 counts>>

\* startLink()
StartLink ==
  /\ linkTimer' = TRUE
  /\ toSlave' = Append(toSlave, Plain("SNURM"))
  /\ UNCHANGED <<toMaster, mUp, mRx, txQueue, inputQueue, rexTimer, slaveVars,
                 appVars, resets, losses, answerLost>>

Connect ==
  /\ connects < MaxConnects /\ LineHasRoom
  /\ connects' = connects + 1
  /\ StartLink

\* Mutant: the expired timer only cancels itself
LinkGivesUp ==
  /\ linkTimer /\ linkTimer' = FALSE
  /\ UNCHANGED <<lines, mUp, mRx, txQueue, inputQueue, rexTimer, slaveVars, appVars,
                 counts>>

LinkExpired == linkTimer /\ LineHasRoom /\ UNCHANGED connects /\ StartLink

\* Mutant: the packet goes out again, and nothing will send it a third time
RetransmitsOnce ==
  /\ rexTimer /\ LineHasRoom
  /\ rexTimer' = FALSE
  /\ toSlave' = IF mUp /\ ToBeAcked(TxQueue) > 0
                THEN Append(toSlave, IFrame(Latest(TxQueue), mRx, slots[Latest(TxQueue)]))
                ELSE toSlave
  /\ UNCHANGED <<toMaster, mUp, mRx, txQueue, inputQueue, linkTimer, slaveVars,
                 appVars, counts>>

RetransmitTimerExpired ==
  /\ rexTimer /\ LineHasRoom
  /\ IF mUp THEN StartXmit(TxQueue, mRx, FALSE)
            ELSE rexTimer' = FALSE /\ UNCHANGED toSlave
  /\ UNCHANGED <<toMaster, mUp, mRx, txQueue, inputQueue, linkTimer, slaveVars,
                 appVars, counts>>

\* handleInformationFrame(), with rx the next expected number.
AcceptAck(nr, rx) ==
  /\ confirmed' = confirmed + Freed(TxQueue, nr)
  /\ CheckXmit(AckUpTo(TxQueue, nr), rx, rexTimer)

\* An information frame in sequence acknowledges what it carries, any other is
\* rejected; the master itself acknowledges nothing.
MasterInformation ==
  /\ MasterTakes("I")
  /\ LET f == Head(toMaster)
     IN  IF f.ns = mRx /\ mUp
         THEN /\ mRx' = NextSeq(mRx)
              /\ AcceptAck(f.nr, mRx')
         ELSE /\ toSlave' = Append(toSlave, Supervisory("REJ", mRx))
              /\ UNCHANGED <<mRx, txQueue, inputQueue, rexTimer, confirmed>>
  /\ UNCHANGED <<mUp, linkTimer, slaveVars, submitted, delivered, counts>>

MasterReceiverReady ==
  /\ MasterTakes("RR")
  /\ LET nr    == Head(toMaster).nr
         acked == AckUpTo(TxQueue, nr)
     IN  /\ confirmed' = confirmed + Freed(TxQueue, nr)
         /\ CheckXmit(acked, mRx, rexTimer /\ ToBeAcked(acked) # 0)
  /\ UNCHANGED <<mUp, mRx, linkTimer, slaveVars, submitted, delivered, counts>>

\* The master only logs a REJ.
MasterReject ==
  /\ MasterTakes("REJ")
  /\ UNCHANGED <<toSlave, masterVars, slaveVars, appVars, counts>>

MasterUnnumberedAck ==
  /\ MasterTakes("UA")
  /\ mRx' = 0 /\ mUp' = TRUE /\ linkTimer' = FALSE
  /\ CheckXmit(TxQueue, mRx', rexTimer)
  /\ UNCHANGED <<slaveVars, appVars, counts>>

\* A frame whose CRC is wrong is answered with a UI frame; a UI frame goes to
\* processOOB(), which is outside the link.
MasterCrcError ==
  /\ MasterTakes("BAD")
  /\ toSlave' = Append(toSlave, Plain("UI"))
  /\ UNCHANGED <<masterVars, slaveVars, appVars, counts>>

MasterOOB ==
  /\ MasterTakes("UI")
  /\ UNCHANGED <<toSlave, masterVars, slaveVars, appVars, counts>>

(***************************************************************************)
(* The slave.                                                              *)
(***************************************************************************)
\* Mutant: any frame is taken for the expected one
AnySequence(f) == sUp

InSequence(f) == f.ns = sRx /\ sUp

\* Mutant: a rejected frame is counted too
RejectCounts ==
  /\ toMaster' = Append(toMaster, Supervisory("REJ", sRx))
  /\ sRx' = NextSeq(sRx)
  /\ UNCHANGED <<sTx, owed, delivered>>

SlaveRejects ==
  /\ toMaster' = Append(toMaster, Supervisory("REJ", sRx))
  /\ UNCHANGED <<sRx, sTx, owed, delivered>>

\* sendPostamble() takes the next number for the reply it closes.
SendReply(nr) ==
  /\ toMaster' = Append(toMaster, IFrame(sTx, nr, 0))
  /\ sTx' = NextSeq(sTx)

AckLastFrame(nr) == toMaster' = Append(toMaster, Supervisory("RR", nr))

\* The application replies at once, or lets the link acknowledge the packet, or
\* calls deferReply() and replies later.
SlaveInformation ==
  /\ SlaveTakes("I")
  /\ LET f == Head(toSlave)
     IN  IF InSequence(f)
         THEN /\ sRx' = NextSeq(sRx)
              /\ delivered' = Append(delivered, f.body)
              /\ \/ "info" \in Replies /\ SendReply(sRx') /\ UNCHANGED owed
                 \/ /\ "ack" \in Replies
                    /\ AckLastFrame(sRx')
                    /\ UNCHANGED <<sTx, owed>>
                 \/ /\ "defer" \in Replies
                    /\ owed' = owed + 1
                    /\ UNCHANGED <<toMaster, sTx>>
         ELSE SlaveRejects
  /\ UNCHANGED <<masterVars, sUp, submitted, confirmed, counts>>

SendDeferred ==
  /\ owed > 0 /\ LineHasRoom
  /\ owed' = owed - 1
  /\ SendReply(sRx)
  /\ UNCHANGED <<toSlave, masterVars, sUp, sRx, appVars, counts>>

SlaveSetMode ==
  /\ SlaveTakes("SNURM")
  /\ sTx' = 0 /\ sRx' = 0 /\ sUp' = TRUE
  /\ toMaster' = Append(toMaster, Plain("UA"))
  /\ UNCHANGED <<masterVars, owed, appVars, counts>>

\* A REJ only clears linkReady, which nothing reads.
SlaveReject ==
  /\ SlaveTakes("REJ")
  /\ UNCHANGED <<toMaster, masterVars, slaveVars, appVars, counts>>

SlaveCrcError ==
  /\ SlaveTakes("BAD")
  /\ toMaster' = Append(toMaster, Plain("UI"))
  /\ UNCHANGED <<masterVars, slaveVars, appVars, counts>>

SlaveOOB ==
  /\ SlaveTakes("UI")
  /\ UNCHANGED <<toMaster, masterVars, slaveVars, appVars, counts>>

SlaveReset ==
  /\ resets < MaxResets /\ resets' = resets + 1
  /\ sUp' = FALSE /\ sTx' = 0 /\ sRx' = 0 /\ owed' = 0
  /\ UNCHANGED <<lines, masterVars, appVars, connects, losses, answerLost>>

(***************************************************************************)
(* The serial line.                                                        *)
(***************************************************************************)
Harm(line) == {Tail(line), <<Plain("BAD")>> \o Tail(line)}

Lose ==
  /\ losses < MaxLosses /\ losses' = losses + 1
  /\ \/ /\ "toSlave" \in Lossy /\ toSlave # <<>>
        /\ toSlave' \in Harm(toSlave) /\ UNCHANGED <<toMaster, answerLost>>
     \/ /\ "toMaster" \in Lossy /\ toMaster # <<>>
        /\ toMaster' \in Harm(toMaster) /\ answerLost' = TRUE /\ UNCHANGED toSlave
  /\ UNCHANGED <<masterVars, slaveVars, appVars, connects, resets>>

MasterReceives ==
  \/ MasterInformation \/ MasterReceiverReady \/ MasterReject
  \/ MasterUnnumberedAck \/ MasterCrcError \/ MasterOOB

SlaveReceives ==
  \/ SlaveInformation \/ SlaveSetMode \/ SlaveReject
  \/ SlaveCrcError \/ SlaveOOB

Next ==
  \/ Submit \/ Connect \/ LinkExpired \/ RetransmitTimerExpired
  \/ MasterReceives \/ SlaveReceives
  \/ SendDeferred \/ SlaveReset \/ Lose

Spec == Init /\ [][Next]_vars

\* Each end polls its serial port, and an armed timer expires.  The strong
\* fairness makes up for LineHasRoom, a bound of the model: the line empties
\* again and again, and a timer does not wait for that.
Fairness ==
  /\ WF_vars(MasterReceives) /\ WF_vars(SlaveReceives)
  /\ SF_vars(LinkExpired) /\ SF_vars(RetransmitTimerExpired)
  /\ SF_vars(SendDeferred)

FairSpec == Spec /\ Fairness

(***************************************************************************)
(* Properties.                                                             *)
(***************************************************************************)
\* Every variable has its type, and the window holds at most one packet.
TypeOK ==
  /\ toSlave \in Seq(Frames) /\ toMaster \in Seq(Frames)
  /\ mUp \in BOOLEAN /\ mRx \in Seqs
  /\ tx \in Seqs /\ ack \in Seqs /\ slots \in [Seqs -> 0..MaxPackets]
  /\ inputQueue \in Seq(1..MaxPackets)
  /\ linkTimer \in BOOLEAN /\ rexTimer \in BOOLEAN
  /\ sUp \in BOOLEAN /\ sTx \in Seqs /\ sRx \in Seqs /\ owed \in Nat
  /\ submitted \in 0..MaxPackets /\ delivered \in Seq(0..MaxPackets)
  /\ confirmed \in 0..MaxPackets
  /\ connects \in 0..MaxConnects /\ resets \in 0..MaxResets
  /\ losses \in 0..MaxLosses /\ answerLost \in BOOLEAN

\* The link delivers the packets in the order of submission, each once, and the
\* master discards none that the slave lacks: sequence numbers modulo 8, a
\* window of one, and retransmission of the latest slot implement the channel.
Channel == INSTANCE PacketChannel
ImplementsChannel == Channel!Spec

\* While a packet waits for its acknowledgement on a link that is up, its slot
\* holds it and the retransmit timer is armed: a packet is never forgotten.
NeverForgotten ==
  mUp /\ ToBeAcked(TxQueue) > 0 => rexTimer /\ slots[Latest(TxQueue)] # 0

\* "Reset tx/rx sequences" (handlers of SNURM and UA): once both ends have set
\* the link up and nothing is under way, the slave expects the number the master
\* will send next.
SequencesAgree ==
  mUp /\ sUp /\ ~linkTimer /\ toSlave = <<>> /\ toMaster = <<>>
  /\ ToBeAcked(TxQueue) = 0 /\ resets = 0
    => tx = sRx

\* startLink() and its timer bring the link up whatever the line loses.
LinkComesUp == connects > 0 ~> mUp /\ sUp

\* Every packet submitted is delivered and acknowledged, unless an answer is
\* lost, or connect() is called again: the slave then rejects the packet whenever
\* it comes, and the master does nothing about a REJ.
EveryPacketConfirmed ==
  \A n \in 1..MaxPackets :
    submitted >= n ~> confirmed >= n \/ answerLost \/ connects > 1
================================================================================
