---------------------------- MODULE HDLCLinkProofs -----------------------------
(***************************************************************************)
(* The link delivers every packet once and in order, and forgets none, for *)
(* any number of packets, losses and resets of the slave, whatever the     *)
(* slave's application does: sequence numbers modulo 8 are enough for a    *)
(* window of one on a line that keeps the order.                           *)
(*                                                                         *)
(* The link is set up once, and the application submits only when it is    *)
(* up.  Both are needed: see the preconditions in README.md.               *)
(***************************************************************************)
EXTENDS HDLCLink, FiniteSetTheorems, SequenceTheorems, TLAPS

OnceUp == MaxConnects <= 1 /\ ~SubmitEarly

L == Len(delivered)
Sent == submitted - Len(inputQueue)   \* packets that left the input queue

(***************************************************************************)
(* The lines.  An information frame to the slave carries the last packet   *)
(* delivered (lo) or the last one sent (hi), with the number that belongs  *)
(* to it; once the newer one is on the line the older one does not follow. *)
(***************************************************************************)
ToSlaveOK(line, lo, hi) ==
  /\ line \in Seq(Frames)
  /\ \A i \in 1..Len(line) : line[i].kind = "I" =>
       /\ line[i].body \in 1..hi /\ lo <= line[i].body
       /\ line[i].ns = (line[i].body - 1) % 8
  /\ \A i, j \in 1..Len(line) : i < j /\ line[i].kind = "I" =>
       /\ line[j].kind = "I" => line[i].body <= line[j].body
       /\ line[j].kind # "SNURM"

\* An acknowledgement carries the number after the last packet confirmed (lo) or
\* delivered (hi), and again the newer one stays the last word.
Acks == {"I", "RR"}

ToMasterOK(line, lo, hi) ==
  /\ line \in Seq(Frames)
  /\ \A i \in 1..Len(line) : line[i].kind \in Acks => line[i].nr \in {lo % 8, hi % 8}
  /\ \A i, j \in 1..Len(line) :
       i < j /\ line[i].kind \in Acks /\ line[j].kind \in Acks /\ line[i].nr = hi % 8
         => line[j].nr = hi % 8

Free(line, kind) == \A i \in 1..Len(line) : line[i].kind # kind

Lines ==
  /\ ToSlaveOK(toSlave, L, Sent) /\ ToMasterOK(toMaster, confirmed, L)
  /\ ~Free(toSlave, "SNURM") => L = 0

\* The queue: at most one packet is on its way, and its slot and timer are set.
Packets ==
  /\ submitted \in 0..MaxPackets /\ inputQueue \in Seq(1..MaxPackets)
  /\ Len(inputQueue) <= submitted
  /\ \A k \in 1..Len(inputQueue) : inputQueue[k] = Sent + k
  /\ confirmed \in Nat /\ confirmed <= L /\ L <= Sent /\ Sent <= confirmed + 1
  /\ inputQueue # <<>> => Sent = confirmed + 1

\* The transmit queue with c packets confirmed and s sent.
QueueOf(c, s) ==
  [tx |-> s % 8, ack |-> c % 8,
   slots |-> [i \in Seqs |-> IF s > c /\ i = c % 8 THEN s ELSE 0]]

Window ==
  /\ TxQueue = QueueOf(confirmed, Sent)
  /\ rexTimer \in BOOLEAN
  /\ Sent > confirmed => rexTimer

Delivered == delivered \in Seq(0..MaxPackets) /\ \A k \in 1..L : delivered[k] = k

\* Setting up the link: no packet is submitted before, and the timer does not go
\* off afterwards.
SetUp ==
  /\ mUp \in BOOLEAN /\ linkTimer \in BOOLEAN /\ connects \in 0..MaxConnects
  /\ connects = 0 =>
       ~mUp /\ ~linkTimer /\ Free(toSlave, "SNURM") /\ Free(toMaster, "UA")
  /\ linkTimer => ~mUp
  /\ ~mUp => submitted = 0

Numbers ==
  /\ mRx \in Seqs /\ sTx \in Seqs /\ sRx \in Seqs
  /\ sUp \in BOOLEAN /\ owed \in Nat
  /\ sUp => sRx = L % 8
  /\ owed > 0 => sUp
  /\ resets \in 0..MaxResets /\ losses \in 0..MaxLosses /\ answerLost \in BOOLEAN

LinkInv == Lines /\ Packets /\ Window /\ Delivered /\ SetUp /\ Numbers

(***************************************************************************)
(* What sending, taking and harming a frame does to a line.                *)
(***************************************************************************)
LEMMA TailOf ==
  ASSUME NEW line \in Seq(Frames), line # <<>>
  PROVE  /\ Tail(line) \in Seq(Frames)
         /\ Len(Tail(line)) = Len(line) - 1
         /\ \A i \in 1..Len(Tail(line)) : i + 1 \in 1..Len(line) /\ Tail(line)[i] = line[i + 1]
         /\ Head(line) = line[1] /\ 1 \in 1..Len(line)
OBVIOUS

LEMMA AppendOf ==
  ASSUME NEW line \in Seq(Frames), NEW f \in Frames
  PROVE  /\ Append(line, f) \in Seq(Frames)
         /\ Len(Append(line, f)) = Len(line) + 1
         /\ \A i \in 1..Len(line) : Append(line, f)[i] = line[i]
         /\ Append(line, f)[Len(line) + 1] = f
         /\ \A i \in 1..Len(line) + 1 : i \in 1..Len(line) \/ i = Len(line) + 1
OBVIOUS

LEMMA PlainType ==
  ASSUME NEW kind \in Kinds
  PROVE  Plain(kind) \in Frames /\ Plain(kind).kind = kind
BY LinkAssumption DEF Plain, Frames, Seqs

LEMMA BadOf ==
  ASSUME NEW line \in Seq(Frames), line # <<>>
  PROVE  /\ <<Plain("BAD")>> \o Tail(line) \in Seq(Frames)
         /\ Len(<<Plain("BAD")>> \o Tail(line)) = Len(line)
         /\ (<<Plain("BAD")>> \o Tail(line))[1].kind = "BAD"
         /\ \A i \in 2..Len(line) : (<<Plain("BAD")>> \o Tail(line))[i] = line[i]
<1>1. Plain("BAD") \in Frames /\ Plain("BAD").kind = "BAD"
  BY PlainType DEF Kinds
<1> DEFINE b == Plain("BAD")
<1>2. b \in Frames /\ b.kind = "BAD"
  BY <1>1
<1> HIDE DEF b
<1>3. /\ <<b>> \o Tail(line) \in Seq(Frames)
      /\ Len(<<b>> \o Tail(line)) = Len(line)
      /\ (<<b>> \o Tail(line))[1] = b
      /\ \A i \in 2..Len(line) : (<<b>> \o Tail(line))[i] = line[i]
  BY <1>2
<1> QED BY <1>2, <1>3 DEF b

LEMMA SlaveTail ==
  ASSUME NEW line, NEW lo, NEW hi, ToSlaveOK(line, lo, hi), line # <<>>
  PROVE  ToSlaveOK(Tail(line), lo, hi)
BY TailOf DEF ToSlaveOK

LEMMA SlaveBad ==
  ASSUME NEW line, NEW lo, NEW hi, ToSlaveOK(line, lo, hi), line # <<>>
  PROVE  ToSlaveOK(<<Plain("BAD")>> \o Tail(line), lo, hi)
<1> DEFINE new == <<Plain("BAD")>> \o Tail(line)
<1>1. /\ new \in Seq(Frames) /\ Len(new) = Len(line) /\ new[1].kind = "BAD"
      /\ \A i \in 2..Len(line) : new[i] = line[i]
  BY BadOf DEF ToSlaveOK
<1> HIDE DEF new
<1>2. \A i \in 1..Len(new) : new[i].kind = "I" => i \in 2..Len(line)
  BY <1>1
<1>3. Len(line) \in Nat
  BY DEF ToSlaveOK
<1>4. \A i, j \in 1..Len(new) :
        i < j /\ new[i].kind = "I" => new[i] = line[i] /\ new[j] = line[j]
  BY <1>1, <1>2, <1>3
<1>5. ToSlaveOK(new, lo, hi)
  BY <1>1, <1>2, <1>3, <1>4 DEF ToSlaveOK
<1> QED BY <1>5 DEF new

\* A frame that is neither a packet nor a SNURM may be sent at any time.
LEMMA SlaveAppendOther ==
  ASSUME NEW line, NEW lo, NEW hi, ToSlaveOK(line, lo, hi),
         NEW f \in Frames, f.kind \notin {"I", "SNURM"}
  PROVE  ToSlaveOK(Append(line, f), lo, hi)
<1> DEFINE new == Append(line, f)
<1>1. /\ new \in Seq(Frames) /\ Len(new) = Len(line) + 1
      /\ \A i \in 1..Len(line) : new[i] = line[i]
      /\ new[Len(line) + 1] = f
      /\ \A i \in 1..Len(new) : i \in 1..Len(line) \/ i = Len(line) + 1
  BY AppendOf DEF ToSlaveOK
<1>2. Len(line) \in Nat
  BY DEF ToSlaveOK
<1> HIDE DEF new
<1> QED BY <1>1, <1>2 DEF ToSlaveOK, new

LEMMA SlaveAppendSetup ==
  ASSUME NEW line, NEW lo, ToSlaveOK(line, lo, 0)
  PROVE  ToSlaveOK(Append(line, Plain("SNURM")), lo, 0)
<1>1. Plain("SNURM") \in Frames /\ Plain("SNURM").kind = "SNURM"
  BY PlainType DEF Kinds
<1> DEFINE f == Plain("SNURM")
           new == Append(line, f)
<1>2. f \in Frames /\ f.kind = "SNURM"
  BY <1>1
<1> HIDE DEF f
<1>3. /\ new \in Seq(Frames) /\ Len(new) = Len(line) + 1
      /\ \A i \in 1..Len(line) : new[i] = line[i]
      /\ new[Len(line) + 1] = f
      /\ \A i \in 1..Len(new) : i \in 1..Len(line) \/ i = Len(line) + 1
  BY <1>2, AppendOf DEF ToSlaveOK
<1> HIDE DEF new
<1>4. \A i \in 1..Len(line) : line[i].kind # "I"
  BY DEF ToSlaveOK
<1>5. \A i \in 1..Len(new) : new[i].kind # "I"
  BY <1>2, <1>3, <1>4
<1>6. ToSlaveOK(new, lo, 0)
  BY <1>3, <1>5 DEF ToSlaveOK
<1> QED BY <1>6 DEF new, f

LEMMA SlaveAppendPacket ==
  ASSUME NEW line, NEW lo \in Nat, NEW hi \in 1..MaxPackets, lo <= hi,
         ToSlaveOK(line, lo, hi),
         NEW f \in Frames, f.kind = "I", f.body = hi, f.ns = (hi - 1) % 8
  PROVE  ToSlaveOK(Append(line, f), lo, hi)
<1> DEFINE new == Append(line, f)
<1>1. /\ new \in Seq(Frames) /\ Len(new) = Len(line) + 1
      /\ \A i \in 1..Len(line) : new[i] = line[i]
      /\ new[Len(line) + 1] = f
      /\ \A i \in 1..Len(new) : i \in 1..Len(line) \/ i = Len(line) + 1
  BY AppendOf DEF ToSlaveOK
<1>2. Len(line) \in Nat
  BY DEF ToSlaveOK
<1> HIDE DEF new
<1>3. \A i \in 1..Len(new) : new[i].kind = "I" =>
        /\ new[i].body \in 1..hi /\ lo <= new[i].body
        /\ new[i].ns = (new[i].body - 1) % 8
  BY <1>1, LinkAssumption DEF ToSlaveOK
<1>4. \A i, j \in 1..Len(new) : i < j /\ new[i].kind = "I" =>
        /\ new[j].kind = "I" => new[i].body <= new[j].body
        /\ new[j].kind # "SNURM"
  <2> SUFFICES ASSUME NEW i \in 1..Len(new), NEW j \in 1..Len(new), i < j,
                      new[i].kind = "I"
               PROVE  /\ new[j].kind = "I" => new[i].body <= new[j].body
                      /\ new[j].kind # "SNURM"
    OBVIOUS
  <2>1. i \in 1..Len(line)
    BY <1>1, <1>2
  <2>2. CASE j \in 1..Len(line)
    BY <1>1, <2>1, <2>2 DEF ToSlaveOK
  <2>3. CASE j = Len(line) + 1
    <3>1. new[i] = line[i] /\ line[i].kind = "I" /\ line[i].body \in 1..hi
      BY <1>1, <1>3, <2>1
    <3>2. new[j] = f
      BY <1>1, <2>3
    <3> QED BY <1>1, <2>1, <3>1, <3>2
  <2> QED BY <1>1, <2>2, <2>3
<1> QED BY <1>1, <1>3, <1>4 DEF ToSlaveOK, new

\* A packet more has been sent, and is not on the line yet.
LEMMA SlaveMore ==
  ASSUME NEW line, NEW lo, NEW hi \in Nat, ToSlaveOK(line, lo, hi)
  PROVE  ToSlaveOK(line, lo, hi + 1)
BY DEF ToSlaveOK

\* The packet at the head is the next one: it leaves none older behind it.
LEMMA SlaveAccepts ==
  ASSUME NEW line, NEW lo \in Nat, NEW hi \in Nat, ToSlaveOK(line, lo, hi), line # <<>>,
         Head(line).kind = "I", Head(line).body = lo + 1
  PROVE  ToSlaveOK(Tail(line), lo + 1, hi) /\ Free(Tail(line), "SNURM")
<1>1. /\ Tail(line) \in Seq(Frames)
      /\ \A i \in 1..Len(Tail(line)) :
           i + 1 \in 1..Len(line) /\ 1 < i + 1 /\ Tail(line)[i] = line[i + 1]
      /\ line[1].kind = "I" /\ line[1].body = lo + 1 /\ 1 \in 1..Len(line)
  BY TailOf DEF ToSlaveOK
<1>2. \A i \in 1..Len(Tail(line)) :
        /\ Tail(line)[i].kind = "I" => lo + 1 <= Tail(line)[i].body
        /\ Tail(line)[i].kind # "SNURM"
  BY <1>1 DEF ToSlaveOK
<1> QED BY <1>1, <1>2, SlaveTail DEF ToSlaveOK, Free

LEMMA MasterTail ==
  ASSUME NEW line, NEW lo, NEW hi, ToMasterOK(line, lo, hi), line # <<>>
  PROVE  ToMasterOK(Tail(line), lo, hi)
BY TailOf DEF ToMasterOK

LEMMA MasterBad ==
  ASSUME NEW line, NEW lo, NEW hi, ToMasterOK(line, lo, hi), line # <<>>
  PROVE  ToMasterOK(<<Plain("BAD")>> \o Tail(line), lo, hi)
<1> DEFINE new == <<Plain("BAD")>> \o Tail(line)
<1>1. /\ new \in Seq(Frames) /\ Len(new) = Len(line) /\ new[1].kind = "BAD"
      /\ \A i \in 2..Len(line) : new[i] = line[i]
  BY BadOf DEF ToMasterOK
<1> HIDE DEF new
<1>2. \A i \in 1..Len(new) : new[i].kind \in Acks => i \in 2..Len(line)
  BY <1>1 DEF Acks
<1>3. ToMasterOK(new, lo, hi)
  BY <1>1, <1>2 DEF ToMasterOK
<1> QED BY <1>3 DEF new

LEMMA MasterAppendOther ==
  ASSUME NEW line, NEW lo, NEW hi, ToMasterOK(line, lo, hi),
         NEW f \in Frames, f.kind \notin Acks
  PROVE  ToMasterOK(Append(line, f), lo, hi)
<1> DEFINE new == Append(line, f)
<1>1. /\ new \in Seq(Frames) /\ Len(new) = Len(line) + 1
      /\ \A i \in 1..Len(line) : new[i] = line[i]
      /\ new[Len(line) + 1] = f
      /\ \A i \in 1..Len(new) : i \in 1..Len(line) \/ i = Len(line) + 1
  BY AppendOf DEF ToMasterOK
<1> HIDE DEF new
<1> QED BY <1>1 DEF ToMasterOK, new

LEMMA MasterAppendAck ==
  ASSUME NEW line, NEW lo, NEW hi, ToMasterOK(line, lo, hi),
         NEW f \in Frames, f.nr = hi % 8
  PROVE  ToMasterOK(Append(line, f), lo, hi)
<1> DEFINE new == Append(line, f)
<1>1. /\ new \in Seq(Frames) /\ Len(new) = Len(line) + 1
      /\ \A i \in 1..Len(line) : new[i] = line[i]
      /\ new[Len(line) + 1] = f
      /\ \A i \in 1..Len(new) : i \in 1..Len(line) \/ i = Len(line) + 1
  BY AppendOf DEF ToMasterOK
<1>2. Len(line) \in Nat
  BY DEF ToMasterOK
<1> HIDE DEF new
<1>3. \A i, j \in 1..Len(new) : i < j => i \in 1..Len(line)
  BY <1>1, <1>2
<1> QED BY <1>1, <1>3 DEF ToMasterOK, new

\* A packet more has been delivered, and is not acknowledged on the line yet.
LEMMA MasterMore ==
  ASSUME NEW line, NEW lo \in Nat, ToMasterOK(line, lo, lo)
  PROVE  ToMasterOK(line, lo, lo + 1)
<1>1. (lo + 1) % 8 # lo % 8
  OBVIOUS
<1> QED BY <1>1 DEF ToMasterOK

\* The newer acknowledgement at the head leaves none older behind it.
LEMMA MasterConfirms ==
  ASSUME NEW line, NEW lo \in Nat, ToMasterOK(line, lo, lo + 1), line # <<>>,
         Head(line).kind \in Acks, Head(line).nr = (lo + 1) % 8
  PROVE  ToMasterOK(Tail(line), lo + 1, lo + 1)
<1>1. /\ Tail(line) \in Seq(Frames)
      /\ \A i \in 1..Len(Tail(line)) :
           i + 1 \in 1..Len(line) /\ 1 < i + 1 /\ Tail(line)[i] = line[i + 1]
      /\ line[1].kind \in Acks /\ line[1].nr = (lo + 1) % 8 /\ 1 \in 1..Len(line)
  BY TailOf DEF ToMasterOK
<1>2. \A i \in 1..Len(Tail(line)) :
        Tail(line)[i].kind \in Acks => Tail(line)[i].nr = (lo + 1) % 8
  BY <1>1 DEF ToMasterOK
<1> QED BY <1>1, <1>2 DEF ToMasterOK

(***************************************************************************)
(* The transmit queue.                                                     *)
(***************************************************************************)
LEMMA QueueFacts ==
  ASSUME NEW c \in Nat, NEW s \in {c, c + 1}
  PROVE  /\ ToBeAcked(QueueOf(c, s)) = s - c
         /\ s = c + 1 => /\ Latest(QueueOf(c, s)) = c % 8
                         /\ QueueOf(c, s).slots[Latest(QueueOf(c, s))] = s
<1>1. ((s % 8) - (c % 8)) % 8 = s - c
  BY Z3
<1>2. s = c + 1 => ((s % 8) - 1) % 8 = c % 8
  BY Z3
<1>3. c % 8 \in Seqs
  BY DEF Seqs
<1> QED BY <1>1, <1>2, <1>3 DEF ToBeAcked, Latest, QueueOf

LEMMA QueueFilled ==
  ASSUME NEW c \in Nat
  PROVE  Queue(QueueOf(c, c), c + 1) = QueueOf(c, c + 1)
<1>1. NextSeq(c % 8) = (c + 1) % 8
  BY DEF NextSeq
<1>2. [[i \in Seqs |-> 0] EXCEPT ![c % 8] = c + 1]
        = [i \in Seqs |-> IF i = c % 8 THEN c + 1 ELSE 0]
  BY DEF Seqs
<1>3. QueueOf(c, c).slots = [i \in Seqs |-> 0]
  BY DEF QueueOf
<1>4. QueueOf(c, c + 1).slots = [i \in Seqs |-> IF i = c % 8 THEN c + 1 ELSE 0]
  BY DEF QueueOf
<1>5. [QueueOf(c, c).slots EXCEPT ![c % 8] = c + 1] = QueueOf(c, c + 1).slots
  BY <1>2, <1>3, <1>4
<1> QED BY <1>1, <1>5 DEF Queue, QueueOf

\* The number after the last packet confirmed frees nothing.
LEMMA QueueAckOld ==
  ASSUME NEW c \in Nat, NEW s \in {c, c + 1}
  PROVE  /\ AckUpTo(QueueOf(c, s), c % 8) = QueueOf(c, s)
         /\ Freed(QueueOf(c, s), c % 8) = 0
<1>1. ((c % 8) - (c % 8)) % 8 = 0
  OBVIOUS
<1>2. Walked(QueueOf(c, s), c % 8) = {}
  BY <1>1 DEF Walked, QueueOf, Seqs
<1>3. AckUpTo(QueueOf(c, s), c % 8) = QueueOf(c, s)
  <2>1. [i \in Seqs |-> IF i \in {} THEN 0 ELSE QueueOf(c, s).slots[i]]
          = QueueOf(c, s).slots
    BY DEF QueueOf
  <2> QED BY <1>2, <2>1 DEF AckUpTo, QueueOf
<1>4. Freed(QueueOf(c, s), c % 8) = Cardinality({})
  <2>1. {i \in {} : QueueOf(c, s).slots[i] # 0} = {}
    OBVIOUS
  <2> QED BY <1>2, <2>1 DEF Freed
<1> QED BY <1>3, <1>4, FS_EmptySet

\* The number after the packet under way frees it.
LEMMA QueueAckNew ==
  ASSUME NEW c \in Nat
  PROVE  /\ AckUpTo(QueueOf(c, c + 1), (c + 1) % 8) = QueueOf(c + 1, c + 1)
         /\ Freed(QueueOf(c, c + 1), (c + 1) % 8) = 1
<1>1. (((c + 1) % 8) - (c % 8)) % 8 = 1
  BY Z3
<1>2. \A i \in Seqs : (i - (c % 8)) % 8 < 1 <=> i = c % 8
  BY Z3 DEF Seqs
<1>3. Walked(QueueOf(c, c + 1), (c + 1) % 8) = {c % 8}
  BY <1>1, <1>2 DEF Walked, QueueOf, Seqs
<1>4. AckUpTo(QueueOf(c, c + 1), (c + 1) % 8) = QueueOf(c + 1, c + 1)
  <2>1. [i \in Seqs |-> IF i \in {c % 8} THEN 0 ELSE QueueOf(c, c + 1).slots[i]]
          = [i \in Seqs |-> 0]
    BY DEF QueueOf
  <2>2. QueueOf(c + 1, c + 1).slots = [i \in Seqs |-> 0]
    BY DEF QueueOf
  <2> QED BY <1>3, <2>1, <2>2 DEF AckUpTo, QueueOf
<1>5. {i \in {c % 8} : QueueOf(c, c + 1).slots[i] # 0} = {c % 8}
  BY DEF QueueOf, Seqs
<1>6. Freed(QueueOf(c, c + 1), (c + 1) % 8) = Cardinality({c % 8})
  BY <1>3, <1>5 DEF Freed
<1> QED BY <1>4, <1>6, FS_Singleton

(***************************************************************************)
(* Sending the packet under way, and the next one.                         *)
(***************************************************************************)
LEMMA IFrameType ==
  ASSUME NEW ns \in Seqs, NEW nr \in Seqs, NEW body \in 0..MaxPackets
  PROVE  /\ IFrame(ns, nr, body) \in Frames
         /\ IFrame(ns, nr, body).kind = "I" /\ IFrame(ns, nr, body).ns = ns
         /\ IFrame(ns, nr, body).nr = nr /\ IFrame(ns, nr, body).body = body
BY DEF IFrame, Frames, Kinds

LEMMA SupervisoryType ==
  ASSUME NEW kind \in Kinds, NEW nr \in Seqs
  PROVE  /\ Supervisory(kind, nr) \in Frames
         /\ Supervisory(kind, nr).kind = kind /\ Supervisory(kind, nr).nr = nr
BY LinkAssumption DEF Supervisory, Frames, Seqs

LEMMA FreeAppend ==
  ASSUME NEW line \in Seq(Frames), NEW f \in Frames, NEW kind, f.kind # kind,
         Free(line, kind)
  PROVE  Free(Append(line, f), kind)
BY AppendOf DEF Free

LEMMA FreeTail ==
  ASSUME NEW line \in Seq(Frames), line # <<>>, NEW kind, Free(line, kind)
  PROVE  Free(Tail(line), kind)
BY TailOf DEF Free

LEMMA FreeBad ==
  ASSUME NEW line \in Seq(Frames), line # <<>>, NEW kind \in {"SNURM", "UA"},
         Free(line, kind)
  PROVE  Free(<<Plain("BAD")>> \o Tail(line), kind)
<1> DEFINE new == <<Plain("BAD")>> \o Tail(line)
<1>1. /\ new \in Seq(Frames) /\ Len(new) = Len(line) /\ new[1].kind = "BAD"
      /\ \A i \in 2..Len(line) : new[i] = line[i]
  BY BadOf
<1> HIDE DEF new
<1>2. \A i \in 1..Len(new) : i = 1 \/ i \in 2..Len(line)
  BY <1>1
<1> QED BY <1>1, <1>2 DEF Free, new

\* startXmit() with a packet under way puts it on the line and arms the timer,
\* and without one does nothing.
LEMMA StartXmitSends ==
  ASSUME NEW c \in Nat, c + 1 <= MaxPackets, NEW lo \in 0..c + 1, NEW rx \in Seqs, NEW timer,
         ToSlaveOK(toSlave, lo, c + 1), StartXmit(QueueOf(c, c + 1), rx, timer)
  PROVE  /\ rexTimer' = TRUE
         /\ ToSlaveOK(toSlave', lo, c + 1)
         /\ Free(toSlave, "SNURM") => Free(toSlave', "SNURM")
<1> DEFINE f == IFrame(c % 8, rx, c + 1)
<1>1. c % 8 \in Seqs /\ c + 1 \in 1..MaxPackets /\ (c + 1 - 1) % 8 = c % 8
  BY LinkAssumption DEF Seqs
<1>2. f \in Frames /\ f.kind = "I" /\ f.ns = c % 8 /\ f.body = c + 1
  BY <1>1, IFrameType
<1>3. toSlave' = Append(toSlave, f) /\ rexTimer' = TRUE
  <2>1. /\ ToBeAcked(QueueOf(c, c + 1)) = 1
        /\ Latest(QueueOf(c, c + 1)) = c % 8
        /\ QueueOf(c, c + 1).slots[Latest(QueueOf(c, c + 1))] = c + 1
    BY QueueFacts
  <2> QED BY <2>1 DEF StartXmit
<1>4. toSlave \in Seq(Frames)
  BY DEF ToSlaveOK
<1> HIDE DEF f
<1>5. ToSlaveOK(Append(toSlave, f), lo, c + 1)
  BY <1>1, <1>2, SlaveAppendPacket
<1>6. Free(toSlave, "SNURM") => Free(Append(toSlave, f), "SNURM")
  BY <1>2, <1>4, FreeAppend
<1> QED BY <1>3, <1>5, <1>6

LEMMA StartXmitIdle ==
  ASSUME NEW c \in Nat, NEW rx, NEW timer, StartXmit(QueueOf(c, c), rx, timer)
  PROVE  toSlave' = toSlave /\ rexTimer' = timer
<1>1. ToBeAcked(QueueOf(c, c)) = 0
  BY QueueFacts
<1> QED BY <1>1 DEF StartXmit

\* checkXmit(), when c packets are confirmed: the next packet goes if none is
\* under way, and the queue is again as the invariant wants it.
LEMMA CheckXmitKeeps ==
  ASSUME NEW c \in Nat, NEW rx \in Seqs, NEW timer \in BOOLEAN,
         submitted \in 0..MaxPackets, inputQueue \in Seq(1..MaxPackets),
         Len(inputQueue) <= submitted,
         \A k \in 1..Len(inputQueue) : inputQueue[k] = Sent + k,
         L \in Nat, c <= L, L <= Sent, Sent <= c + 1, Sent > c => timer,
         ToSlaveOK(toSlave, L, Sent),
         CheckXmit(QueueOf(c, Sent), rx, timer),
         confirmed' = c, UNCHANGED <<submitted, delivered>>
  PROVE  /\ Packets' /\ Window' /\ ToSlaveOK(toSlave, L, Sent)'
         /\ Free(toSlave, "SNURM") => Free(toSlave, "SNURM")'
<1>1. Sent \in {c, c + 1} /\ Len(inputQueue) \in Nat /\ L' = L /\ L' \in Nat
  <2>1. Len(inputQueue) \in Nat /\ Sent \in Nat
    BY DEF Sent
  <2>2. L' = L
    BY DEF L
  <2> QED BY <2>1, <2>2
<1>2. ToBeAcked(QueueOf(c, Sent)) = Sent - c
  BY <1>1, QueueFacts
<1>3. CASE Sent = c /\ inputQueue # <<>>
  <2>1. Head(inputQueue) = c + 1 /\ c + 1 <= submitted /\ c + 1 <= MaxPackets
    <3>1. 1 \in 1..Len(inputQueue) /\ Head(inputQueue) = inputQueue[1]
      BY <1>3
    <3>2. inputQueue[1] = c + 1 /\ inputQueue[1] \in 1..MaxPackets
      <4>1. inputQueue[1] = Sent + 1
        BY <3>1
      <4>2. inputQueue[1] \in 1..MaxPackets
        BY <3>1, ElementOfSeq
      <4> QED BY <1>3, <4>1, <4>2
    <3>3. c + 1 <= submitted
      BY <1>1, <1>3, <3>1 DEF Sent
    <3> QED BY <3>1, <3>2, <3>3, LinkAssumption
  <2>2. /\ SetQueue(QueueOf(c, c + 1)) /\ inputQueue' = Tail(inputQueue)
        /\ StartXmit(QueueOf(c, c + 1), rx, timer)
    BY <1>2, <1>3, <2>1, QueueFilled DEF CheckXmit
  <2>3. /\ inputQueue' \in Seq(1..MaxPackets) /\ Len(inputQueue') = Len(inputQueue) - 1
        /\ \A k \in 1..Len(inputQueue') : inputQueue'[k] = inputQueue[k + 1]
    BY <1>3, <2>2
  <2>4. Sent' = c + 1
    BY <1>1, <1>3, <2>3 DEF Sent
  <2>5. ToSlaveOK(toSlave, L, c + 1)
    BY <1>3, SlaveMore
  <2>6. /\ rexTimer' = TRUE /\ ToSlaveOK(toSlave', L, c + 1)
        /\ Free(toSlave, "SNURM") => Free(toSlave', "SNURM")
    <3>1. L \in 0..c + 1
      BY <1>3
    <3> HIDE DEF L
    <3> QED BY <2>1, <2>2, <2>5, <3>1, StartXmitSends
  <2>7. \A k \in 1..Len(inputQueue') : inputQueue'[k] = c + 1 + k
    <3> SUFFICES ASSUME NEW k \in 1..Len(inputQueue') PROVE inputQueue'[k] = c + 1 + k
      OBVIOUS
    <3>1. k + 1 \in 1..Len(inputQueue)
      BY <1>1, <2>3
    <3> QED BY <1>3, <2>3, <3>1
  <2>8. Packets'
    BY <1>1, <1>3, <2>1, <2>3, <2>4, <2>7 DEF Packets
  <2>9. TxQueue' = QueueOf(c, c + 1)
    BY <2>2 DEF SetQueue, TxQueue, QueueOf
  <2> QED BY <1>1, <2>4, <2>6, <2>8, <2>9 DEF Window, Free
<1>4. CASE ~(Sent = c /\ inputQueue # <<>>)
  <2>1. SetQueue(QueueOf(c, Sent)) /\ rexTimer' = timer /\ UNCHANGED <<inputQueue, toSlave>>
    BY <1>1, <1>2, <1>4 DEF CheckXmit
  <2>2. Sent' = Sent
    BY <2>1 DEF Sent
  <2>3. Packets'
    BY <1>1, <1>4, <2>1, <2>2 DEF Packets
  <2>4. TxQueue' = QueueOf(c, Sent)
    BY <2>1 DEF SetQueue, TxQueue, QueueOf
  <2> QED BY <1>1, <2>1, <2>2, <2>3, <2>4 DEF Window, Free
<1> QED BY <1>3, <1>4

(***************************************************************************)
(* Each action keeps the invariant, and is a step of the channel.          *)
(***************************************************************************)
ChannelStep == [Channel!Next]_<<submitted, delivered, confirmed>>

\* What the steps that neither move a packet nor touch the queue leave alone.
Quiet == UNCHANGED <<txQueue, inputQueue, rexTimer, appVars>>

LEMMA QuietKeeps ==
  ASSUME LinkInv, Quiet
  PROVE  /\ Packets' /\ Window' /\ Delivered' /\ L' = L /\ Sent' = Sent /\ ChannelStep
         /\ submitted' = submitted /\ confirmed' = confirmed
<1>1. /\ tx' = tx /\ ack' = ack /\ slots' = slots /\ inputQueue' = inputQueue
      /\ rexTimer' = rexTimer /\ submitted' = submitted /\ delivered' = delivered
      /\ confirmed' = confirmed
  BY DEF Quiet, txQueue, appVars
<1>2. L' = L /\ Sent' = Sent /\ TxQueue' = TxQueue
  BY <1>1 DEF L, Sent, TxQueue
<1>3. Packets'
  BY <1>1, <1>2 DEF LinkInv, Packets
<1>4. Window'
  BY <1>1, <1>2 DEF LinkInv, Window
<1>5. Delivered'
  BY <1>1, <1>2 DEF LinkInv, Delivered
<1>6. ChannelStep
  BY <1>1 DEF ChannelStep
<1> QED BY <1>1, <1>2, <1>3, <1>4, <1>5, <1>6

\* The types that the steps use again and again.
LEMMA TypesOf ==
  ASSUME LinkInv
  PROVE  /\ toSlave \in Seq(Frames) /\ toMaster \in Seq(Frames)
         /\ submitted \in Nat /\ confirmed \in Nat /\ L \in Nat /\ Sent \in Nat
         /\ confirmed <= L /\ L <= Sent /\ Sent <= confirmed + 1
         /\ Sent \in {confirmed, confirmed + 1} /\ L \in {confirmed, confirmed + 1}
         /\ Len(inputQueue) \in Nat /\ Sent <= submitted /\ submitted <= MaxPackets
<1>1. /\ toSlave \in Seq(Frames) /\ toMaster \in Seq(Frames)
  BY DEF LinkInv, Lines, ToSlaveOK, ToMasterOK
<1>2. /\ inputQueue \in Seq(1..MaxPackets) /\ submitted \in Nat /\ submitted <= MaxPackets
      /\ Len(inputQueue) <= submitted
  BY LinkAssumption DEF LinkInv, Packets
<1>3. Len(inputQueue) \in Nat
  BY <1>2
<1>4. Sent \in Nat /\ Sent <= submitted
  BY <1>2, <1>3 DEF Sent
<1>5. L \in Nat
  BY DEF L, LinkInv, Delivered
<1>6. /\ confirmed \in Nat /\ confirmed <= L /\ L <= Sent /\ Sent <= confirmed + 1
  BY DEF LinkInv, Packets
<1> QED BY <1>1, <1>2, <1>3, <1>4, <1>5, <1>6

LEMMA InitHolds ==
  ASSUME Init
  PROVE  LinkInv
<1>1. /\ toSlave = <<>> /\ toMaster = <<>> /\ inputQueue = <<>> /\ delivered = <<>>
      /\ submitted = 0 /\ confirmed = 0 /\ connects = 0 /\ resets = 0 /\ losses = 0
      /\ mRx = 0 /\ sTx = 0 /\ sRx = 0 /\ owed = 0
      /\ tx = 0 /\ ack = 0 /\ slots = [i \in Seqs |-> 0]
  BY DEF Init
<1>2. mUp = FALSE /\ linkTimer = FALSE /\ rexTimer = FALSE /\ sUp = FALSE /\ answerLost = FALSE
  BY DEF Init
<1>3. Len(toSlave) = 0 /\ Len(toMaster) = 0 /\ Len(inputQueue) = 0 /\ Len(delivered) = 0
  BY <1>1
<1>4. /\ toSlave \in Seq(Frames) /\ toMaster \in Seq(Frames)
      /\ inputQueue \in Seq(1..MaxPackets) /\ delivered \in Seq(0..MaxPackets)
  <2>1. \A S : <<>> \in Seq(S)
    OBVIOUS
  <2> QED BY <1>1, <2>1
<1>5. L = 0 /\ Sent = 0
  <2>1. submitted = 0 /\ Len(inputQueue) = 0 /\ Len(delivered) = 0
    BY <1>1, <1>3
  <2> QED BY <2>1 DEF L, Sent
<1>6. Lines
  BY <1>3, <1>4, <1>5 DEF Lines, ToSlaveOK, ToMasterOK, Free
<1>7. Packets
  BY <1>1, <1>3, <1>4, <1>5, LinkAssumption DEF Packets
<1>8. Window
  <2>1. [i \in Seqs |-> 0] = [i \in Seqs |-> IF 0 > 0 /\ i = 0 % 8 THEN 0 ELSE 0]
    OBVIOUS
  <2>2. 0 % 8 = 0
    OBVIOUS
  <2>3. TxQueue = QueueOf(confirmed, Sent)
    BY <1>1, <1>5, <2>1, <2>2 DEF TxQueue, QueueOf
  <2>4. rexTimer \in BOOLEAN
    BY <1>2
  <2>5. ~(Sent > confirmed)
    BY <1>1, <1>5
  <2> QED BY <2>3, <2>4, <2>5 DEF Window
<1>9. Delivered
  BY <1>4, <1>5 DEF Delivered
<1>10. SetUp
  <2>1. connects \in 0..MaxConnects
    BY <1>1, LinkAssumption
  <2>2. Free(toSlave, "SNURM") /\ Free(toMaster, "UA")
    BY <1>3 DEF Free
  <2> QED BY <1>1, <1>2, <2>1, <2>2 DEF SetUp
<1>11. Numbers
  <2>1. /\ mRx \in Seqs /\ sTx \in Seqs /\ sRx \in Seqs /\ owed \in Nat
        /\ resets \in 0..MaxResets /\ losses \in 0..MaxLosses /\ ~(owed > 0)
    BY <1>1, LinkAssumption DEF Seqs
  <2> QED BY <1>2, <2>1 DEF Numbers
<1> QED BY <1>6, <1>7, <1>8, <1>9, <1>10, <1>11 DEF LinkInv

\* startLink(): before the first packet.
LEMMA StartLinkKeeps ==
  ASSUME LinkInv, StartLink, ~mUp, connects' \in 1..MaxConnects
  PROVE  LinkInv' /\ ChannelStep
<1> DEFINE f == Plain("SNURM")
<1>1. f \in Frames /\ f.kind = "SNURM"
  BY PlainType DEF Kinds
<1>2. /\ linkTimer' = TRUE /\ toSlave' = Append(toSlave, f) /\ toMaster' = toMaster
      /\ UNCHANGED <<mUp, mRx, sUp, sTx, sRx, owed, resets, losses, answerLost>> /\ Quiet
  BY DEF StartLink, slaveVars, Quiet
<1>3. /\ Packets' /\ Window' /\ Delivered' /\ L' = L /\ Sent' = Sent /\ ChannelStep
      /\ submitted' = submitted /\ confirmed' = confirmed
  BY <1>2, QuietKeeps
<1>4. submitted = 0
  BY DEF LinkInv, SetUp
<1>5. L = 0 /\ Sent = 0
  BY <1>4, TypesOf
<1>6. ToSlaveOK(toSlave, 0, 0)
  BY <1>5 DEF LinkInv, Lines
<1>7. ToSlaveOK(toSlave', L', Sent')
  BY <1>2, <1>3, <1>5, <1>6, SlaveAppendSetup
<1>8. Lines'
  BY <1>2, <1>3, <1>5, <1>7 DEF LinkInv, Lines
<1>9. SetUp'
  BY <1>2, <1>3, <1>4 DEF LinkInv, SetUp
<1>10. Numbers'
  BY <1>2, <1>3 DEF LinkInv, Numbers
<1> QED BY <1>3, <1>8, <1>9, <1>10 DEF LinkInv

LEMMA ConnectKeeps ==
  ASSUME OnceUp, LinkInv, Connect
  PROVE  LinkInv' /\ ChannelStep
<1>1. connects = 0 /\ connects' = 1 /\ MaxConnects = 1
  BY LinkAssumption DEF OnceUp, Connect, LinkInv, SetUp
<1>2. ~mUp
  BY <1>1 DEF LinkInv, SetUp
<1>3. StartLink /\ connects' \in 1..MaxConnects
  BY <1>1 DEF Connect
<1> QED BY <1>2, <1>3, StartLinkKeeps

LEMMA LinkExpiredKeeps ==
  ASSUME LinkInv, LinkExpired
  PROVE  LinkInv' /\ ChannelStep
<1>1. ~mUp /\ connects # 0 /\ connects' = connects
  BY DEF LinkInv, SetUp, LinkExpired
<1>2. connects' \in 1..MaxConnects
  BY <1>1, LinkAssumption DEF LinkInv, SetUp
<1>3. StartLink
  BY DEF LinkExpired
<1> QED BY <1>1, <1>2, <1>3, StartLinkKeeps

LEMMA SubmitKeeps ==
  ASSUME OnceUp, LinkInv, Submit
  PROVE  LinkInv' /\ ChannelStep
<1>1. /\ mUp /\ submitted' = submitted + 1 /\ submitted < MaxPackets
      /\ UNCHANGED <<toMaster, mUp, mRx, linkTimer, sUp, sTx, sRx, owed, delivered, confirmed,
                     connects, resets, losses, answerLost>>
  BY DEF Submit, OnceUp, slaveVars, counts
<1>2. submitted' \in 1..MaxPackets /\ submitted' \in 0..MaxPackets /\ L' = L
  BY <1>1, TypesOf, LinkAssumption DEF L
<1>3. TxQueue = QueueOf(confirmed, Sent) /\ ToBeAcked(TxQueue) = Sent - confirmed
  BY TypesOf, QueueFacts DEF LinkInv, Window
<1>4. /\ Packets' /\ Window' /\ ToSlaveOK(toSlave', L, Sent')
      /\ Free(toSlave, "SNURM") => Free(toSlave', "SNURM")
  <2>1. CASE Sent = confirmed
    <3>1. inputQueue = <<>> /\ submitted = confirmed /\ L = confirmed
      BY <2>1, TypesOf DEF LinkInv, Packets, Sent
    <3>2. /\ SetQueue(QueueOf(confirmed, confirmed + 1)) /\ UNCHANGED inputQueue
          /\ StartXmit(QueueOf(confirmed, confirmed + 1), mRx, rexTimer)
      <4>1. ToBeAcked(TxQueue) < 1
        BY <1>3, <2>1, TypesOf
      <4>2. submitted' = confirmed + 1
        BY <1>1, <3>1
      <4>3. Queue(TxQueue, submitted') = QueueOf(confirmed, confirmed + 1)
        BY <1>3, <2>1, <4>2, TypesOf, QueueFilled
      <4> QED BY <4>1, <4>3 DEF Submit
    <3>3. Sent' = confirmed + 1
      BY <1>1, <3>1, <3>2 DEF Sent
    <3>4. ToSlaveOK(toSlave, L, confirmed + 1)
      BY <2>1, TypesOf, SlaveMore DEF LinkInv, Lines
    <3>5. /\ rexTimer' = TRUE /\ ToSlaveOK(toSlave', L, confirmed + 1)
          /\ Free(toSlave, "SNURM") => Free(toSlave', "SNURM")
      <4>1. confirmed \in Nat /\ confirmed + 1 <= MaxPackets /\ L \in 0..confirmed + 1
        BY <1>2, <1>1, <3>1, TypesOf, LinkAssumption
      <4>2. mRx \in Seqs
        BY DEF LinkInv, Numbers
      <4> HIDE DEF L
      <4> QED BY <3>2, <3>4, <4>1, <4>2, StartXmitSends
    <3>6. Packets'
      <4>1. inputQueue' \in Seq(1..MaxPackets) /\ Len(inputQueue') = 0
        BY <3>1, <3>2 DEF LinkInv, Packets
      <4> QED BY <1>1, <1>2, <3>1, <3>2, <3>3, <4>1, TypesOf DEF Packets
    <3>7. TxQueue' = QueueOf(confirmed, confirmed + 1)
      BY <3>2 DEF SetQueue, TxQueue, QueueOf
    <3>8. Window'
      BY <1>1, <3>3, <3>5, <3>7 DEF Window
    <3> QED BY <3>3, <3>5, <3>6, <3>8
  <2>2. CASE Sent # confirmed
    <3>1. Sent = confirmed + 1
      BY <2>2, TypesOf
    <3>2. /\ inputQueue' = Append(inputQueue, submitted')
          /\ UNCHANGED <<toSlave, tx, ack, slots, rexTimer>>
      BY <1>3, <3>1, TypesOf DEF Submit, txQueue
    <3>3. /\ inputQueue' \in Seq(1..MaxPackets) /\ Len(inputQueue') = Len(inputQueue) + 1
          /\ \A k \in 1..Len(inputQueue) : inputQueue'[k] = inputQueue[k]
          /\ inputQueue'[Len(inputQueue) + 1] = submitted'
      BY <1>2, <3>2 DEF LinkInv, Packets
    <3>4. Sent' = Sent /\ submitted' = Sent + Len(inputQueue) + 1
      <4>1. Len(inputQueue') = Len(inputQueue) + 1 /\ submitted' = submitted + 1
        BY <1>1, <3>3
      <4>2. Len(inputQueue) \in Nat /\ submitted \in Nat
        BY TypesOf
      <4> QED BY <4>1, <4>2 DEF Sent
    <3>5. \A k \in 1..Len(inputQueue') : inputQueue'[k] = Sent + k
      <4> SUFFICES ASSUME NEW k \in 1..Len(inputQueue') PROVE inputQueue'[k] = Sent + k
        OBVIOUS
      <4>1. k \in 1..Len(inputQueue) \/ k = Len(inputQueue) + 1
        BY <3>3, TypesOf
      <4>2. k \in 1..Len(inputQueue) => inputQueue[k] = Sent + k
        BY DEF LinkInv, Packets
      <4>3. k = Len(inputQueue) + 1 => inputQueue'[k] = Sent + k
        BY <3>3, <3>4, TypesOf
      <4> QED BY <3>3, <4>1, <4>2, <4>3
    <3>6. Len(inputQueue') <= submitted'
      BY <3>3, <3>4, TypesOf
    <3>7. Packets'
      BY <1>1, <1>2, <3>1, <3>3, <3>4, <3>5, <3>6, TypesOf DEF Packets
    <3>8. TxQueue' = TxQueue
      BY <3>2 DEF TxQueue
    <3>9. Window'
      BY <1>1, <3>2, <3>4, <3>8 DEF LinkInv, Window
    <3> QED BY <3>2, <3>4, <3>7, <3>9 DEF LinkInv, Lines
  <2> QED BY <2>1, <2>2
<1>5. Lines'
  BY <1>1, <1>2, <1>4 DEF LinkInv, Lines
<1>6. Delivered'
  BY <1>1, <1>2 DEF LinkInv, Delivered
<1>7. SetUp'
  BY <1>1, <1>4 DEF LinkInv, SetUp
<1>8. Numbers'
  BY <1>1, <1>2 DEF LinkInv, Numbers
<1>9. ChannelStep
  BY <1>1 DEF ChannelStep, Channel!Next, Channel!Submit
<1> QED BY <1>4, <1>5, <1>6, <1>7, <1>8, <1>9 DEF LinkInv

LEMMA RetransmitKeeps ==
  ASSUME LinkInv, RetransmitTimerExpired
  PROVE  LinkInv' /\ ChannelStep
<1>1. UNCHANGED <<toMaster, mUp, mRx, tx, ack, slots, inputQueue, linkTimer,
                  sUp, sTx, sRx, owed, submitted, delivered, confirmed,
                  connects, resets, losses, answerLost>>
  BY DEF RetransmitTimerExpired, txQueue, slaveVars, appVars, counts
<1>2. L' = L /\ Sent' = Sent /\ TxQueue' = TxQueue
  BY <1>1 DEF L, Sent, TxQueue
<1>3. TxQueue = QueueOf(confirmed, Sent)
  BY DEF LinkInv, Window
<1>4. /\ rexTimer' \in BOOLEAN
      /\ Sent > confirmed => rexTimer'
      /\ ToSlaveOK(toSlave', L, Sent)
      /\ Free(toSlave, "SNURM") => Free(toSlave', "SNURM")
  <2>1. CASE mUp /\ Sent = confirmed + 1
    <3>1. /\ confirmed \in Nat /\ confirmed + 1 <= MaxPackets /\ L \in 0..confirmed + 1
          /\ mRx \in Seqs
      BY <2>1, TypesOf, LinkAssumption DEF LinkInv, Numbers
    <3>2. ToSlaveOK(toSlave, L, confirmed + 1)
      BY <2>1 DEF LinkInv, Lines
    <3>3. StartXmit(QueueOf(confirmed, confirmed + 1), mRx, FALSE)
      BY <1>3, <2>1 DEF RetransmitTimerExpired
    <3>4. /\ rexTimer' = TRUE /\ ToSlaveOK(toSlave', L, confirmed + 1)
          /\ Free(toSlave, "SNURM") => Free(toSlave', "SNURM")
      <4> HIDE DEF L
      <4> QED BY <3>1, <3>2, <3>3, StartXmitSends
    <3> QED BY <2>1, <3>4
  <2>2. CASE mUp /\ Sent = confirmed
    <3>1. StartXmit(QueueOf(confirmed, confirmed), mRx, FALSE)
      BY <1>3, <2>2 DEF RetransmitTimerExpired
    <3>2. toSlave' = toSlave /\ rexTimer' = FALSE
      BY <3>1, TypesOf, StartXmitIdle
    <3>3. ~(Sent > confirmed)
      BY <2>2, TypesOf
    <3> QED BY <3>2, <3>3 DEF LinkInv, Lines
  <2>3. CASE ~mUp
    <3>1. toSlave' = toSlave /\ rexTimer' = FALSE
      BY <2>3 DEF RetransmitTimerExpired
    <3>2. submitted = 0
      BY <2>3 DEF LinkInv, SetUp
    <3>3. ~(Sent > confirmed)
      BY <3>2, TypesOf
    <3> QED BY <3>1, <3>3 DEF LinkInv, Lines
  <2> QED BY <2>1, <2>2, <2>3, TypesOf
<1>5. Lines'
  BY <1>1, <1>2, <1>4 DEF LinkInv, Lines
<1>6. Packets'
  BY <1>1, <1>2 DEF LinkInv, Packets
<1>7. Window'
  <2>1. TxQueue' = QueueOf(confirmed', Sent')
    BY <1>1, <1>2, <1>3
  <2>2. Sent' > confirmed' <=> Sent > confirmed
    BY <1>1, <1>2
  <2>3. rexTimer' \in BOOLEAN /\ (Sent' > confirmed' => rexTimer')
    BY <1>4, <2>2
  <2> QED BY <2>1, <2>3 DEF Window
<1>8. Delivered'
  BY <1>1, <1>2 DEF LinkInv, Delivered
<1>9. SetUp'
  BY <1>1, <1>4 DEF LinkInv, SetUp
<1>10. Numbers'
  BY <1>1, <1>2 DEF LinkInv, Numbers
<1>11. ChannelStep
  BY <1>1 DEF ChannelStep
<1> QED BY <1>5, <1>6, <1>7, <1>8, <1>9, <1>10, <1>11 DEF LinkInv

(***************************************************************************)
(* What the master receives.                                               *)
(***************************************************************************)
\* An acknowledgement, old or new, followed by checkXmit().
LEMMA AckKeeps ==
  ASSUME LinkInv, NEW rx \in Seqs, NEW timer \in BOOLEAN,
         toMaster # <<>>, Head(toMaster).kind \in Acks, toMaster' = Tail(toMaster),
         timer \/ ~rexTimer \/ ToBeAcked(AckUpTo(TxQueue, Head(toMaster).nr)) = 0,
         CheckXmit(AckUpTo(TxQueue, Head(toMaster).nr), rx, timer),
         confirmed' = confirmed + Freed(TxQueue, Head(toMaster).nr),
         UNCHANGED <<submitted, delivered>>
  PROVE  /\ Lines' /\ Packets' /\ Window' /\ Delivered' /\ L' = L /\ ChannelStep
         /\ Free(toSlave, "SNURM") => Free(toSlave', "SNURM")
<1> DEFINE nr == Head(toMaster).nr
<1>1. /\ submitted \in 0..MaxPackets /\ inputQueue \in Seq(1..MaxPackets)
      /\ Len(inputQueue) <= submitted
      /\ \A k \in 1..Len(inputQueue) : inputQueue[k] = Sent + k
      /\ TxQueue = QueueOf(confirmed, Sent)
      /\ Sent > confirmed => rexTimer
      /\ ToSlaveOK(toSlave, L, Sent) /\ ToMasterOK(toMaster, confirmed, L)
  BY DEF LinkInv, Lines, Packets, Window
<1>2. L' = L /\ Delivered'
  BY DEF L, LinkInv, Delivered
<1>3. nr \in {confirmed % 8, L % 8}
  BY <1>1, TailOf, TypesOf DEF ToMasterOK
<1>4. SUFFICES ASSUME NEW c \in Nat, confirmed' = c, c <= L, Sent <= c + 1,
                      Sent > c => timer, CheckXmit(QueueOf(c, Sent), rx, timer),
                      ToMasterOK(toMaster', c, L)
               PROVE  /\ Lines' /\ Packets' /\ Window'
                      /\ Free(toSlave, "SNURM") => Free(toSlave', "SNURM")
  <2>1. CASE nr = confirmed % 8
    <3>1. AckUpTo(TxQueue, nr) = QueueOf(confirmed, Sent) /\ Freed(TxQueue, nr) = 0
      BY <1>1, <2>1, QueueAckOld, TypesOf
    <3>2. confirmed' = confirmed
      BY <3>1, TypesOf
    <3>3. ToMasterOK(toMaster', confirmed, L)
      BY <1>1, MasterTail
    <3>4. ToBeAcked(AckUpTo(TxQueue, nr)) = Sent - confirmed
      <4>1. confirmed \in Nat /\ Sent \in {confirmed, confirmed + 1}
        BY TypesOf
      <4> QED BY <3>1, <4>1, QueueFacts
    <3>5. Sent > confirmed => ToBeAcked(AckUpTo(TxQueue, nr)) # 0
      BY <3>4, TypesOf
    <3>6. Sent > confirmed => timer
      BY <1>1, <3>5
    <3>7. CheckXmit(QueueOf(confirmed, Sent), rx, timer)
      BY <3>1
    <3>8. /\ Lines' /\ Packets' /\ Window'
          /\ Free(toSlave, "SNURM") => Free(toSlave', "SNURM")
      BY <1>4, <3>2, <3>3, <3>6, <3>7, TypesOf
    <3> QED BY <1>2, <3>2, <3>8 DEF ChannelStep
  <2>2. CASE nr # confirmed % 8
    <3>1. L = confirmed + 1 /\ Sent = confirmed + 1 /\ nr = (confirmed + 1) % 8
      BY <1>3, <2>2, TypesOf
    <3>2. /\ AckUpTo(TxQueue, nr) = QueueOf(confirmed + 1, Sent) /\ Freed(TxQueue, nr) = 1
      BY <1>1, <3>1, QueueAckNew, TypesOf
    <3>3. confirmed' = confirmed + 1
      BY <3>2
    <3>4. ToMasterOK(toMaster', confirmed + 1, L)
      BY <1>1, <3>1, MasterConfirms, TypesOf
    <3>5. CheckXmit(QueueOf(confirmed + 1, Sent), rx, timer)
      BY <3>2
    <3>6. ~(Sent > confirmed + 1) /\ confirmed + 1 \in Nat
      BY <3>1, TypesOf
    <3>7. /\ Lines' /\ Packets' /\ Window'
          /\ Free(toSlave, "SNURM") => Free(toSlave', "SNURM")
      BY <1>4, <3>1, <3>3, <3>4, <3>5, <3>6, TypesOf
    <3>8. confirmed < Len(delivered)
      BY <3>1, TypesOf DEF L
    <3>9. ChannelStep
      BY <3>3, <3>8 DEF ChannelStep, Channel!Next, Channel!Confirm
    <3> QED BY <1>2, <3>7, <3>9
  <2> QED BY <2>1, <2>2
<1>5. /\ Packets' /\ Window' /\ ToSlaveOK(toSlave, L, Sent)'
      /\ Free(toSlave, "SNURM") => Free(toSlave, "SNURM")'
  BY <1>1, <1>4, CheckXmitKeeps, TypesOf
<1>6. Lines'
  BY <1>2, <1>4, <1>5 DEF LinkInv, Lines
<1> QED BY <1>5, <1>6

\* A frame the master takes leaves the set-up of the link and the slave alone.
LEMMA MasterTakesKeeps ==
  ASSUME LinkInv, toMaster # <<>>, toMaster' = Tail(toMaster), mRx' \in Seqs, L' = L,
         Lines', UNCHANGED <<mUp, linkTimer, sUp, sTx, sRx, owed, submitted, connects, resets,
                             losses, answerLost>>,
         Free(toSlave, "SNURM") => Free(toSlave', "SNURM")
  PROVE  SetUp' /\ Numbers'
<1>1. Free(toMaster, "UA") => Free(toMaster', "UA")
  BY FreeTail, TypesOf
<1>2. SetUp'
  BY <1>1 DEF LinkInv, SetUp
<1>3. Numbers'
  BY DEF LinkInv, Numbers
<1> QED BY <1>2, <1>3

LEMMA MasterInformationKeeps ==
  ASSUME LinkInv, MasterInformation
  PROVE  LinkInv' /\ ChannelStep
<1> DEFINE f == Head(toMaster)
<1>1. /\ toMaster # <<>> /\ f.kind = "I" /\ toMaster' = Tail(toMaster)
      /\ UNCHANGED <<mUp, linkTimer, sUp, sTx, sRx, owed, submitted, delivered,
                     connects, resets, losses, answerLost>>
  BY DEF MasterInformation, MasterTakes, slaveVars, counts
<1>2. /\ Lines' /\ Packets' /\ Window' /\ Delivered' /\ L' = L /\ ChannelStep
      /\ mRx' \in Seqs
      /\ Free(toSlave, "SNURM") => Free(toSlave', "SNURM")
  <2>1. CASE f.ns = mRx /\ mUp
    <3>1. /\ mRx' = NextSeq(mRx) /\ confirmed' = confirmed + Freed(TxQueue, f.nr)
          /\ CheckXmit(AckUpTo(TxQueue, f.nr), mRx', rexTimer)
      BY <2>1 DEF MasterInformation, AcceptAck
    <3>2. mRx' \in Seqs
      <4>1. mRx \in Seqs
        BY DEF LinkInv, Numbers
      <4> QED BY <3>1, <4>1 DEF NextSeq, Seqs
    <3>3. f.kind \in Acks
      BY <1>1 DEF Acks
    <3>4. rexTimer \in BOOLEAN
      BY DEF LinkInv, Window
    <3>5. rexTimer \/ ~rexTimer \/ ToBeAcked(AckUpTo(TxQueue, f.nr)) = 0
      BY <3>4
    <3>6. UNCHANGED <<submitted, delivered>>
      BY <1>1
    <3> QED BY <1>1, <3>1, <3>2, <3>3, <3>4, <3>5, <3>6, AckKeeps
  <2>2. CASE ~(f.ns = mRx /\ mUp)
    <3>1. /\ toSlave' = Append(toSlave, Supervisory("REJ", mRx))
          /\ UNCHANGED <<mRx, txQueue, inputQueue, rexTimer, confirmed>>
      BY <2>2 DEF MasterInformation
    <3>2. Quiet
      BY <1>1, <3>1 DEF Quiet, appVars
    <3>3. mRx \in Seqs
      BY DEF LinkInv, Numbers
    <3>4. /\ Supervisory("REJ", mRx) \in Frames
          /\ Supervisory("REJ", mRx).kind = "REJ"
      BY <3>3, SupervisoryType DEF Kinds
    <3>5. /\ Packets' /\ Window' /\ Delivered' /\ L' = L /\ Sent' = Sent /\ ChannelStep
          /\ confirmed' = confirmed
      BY <3>2, QuietKeeps
    <3>6. ToSlaveOK(toSlave', L, Sent) /\ ToMasterOK(toMaster', confirmed, L)
      BY <1>1, <3>1, <3>4, SlaveAppendOther, MasterTail DEF LinkInv, Lines
    <3>7. Free(toSlave, "SNURM") => Free(toSlave', "SNURM")
      BY <3>1, <3>4, FreeAppend, TypesOf
    <3>8. Lines'
      BY <3>5, <3>6, <3>7 DEF LinkInv, Lines
    <3> QED BY <3>1, <3>3, <3>5, <3>7, <3>8
  <2> QED BY <2>1, <2>2
<1>3. SetUp' /\ Numbers'
  BY <1>1, <1>2, MasterTakesKeeps
<1> QED BY <1>2, <1>3 DEF LinkInv

LEMMA MasterReceiverReadyKeeps ==
  ASSUME LinkInv, MasterReceiverReady
  PROVE  LinkInv' /\ ChannelStep
<1> DEFINE nr    == Head(toMaster).nr
           timer == rexTimer /\ ToBeAcked(AckUpTo(TxQueue, nr)) # 0
<1>1. /\ toMaster # <<>> /\ Head(toMaster).kind = "RR" /\ toMaster' = Tail(toMaster)
      /\ UNCHANGED <<mUp, mRx, linkTimer, sUp, sTx, sRx, owed, submitted, delivered,
                     connects, resets, losses, answerLost>>
  BY DEF MasterReceiverReady, MasterTakes, slaveVars, counts
<1>2. /\ confirmed' = confirmed + Freed(TxQueue, nr)
      /\ CheckXmit(AckUpTo(TxQueue, nr), mRx, timer)
  BY DEF MasterReceiverReady
<1>3. /\ Head(toMaster).kind \in Acks /\ mRx \in Seqs /\ timer \in BOOLEAN
  BY <1>1 DEF Acks, LinkInv, Numbers
<1>4. timer \/ ~rexTimer \/ ToBeAcked(AckUpTo(TxQueue, nr)) = 0
  OBVIOUS
<1>5. UNCHANGED <<submitted, delivered>>
  BY <1>1
<1> HIDE DEF timer
<1>6. /\ Lines' /\ Packets' /\ Window' /\ Delivered' /\ L' = L /\ ChannelStep
      /\ Free(toSlave, "SNURM") => Free(toSlave', "SNURM")
  BY <1>1, <1>2, <1>3, <1>4, <1>5, AckKeeps
<1>7. SetUp' /\ Numbers'
  BY <1>1, <1>3, <1>6, MasterTakesKeeps
<1> QED BY <1>6, <1>7 DEF LinkInv

LEMMA MasterUnnumberedAckKeeps ==
  ASSUME LinkInv, MasterUnnumberedAck
  PROVE  LinkInv' /\ ChannelStep
<1>1. /\ toMaster # <<>> /\ Head(toMaster).kind = "UA" /\ toMaster' = Tail(toMaster)
      /\ UNCHANGED <<sUp, sTx, sRx, owed, submitted, delivered, confirmed,
                     connects, resets, losses, answerLost>>
      /\ CheckXmit(TxQueue, mRx', rexTimer)
  BY DEF MasterUnnumberedAck, MasterTakes, slaveVars, appVars, counts
<1>2. mRx' = 0 /\ mUp' = TRUE /\ linkTimer' = FALSE
  BY DEF MasterUnnumberedAck
<1>3. mRx' \in Seqs
  BY <1>2 DEF Seqs
<1>4. /\ Packets' /\ Window' /\ ToSlaveOK(toSlave, L, Sent)'
      /\ Free(toSlave, "SNURM") => Free(toSlave, "SNURM")'
  <2>1. /\ submitted \in 0..MaxPackets /\ inputQueue \in Seq(1..MaxPackets)
        /\ Len(inputQueue) <= submitted
        /\ \A k \in 1..Len(inputQueue) : inputQueue[k] = Sent + k
        /\ ToSlaveOK(toSlave, L, Sent) /\ TxQueue = QueueOf(confirmed, Sent)
        /\ rexTimer \in BOOLEAN
    BY DEF LinkInv, Lines, Packets, Window
  <2>2. Sent > confirmed => rexTimer
    BY DEF LinkInv, Window
  <2>3. CheckXmit(QueueOf(confirmed, Sent), mRx', rexTimer)
    BY <1>1, <2>1
  <2>4. confirmed' = confirmed /\ UNCHANGED <<submitted, delivered>>
    BY <1>1
  <2> QED BY <1>3, <2>1, <2>2, <2>3, <2>4, CheckXmitKeeps, TypesOf
<1>5. L' = L /\ Delivered' /\ ChannelStep
  BY <1>1 DEF L, LinkInv, Delivered, ChannelStep
<1>6. ToMasterOK(toMaster', confirmed', L')
  BY <1>1, <1>5, MasterTail DEF LinkInv, Lines
<1>7. Lines'
  BY <1>4, <1>5, <1>6 DEF LinkInv, Lines
<1>8. connects' \in 0..MaxConnects /\ connects' # 0
  BY <1>1, TailOf, TypesOf DEF LinkInv, SetUp, Free
<1>9. SetUp'
  BY <1>2, <1>8 DEF SetUp
<1>10. Numbers'
  BY <1>1, <1>3, <1>5 DEF LinkInv, Numbers
<1> QED BY <1>4, <1>5, <1>7, <1>9, <1>10 DEF LinkInv

(***************************************************************************)
(* The other steps of the two stations, and the line.                      *)
(***************************************************************************)
LEMMA QuietStep ==
  ASSUME LinkInv, Quiet, ToSlaveOK(toSlave', L, Sent), ToMasterOK(toMaster', confirmed, L),
         Free(toSlave, "SNURM") => Free(toSlave', "SNURM"),
         connects = 0 => Free(toMaster', "UA"),
         UNCHANGED <<mUp, linkTimer, connects>>,
         mRx' \in Seqs, sTx' \in Seqs, sRx' \in Seqs, sUp' \in BOOLEAN, owed' \in Nat,
         sUp' => sRx' = L % 8, owed' > 0 => sUp',
         resets' \in 0..MaxResets, losses' \in 0..MaxLosses, answerLost' \in BOOLEAN
  PROVE  LinkInv' /\ ChannelStep
<1>1. /\ Packets' /\ Window' /\ Delivered' /\ L' = L /\ Sent' = Sent /\ ChannelStep
      /\ submitted' = submitted /\ confirmed' = confirmed
  BY QuietKeeps
<1>2. Lines'
  BY <1>1 DEF LinkInv, Lines
<1>3. SetUp'
  BY <1>1 DEF LinkInv, SetUp
<1>4. Numbers'
  BY <1>1 DEF Numbers
<1> QED BY <1>1, <1>2, <1>3, <1>4 DEF LinkInv

\* A step that only touches the lines.
LEMMA LineStep ==
  ASSUME LinkInv, UNCHANGED <<masterVars, slaveVars, appVars, connects, resets>>,
         losses' \in 0..MaxLosses, answerLost' \in BOOLEAN,
         ToSlaveOK(toSlave', L, Sent), ToMasterOK(toMaster', confirmed, L),
         Free(toSlave, "SNURM") => Free(toSlave', "SNURM"),
         Free(toMaster, "UA") => Free(toMaster', "UA")
  PROVE  LinkInv' /\ ChannelStep
<1>1. /\ Quiet /\ UNCHANGED <<mUp, linkTimer, connects>>
      /\ UNCHANGED <<mRx, sTx, sRx, sUp, owed, resets>>
  BY DEF masterVars, slaveVars, Quiet
<1>2. /\ mRx \in Seqs /\ sTx \in Seqs /\ sRx \in Seqs /\ sUp \in BOOLEAN /\ owed \in Nat
      /\ sUp => sRx = L % 8
      /\ owed > 0 => sUp
      /\ resets \in 0..MaxResets
  BY DEF LinkInv, Numbers
<1>3. connects = 0 => Free(toMaster', "UA")
  BY DEF LinkInv, SetUp
<1>4. /\ mRx' \in Seqs /\ sTx' \in Seqs /\ sRx' \in Seqs /\ sUp' \in BOOLEAN /\ owed' \in Nat
      /\ sUp' => sRx' = L % 8
      /\ owed' > 0 => sUp'
      /\ resets' \in 0..MaxResets
  BY <1>1, <1>2
<1> QED BY <1>1, <1>3, <1>4, QuietStep

LEMMA MasterOtherKeeps ==
  ASSUME LinkInv, MasterReject \/ MasterCrcError \/ MasterOOB
  PROVE  LinkInv' /\ ChannelStep
<1>1. /\ toMaster # <<>> /\ toMaster' = Tail(toMaster)
      /\ UNCHANGED <<masterVars, slaveVars, appVars, counts>>
      /\ toSlave' = toSlave \/ toSlave' = Append(toSlave, Plain("UI"))
  BY DEF MasterReject, MasterCrcError, MasterOOB, MasterTakes
<1>2. UNCHANGED <<connects, resets, losses, answerLost>>
  BY <1>1 DEF counts
<1>3. losses' \in 0..MaxLosses /\ answerLost' \in BOOLEAN
  BY <1>2 DEF LinkInv, Numbers
<1>4. Plain("UI") \in Frames /\ Plain("UI").kind = "UI"
  BY PlainType DEF Kinds
<1>5. ToSlaveOK(toSlave', L, Sent) /\ (Free(toSlave, "SNURM") => Free(toSlave', "SNURM"))
  BY <1>1, <1>4, SlaveAppendOther, FreeAppend, TypesOf DEF LinkInv, Lines
<1>6. ToMasterOK(toMaster', confirmed, L) /\ (Free(toMaster, "UA") => Free(toMaster', "UA"))
  BY <1>1, MasterTail, FreeTail, TypesOf DEF LinkInv, Lines
<1>7. UNCHANGED <<masterVars, slaveVars, appVars, connects, resets>>
  BY <1>1, <1>2
<1> QED BY <1>3, <1>5, <1>6, <1>7, LineStep

LEMMA SlaveOtherKeeps ==
  ASSUME LinkInv, SlaveReject \/ SlaveCrcError \/ SlaveOOB
  PROVE  LinkInv' /\ ChannelStep
<1>1. /\ toSlave # <<>> /\ toSlave' = Tail(toSlave)
      /\ UNCHANGED <<masterVars, slaveVars, appVars, counts>>
      /\ toMaster' = toMaster \/ toMaster' = Append(toMaster, Plain("UI"))
  BY DEF SlaveReject, SlaveCrcError, SlaveOOB, SlaveTakes
<1>2. UNCHANGED <<connects, resets, losses, answerLost>>
  BY <1>1 DEF counts
<1>3. losses' \in 0..MaxLosses /\ answerLost' \in BOOLEAN
  BY <1>2 DEF LinkInv, Numbers
<1>4. Plain("UI") \in Frames /\ Plain("UI").kind = "UI"
  BY PlainType DEF Kinds
<1>5. ToSlaveOK(toSlave', L, Sent) /\ (Free(toSlave, "SNURM") => Free(toSlave', "SNURM"))
  BY <1>1, SlaveTail, FreeTail, TypesOf DEF LinkInv, Lines
<1>6. ToMasterOK(toMaster', confirmed, L) /\ (Free(toMaster, "UA") => Free(toMaster', "UA"))
  <2>1. Plain("UI").kind \notin Acks /\ Plain("UI").kind # "UA"
    BY <1>4 DEF Acks
  <2> QED BY <1>1, <1>4, <2>1, MasterAppendOther, FreeAppend, TypesOf DEF LinkInv, Lines
<1>7. UNCHANGED <<masterVars, slaveVars, appVars, connects, resets>>
  BY <1>1, <1>2
<1> QED BY <1>3, <1>5, <1>6, <1>7, LineStep

LEMMA LoseKeeps ==
  ASSUME LinkInv, Lose
  PROVE  LinkInv' /\ ChannelStep
<1>1. /\ UNCHANGED <<masterVars, slaveVars, appVars, connects, resets>>
      /\ losses' = losses + 1 /\ losses < MaxLosses
  BY DEF Lose
<1>2. losses' \in 0..MaxLosses
  BY <1>1, LinkAssumption DEF LinkInv, Numbers
<1>3. /\ ToSlaveOK(toSlave, L, Sent) /\ ToMasterOK(toMaster, confirmed, L)
      /\ toSlave \in Seq(Frames) /\ toMaster \in Seq(Frames) /\ answerLost \in BOOLEAN
  BY TypesOf DEF LinkInv, Lines, Numbers
<1>4. CASE toSlave # <<>> /\ toSlave' \in Harm(toSlave) /\ UNCHANGED <<toMaster, answerLost>>
  <2>1. ToSlaveOK(toSlave', L, Sent) /\ (Free(toSlave, "SNURM") => Free(toSlave', "SNURM"))
    <3>1. CASE toSlave' = Tail(toSlave)
      BY <1>3, <1>4, <3>1, SlaveTail, FreeTail
    <3>2. CASE toSlave' = <<Plain("BAD")>> \o Tail(toSlave)
      BY <1>3, <1>4, <3>2, SlaveBad, FreeBad
    <3> QED BY <1>4, <3>1, <3>2 DEF Harm
  <2>2. answerLost' \in BOOLEAN
    BY <1>3, <1>4
  <2> QED BY <1>1, <1>2, <1>3, <1>4, <2>1, <2>2, LineStep
<1>5. CASE /\ toMaster # <<>> /\ toMaster' \in Harm(toMaster)
           /\ answerLost' = TRUE /\ UNCHANGED toSlave
  <2>1. ToMasterOK(toMaster', confirmed, L) /\ (Free(toMaster, "UA") => Free(toMaster', "UA"))
    <3>1. CASE toMaster' = Tail(toMaster)
      BY <1>3, <1>5, <3>1, MasterTail, FreeTail
    <3>2. CASE toMaster' = <<Plain("BAD")>> \o Tail(toMaster)
      BY <1>3, <1>5, <3>2, MasterBad, FreeBad
    <3> QED BY <1>5, <3>1, <3>2 DEF Harm
  <2>2. answerLost' \in BOOLEAN
    BY <1>5
  <2> QED BY <1>1, <1>2, <1>3, <1>5, <2>1, <2>2, LineStep
<1> QED BY <1>4, <1>5 DEF Lose

LEMMA SlaveSetModeKeeps ==
  ASSUME LinkInv, SlaveSetMode
  PROVE  LinkInv' /\ ChannelStep
<1>1. /\ toSlave # <<>> /\ Head(toSlave).kind = "SNURM" /\ toSlave' = Tail(toSlave)
      /\ sTx' = 0 /\ sRx' = 0 /\ toMaster' = Append(toMaster, Plain("UA"))
      /\ UNCHANGED <<mUp, linkTimer, connects, mRx, owed, resets, losses, answerLost>> /\ Quiet
  BY DEF SlaveSetMode, SlaveTakes, masterVars, counts, Quiet
<1>2. sUp' = TRUE
  BY DEF SlaveSetMode
<1>3. ~Free(toSlave, "SNURM")
  BY <1>1, TailOf, TypesOf DEF Free
<1>4. L = 0 /\ connects # 0
  BY <1>3 DEF LinkInv, Lines, SetUp
<1>5. Plain("UA") \in Frames /\ Plain("UA").kind = "UA" /\ Plain("UA").kind \notin Acks
  BY PlainType DEF Kinds, Acks
<1>6. /\ ToSlaveOK(toSlave', L, Sent) /\ ToMasterOK(toMaster', confirmed, L)
  BY <1>1, <1>5, SlaveTail, MasterAppendOther DEF LinkInv, Lines
<1>7. sUp' => sRx' = L % 8
  BY <1>1, <1>4
<1>8. /\ mRx' \in Seqs /\ sTx' \in Seqs /\ sRx' \in Seqs /\ owed' \in Nat
      /\ resets' \in 0..MaxResets /\ losses' \in 0..MaxLosses
  BY <1>1 DEF LinkInv, Numbers, Seqs
<1>9. sUp' \in BOOLEAN /\ answerLost' \in BOOLEAN /\ (owed' > 0 => sUp')
  BY <1>1, <1>2 DEF LinkInv, Numbers
<1>10. connects = 0 => Free(toMaster', "UA")
  BY <1>4
<1>11. Free(toSlave, "SNURM") => Free(toSlave', "SNURM")
  BY <1>3
<1>12. UNCHANGED <<mUp, linkTimer, connects>>
  BY <1>1
<1> QED BY <1>1, <1>6, <1>7, <1>8, <1>9, <1>10, <1>11, <1>12, QuietStep

LEMMA SlaveResetKeeps ==
  ASSUME LinkInv, SlaveReset
  PROVE  LinkInv' /\ ChannelStep
<1>1. /\ resets' = resets + 1 /\ resets < MaxResets /\ sTx' = 0 /\ sRx' = 0 /\ owed' = 0
      /\ UNCHANGED <<toSlave, toMaster, mUp, linkTimer, connects, mRx, losses, answerLost>>
      /\ Quiet
  BY DEF SlaveReset, lines, masterVars, Quiet
<1>2. sUp' = FALSE
  BY DEF SlaveReset
<1>3. resets' \in 0..MaxResets
  BY <1>1, LinkAssumption DEF LinkInv, Numbers
<1>4. /\ ToSlaveOK(toSlave', L, Sent) /\ ToMasterOK(toMaster', confirmed, L)
      /\ Free(toSlave, "SNURM") => Free(toSlave', "SNURM")
      /\ connects = 0 => Free(toMaster', "UA")
  BY <1>1 DEF LinkInv, Lines, SetUp
<1>5. /\ mRx' \in Seqs /\ sTx' \in Seqs /\ sRx' \in Seqs /\ owed' \in Nat
      /\ losses' \in 0..MaxLosses /\ ~(owed' > 0)
  BY <1>1 DEF LinkInv, Numbers, Seqs
<1>6. sUp' \in BOOLEAN /\ answerLost' \in BOOLEAN
  BY <1>1, <1>2 DEF LinkInv, Numbers
<1>7. UNCHANGED <<mUp, linkTimer, connects>>
  BY <1>1
<1>8. (sUp' => sRx' = L % 8) /\ (owed' > 0 => sUp')
  BY <1>2, <1>5
<1> QED BY <1>1, <1>3, <1>4, <1>5, <1>6, <1>7, <1>8, QuietStep

LEMMA NextSeqOf ==
  ASSUME NEW n \in Nat
  PROVE  NextSeq(n % 8) = (n + 1) % 8 /\ NextSeq(n % 8) \in Seqs
BY Z3 DEF NextSeq, Seqs

LEMMA SendDeferredKeeps ==
  ASSUME LinkInv, SendDeferred
  PROVE  LinkInv' /\ ChannelStep
<1> DEFINE f == IFrame(sTx, sRx, 0)
<1>1. /\ owed > 0 /\ owed' = owed - 1 /\ sTx' = NextSeq(sTx) /\ toMaster' = Append(toMaster, f)
      /\ UNCHANGED <<toSlave, mUp, linkTimer, connects, mRx, sRx, sUp, resets, losses, answerLost>>
      /\ Quiet
  BY DEF SendDeferred, SendReply, masterVars, counts, Quiet
<1>2. /\ mRx \in Seqs /\ sTx \in Seqs /\ sRx \in Seqs /\ owed \in Nat /\ sUp
      /\ sRx = L % 8 /\ resets \in 0..MaxResets /\ losses \in 0..MaxLosses
  BY <1>1 DEF LinkInv, Numbers
<1>3. f \in Frames /\ f.kind = "I" /\ f.nr = L % 8
  BY <1>2, IFrameType, LinkAssumption
<1>4. ToMasterOK(toMaster', confirmed, L)
  BY <1>1, <1>3, MasterAppendAck DEF LinkInv, Lines
<1>5. /\ ToSlaveOK(toSlave', L, Sent)
      /\ Free(toSlave, "SNURM") => Free(toSlave', "SNURM")
  BY <1>1 DEF LinkInv, Lines
<1>6. connects = 0 => Free(toMaster', "UA")
  BY <1>1, <1>3, FreeAppend, TypesOf DEF LinkInv, SetUp
<1>7. sTx' \in Seqs
  BY <1>1, <1>2 DEF NextSeq, Seqs
<1>8. owed' \in Nat
  BY <1>1, <1>2
<1>9. /\ mRx' \in Seqs /\ sRx' \in Seqs /\ resets' \in 0..MaxResets /\ losses' \in 0..MaxLosses
      /\ sUp' \in BOOLEAN /\ answerLost' \in BOOLEAN
  BY <1>1, <1>2 DEF LinkInv, Numbers
<1>10. (sUp' => sRx' = L % 8) /\ (owed' > 0 => sUp')
  BY <1>1, <1>2
<1>11. UNCHANGED <<mUp, linkTimer, connects>>
  BY <1>1
<1> QED BY <1>1, <1>4, <1>5, <1>6, <1>7, <1>8, <1>9, <1>10, <1>11, QuietStep

\* A frame in sequence is the packet after the last one delivered, and all the
\* others were confirmed.
LEMMA InSequenceIsNext ==
  ASSUME LinkInv, toSlave # <<>>, Head(toSlave).kind = "I", InSequence(Head(toSlave))
  PROVE  Head(toSlave).body = L + 1 /\ Sent = L + 1 /\ confirmed = L /\ sUp /\ sRx = L % 8
<1> DEFINE b == Head(toSlave).body
<1>1. b \in 1..Sent /\ L <= b /\ Head(toSlave).ns = (b - 1) % 8
  BY TailOf DEF LinkInv, Lines, ToSlaveOK
<1>2. sUp /\ Head(toSlave).ns = L % 8 /\ sRx = L % 8
  BY DEF InSequence, LinkInv, Numbers
<1> HIDE DEF b
<1>3. b \in Nat /\ (b = L \/ b = L + 1)
  BY <1>1, TypesOf
<1>4. b # L
  <2>1. L \in Nat
    BY TypesOf
  <2> HIDE DEF L
  <2>2. L >= 1 => (L - 1) % 8 # L % 8
    BY <2>1, Z3
  <2> QED BY <1>1, <1>2, <2>2
<1> QED BY <1>1, <1>2, <1>3, <1>4, TypesOf DEF b

LEMMA SlaveInformationKeeps ==
  ASSUME LinkInv, SlaveInformation
  PROVE  LinkInv' /\ ChannelStep
<1> DEFINE f == Head(toSlave)
<1>1. /\ toSlave # <<>> /\ f.kind = "I" /\ toSlave' = Tail(toSlave)
      /\ UNCHANGED <<mUp, mRx, linkTimer, tx, ack, slots, inputQueue, rexTimer, sUp, submitted,
                     confirmed, connects, resets, losses, answerLost>>
  BY DEF SlaveInformation, SlaveTakes, masterVars, txQueue, counts
<1>2. CASE InSequence(f)
  <2>1. f.body = L + 1 /\ Sent = L + 1 /\ confirmed = L /\ sUp /\ sRx = L % 8
    BY <1>1, <1>2, InSequenceIsNext
  <2>2. L \in Nat /\ L + 1 <= MaxPackets
    BY <2>1, TypesOf, LinkAssumption
  <2>3. /\ sRx' = NextSeq(sRx) /\ delivered' = Append(delivered, L + 1)
        /\ \/ SendReply(sRx') /\ UNCHANGED owed
           \/ AckLastFrame(sRx') /\ UNCHANGED <<sTx, owed>>
           \/ owed' = owed + 1 /\ UNCHANGED <<toMaster, sTx>>
    BY <1>2, <2>1 DEF SlaveInformation
  <2>4. sRx' = (L + 1) % 8 /\ sRx' \in Seqs
    <3> HIDE DEF L
    <3> QED BY <2>1, <2>2, <2>3, NextSeqOf
  <2>5. L' = L + 1 /\ Sent' = Sent /\ Delivered'
    <3>1. /\ delivered' \in Seq(0..MaxPackets) /\ Len(delivered') = Len(delivered) + 1
          /\ \A k \in 1..Len(delivered) : delivered'[k] = delivered[k]
          /\ delivered'[Len(delivered) + 1] = L + 1
      BY <2>2, <2>3 DEF LinkInv, Delivered
    <3>2. L' = L + 1
      BY <3>1 DEF L
    <3>3. Sent' = Sent
      BY <1>1 DEF Sent
    <3>4. \A k \in 1..L + 1 : k \in 1..L \/ k = L + 1
      BY <2>2
    <3>5. \A k \in 1..L + 1 : delivered'[k] = k
      BY <3>1, <3>4 DEF L, LinkInv, Delivered
    <3> QED BY <3>1, <3>2, <3>3, <3>5 DEF Delivered
  <2>6. ToSlaveOK(toSlave', L + 1, Sent) /\ Free(toSlave', "SNURM")
    BY <1>1, <2>1, TypesOf, SlaveAccepts DEF LinkInv, Lines
  <2>7. ToMasterOK(toMaster, L, L + 1)
    BY <2>1, <2>2, MasterMore DEF LinkInv, Lines
  <2>8. sTx \in Seqs /\ owed \in Nat
    BY DEF LinkInv, Numbers
  <2>9. /\ ToMasterOK(toMaster', L, L + 1) /\ sTx' \in Seqs /\ owed' \in Nat
        /\ Free(toMaster, "UA") => Free(toMaster', "UA")
    <3>1. CASE SendReply(sRx') /\ UNCHANGED owed
      <4>1. /\ toMaster' = Append(toMaster, IFrame(sTx, sRx', 0)) /\ sTx' = NextSeq(sTx)
        BY <3>1 DEF SendReply
      <4>2. /\ IFrame(sTx, sRx', 0) \in Frames /\ IFrame(sTx, sRx', 0).kind = "I"
            /\ IFrame(sTx, sRx', 0).nr = (L + 1) % 8
        BY <2>4, <2>8, IFrameType, LinkAssumption
      <4>3. sTx' \in Seqs
        BY <2>8, <4>1 DEF NextSeq, Seqs
      <4> HIDE DEF L
      <4> QED BY <2>7, <2>8, <3>1, <4>1, <4>2, <4>3, MasterAppendAck, FreeAppend, TypesOf
    <3>2. CASE AckLastFrame(sRx') /\ UNCHANGED <<sTx, owed>>
      <4>1. toMaster' = Append(toMaster, Supervisory("RR", sRx'))
        BY <3>2 DEF AckLastFrame
      <4>2. /\ Supervisory("RR", sRx') \in Frames /\ Supervisory("RR", sRx').kind = "RR"
            /\ Supervisory("RR", sRx').nr = (L + 1) % 8
        BY <2>4, SupervisoryType DEF Kinds
      <4> HIDE DEF L
      <4> QED BY <2>7, <2>8, <3>2, <4>1, <4>2, MasterAppendAck, FreeAppend, TypesOf
    <3>3. CASE owed' = owed + 1 /\ UNCHANGED <<toMaster, sTx>>
      BY <2>7, <2>8, <3>3
    <3> QED BY <2>3, <3>1, <3>2, <3>3
  <2>10. Lines'
    BY <1>1, <2>1, <2>5, <2>6, <2>9 DEF Lines
  <2>11. Packets'
    BY <1>1, <2>1, <2>5 DEF LinkInv, Packets
  <2>12. Window'
    <3>1. TxQueue' = TxQueue
      BY <1>1 DEF TxQueue
    <3> QED BY <1>1, <2>5, <3>1 DEF LinkInv, Window
  <2>13. SetUp'
    BY <1>1, <2>6, <2>9 DEF LinkInv, SetUp
  <2>14. Numbers'
    <3>1. /\ mRx' \in Seqs /\ resets' \in 0..MaxResets /\ losses' \in 0..MaxLosses
          /\ sUp' \in BOOLEAN /\ answerLost' \in BOOLEAN /\ sUp'
      BY <1>1, <2>1 DEF LinkInv, Numbers
    <3> QED BY <2>4, <2>5, <2>9, <3>1 DEF Numbers
  <2>15. ChannelStep
    <3>1. Len(delivered) < submitted /\ delivered' = Append(delivered, Len(delivered) + 1)
      BY <2>1, <2>3, TypesOf DEF L
    <3> QED BY <1>1, <3>1 DEF ChannelStep, Channel!Next, Channel!Deliver
  <2> QED BY <2>5, <2>10, <2>11, <2>12, <2>13, <2>14, <2>15 DEF LinkInv
<1>3. CASE ~InSequence(f)
  <2>1. /\ toMaster' = Append(toMaster, Supervisory("REJ", sRx))
        /\ UNCHANGED <<sRx, sTx, owed, delivered>>
    BY <1>3 DEF SlaveInformation, SlaveRejects
  <2>2. UNCHANGED <<masterVars, slaveVars, appVars, connects, resets>>
    BY <1>1, <2>1 DEF masterVars, txQueue, slaveVars, appVars
  <2>3. sRx \in Seqs /\ losses' \in 0..MaxLosses /\ answerLost' \in BOOLEAN
    BY <1>1 DEF LinkInv, Numbers
  <2>4. /\ Supervisory("REJ", sRx) \in Frames /\ Supervisory("REJ", sRx).kind = "REJ"
        /\ Supervisory("REJ", sRx).kind \notin Acks
    BY <2>3, SupervisoryType DEF Kinds, Acks
  <2>5. ToSlaveOK(toSlave', L, Sent) /\ (Free(toSlave, "SNURM") => Free(toSlave', "SNURM"))
    BY <1>1, SlaveTail, FreeTail, TypesOf DEF LinkInv, Lines
  <2>6. ToMasterOK(toMaster', confirmed, L) /\ (Free(toMaster, "UA") => Free(toMaster', "UA"))
    BY <2>1, <2>4, MasterAppendOther, FreeAppend, TypesOf DEF LinkInv, Lines
  <2> QED BY <2>2, <2>3, <2>5, <2>6, LineStep
<1> QED BY <1>2, <1>3

(***************************************************************************)
(* The theorems.                                                           *)
(***************************************************************************)
LEMMA NextKeeps ==
  ASSUME OnceUp, LinkInv, [Next]_vars
  PROVE  LinkInv' /\ ChannelStep
<1>1. CASE Submit
  BY <1>1, SubmitKeeps
<1>2. CASE Connect
  BY <1>2, ConnectKeeps
<1>3. CASE LinkExpired
  BY <1>3, LinkExpiredKeeps
<1>4. CASE RetransmitTimerExpired
  BY <1>4, RetransmitKeeps
<1>5. CASE MasterReceives
  BY <1>5, MasterInformationKeeps, MasterReceiverReadyKeeps, MasterUnnumberedAckKeeps,
     MasterOtherKeeps DEF MasterReceives
<1>6. CASE SlaveReceives
  BY <1>6, SlaveInformationKeeps, SlaveSetModeKeeps, SlaveOtherKeeps DEF SlaveReceives
<1>7. CASE SendDeferred
  BY <1>7, SendDeferredKeeps
<1>8. CASE SlaveReset
  BY <1>8, SlaveResetKeeps
<1>9. CASE Lose
  BY <1>9, LoseKeeps
<1>10. CASE UNCHANGED vars
  <2>1. /\ UNCHANGED <<masterVars, slaveVars, appVars, connects, resets>>
        /\ UNCHANGED <<toSlave, toMaster, losses, answerLost>>
    BY <1>10 DEF vars, lines, counts
  <2>2. losses' \in 0..MaxLosses /\ answerLost' \in BOOLEAN
    BY <2>1 DEF LinkInv, Numbers
  <2>3. /\ ToSlaveOK(toSlave', L, Sent) /\ ToMasterOK(toMaster', confirmed, L)
        /\ Free(toSlave, "SNURM") => Free(toSlave', "SNURM")
        /\ Free(toMaster, "UA") => Free(toMaster', "UA")
    BY <2>1 DEF LinkInv, Lines
  <2> QED BY <2>1, <2>2, <2>3, LineStep
<1> QED BY <1>1, <1>2, <1>3, <1>4, <1>5, <1>6, <1>7, <1>8, <1>9, <1>10 DEF Next

LEMMA QueueFields ==
  ASSUME LinkInv
  PROVE  /\ tx = Sent % 8 /\ ack = confirmed % 8
         /\ slots = [i \in Seqs |-> IF Sent > confirmed /\ i = confirmed % 8 THEN Sent ELSE 0]
<1>1. TxQueue = QueueOf(confirmed, Sent)
  BY DEF LinkInv, Window
<1>2. TxQueue.tx = tx /\ TxQueue.ack = ack /\ TxQueue.slots = slots
  BY DEF TxQueue
<1> QED BY <1>1, <1>2 DEF QueueOf

LEMMA InvType == ASSUME LinkInv PROVE TypeOK
<1>1. tx \in Seqs /\ ack \in Seqs /\ slots \in [Seqs -> 0..MaxPackets]
  <2>1. Sent \in 0..MaxPackets
    BY TypesOf, LinkAssumption
  <2>2. Sent % 8 \in Seqs /\ confirmed % 8 \in Seqs
    <3>1. \A n \in Nat : n % 8 \in Seqs
      BY DEF Seqs
    <3>2. Sent \in Nat /\ confirmed \in Nat
      BY TypesOf
    <3> QED BY <3>1, <3>2
  <2>3. [i \in Seqs |-> IF Sent > confirmed /\ i = confirmed % 8 THEN Sent ELSE 0]
          \in [Seqs -> 0..MaxPackets]
    BY <2>1, LinkAssumption
  <2> QED BY <2>2, <2>3, QueueFields
<1>2. toSlave \in Seq(Frames) /\ toMaster \in Seq(Frames) /\ confirmed \in 0..MaxPackets
  BY TypesOf, LinkAssumption
<1>3. /\ rexTimer \in BOOLEAN /\ mUp \in BOOLEAN /\ linkTimer \in BOOLEAN /\ sUp \in BOOLEAN
      /\ answerLost \in BOOLEAN
  BY DEF LinkInv, Window, SetUp, Numbers
<1>4. /\ inputQueue \in Seq(1..MaxPackets) /\ submitted \in 0..MaxPackets
      /\ delivered \in Seq(0..MaxPackets)
      /\ mRx \in Seqs /\ sTx \in Seqs /\ sRx \in Seqs /\ owed \in Nat
      /\ connects \in 0..MaxConnects /\ resets \in 0..MaxResets /\ losses \in 0..MaxLosses
  BY DEF LinkInv, Packets, Delivered, SetUp, Numbers
<1> QED BY <1>1, <1>2, <1>3, <1>4 DEF TypeOK

LEMMA WindowFacts ==
  ASSUME LinkInv
  PROVE  /\ ToBeAcked(TxQueue) = Sent - confirmed
         /\ Sent = confirmed + 1 => slots[Latest(TxQueue)] = Sent
<1>1. TxQueue = QueueOf(confirmed, Sent) /\ TxQueue.slots = slots
  BY DEF LinkInv, Window, TxQueue
<1>2. confirmed \in Nat /\ Sent \in {confirmed, confirmed + 1}
  BY TypesOf
<1>3. /\ ToBeAcked(QueueOf(confirmed, Sent)) = Sent - confirmed
      /\ Sent = confirmed + 1 =>
           QueueOf(confirmed, Sent).slots[Latest(QueueOf(confirmed, Sent))] = Sent
  BY <1>2, QueueFacts
<1> QED BY <1>1, <1>3

LEMMA InvNeverForgotten == ASSUME LinkInv PROVE NeverForgotten
<1>1. ToBeAcked(TxQueue) > 0 => Sent = confirmed + 1 /\ Sent # 0 /\ Sent > confirmed
  BY WindowFacts, TypesOf
<1>2. Sent > confirmed => rexTimer
  BY DEF LinkInv, Window
<1>3. ToBeAcked(TxQueue) > 0 => rexTimer /\ slots[Latest(TxQueue)] # 0
  BY <1>1, <1>2, WindowFacts
<1> QED BY <1>3 DEF NeverForgotten

LEMMA InvSequencesAgree == ASSUME LinkInv PROVE SequencesAgree
<1>1. sUp => sRx = L % 8
  BY DEF LinkInv, Numbers
<1>2. ToBeAcked(TxQueue) = 0 => Sent = L
  BY WindowFacts, TypesOf
<1>3. tx = Sent % 8
  BY QueueFields
<1> QED BY <1>1, <1>2, <1>3 DEF SequencesAgree

\* The strengthened invariant of the link is inductive.
THEOREM LinkHolds == ASSUME OnceUp PROVE Spec => []LinkInv
<1>1. Init => LinkInv
  BY InitHolds
<1>2. LinkInv /\ [Next]_vars => LinkInv'
  BY NextKeeps
<1> QED BY <1>1, <1>2, PTL DEF Spec

\* Every variable keeps its type, and the transmit queue its window.
THEOREM LinkTypes == ASSUME OnceUp PROVE Spec => []TypeOK
<1>1. LinkInv => TypeOK
  BY InvType
<1> QED BY <1>1, LinkHolds, PTL

\* startXmit() and checkXmit(): a packet that waits for its acknowledgement has
\* its slot and its timer, however many packets and losses came before.
THEOREM LinkRemembers == ASSUME OnceUp PROVE Spec => []NeverForgotten
<1>1. LinkInv => NeverForgotten
  BY InvNeverForgotten
<1> QED BY <1>1, LinkHolds, PTL

\* The slave of a quiet link expects the number the master will send.
THEOREM LinkAgrees == ASSUME OnceUp PROVE Spec => []SequencesAgree
<1>1. LinkInv => SequencesAgree
  BY InvSequencesAgree
<1> QED BY <1>1, LinkHolds, PTL

\* The link implements the channel: packets are delivered once and in order, and
\* none is discarded before it is delivered.
THEOREM LinkDelivers == ASSUME OnceUp PROVE Spec => ImplementsChannel
<1>1. Init => Channel!Init
  BY DEF Init, Channel!Init
<1>2. LinkInv /\ [Next]_vars => [Channel!Next]_<<submitted, delivered, confirmed>>
  BY NextKeeps DEF ChannelStep
<1> QED BY <1>1, <1>2, LinkHolds, PTL DEF Spec, ImplementsChannel, Channel!Spec
================================================================================
