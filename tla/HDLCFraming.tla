------------------------------ MODULE HDLCFraming ------------------------------
(***************************************************************************)
(* The framing of SerProHDLC: one station receives, byte by byte, the      *)
(* frames its peer sends, and sends frames of its own in between, for      *)
(* which it uses the same buffer pointer and the same CRC generator.       *)
(*                                                                         *)
(* A byte is a tuple: <<"7E">> is the flag, <<"7D">> the escape, any other *)
(* a data byte.  The CRC is ideal: the two bytes that end the frame with   *)
(* content c are <<"hi", c>> and <<"lo", c>>, and the generator holds the  *)
(* bytes it was fed since its reset.  The line loses or changes at most    *)
(* MaxNoise bytes.                                                         *)
(***************************************************************************)
EXTENDS Integers, Sequences, SequencesExt

CONSTANTS maxPacketSize,  \* Config::maxPacketSize
          MaxFrames,      \* bound: frames the peer sends
          Payloads,       \* what they carry behind address and control
          OwnContents,    \* the contents of the frames the station sends
          MaxOwn,         \* bound: frames it sends between two bytes it receives
          MaxNoise        \* bound: bytes lost or changed

ASSUME FramingAssumption ==
  /\ maxPacketSize \in Nat /\ maxPacketSize >= 4
  /\ MaxFrames \in Nat /\ MaxOwn \in Nat /\ MaxNoise \in Nat

\* The two bytes of a CRC, and what else a frame is made of, are not mistaken for
\* each other.
ASSUME BytesAssumption ==
  \A content \in Payloads \union OwnContents :
    /\ content \in Seq(Range(content))
    /\ \A b \in Range(content) : b[1] # "hi"

VARIABLES
  line,        \* bytes on their way, with the number of the frame each ends or 0
  inPacket, unEscaping,
  buffer,      \* the pBufPtr bytes of getBuffer()
  crcgen,      \* what crcgen has been fed since its reset
  sent, got,   \* history: frames the peer sent, contents handed to a handler
  own, noise,  \* history and bounds
  clear        \* history: frames that arrived whole, with no frame of our own
               \* inside, since the last disturbance; -1 in a disturbed one

vars == <<line, inPacket, unEscaping, buffer, crcgen, sent, got, own, noise, clear>>

Flag == <<"7E">>
Escape == <<"7D">>

\* b ^ HDLC_escapeXOR; a byte that needs no escape becomes some other one.
Xor(b) ==
  CASE b = <<"7E">> -> <<"5E">>
    [] b = <<"5E">> -> <<"7E">>
    [] b = <<"7D">> -> <<"5D">>
    [] b = <<"5D">> -> <<"7D">>
    [] OTHER -> <<"^", b>>

SendByte(b) == IF b \in {Flag, Escape} THEN <<Escape, Xor(b)>> ELSE <<b>>

\* Two bytes that depend on everything in the content.
Crc(content) == <<<<"hi", content>>, <<"lo", content>>>>

\* A frame on the line, from flag to flag.
Framed(content) ==
  <<Flag>> \o FlattenSeq([i \in 1..Len(content) + 2 |-> SendByte((content \o Crc(content))[i])])
  \o <<Flag>>

\* Address, control field with the number of the frame, payload.
Content(n, payload) == <<<<"FF">>, <<"ctl", n>>>> \o payload

Init ==
  /\ line = <<>> /\ sent = <<>> /\ got = <<>>
  /\ inPacket = FALSE /\ unEscaping = FALSE /\ buffer = <<>> /\ crcgen = <<>>
  /\ own = 0 /\ noise = 0 /\ clear = 0

\* The peer writes a whole frame.  The receiver sees the head of the line alone, so
\* the next frame need not be there before it gets to it.
PeerSends ==
  /\ Len(sent) < MaxFrames /\ line = <<>>
  /\ \E payload \in Payloads :
       LET content == Content(Len(sent) + 1, payload)
           frame   == Framed(content)
       IN  /\ sent' = Append(sent, content)
           /\ line' = line \o [i \in DOMAIN frame |->
                [byte |-> frame[i], ends |-> IF i = Len(frame) THEN Len(sent') ELSE 0]]
  /\ UNCHANGED <<inPacket, unEscaping, buffer, crcgen, got, own, noise, clear>>

\* startPacket(), and the bytes that are fed to the generator as they are sent.
Sending(content) == buffer' = <<>> /\ crcgen' = content

\* A deferred reply, or any other frame, sent between two received bytes.
SendOwn ==
  /\ own < MaxOwn /\ own' = own + 1
  /\ \E content \in OwnContents : Sending(content)
  /\ clear' = IF inPacket THEN -1 ELSE clear
  /\ UNCHANGED <<line, inPacket, unEscaping, sent, got, noise>>

\* getMinusTwo(): the CRC before the last two bytes.
MinusTwo(crc) == SubSeq(crc, 1, Len(crc) - 2)

\* Mutant: the handler is called after a CRC error too
PreProcessGoesOn ==
  LET length == Len(buffer)
  IN  IF length < 4 THEN UNCHANGED <<buffer, crcgen, got>>
      ELSE /\ got' = Append(got, SubSeq(buffer, 1, length - 2))
           /\ buffer' = <<>>
           /\ crcgen' \in OwnContents \union {crcgen}

\* preProcessPacket(): a short frame is ignored, a wrong CRC answered with a UI
\* frame, and what is right handed on; the handler sends a frame or none.
PreProcessPacket ==
  LET length == Len(buffer)
  IN  IF length < 4 THEN UNCHANGED <<buffer, crcgen, got>>
      ELSE IF SubSeq(buffer, length - 1, length) # Crc(MinusTwo(crcgen))
      THEN Sending(<<<<"oob">>>>) /\ UNCHANGED got
      ELSE /\ got' = Append(got, SubSeq(buffer, 1, length - 2))
           /\ buffer' = <<>>
           /\ crcgen' \in OwnContents \union {crcgen}

\* Mutant: a flag that follows a flag ends an empty frame
FlagAlwaysToggles ==
  IF inPacket
  THEN inPacket' = FALSE /\ PreProcessPacket
  ELSE inPacket' = TRUE /\ buffer' = <<>> /\ crcgen' = <<>> /\ UNCHANGED got

\* A flag ends a frame, if it has bytes, or begins one.
FrameFlag ==
  IF inPacket
  THEN IF buffer # <<>> THEN inPacket' = FALSE /\ PreProcessPacket
                        ELSE UNCHANGED <<inPacket, buffer, crcgen, got>>
  ELSE inPacket' = TRUE /\ buffer' = <<>> /\ crcgen' = <<>> /\ UNCHANGED got

\* Mutant: the test allows one byte more
HasRoomForOneMore == Len(buffer) <= maxPacketSize

HasRoom == Len(buffer) < maxPacketSize

\* A byte that does not fit is neither stored nor fed to the generator.
Store(b) ==
  /\ IF HasRoom THEN buffer' = Append(buffer, b) /\ crcgen' = Append(crcgen, b)
                ELSE UNCHANGED <<buffer, crcgen>>
  /\ UNCHANGED <<inPacket, got>>

\* processData()
ProcessData ==
  /\ line # <<>> /\ line' = Tail(line)
  /\ LET b == Head(line).byte
     IN  IF b = Escape THEN unEscaping' = TRUE /\ UNCHANGED <<inPacket, buffer, crcgen, got>>
         ELSE IF b = Flag /\ ~unEscaping THEN FrameFlag /\ UNCHANGED unEscaping
         ELSE Store(IF unEscaping THEN Xor(b) ELSE b) /\ unEscaping' = FALSE
  /\ clear' = IF Head(line).ends # 0 THEN clear + 1 ELSE clear
  /\ UNCHANGED <<sent, own, noise>>

\* A byte is lost, or becomes a flag, an escape or another byte.
Noise ==
  /\ noise < MaxNoise /\ line # <<>>
  /\ noise' = noise + 1
  /\ \/ line' = Tail(line) /\ clear' = IF Head(line).ends # 0 THEN 0 ELSE -1
     \/ /\ \E b \in {Flag, Escape, <<"00">>} \ {Head(line).byte} :
             line' = [line EXCEPT ![1].byte = b]
        /\ clear' = -1
  /\ UNCHANGED <<inPacket, unEscaping, buffer, crcgen, sent, got, own>>

Next == PeerSends \/ SendOwn \/ ProcessData \/ Noise

Spec == Init /\ [][Next]_vars

(***************************************************************************)
(* Properties.                                                             *)
(***************************************************************************)
\* Every variable has its type; what is stored beyond getBuffer() is at most the
\* one byte behind _pBuf_internal.
TypeOK ==
  /\ inPacket \in BOOLEAN /\ unEscaping \in BOOLEAN
  /\ Len(buffer) <= maxPacketSize
  /\ Len(got) <= Len(sent)
  /\ noise \in 0..MaxNoise /\ own \in 0..MaxOwn /\ clear \in -1..MaxFrames

\* Whatever is lost or changed, and whatever the station sends in between, a
\* handler is given only contents that the peer framed, in their order and each
\* at most once: no frame is made of parts of two or of our own bytes.
OnlySentFrames ==
  \E f \in [1..Len(got) -> 1..Len(sent)] :
    /\ \A i \in 1..Len(got) : got[i] = sent[f[i]]
    /\ \A i, j \in 1..Len(got) : i < j => f[i] < f[j]

\* The receiver finds the frames again: when a frame has come undisturbed and
\* the one before it too, it is handed on.
Resynchronises ==
  [][ProcessData /\ Head(line).ends # 0 /\ clear >= 1
       /\ Len(sent[Head(line).ends]) + 2 <= maxPacketSize
     => got' = Append(got, sent[Head(line).ends])]_vars
================================================================================
