----------------------------- MODULE PacketChannel -----------------------------
(***************************************************************************)
(* What the link of SerProHDLC promises the master's application: packets  *)
(* numbered in the order they were submitted reach the slave's application *)
(* in that order, each once, and a packet is discarded by the master only  *)
(* when the slave has it.                                                  *)
(***************************************************************************)
EXTENDS Naturals, Sequences

VARIABLES submitted,   \* how many packets the master's application submitted
          delivered,   \* the packets the slave's application received
          confirmed    \* how many packets the master has discarded

Init == submitted = 0 /\ delivered = <<>> /\ confirmed = 0

Submit ==
  /\ submitted' = submitted + 1
  /\ UNCHANGED <<delivered, confirmed>>

Deliver ==
  /\ Len(delivered) < submitted
  /\ delivered' = Append(delivered, Len(delivered) + 1)
  /\ UNCHANGED <<submitted, confirmed>>

Confirm ==
  /\ confirmed < Len(delivered)
  /\ confirmed' = confirmed + 1
  /\ UNCHANGED <<submitted, delivered>>

Next == Submit \/ Deliver \/ Confirm

Spec == Init /\ [][Next]_<<submitted, delivered, confirmed>>
================================================================================
