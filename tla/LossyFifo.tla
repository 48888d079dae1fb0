------------------------------- MODULE LossyFifo -------------------------------
(***************************************************************************)
(* What a receive ring promises its reader: the bytes come out in the      *)
(* order they came in, none twice, and one is dropped only when Capacity   *)
(* bytes are waiting.                                                      *)
(***************************************************************************)
EXTENDS Naturals, Sequences

CONSTANT Capacity

VARIABLES q,        \* the bytes waiting, oldest first
          lastIn,   \* the last byte offered
          got       \* the last byte handed to the reader, 0 for none

Init == q = <<>> /\ lastIn = 0 /\ got = 0

Offer ==
  /\ lastIn' > lastIn
  /\ q' = IF Len(q) < Capacity THEN Append(q, lastIn') ELSE q
  /\ UNCHANGED got

Read ==
  /\ IF q = <<>> THEN got' = 0 /\ UNCHANGED q
                 ELSE got' = Head(q) /\ q' = Tail(q)
  /\ UNCHANGED lastIn

Peek ==
  /\ got' = IF q = <<>> THEN 0 ELSE Head(q)
  /\ UNCHANGED <<q, lastIn>>

Clear == q' = <<>> /\ UNCHANGED <<lastIn, got>>

Next == Offer \/ Read \/ Peek \/ Clear

Spec == Init /\ [][Next]_<<q, lastIn, got>>
================================================================================
