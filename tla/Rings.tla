-------------------------------- MODULE Rings --------------------------------
(***************************************************************************)
(* Index arithmetic shared by the ring buffers of the Arduino cores: a     *)
(* head that is written next, a tail that is read next, both advancing     *)
(* modulo the buffer size, one slot always left free so that head = tail   *)
(* means empty.                                                            *)
(***************************************************************************)
EXTENDS Integers

CONSTANT BufferSize          \* SERIAL_BUFFER_SIZE: 16 or 64 on the AVR

ASSUME BufferSizeAssumption == BufferSize \in Nat /\ BufferSize >= 2

Slots == 0 .. BufferSize - 1

\* Mutant: the index does not wrap.
IncUnbounded(i) == i + 1

\* The slot after i: (i + 1) % SERIAL_BUFFER_SIZE.
Inc(i) == (i + 1) % BufferSize

\* The slot k places after i.
Plus(i, k) == (i + k) % BufferSize

\* The bytes between tail and head, as available() computes it:
\* (unsigned int)(SERIAL_BUFFER_SIZE + head - tail) % SERIAL_BUFFER_SIZE.
Count(head, tail) == (BufferSize + head - tail) % BufferSize

\* The bytes of a ring, oldest first.
Contents(buf, head, tail) ==
  [k \in 1 .. Count(head, tail) |-> buf[Plus(tail, k - 1)]]
==============================================================================
