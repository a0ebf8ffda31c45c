-------------------------------- MODULE Fifo --------------------------------
(***************************************************************************)
(* What a CircularBuffer promises its callers: a queue of at most          *)
(* `capacity' elements that loses its oldest one when it is full.          *)
(***************************************************************************)
EXTENDS Integers, Sequences

isFull(q, capacity) == Len(q) >= capacity

put(q, item, capacity) ==
  IF isFull(q, capacity) THEN Append(Tail(q), item) ELSE Append(q, item)

(* The default element stands for what pop and peek return when empty. *)
peek(q, default) == IF q = << >> THEN default ELSE q[1]

pop(q) == IF q = << >> THEN q ELSE Tail(q)
=============================================================================
