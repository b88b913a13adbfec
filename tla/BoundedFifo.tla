---------------------------- MODULE BoundedFifo ----------------------------
(***************************************************************************)
(* What CRingBuffer (include/ringbuffer.h) promises its clients: a queue   *)
(* that holds at most Capacity items, whose block operations are atomic.   *)
(* A producer's block is accepted up to the space there is and the caller  *)
(* is told how much of it was; a consumer takes a prefix of the queue.     *)
(***************************************************************************)
EXTENDS Integers, Sequences

CONSTANTS Item,       \* what the queue carries (MIDI bytes, events)
          Capacity,   \* the most items it holds
          MaxBlock,   \* longest block of one call
          Producers,
          Consumers

VARIABLES fifo,       \* the queued items, oldest first
          returned    \* the last completed call: its caller, the count it
                      \* returned and the items it handed out

vars == <<fifo, returned>>

Block == UNION {[1..n -> Item] : n \in 0..MaxBlock}

Lesser(a, b) == IF a <= b THEN a ELSE b

Init == /\ fifo = <<>>
        /\ returned = [by |-> {}, count |-> 0, items |-> <<>>]

(* The longest prefix of the block that fits is appended, in one step. *)
Enqueue(p, block) ==
  LET k == Lesser(Len(block), Capacity - Len(fifo))
  IN  /\ fifo' = fifo \o SubSeq(block, 1, k)
      /\ returned' = [by |-> {p}, count |-> k, items |-> <<>>]

(* The oldest items, up to the number asked for, are removed in one step. *)
Dequeue(c, max) ==
  LET k == Lesser(max, Len(fifo))
  IN  /\ returned' = [by |-> {c}, count |-> k, items |-> SubSeq(fifo, 1, k)]
      /\ fifo' = SubSeq(fifo, k + 1, Len(fifo))

Next == \/ \E p \in Producers, block \in Block : Enqueue(p, block)
        \/ \E c \in Consumers, max \in 0..MaxBlock : Dequeue(c, max)

Spec == Init /\ [][Next]_vars
=============================================================================
