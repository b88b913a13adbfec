----------------------------- MODULE RingBuffer -----------------------------
(***************************************************************************)
(* CRingBuffer<T, N> of include/ringbuffer.h: a circular array shared by   *)
(* interrupt handlers and CPU cores under a spin lock.  m_MIDIRxBuffer     *)
(* (USB and pisound MIDI, filled by IRQMIDIReceiveHandler, drained by      *)
(* UpdateMIDI and PurgeMIDIBuffers) and m_EventQueue (filled by CControl   *)
(* on core 0 and CMisterControl on core 1, drained by ProcessEventQueue)   *)
(* are its instances.  Every turn of the copying loops is a step, so a     *)
(* block is visibly half copied while the lock is held.  The single-item   *)
(* overloads are blocks of length 1.                                       *)
(***************************************************************************)
EXTENDS Integers, Sequences, FiniteSets

CONSTANTS Item, NoItem,          \* NoItem: a slot of the zeroed m_Data
          N,                     \* template parameter: the number of slots
          MaxBlock,              \* bound: longest block of one call
          Producers, Consumers,  \* callers of Enqueue and of Dequeue
          Free                   \* nobody holds the spin lock

ASSUME SizeAssumption == N \in Nat \ {0}
(* static_assert(Utility::IsPowerOfTwo(N)): what makes & BufferMask a modulo *)
ASSUME PowerOfTwoAssumption == \E k \in 0..31 : N = 2^k
ASSUME BlockAssumption == MaxBlock \in Nat
ASSUME ClientAssumption == /\ Producers \cap Consumers = {}
                           /\ Free \notin Producers \cup Consumers

VARIABLES m_nInPtr, m_nOutPtr, m_Data,
          lock,       \* m_Lock: the client that holds it, or Free
          pc,         \* pc[x]: where client x is in its call
          pItems,     \* pItems[p]: the block producer p passed
          nEnqueued,  \* nEnqueued[p]: items of it copied so far
          nMaxCount,  \* nMaxCount[c]: the most consumer c asked for
          pOutBuffer, \* pOutBuffer[c]: items copied to c so far
          returned    \* history: caller, count and items of the last call

shared == <<m_nInPtr, m_nOutPtr, m_Data>>
producing == <<pItems, nEnqueued>>
consuming == <<nMaxCount, pOutBuffer>>
vars == <<shared, lock, pc, producing, consuming, returned>>

Client == Producers \cup Consumers
Slot == 0..(N - 1)
Block == UNION {[1..n -> Item] : n \in 0..MaxBlock}

TypeOK ==
  /\ m_nInPtr \in Slot
  /\ m_nOutPtr \in Slot
  /\ m_Data \in [Slot -> Item \cup {NoItem}]
  /\ lock \in Client \cup {Free}
  /\ pc \in [Client -> {"idle", "acquiring", "locked"}]
  /\ pItems \in [Producers -> Seq(Item)]
  /\ nEnqueued \in [Producers -> Nat]
  /\ nMaxCount \in [Consumers -> 0..MaxBlock]
  /\ pOutBuffer \in [Consumers -> Seq(Item)]
  /\ returned \in [by : SUBSET Client, count : Nat, items : Seq(Item)]

Init ==
  /\ m_nInPtr = 0
  /\ m_nOutPtr = 0
  /\ m_Data = [i \in Slot |-> NoItem]
  /\ lock = Free
  /\ pc = [x \in Client |-> "idle"]
  /\ pItems = [p \in Producers |-> <<>>]
  /\ nEnqueued = [p \in Producers |-> 0]
  /\ nMaxCount = [c \in Consumers |-> 0]
  /\ pOutBuffer = [c \in Consumers |-> <<>>]
  /\ returned = [by |-> {}, count |-> 0, items |-> <<>>]

Advance_NoWrap(i) == IF i = N THEN 0 ELSE i + 1  \* seeded fault

(* (i + 1) & BufferMask, BufferMask = N - 1 with N a power of two. *)
Advance(i) == (i + 1) % N

Full == Advance(m_nInPtr) = m_nOutPtr
Empty == m_nInPtr = m_nOutPtr

----------------------------------------------------------------------------
(* Seeded faults: each is a plausible slip in the operation it mimics.     *)

Acquire_NotExclusive(x) ==
  /\ pc[x] = "acquiring"
  /\ lock' = x
  /\ pc' = [pc EXCEPT ![x] = "locked"]
  /\ UNCHANGED <<shared, producing, consuming, returned>>
EnqueueReturn_ReportsAll(p) ==
  /\ pc[p] = "locked"
  /\ nEnqueued[p] = Len(pItems[p]) \/ Full
  /\ lock' = Free
  /\ pc' = [pc EXCEPT ![p] = "idle"]
  /\ returned' = [by |-> {p}, count |-> Len(pItems[p]), items |-> <<>>]
  /\ pItems' = [pItems EXCEPT ![p] = <<>>]
  /\ nEnqueued' = [nEnqueued EXCEPT ![p] = 0]
  /\ UNCHANGED <<shared, consuming>>

----------------------------------------------------------------------------
Enqueue(p, block) ==
  /\ pc[p] = "idle"
  /\ pc' = [pc EXCEPT ![p] = "acquiring"]
  /\ pItems' = [pItems EXCEPT ![p] = block]
  /\ UNCHANGED <<shared, lock, consuming, nEnqueued, returned>>

Dequeue(c, max) ==
  /\ pc[c] = "idle"
  /\ pc' = [pc EXCEPT ![c] = "acquiring"]
  /\ nMaxCount' = [nMaxCount EXCEPT ![c] = max]
  /\ UNCHANGED <<shared, lock, producing, pOutBuffer, returned>>

(* CSpinLock at IRQ_LEVEL: other cores spin, and this core takes no IRQ.   *)
Acquire(x) ==
  /\ pc[x] = "acquiring"
  /\ lock = Free
  /\ lock' = x
  /\ pc' = [pc EXCEPT ![x] = "locked"]
  /\ UNCHANGED <<shared, producing, consuming, returned>>

(* One turn of Enqueue's loop in which EnqueueOne finds room. *)
EnqueueOne(p) ==
  /\ pc[p] = "locked"
  /\ nEnqueued[p] < Len(pItems[p])
  /\ ~Full
  /\ m_Data' = [m_Data EXCEPT ![m_nInPtr] = pItems[p][nEnqueued[p] + 1]]
  /\ m_nInPtr' = Advance(m_nInPtr)
  /\ nEnqueued' = [nEnqueued EXCEPT ![p] = @ + 1]
  /\ UNCHANGED <<m_nOutPtr, lock, pc, consuming, pItems, returned>>

(* The loop ends: all copied, or EnqueueOne failed.  The lock is released, *)
(* the count returned and the call's locals go out of scope.               *)
EnqueueReturn(p) ==
  /\ pc[p] = "locked"
  /\ nEnqueued[p] = Len(pItems[p]) \/ Full
  /\ lock' = Free
  /\ pc' = [pc EXCEPT ![p] = "idle"]
  /\ returned' = [by |-> {p}, count |-> nEnqueued[p], items |-> <<>>]
  /\ pItems' = [pItems EXCEPT ![p] = <<>>]
  /\ nEnqueued' = [nEnqueued EXCEPT ![p] = 0]
  /\ UNCHANGED <<shared, consuming>>

(* One turn of Dequeue's loop. *)
DequeueOne(c) ==
  /\ pc[c] = "locked"
  /\ ~Empty
  /\ Len(pOutBuffer[c]) < nMaxCount[c]
  /\ pOutBuffer' = [pOutBuffer EXCEPT ![c] = Append(@, m_Data[m_nOutPtr])]
  /\ m_nOutPtr' = Advance(m_nOutPtr)
  /\ UNCHANGED <<m_nInPtr, m_Data, lock, pc, producing, nMaxCount, returned>>

DequeueReturn(c) ==
  /\ pc[c] = "locked"
  /\ Empty \/ Len(pOutBuffer[c]) = nMaxCount[c]
  /\ lock' = Free
  /\ pc' = [pc EXCEPT ![c] = "idle"]
  /\ returned' = [by |-> {c}, count |-> Len(pOutBuffer[c]),
                  items |-> pOutBuffer[c]]
  /\ nMaxCount' = [nMaxCount EXCEPT ![c] = 0]
  /\ pOutBuffer' = [pOutBuffer EXCEPT ![c] = <<>>]
  /\ UNCHANGED <<shared, producing>>

ProducerStep(p) == \/ \E block \in Block : Enqueue(p, block)
                   \/ Acquire(p)
                   \/ EnqueueOne(p)
                   \/ EnqueueReturn(p)

ConsumerStep(c) == \/ \E max \in 0..MaxBlock : Dequeue(c, max)
                   \/ Acquire(c)
                   \/ DequeueOne(c)
                   \/ DequeueReturn(c)

Next == \/ \E p \in Producers : ProducerStep(p)
        \/ \E c \in Consumers : ConsumerStep(c)

Spec == Init /\ [][Next]_vars

----------------------------------------------------------------------------
(* How far the in pointer is ahead of the out pointer, and the items that  *)
(* lie between them, oldest first.                                         *)
Distance(out, in) == IF in >= out THEN in - out ELSE in + N - out
Used == Distance(m_nOutPtr, m_nInPtr)
Place(out, k) == (out + k - 1) % N
Contents == [k \in 1..Used |-> m_Data[Place(m_nOutPtr, k)]]

(* The queue as the last completed call left it: a block being copied in   *)
(* does not count yet, items being copied out still do.                    *)
Committed ==
  IF lock \in Producers THEN SubSeq(Contents, 1, Used - nEnqueued[lock])
  ELSE IF lock \in Consumers THEN pOutBuffer[lock] \o Contents
  ELSE Contents

Fifo == INSTANCE BoundedFifo WITH fifo <- Committed, Capacity <- N - 1

(* CRingBuffer is a FIFO of N - 1 items with atomic block calls: nothing   *)
(* is lost, repeated or reordered, blocks of two producers never mix, and  *)
(* the count returned to IRQMIDIReceiveHandler is what was really kept.    *)
FifoSpec == Fifo!Spec

----------------------------------------------------------------------------
(* Only the lock's holder is inside a copying loop. *)
OneInside == \A x \in Client : pc[x] = "locked" <=> lock = x

(* Every slot between the out and the in pointer was written before it is  *)
(* read: m_Data's zeroes never reach a consumer.                           *)
NoStaleSlot == \A k \in 1..Used : Contents[k] \in Item

(* What a producer has copied so far is the newest part of the contents,   *)
(* item for item; outside the loop it has copied nothing.                  *)
BlockAtEnd ==
  \A p \in Producers :
    /\ pItems[p] \in Block
    /\ nEnqueued[p] <= Len(pItems[p])
    /\ nEnqueued[p] <= Used
    /\ lock # p => nEnqueued[p] = 0
    /\ \A k \in 1..nEnqueued[p] :
         Contents[Used - nEnqueued[p] + k] = pItems[p][k]

(* What a consumer has taken so far and what is left still fit the buffer; *)
(* outside the loop it has taken nothing.                                  *)
TakenFits ==
  \A c \in Consumers :
    /\ Len(pOutBuffer[c]) <= nMaxCount[c]
    /\ Len(pOutBuffer[c]) + Used <= N - 1
    /\ lock # c => pOutBuffer[c] = <<>>

(* The inductive invariant of CRingBuffer: mutual exclusion of the copying *)
(* loops (m_Lock), no stale slot handed out, and the half-done call of the *)
(* lock's holder accounted for exactly (ringbuffer.h:54-95).               *)
RingInv == OneInside /\ NoStaleSlot /\ BlockAtEnd /\ TakenFits
=============================================================================
